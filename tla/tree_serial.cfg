SPECIFICATION Spec
CONSTANTS
    NumNodes = 3
    Handlers = {h1}
    NoHandler = NoHandler
    FileSizes = {1}
    Quota = 2
    Ops = {"create_folder", "upload", "upload_image", "move", "trash", "purge_node", "purge_trash", "recompute_used"}
    Faults = {"drop", "conflict", "stream", "unlink"}
INVARIANTS
    Rooted
    UsedIsExact
    TrashIsClosed
PROPERTY
    OnlyTrashIsPurged

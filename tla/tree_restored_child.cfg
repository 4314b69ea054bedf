SPECIFICATION Spec
CONSTANTS
    NumNodes = 2
    Handlers = {h1}
    NoHandler = NoHandler
    FileSizes = {1}
    Quota = 2
    Ops = {"create_folder", "upload", "trash", "restore", "purge_trash"}
    Faults = {}
PROPERTY
    OnlyTrashIsPurged

SPECIFICATION FairSpec
CONSTANTS
    NumNodes = 2
    Handlers = {h1, h2}
    NoHandler = NoHandler
    FileSizes = {1}
    Quota = 1
    Ops = {"create_folder", "upload_image", "trash", "restore", "purge_node", "recompute_used"}
    Faults = {"conflict"}
PROPERTY
    RequestsAreAnswered

SPECIFICATION Spec
CONSTANTS
    NumNodes = 2
    Handlers = {h1, h2}
    NoHandler = NoHandler
    FileSizes = {1, 2}
    Quota = 2
    Ops = {"create_folder", "upload", "upload_image", "trash", "purge_node", "purge_trash"}
    Faults = {"drop"}
SYMMETRY Symmetry
INVARIANTS
    TypeOK
    FileHasBlob
    ThumbnailIsThere
PROPERTY
    UploadsWithinQuota

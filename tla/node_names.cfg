SPECIFICATION Spec
CONSTANTS
    Root = Root
    Dir = Dir
    Keep = Keep
    Invalid = Invalid
    Items = {f1, f2}
    Handlers = {h1, h2}
    Names <- TwoNames
    MaxTries = 1
    Ops = {"create_folder", "upload", "patch", "trash", "restore", "purge"}
SYMMETRY Symmetry
VIEW View
INVARIANTS
    TypeOK
PROPERTIES
    UploadIsNamed
    PatchIsReported

SPECIFICATION FairSpec
CONSTANTS
    Uploads = {u1, u2, u3}
    Images = {u1}
    Capacity = 2
    MaxBreaks = 1
INVARIANTS
    EventMeansFile
    OneEventPerUpload
PROPERTIES
    UploadsAreAnswered
    EventsGoOut

SPECIFICATION WebFairSpec
CONSTANTS
    Screens = {"search", "images", "pages"}
    Ids = {1, 2, 3}
    Limit = 1
    Micros = 2
    MaxClock = 3
    MaxFailures = 1
    None = None
    Uploads = {"u1", "u2", "u3"}
    Files <- UploadedFiles
    MaxMillis = 1
    NoObject = NoObject
    Routes <- AllRoutes
    Slots = {1, 2}
    MaxVersion = 2
    MaxLoadFailures = 1
    NoData = NoData
INVARIANTS
    WebTypeOK
    NoneTwice
    SkippedOnlyInTheMillisecond
    OrderIsKept
    OwnWritesShown
PROPERTIES
    ScrollsToTheEnd
CHECK_DEADLOCK FALSE

SPECIFICATION Spec
CONSTANTS
    Clusters = {0, 1, 2}
    FileNumbers = {1, 2, 3}
    Versions = {1, 2, 3}
    MapRoom = 1
    VersionLimit = 2
    AnyVersion = FALSE
    RepairFirst = TRUE
    MayFail = {}
    MayCrash = FALSE
    MaxRequest = 2
    MaxSeq = 2
    MaxMishaps = 0
INVARIANTS TypeOK SpaceIsOwnedOnce HandleIsLive NothingLost
PROPERTY FidsAreNew

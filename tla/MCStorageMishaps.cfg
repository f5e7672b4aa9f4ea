SPECIFICATION Spec
CONSTANTS
    Clusters = {0, 1}
    FileNumbers = {1, 2, 3}
    Versions = {1, 2}
    MapRoom = 1
    VersionLimit = 0
    AnyVersion = TRUE
    RepairFirst = TRUE
    MayFail <- AnyStep
    MayCrash = TRUE
    MaxRequest = 2
    MaxSeq = 2
    MaxMishaps = 1
INVARIANTS OnlyTornExtendBreaksFiles OnlyTornCallsShareSpace
PROPERTY RepairHealsCrash

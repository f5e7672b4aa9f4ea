SPECIFICATION Spec
CONSTANTS
    root = root
    s1 = s1
    s2 = s2
    f1 = f1
    Root <- root
    Subdirectories <- MCSubdirectories
    Files <- MCFiles
    Clusters = {0, 1, 2, 3, 4}
    Names = {1, 2}
    MaxVersion = 2
    VersionLimit = 1
    BlockRoom = 3
    NameSize = 1
    EntrySize = 1
    MaxFailures = 2
    MaxCalls = 4
SYMMETRY Symmetry
VIEW View
INVARIANTS
    TypeOK
    SpaceIsOwnedOnce
    ListsAreOrdered
    FilesKnowTheirNames
    DirectoriesAreReadable
    OnlyHalfRenamesMakeLoops
PROPERTY KeepsPromise
CHECK_DEADLOCK FALSE

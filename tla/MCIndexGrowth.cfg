SPECIFICATION Spec
CONSTANTS
    Clusters = {0, 1, 2, 3, 4, 5, 6, 7, 8, 9, 10}
    MaxFiles = 9
    ReservedFiles = 1
    Lead = 1
    FirstSlots = 2
    ExtendBlocks = 3
    MapWords = 11
    PointerWords = 3
    WidestPointer = 4
INVARIANTS
    TypeOK
    OnlyOverflowBreaksChain
    HeadersSurvive
    FreeSlotsLookUnused
    OnlyUnplannedGrowthIsLast

SPECIFICATION Spec
CONSTANTS
    a1 = a1
    a2 = a2
    a3 = a3
    Accessors <- MCAccessors
    Modes <- MCModes
    Files = {1}
    MaxBlocks = 2
    BlockBytes = 2
    MaxSeq = 2
SYMMETRY Symmetry
INVARIANTS
    TypeOK
    CountsAreExact
    SharingHonoured
    StorageHeldWhileAccessed
    ChangesWillBeWritten
    EndWithinHighWater
PROPERTY KeepsPromise

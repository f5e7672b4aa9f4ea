SPECIFICATION Spec
CONSTANTS
    w1 = w1
    w2 = w2
    r1 = r1
    Writers <- MCWriters
    Readers <- MCReaders
    BlockWords = 3
    RecordSizes = {0, 1, 3}
    Sharing = TRUE
    Replacing = FALSE
    TriesAgain = FALSE
    MaxBlocks = 3
    MaxRecords = 4
    MaxFailures = 2
INVARIANTS ContentIsLog ReadersMissNothing
PROPERTY AppendsOnly

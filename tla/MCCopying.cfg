CONSTANTS
  BlockSize = 6
  LengthBase = 4
  Junk = 7
  Formats <- MCFormats
  Recs <- MCRecs
  MaxPuts = 2
  MaxCopied = 5
  Others <- MCOthers
SPECIFICATION Spec
INVARIANTS
  ReadsBackWhatWasPut
  
CHECK_DEADLOCK FALSE

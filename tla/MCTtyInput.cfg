SPECIFICATION FairSpec
CONSTANTS
  Keys <- MCKeys
  MaxKeys = 3
  MaxBytes <- MCMaxBytes
  MaxAsk = 2
INVARIANTS
  TypedIsDecoded
PROPERTIES
  CursorReportIsSeen
CHECK_DEADLOCK FALSE

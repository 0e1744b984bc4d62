CONSTANTS
  SmallKeys = {1, 2, 3, 4, 5, 6, 7, 8, 9}
  LargeKeys = {11, 12, 13, 14, 15, 16, 17, 18, 19, 20, 21, 22, 23, 24, 25, 26, 27, 28, 29, 30, 31, 32, 33, 34, 35, 36, 37}
  LoadedKeys = 12
  Keys <- MCKeys
  RecordPtrs <- MCKeys
  NullRecord = 0
  Entries <- MCEntries
  KeyRanges <- MCKeyRanges
  DuplicateInserts = FALSE
  FANOUT = 3
  MaxNodeId = 16
SPECIFICATION MCSpec
INVARIANT DeleteReturns
CHECK_DEADLOCK FALSE

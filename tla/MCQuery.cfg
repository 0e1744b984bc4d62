CONSTANTS
  Keys = {1, 2, 3, 4, 5}
  BLOCK_SIZE = 2
  FANOUT = 3
  KeyRanges <- MCKeyRanges
  DuplicateInserts = FALSE
  MaxBlockId = 4
  MaxNodeId = 7
SPECIFICATION Spec
INVARIANTS StoresAgree PointersResolve AnswersAgree
CHECK_DEADLOCK FALSE

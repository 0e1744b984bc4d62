SPECIFICATION Spec
CONSTANTS
    BLOCK_COUNT = 3
    maxRowsPerBlock = 2
    MaxSorts = 1
    Tables <- MCTables
    SortSpecs <- MCSortSpecs
INVARIANT SortKeepsRows
CHECK_DEADLOCK FALSE

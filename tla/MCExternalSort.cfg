SPECIFICATION Spec
CONSTANTS
    BLOCK_COUNT = 3
    maxRowsPerBlock = 2
    MaxSorts = 2
    Tables <- MCTables
    SortSpecs <- MCSortSpecs
INVARIANTS TypeOK MergeKeepsRows RunsInOrder SortedUnlessOverfilled
PROPERTY SortEnds
CHECK_DEADLOCK FALSE

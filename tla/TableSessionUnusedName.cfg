SPECIFICATION Spec
CONSTANTS
    UserNames <- MCUserNames
    ColumnNames <- MCColumnNames
    InitialFiles <- MCInitialFiles
    SortCommands <- MCSortCommands
    NoFile = NoFile
    NoTable = NoTable
    MaxSortKeys = 3
    MaxCommands = 5
    MaxKills = 1
INVARIANT UnusedNameIsFree
CHECK_DEADLOCK FALSE

SPECIFICATION Spec
CONSTANTS
    UserNames <- MCUserNames
    ColumnNames <- MCColumnNames
    InitialFiles <- MCInitialFiles
    SortCommands <- MCSortCommands
    NoFile = NoFile
    NoTable = NoTable
    MaxSortKeys = 3
    MaxCommands = 7
    MaxKills = 2
INVARIANTS TypeOK TablesOnDisk NoCopiesAtRest
PROPERTY OnlyTargetChanges
CHECK_DEADLOCK FALSE

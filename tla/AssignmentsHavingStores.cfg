SPECIFICATION Spec
CONSTANTS
    maxRowsPerBlock = 2
    OldRow = OldRow
    JoinTables <- MCJoinTables
    GroupQueries <- MCGroupQueries
    GroupTables <- MCGroupTables
INVARIANT HavingStores

SPECIFICATION Spec
CONSTANTS
    Names <- MCNames
    ResultName <- MCResultName
    Files <- MCFiles
    NoMatrix = NoMatrix
    matrixDims = 2
    BLOCK_COUNT = 2
    PRINT_COUNT = 2
    Uninitialised = {0, 99}
    MaxCommands = 7
INVARIANT PageFilesAreCatalogued
PROPERTIES ImplementsMatrixStore CommandEnds
CHECK_DEADLOCK FALSE

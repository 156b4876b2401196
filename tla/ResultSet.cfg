SPECIFICATION FairSpec
CONSTANTS
    NRows = 7
    Prefetches = {0, 2}
    DefaultSize = 2
    Computed = 3
    LobColumns = {FALSE, TRUE}
    Inline = TRUE
    StopsOnError = TRUE
INVARIANTS
    TypeOK
    RowsInOrder
    EOFComplete
    NoPanic
PROPERTIES
    RowsEnd

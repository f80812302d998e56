CONSTANTS
    r1 = r1
    r2 = r2
    None = None
    Invalid = Invalid
    Sockets <- MCSockets
    Files <- MCFiles
    Initially <- MCFiles
    External <- MCExternal
    Info <- MCInfo
    Filters <- MCFilters
    Unreliable <- MCUnreliable
    Refusable <- MCRefusable
    MaxPending = 2
SPECIFICATION Spec
INVARIANTS
    TablesTypeOK
    FilterIsExact
    DeletedRowsGo
PROPERTIES
    ImplementsTableView
    DeletionsHappen
CHECK_DEADLOCK FALSE

CONSTANTS
    r1 = r1
    r2 = r2
    None = None
    Sockets <- MCSockets
    Files <- MCFiles
    Lists <- MCLists
    Unreliable <- MCUnreliable
    MaxPending = 2
SPECIFICATION Spec
INVARIANTS
    DetailsTypeOK
    SelectionIsVisible
    LastAskedIsShown
CHECK_DEADLOCK FALSE

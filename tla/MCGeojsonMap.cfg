CONSTANTS
    Files = {"a", "b", "c"}
    Features <- MCFeatures
    None = None
    MaxLoads = 4
SPECIFICATION Spec
INVARIANTS
    MapTypeOK
    LastMappedStays
    ClosedIsUnselected
CHECK_DEADLOCK FALSE

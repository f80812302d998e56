CONSTANTS
    Files = {"a", "b", "c"}
    Features <- MCFeatures
    None = None
    MaxLoads = 3
SPECIFICATION Spec
PROPERTY MapIsReset
CHECK_DEADLOCK FALSE

SPECIFICATION Spec
CONSTANTS
    Radix = 4
    HashSize = 3
    Connections <- AllConnections
INVARIANTS
    InOrder
    SelfDelimiting
    NoneLost
CHECK_DEADLOCK FALSE

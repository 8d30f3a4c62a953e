CONSTANTS
    N = 2
    p1 = p1
    Partitions = {p1}
    Part <- MCPart
    r1 = r1
    r2 = r2
    Replicas = {r1, r2}
    NoOwner = NoOwner
    MaxCrashes = 1
    MaxMoves = 2
    Unroutable <- MCUnroutable
    MaxAttempts = 2
SPECIFICATION Spec
INVARIANTS
    TypeOK
    CopiesBounded
    InOrder
PROPERTIES
    NeverLoses
    EveryMessageSettles
CHECK_DEADLOCK FALSE

CONSTANTS
    N = 3
    p1 = p1
    Partitions = {p1}
    Part <- MCPart
    r1 = r1
    r2 = r2
    Replicas = {r1}
    NoOwner = NoOwner
    MaxCrashes = 1
    MaxMoves = 1
    Undecodable <- MCUndecodable
    PoolSize = 2
    MaxRisk = 1
SPECIFICATION Spec
INVARIANTS
    TypeOK
    WritesBounded
CHECK_DEADLOCK FALSE
PROPERTIES
    LosesOnlyToCrashes
    EveryMessageSettles

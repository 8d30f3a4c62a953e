CONSTANTS
    N = 3
    p1 = p1
    Partitions = {p1}
    Part <- MCPart
    r1 = r1
    r2 = r2
    Replicas = {r1}
    NoOwner = NoOwner
    MaxCrashes = 0
    MaxMoves = 0
    Undecodable <- MCUndecodable
    PoolSize = 2
    MaxRisk = 1
SPECIFICATION Safety
INVARIANT CommitsOnlyCompleted
CHECK_DEADLOCK FALSE

CONSTANTS
    N = 2
    p1 = p1
    Partitions = {p1}
    Part <- MCPart
    r1 = r1
    r2 = r2
    Replicas = {r1}
    NoOwner = NoOwner
    MaxCrashes = 0
    MaxMoves = 0
    Unroutable <- MCUnroutable
    MaxAttempts = 2
SPECIFICATION Safety
INVARIANT CommitsOnlyRoutedOrParked
CHECK_DEADLOCK FALSE

CONSTANTS
    N = 3
    p1 = p1
    Partitions = {p1}
    Part <- MCPart
    r1 = r1
    r2 = r2
    Replicas = {r1}
    NoOwner = NoOwner
    MaxCrashes = 0
    MaxMoves = 0
    t1 = t1
    t2 = t2
    Txn <- MCTxn
    Undecodable <- MCUndecodable
    MaxBatchSize = 2
    MaxAttempts = 2
SPECIFICATION Safety
INVARIANT CommitsOnlyStoredOrParked
CHECK_DEADLOCK FALSE

CONSTANTS
    N = 3
    p1 = p1
    Partitions = {p1}
    Part <- MCPart
    r1 = r1
    r2 = r2
    Replicas = {r1, r2}
    NoOwner = NoOwner
    MaxCrashes = 1
    MaxMoves = 1
    t1 = t1
    t2 = t2
    Txn <- MCTxn
    Undecodable <- MCUndecodable
    MaxBatchSize = 2
    MaxAttempts = 2
SPECIFICATION Spec
INVARIANTS
    TypeOK
    OnlyPoisonOvertakes
    NewestVerdictWins
CHECK_DEADLOCK FALSE
PROPERTIES
    LosesOnlyToCrashes
    EveryMessageSettles

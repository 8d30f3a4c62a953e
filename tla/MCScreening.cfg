SPECIFICATION ScreenSpec
CONSTANTS
    t1 = t1
    t2 = t2
    j1 = j1
    j2 = j2
    j3 = j3
    d1 = d1
    d2 = d2
    Txns = {t1, t2}
    Jobs = {j1, j2, j3}
    TxnOf <- MCTxnOf
    Window = 2
    Bucket = 2
    Slack = 2
    MaxTime = 4
    Log10 <- MCLog10
    Submissions <- MCSubmissions
    Instants <- MCInstants
    Velocities <- MCVelocities
    MerchantRisks <- MCMerchantRisks
    Configs <- MCConfigs
    Deliveries = {d1, d2}
SYMMETRY Redelivered
INVARIANTS
    ScreenTypeOK
    CountsTheWindow
    SumsTheWindow
    UniqueInBucket
    ScoreIsMonotone
    VerdictsKeepOrder
    RulesMatchFeatures
    AnswersAreVerdicts
CHECK_DEADLOCK FALSE

SPECIFICATION EdgeSpec
CONSTANTS
    a1 = a1
    a2 = a2
    a3 = a3
    k1 = k1
    q1 = q1
    q2 = q2
    c1 = c1
    c2 = c2
    b1 = b1
    b2 = b2
    b3 = b3
    Attempts = {a1, a2, a3}
    Nobody = Nobody
    Keys = {k1}
    Requests = {q1, q2}
    KeyOf <- MCKeyOf
    TTL = 2
    Delay = 1
    Calls = {c1, c2}
    Buckets = {b1, b2, b3}
    NoBucket = NoBucket
    Rate = 1
    Burst = 2
    Refill = 2
    IdleLimit = 3
    MaxWork = 2
    g1 = g1
    g2 = g2
    Writers = {g1, g2}
    NoWriter = NoWriter
    LastHour = 2
INVARIANTS
    EdgeTypeOK
    RepliesHold
    RateBound
    WorkFindsResourcesOpen
    ExitFinishesWork
    LoadersAgree
    LinesFindTheirHour
PROPERTIES
    VerdictsAreFresh
    StatusTakesEffect
    StopsWhenTold
CHECK_DEADLOCK FALSE

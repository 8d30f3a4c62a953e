CONSTANTS
    c1 = c1
    c2 = c2
    c3 = c3
    Calls = {c1, c2, c3}
    k1 = k1
    Keys = {k1}
    KeyOf <- MCKeyOf
    g1 = g1
    g2 = g2
    Gateways = {g1, g2}
    GatewayOf <- MCGatewayOf
    Lenient = {g1}
    Deadlined = {c2}
    None = None
    MaxExpiries = 1
    MaxCrashes = 1
SPECIFICATION Spec
INVARIANTS
    TypeOK
    OneTransactionPerClaim
    DuplicateNamesClaimant
PROPERTY EveryCallEnds
CHECK_DEADLOCK FALSE

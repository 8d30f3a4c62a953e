CONSTANTS
    c1 = c1
    c2 = c2
    c3 = c3
    Calls = {c1, c2}
    k1 = k1
    Keys = {k1}
    KeyOf <- MCKeyOf
    g1 = g1
    g2 = g2
    Gateways = {g1}
    GatewayOf <- MCGatewayOf
    Lenient = {g1}
    Deadlined = {c2}
    None = None
    MaxExpiries = 0
    MaxCrashes = 0
SPECIFICATION Safety
INVARIANT InternalIsSafeToRetry
CHECK_DEADLOCK FALSE

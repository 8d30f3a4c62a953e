CONSTANTS
    c1 = c1
    c2 = c2
    c3 = c3
    Callers = {c1, c2, c3}
    FailureThreshold = 2
    SuccessThreshold = 2
    MaxFaults = 1
    MaxExpiries = 1
SPECIFICATION Spec
INVARIANTS
    TypeOK
    NoSpuriousOpen
PROPERTIES
    Recovers
    TripsInOutage

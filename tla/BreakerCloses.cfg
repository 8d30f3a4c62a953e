CONSTANTS
    c1 = c1
    c2 = c2
    c3 = c3
    Callers = {c1}
    FailureThreshold = 2
    SuccessThreshold = 2
    MaxFaults = 0
    MaxExpiries = 0
SPECIFICATION Safety
PROPERTY ClosesAfterConsecutiveSuccesses

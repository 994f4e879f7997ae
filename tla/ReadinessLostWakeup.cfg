SPECIFICATION Spec
CONSTANTS
    Markers = {m1}
    Waiters = {w1}
    IdModulus = 8
CHECK_DEADLOCK FALSE
PROPERTY WaitReadyReturns

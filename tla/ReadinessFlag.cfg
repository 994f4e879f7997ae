SPECIFICATION Spec
CONSTANTS
    Markers = {m1, m2, m3}
    Waiters = {w1, w2}
    IdModulus = 3
CHECK_DEADLOCK FALSE
INVARIANTS
    TypeOK
    SingleWinner
    ReadyClosesTokens
PROPERTY SubscribedWaiterWakes

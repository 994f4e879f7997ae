SPECIFICATION Spec
CONSTANTS
    Procs = {p1, p2, p3}
    MaxBumps = 0
    MaxExits = 1
    None = None
CHECK_DEADLOCK FALSE
INVARIANT
    OneReviewAtATime

SPECIFICATION Spec
CONSTANTS
    Procs = {p1, p2, p3}
    MaxBumps = 4
    MaxExits = 2
    None = None
SYMMETRY Symmetry
CHECK_DEADLOCK FALSE
INVARIANTS
    TypeOK
    LiveLockStays
    BumpNoticed

SPECIFICATION Spec
CONSTANTS
    Modes = {"timed", "manual"}
    Routing = TRUE
    QueueCap = 1
    MaxRuns = 2
    MaxSeq = 1
    MaxTurns = 1
    MaxEvents = 1
INVARIANTS
    TypeOK
    SubmittedOnce
    LiveCoordinatorIsHeld
    RetryIsScheduled
    CoordinatorOwesAnswer
PROPERTY
    CountdownSubmitsItsOwn
CHECK_DEADLOCK FALSE

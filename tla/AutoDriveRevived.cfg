SPECIFICATION Spec
CONSTANTS
    Modes = {"timed"}
    Routing = TRUE
    QueueCap = 1
    MaxRuns = 1
    MaxSeq = 1
    MaxTurns = 1
    MaxEvents = 2
PROPERTY
    StopIsFinal
CHECK_DEADLOCK FALSE

SPECIFICATION Spec
CONSTANTS
    MaxTracked = 2
    MaxVisible = 1
    MaxWoken = 2
    MaxAgents = 3
    MaxUpdates = 1
    MaxFaults = 2
INVARIANTS
    TypeOK
    CancellableWhileActive
    WokenBatchHasEnded
    WokenOnce
    FinishedBatchWakes
PROPERTIES
    CompletedIsFinal
CHECK_DEADLOCK FALSE

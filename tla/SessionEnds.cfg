SPECIFICATION Spec
CONSTANTS
    Tasks = {t1, t2}
    Loop = Loop
    Wake = Wake
    None = None
    OpKinds = {"UserInput", "QueueUserInput", "Interrupt", "ApprovalAbort", "Developer",
               "PostTurn", "Compact", "Review", "Shutdown", "Wake"}
    Hooks = TRUE
    MaxOps = 2
    MaxRounds = 1
    MaxPendingManualCompacts = 1
CHECK_DEADLOCK FALSE
INVARIANT ActiveTurnIsCurrent
PROPERTIES
    TurnsShareOneSlot
    
    

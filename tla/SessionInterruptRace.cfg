SPECIFICATION Spec
CONSTANTS
    Tasks = {t1, t2}
    Loop = Loop
    Wake = Wake
    None = None
    OpKinds = {"UserInput", "Interrupt"}
    Hooks = TRUE
    MaxOps = 2
    MaxRounds = 0
    MaxPendingManualCompacts = 1
CHECK_DEADLOCK FALSE
PROPERTY
    InterruptSparesLaterTurns

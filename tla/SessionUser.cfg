SPECIFICATION Spec
CONSTANTS
    Tasks = {t1, t2, t3}
    Loop = Loop
    Wake = Wake
    None = None
    OpKinds = {"UserInput", "QueueUserInput", "Compact"}
    Hooks = TRUE
    MaxOps = 3
    MaxRounds = 1
    MaxPendingManualCompacts = 1
SYMMETRY Symmetry
CHECK_DEADLOCK FALSE
INVARIANTS
    TypeOK
    OneTurnPerInput
    NoDuplicateRecords

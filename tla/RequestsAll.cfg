SPECIFICATION Spec
CONSTANTS
    Turns = {t1, t2}
    Approvals = {a1, a2}
    UserInputs = {u1, u2}
    DynamicTools = {}
    None = None
    MaxAborts = 1
CHECK_DEADLOCK FALSE
INVARIANTS
    TypeOK
    AnswersOwnCall
    NeverAlreadyPending
    AnnouncedIsPending
PROPERTY
    AnsweredToolResumes

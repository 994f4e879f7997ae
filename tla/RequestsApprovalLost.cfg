SPECIFICATION Spec
CONSTANTS
    Turns = {t1, t2}
    Approvals = {a1}
    UserInputs = {}
    DynamicTools = {}
    None = None
    MaxAborts = 0

CHECK_DEADLOCK FALSE
PROPERTY
    DecisionReachesCall

SPECIFICATION Spec
CONSTANTS
    Approvals = {a1}
    MaxPrompts = 2
    MaxEdits = 1
    MaxFaults = 1
INVARIANTS
    AnswersTrue
PROPERTIES
    Delegated
CHECK_DEADLOCK FALSE

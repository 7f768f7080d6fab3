SPECIFICATION Spec
CONSTANTS
    Requests = {r1, r2}
    Calls = {c1, c2}
    Modes = {"native", "boundary"}
    MaxFaults = 1
INVARIANTS
    ReceiptsTrue
PROPERTIES
    SettledForGood
CHECK_DEADLOCK FALSE

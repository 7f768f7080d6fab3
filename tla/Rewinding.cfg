SPECIFICATION Spec
CONSTANTS
    Texts = {x, y}
    Tools = {k}
    Receipts = {r}
    MaxTurns = 2
    MaxLog = 6
    MaxEdits = 1
    MaxFaults = 2
SYMMETRY Symmetry
INVARIANTS
    WindowTrue
    HarnessTrue
CHECK_DEADLOCK FALSE

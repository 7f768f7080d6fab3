SPECIFICATION Spec
CONSTANTS
    Sessions = {a, b}
    MaxSeq = 3
    MaxEdits = 1
    MaxFaults = 2
SYMMETRY Symmetry
INVARIANTS
    Published
PROPERTIES
    RewoundStaysOut
CHECK_DEADLOCK FALSE

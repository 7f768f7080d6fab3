SPECIFICATION Spec
CONSTANTS
    Updates = {u1, u2}
    Planned = {u1}
    Approvals = {a1}
    MaxFailures = 1
    MaxCancels = 2
INVARIANTS
    RelayedWhole
PROPERTIES
    RelayEnds
CHECK_DEADLOCK FALSE

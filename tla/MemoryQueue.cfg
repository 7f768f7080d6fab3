SPECIFICATION Spec
CONSTANTS
    Sources = {s1}
    MaxRevision = 2
    MAX_AUTOMATIC_FAILURES = 2
    PendingThreshold = 2
    MaxEvents = 3
INVARIANTS
    RetryBudget
PROPERTIES
    Retried
CHECK_DEADLOCK FALSE

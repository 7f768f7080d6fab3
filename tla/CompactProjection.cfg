SPECIFICATION Spec
CONSTANTS
    Calls = {c1}
    MaxEvents = 4
    MaxFaults = 1
    MaxSearches = 1
PROPERTIES
    ProjectionHolds
CHECK_DEADLOCK FALSE

SPECIFICATION SuiteSpec
CONSTANTS
    Providers = {P, Q}
    First = P
    MaxTurns = 2
    MaxNatives = 3
    MaxNotes = 1
    Processes = {p1, p2}
    Budget = 1
    MaxEvents = 4
    Fields = {"access", "approval"}
    Values = {"low", "high"}
    Default = "low"
    MaxChoices = 3
    RoutePresets = {"inherit", "full"}
    Windows = {w1, w2}
    Preview = w2
    MaxSaves = 2
    MaxRouted = 1
    Projects = {P, Q}
    MaxWritten = 2
    MaxCut = 2
    MaxFaults = 1
    None = None
    P = P
    Q = Q
    R = R
    w1 = w1
    w2 = w2
    s1 = s1
    s2 = s2
    Root = Root
INVARIANTS
    ContextComplete
    Confirmed
    Accounted
    ContextKept
    LedgerTrue
    PermissionsAsChosen
    PolicyHolds
PROPERTIES
    ConsolidatedStays
    NativeKept
CHECK_DEADLOCK FALSE

SPECIFICATION SuiteSpec
CONSTANTS
    Processes = {p1, p2}
    MaxSetups = 2
    MaxRuns = 3
    MaxKnown = 3
    Files = {f1, f2}
    Nil = Nil
    MaxEdits = 2
    MaxTurns = 1
    MaxFaults = 1
    Spans = {t1, t2}
    MaxCancels = 3
    MaxTicks = 2
    c1 = c1
    c2 = c2
    s1 = s1
    t1 = t1
    n1 = n1
    k1 = k1
    m1 = m1
    m2 = m2
    r1 = r1
    Gone = Gone
    Junk = Junk
INVARIANTS
    InputControlled
    CredentialsKept
    TimedWhole
    CheckpointHolds
    WorkspaceKept
    ConfigurationHolds
CHECK_DEADLOCK FALSE

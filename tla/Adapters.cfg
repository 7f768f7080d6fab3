SPECIFICATION AdapterSpec
CONSTANTS
    Tasks = {t1, t2}
    MaxPrompts = 2
    MaxUnread = 3
    MaxEvents = 2
    a1 = a1
    q1 = q1
    c1 = c1
    c2 = c2
    Off = Off
INVARIANTS
    TurnTrue
    SessionHolds
PROPERTIES
    TurnsEnd
CHECK_DEADLOCK FALSE

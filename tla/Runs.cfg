SPECIFICATION Spec
CONSTANTS
    Threads = {t1, t2}
    Streams = {r1, r2}
    MaxEvents = 2
INVARIANTS
    RunsExclude
    FilesHold
PROPERTIES
    EventuallySwitched
CHECK_DEADLOCK FALSE

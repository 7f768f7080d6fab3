SPECIFICATION Spec
CONSTANTS
    Ids = {h, s, a}
    Handoffs = {h}
    Steers = {s}
    MaxBatch = 2
INVARIANTS
    Recorded
    LogWellFormed
    ManifestAheadOnlyAfterLoss
    HandoffInManifest
PROPERTIES
    FragmentPreserved
    ImplementsDurableLog

SPECIFICATION Spec
CONSTANTS
    NumConnectors = 1
    MaxQueueSize = 3
    MaxQueueSizeFault = 2
    Uuid = {m1, m2, m3, m4}
    Stamp = {0, 1}
SYMMETRY UuidSymmetry
INVARIANTS
    CountersCover
    WithinLimit
    NoDuplicate
PROPERTIES
    OrderKept
    EvictsOldestOnly

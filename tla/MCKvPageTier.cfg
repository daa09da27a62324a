SPECIFICATION Spec
CONSTANTS
    k1 = k1
    k2 = k2
    s1 = s1
    s2 = s2
    p1 = p1
    p2 = p2
    t1 = t1
    t2 = t2
    None = None
    Keys = {k1, k2}
    Versions = {1, 2}
    Slots = {s1, s2}
    DevicePages = {p1, p2}
    Transfers = {t1, t2}
    MaxGeneration = 2
    MaxBatch = 2
SYMMETRY Symmetry
INVARIANTS
    TypeOK
    ResidentHoldsItsKey
    RunningCopyIsIsolated
    ActiveHandleIsCurrent
    RestoredPageHoldsItsKey
    NoSlotLeaks
CHECK_DEADLOCK FALSE

SPECIFICATION Spec
CONSTANTS
    leaf_max_size = 4
    internal_max_size = 4
    Attrs = {1, 2, 3, 4, 5, 6, 7, 8, 9, 10, 11, 12, 13}
    MaxRid = 1
    MaxPage = 12
    t1 = t1
    t2 = t2
    t3 = t3
    Threads = {t1, t2, t3}
    Builder = t1
    Scenarios <- AllScenarios
INVARIANTS
    TreeSound
    ScanExact
    DeadlockNeedsScanOpen
PROPERTIES
    WritesLatched
    ImplementsIndex
CHECK_DEADLOCK FALSE

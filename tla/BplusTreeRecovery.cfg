SPECIFICATION RecoverySpec
CONSTANTS
    leaf_max_size = 4
    internal_max_size = 4
    Attrs = {1, 2, 3, 4, 5, 6, 7, 8, 9, 10, 11, 12}
    MaxRid = 1
    MaxPage = 9
    t1 = t1
    t2 = t2
    Threads = {t1, t2}
    Builder = t1
    Scenarios <- AllScenarios
INVARIANTS
    TreeRecovered
    RedoSucceeds
CHECK_DEADLOCK FALSE

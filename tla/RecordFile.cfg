SPECIFICATION Spec
CONSTANTS
    Threads = {a, b, c}
    NoThread = NoThread
    Scanning = {a}
    Joining = {a}
    Changing = {b, c}
    record_capacity = 2
    MAX_PAGE_NUM = 2
SYMMETRY Symmetry
INVARIANTS
    FreePagesExact
    ScanComplete
    DeadlockNeedsJoin
CHECK_DEADLOCK FALSE

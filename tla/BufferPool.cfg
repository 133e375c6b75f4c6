SPECIFICATION Spec
CONSTANTS
    Threads = {t1, t2}
    NoThread = NoThread
    Pools = {A, B}
    Frames = {f1, f2, f3}
    NoFrame = NoFrame
    A = A
    B = B
    MAX_PAGE_NUM <- MaxPages
    HoldBound = 1
    WriteBound = 1
    SpoilBound = 0
    FailBound = 1
SYMMETRY Symmetry
INVARIANTS
    NoChangeLost
    DeadlockNeedsFlush
PROPERTIES
    PinsKept
CHECK_DEADLOCK FALSE

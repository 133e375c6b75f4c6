SPECIFICATION Spec
CONSTANTS
    Clients = {c1, c2}
    max_entry_number = 2
    max_bytes = 2
    LsnBound = 3
    FailBound = 1
    CrashBound = 1
INVARIANTS
    AckedDurable
    ReplayExact
PROPERTIES
    LogProgress

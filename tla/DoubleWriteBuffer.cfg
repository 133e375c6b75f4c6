SPECIFICATION Spec
CONSTANTS
    A = A
    B = B
    Keys <- Pages
    Registered = {A}
    Scenarios <- AllScenarios
INVARIANTS
    CrashSafe
    ReadLatest
    CleanShutdown

SPECIFICATION Spec
CONSTANTS
    Procs = {p1, p2}
    Harnesses = {"codex", "claude"}
    MaxLaunch = 2
    MaxCrashes = 1
    None = None
INVARIANTS SeatIsSound CleanupSparesSession
PROPERTIES FailureFreesSeat StopFreesSeat
CHECK_DEADLOCK FALSE

SPECIFICATION FairSpec
CONSTANTS
    Procs = {p1, p2, p3}
    Inodes = {i1, i2}
    None = None
    Refusable = {1, 2}
    MaxGenerations = 3
INVARIANTS LockIsSafe
PROPERTIES ImplementsExclusiveLock DeadHolderReclaimed
\* Crashed processes and the bound on generations stop the system.
CHECK_DEADLOCK FALSE

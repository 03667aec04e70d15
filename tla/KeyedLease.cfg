SPECIFICATION FairSpec
CONSTANTS
    Wrappers = {w1, w2, w3, w4}
    Callers = {w1, w2, w3}
    None = None
    MaxKilled = 2
INVARIANTS CommandIsAlone
PROPERTIES LockUntilRobbed OldestFirst DeadLeaseRecovered
\* Every wrapper has run its command, gave up or was killed.
CHECK_DEADLOCK FALSE

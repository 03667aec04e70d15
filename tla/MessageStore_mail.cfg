SPECIFICATION FairSpec
CONSTANTS
    Procs = {p1, p2}
    Recipients = {r1, r2}
    None = None
    Calls = {"send", "recover", "read"}
    MaxId = 1
    MaxRefusals = 1
    SlowWriters = FALSE
INVARIANTS MailIsKept
PROPERTIES MailArrives
CHECK_DEADLOCK FALSE

SPECIFICATION Spec
CONSTANTS
    Procs = {p1, p2}
    Recipients = {r1}
    None = None
    Calls = {"send", "assign", "recover", "facts", "read", "close"}
    MaxId = 2
    MaxRefusals = 0
    SlowWriters = TRUE
SYMMETRY Symmetry
INVARIANTS StoreIsConsistent
PROPERTIES NoCommitAfterClose BoundaryRises
CHECK_DEADLOCK FALSE

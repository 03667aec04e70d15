SPECIFICATION Spec
CONSTANTS
    Procs = {p1, p2}
    MaxGeneration = 3
    MaxCrashes = 1
    None = None
INVARIANTS RebindIsTraced OneFencedSession
PROPERTIES ImplementsOneLead RebindIsFinished

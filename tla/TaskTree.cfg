SPECIFICATION FairSpec
CONSTANTS
    Procs = {p1, p2}
    Children = {c1, c2}
    None = None
    MaxRefusals = 1
INVARIANTS TreeIsTraced DoneRootIsQuiet
PROPERTIES LinksAreFinished

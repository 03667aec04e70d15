SPECIFICATION ServiceSpec
CONSTANTS
    Clients = {c1, c2}
    Workers = {w1, w2}
    MaxSession = 1
    MaxSends = 2
    MaxCrashes = 1
    Nobody = Nobody
INVARIANTS ServiceIsSound
PROPERTIES EffectsAreAuthorized AskIsAnswered
CHECK_DEADLOCK FALSE

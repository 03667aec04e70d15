SPECIFICATION HolderSpec
CONSTANTS
    MaxTurns = 2
    Working = {1}
    MaxStops = 2
    MaxUnheard = 3
    NoTurn = NoTurn
INVARIANTS SnapshotIsHonest ConfirmedIsQuiet
PROPERTIES StopIsAnswered
CHECK_DEADLOCK FALSE

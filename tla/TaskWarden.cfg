SPECIFICATION FairSpec
CONSTANTS
    Tasks = {t1}
    None = None
    MaxDemands = 3
    MaxTroubles = 3
    MaxAborts = 3
INVARIANTS SeatIsHeld ConsumedWasServed CalledOffStops
PROPERTIES DemandServed

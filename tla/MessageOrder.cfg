SPECIFICATION OrderSpec
CONSTANTS
    MaxStamp = 2
    MaxCounter = 1
    NoId = NoId
INVARIANTS HeadIsSound
PROPERTIES NewIdsAreAbove

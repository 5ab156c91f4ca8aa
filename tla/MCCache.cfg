CONSTANTS
    Requests <- MCRequests
    Messages <- MCMessages
    MaxEntries = 2
    MinTtl = 1
    MaxTtl = 3
    TicksPerSec = 2
    MaxClock = 6
SPECIFICATION FairSpec
INVARIANTS TypeOK SizeBound NeverExtendsTtl
PROPERTIES LosesOnlyTheSoonest ExpiredEventuallyDropped ImplementsLossyStore

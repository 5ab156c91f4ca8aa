CONSTANTS
    Requests <- MCRequests
    Messages <- MCGlueMessages
    MaxEntries = 2
    MinTtl = 1
    MaxTtl = 3
    TicksPerSec = 2
    MaxClock = 6
SPECIFICATION Spec
INVARIANTS NeverExtendsAdditionalTtl

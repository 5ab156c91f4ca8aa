SPECIFICATION FairSpec
CONSTANTS
    m1 = m1
    m2 = m2
    i1 = i1
    i2 = i2
    h1 = h1
    NoIp = NoIp
    NoName = NoName
    Macs = {m1, m2}
    Ips = {i1}
    Names = {}
    QueueDepth = 2
    BatchSize = 2
    MaxSent = 3
    Log <- MCLog
    Nows <- MCNows
    BypassThreshold = 1
INVARIANTS TypeOK UniqueIp LogInOrder OneRowPerQuery PanelsAgree
PROPERTIES WholeBatches QueueMoves

CONSTANTS
    u1 = u1
    u2 = u2
    c1 = c1
    root = root
    canary = canary
    ads = ads
    NoName = NoName
    UdpTasks = {u1}
    TcpTasks = {c1}
    MaxUdp = 1
    MaxTcp = 1
    Names = {root, canary, ads}
    Root = root
    Canary = canary
    DisableFirefoxDoh = TRUE
    CacheEnabled = TRUE
    Upstreams = 2
    UpstreamTimeout = 1
    RequestTimeout = 3
    Plan <- MCPlan
    Contents <- MCContents
    BadLabels <- MCBadLabels
    IpLiterals <- MCIpLiterals
    LocalNames <- MCLocalNames
    Queries <- MCQueries
    NoList = NoList
    Limits = {0, 512, 1232, 4096}
    Offers = {0, 300, 512, 1232, 4096, 65535}
    Sizes = {100, 512, 513, 1232, 1233, 4097, 65535}
    StubSize = 60
SPECIFICATION MCSpec
INVARIANTS
    TypeOK PolicyRespected AnswersOwnQuestion FailoverNotCutShort
    LookupIsDecision CountsAddUp NothingClipped

CONSTANTS
    u1 = u1
    u2 = u2
    c1 = c1
    root = root
    canary = canary
    NoName = NoName
    UdpTasks = {u1, u2}
    TcpTasks = {c1}
    MaxUdp = 1
    MaxTcp = 1
    Names = {root, canary}
    Root = root
    Canary = canary
    DisableFirefoxDoh = FALSE
    CacheEnabled = FALSE
    Upstreams = 2
    UpstreamTimeout = 1
    RequestTimeout = 2
    Bits = 4
    LoopbackAddrs <- MCLoopbackAddrs
    PrivateAddrs <- MCPrivateAddrs
    Launches <- MCLaunches
    NoSubnet = NoSubnet
    NoLaunch = NoLaunch
    Malformed = Malformed
    Window = 3
    FirstDelay = 1
    MaxDelay = 2
    MaxTime = 5
    StartLimitBurst = 2
SPECIFICATION MCSpec
INVARIANTS PermitsAccounted  ServesWhoWasMeant RidesOutConflict
PROPERTIES EveryTaskEnds ServesOrFails

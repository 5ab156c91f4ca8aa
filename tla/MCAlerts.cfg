SPECIFICATION MCSpec
CONSTANTS
    d1 = d1
    d2 = d2
    d3 = d3
    c1 = c1
    Discovery = Discovery
    Watcher = Watcher
    NoAlert = NoAlert
    Devices = {d1}
    Clients = {c1}
    QueueDepth = 1
    MapLimit = 1
    Cooldown = 2
    PushEnabled = TRUE
    MaxClock = 3
    Ifaces = {"eth0", "wlan0"}
    CounterSize = 3
    MaxElapsed = 2
    MaxCarried = 4
    Absent = Absent
INVARIANTS TypeOK NotifiedHonest NeverOverstates
PROPERTIES CooldownHolds RecordedOrCounted

SPECIFICATION Spec
CONSTANTS
    m1 = m1
    m2 = m2
    i1 = i1
    i2 = i2
    own = own
    found = found
    task = task
    ArpPoller = ArpPoller
    DhcpListener = DhcpListener
    NoIp = NoIp
    NoName = NoName
    NoMac = NoMac
    Macs = {m1, m2}
    Ips = {i1}
    Names = {own}
    OwnNames = {own}
    LookupNames = {own}
    Tasks = {task}
    QueueDepth = 1
    BatchSize = 1
SYMMETRY MacSymmetry
INVARIANTS TypeOK IndexSound RowOnItsWay
PROPERTIES OnlyUnseenAnnounced

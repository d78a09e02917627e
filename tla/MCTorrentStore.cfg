CONSTANTS
    Hashes = {h1}
    Peers = {p1, p2, p3}
    IpVersions = {v4}
    NumWants = {1, 2}
    MaxPeersPerResponse = 1
    PacketPeers = 2
    PeersForLevel0Limit = 1
    UIntMax = 7
    MaxAliveTime = 0
    IntervalStep = 1
    MaxTime = 2
    MaxDownloads = 3
    Workers = {w1}
    NoPeer = NoPeer
    NoTorrent = NoTorrent
    NoReply = NoReply
    Events <- MCEventsKnown
SYMMETRY Symmetry
SPECIFICATION Spec
INVARIANTS TypeOK SumIsPeers ReplyConsistent
PROPERTY FreshPeersKept

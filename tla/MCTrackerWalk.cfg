CONSTANTS
    Hashes = {1, 2}
    Peers = {1}
    IpVersions = {v4, v6}
    NumWants = {1}
    MaxPeersPerResponse = 1
    PacketPeers = 2
    PeersForLevel0Limit = 1
    UIntMax = 7
    MaxAliveTime = 0
    IntervalStep = 1
    MaxTime = 2
    MaxDownloads = 1
    Workers = {w1}
    NoPeer = NoPeer
    NoTorrent = NoTorrent
    NoReply = NoReply
    LastLeaf = 1
    PacketHashes = 2
    Events <- MCEventsTwo
    LeafOf <- OneLeaf
    ScrapeRequests <- TwoScrapes
SPECIFICATION Spec
INVARIANT PointersValid
PROPERTIES RequestsAnswered StalePeersCollected EmptyTorrentsFreed

CONSTANTS
    Hashes = {1}
    Peers = {1, 2}
    IpVersions = {v4}
    NumWants = {1}
    MaxPeersPerResponse = 1
    PacketPeers = 2
    PeersForLevel0Limit = 1
    UIntMax = 7
    MaxAliveTime = 0
    IntervalStep = 1
    MaxTime = 2
    MaxDownloads = 1
    Workers = {w1, w2}
    NoPeer = NoPeer
    NoTorrent = NoTorrent
    NoReply = NoReply
    LastLeaf = 1
    PacketHashes = 2
    Events <- MCEvents
    LeafOf <- OneLeaf
    ScrapeRequests <- OneScrape
SYMMETRY Symmetry
SPECIFICATION Spec
INVARIANTS FreedListEmpty CommittedCountersExact
PROPERTY StoreSpec

CONSTANTS
    workers = 2
    Fds = {1}
    LastLeaf = 1
    LeafOf <- OneLeaf
    EventsEachLoop = 1
    socketTimeout = 1
    Browsers = {1, 2}
    MaxConnections = 3
    MaxTime = 3
    NoItem = NoItem
SPECIFICATION Spec
INVARIANTS EventsNameListedSockets ListedSocketsOpen OpenSocketsListed
PROPERTIES IdleClosed ListsReleased InputSeen

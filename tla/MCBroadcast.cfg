CONSTANTS
    TcpWorkers = {w1}
    UdpWorkers = {u1}
    Fds = {1, 2}
    MaxRequests = 3
    ReplySize = 2
    FrameSize = 2
    BufferSize = 3
    ErrorLimit = 2
    Free = Free
SPECIFICATION Spec
INVARIANTS FramesInOrder CutsCounted EntriesAccountedFor
PROPERTY WorkersReturn

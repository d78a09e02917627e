CONSTANTS
    UdpWorkers = {w1, w2}
    MaxRequests = 3
SPECIFICATION QueueSpec
PROPERTIES FifoSpec SignalDrains ServedOrAllAsleep

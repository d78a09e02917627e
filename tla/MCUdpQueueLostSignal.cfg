CONSTANTS
    UdpWorkers = {w1}
    MaxRequests = 1
SPECIFICATION QueueSpec
PROPERTY EveryRequestServed

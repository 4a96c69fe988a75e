SPECIFICATION Spec
CONSTANTS
    w1 = w1
    w2 = w2
    r1 = r1
    r2 = r2
    Workers <- TwoWorkers
    Requests <- TwoRequests
    WorkerOf <- Apart
    Settings <- Default
    RetryMax = 1
    L1TTL = 2
    AgeCap = 3
    FailureCap = 2
    MaxFaults = 1
INVARIANTS
    BoundedStaleness
    OpenerInFlight
PROPERTIES
    TimelyTransitions

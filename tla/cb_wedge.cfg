SPECIFICATION FairSpec
CONSTANTS
    w1 = w1
    w2 = w2
    r1 = r1
    r2 = r2
    Workers <- OneWorker
    Requests <- TwoRequests
    WorkerOf <- Alone
    Settings <- Quick
    RetryMax = 1
    L1TTL = 1
    AgeCap = 2
    FailureCap = 2
    MaxFaults = 0
PROPERTIES
    HalfOpenIsLeft

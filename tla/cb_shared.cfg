SPECIFICATION FairSpec
CONSTANTS
    w1 = w1
    w2 = w2
    r1 = r1
    r2 = r2
    Workers <- OneWorker
    Requests <- TwoRequests
    WorkerOf <- Alone
    Settings <- Retuned
    RetryMax = 0
    L1TTL = 1
    AgeCap = 3
    FailureCap = 2
    MaxFaults = 1
PROPERTIES
    OpenIsProbed

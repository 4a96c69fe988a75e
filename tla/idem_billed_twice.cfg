SPECIFICATION Spec
CONSTANTS
    r1 = r1
    r2 = r2
    f1 = f1
    f2 = f2
    Requests <- TwoRequests
    Fingerprints <- TwoFingerprints
    Kinds <- Streams
INVARIANT
    BilledOnce

SPECIFICATION SpendSpec
CONSTANTS
    r1 = r1
    r2 = r2
    r3 = r3
    Spenders <- ThreeRequests
    Estimates = {2}
    Actuals = {0, 3}
    MonthlyCaps = {2, 3}
    Thresholds = {50, 100}
    MaxMonth = 2
    MaxDeaths = 1
SYMMETRY Interchangeable
INVARIANTS
    SpendConserved
    CapHolds
    CrossingNoticed
    AlertedOnce

SPECIFICATION SpendSpec
CONSTANTS
    r1 = r1
    r2 = r2
    r3 = r3
    Spenders <- TwoRequests
    Estimates = {2}
    Actuals = {0, 2}
    MonthlyCaps = {2}
    Thresholds = {100}
    MaxMonth = 2
    MaxDeaths = 0
INVARIANT
    HardMonthlyCap

SPECIFICATION Spec
CONSTANTS
    Requests = {r1, r2}
    Creds <- MCCreds
    Endpoints <- MCEndpoints
    Deployments <- MCDeployments
    Usage <- MCUsage
    Batch = {2}
    Day = 2
    MaxMinute = 2
    MaxCalls = 3
    MaxFaults = 1
SYMMETRY Slots
CHECK_DEADLOCK FALSE
INVARIANTS
    OvershootBounded
    PlatformSpares
    LiveViewAgrees
PROPERTIES
    RefusedIsSpent

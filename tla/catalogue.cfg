SPECIFICATION FairSpec
CONSTANTS
    Nodes <- MCNodes
    Order <- MCOrder
    Ids = {"x", "y"}
    Report <- MCReport
    Local = {"m1"}
    Old = {"m2"}
    MaxVersion = 1
    MaxFaults = 3
CHECK_DEADLOCK FALSE
INVARIANTS
    NothingLost
PROPERTIES
    StaysStable
    Paced
    EventuallyFresh

SPECIFICATION FairSpec
CONSTANTS
    r1 = r1
    r2 = r2
    r3 = r3
    b1 = b1
    b2 = b2
    Requests <- TwoRequests
    Members <- TwoReplicas
    Calls <- Shared
    Pins = {b2, stranger}
    Slots <- Uneven
    Headroom = 1
    Flaky = {b1}
    MaxLost = 1
    Reports = {0, 1}
INVARIANTS
    SlotsAccounted
    BooksKept
    PinHonoured
PROPERTY
    RequestsEnd

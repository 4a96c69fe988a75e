SPECIFICATION Spec
CONSTANTS
    Workers <- Two
    Requests <- Two
    L1TTL = 1
    L2TTL = 2
    Interval = 2
    Delay = 1
    MaxRotations = 1
    MaxFaults = 1
    Admins <- Two
    Grants = {"1"}
    TTLs = {1, 2}
    FirstTTL = 2
    Leeway = 1
    End = 4
    MaxOps = 3
    Links <- Two
    Views <- Two
    ShareAdmins <- Three
    Attempts <- Two
    Identities = {"x", "y"}
    Addresses = {"here"}
    MaxOf <- MCMaxOf
    Window = 3
    Tasks <- Two
    Urls <- Two
    TTL = 1
    Shards = 2
    Chunks = 2
    Generations = 3
    Checksum = FALSE
    Kinds = {"limits", "breaker", "split"}
    Values = {1, 2}
    MinAdmin = 2
    TierNames = {"t1", "t2"}
    Caps = {1}
    Recorders = {"1"}
    Writers <- Two
    Jobs <- Two
    Rates = {2}
    Base = 1
    FileRate <- NoFile
    MaxEvents = 2
    MaxBookings = 2
    Processes <- Two
    Old = {"m1"}
    Later = {"m2"}
    Identity = {"slug", "label"}
    Slots <- Six
    MaxCrashes = 2
    Original = {"name", "is_active"}
    AddedColumns <- MCAddedColumns
    Migrations <- MCMigrations
    MaxBoots = 4
    Early <- MCEarly
    MaxStarts = 3
CHECK_DEADLOCK FALSE
INVARIANTS
    RotationSettles
    RevocationHolds
    ShownOnce
    BudgetHolds
    OperatorsWord
    DownloadsSound
    SettingsHold
    TiersStand
    LedgerAgrees
    UpgradeSound
    SchemaSound
    TablesAtHead

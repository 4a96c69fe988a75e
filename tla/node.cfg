SPECIFICATION Spec
CONSTANTS
    Models <- TheModels
    Slugs <- TheModels
    Instances <- TheModels
    Replicas <- TheReplicas
    Ports = {1}
    MaxEdits = 1
    Jobs = {1, 2}
    Does <- Split
    Pids = {1, 2}
    Aliased = {"a"}
    ScanRange = 1
    MaxCrashes = 1
CHECK_DEADLOCK FALSE
INVARIANTS
    RegistrySound
    OneProcess
    Accounted

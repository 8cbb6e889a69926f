SPECIFICATION Spec
CONSTANTS
    Nil = Nil
    Images = {"default", "other"}
    DefaultImage = "default"
    StorageClass = "standard"
    BindingMode = "Immediate"
    StaticVolumes = FALSE
    BackoffLimit = 0
    InitialEnable = {TRUE}
    UserOps = {"enable"}
    PodFaults = {}
    MaxEdits = 1
    MaxDisturbances = 0
INVARIANTS
    PodWaitsForWorker
CHECK_DEADLOCK FALSE

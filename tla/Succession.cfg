SPECIFICATION NodeFairSpec
CONSTANTS
    Nil = Nil
    Images = {"default", "other"}
    DefaultImage = "default"
    StorageClass = "standard"
    BindingMode = "WaitForFirstConsumer"
    StaticVolumes = FALSE
    BackoffLimit = 0
    InitialEnable = {FALSE}
    UserOps = {"deleteRpc"}
    PodFaults = {}
    MaxEdits = 2
    MaxDisturbances = 0
PROPERTIES
    SuccessorServed
CHECK_DEADLOCK FALSE

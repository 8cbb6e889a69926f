SPECIFICATION NodeFairSpec
CONSTANTS
    Nil = Nil
    Images = {"default", "other"}
    DefaultImage = "default"
    StorageClass = ""
    BindingMode = "Immediate"
    StaticVolumes = FALSE
    BackoffLimit = 0
    InitialEnable = {FALSE}
    UserOps = {}
    PodFaults = {}
    MaxEdits = 0
    MaxDisturbances = 0
PROPERTIES
    UnsetClassServed
CHECK_DEADLOCK FALSE

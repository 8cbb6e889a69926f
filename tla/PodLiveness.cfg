SPECIFICATION NodeFairSpec
CONSTANTS
    Nil = Nil
    Images = {"default", "other"}
    DefaultImage = "default"
    StorageClass = "standard"
    BindingMode = "WaitForFirstConsumer"
    StaticVolumes = FALSE
    BackoffLimit = 0
    InitialEnable = {FALSE}
    UserOps = {"image", "deletePod"}
    PodFaults = {"CrashLoop", "Evicted"}
    MaxEdits = 1
    MaxDisturbances = 2
PROPERTIES
    NodeRecovers
    ImageConverges
CHECK_DEADLOCK FALSE

SPECIFICATION Spec
CONSTANTS
    Nil = Nil
    Images = {"default", "other"}
    DefaultImage = "default"
    StorageClass = "standard"
    BindingMode = "Immediate"
    StaticVolumes = FALSE
    BackoffLimit = 0
    InitialEnable = {TRUE}
    UserOps = {"deletePvc"}
    PodFaults = {}
    MaxEdits = 1
    MaxDisturbances = 1
PROPERTIES
    NodeMadeOnSnapshot
CHECK_DEADLOCK FALSE

SPECIFICATION FairSpec
CONSTANTS
    Nil = Nil
    Images = {"default", "other"}
    DefaultImage = "default"
    StorageClass = "standard"
    BindingMode = "WaitForFirstConsumer"
    StaticVolumes = FALSE
    BackoffLimit = 0
    InitialEnable = {TRUE, FALSE}
    UserOps = {"deleteRpc", "deletePvc"}
    PodFaults = {}
    MaxEdits = 1
    MaxDisturbances = 1
INVARIANTS
    UnboundInv
    RestoreNeedsBoundVolumes
    RestInv
PROPERTIES
    OwnedObjectsCollected
    ResetOnlyWithVolume
CHECK_DEADLOCK FALSE

SPECIFICATION Spec
CONSTANTS
    Nil = Nil
    Images = {"default", "other"}
    DefaultImage = "default"
    StorageClass = "standard"
    BindingMode = "Immediate"
    StaticVolumes = FALSE
    BackoffLimit = 0
    InitialEnable = {TRUE, FALSE}
    UserOps = {"enable", "foreignPod"}
    PodFaults = {}
    MaxEdits = 2
    MaxDisturbances = 1
INVARIANTS
    OneWorkerAtATime
    SwitchInv
    OverInv
    FinishedMeansSnapshot
PROPERTIES
    OneRestorePerVolume
    RestoreNeverUndone
    SkippedOnlyWhileDisabled
CHECK_DEADLOCK FALSE

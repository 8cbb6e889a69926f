SPECIFICATION FairSpec
CONSTANTS
    Nil = Nil
    Images = {"default", "other"}
    DefaultImage = "default"
    StorageClass = "standard"
    BindingMode = "Immediate"
    StaticVolumes = FALSE
    BackoffLimit = 1
    InitialEnable = {TRUE, FALSE}
    UserOps = {}
    PodFaults = {}
    MaxEdits = 0
    MaxDisturbances = 3
INVARIANTS
    TypeOK
    PodOnlyAfterRestore
    NoWorkerBesideNode
    AvailableAfterRestore
    RestoreInv
    RestsWhenDone
PROPERTIES
    RestoreNeverUndone
    OnlyFinishedJobsDeleted
    OneRestorePerVolume
    LifecycleImplemented
    NodeFollowsRestore
    FailureReported
    ScratchReleased
CHECK_DEADLOCK FALSE

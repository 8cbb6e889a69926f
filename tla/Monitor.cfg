SPECIFICATION FairSpec
CONSTANTS
    Nil = Nil
    LabelKeys = {"team"}
    LabelValues = {"spec"}
    UserValues = {"user"}
    CrdAtStart = {TRUE, FALSE}
    FirstEnabled = {TRUE}
    FirstValues = {Nil}
    MonitorOps = {"configure", "tamper", "delete", "rpc", "crd"}
    MaxEdits = 2
    MaxFailures = 1
INVARIANTS
    TypeOK
    RestsSettled
    MonitorRestInv
    NothingBeforeRestore
    OriginInv
PROPERTIES
    UserLabelsKept
    MonitorConverges
    NodeUnharmed
CHECK_DEADLOCK FALSE

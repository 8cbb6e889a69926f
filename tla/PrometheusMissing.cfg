SPECIFICATION FairSpec
CONSTANTS
    Nil = Nil
    LabelKeys = {"team"}
    LabelValues = {"spec"}
    UserValues = {"user"}
    CrdAtStart = {FALSE}
    FirstEnabled = {TRUE}
    FirstValues = {Nil}
    MonitorOps = {"configure"}
    MaxEdits = 2
    MaxFailures = 0
PROPERTIES
    WorksWithoutPrometheus
CHECK_DEADLOCK FALSE

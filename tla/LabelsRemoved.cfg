SPECIFICATION FairSpec
CONSTANTS
    Nil = Nil
    LabelKeys = {"team"}
    LabelValues = {"spec"}
    UserValues = {"user"}
    CrdAtStart = {TRUE}
    FirstEnabled = {TRUE}
    FirstValues = {"spec"}
    MonitorOps = {"configure"}
    MaxEdits = 1
    MaxFailures = 0
PROPERTIES
    MonitorMatchesConfiguration
CHECK_DEADLOCK FALSE

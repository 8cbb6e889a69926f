SPECIFICATION Spec
CONSTANTS
    Nil = Nil
    Bucket = {"intact", "altered"}
    BackoffLimit = 6
INVARIANTS
    ScriptInv
    SuccessMeansSnapshot
PROPERTIES
    DatabaseKept
    WorkerImplemented
CHECK_DEADLOCK FALSE

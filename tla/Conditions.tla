----------------------------- MODULE Conditions -----------------------------
(***************************************************************************)
(* The status conditions of a StarknetRPC: the two condition types, the    *)
(* reasons the operator writes with the status each one carries, and the   *)
(* two helpers of k8s.io/apimachinery the operator goes through            *)
(* (meta.SetStatusCondition, meta.IsStatusConditionTrue).  A condition     *)
(* list is a map keyed by type (listType=map, listMapKey=type), hence a    *)
(* function whose domain is the set of types that have been set.           *)
(* Messages and transition times are left out: no code reads them.         *)
(***************************************************************************)

ConditionTypes == {"Restore", "Available"}
Statuses == {"True", "False", "Unknown"}

\* StarknetRPCRestoreStatus, as the enumeration of restore.go declares it.
RestoreStatuses == {"Pending", "Restoring", "Success", "Failed", "Skipped"}

\* The reasons written by the four mark* functions of the archive restore.
ArchiveReasons == {"ArchiveJobFinished", "ArchiveJobFailed",
                   "ArchiveRestoreSkipped", "ArchiveJobProgressing"}

\* StarknetRPCAvailableStatus of ready.go.
AvailableStatuses ==
    {"Pending", "Creating", "CatchingUp", "Ready", "Failed", "Unknown"}

Condition ==
    [status : Statuses,
     reason : RestoreStatuses \cup ArchiveReasons \cup AvailableStatuses]

ConditionLists == UNION {[D -> Condition] : D \in SUBSET ConditionTypes}

NoConditions == [t \in {} |-> [status |-> "Unknown", reason |-> "Unknown"]]

(***************************************************************************)
(* meta.SetStatusCondition: adds or replaces the entry of that type.       *)
(***************************************************************************)
SetStatusCondition(list, type, c) ==
    [t \in DOMAIN list \cup {type} |-> IF t = type THEN c ELSE list[t]]

IsStatusConditionTrue(list, type) ==
    /\ type \in DOMAIN list
    /\ list[type].status = "True"

(***************************************************************************)
(* StarknetRPCRestoreStatus.AsCondition and StarknetRPCAvailableStatus.    *)
(* AsCondition: the status is a function of the enumeration value.         *)
(***************************************************************************)
RestoreCondition(s) ==
    [status |-> IF s \in {"Success", "Skipped"} THEN "True" ELSE "False",
     reason |-> s]

AvailableCondition(s) ==
    [status |-> CASE s = "Ready" -> "True"
                  [] s = "Failed" -> "False"
                  [] OTHER -> "Unknown",
     reason |-> s]

(***************************************************************************)
(* The transitions SetPhases is called with.                               *)
(***************************************************************************)
ApplyRestore(list, s) ==
    SetStatusCondition(list, "Restore", RestoreCondition(s))

ApplyAvailable(list, s) ==
    SetStatusCondition(list, "Available", AvailableCondition(s))

markArchiveAsFinished(list) ==
    SetStatusCondition(list, "Restore",
        [status |-> "True", reason |-> "ArchiveJobFinished"])

\* Variant: the failure is recorded with the status of a success.
FailedAsTrue(list) ==
    SetStatusCondition(list, "Restore",
        [status |-> "True", reason |-> "ArchiveJobFailed"])

markRestoreAsFailed(list) ==
    SetStatusCondition(list, "Restore",
        [status |-> "False", reason |-> "ArchiveJobFailed"])

markRestoreAsSkipped(list) ==
    SetStatusCondition(list, "Restore",
        [status |-> "True", reason |-> "ArchiveRestoreSkipped"])

\* Variant: progress is recorded with the status of a success.
ProgressingAsTrue(list) ==
    SetStatusCondition(list, "Restore",
        [status |-> "True", reason |-> "ArchiveJobProgressing"])

markRestoreAsProgressing(list) ==
    SetStatusCondition(list, "Restore",
        [status |-> "False", reason |-> "ArchiveJobProgressing"])

=============================================================================

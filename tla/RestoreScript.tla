---------------------------- MODULE RestoreScript ----------------------------
(***************************************************************************)
(* The restore worker at work: images/snapshotter/restore.sh, step by      *)
(* step, in the pods that the job controller starts for the restore job    *)
(* (RestartPolicy Never: a failed attempt is retried in a new pod, on the  *)
(* volumes the last one left).  Environment has an attempt in two actions, *)
(* the opening of the database and the end; this module is what they stand *)
(* for.  The operator is here with the two things it does to the job, the  *)
(* rest of the cluster with the kill it may deal any container and with a  *)
(* node that may open the database beside the worker.                      *)
(*                                                                         *)
(* The worker always downloads with the configuration the script generates *)
(* (restore.sh:39-56): the job never sets the RSYNC_CONFIG it would prefer.*)
(***************************************************************************)
EXTENDS Naturals

CONSTANTS
    Nil,            \* no job
    Bucket,         \* what the bucket may serve under the file name
    BackoffLimit    \* failures after which the job controller gives up

\* A file has the checksum of the StarknetRPC or another one.
Files == {"intact", "altered"}

ASSUME ScriptConstants ==
    /\ Bucket \subseteq Files
    /\ BackoffLimit \in Nat

VARIABLES
    job,        \* the job, as in Cluster
    orphan,     \* the pod of a deleted job is still there
    step,       \* where the script in the pod is, "none" without a pod
    status,     \* its exit status, once it has exited
    file,       \* the download on the scratch volume
    content,    \* the database on the main volume
    opened      \* the script in the pod has made that database

vars == <<job, orphan, step, status, file, content, opened>>

Jobs == [active : BOOLEAN, succeeded : BOOLEAN, failures : 0 .. BackoffLimit + 1]

ScriptSteps == {"download", "verify", "extract", "extracting", "cleanup"}

-----------------------------------------------------------------------------
(* What Environment sees: volumes ready for use, and of an attempt its     *)
(* opening of the database and its outcome, when that is counted.          *)

Database == IF opened /\ content # "mixed" THEN "partial" ELSE content

Writer == IF ~opened THEN "none" ELSE IF orphan THEN "orphan" ELSE "job"

Volume == [owner |-> 1, class |-> "standard", bound |-> TRUE, terminating |-> FALSE]

NodePod ==
    [rv |-> 1, owner |-> 1, image |-> "default", status |-> "Scheduled",
     terminating |-> FALSE, management |-> FALSE]

\* Nil is no object.
ASSUME NilIsNoObject == Nil \notin Jobs \cup {Volume, NodePod}

Worker ==
    INSTANCE Environment
    WITH Images <- {"default"}, DefaultImage <- "default",
         StorageClass <- "standard", BindingMode <- "Immediate",
         StaticVolumes <- FALSE, InitialEnable <- {TRUE}, UserOps <- {}, PodFaults <- {},
         MaxEdits <- 0, MaxDisturbances <- 0,
         data <- Database, writer <- Writer, pvc <- Volume, scratch <- Volume,
         rpc <- Nil, pod <- NodePod, news <- {}, serving <- FALSE, cache <- Nil,
         queued <- FALSE, pc <- "Idle", cluster <- Nil, podObj <- Nil,
         edits <- 0, disturbances <- 0

Init ==
    /\ job = Nil /\ orphan = FALSE
    /\ step = "none" /\ status = "failure"
    /\ file = "none" /\ content = "empty" /\ opened = FALSE

-----------------------------------------------------------------------------
(* The script.  set -e: a command that fails ends it, through the trap. *)

\* On to the next command.
Goto(next) ==
    /\ step' = next
    /\ UNCHANGED <<job, orphan>>

\* rclone leaves a file in place that looks like the one in the bucket: what
\* a killed attempt has downloaded may be taken again.
Download ==
    /\ step = "download"
    /\ \/ /\ file' \in Bucket \cup ({file} \ {"none"})
          /\ Goto("verify")
       \/ /\ Goto("cleanup")
          /\ UNCHANGED file
    /\ UNCHANGED <<status, content, opened>>

\* Variant: the checksum is compared and nothing done about it.
VerifyNothing ==
    /\ step = "verify"
    /\ Goto("extract")
    /\ UNCHANGED <<status, file, content, opened>>

Verify ==
    /\ step = "verify"
    /\ Goto(IF file = "intact" THEN "extract" ELSE "cleanup")
    /\ UNCHANGED <<status, file, content, opened>>

\* Variant: zstd -f.
OpenDatabaseForce ==
    /\ step = "extract"
    /\ content' = "partial" /\ opened' = TRUE
    /\ Goto("extracting")
    /\ UNCHANGED <<status, file>>

\* Variant: a database that is there counts as restored.
OpenDatabaseUnlessThere ==
    /\ step = "extract"
    /\ \/ /\ content = "empty"
          /\ content' = "partial" /\ opened' = TRUE
          /\ Goto("extracting")
          /\ UNCHANGED status
       \/ /\ content # "empty"
          /\ status' = "success"
          /\ Goto("cleanup")
          /\ UNCHANGED <<content, opened>>
    /\ UNCHANGED file

\* zstd does not write over a file that exists: asked by nobody, it fails.
OpenDatabase ==
    /\ step = "extract"
    /\ \/ /\ content = "empty"
          /\ content' = "partial" /\ opened' = TRUE
          /\ Goto("extracting")
       \/ /\ content # "empty"
          /\ Goto("cleanup")
          /\ UNCHANGED <<content, opened>>
    /\ UNCHANGED <<status, file>>

\* zstd goes on writing to the file it has made, whoever else may have opened
\* it.  It removes what it has written when the input is at fault, and leaves
\* it when the volume is full.
Extract ==
    /\ step = "extracting"
    /\ \/ /\ content' = IF content = "mixed" THEN content
                        ELSE IF file = "intact" THEN "snapshot" ELSE "corrupt"
          /\ status' = "success"
       \/ /\ content' \in IF content = "mixed" THEN {content} ELSE {"empty", "partial"}
          /\ UNCHANGED status
    /\ Goto("cleanup")
    /\ UNCHANGED <<file, opened>>

Cleanup ==
    /\ step = "cleanup"
    /\ file' = "none"
    /\ Goto("exited")
    /\ UNCHANGED <<status, content, opened>>

ScriptStep == Download \/ Verify \/ OpenDatabase \/ Extract \/ Cleanup

-----------------------------------------------------------------------------
(* The pods of the job. *)

StartAttempt ==
    /\ Worker!JobPending
    /\ step = "none"
    /\ job' = [job EXCEPT !.active = TRUE]
    /\ step' = "download"
    /\ status' = "failure"
    /\ UNCHANGED <<orphan, file, content, opened>>

\* Evicted, out of memory, or its machine is gone: no trap runs.
Killed ==
    /\ step \in ScriptSteps
    /\ status' = "failure"
    /\ Goto("exited")
    /\ UNCHANGED <<file, content, opened>>

\* The job controller learns how the attempt has ended.
Counted ==
    /\ step = "exited" /\ ~orphan
    /\ step' = "none"
    /\ job' = IF status = "success"
              THEN [job EXCEPT !.active = FALSE, !.succeeded = TRUE]
              ELSE [job EXCEPT !.active = FALSE, !.failures = @ + 1]
    /\ opened' = FALSE
    /\ UNCHANGED <<orphan, status, file, content>>

\* The pod of a deleted job is collected, wherever its script is.
OrphanCollected ==
    /\ orphan
    /\ orphan' = FALSE
    /\ step' = "none"
    /\ opened' = FALSE
    /\ UNCHANGED <<job, status, file, content>>

\* The node, whose pod a skip lets in while the job is still there, opens the
\* database, or tries to: on an empty volume it makes one, of a complete one it
\* makes good use, and one that an attempt is at work on it may write to.
NodeOpensDatabase ==
    /\ \/ content = "empty" /\ ~opened /\ content' = "genesis"
       \/ content # "snapshot" /\ opened /\ content' = "mixed"
       \/ content # "empty" /\ UNCHANGED content
    /\ UNCHANGED <<job, orphan, step, status, file, opened>>

ClusterStep ==
    StartAttempt \/ Killed \/ Counted \/ OrphanCollected \/ NodeOpensDatabase

-----------------------------------------------------------------------------
(* The operator.  A job is made for an empty volume that no worker uses:   *)
(* OneRestorePerVolume and OneWorkerAtATime of Reconciler.                 *)

CreateJob ==
    /\ job = Nil /\ ~orphan
    /\ content = "empty"
    /\ job' = [active |-> FALSE, succeeded |-> FALSE, failures |-> 0]
    /\ UNCHANGED <<orphan, step, status, file, content, opened>>

\* After the restore, or when the user disables it.
DeleteJob ==
    /\ job # Nil
    /\ orphan' = job.active
    /\ job' = Nil
    /\ UNCHANGED <<step, status, file, content, opened>>

OperatorStep == CreateJob \/ DeleteJob

Next == ScriptStep \/ ClusterStep \/ OperatorStep

Spec == Init /\ [][Next]_vars

-----------------------------------------------------------------------------
(* Properties. *)

TypeOK ==
    /\ job \in Jobs \cup {Nil}
    /\ orphan \in BOOLEAN
    /\ step \in {"none", "exited"} \cup ScriptSteps
    /\ status \in {"success", "failure"}
    /\ file \in Files \cup {"none"}
    /\ content \in {"empty", "partial", "snapshot", "genesis", "mixed"}
    /\ opened \in BOOLEAN

\* A pod belongs to the active job or to one that was deleted, never to both.
OnePod ==
    /\ (step # "none") = (orphan \/ (job # Nil /\ job.active))
    /\ orphan => job = Nil
    /\ job # Nil /\ job.active => job.failures <= BackoffLimit /\ ~job.succeeded

\* What an attempt may have done to the database when its script is at step.
AttemptInv ==
    /\ step \in {"none", "download", "verify", "extract"} => ~opened
    /\ step \in {"download", "verify", "extract"} => status = "failure"
    /\ step = "extract" => file = "intact"
    /\ step = "extracting" =>
           /\ opened /\ content \in {"partial", "mixed"}
           /\ file = "intact" /\ status = "failure"
    /\ step \in {"cleanup", "exited"} /\ status = "success" =>
           opened /\ content \in {"snapshot", "mixed"}
    /\ opened => content # "genesis"

\* A job that has succeeded stands for the snapshot with the checksum of the
\* StarknetRPC, whatever earlier attempts were killed at and left behind
\* (restore.sh:69-78), unless a node wrote to the database as well while it
\* was being extracted.
SuccessMeansSnapshot ==
    job # Nil /\ job.succeeded => content \in {"snapshot", "mixed"}

\* The inductive invariant: types (no database but of a verified file among
\* them), at most one pod, what it may have done, and what success means.
ScriptInv == TypeOK /\ OnePod /\ AttemptInv /\ SuccessMeansSnapshot

\* A database that is complete stays so, also when the attempt that wrote it
\* was killed before it could say so and is tried again (restore.sh:78).
DatabaseKept == [][content = "snapshot" => content' = "snapshot"]_content

\* restore.sh under the job controller is the worker of Environment: nothing
\* happens to job and main volume but what its five actions, a node that opens
\* the volume and the operator do to them (restore.sh:17-78).
WorkerImplemented ==
    [][\/ Worker!StartWorker \/ Worker!WorkerOpens
       \/ Worker!WorkerSucceeds \/ Worker!WorkerFails \/ Worker!KillOrphan
       \/ Worker!NodeOpens /\ UNCHANGED <<job, Writer, orphan>>
       \/ OperatorStep /\ UNCHANGED Database]_<<job, Database, Writer, orphan>>

=============================================================================

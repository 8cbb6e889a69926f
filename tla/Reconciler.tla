----------------------------- MODULE Reconciler -----------------------------
(***************************************************************************)
(* The operator at work: StarknetRPCReconciler.Reconcile, called by a      *)
(* manager that runs one call at a time per object, in a cluster that      *)
(* does not stand still.  The module composes the handlers of              *)
(* ArchiveRestore and RpcPod with Environment, and adds the beginning of   *)
(* Reconcile, failed API calls and crashes of the manager.                 *)
(***************************************************************************)
EXTENDS Environment, ArchiveRestore, RpcPod

-----------------------------------------------------------------------------
(* The beginning of Reconcile. *)

\* The request is taken from the queue and the StarknetRPC read from the
\* cache; one that is not found needs nothing done.
StartReconcile ==
    /\ pc = "Idle" /\ queued
    /\ queued' = FALSE
    /\ IF cache.rpc = Nil
       THEN UNCHANGED <<pc, cluster>>
       ELSE /\ cluster' = cache.rpc
            /\ pc' = IF DOMAIN cache.rpc.conditions = {}
                     THEN "Initialize" ELSE "CreatePvc"
    /\ UNCHANGED <<objects, containers, cache, podObj, budgets>>

Initialize ==
    /\ pc = "Initialize"
    /\ SetPhases(ApplyAvailable(ApplyRestore(cluster.conditions, "Pending"),
                                "Pending"),
                 "CreatePvc")
    /\ UNCHANGED <<owned, job, containers, cache, budgets>>

ReconcileStep == StartReconcile \/ Initialize \/ ArchiveStep \/ PodStep

-----------------------------------------------------------------------------
(* Failures of the operator. *)

Disturb ==
    /\ disturbances < MaxDisturbances
    /\ disturbances' = disturbances + 1
    /\ UNCHANGED <<rpc, job, pvc, scratch, pod, containers, edits>>

\* An API call fails, or its answer is lost: after the call before pc if the
\* server carried that one out.  Reconcile returns the error; the one of the
\* readiness probe is dropped.
Abort ==
    /\ Disturb
    /\ pc \in ApiCalls
    /\ Return(pc # "IsReady")
    /\ UNCHANGED <<cache, news>>

\* The manager restarts: its cache is listed afresh and every object queued.
Crash ==
    /\ Disturb
    /\ pc' = "Idle"
    /\ cluster' = Nil
    /\ podObj' = Nil
    /\ cache' = [rpc |-> rpc, pvc |-> pvc, scratch |-> scratch, job |-> job,
                 pod |-> pod]
    /\ news' = {}
    /\ queued' = (rpc # Nil)

-----------------------------------------------------------------------------
Init ==
    /\ \E enable \in InitialEnable : rpc = FreshRpc(1, enable)
    /\ pvc = Nil /\ scratch = Nil /\ job = Nil /\ pod = Nil
    /\ news = {}
    /\ data = "empty" /\ writer = "none" /\ orphan = FALSE /\ serving = FALSE
    /\ cache = [rpc |-> Nil, pvc |-> Nil, scratch |-> Nil, job |-> Nil,
                pod |-> Nil]
    /\ queued = FALSE
    /\ pc = "Idle" /\ cluster = Nil /\ podObj = Nil
    /\ edits = 0 /\ disturbances = 0

Next == ReconcileStep \/ Abort \/ Crash \/ EnvironmentStep

Spec == Init /\ [][Next]_vars

\* The manager keeps working, watches deliver, and the controllers of the
\* cluster do their part.  Nobody has to edit, crash or break anything.
NodeFairness ==
    /\ WF_vars(ReconcileStep)
    /\ WF_vars(SyncRpc) /\ WF_vars(SyncPvc) /\ WF_vars(SyncPod)
    /\ WF_vars(BindPvc) /\ WF_vars(RemovePvc)
    /\ WF_vars(SchedulePod) /\ WF_vars(KubeletStartsPod) /\ WF_vars(PodRemoved)
    /\ WF_vars(CollectPvc) /\ WF_vars(CollectPod)

\* The same for what only a restore needs, and for the node's answers.
Fairness ==
    /\ NodeFairness
    /\ WF_vars(SyncScratch) /\ WF_vars(SyncJob)
    /\ WF_vars(BindScratch) /\ WF_vars(RemoveScratch)
    /\ WF_vars(StartWorker) /\ WF_vars(WorkerSucceeds \/ WorkerFails)
    /\ WF_vars(KillOrphan) /\ WF_vars(CollectScratch)
    /\ WF_vars(PodBeginsServing)

NodeFairSpec == Spec /\ NodeFairness

FairSpec == Spec /\ Fairness

-----------------------------------------------------------------------------
(* Types. *)

ObjectsOK ==
    /\ rpc \in RpcObjects \cup {Nil}
    /\ pvc \in Claims \cup {Nil}
    /\ scratch \in Claims \cup {Nil}
    /\ job \in Jobs \cup {Nil}
    /\ pod \in Pods \cup {Nil}
    /\ news \subseteq {"pvc", "scratch", "pod"}

ContainersOK ==
    /\ data \in {"empty", "partial", "snapshot", "genesis", "mixed"}
    /\ writer \in {"none", "job", "orphan"}
    /\ orphan \in BOOLEAN
    /\ serving \in BOOLEAN

PodInHand ==
    {"MarkCreating", "UpdateImage", "DeletePod", "IsReady", "MarkCatchingUp"}

ProcessOK ==
    /\ queued \in BOOLEAN
    /\ pc \in {"Idle"} \cup ApiCalls \cup CacheReads
    /\ cluster \in RpcObjects \cup {Nil}
    /\ podObj \in Pods \cup {Nil}
    /\ pc # "Idle" => cluster # Nil
    /\ pc \in PodInHand => podObj # Nil

BudgetsOK == edits \in 0 .. MaxEdits /\ disturbances \in 0 .. MaxDisturbances

\* A finished job has no worker, and whoever extracts is running.
WorkersOK ==
    /\ JobActive => ~JobFinished(job)
    /\ writer = "job" => JobActive
    /\ writer = "orphan" => orphan
    /\ writer # "none" => data \in {"partial", "mixed"}

\* Every variable keeps its type: objects carry the fields the handlers
\* write, a job fails at most once more than it may, the copies of a Reconcile
\* in progress are there when it needs them, and whoever extracts is running.
TypeOK ==
    /\ ObjectsOK
    /\ ContainersOK
    /\ cache \in Caches
    /\ ProcessOK
    /\ BudgetsOK
    /\ WorkersOK

-----------------------------------------------------------------------------
(* Safety of the restore. *)

Reason(type, reason) ==
    /\ rpc # Nil /\ type \in DOMAIN rpc.conditions
    /\ rpc.conditions[type].reason = reason

\* The node is created only after the restore (controller.go:105,131): with
\* the restore enabled, a managed pod means the snapshot is on the volume.
PodOnlyAfterRestore == Owned(pod) /\ rpc # Nil /\ rpc.enable => data = "snapshot"

\* The worker that writes the database and the node that opens it never
\* share the volume (the reason Reconcile waits for the archival,
\* controller.go:95).
NoWorkerBesideNode == ~(Owned(pod) /\ WorkerRuns)

\* The two conditions tell one story: no pod is reported as being created or
\* catching up while the restore is still pending (ready.go:15-20).
AvailableAfterRestore ==
    Reason("Available", "Creating") \/ Reason("Available", "CatchingUp")
        => Restored(rpc)

\* A finished restore is not taken back while the volume lives: no later
\* Reconcile, stale copy or retry resets the condition.
RestoreNeverUndone ==
    [][rpc # Nil /\ rpc' # Nil /\ Restored(rpc) => Restored(rpc')]_rpc

\* Cleaning up never deletes a job that still has work to do.
OnlyFinishedJobsDeleted ==
    [][job # Nil /\ job' = Nil => job.succeeded /\ ~job.active]_job

\* A volume is restored once: a job is only ever created for an empty one,
\* also when the previous job was cleaned up long ago.
OneRestorePerVolume == [][job = Nil /\ job' # Nil => data = "empty"]_job

\* Whatever the user does with the enable switch, two workers never extract
\* into the volume at the same time: a job deleted while it runs has no
\* successor (archive_restore.go:29-61).
OneWorkerAtATime == ~(orphan /\ job # Nil /\ job.active)

\* A skip is recorded only while the restore is disabled: a copy of the
\* StarknetRPC that missed the edit cannot write it (archive_restore.go:54-60).
SkippedOnlyWhileDisabled ==
    [][Reason("Restore", "ArchiveRestoreSkipped")' /\ rpc # Nil
           => Reason("Restore", "ArchiveRestoreSkipped") \/ ~rpc.enable]_rpc

\* The restore waits for its volumes to be bound before it makes the job that
\* would be their first consumer (archive_restore.go:78-92): with a class that
\* binds on first use, no restore ever begins.
NeverBound == BindingMode = "WaitForFirstConsumer" /\ StorageClass # ""

RestoreNeedsBoundVolumes == NeverBound => job = Nil

-----------------------------------------------------------------------------
(* Liveness. *)

\* No event announces the end of the job (it has no owner), yet a restore
\* that succeeds is followed by a running node: the delayed requeues of
\* archive_restore.go:106,126,140 are enough, whatever call fails meanwhile.
NodeFollowsRestore == (job # Nil /\ job.succeeded) ~> NodeRuns

\* A job that has failed for good is reported (archive_restore.go:127-130).
FailureReported ==
    (job # Nil /\ job.failures > BackoffLimit)
        ~> Reason("Restore", "ArchiveJobFailed")

\* The scratch volume is temporary (starknetrpc_types.go:65): once the
\* restore is recorded, job and scratch volume go, also when the first
\* attempt to delete them fails.
ScratchReleased ==
    (rpc # Nil /\ Restored(rpc)) ~> (job = Nil /\ scratch = Nil)

\* A node that is evicted or crash-looping is replaced until it runs, with
\* whatever call of the replacement failing (pod.go:37-45).
NodeRecovers == <>[](pod # Nil /\ pod.status = "Running")

\* The pod ends up with the image of the last edit, however the edit, the
\* pod's own changes and the two stale caches interleave (pod.go:62-73).
ImageConverges == <>[](pod # Nil /\ rpc # Nil /\ pod.image = getPodImage(rpc))

\* Deleting the StarknetRPC takes its pod and both volumes with it, those
\* included that a Reconcile in flight creates after the deletion, but for
\* volumes that the pods of a job hold: that one belongs to nobody
\* (archive_restore.go:226).
OwnedObjectsCollected ==
    <>[](rpc = Nil) => <>[](pod = Nil /\ (job # Nil \/ (pvc = Nil /\ scratch = Nil)))

\* The kubelet does not start a pod whose claim is being deleted, and the claim
\* is not removed while a pod that has a machine uses it: they wait for each
\* other, and the operator for neither.
Deadlocked == Owned(pod) /\ pod.status = "Scheduled" /\ pvc # Nil /\ pvc.terminating

\* A StarknetRPC made again under the name of one just deleted finds the
\* volume, the pod and the copies of its predecessor (pvc.go:24, pod.go:22).
\* It ends up with a running pod of its own, be it on the volume of the
\* predecessor, whose deletion that pod then holds up, unless that volume was
\* marked for deletion when the pod had its machine and had not started yet.
SuccessorServed ==
    <>[](rpc # Nil /\ ~rpc.enable) =>
        <>[](/\ rpc # Nil /\ pod # Nil /\ pod.owner = rpc.uid
             /\ pod.status = "Running" \/ Deadlocked)

=============================================================================

--------------------------- MODULE ArchiveRestore ---------------------------
(***************************************************************************)
(* ReconcilePvc and ReconcileArchiveRestore: create the main volume, and   *)
(* bring the snapshot into it with a job working through a scratch volume. *)
(* One action per call to the API server or read of the cache; what the    *)
(* handler decides between two calls belongs to the first of them.         *)
(***************************************************************************)
EXTENDS Cluster

\* Variant: a disabled restore is cleaned up without being recorded.
EnterUnrecorded(c) ==
    IF Restored(c) \/ RestoreDisabled(c) THEN "DeleteJob" ELSE "CreateScratch"

\* Variant: no cleanup after the restore.
EnterWithoutCleanup(c) ==
    IF Restored(c) THEN "CreatePod"
    ELSE IF RestoreDisabled(c) THEN "MarkSkipped"
    ELSE "CreateScratch"

\* Where ReconcileArchiveRestore goes from its start.
EnterArchiveRestore(c) ==
    IF Restored(c) THEN "DeleteJob"
    ELSE IF RestoreDisabled(c) THEN "MarkSkipped"
    ELSE "CreateScratch"

\* Reconcile creates the pod only once the restore condition is true, and
\* looks again in 30 seconds otherwise.
Gate(c) == IF Restored(c) THEN "CreatePod" ELSE "Requeue"

-----------------------------------------------------------------------------
(* ReconcilePvc. *)

CreatePvc ==
    /\ pc = "CreatePvc"
    /\ \/ /\ pvc = Nil
          /\ pvc' = GetWantedPvc(cluster)
          /\ Proceed("ResetRestore", cluster, podObj)
       \/ /\ pvc # Nil
          /\ Proceed(EnterArchiveRestore(cluster), cluster, podObj)
          /\ UNCHANGED pvc
    /\ Announce("pvc", pvc, pvc')
    /\ UNCHANGED <<rpc, scratch, job, pod, containers, cache, budgets>>

ResetRestore ==
    /\ pc = "ResetRestore"
    /\ LET conds == ApplyRestore(cluster.conditions, "Pending") IN
       SetPhases(conds, EnterArchiveRestore([cluster EXCEPT !.conditions = conds]))
    /\ UNCHANGED <<owned, job, containers, cache, budgets>>

-----------------------------------------------------------------------------
(* ReconcileArchiveRestore, the restore is made: clean up.  Both deletes   *)
(* ignore that the object is not there.  Background propagation: the job   *)
(* goes at once, a worker it still has is killed later.                    *)

DeleteJob ==
    /\ pc = "DeleteJob"
    /\ orphan' = (orphan \/ (job # Nil /\ job.active))
    /\ writer' = IF writer = "job" THEN "orphan" ELSE writer
    /\ job' = Nil
    /\ Proceed("DeleteScratch", cluster, podObj)
    /\ UNCHANGED <<rpc, owned, data, serving, cache, budgets>>

DeleteScratch ==
    /\ pc = "DeleteScratch"
    /\ scratch' = IF scratch = Nil THEN Nil
                  ELSE [scratch EXCEPT !.terminating = TRUE]
    /\ Proceed(Gate(cluster), cluster, podObj)
    /\ Announce("scratch", scratch, scratch')
    /\ UNCHANGED <<rpc, pvc, job, pod, containers, cache, budgets>>

\* The restore is disabled: skip it, and go on to the pod.
MarkSkipped ==
    /\ pc = "MarkSkipped"
    /\ LET conds == markRestoreAsSkipped(cluster.conditions) IN
       SetPhases(conds, Gate([cluster EXCEPT !.conditions = conds]))
    /\ UNCHANGED <<owned, job, containers, cache, budgets>>

-----------------------------------------------------------------------------
(* ReconcileArchiveRestore, the restore is to be made.                     *)

CreateScratch ==
    /\ pc = "CreateScratch"
    /\ scratch' = IF scratch = Nil THEN GetWantedRestorePvc(cluster) ELSE scratch
    /\ Proceed("GetScratch", cluster, podObj)
    /\ Announce("scratch", scratch, scratch')
    /\ UNCHANGED <<rpc, pvc, job, pod, containers, cache, budgets>>

\* Variant: no waiting for the volumes, the job's pod binds them.
GoStraightToJob ==
    /\ pc = "GetScratch"
    /\ Proceed("CreateJob", cluster, podObj)
    /\ UNCHANGED <<objects, containers, cache, budgets>>

GetScratch ==
    /\ pc = "GetScratch"
    /\ LET found == cache.scratch # Nil IN
       IF found /\ isReady(cache.scratch)
       THEN Proceed("EnsurePvcReady", cluster, podObj)
       ELSE Return(TRUE)
    /\ UNCHANGED <<objects, containers, cache, budgets>>

\* A claim missing from the cache is an error here, one that is not bound
\* yet a delay: both requeue.
EnsurePvcReady ==
    /\ pc = "EnsurePvcReady"
    /\ LET found == cache.pvc # Nil IN
       IF found /\ isReady(cache.pvc)
       THEN Proceed("CreateJob", cluster, podObj)
       ELSE Return(TRUE)
    /\ UNCHANGED <<objects, containers, cache, budgets>>

CreateJob ==
    /\ pc = "CreateJob"
    /\ \/ /\ job = Nil
          /\ job' = GetWantedRestoreJob
          /\ Proceed("MarkProgressing", cluster, podObj)
       \/ /\ job # Nil
          /\ Proceed("GetJob", cluster, podObj)
          /\ UNCHANGED job
    /\ UNCHANGED <<rpc, owned, containers, cache, budgets>>

\* Variant: having created the job, Reconcile goes on to the pod.
MarkProgressingGoesOn ==
    /\ pc = "MarkProgressing"
    /\ SetPhases(markRestoreAsProgressing(cluster.conditions), "CreatePod")
    /\ UNCHANGED <<owned, job, containers, cache, budgets>>

MarkProgressing ==
    /\ pc = "MarkProgressing"
    /\ SetPhases(markRestoreAsProgressing(cluster.conditions), "Requeue")
    /\ UNCHANGED <<owned, job, containers, cache, budgets>>

\* Variant: no delayed requeue, trusting the job's events.
GetJobOnce ==
    /\ pc = "GetJob"
    /\ IF cache.job # Nil /\ cache.job.succeeded
       THEN Proceed("MarkFinished", cluster, podObj)
       ELSE Return(FALSE)
    /\ UNCHANGED <<objects, containers, cache, budgets>>

\* Variant: a job with no worker left counts as finished.
GetJobWithoutWorker ==
    /\ pc = "GetJob"
    /\ IF cache.job # Nil /\ ~cache.job.active
       THEN Proceed("MarkFinished", cluster, podObj)
       ELSE Return(TRUE)
    /\ UNCHANGED <<objects, containers, cache, budgets>>

\* The job as the cache has it; absent is an error.  While it runs, look
\* again in 30 seconds.
GetJob ==
    /\ pc = "GetJob"
    /\ \/ /\ cache.job # Nil /\ cache.job.succeeded
          /\ Proceed("MarkFinished", cluster, podObj)
       \/ /\ cache.job # Nil /\ ~cache.job.succeeded /\ cache.job.failures > 0
          /\ Proceed("MarkFailed", cluster, podObj)
       \/ /\ cache.job # Nil => ~cache.job.succeeded /\ cache.job.failures = 0
          /\ Return(TRUE)
    /\ UNCHANGED <<objects, containers, cache, budgets>>

\* Variant: the job is deleted before the restore is recorded.
MarkFinishedAfterCleanup ==
    /\ pc = "MarkFinished"
    /\ job' = Nil
    /\ SetPhases(markArchiveAsFinished(cluster.conditions), "Requeue")
    /\ UNCHANGED <<owned, containers, cache, budgets>>

MarkFinished ==
    /\ pc = "MarkFinished"
    /\ SetPhases(markArchiveAsFinished(cluster.conditions), "Requeue")
    /\ UNCHANGED <<owned, job, containers, cache, budgets>>

\* ErrTerminateLoop reaches the manager as an error, which requeues.
MarkFailed ==
    /\ pc = "MarkFailed"
    /\ SetPhases(markRestoreAsFailed(cluster.conditions), "Requeue")
    /\ UNCHANGED <<owned, job, containers, cache, budgets>>

ArchiveStep ==
    \/ CreatePvc \/ ResetRestore
    \/ DeleteJob \/ DeleteScratch \/ MarkSkipped
    \/ CreateScratch \/ GetScratch \/ EnsurePvcReady
    \/ CreateJob \/ MarkProgressing
    \/ GetJob \/ MarkFinished \/ MarkFailed

=============================================================================

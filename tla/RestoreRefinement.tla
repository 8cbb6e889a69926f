-------------------------- MODULE RestoreRefinement --------------------------
(***************************************************************************)
(* The operator as an implementation of RestoreLifecycle: what stands for  *)
(* the abstract state among the objects of the cluster.  The caches, the   *)
(* queue and the Reconcile in progress have no counterpart: whatever they  *)
(* do in between is a stuttering step of the promise.                      *)
(***************************************************************************)
EXTENDS RestoreInvariant

\* The attempts are those of the job.
Work ==
    IF job = Nil THEN "none"
    ELSE IF job.succeeded THEN "done"
    ELSE IF job.active THEN IF writer = "job" THEN "extracting" ELSE "running"
    ELSE IF JobFinished(job) THEN "failed" ELSE "pending"

Lifecycle ==
    INSTANCE RestoreLifecycle
    WITH wanted <- rpc.enable, volume <- data, work <- Work,
         recorded <- Restored(rpc), node <- Owned(pod)

\* Every step of the operator and of everybody around it is a step of the
\* promise or none at all (controller.go:72-118, archive_restore.go:22-143),
\* for users who leave the StarknetRPC, its volume and its switch alone.
LifecycleImplemented == Lifecycle!Spec

=============================================================================

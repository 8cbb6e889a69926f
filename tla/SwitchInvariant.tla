-------------------------- MODULE SwitchInvariant --------------------------
(***************************************************************************)
(* Four more inductive invariants.  SkipInv holds whatever users do.       *)
(* SwitchInv and OverInv are for users who may flip the enable switch at   *)
(* any moment but delete neither the StarknetRPC nor its main volume       *)
(* (VolumeKept).                                                           *)
(* UnboundInv says why no restore begins where nothing binds a volume      *)
(* before it is used.                                                      *)
(***************************************************************************)
EXTENDS RestoreInvariant

\* A Reconcile about to record a skip works on a copy that asks for it
\* (archive_restore.go:54-60).
SkipInv == pc = "MarkSkipped" => ~cluster.enable

VolumeKept == UserOps \cap {"deletePvc", "deleteRpc"} = {}

\* A copy, however old, never claims a restore that is not recorded.
ModestCopy(c) ==
    c # Nil => c.uid = rpc.uid /\ (Restored(c) => Restored(rpc))

ModestCopies == rpc # Nil /\ ModestCopy(cache.rpc) /\ ModestCopy(cluster)

\* Whoever is about to clean up knows of the restore, and so does the cache.
SwitchLabels ==
    /\ pc = "Initialize" => DOMAIN cluster.conditions = {}
    /\ pc = "CreatePvc" /\ Restored(cluster) =>
           cache.rpc # Nil /\ Restored(cache.rpc)
    /\ pc = "ResetRestore" => ~Restored(rpc)
    /\ pc \in RestoringLabels => ~Restored(cluster)
    /\ pc \in CleaningLabels =>
           Restored(cluster) /\ cache.rpc # Nil /\ Restored(cache.rpc)

\* While the worker of a deleted job still runs, no copy is left from which
\* another job could be made.
OrphanInv ==
    orphan =>
        /\ job = Nil
        /\ cache.rpc # Nil /\ Restored(cache.rpc)
        /\ cluster # Nil => Restored(cluster)

\* The inductive invariant for a switch that moves: a worker killed in the
\* background has no successor (archive_restore.go:29-61), because the record
\* of the skip came before the deletion and every copy in use has it.
SwitchInv ==
    /\ SkipInv
    /\ ModestCopies
    /\ VolumeInv
    /\ SwitchLabels
    /\ OrphanInv

-----------------------------------------------------------------------------
(* When a restore is over, with a switch that moves. *)

\* A restore reported as finished has put the snapshot on the volume
\* (archive_restore.go:118), whatever the user did with the switch: the
\* success of a job that went on extracting beside the node that a skip let in
\* (archive_restore.go:54-60) is never reported.
FinishedMeansSnapshot ==
    Reason("Restore", "ArchiveJobFinished") => data = "snapshot"

\* A Reconcile with this copy asks for no restore.
KnowsItIsOver(c) == c # Nil => Restored(c) \/ ~c.enable

RestoreOver == Restored(rpc) /\ KnowsItIsOver(cache.rpc) /\ KnowsItIsOver(cluster)

\* The cache has not missed an edit that the Reconcile in progress has seen.
CacheKeepsUp ==
    cluster = rpc => cache.rpc # Nil /\ cache.rpc.enable = rpc.enable

PositionTells ==
    /\ pc = "MarkSkipped" => ~Restored(cluster)
    /\ pc \in RestoringLabels => cluster.enable
    /\ pc \in PodLabels => Restored(cluster)

\* From the first pod on, or with the job gone from a written volume, nobody
\* asks for a restore.
OverWhenUsed ==
    (job = Nil /\ data # "empty") \/ Owned(pod) \/ pc \in PodLabels => RestoreOver

\* A job that has succeeded, be it in the cache only, has left the snapshot,
\* unless a skip was recorded while it ran: its worker may then have had a node
\* beside it.
SnapshotOrSkipped == data = "snapshot" \/ Restored(rpc)

SuccessInv ==
    /\ data = "mixed" => Restored(rpc)
    /\ job # Nil /\ job.succeeded => ~job.active /\ SnapshotOrSkipped
    /\ cache.job # Nil /\ cache.job.succeeded => SnapshotOrSkipped
    /\ pc = "MarkFinished" => SnapshotOrSkipped

\* The inductive invariant behind OneRestorePerVolume and
\* FinishedMeansSnapshot for a switch that moves: a copy old enough to ask
\* for a restore is older than the cache, or there is no more use for it.
OverInv ==
    /\ CacheKeepsUp
    /\ PositionTells
    /\ OverWhenUsed
    /\ SuccessInv
    /\ FinishedMeansSnapshot
    /\ AvailableAfterRestore

-----------------------------------------------------------------------------
(* No restore without bound volumes. *)

UnboundClaim(c) == c # Nil => ~c.bound /\ c.class = StorageClass

\* The inductive invariant behind RestoreNeedsBoundVolumes: the scratch
\* volume stays unbound for want of a job, and the job is not made for want
\* of a bound scratch volume (archive_restore.go:78-107).
UnboundInv ==
    NeverBound =>
        /\ job = Nil
        /\ UnboundClaim(scratch) /\ UnboundClaim(cache.scratch)
        /\ pc \notin {"EnsurePvcReady", "CreateJob", "MarkProgressing", "GetJob",
                      "MarkFinished", "MarkFailed"}

=============================================================================

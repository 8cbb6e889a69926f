-------------------------- MODULE RestoreInvariant --------------------------
(***************************************************************************)
(* The inductive invariant behind the safety of the restore, for clusters  *)
(* whose users neither delete the StarknetRPC or its main volume nor touch *)
(* the enable switch (RestoreSettled).  It says what the copies of the     *)
(* StarknetRPC, the cached job and the position of the Reconcile in        *)
(* progress are worth, however old they are.                               *)
(***************************************************************************)
EXTENDS Reconciler

RestoreSettled == UserOps \cap {"enable", "deletePvc", "deleteRpc"} = {}

RestoringLabels ==
    {"CreateScratch", "GetScratch", "EnsurePvcReady", "CreateJob",
     "MarkProgressing", "GetJob", "MarkFinished", "MarkFailed"}
CleaningLabels == {"DeleteJob", "DeleteScratch"}
PodLabels == PodCalls \cup {"GetPod"}

\* A copy of the StarknetRPC, however old, never claims a restore that is
\* not recorded.
FaithfulCopy(c) ==
    c # Nil => /\ c.uid = rpc.uid
               /\ c.enable = rpc.enable
               /\ Restored(c) => Restored(rpc)

CopiesInv == rpc # Nil /\ FaithfulCopy(cache.rpc) /\ FaithfulCopy(cluster)

\* The main volume, once made, stays; it is there past CreatePvc.
VolumeInv ==
    /\ pvc # Nil => pvc.owner = rpc.uid /\ ~pvc.terminating
    /\ pvc = Nil => ~Restored(rpc)
    /\ pc \notin {"Idle", "Initialize", "CreatePvc"} => pvc # Nil

\* Jobs exist for enabled restores only, and their success means the
\* snapshot; the cached job may be late, not wrong.
JobInv ==
    /\ ~orphan
    /\ job # Nil => rpc.enable /\ (job.succeeded => ~job.active /\ data = "snapshot")
    /\ data # "mixed"
    /\ cache.job # Nil =>
           (cache.job.succeeded =>
                data = "snapshot" /\ (job # Nil => job.succeeded))

\* What a recorded restore is worth.
RestoredInv ==
    Restored(rpc) /\ rpc.enable =>
        /\ data = "snapshot"
        /\ job # Nil => job.succeeded

\* With the job gone from a written volume, every copy a Reconcile can start
\* from or works with knows of the restore: no second job follows.
NoSecondJobInv ==
    rpc.enable /\ job = Nil /\ data # "empty" =>
        /\ cache.rpc # Nil /\ Restored(cache.rpc)
        /\ cluster # Nil => Restored(cluster)

\* The position of the Reconcile tells what its copy says.
LabelInv ==
    /\ pc = "Initialize" => DOMAIN cluster.conditions = {}
    /\ pc = "CreatePvc" /\ Restored(cluster) =>
           cache.rpc # Nil /\ Restored(cache.rpc)
    /\ pc = "ResetRestore" => ~Restored(rpc)
    /\ pc = "MarkSkipped" => ~cluster.enable
    /\ pc \in RestoringLabels => cluster.enable /\ ~Restored(cluster)
    /\ pc = "MarkFinished" => data = "snapshot" /\ (job # Nil => job.succeeded)
    /\ pc \in CleaningLabels =>
           Restored(cluster) /\ cache.rpc # Nil /\ Restored(cache.rpc)
    /\ pc \in PodLabels => Restored(cluster)

PodInv == Owned(pod) => Restored(rpc)

\* The inductive invariant: an old copy of the StarknetRPC is never wrong
\* about the restore, whatever the Reconcile in progress does with it
\* (controller.go:72-111), and a recorded restore is never without its
\* snapshot (archive_restore.go:29,118).
RestoreInv ==
    /\ CopiesInv
    /\ VolumeInv
    /\ JobInv
    /\ RestoredInv
    /\ NoSecondJobInv
    /\ LabelInv
    /\ PodInv
    /\ AvailableAfterRestore

=============================================================================

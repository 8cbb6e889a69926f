----------------------------- MODULE Quiescence -----------------------------
(***************************************************************************)
(* No wake-up is lost.  An operator driven by events is right if it has    *)
(* nothing left to do whenever nothing will wake it again.  That is a      *)
(* claim about states, whatever the fairness: the safety at the heart of   *)
(* NodeFollowsRestore, ScratchReleased, NodeRecovers, ImageConverges and   *)
(* SuccessorServed.  It needs that nobody makes a pod under the node's     *)
(* name by hand, because the events of such a pod reach nobody             *)
(* (NoForeignPods; users may do anything else).                            *)
(***************************************************************************)
EXTENDS SwitchInvariant

NoForeignPods == "foreignPod" \notin UserOps

\* No Reconcile is in progress or due, the cache has the StarknetRPC as it
\* is, and no event of an owned object is on its way.
AtRest == pc = "Idle" /\ ~queued /\ cache.rpc = rpc /\ news = {}

ScratchLetGo == scratch = Nil \/ scratch.terminating

NodeAsWanted(c) ==
    /\ pod # Nil
    /\ ~shouldPodGetRecreated(pod)
    /\ ImageIsUpToDate(pod, c)

\* When nothing will call Reconcile again (controller.go:144-154), the
\* restore is recorded, its job and its scratch volume are gone or going,
\* and the main volume and a pod with the wanted image that is not beyond
\* repair are there.
RestsWhenDone ==
    AtRest /\ rpc # Nil =>
        /\ Restored(rpc)
        /\ job = Nil /\ ScratchLetGo
        /\ pvc # Nil
        /\ NodeAsWanted(rpc)

\* A recorded restore is taken back only by a Reconcile that has made the
\* main volume anew (pvc.go:34-40), though users delete and make anew what
\* they like: no status update from a stale copy does it.
ResetOnlyWithVolume ==
    [][rpc # Nil /\ rpc' # Nil /\ rpc'.uid = rpc.uid /\ Restored(rpc)
           => Restored(rpc') \/ pc = "ResetRestore"]_rpc

-----------------------------------------------------------------------------
(* The inductive invariant: what the position of the Reconcile in progress *)
(* is worth, whatever users do, and what is worth the position of one that *)
(* nothing has overtaken since it began.                                   *)

PositionInv ==
    /\ pc = "Initialize" => DOMAIN cluster.conditions = {}
    /\ pc \in RestoringLabels \cup {"MarkSkipped"} => ~Restored(cluster)
    /\ pc \in CleaningLabels \cup PodLabels => Restored(cluster)

\* Every StarknetRPC and every object made for one names an owner, so that
\* its changes are announced.
OwnersInv ==
    /\ \A c \in {rpc, cache.rpc, cluster} : c # Nil => c.uid # NoOwner
    /\ \A x \in {pvc, pod} : x # Nil => x.owner # NoOwner

\* The queue is empty and the cache has the StarknetRPC as it is.
Fresh == ~queued /\ rpc # Nil /\ cache.rpc = rpc

CurrentCopyInv ==
    /\ "pod" \notin news => cache.pod = pod
    /\ Fresh /\ pc # "Idle" => cluster = rpc

VolumeThere ==
    ~queued /\ "pvc" \notin news /\ pc \notin {"Idle", "Initialize", "CreatePvc"}
        => pvc # Nil

CleanedUp ==
    Fresh =>
        /\ pc \in PodLabels \cup {"DeleteScratch"} => job = Nil
        /\ pc \in PodLabels => ScratchLetGo

NodeSeen ==
    ~queued =>
        /\ pc = "MarkCreating" => "pod" \in news
        /\ pc \in {"IsReady", "MarkCatchingUp"} /\ "pod" \notin news
               => NodeAsWanted(cluster)

IdleWhenDone ==
    Fresh /\ pc = "Idle" =>
        /\ Restored(rpc)
        /\ job = Nil /\ ScratchLetGo
        /\ "pvc" \notin news => pvc # Nil
        /\ "pod" \notin news => NodeAsWanted(rpc)

RestInv ==
    /\ PositionInv
    /\ OwnersInv
    /\ CurrentCopyInv
    /\ VolumeThere
    /\ CleanedUp
    /\ NodeSeen
    /\ IdleWhenDone

=============================================================================

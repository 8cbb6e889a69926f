-------------------------- MODULE MonitorInvariant --------------------------
(***************************************************************************)
(* Two more promises of ReconcilePodMonitor, as claims about states, and   *)
(* their inductive invariants.  RestsSettled is the safety at the heart of *)
(* MonitorConverges: no wake-up is lost although no error of the           *)
(* PodMonitor requeues.  NothingBeforeRestore is about a StarknetRPC made  *)
(* again under the name of one that was deleted, on whose volume, job, pod *)
(* and PodMonitor it may come.                                             *)
(***************************************************************************)
EXTENDS PodMonitor

-----------------------------------------------------------------------------
(* No wake-up is lost. *)

\* No Reconcile is in progress or due, the cache has the StarknetRPC as it
\* is, and no event of an owned object is on its way.
AtRest ==
    manager = "running" /\ pc = "Idle" /\ ~queued /\ cache.rpc = rpc /\ news = {}

AsWanted(m, c) ==
    /\ m # Nil
    /\ IsUpToDate(m, c)

SettledFor(c) == IF c.enabled THEN AsWanted(monitor, c) ELSE monitor = Nil

\* When nothing will call Reconcile again, the restore is recorded, volume and
\* pod are there, and the PodMonitor is as the specification asks, or an error
\* of it was dropped (controller.go:84-131, podmonitor.go:18-73).
RestsSettled ==
    AtRest /\ rpc # Nil =>
        /\ rpc.restored /\ volume # Nil /\ pod # Nil
        /\ dropped \/ SettledFor(rpc)

PositionInv ==
    /\ manager = "starting" => pc = "Idle"
    /\ pc \in MonitorCalls \cup {"CreatePod", "MarkCreating"} => cluster.restored
    /\ pc \in MonitorCalls =>
           (cluster.enabled <=> pc \notin {"GetExisting", "DeleteMonitor"})

\* The queue is empty and the cache has the StarknetRPC as it is.
Fresh == ~queued /\ rpc # Nil /\ cache.rpc = rpc

\* An object that nothing is announced of is the one in the cache; the copy of
\* a Reconcile that nothing has overtaken is the StarknetRPC.
CurrentCopyInv ==
    /\ "pod" \notin news => cache.pod = pod
    /\ "monitor" \notin news => cache.monitor = monitor
    /\ Fresh /\ pc # "Idle" => cluster = rpc
    /\ ~queued /\ pc = "UpdateMonitor" => monObj = cache.monitor

\* What Reconcile has found or made is there, unless news of it is on its way.
FoundThere ==
    ~queued =>
        /\ pc \notin {"Idle", "CreatePvc"} /\ "volume" \notin news => volume # Nil
        /\ pc \in MonitorCalls \cup {"MarkCreating"} /\ "pod" \notin news => pod # Nil
        /\ pc \in {"GetMonitor", "UpdateMonitor"} /\ "monitor" \notin news => monitor # Nil

IdleSettled ==
    manager = "running" /\ pc = "Idle" /\ Fresh =>
        /\ rpc.restored
        /\ "volume" \notin news => volume # Nil
        /\ "pod" \notin news => pod # Nil
        /\ news = {} => dropped \/ SettledFor(rpc)

MonitorRestInv == PositionInv /\ CurrentCopyInv /\ FoundThere /\ IdleSettled

-----------------------------------------------------------------------------
(* Nothing before the restore. *)

\* Neither pod nor PodMonitor is made for a StarknetRPC whose restore was never
\* recorded (controller.go:105-131): the copies of a predecessor of the same
\* name, restored long ago, make them for the predecessor only.  One whose
\* record is taken back, with its volume made anew, keeps what it has
\* (pvc.go:28-36).
NothingBeforeRestore ==
    rpc # Nil /\ rpc.uid \notin recorded =>
        /\ pod # rpc.uid
        /\ monitor # Nil => monitor.owner # rpc.uid

\* Every StarknetRPC there was, be it as a copy or as an owner.
RpcCopies == {cache.rpc, cluster, rpc} \ {Nil}
MonitorCopiesHeld == {monitor, cache.monitor, monObj} \ {Nil}
Owners == ({pod} \ {Nil}) \cup {m.owner : m \in MonitorCopiesHeld}

\* No copy, however old and of whatever StarknetRPC, says more than was once
\* recorded, and no StarknetRPC takes over the uid of another.
OriginInv ==
    /\ Owners \subseteq recorded
    /\ \A c \in RpcCopies : c.restored => c.uid \in recorded
    /\ \A u \in recorded \cup {c.uid : c \in RpcCopies} :
           u <= edits + 1 /\ (rpc = Nil => u <= edits)

=============================================================================

----------------------------- MODULE PodMonitor -----------------------------
(***************************************************************************)
(* ReconcilePodMonitor, which keeps a PodMonitor of the Prometheus         *)
(* operator beside the node's pod, as the last part of Reconcile.  The     *)
(* parts before it are here as far as they decide whether the PodMonitor   *)
(* is looked at: they make the volume, record the restore and take the     *)
(* record back, and make the pod.  Reconciler has the rest of them: the    *)
(* binding of volumes, a restore that is disabled or fails, a pod that is  *)
(* replaced, and late copies of the job.  The kind PodMonitor belongs to a *)
(* CustomResourceDefinition (crd) that may be missing, come and go; the    *)
(* manager watches the kind in any case.                                   *)
(***************************************************************************)
EXTENDS Naturals

CONSTANTS
    Nil,          \* absent object, unset label
    LabelKeys,    \* keys of labels other than the operator's own six
    LabelValues,  \* what specifications put there
    UserValues,   \* what users put on the PodMonitor, and no specification
    CrdAtStart,   \* whether the definition may be installed from the start
    FirstEnabled, \* what a StarknetRPC may say of monitoring when it is created
    FirstValues,  \* and of labels
    MonitorOps,   \* what users of the cluster may do
    MaxEdits,     \* bound: user operations in a behaviour
    MaxFailures   \* bound: crashes and failed API calls

ASSUME PodMonitorAssumption ==
    /\ Nil \notin LabelValues \cup UserValues
    /\ LabelValues \cap UserValues = {}
    /\ CrdAtStart \subseteq BOOLEAN
    /\ FirstEnabled \subseteq BOOLEAN
    /\ FirstValues \subseteq LabelValues \cup {Nil}
    /\ MonitorOps \subseteq {"configure", "tamper", "delete", "rpc", "crd"}
    /\ MaxEdits \in Nat /\ MaxFailures \in Nat

VARIABLES
    rpc,       \* the StarknetRPC: uid, podMonitor section, restore recorded
    volume,    \* claim <name>-storage: the uid of its owner
    job,       \* the job that restores into it
    pod,       \* pod <name>-rpc: the uid of its owner
    monitor,   \* PodMonitor <name>-podmonitor
    crd,       \* the definition of the kind PodMonitor is installed
    manager,   \* "starting" until its caches are filled, then "running"
    news,      \* kinds of owned objects with a watch event on its way
    cache,     \* the manager's informers
    queued,    \* the request is in the work queue
    pc,        \* the next call of the Reconcile in progress
    cluster,   \* its copy of the StarknetRPC
    monObj,    \* its copy of the PodMonitor
    dropped,   \* the last Reconcile gave up on the PodMonitor unheard
    recorded,  \* the uids whose restore was ever recorded
    edits, failures

node    == <<volume, job, pod>>
objects == <<rpc, node, monitor, crd>>
process == <<manager, news, cache, queued, pc, cluster, monObj, dropped>>
vars == <<objects, process, recorded, edits, failures>>

-----------------------------------------------------------------------------
(* Types. *)

Labels == [LabelKeys -> LabelValues \cup {Nil}]
MonitorLabels == [LabelKeys -> LabelValues \cup UserValues \cup {Nil}]

\* What sets two versions of an object apart that are otherwise alike; three
\* are enough, for at most two copies of an object are in use.
Versions == 1 .. 3
Rpcs ==
    [uid : Nat, rv : Versions, enabled : BOOLEAN, labels : Labels, restored : BOOLEAN]

\* What is left of getPodMonitorSpec: as wanted; changed in a field the
\* comparison looks at; changed in another one; an endpoint without a port.
Specs == {"wanted", "drifted", "unnoticed", "portless"}
Monitors == [owner : Nat, rv : Versions, labels : MonitorLabels, spec : Specs]
Caches == [rpc : Rpcs \cup {Nil}, pod : Nat \cup {Nil}, monitor : Monitors \cup {Nil}]

ASSUME NilObjectAssumption == Nil \notin Rpcs \cup Monitors \cup Nat

NodeCalls ==
    {"CreatePvc", "ResetRestore", "ArchiveRestore", "MarkFinished", "CreatePod",
     "MarkCreating"}
MonitorCalls ==
    {"GetExisting", "DeleteMonitor", "GetPodForMonitor", "CreateMonitor",
     "GetMonitor", "UpdateMonitor"}

\* Every variable keeps its type, and the copies of a Reconcile in progress
\* are there when it needs them.
TypeOK ==
    /\ rpc \in Rpcs \cup {Nil}
    /\ volume \in Nat \cup {Nil} /\ pod \in Nat \cup {Nil}
    /\ job \in {"none", "running", "over"}
    /\ monitor \in Monitors \cup {Nil}
    /\ crd \in BOOLEAN /\ manager \in {"starting", "running"}
    /\ news \subseteq {"volume", "pod", "monitor"} /\ cache \in Caches
    /\ queued \in BOOLEAN /\ dropped \in BOOLEAN
    /\ recorded \subseteq Nat
    /\ pc \in {"Idle"} \cup NodeCalls \cup MonitorCalls
    /\ cluster \in Rpcs \cup {Nil} /\ monObj \in Monitors \cup {Nil}
    /\ pc # "Idle" => cluster # Nil
    /\ pc = "UpdateMonitor" => monObj # Nil
    /\ edits \in 0 .. MaxEdits /\ failures \in 0 .. MaxFailures

-----------------------------------------------------------------------------
(* What the handler looks at. *)

\* The wanted labels win, what else the object bears stays (maps.Copy).
CopyLabels(old, wanted) ==
    [k \in LabelKeys |-> IF wanted[k] # Nil THEN wanted[k] ELSE old[k]]

\* A change of an object makes of it what none of its copies is equal to: a
\* copy is the latest version if and only if it is equal to the object.
Version(object, v) == [object EXCEPT !.rv = v]

NewVersion(object, copies) ==
    Version(object, CHOOSE v \in Versions : Version(object, v) \notin copies)

NewRpc(c) == NewVersion(c, {cache.rpc, cluster})
NewMonitor(m) == NewVersion(m, {cache.monitor, monObj})

GetWantedPodMonitor(c) ==
    [owner |-> c.uid, rv |-> 1, labels |-> c.labels, spec |-> "wanted"]

UpdatedMonitor(m, c) ==
    [m EXCEPT !.labels = CopyLabels(@, c.labels), !.spec = "wanted"]

\* The expected labels only: one that is no longer wanted goes unnoticed.
LabelsMatch(m, c) == \A k \in LabelKeys : c.labels[k] # Nil => m.labels[k] = c.labels[k]

\* Variant: labels are not compared.
SpecUpToDate(m, c) == m.spec \in {"wanted", "unnoticed"}

IsUpToDate(m, c) == LabelsMatch(m, c) /\ m.spec \in {"wanted", "unnoticed"}

\* The comparison dereferences the port of the endpoint, which is optional.
Panics(m, c) == LabelsMatch(m, c) /\ m.spec = "portless"

-----------------------------------------------------------------------------
(* How a Reconcile call continues. *)

Announce(kind, changed) == news' = IF changed THEN news \cup {kind} ELSE news

Return(again) ==
    /\ pc' = "Idle" /\ cluster' = Nil /\ monObj' = Nil
    /\ queued' = (queued \/ again)

Goto(label) == pc' = label /\ UNCHANGED <<queued, cluster, monObj>>

\* Variant: a StarknetRPC that is not found is reconciled all the same.
StartUnchecked ==
    /\ manager = "running" /\ pc = "Idle" /\ queued
    /\ queued' = FALSE
    /\ dropped' = FALSE
    /\ cluster' = cache.rpc
    /\ pc' = "CreatePvc"
    /\ UNCHANGED <<objects, manager, news, cache, monObj, recorded, edits, failures>>

StartReconcile ==
    /\ manager = "running" /\ pc = "Idle" /\ queued
    /\ queued' = FALSE
    /\ dropped' = FALSE
    /\ cluster' = cache.rpc
    /\ pc' = IF cache.rpc = Nil THEN "Idle" ELSE "CreatePvc"
    /\ UNCHANGED <<objects, manager, news, cache, monObj, recorded, edits, failures>>

\* Status().Update: refused unless the copy is the latest version.
SetPhases(restored, next) ==
    \/ /\ rpc # Nil /\ rpc = cluster
       /\ rpc' = NewRpc([rpc EXCEPT !.restored = restored])
       /\ recorded' = IF restored THEN recorded \cup {rpc.uid} ELSE recorded
       /\ IF next = "Requeue" THEN Return(TRUE)
          ELSE pc' = next /\ cluster' = rpc' /\ UNCHANGED <<queued, monObj>>
    \/ /\ rpc = Nil \/ rpc # cluster
       /\ Return(TRUE)
       /\ UNCHANGED <<rpc, recorded>>

Keep == UNCHANGED <<monitor, crd, manager, cache, dropped, edits, failures>>

-----------------------------------------------------------------------------
(* The parts of Reconcile before the PodMonitor. *)

CreatePvc ==
    /\ pc = "CreatePvc"
    /\ volume' = IF volume = Nil THEN cluster.uid ELSE volume
    /\ Goto(IF volume = Nil THEN "ResetRestore" ELSE "ArchiveRestore")
    /\ Announce("volume", volume' # volume)
    /\ UNCHANGED <<rpc, job, pod, recorded>> /\ Keep

ResetRestore ==
    /\ pc = "ResetRestore"
    /\ SetPhases(FALSE, "ArchiveRestore")
    /\ UNCHANGED <<node, news>> /\ Keep

\* Variant: the pod does not wait for the restore.
ArchiveRestoreUngated ==
    /\ pc = "ArchiveRestore"
    /\ job' = IF cluster.restored THEN "none" ELSE "running"
    /\ Goto("CreatePod")
    /\ UNCHANGED <<rpc, volume, pod, recorded, news>> /\ Keep

\* Until the restore is recorded Reconcile makes the job, or comes back later
\* to see whether it is over; from then on it deletes the job and goes on.
ArchiveRestore ==
    /\ pc = "ArchiveRestore"
    /\ \/ cluster.restored /\ job' = "none" /\ Goto("CreatePod")
       \/ ~cluster.restored /\ job = "none" /\ job' = "running" /\ Return(TRUE)
       \/ ~cluster.restored /\ job = "running" /\ UNCHANGED job /\ Return(TRUE)
       \/ ~cluster.restored /\ job = "over" /\ UNCHANGED job /\ Goto("MarkFinished")
    /\ UNCHANGED <<rpc, volume, pod, recorded, news>> /\ Keep

MarkFinished ==
    /\ pc = "MarkFinished"
    /\ SetPhases(TRUE, "Requeue")
    /\ UNCHANGED <<node, news>> /\ Keep

EnterPodMonitor(c) == IF c.enabled THEN "GetPodForMonitor" ELSE "GetExisting"

\* While the pod found under the name is not in the cache, Reconcile comes
\* back later.  One that is in the cache is taken to be healthy.
CreatePod ==
    /\ pc = "CreatePod"
    /\ \/ pod = Nil /\ pod' = cluster.uid /\ Goto("MarkCreating")
       \/ pod # Nil /\ cache.pod = Nil /\ UNCHANGED pod /\ Return(TRUE)
       \/ /\ pod # Nil /\ cache.pod # Nil /\ UNCHANGED pod
          /\ Goto(EnterPodMonitor(cluster))
    /\ Announce("pod", pod' # pod)
    /\ UNCHANGED <<rpc, volume, job, recorded>> /\ Keep

\* The report leaves the record of the restore as it is.
MarkCreating ==
    /\ pc = "MarkCreating"
    /\ SetPhases(cluster.restored, EnterPodMonitor(cluster))
    /\ UNCHANGED <<node, news>> /\ Keep

NodeStep ==
    \/ CreatePvc \/ ResetRestore \/ ArchiveRestore \/ MarkFinished \/ CreatePod
    \/ MarkCreating

-----------------------------------------------------------------------------
(* ReconcilePodMonitor.  An error it returns is logged, and Reconcile ends  *)
(* as if all were well; the same error by a lack of the definition is not  *)
(* even reported.                                                          *)

Look == UNCHANGED <<objects, manager, news, cache, dropped, recorded, edits, failures>>
Wrote == /\ Announce("monitor", monitor' # monitor)
         /\ UNCHANGED <<rpc, node, crd, manager, cache, recorded, edits, failures>>

\* Disabled: the PodMonitor the cache has is deleted, by name.
GetExisting ==
    /\ pc = "GetExisting"
    /\ IF cache.monitor = Nil THEN Return(FALSE) ELSE Goto("DeleteMonitor")
    /\ Look

DeleteMonitor ==
    /\ pc = "DeleteMonitor"
    /\ monitor' = Nil
    /\ Return(FALSE)
    /\ Wrote /\ UNCHANGED dropped

GetPodForMonitor ==
    /\ pc = "GetPodForMonitor"
    /\ IF cache.pod = Nil THEN Return(FALSE) ELSE Goto("CreateMonitor")
    /\ Look

\* Without the definition the server answers that nothing was found.
CreateMonitor ==
    /\ pc = "CreateMonitor"
    /\ \/ ~crd /\ Return(FALSE) /\ dropped' = TRUE /\ UNCHANGED monitor
       \/ /\ crd /\ monitor = Nil
          /\ monitor' = NewMonitor(GetWantedPodMonitor(cluster))
          /\ Return(FALSE) /\ UNCHANGED dropped
       \/ crd /\ monitor # Nil /\ Goto("GetMonitor") /\ UNCHANGED <<monitor, dropped>>
    /\ Wrote

\* A panic is recovered by the controller, which takes it for an error.
GetMonitor ==
    /\ pc = "GetMonitor"
    /\ LET m == cache.monitor IN
       \/ (m # Nil => IsUpToDate(m, cluster)) /\ Return(FALSE)
       \/ m # Nil /\ Panics(m, cluster) /\ Return(TRUE)
       \/ /\ m # Nil /\ ~IsUpToDate(m, cluster) /\ ~Panics(m, cluster)
          /\ pc' = "UpdateMonitor" /\ monObj' = m /\ UNCHANGED <<queued, cluster>>
    /\ Look

\* Variant: the update goes through whatever the version.
Exists(m) == monitor # Nil

\* Optimistic concurrency.
Latest(m) == monitor # Nil /\ monitor = m

\* A conflict, and a PodMonitor that is gone, are errors like the others.
UpdateMonitor ==
    /\ pc = "UpdateMonitor"
    /\ monitor' = IF Latest(monObj) THEN NewMonitor(UpdatedMonitor(monObj, cluster))
                  ELSE monitor
    /\ Return(FALSE)
    /\ Wrote /\ UNCHANGED dropped

ReconcileStep ==
    \/ StartReconcile \/ NodeStep
    \/ GetExisting \/ DeleteMonitor \/ GetPodForMonitor \/ CreateMonitor
    \/ GetMonitor \/ UpdateMonitor

-----------------------------------------------------------------------------
(* The manager and its watches. *)

\* The type is compiled into the scheme whatever the cluster offers.
\* Registering it does not fail, so that the scheme always recognizes it.
PodMonitorWatched == TRUE

\* The caches of every watched kind have to fill before the manager works.
ManagerStarts ==
    /\ manager = "starting"
    /\ PodMonitorWatched => crd
    /\ manager' = "running"
    /\ cache' = [rpc |-> rpc, pod |-> pod, monitor |-> monitor]
    /\ news' = {} /\ queued' = (rpc # Nil)
    /\ UNCHANGED <<objects, pc, cluster, monObj, dropped, recorded, edits, failures>>

Fail == failures < MaxFailures /\ failures' = failures + 1

Crash ==
    /\ Fail
    /\ manager = "running" /\ manager' = "starting"
    /\ pc' = "Idle" /\ cluster' = Nil /\ monObj' = Nil
    /\ queued' = FALSE /\ dropped' = FALSE
    /\ UNCHANGED <<objects, news, cache, recorded, edits>>

\* An API call fails: before the PodMonitor, Reconcile returns the error.
Abort ==
    /\ Fail
    /\ pc \in NodeCalls \cup {"DeleteMonitor", "CreateMonitor", "UpdateMonitor"}
    /\ Return(pc \in NodeCalls)
    /\ dropped' = (pc \notin NodeCalls)
    /\ UNCHANGED <<objects, manager, news, cache, recorded, edits>>

Unwatched == <<objects, manager, pc, cluster, monObj, dropped, recorded, edits, failures>>

SyncRpc ==
    /\ manager = "running" /\ cache.rpc # rpc
    /\ cache' = [cache EXCEPT !.rpc = rpc]
    /\ queued' = TRUE
    /\ UNCHANGED news /\ UNCHANGED Unwatched

\* The cached volume decides nothing here.
SyncVolume ==
    /\ manager = "running" /\ "volume" \in news
    /\ news' = news \ {"volume"}
    /\ queued' = TRUE
    /\ UNCHANGED cache /\ UNCHANGED Unwatched

\* Variant: the kind is not registered with Owns.
SyncUnwatched(kind, object) ==
    /\ manager = "running" /\ kind \in news
    /\ cache' = [cache EXCEPT ![kind] = object]
    /\ news' = news \ {kind}
    /\ UNCHANGED queued /\ UNCHANGED Unwatched

SyncOwned(kind, object) ==
    /\ manager = "running" /\ kind \in news
    /\ cache' = [cache EXCEPT ![kind] = object]
    /\ news' = news \ {kind}
    /\ queued' = TRUE
    /\ UNCHANGED Unwatched

SyncPod == SyncOwned("pod", pod)
SyncMonitor == SyncOwned("monitor", monitor)

Watch == SyncRpc \/ SyncVolume \/ SyncPod \/ SyncMonitor

-----------------------------------------------------------------------------
(* The rest of the cluster. *)

Elsewhere == <<crd, manager, cache, queued, pc, cluster, monObj, dropped, recorded>>

JobEnds ==
    /\ job = "running" /\ volume # Nil
    /\ job' = "over"
    /\ UNCHANGED <<rpc, volume, pod, monitor, news, edits, failures, Elsewhere>>

Gone(owner) == IF rpc = Nil THEN TRUE ELSE rpc.uid # owner

CollectGarbage ==
    /\ \/ pod # Nil /\ Gone(pod) /\ pod' = Nil /\ UNCHANGED monitor
       \/ monitor # Nil /\ Gone(monitor.owner) /\ monitor' = Nil /\ UNCHANGED pod
    /\ news' = news \cup (IF pod' # pod THEN {"pod"} ELSE {"monitor"})
    /\ UNCHANGED <<rpc, volume, job, edits, failures, Elsewhere>>

\* The volume of a StarknetRPC that is gone, sooner or later or never: a pod
\* of its successor may hold it.
CollectVolume ==
    /\ volume # Nil /\ Gone(volume)
    /\ volume' = Nil
    /\ news' = news \cup {"volume"}
    /\ UNCHANGED <<rpc, job, pod, monitor, edits, failures, Elsewhere>>

Edit(op) ==
    /\ op \in MonitorOps
    /\ edits < MaxEdits /\ edits' = edits + 1
    /\ UNCHANGED <<job, manager, cache, queued, pc, cluster, monObj, dropped>>
    /\ UNCHANGED <<recorded, failures>>

\* Users configure spec.podMonitor.
Configure ==
    /\ Edit("configure") /\ rpc # Nil
    /\ \E enabled \in BOOLEAN, labels \in Labels :
           rpc' = NewRpc([rpc EXCEPT !.enabled = enabled, !.labels = labels])
    /\ UNCHANGED <<volume, pod, monitor, crd, news>>

\* Users change the PodMonitor itself, labels of their own included.
Tamper ==
    /\ Edit("tamper") /\ monitor # Nil
    /\ \E labels \in MonitorLabels, spec \in Specs :
           monitor' = NewMonitor([monitor EXCEPT !.labels = labels, !.spec = spec])
    /\ news' = news \cup {"monitor"}
    /\ UNCHANGED <<rpc, volume, pod, crd>>

DeleteMonitorByHand ==
    /\ Edit("delete")
    /\ monitor # Nil /\ monitor' = Nil
    /\ news' = news \cup {"monitor"}
    /\ UNCHANGED <<rpc, volume, pod, crd>>

DeletePodByHand ==
    /\ Edit("delete")
    /\ pod # Nil /\ pod' = Nil
    /\ news' = news \cup {"pod"}
    /\ UNCHANGED <<rpc, volume, monitor, crd>>

DeleteVolumeByHand ==
    /\ Edit("delete")
    /\ volume # Nil /\ volume' = Nil
    /\ news' = news \cup {"volume"}
    /\ UNCHANGED <<rpc, pod, monitor, crd>>

\* A StarknetRPC just created.
FreshRpcs(uid) ==
    {[uid |-> uid, rv |-> 1, enabled |-> enabled, labels |-> labels, restored |-> FALSE] :
        enabled \in FirstEnabled, labels \in [LabelKeys -> FirstValues]}

\* Users delete the StarknetRPC, or make it again under the same name.
ReplaceRpc ==
    /\ Edit("rpc")
    /\ \/ rpc # Nil /\ rpc' = Nil
       \/ rpc = Nil /\ \E c \in FreshRpcs(edits + 1) : rpc' = NewRpc(c)
    /\ UNCHANGED <<volume, pod, monitor, crd, news>>

\* With the definition go the objects of its kind.
ToggleCrd ==
    /\ Edit("crd")
    /\ crd' = ~crd
    /\ monitor' = Nil
    /\ Announce("monitor", monitor # Nil)
    /\ UNCHANGED <<rpc, volume, pod>>

UserStep ==
    \/ Configure \/ Tamper \/ DeleteMonitorByHand \/ DeletePodByHand
    \/ DeleteVolumeByHand \/ ReplaceRpc \/ ToggleCrd

-----------------------------------------------------------------------------
Init ==
    /\ rpc \in FreshRpcs(1)
    /\ volume = Nil /\ job = "none" /\ pod = Nil
    /\ monitor = Nil /\ crd \in CrdAtStart
    /\ manager = "starting" /\ news = {}
    /\ cache = [rpc |-> Nil, pod |-> Nil, monitor |-> Nil]
    /\ queued = FALSE /\ pc = "Idle" /\ cluster = Nil /\ monObj = Nil
    /\ dropped = FALSE /\ recorded = {} /\ edits = 0 /\ failures = 0

Next ==
    \/ ReconcileStep \/ Abort \/ Crash \/ ManagerStarts
    \/ Watch
    \/ JobEnds \/ CollectGarbage \/ CollectVolume \/ UserStep

Spec == Init /\ [][Next]_vars

\* The manager works, is restarted when it ends, and hears of changes.
Fairness ==
    /\ WF_vars(ReconcileStep) /\ WF_vars(ManagerStarts)
    /\ WF_vars(SyncRpc) /\ WF_vars(SyncVolume)
    /\ WF_vars(SyncPod) /\ WF_vars(SyncMonitor)
    /\ WF_vars(JobEnds) /\ WF_vars(CollectGarbage)

FairSpec == Spec /\ Fairness

-----------------------------------------------------------------------------
(* What the handler promises. *)

\* Repairing the PodMonitor never takes away a label that users gave it under
\* a key the StarknetRPC does not name, however old the copy it works on:
\* Prometheus may be selecting by it (podmonitor.go:133-140, ensure.go:51).
\* Labels that a specification put there are another matter.
UserLabelsKept ==
    [][pc = "UpdateMonitor" /\ pc' = "Idle" /\ monitor # Nil =>
           \A k \in LabelKeys :
               cluster.labels[k] = Nil /\ monitor.labels[k] \in UserValues
                   => monitor'.labels[k] = monitor.labels[k]]_monitor

Wanted == rpc # Nil /\ rpc.restored /\ rpc.enabled

\* Where events, stale caches and edits leave the PodMonitor: it exists with
\* the labels and the endpoint the specification asks for, or is gone when
\* disabled or abandoned (podmonitor.go:18-73), although its errors requeue
\* nothing.  Not so after an error that was dropped (controller.go:126-129)
\* or before an endpoint without port (podmonitor.go:103).
MonitorSettled ==
    IF Wanted
    THEN /\ monitor # Nil
         /\ \A k \in LabelKeys : rpc.labels[k] \in {Nil, monitor.labels[k]}
         /\ monitor.spec \in {"wanted", "unnoticed"}
    ELSE monitor = Nil

MonitorConverges ==
    <>[](\/ manager = "starting" \/ dropped
         \/ monitor # Nil /\ monitor.spec = "portless"
         \/ rpc # Nil /\ ~rpc.restored
         \/ MonitorSettled)

\* Monitoring is not critical to the node (controller.go:127-128): while the
\* manager runs, the pod is there in the end, whatever becomes of the
\* PodMonitor, its definition, or the comparison that panics on it.
NodeUnharmed == <>[](manager = "running" /\ rpc # Nil /\ rpc.restored => pod = rpc.uid)

\* docs/monitoring.md:130: "If you modify the `podMonitor` configuration, the
\* operator will automatically update the existing PodMonitor to match the new
\* configuration" (podmonitor.go:86-91,139).
MonitorMatchesConfiguration ==
    <>[](rpc # Nil /\ rpc.enabled /\ monitor # Nil => monitor.labels = rpc.labels)

\* controller.go:147-148 and main.go:58-59: "This allows the operator to work
\* even without Prometheus Operator installed".
WorksWithoutPrometheus == <>(pod # Nil)

=============================================================================

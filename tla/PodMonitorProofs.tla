-------------------------- MODULE PodMonitorProofs --------------------------
(***************************************************************************)
(* Proofs about PodMonitor for every value of the constants: types, that   *)
(* repairing the PodMonitor keeps the labels its users gave it, that no    *)
(* wake-up is lost, and that nothing is made for a StarknetRPC before its  *)
(* restore was recorded.                                                   *)
(***************************************************************************)
EXTENDS MonitorInvariant, TLAPS

-----------------------------------------------------------------------------
(* Types. *)

\* Of three versions of an object one is equal to neither of two copies.
LEMMA NewVersionExists ==
    ASSUME NEW object, "rv" \in DOMAIN object, NEW a, NEW b
    PROVE  \E v \in Versions : Version(object, v) \notin {a, b}
<1>1. \A v \in Versions : Version(object, v).rv = v
  BY DEF Version
<1>2. 1 \in Versions /\ 2 \in Versions /\ 3 \in Versions
  BY DEF Versions
<1> QED
  BY <1>1, <1>2

\* A change makes such a version, which differs from what was written in its
\* version only.
LEMMA NewVersionIsNew ==
    ASSUME NEW object, "rv" \in DOMAIN object, NEW a, NEW b
    PROVE  NewVersion(object, {a, b}) # a /\ NewVersion(object, {a, b}) # b
  BY NewVersionExists DEF NewVersion

LEMMA NewVersionIsOne ==
    ASSUME NEW object, "rv" \in DOMAIN object, NEW a, NEW b
    PROVE  \E v \in Versions : NewVersion(object, {a, b}) = Version(object, v)
  BY NewVersionExists DEF NewVersion

\* A change of the StarknetRPC makes an object that no copy is equal to, and
\* that differs from what was written in its version only.
LEMMA NewRpcTyped ==
    ASSUME NEW c \in Rpcs
    PROVE  /\ NewRpc(c) \in Rpcs /\ NewRpc(c) # Nil
           /\ NewRpc(c) # cache.rpc /\ NewRpc(c) # cluster
           /\ NewRpc(c).uid = c.uid
           /\ NewRpc(c).enabled = c.enabled
           /\ NewRpc(c).labels = c.labels
           /\ NewRpc(c).restored = c.restored
<1>1. "rv" \in DOMAIN c
  BY DEF Rpcs
<1>2. NewRpc(c) # cache.rpc /\ NewRpc(c) # cluster
  BY <1>1, NewVersionIsNew DEF NewRpc
<1>3. PICK v \in Versions : NewRpc(c) = Version(c, v)
  BY <1>1, NewVersionIsOne DEF NewRpc
<1>4. /\ Version(c, v) \in Rpcs
      /\ Version(c, v).uid = c.uid
      /\ Version(c, v).enabled = c.enabled
      /\ Version(c, v).labels = c.labels
      /\ Version(c, v).restored = c.restored
  BY DEF Rpcs, Version
<1> QED
  BY <1>2, <1>3, <1>4, NilObjectAssumption

\* So does a change of the PodMonitor.
LEMMA NewMonitorTyped ==
    ASSUME NEW m \in Monitors
    PROVE  /\ NewMonitor(m) \in Monitors /\ NewMonitor(m) # Nil
           /\ NewMonitor(m) # cache.monitor /\ NewMonitor(m) # monObj
           /\ NewMonitor(m).owner = m.owner
           /\ NewMonitor(m).labels = m.labels
           /\ NewMonitor(m).spec = m.spec
<1>1. "rv" \in DOMAIN m
  BY DEF Monitors
<1>2. NewMonitor(m) # cache.monitor /\ NewMonitor(m) # monObj
  BY <1>1, NewVersionIsNew DEF NewMonitor
<1>3. PICK v \in Versions : NewMonitor(m) = Version(m, v)
  BY <1>1, NewVersionIsOne DEF NewMonitor
<1>4. /\ Version(m, v) \in Monitors
      /\ Version(m, v).owner = m.owner
      /\ Version(m, v).labels = m.labels
      /\ Version(m, v).spec = m.spec
  BY DEF Monitors, Version
<1> QED
  BY <1>2, <1>3, <1>4, NilObjectAssumption

\* The objects the handler writes.
LEMMA MonitorsTyped ==
    ASSUME NEW c \in Rpcs
    PROVE  /\ GetWantedPodMonitor(c) \in Monitors
           /\ GetWantedPodMonitor(c).owner = c.uid
           /\ \A m \in Monitors :
                 /\ UpdatedMonitor(m, c) \in Monitors
                 /\ UpdatedMonitor(m, c).owner = m.owner
                 /\ UpdatedMonitor(m, c).labels = CopyLabels(m.labels, c.labels)
<1>1. c.uid \in Nat /\ c.labels \in Labels
  BY DEF Rpcs
<1>2. c.labels \in MonitorLabels
  BY <1>1 DEF Labels, MonitorLabels
<1>3. GetWantedPodMonitor(c) \in Monitors /\ GetWantedPodMonitor(c).owner = c.uid
  BY <1>1, <1>2 DEF GetWantedPodMonitor, Monitors, Specs, Versions
<1>4. ASSUME NEW m \in Monitors
      PROVE  /\ UpdatedMonitor(m, c) \in Monitors
             /\ UpdatedMonitor(m, c).owner = m.owner
             /\ UpdatedMonitor(m, c).labels = CopyLabels(m.labels, c.labels)
  <2>1. CopyLabels(m.labels, c.labels) \in MonitorLabels
    BY <1>1 DEF CopyLabels, Labels, MonitorLabels, Monitors
  <2> QED
    BY <2>1 DEF UpdatedMonitor, Monitors, Specs
<1> QED
  BY <1>3, <1>4

\* A StarknetRPC just created.
LEMMA FreshRpcTyped ==
    ASSUME NEW uid \in Nat, NEW c \in FreshRpcs(uid)
    PROVE  c \in Rpcs /\ c.uid = uid /\ ~c.restored
<1>1. PICK enabled \in FirstEnabled, labels \in [LabelKeys -> FirstValues] :
          c = [uid |-> uid, rv |-> 1, enabled |-> enabled, labels |-> labels,
               restored |-> FALSE]
  BY DEF FreshRpcs
<1>2. enabled \in BOOLEAN /\ labels \in Labels
  BY PodMonitorAssumption DEF Labels
<1> QED
  BY <1>1, <1>2 DEF Rpcs, Versions

\* What users make of the StarknetRPC.
LEMMA EditedRpcTyped ==
    ASSUME TypeOK, Configure \/ ReplaceRpc
    PROVE  /\ rpc' = Nil \/ (rpc' \in Rpcs /\ rpc' # cache.rpc)
           /\ \/ rpc' = Nil
              \/ /\ rpc # Nil /\ rpc' # Nil
                 /\ rpc'.uid = rpc.uid /\ rpc'.restored = rpc.restored
              \/ rpc = Nil /\ rpc' # Nil /\ rpc'.uid = edits + 1 /\ ~rpc'.restored
           /\ edits' = edits + 1 /\ edits' \in 0 .. MaxEdits
           /\ UNCHANGED <<node, monitor, crd, news>>
           /\ UNCHANGED <<manager, cache, queued, pc, cluster, monObj, dropped>>
           /\ UNCHANGED <<recorded, failures>>
<1>1. /\ edits' = edits + 1 /\ edits' \in 0 .. MaxEdits
      /\ UNCHANGED <<node, monitor, crd, news>>
      /\ UNCHANGED <<manager, cache, queued, pc, cluster, monObj, dropped>>
      /\ UNCHANGED <<recorded, failures>>
  <2>1. \E op : Edit(op) /\ UNCHANGED <<volume, pod, monitor, crd, news>>
    BY DEF Configure, ReplaceRpc
  <2> QED
    BY <2>1, PodMonitorAssumption DEF Edit, TypeOK, node
<1>2. CASE Configure
  <2>1. PICK enabled \in BOOLEAN, labels \in Labels :
            rpc' = NewRpc([rpc EXCEPT !.enabled = enabled, !.labels = labels])
    BY <1>2 DEF Configure
  <2>2. rpc # Nil /\ rpc \in Rpcs
    BY <1>2 DEF Configure, TypeOK
  <2> DEFINE edited == [rpc EXCEPT !.enabled = enabled, !.labels = labels]
  <2>3. edited \in Rpcs /\ edited.uid = rpc.uid /\ edited.restored = rpc.restored
    BY <2>2 DEF Rpcs
  <2> HIDE DEF edited
  <2>4. rpc' = NewRpc(edited)
    BY <2>1 DEF edited
  <2> QED
    BY <1>1, <2>2, <2>3, <2>4, NewRpcTyped
<1>3. CASE ReplaceRpc
  <2>1. edits + 1 \in Nat
    BY DEF TypeOK
  <2> QED
    BY <1>1, <1>3, <2>1, FreshRpcTyped, NewRpcTyped DEF ReplaceRpc
<1> QED
  BY <1>2, <1>3

\* An update of the status changes the record, keeps the rest and makes a
\* version the cache does not have; or it is refused, and Reconcile comes back.
LEMMA SetPhasesOutcome ==
    ASSUME TypeOK, cluster # Nil, NEW restored \in BOOLEAN, NEW next,
           SetPhases(restored, next)
    PROVE  \/ /\ rpc \in Rpcs /\ rpc # Nil /\ rpc = cluster
              /\ rpc' \in Rpcs /\ rpc' # Nil /\ rpc' # cache.rpc
              /\ rpc'.uid = rpc.uid
              /\ rpc'.enabled = rpc.enabled
              /\ rpc'.restored = restored
              /\ recorded' = IF restored THEN recorded \cup {rpc.uid} ELSE recorded
              /\ \/ next = "Requeue" /\ pc' = "Idle" /\ cluster' = Nil /\ monObj' = Nil
                    /\ queued' = TRUE
                 \/ next # "Requeue" /\ pc' = next /\ cluster' = rpc'
                    /\ UNCHANGED <<queued, monObj>>
           \/ /\ rpc' = rpc /\ recorded' = recorded
              /\ pc' = "Idle" /\ cluster' = Nil /\ monObj' = Nil /\ queued' = TRUE
<1>1. CASE rpc # Nil /\ rpc = cluster
  <2> DEFINE written == [rpc EXCEPT !.restored = restored]
  <2>1. rpc \in Rpcs
    BY <1>1 DEF TypeOK
  <2>2. /\ written \in Rpcs /\ written.uid = rpc.uid
        /\ written.enabled = rpc.enabled /\ written.restored = restored
    BY <2>1 DEF Rpcs
  <2>3. rpc' = NewRpc(written)
    BY <1>1 DEF SetPhases
  <2> HIDE DEF written
  <2>4. /\ rpc' \in Rpcs /\ rpc' # Nil /\ rpc' # cache.rpc
        /\ rpc'.uid = rpc.uid /\ rpc'.enabled = rpc.enabled /\ rpc'.restored = restored
    BY <2>2, <2>3, NewRpcTyped
  <2>5. recorded' = IF restored THEN recorded \cup {rpc.uid} ELSE recorded
    BY <1>1 DEF SetPhases
  <2>6. IF next = "Requeue" THEN Return(TRUE)
        ELSE pc' = next /\ cluster' = rpc' /\ UNCHANGED <<queued, monObj>>
    BY <1>1 DEF SetPhases
  <2> QED
    BY <1>1, <2>1, <2>4, <2>5, <2>6 DEF Return
<1>2. CASE rpc = Nil \/ rpc # cluster
  BY <1>2 DEF SetPhases, Return
<1> QED
  BY <1>1, <1>2

\* The parts of Reconcile before the PodMonitor keep the types.
LEMMA NodeStepTyped == TypeOK /\ NodeStep => TypeOK'
<1> SUFFICES ASSUME TypeOK, NodeStep PROVE TypeOK'
  OBVIOUS
<1> USE DEF node
<1>1. cluster \in Rpcs /\ cluster # Nil /\ cluster.uid \in Nat
  <2>1. cluster \in Rpcs
    BY DEF NodeStep, CreatePvc, ResetRestore, ArchiveRestore, MarkFinished, CreatePod,
           MarkCreating, TypeOK
  <2> QED
    BY <2>1, NilObjectAssumption DEF Rpcs
<1>2. CASE CreatePvc \/ ArchiveRestore \/ CreatePod
  <2>1. /\ UNCHANGED <<rpc, recorded, monitor, crd, manager, cache, dropped, edits, failures>>
        /\ news' \subseteq news \cup {"volume", "pod"}
    BY <1>2 DEF CreatePvc, ArchiveRestore, CreatePod, Announce, Keep
  <2>2. volume' \in Nat \cup {Nil} /\ pod' \in Nat \cup {Nil}
    BY <1>1, <1>2 DEF CreatePvc, ArchiveRestore, CreatePod, TypeOK
  <2>3. job' \in {"none", "running", "over"}
    BY <1>2 DEF CreatePvc, ArchiveRestore, CreatePod, TypeOK
  <2>4. /\ pc' \in {"Idle"} \cup NodeCalls \cup MonitorCalls /\ pc' # "UpdateMonitor"
        /\ queued' \in BOOLEAN /\ cluster' \in Rpcs \cup {Nil}
        /\ pc' # "Idle" => cluster' # Nil
        /\ monObj' \in Monitors \cup {Nil}
    BY <1>1, <1>2 DEF CreatePvc, ArchiveRestore, CreatePod, Return, Goto, EnterPodMonitor,
                      NodeCalls, MonitorCalls, TypeOK
  <2> QED
    BY <2>1, <2>2, <2>3, <2>4 DEF TypeOK
<1>3. CASE ResetRestore \/ MarkFinished \/ MarkCreating
  <2> DEFINE next == IF pc = "ResetRestore" THEN "ArchiveRestore"
                     ELSE IF pc = "MarkFinished" THEN "Requeue"
                     ELSE EnterPodMonitor(cluster)
             restored == IF pc = "ResetRestore" THEN FALSE
                         ELSE IF pc = "MarkFinished" THEN TRUE ELSE cluster.restored
  <2>1. UNCHANGED <<node, news>> /\ Keep
    BY <1>3 DEF ResetRestore, MarkFinished, MarkCreating
  <2>2. restored \in BOOLEAN
    BY <1>1 DEF Rpcs
  <2>3. next \in {"Requeue", "ArchiveRestore", "GetPodForMonitor", "GetExisting"}
    BY DEF EnterPodMonitor
  <2>4. SetPhases(restored, next)
    BY <1>3 DEF ResetRestore, MarkFinished, MarkCreating
  <2> HIDE DEF next, restored
  <2>5. /\ rpc' \in Rpcs \cup {Nil} /\ recorded' \subseteq Nat
        /\ pc' \in {"Idle", "ArchiveRestore", "GetPodForMonitor", "GetExisting"}
        /\ queued' \in BOOLEAN /\ cluster' \in Rpcs \cup {Nil}
        /\ pc' # "Idle" => cluster' # Nil
        /\ monObj' \in Monitors \cup {Nil}
    BY <1>1, <2>2, <2>3, <2>4, SetPhasesOutcome DEF TypeOK, Rpcs
  <2> QED
    BY <2>1, <2>5 DEF Keep, TypeOK, NodeCalls, MonitorCalls
<1> QED
  BY <1>2, <1>3 DEF NodeStep

\* So do the calls of ReconcilePodMonitor, and the begin of Reconcile.
LEMMA ReconcileTyped == TypeOK /\ ReconcileStep => TypeOK'
<1> SUFFICES ASSUME TypeOK, ReconcileStep PROVE TypeOK'
  OBVIOUS
<1> USE DEF objects, node, NodeCalls, MonitorCalls
<1>1. CASE StartReconcile
  BY <1>1 DEF StartReconcile, TypeOK, Caches
<1>2. CASE NodeStep
  BY <1>2, NodeStepTyped
<1>3. CASE GetExisting \/ GetPodForMonitor
  BY <1>3 DEF GetExisting, GetPodForMonitor, Look, Return, Goto, TypeOK
<1>4. CASE DeleteMonitor
  BY <1>4 DEF DeleteMonitor, Wrote, Announce, Return, TypeOK
<1>5. CASE CreateMonitor
  <2>1. cluster \in Rpcs
    BY <1>5 DEF CreateMonitor, TypeOK
  <2>2. monitor' \in Monitors \cup {Nil}
    BY <1>5, <2>1, MonitorsTyped, NewMonitorTyped DEF CreateMonitor, TypeOK
  <2> QED
    BY <1>5, <2>2 DEF CreateMonitor, Wrote, Announce, Return, Goto, TypeOK
<1>6. CASE GetMonitor
  <2>1. cache.monitor \in Monitors \cup {Nil}
    BY DEF TypeOK, Caches
  <2>2. \/ Return(FALSE) \/ Return(TRUE)
        \/ /\ pc' = "UpdateMonitor" /\ monObj' = cache.monitor /\ cache.monitor # Nil
           /\ UNCHANGED <<queued, cluster>>
    BY <1>6 DEF GetMonitor
  <2>3. Look /\ cluster # Nil
    BY <1>6 DEF GetMonitor, TypeOK
  <2> QED
    BY <2>1, <2>2, <2>3 DEF Look, Return, TypeOK
<1>7. CASE UpdateMonitor
  <2>1. cluster \in Rpcs /\ monObj \in Monitors
    BY <1>7 DEF UpdateMonitor, TypeOK
  <2>2. monitor' \in Monitors \cup {Nil}
    BY <1>7, <2>1, MonitorsTyped, NewMonitorTyped DEF UpdateMonitor, TypeOK
  <2> QED
    BY <1>7, <2>2 DEF UpdateMonitor, Wrote, Announce, Return, TypeOK
<1> QED
  BY <1>1, <1>2, <1>3, <1>4, <1>5, <1>6, <1>7 DEF ReconcileStep

\* So do the manager and its watches.
LEMMA ManagerTyped ==
    ASSUME TypeOK, Abort \/ Crash \/ ManagerStarts \/ Watch
    PROVE  TypeOK'
<1> USE DEF objects, node
<1>1. CASE Abort \/ Crash
  <2>1. failures' \in 0 .. MaxFailures /\ edits' = edits
    BY <1>1, PodMonitorAssumption DEF Abort, Crash, Fail, TypeOK
  <2>2. CASE Abort
    BY <2>1, <2>2 DEF Abort, Return, TypeOK
  <2>3. CASE Crash
    BY <2>1, <2>3 DEF Crash, TypeOK
  <2> QED
    BY <1>1, <2>2, <2>3
<1>2. CASE ManagerStarts
  BY <1>2 DEF ManagerStarts, TypeOK, Caches
<1>3. CASE Watch
  <2>1. cache' \in Caches
    BY <1>3 DEF Watch, SyncRpc, SyncVolume, SyncPod, SyncMonitor, SyncOwned, TypeOK, Caches
  <2>2. UNCHANGED Unwatched /\ queued' = TRUE /\ news' \subseteq news
    BY <1>3 DEF Watch, SyncRpc, SyncVolume, SyncPod, SyncMonitor, SyncOwned
  <2> QED
    BY <2>1, <2>2 DEF Unwatched, TypeOK
<1> QED
  BY <1>1, <1>2, <1>3

OthersStep == JobEnds \/ CollectGarbage \/ CollectVolume \/ UserStep

\* What everybody else does to the objects is typed, announced where the
\* manager hears of it, and leaves the process alone.
LEMMA OthersAnnounce ==
    ASSUME TypeOK, OthersStep
    PROVE  /\ UNCHANGED <<manager, cache, queued, pc, cluster, monObj, dropped>>
           /\ UNCHANGED <<recorded, failures>>
           /\ edits' \in {edits, edits + 1} /\ edits' \in 0 .. MaxEdits
           /\ volume' \in {volume, Nil} /\ pod' \in {pod, Nil}
           /\ job' \in {job, "over"} /\ crd' \in BOOLEAN
           /\ news \subseteq news' /\ news' \subseteq news \cup {"volume", "pod", "monitor"}
           /\ "volume" \notin news' => volume' = volume
           /\ "pod" \notin news' => pod' = pod
           /\ "monitor" \notin news' => monitor' = monitor
           /\ \/ monitor' \in {monitor, Nil}
              \/ /\ monitor \in Monitors /\ monitor # Nil
                 /\ monitor' \in Monitors /\ monitor'.owner = monitor.owner
           /\ rpc' = rpc \/ Configure \/ ReplaceRpc
<1> USE DEF node
<1>1. edits \in 0 .. MaxEdits /\ edits \in Nat /\ crd \in BOOLEAN
  BY PodMonitorAssumption DEF TypeOK
<1>2. CASE JobEnds \/ CollectGarbage \/ CollectVolume
  BY <1>1, <1>2 DEF JobEnds, CollectGarbage, CollectVolume, Elsewhere
<1>3. CASE Configure \/ ReplaceRpc
  <2>1. job' = job
    BY <1>3 DEF Configure, ReplaceRpc, Edit
  <2> QED
    BY <1>1, <1>3, <2>1, EditedRpcTyped
<1>4. ASSUME Tamper \/ DeleteMonitorByHand \/ DeletePodByHand \/ DeleteVolumeByHand
             \/ ToggleCrd
      PROVE  /\ UNCHANGED <<manager, cache, queued, pc, cluster, monObj, dropped>>
             /\ UNCHANGED <<rpc, job, recorded, failures>>
             /\ edits' = edits + 1 /\ edits' \in 0 .. MaxEdits
  <2>1. \E op : Edit(op) /\ rpc' = rpc
    BY <1>4 DEF Tamper, DeleteMonitorByHand, DeletePodByHand, DeleteVolumeByHand, ToggleCrd
  <2> QED
    BY <1>1, <2>1, PodMonitorAssumption DEF Edit
<1>5. CASE Tamper
  <2>1. PICK labels \in MonitorLabels, spec \in Specs :
            monitor' = NewMonitor([monitor EXCEPT !.labels = labels, !.spec = spec])
    BY <1>5 DEF Tamper
  <2>2. monitor # Nil /\ monitor \in Monitors
    BY <1>5 DEF Tamper, TypeOK
  <2> DEFINE tampered == [monitor EXCEPT !.labels = labels, !.spec = spec]
  <2>3. tampered \in Monitors /\ tampered.owner = monitor.owner
    BY <2>2 DEF Monitors
  <2> HIDE DEF tampered
  <2>4. monitor' \in Monitors /\ monitor'.owner = monitor.owner
    BY <2>1, <2>3, NewMonitorTyped DEF tampered
  <2>5. UNCHANGED <<volume, pod, crd>> /\ news' = news \cup {"monitor"}
    BY <1>5 DEF Tamper
  <2> QED
    BY <1>1, <1>4, <1>5, <2>2, <2>4, <2>5
<1>6. CASE DeleteMonitorByHand \/ DeletePodByHand \/ DeleteVolumeByHand \/ ToggleCrd
  <2>1. /\ volume' \in {volume, Nil} /\ pod' \in {pod, Nil} /\ monitor' \in {monitor, Nil}
        /\ crd' \in BOOLEAN
        /\ news \subseteq news' /\ news' \subseteq news \cup {"volume", "pod", "monitor"}
        /\ "volume" \notin news' => volume' = volume
        /\ "pod" \notin news' => pod' = pod
        /\ "monitor" \notin news' => monitor' = monitor
    BY <1>1, <1>6 DEF DeleteMonitorByHand, DeletePodByHand, DeleteVolumeByHand, ToggleCrd,
                      Announce
  <2> QED
    BY <1>4, <1>6, <2>1
<1> QED
  BY <1>2, <1>3, <1>5, <1>6 DEF OthersStep, UserStep

\* Type correctness.
THEOREM MonitorTypeCorrect == Spec => []TypeOK
<1>1. Init => TypeOK
  <2> SUFFICES ASSUME Init PROVE TypeOK
    OBVIOUS
  <2>1. rpc \in Rpcs
    BY FreshRpcTyped DEF Init
  <2>2. cache \in Caches
    BY DEF Init, Caches
  <2>3. crd \in BOOLEAN /\ 0 \in 0 .. MaxEdits /\ 0 \in 0 .. MaxFailures
    BY PodMonitorAssumption DEF Init
  <2> QED
    BY <2>1, <2>2, <2>3 DEF Init, TypeOK
<1>2. TypeOK /\ OthersStep => TypeOK'
  <2> SUFFICES ASSUME TypeOK, OthersStep PROVE TypeOK'
    OBVIOUS
  <2>1. rpc' \in Rpcs \cup {Nil}
    BY OthersAnnounce, EditedRpcTyped DEF TypeOK
  <2>2. monitor' \in Monitors \cup {Nil}
    BY OthersAnnounce DEF TypeOK
  <2> QED
    BY <2>1, <2>2, OthersAnnounce DEF TypeOK
<1>3. TypeOK /\ [Next]_vars => TypeOK'
  <2>1. TypeOK /\ UNCHANGED vars => TypeOK'
    BY DEF vars, objects, node, process, TypeOK
  <2> QED
    BY <1>2, <2>1, ReconcileTyped, ManagerTyped DEF Next, OthersStep
<1> QED
  BY <1>1, <1>3, PTL DEF Spec

\* Repairing the PodMonitor keeps the labels its users gave it under keys the
\* StarknetRPC does not name (podmonitor.go:133-140): an update computed from
\* an old copy is refused.
THEOREM RepairKeepsUserLabels == Spec => UserLabelsKept
<1>1. ASSUME TypeOK, Next, monitor' # monitor, pc = "UpdateMonitor", pc' = "Idle",
             monitor # Nil
      PROVE  UpdateMonitor
  <2>1. ~NodeStep
    BY <1>1 DEF NodeStep, CreatePvc, ResetRestore, ArchiveRestore, MarkFinished, CreatePod,
                MarkCreating
  <2>2. ~OthersStep
    BY <1>1, OthersAnnounce
  <2>3. ~(Watch \/ Abort \/ Crash \/ ManagerStarts)
    BY <1>1 DEF Watch, SyncRpc, SyncVolume, SyncPod, SyncMonitor, SyncOwned, Unwatched,
                Abort, Crash, ManagerStarts, objects
  <2> QED
    BY <1>1, <2>1, <2>2, <2>3 DEF Next, ReconcileStep, OthersStep, StartReconcile,
       GetExisting, DeleteMonitor, GetPodForMonitor, CreateMonitor, GetMonitor
<1>2. TypeOK /\ [Next]_vars
        => [pc = "UpdateMonitor" /\ pc' = "Idle" /\ monitor # Nil =>
              \A k \in LabelKeys :
                  cluster.labels[k] = Nil /\ monitor.labels[k] \in UserValues
                      => monitor'.labels[k] = monitor.labels[k]]_monitor
  <2> SUFFICES ASSUME TypeOK, Next, monitor' # monitor,
                      pc = "UpdateMonitor", pc' = "Idle", monitor # Nil,
                      NEW k \in LabelKeys, cluster.labels[k] = Nil
               PROVE  monitor'.labels[k] = monitor.labels[k]
    BY DEF vars, objects
  <2>1. UpdateMonitor
    BY <1>1
  <2>2. monObj = monitor /\ monitor' = NewMonitor(UpdatedMonitor(monitor, cluster))
    BY <2>1 DEF UpdateMonitor, Latest
  <2>3. monitor \in Monitors /\ cluster \in Rpcs
    BY <2>1 DEF UpdateMonitor, TypeOK
  <2>4. monitor'.labels = CopyLabels(monitor.labels, cluster.labels)
    BY <2>2, <2>3, MonitorsTyped, NewMonitorTyped
  <2> QED
    BY <2>4 DEF CopyLabels
<1> QED
  BY <1>2, MonitorTypeCorrect, PTL DEF Spec, UserLabelsKept

-----------------------------------------------------------------------------
(* No wake-up is lost. *)

\* Everybody else takes no rest away: what changes is announced, or is a
\* version of the StarknetRPC that the cache does not have.
LEMMA OthersKeepMonitorRest ==
    ASSUME TypeOK, MonitorRestInv, OthersStep
    PROVE  MonitorRestInv'
<1>1. /\ UNCHANGED <<manager, cache, queued, pc, cluster, monObj, dropped>>
      /\ news \subseteq news'
      /\ "volume" \notin news' => volume' = volume
      /\ "pod" \notin news' => pod' = pod
      /\ "monitor" \notin news' => monitor' = monitor
  BY OthersAnnounce
<1>2. Fresh' => Fresh /\ rpc' = rpc
  BY <1>1, OthersAnnounce, EditedRpcTyped DEF Fresh
<1>3. PositionInv' /\ CurrentCopyInv' /\ FoundThere'
  BY <1>1, <1>2 DEF MonitorRestInv, PositionInv, CurrentCopyInv, FoundThere
<1>4. news' = {} => news = {} /\ monitor' = monitor
  BY <1>1
<1>5. IdleSettled'
  BY <1>1, <1>2, <1>4 DEF MonitorRestInv, IdleSettled, SettledFor, AsWanted, IsUpToDate,
     LabelsMatch
<1> QED
  BY <1>3, <1>5 DEF MonitorRestInv

\* An event queues the StarknetRPC.  A manager that starts has everything in
\* its cache and the StarknetRPC in its queue.  A failure ends the Reconcile
\* in progress: before the PodMonitor it asks for another, and with the
\* PodMonitor in hand it is dropped.
LEMMA ManagerKeepsMonitorRest ==
    ASSUME TypeOK, MonitorRestInv, Watch \/ ManagerStarts \/ Crash \/ Abort
    PROVE  MonitorRestInv'
<1> USE DEF objects, node, NodeCalls, MonitorCalls
<1>1. CASE Watch
  <2>1. UNCHANGED Unwatched /\ queued' = TRUE
    BY <1>1 DEF Watch, SyncRpc, SyncVolume, SyncPod, SyncMonitor, SyncOwned
  <2>2. /\ "pod" \notin news' => cache'.pod = pod
        /\ "monitor" \notin news' => cache'.monitor = monitor
    BY <1>1 DEF Watch, SyncRpc, SyncVolume, SyncPod, SyncMonitor, SyncOwned, TypeOK, Caches,
                MonitorRestInv, CurrentCopyInv
  <2> QED
    BY <2>1, <2>2 DEF Unwatched, MonitorRestInv, PositionInv, CurrentCopyInv, FoundThere,
                      IdleSettled, Fresh
<1>2. CASE ManagerStarts
  BY <1>2 DEF ManagerStarts, MonitorRestInv, PositionInv, CurrentCopyInv, FoundThere,
              IdleSettled, Fresh
<1>3. CASE Crash
  BY <1>3 DEF Crash, MonitorRestInv, PositionInv, CurrentCopyInv, FoundThere, IdleSettled,
              Fresh
<1>4. CASE Abort
  <2>1. /\ UNCHANGED <<objects, manager, news, cache>>
        /\ pc' = "Idle" /\ queued' = (queued \/ pc \in NodeCalls)
        /\ dropped' = (pc \notin NodeCalls)
        /\ pc # "Idle" /\ pc \in NodeCalls \cup MonitorCalls
    BY <1>4 DEF Abort, Return
  <2>2. ~queued' => ~queued /\ pc \in MonitorCalls /\ dropped'
    BY <2>1
  <2>3. Fresh' => Fresh /\ cluster = rpc
    BY <2>1, <2>2 DEF Fresh, MonitorRestInv, CurrentCopyInv
  <2>4. IdleSettled'
    BY <2>1, <2>2, <2>3 DEF MonitorRestInv, PositionInv, FoundThere, IdleSettled, Fresh
  <2> QED
    BY <2>1, <2>4 DEF MonitorRestInv, PositionInv, CurrentCopyInv, FoundThere
<1> QED
  BY <1>1, <1>2, <1>3, <1>4

\* The parts of Reconcile before the PodMonitor go on with the copy they
\* have, with one the cache does not have, or come back.
LEMMA NodeStepKeepsMonitorRest ==
    ASSUME TypeOK, MonitorRestInv, NodeStep
    PROVE  MonitorRestInv'
<1> USE DEF node, NodeCalls, MonitorCalls
<1>1. /\ UNCHANGED <<monitor, crd, manager, cache, dropped>>
      /\ manager = "running" /\ pc \in NodeCalls /\ cluster \in Rpcs /\ cluster # Nil
  <2>1. Keep /\ pc \in NodeCalls
    BY DEF NodeStep, CreatePvc, ResetRestore, ArchiveRestore, MarkFinished, CreatePod,
           MarkCreating
  <2> QED
    BY <2>1, NilObjectAssumption DEF Keep, TypeOK, MonitorRestInv, PositionInv
<1>2. CASE CreatePvc
  <2>1. /\ pc = "CreatePvc" /\ pc' \in {"ResetRestore", "ArchiveRestore"}
        /\ UNCHANGED <<rpc, pod, queued, cluster, monObj>>
        /\ news \subseteq news' /\ news' \subseteq news \cup {"volume"}
    BY <1>1, <1>2 DEF CreatePvc, Goto, Announce
  <2>2. volume' # Nil
    BY <1>1, <1>2, NilObjectAssumption DEF CreatePvc, Rpcs
  <2> QED
    BY <1>1, <2>1, <2>2 DEF MonitorRestInv, PositionInv, CurrentCopyInv, FoundThere,
                            IdleSettled, Fresh
<1>3. CASE ArchiveRestore
  <2>1. /\ pc = "ArchiveRestore"
        /\ UNCHANGED <<rpc, volume, pod, news>>
        /\ \/ pc' = "Idle" /\ queued' = TRUE
           \/ /\ UNCHANGED <<queued, cluster, monObj>>
              /\ pc' = "MarkFinished" \/ (pc' = "CreatePod" /\ cluster.restored)
    BY <1>3 DEF ArchiveRestore, Return, Goto
  <2> QED
    BY <1>1, <2>1 DEF MonitorRestInv, PositionInv, CurrentCopyInv, FoundThere, IdleSettled,
                      Fresh
<1>4. CASE CreatePod
  <2>1. /\ pc = "CreatePod" /\ UNCHANGED <<rpc, volume>>
        /\ \/ pod' = pod /\ news' = news
           \/ news' = news \cup {"pod"}
        /\ \/ pc' = "Idle" /\ queued' = TRUE
           \/ /\ UNCHANGED <<queued, cluster, monObj>> /\ pod' # Nil
              /\ pc' \in {"MarkCreating", EnterPodMonitor(cluster)}
    BY <1>1, <1>4, NilObjectAssumption DEF CreatePod, Announce, Return, Goto, Rpcs
  <2>2. cluster.restored
    BY <2>1 DEF MonitorRestInv, PositionInv
  <2> QED
    BY <1>1, <2>1, <2>2 DEF EnterPodMonitor, MonitorRestInv, PositionInv, CurrentCopyInv,
                            FoundThere, IdleSettled, Fresh
<1>5. ASSUME NEW restored \in BOOLEAN, NEW next, SetPhases(restored, next),
             UNCHANGED <<node, news>>,
             \/ pc = "ResetRestore" /\ next = "ArchiveRestore"
             \/ pc = "MarkFinished" /\ next = "Requeue"
             \/ pc = "MarkCreating" /\ restored = cluster.restored
                /\ next = EnterPodMonitor(cluster)
      PROVE  MonitorRestInv'
  <2>1. \/ rpc' = rpc /\ pc' = "Idle" /\ queued' = TRUE
        \/ rpc' # cache.rpc /\ pc' = "Idle" /\ queued' = TRUE
        \/ /\ rpc' # cache.rpc /\ pc' = next /\ cluster' = rpc' /\ UNCHANGED <<queued, monObj>>
           /\ cluster'.enabled = cluster.enabled /\ cluster'.restored = restored
           /\ next # "Requeue"
    BY <1>1, <1>5, SetPhasesOutcome
  <2>2. ~Fresh'
    BY <1>1, <2>1 DEF Fresh
  <2>3. PositionInv'
    BY <1>1, <1>5, <2>1 DEF EnterPodMonitor, MonitorRestInv, PositionInv
  <2>4. CurrentCopyInv' /\ FoundThere' /\ IdleSettled'
    BY <1>1, <1>5, <2>1, <2>2 DEF EnterPodMonitor, MonitorRestInv, CurrentCopyInv,
       FoundThere, IdleSettled
  <2> QED
    BY <2>3, <2>4 DEF MonitorRestInv
<1>6. CASE ResetRestore \/ MarkFinished \/ MarkCreating
  <2>1. cluster.restored \in BOOLEAN
    BY <1>1 DEF Rpcs
  <2> QED
    BY <1>5, <1>6, <2>1 DEF ResetRestore, MarkFinished, MarkCreating
<1> QED
  BY <1>2, <1>3, <1>4, <1>6 DEF NodeStep

\* The begin of Reconcile reads the StarknetRPC as the cache has it.
LEMMA StartKeepsMonitorRest ==
    ASSUME TypeOK, MonitorRestInv, StartReconcile
    PROVE  MonitorRestInv'
  BY DEF StartReconcile, objects, node, NodeCalls, MonitorCalls, MonitorRestInv,
         PositionInv, CurrentCopyInv, FoundThere, IdleSettled, Fresh

\* The reads and writes of the PodMonitor itself: a read that finds nothing
\* to do has seen the PodMonitor there is, a write is announced.
LEMMA MonitorCallsKeepMonitorRest ==
    ASSUME TypeOK, MonitorRestInv,
           \/ GetExisting \/ DeleteMonitor \/ GetPodForMonitor \/ CreateMonitor
           \/ GetMonitor \/ UpdateMonitor
    PROVE  MonitorRestInv'
<1> USE DEF objects, node, MonitorCalls
<1>1. /\ UNCHANGED <<rpc, volume, pod, manager, cache>>
      /\ pc \in MonitorCalls
      /\ cluster \in Rpcs /\ cluster.restored
      /\ cluster.enabled <=> pc \notin {"GetExisting", "DeleteMonitor"}
      /\ \/ monitor' = monitor /\ news' = news
         \/ "monitor" \in news' /\ news \subseteq news'
      /\ "pod" \in news' <=> "pod" \in news
      /\ "volume" \in news' <=> "volume" \in news
  BY DEF GetExisting, DeleteMonitor, GetPodForMonitor, CreateMonitor, GetMonitor,
         UpdateMonitor, Look, Wrote, Announce, TypeOK, MonitorRestInv, PositionInv
<1>2. \/ pc' = "Idle" /\ (queued => queued')
      \/ /\ UNCHANGED <<queued, cluster, news, monitor>>
         /\ \/ pc = "GetExisting" /\ pc' = "DeleteMonitor" /\ UNCHANGED monObj
            \/ pc = "GetPodForMonitor" /\ pc' = "CreateMonitor" /\ UNCHANGED monObj
            \/ pc = "CreateMonitor" /\ pc' = "GetMonitor" /\ monitor # Nil /\ UNCHANGED monObj
            \/ /\ pc = "GetMonitor" /\ pc' = "UpdateMonitor"
               /\ monObj' = cache.monitor
  BY DEF GetExisting, DeleteMonitor, GetPodForMonitor, CreateMonitor, GetMonitor,
         UpdateMonitor, Look, Wrote, Announce, Return, Goto
<1>3. PositionInv'
  BY <1>1, <1>2 DEF MonitorRestInv, PositionInv
<1>4. CurrentCopyInv'
  BY <1>1, <1>2 DEF MonitorRestInv, CurrentCopyInv, Fresh
<1>5. FoundThere'
  BY <1>1, <1>2 DEF MonitorRestInv, FoundThere
<1>6. ASSUME pc' = "Idle", ~queued', news' = {}
      PROVE  dropped' \/ SettledFor(cluster)
  <2>1. ~queued /\ news = {} /\ monitor' = monitor /\ cache.monitor = monitor
    BY <1>1, <1>2, <1>6 DEF MonitorRestInv, CurrentCopyInv
  <2>2. pod # Nil /\ cache.pod = pod
    BY <1>1, <2>1 DEF MonitorRestInv, FoundThere, CurrentCopyInv
  <2>3. CASE GetExisting \/ DeleteMonitor
    BY <1>1, <1>6, <2>1, <2>3 DEF GetExisting, DeleteMonitor, Goto, SettledFor
  <2>4. CASE CreateMonitor
    <3>1. NewMonitor(GetWantedPodMonitor(cluster)) # Nil
      BY <1>1, MonitorsTyped, NewMonitorTyped
    <3> QED
      BY <1>6, <2>1, <2>4, <3>1 DEF CreateMonitor, Goto
  <2>5. CASE GetMonitor
    <3>1. monitor # Nil
      BY <2>1, <2>5 DEF GetMonitor, MonitorRestInv, FoundThere
    <3> QED
      BY <1>1, <1>6, <2>1, <2>5, <3>1 DEF GetMonitor, Return, SettledFor, AsWanted
  <2>6. ~UpdateMonitor
    <3> SUFFICES ASSUME UpdateMonitor PROVE FALSE
      OBVIOUS
    <3>1. monObj = monitor /\ monitor # Nil /\ monitor \in Monitors
      BY <2>1, NilObjectAssumption DEF UpdateMonitor, MonitorRestInv, FoundThere,
         CurrentCopyInv, TypeOK
    <3>2. monitor' = NewMonitor(UpdatedMonitor(monitor, cluster))
      BY <3>1 DEF UpdateMonitor, Latest
    <3> QED
      BY <1>1, <2>1, <3>1, <3>2, MonitorsTyped, NewMonitorTyped
  <2> QED
    BY <1>6, <2>2, <2>3, <2>4, <2>5, <2>6 DEF GetPodForMonitor, Goto
<1>7. IdleSettled'
  <2> SUFFICES ASSUME Fresh', pc' = "Idle"
               PROVE  /\ rpc.restored
                      /\ "volume" \notin news => volume # Nil
                      /\ "pod" \notin news => pod # Nil
                      /\ news' = {} => dropped' \/ SettledFor(rpc)'
    BY <1>1 DEF IdleSettled
  <2>1. ~queued' /\ ~queued /\ cluster = rpc
    BY <1>1, <1>2 DEF MonitorRestInv, CurrentCopyInv, Fresh
  <2>2. news' = {} => news = {} /\ monitor' = monitor
    BY <1>1
  <2> QED
    BY <1>1, <1>6, <2>1, <2>2
       DEF MonitorRestInv, FoundThere, SettledFor, AsWanted, IsUpToDate, LabelsMatch
<1> QED
  BY <1>3, <1>4, <1>5, <1>7 DEF MonitorRestInv

\* The inductive invariant of the rest.
THEOREM MonitorRestInvAlways == Spec => []MonitorRestInv
<1>1. Init => MonitorRestInv
  BY DEF Init, MonitorRestInv, PositionInv, CurrentCopyInv, FoundThere, IdleSettled,
         MonitorCalls
<1>2. TypeOK /\ MonitorRestInv /\ [Next]_vars => MonitorRestInv'
  <2>1. MonitorRestInv /\ UNCHANGED vars => MonitorRestInv'
    BY DEF vars, objects, node, process, MonitorRestInv, PositionInv, CurrentCopyInv,
           FoundThere, IdleSettled, Fresh, SettledFor, AsWanted, IsUpToDate, LabelsMatch
  <2> QED
    BY <2>1, OthersKeepMonitorRest, ManagerKeepsMonitorRest, NodeStepKeepsMonitorRest,
       StartKeepsMonitorRest, MonitorCallsKeepMonitorRest
       DEF Next, ReconcileStep, OthersStep
<1> QED
  BY <1>1, <1>2, MonitorTypeCorrect, PTL DEF Spec

\* When nothing will call Reconcile again, the PodMonitor is as it should be,
\* although none of its errors requeues (controller.go:113-131,
\* podmonitor.go:18-73); short of an error that was dropped.
THEOREM MonitorRestsSettled == Spec => []RestsSettled
<1>1. TypeOK /\ MonitorRestInv => RestsSettled
  BY NilObjectAssumption DEF MonitorRestInv, IdleSettled, Fresh, AtRest, RestsSettled
<1> QED
  BY <1>1, MonitorTypeCorrect, MonitorRestInvAlways, PTL

-----------------------------------------------------------------------------
(* Nothing before the restore. *)

\* What is at most as large as a counter remains so.
LEMMA CounterGrows ==
    ASSUME NEW e \in Nat, NEW f, f = e \/ f = e + 1
    PROVE  /\ e + 1 <= f + 1
           /\ \A u \in Nat :
                 /\ (u <= e) => (u <= f /\ u <= f + 1)
                 /\ (u <= e + 1) => (u <= f + 1)
                 /\ (f = e + 1 /\ u <= e + 1) => (u <= f)
  OBVIOUS

\* A change keeps OriginInv if it records the uids of StarknetRPCs there are,
\* makes copies of them or of a younger one, and objects for recorded ones.
LEMMA OriginKept ==
    ASSUME TypeOK, OriginInv,
           edits' \in {edits, edits + 1},
           recorded \subseteq recorded',
           recorded' \subseteq recorded \cup {c.uid : c \in RpcCopies},
           \A c \in RpcCopies' :
               \/ \E d \in RpcCopies : c.uid = d.uid
               \/ rpc = Nil /\ rpc' # Nil /\ c.uid = edits + 1,
           \A c \in RpcCopies' : c.restored => c.uid \in recorded',
           Owners' \subseteq recorded',
           rpc' = Nil /\ rpc # Nil => edits' = edits + 1
    PROVE  OriginInv'
<1>0. edits' = edits \/ edits' = edits + 1
  OBVIOUS
<1>1. edits \in Nat /\ recorded \subseteq Nat
  BY DEF TypeOK
<1>2. \A c \in RpcCopies : c.uid \in Nat
  BY DEF TypeOK, RpcCopies, Caches, Rpcs
<1>3. ASSUME NEW u \in recorded' \cup {c.uid : c \in RpcCopies'}
      PROVE  u <= edits' + 1 /\ (rpc' = Nil => u <= edits')
  <2>1. \/ u \in recorded \cup {c.uid : c \in RpcCopies}
        \/ rpc = Nil /\ rpc' # Nil /\ u = edits + 1
    BY <1>3
  <2>2. CASE u \in recorded \cup {c.uid : c \in RpcCopies}
    <3>1. u \in Nat
      BY <1>1, <1>2, <2>2
    <3>2. u <= edits + 1 /\ (rpc = Nil => u <= edits)
      BY <2>2 DEF OriginInv
    <3>3. (u <= edits) => (u <= edits' /\ u <= edits' + 1)
      BY <1>0, <1>1, <3>1, CounterGrows
    <3>4. (u <= edits + 1) => (u <= edits' + 1)
      BY <1>0, <1>1, <3>1, CounterGrows
    <3>5. (rpc' = Nil /\ rpc # Nil /\ u <= edits + 1) => (u <= edits')
      BY <1>0, <1>1, <3>1, CounterGrows
    <3> QED
      BY <3>2, <3>3, <3>4, <3>5
  <2>3. CASE rpc = Nil /\ rpc' # Nil /\ u = edits + 1
    BY <1>0, <1>1, <2>3, CounterGrows
  <2> QED
    BY <2>1, <2>2, <2>3
<1> QED
  BY <1>3 DEF OriginInv

\* An update of the status.
LEMMA SetPhasesKeepsOrigin ==
    ASSUME TypeOK, PositionInv, OriginInv, ResetRestore \/ MarkFinished \/ MarkCreating
    PROVE  OriginInv'
<1> USE DEF node
<1>1. cluster \in Rpcs /\ cluster # Nil
  BY NilObjectAssumption DEF ResetRestore, MarkFinished, MarkCreating, TypeOK
<1>2. \E restored \in BOOLEAN : \E next : SetPhases(restored, next)
  BY <1>1 DEF ResetRestore, MarkFinished, MarkCreating, Rpcs
<1>3. SUFFICES ASSUME NEW restored \in BOOLEAN, NEW next, SetPhases(restored, next)
               PROVE  OriginInv'
  BY <1>2
<1>4. UNCHANGED <<pod, monitor, cache, edits>>
  BY DEF ResetRestore, MarkFinished, MarkCreating, Keep
<1>5. cluster \in RpcCopies
  BY <1>1 DEF RpcCopies
<1>6. Owners' \subseteq Owners
  <2>1. monObj' \in {monObj, Nil}
    BY <1>1, <1>3, SetPhasesOutcome
  <2>2. MonitorCopiesHeld' \subseteq MonitorCopiesHeld
    BY <1>4, <2>1 DEF MonitorCopiesHeld
  <2> QED
    BY <1>4, <2>1, <2>2 DEF Owners
<1>7. CASE rpc' = rpc /\ recorded' = recorded /\ cluster' = Nil
  <2>1. RpcCopies' \subseteq RpcCopies
    BY <1>4, <1>7 DEF RpcCopies
  <2> QED
    BY <1>4, <1>6, <1>7, <2>1, OriginKept DEF OriginInv
<1>8. CASE /\ rpc # Nil /\ rpc' # Nil /\ rpc'.uid = rpc.uid
           /\ rpc'.restored = restored
           /\ recorded' = IF restored THEN recorded \cup {rpc.uid} ELSE recorded
           /\ cluster' \in {rpc', Nil}
  <2>1. rpc \in RpcCopies /\ RpcCopies' \subseteq RpcCopies \cup {rpc'}
    BY <1>4, <1>8 DEF RpcCopies
  <2>2. recorded \subseteq recorded' /\ recorded' \subseteq recorded \cup {c.uid : c \in RpcCopies}
    BY <1>8, <2>1
  <2>3. \A c \in RpcCopies' : \E d \in RpcCopies : c.uid = d.uid
    BY <1>8, <2>1
  <2>4. \A c \in RpcCopies' : c.restored => c.uid \in recorded'
    BY <1>8, <2>1, <2>2 DEF OriginInv
  <2>5. Owners' \subseteq recorded'
    BY <1>6, <2>2 DEF OriginInv
  <2> QED
    BY <1>4, <1>8, <2>2, <2>3, <2>4, <2>5, OriginKept
<1> QED
  BY <1>1, <1>3, <1>7, <1>8, SetPhasesOutcome

\* What users do to the StarknetRPC.
LEMMA EditsKeepOrigin ==
    ASSUME TypeOK, OriginInv, Configure \/ ReplaceRpc
    PROVE  OriginInv'
<1>1. /\ recorded' = recorded /\ edits' = edits + 1
      /\ UNCHANGED <<pod, monitor, cache, cluster, monObj>>
  BY EditedRpcTyped DEF node
<1>2. RpcCopies' \subseteq RpcCopies \cup ({rpc'} \ {Nil}) /\ Owners' = Owners
  BY <1>1 DEF RpcCopies, Owners, MonitorCopiesHeld
<1>3. rpc # Nil => rpc \in RpcCopies
  BY DEF RpcCopies
<1>4. \/ rpc' = Nil
      \/ /\ rpc # Nil /\ rpc' # Nil
         /\ rpc'.uid = rpc.uid /\ rpc'.restored = rpc.restored
      \/ rpc = Nil /\ rpc' # Nil /\ rpc'.uid = edits + 1 /\ ~rpc'.restored
  BY EditedRpcTyped
<1>5. \A c \in RpcCopies' :
          \/ \E d \in RpcCopies : c.uid = d.uid
          \/ rpc = Nil /\ rpc' # Nil /\ c.uid = edits + 1
  BY <1>2, <1>3, <1>4
<1>6. \A c \in RpcCopies' : c.restored => c.uid \in recorded'
  BY <1>1, <1>2, <1>3, <1>4 DEF OriginInv
<1> QED
  BY <1>1, <1>2, <1>5, <1>6, OriginKept DEF OriginInv

\* The other steps pass copies on, and make objects for the StarknetRPC in
\* hand, whose restore is recorded.
LEMMA OriginsPassedOn ==
    ASSUME TypeOK, PositionInv, Next,
           ~(ResetRestore \/ MarkFinished \/ MarkCreating \/ Configure \/ ReplaceRpc)
    PROVE  /\ rpc' = rpc /\ recorded' = recorded /\ edits' \in {edits, edits + 1}
           /\ cache'.rpc \in {cache.rpc, rpc} /\ cluster' \in {cluster, cache.rpc, Nil}
           /\ \/ pod' \in {pod, Nil}
              \/ cluster # Nil /\ cluster.restored /\ pod' = cluster.uid
           /\ monObj' \in {monObj, cache.monitor, Nil}
           /\ cache'.monitor \in {cache.monitor, monitor}
           /\ \/ monitor' \in {monitor, Nil}
              \/ /\ monitor' # Nil /\ monitor'.owner = cluster.uid
                 /\ cluster # Nil /\ cluster.restored
              \/ monObj # Nil /\ monitor' # Nil /\ monitor'.owner = monObj.owner
              \/ monitor # Nil /\ monitor' # Nil /\ monitor'.owner = monitor.owner
<1> USE DEF objects, node, MonitorCalls
<1>1. CASE OthersStep
  BY <1>1, OthersAnnounce
<1>2. CASE Watch \/ ManagerStarts
  BY <1>2 DEF Watch, SyncRpc, SyncVolume, SyncPod, SyncMonitor, SyncOwned, Unwatched,
              ManagerStarts, TypeOK, Caches
<1>3. CASE Abort \/ Crash
  BY <1>3 DEF Abort, Crash, Return
<1>4. CASE CreatePvc \/ ArchiveRestore \/ CreatePod
  <2>1. cluster \in Rpcs /\ cluster # Nil
    BY <1>4, NilObjectAssumption DEF CreatePvc, ArchiveRestore, CreatePod, TypeOK
  <2> QED
    BY <1>4, <2>1 DEF CreatePvc, ArchiveRestore, CreatePod, Return, Goto, Keep, PositionInv
<1>5. CASE StartReconcile \/ GetExisting \/ DeleteMonitor \/ GetPodForMonitor \/ GetMonitor
  BY <1>5 DEF StartReconcile, GetExisting, DeleteMonitor, GetPodForMonitor, GetMonitor,
              Look, Wrote, Return, Goto
<1>6. CASE CreateMonitor
  <2>1. cluster \in Rpcs /\ cluster # Nil /\ cluster.restored
    BY <1>6, NilObjectAssumption DEF CreateMonitor, TypeOK, PositionInv
  <2>2. /\ NewMonitor(GetWantedPodMonitor(cluster)) # Nil
        /\ NewMonitor(GetWantedPodMonitor(cluster)).owner = cluster.uid
    BY <2>1, MonitorsTyped, NewMonitorTyped
  <2> QED
    BY <1>6, <2>1, <2>2 DEF CreateMonitor, Wrote, Return, Goto
<1>7. CASE UpdateMonitor
  <2>1. cluster \in Rpcs /\ monObj \in Monitors /\ monObj # Nil
    BY <1>7, NilObjectAssumption DEF UpdateMonitor, TypeOK
  <2>2. /\ NewMonitor(UpdatedMonitor(monObj, cluster)) # Nil
        /\ NewMonitor(UpdatedMonitor(monObj, cluster)).owner = monObj.owner
    BY <2>1, MonitorsTyped, NewMonitorTyped
  <2> QED
    BY <1>7, <2>1, <2>2 DEF UpdateMonitor, Wrote, Return
<1> QED
  BY <1>1, <1>2, <1>3, <1>4, <1>5, <1>6, <1>7 DEF Next, ReconcileStep, NodeStep, OthersStep

LEMMA PassingOnKeepsOrigin ==
    ASSUME TypeOK, PositionInv, OriginInv, Next,
           ~(ResetRestore \/ MarkFinished \/ MarkCreating \/ Configure \/ ReplaceRpc)
    PROVE  OriginInv'
<1>1. rpc' = rpc /\ recorded' = recorded /\ edits' \in {edits, edits + 1}
  BY OriginsPassedOn
<1>2. RpcCopies' \subseteq RpcCopies
  BY OriginsPassedOn DEF RpcCopies
<1>3. cluster # Nil /\ cluster.restored => cluster.uid \in recorded
  BY DEF OriginInv, RpcCopies
<1>4. \A m \in MonitorCopiesHeld : m.owner \in recorded
  BY DEF OriginInv, Owners
<1>5. pod' # Nil => pod' \in recorded
  BY <1>3, OriginsPassedOn DEF OriginInv, Owners
<1>6. monitor' # Nil => monitor'.owner \in recorded
  BY <1>3, <1>4, OriginsPassedOn DEF MonitorCopiesHeld
<1>7. \A m \in MonitorCopiesHeld' : m = monitor' \/ m \in MonitorCopiesHeld
  BY OriginsPassedOn DEF MonitorCopiesHeld
<1>8. \A m \in MonitorCopiesHeld' : m.owner \in recorded
  BY <1>4, <1>6, <1>7 DEF MonitorCopiesHeld
<1>9. Owners' \subseteq recorded'
  BY <1>1, <1>5, <1>8 DEF Owners
<1> QED
  BY <1>1, <1>2, <1>9, OriginKept DEF OriginInv

\* What is there of a predecessor of the same name stays told apart from what
\* is made for the StarknetRPC itself (podmonitor.go:31-54), also where its
\* record is taken back (pvc.go:28-36).
THEOREM OriginInvAlways == Spec => []OriginInv
<1>1. Init => OriginInv
  <2> SUFFICES ASSUME Init PROVE OriginInv
    OBVIOUS
  <2>1. rpc \in FreshRpcs(1)
    BY DEF Init
  <2>2. rpc.uid = 1 /\ ~rpc.restored /\ rpc \in Rpcs /\ rpc # Nil
    BY <2>1, FreshRpcTyped, NilObjectAssumption
  <2>3. RpcCopies = {rpc} /\ Owners = {} /\ recorded = {} /\ edits = 0
    BY <2>2 DEF Init, RpcCopies, Owners, MonitorCopiesHeld
  <2> QED
    BY <2>2, <2>3 DEF OriginInv
<1>2. TypeOK /\ MonitorRestInv /\ OriginInv /\ [Next]_vars => OriginInv'
  <2>1. OriginInv /\ UNCHANGED vars => OriginInv'
    BY DEF vars, objects, node, process, OriginInv, RpcCopies, Owners, MonitorCopiesHeld
  <2> QED
    BY <2>1, SetPhasesKeepsOrigin, EditsKeepOrigin, PassingOnKeepsOrigin DEF MonitorRestInv
<1> QED
  BY <1>1, <1>2, MonitorTypeCorrect, MonitorRestInvAlways, PTL DEF Spec

\* Neither the pod nor the PodMonitor of a StarknetRPC is made before its
\* restore was recorded (controller.go:105-131), whatever a Reconcile still
\* does for a predecessor of the same name.
THEOREM NothingIsMadeBeforeRestore == Spec => []NothingBeforeRestore
<1>1. TypeOK /\ OriginInv => NothingBeforeRestore
  <2> SUFFICES ASSUME TypeOK, OriginInv, rpc # Nil, rpc.uid \notin recorded
               PROVE  pod # rpc.uid /\ (monitor # Nil => monitor.owner # rpc.uid)
    BY DEF NothingBeforeRestore
  <2>1. rpc.uid \notin Owners /\ rpc.uid # Nil
    BY NilObjectAssumption DEF OriginInv, TypeOK, Rpcs
  <2> QED
    BY <2>1 DEF Owners, MonitorCopiesHeld
<1> QED
  BY <1>1, MonitorTypeCorrect, OriginInvAlways, PTL

=============================================================================

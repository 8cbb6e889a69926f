-------------------------- MODULE ReconcilerProofs --------------------------
(***************************************************************************)
(* Proofs about Reconciler, for every value of its constants.              *)
(***************************************************************************)
EXTENDS RestoreInvariant, TLAPS

-----------------------------------------------------------------------------
(* Conditions. *)

\* meta.SetStatusCondition keeps a condition list a condition list.
LEMMA SetStatusConditionTyped ==
    ASSUME NEW list \in ConditionLists, NEW type \in ConditionTypes,
           NEW c \in Condition
    PROVE  SetStatusCondition(list, type, c) \in ConditionLists
<1>1. PICK D \in SUBSET ConditionTypes : list \in [D -> Condition]
  BY DEF ConditionLists
<1>2. DOMAIN list \cup {type} \in SUBSET ConditionTypes
  BY <1>1
<1>3. SetStatusCondition(list, type, c) \in [DOMAIN list \cup {type} -> Condition]
  BY <1>1 DEF SetStatusCondition
<1> QED
  BY <1>2, <1>3 DEF ConditionLists

\* So is the empty one.
LEMMA NoConditionsTyped == NoConditions \in ConditionLists
  BY DEF NoConditions, ConditionLists

\* What the list says afterwards: the entry set is the one given, the other
\* one is as before.
LEMMA SetStatusConditionValue ==
    ASSUME NEW list \in ConditionLists, NEW type \in ConditionTypes,
           NEW c \in Condition, NEW other \in ConditionTypes
    PROVE  LET new == SetStatusCondition(list, type, c) IN
           /\ IsStatusConditionTrue(new, type) <=> c.status = "True"
           /\ other # type =>
                (IsStatusConditionTrue(new, other)
                    <=> IsStatusConditionTrue(list, other))
  BY DEF SetStatusCondition, IsStatusConditionTrue

\* Every list SetPhases is given is a condition list, and says of the
\* restore what its name says.
LEMMA TransitionsTyped ==
    ASSUME NEW list \in ConditionLists
    PROVE  /\ \A s \in RestoreStatuses : ApplyRestore(list, s) \in ConditionLists
           /\ \A s \in AvailableStatuses : ApplyAvailable(list, s) \in ConditionLists
           /\ markArchiveAsFinished(list) \in ConditionLists
           /\ markRestoreAsFailed(list) \in ConditionLists
           /\ markRestoreAsSkipped(list) \in ConditionLists
           /\ markRestoreAsProgressing(list) \in ConditionLists
<1>1. "Restore" \in ConditionTypes /\ "Available" \in ConditionTypes
  BY DEF ConditionTypes
<1>2. ASSUME NEW s \in RestoreStatuses
      PROVE  RestoreCondition(s) \in Condition
  BY DEF RestoreCondition, Condition, Statuses, RestoreStatuses
<1>3. ASSUME NEW s \in AvailableStatuses
      PROVE  AvailableCondition(s) \in Condition
  BY DEF AvailableCondition, Condition, Statuses, AvailableStatuses
<1>4. ASSUME NEW st \in Statuses, NEW r \in ArchiveReasons
      PROVE  [status |-> st, reason |-> r] \in Condition
  BY DEF Condition
<1>5. "True" \in Statuses /\ "False" \in Statuses
  BY DEF Statuses
<1>6. /\ "ArchiveJobFinished" \in ArchiveReasons
      /\ "ArchiveJobFailed" \in ArchiveReasons
      /\ "ArchiveRestoreSkipped" \in ArchiveReasons
      /\ "ArchiveJobProgressing" \in ArchiveReasons
  BY DEF ArchiveReasons
<1> QED
  BY <1>1, <1>2, <1>3, <1>4, <1>5, <1>6, SetStatusConditionTyped
     DEF ApplyRestore, ApplyAvailable, markArchiveAsFinished,
         markRestoreAsFailed, markRestoreAsSkipped, markRestoreAsProgressing

\* What each transition makes of the restore condition.
LEMMA TransitionsRestore ==
    ASSUME NEW list \in ConditionLists
    PROVE  /\ ~IsStatusConditionTrue(ApplyRestore(list, "Pending"), "Restore")
           /\ \A s \in AvailableStatuses :
                IsStatusConditionTrue(ApplyAvailable(list, s), "Restore")
                    <=> IsStatusConditionTrue(list, "Restore")
           /\ IsStatusConditionTrue(markArchiveAsFinished(list), "Restore")
           /\ IsStatusConditionTrue(markRestoreAsSkipped(list), "Restore")
           /\ ~IsStatusConditionTrue(markRestoreAsFailed(list), "Restore")
           /\ ~IsStatusConditionTrue(markRestoreAsProgressing(list), "Restore")
  BY DEF SetStatusCondition, IsStatusConditionTrue, RestoreCondition, ApplyRestore,
         ApplyAvailable, markArchiveAsFinished, markRestoreAsFailed,
         markRestoreAsSkipped, markRestoreAsProgressing

-----------------------------------------------------------------------------
(* Types. *)

\* Of three versions of an object one is equal to neither of two copies.
LEMMA NewVersionExists ==
    ASSUME NEW object, "rv" \in DOMAIN object, NEW a, NEW b
    PROVE  \E v \in Versions : Version(object, v) \notin {a, b}
<1>1. \A v \in Versions : Version(object, v).rv = v
  BY DEF Version
<1>2. 1 \in Versions /\ 2 \in Versions /\ 3 \in Versions
  BY DEF Versions
<1> QED
  BY <1>1, <1>2

\* A change makes such a version, which differs from what was written in its
\* version only.
LEMMA NewVersionIsNew ==
    ASSUME NEW object, "rv" \in DOMAIN object, NEW a, NEW b
    PROVE  NewVersion(object, {a, b}) # a /\ NewVersion(object, {a, b}) # b
  BY NewVersionExists DEF NewVersion

LEMMA NewVersionIsOne ==
    ASSUME NEW object, "rv" \in DOMAIN object, NEW a, NEW b
    PROVE  \E v \in Versions : NewVersion(object, {a, b}) = Version(object, v)
  BY NewVersionExists DEF NewVersion

\* A change of the StarknetRPC makes an object that no copy is equal to, and
\* that differs from what was written in its version only.
LEMMA NewRpcTyped ==
    ASSUME NEW c \in RpcObjects
    PROVE  /\ NewRpc(c) \in RpcObjects
           /\ NewRpc(c) # cache.rpc /\ NewRpc(c) # cluster
           /\ NewRpc(c).uid = c.uid
           /\ NewRpc(c).enable = c.enable
           /\ NewRpc(c).image = c.image
           /\ NewRpc(c).conditions = c.conditions
<1>1. "rv" \in DOMAIN c
  BY DEF RpcObjects
<1>2. NewRpc(c) # cache.rpc /\ NewRpc(c) # cluster
  BY <1>1, NewVersionIsNew DEF NewRpc
<1>3. PICK v \in Versions : NewRpc(c) = Version(c, v)
  BY <1>1, NewVersionIsOne DEF NewRpc
<1>4. /\ Version(c, v) \in RpcObjects
      /\ Version(c, v).uid = c.uid
      /\ Version(c, v).enable = c.enable
      /\ Version(c, v).image = c.image
      /\ Version(c, v).conditions = c.conditions
  BY DEF RpcObjects, Version
<1> QED
  BY <1>2, <1>3, <1>4

\* So does a change of the pod.
LEMMA NewPodTyped ==
    ASSUME NEW p \in Pods
    PROVE  /\ NewPod(p) \in Pods /\ NewPod(p) # Nil
           /\ NewPod(p) # cache.pod /\ NewPod(p) # podObj
           /\ NewPod(p).owner = p.owner
           /\ NewPod(p).image = p.image
           /\ NewPod(p).status = p.status
           /\ NewPod(p).terminating = p.terminating
           /\ NewPod(p).management = p.management
<1>1. "rv" \in DOMAIN p
  BY DEF Pods
<1>2. NewPod(p) # cache.pod /\ NewPod(p) # podObj
  BY <1>1, NewVersionIsNew DEF NewPod
<1>3. PICK v \in Versions : NewPod(p) = Version(p, v)
  BY <1>1, NewVersionIsOne DEF NewPod
<1>4. /\ Version(p, v) \in Pods
      /\ Version(p, v).owner = p.owner
      /\ Version(p, v).image = p.image
      /\ Version(p, v).status = p.status
      /\ Version(p, v).terminating = p.terminating
      /\ Version(p, v).management = p.management
  BY DEF Pods, Version
<1> QED
  BY <1>2, <1>3, <1>4, NilAssumption

\* A deleted pod is gone or terminating.
LEMMA DeletedPodTyped ==
    ASSUME NEW p \in Pods
    PROVE  /\ DeletedPod(p) \in Pods \cup {Nil}
           /\ DeletedPod(p) # Nil => /\ DeletedPod(p).owner = p.owner
                                     /\ DeletedPod(p).status = p.status
<1>1. [p EXCEPT !.terminating = TRUE] \in Pods
  BY DEF Pods
<1> QED
  BY <1>1, NewPodTyped DEF DeletedPod, Pods

\* A Reconcile that returns leaves a typed process.
LEMMA ReturnTyped ==
    ASSUME queued \in BOOLEAN, NEW again \in BOOLEAN, Return(again)
    PROVE  ProcessOK'
  BY DEF Return, ProcessOK, PodInHand

\* So does one that goes on to a call with the copies that call needs.
LEMMA ProceedTyped ==
    ASSUME queued \in BOOLEAN,
           NEW label \in ApiCalls \cup CacheReads \cup {"Done", "Requeue"},
           NEW c \in RpcObjects,
           NEW p \in Pods \cup {Nil},
           label \in PodInHand => p # Nil,
           Proceed(label, c, p)
    PROVE  ProcessOK'
<1>1. CASE label \in {"Done", "Requeue"}
  BY <1>1, ReturnTyped DEF Proceed
<1>2. CASE label \notin {"Done", "Requeue"}
  BY <1>2, NilAssumption DEF Proceed, ProcessOK
<1> QED
  BY <1>1, <1>2

\* A status update stores a typed StarknetRPC and leaves a typed process.
LEMMA SetPhasesTyped ==
    ASSUME TypeOK, pc # "Idle",
           NEW conds \in ConditionLists,
           NEW next \in ApiCalls \cup CacheReads \cup {"Done", "Requeue"},
           next \in PodInHand => podObj # Nil,
           SetPhases(conds, next)
    PROVE  rpc' \in RpcObjects \cup {Nil} /\ ProcessOK'
<1>1. CASE UpToDate /\ rpc' = Stored(conds) /\ Proceed(next, Stored(conds), podObj)
  <2>1. Stored(conds) \in RpcObjects
    BY <1>1, NewRpcTyped DEF TypeOK, ObjectsOK, UpToDate, Stored, RpcObjects
  <2> QED
    BY <1>1, <2>1, ProceedTyped DEF TypeOK, ProcessOK
<1>2. CASE Return(TRUE) /\ UNCHANGED rpc
  BY <1>2, ReturnTyped DEF TypeOK, ProcessOK, ObjectsOK
<1> QED
  BY <1>1, <1>2 DEF SetPhases

\* Events are of the three kinds that have an owner.
LEMMA AnnounceTyped ==
    ASSUME ObjectsOK, NEW kind \in {"pvc", "scratch", "pod"}, NEW old, NEW new,
           Announce(kind, old, new)
    PROVE  news' \subseteq {"pvc", "scratch", "pod"}
  BY DEF ObjectsOK, Announce

\* The objects the handlers build, and the conditions they write.
LEMMA WantedTyped ==
    ASSUME NEW c \in RpcObjects
    PROVE  /\ GetWantedPvc(c) \in Claims
           /\ GetWantedRestorePvc(c) \in Claims
           /\ GetWantedRestoreJob \in Jobs
           /\ GetWantedPod(c) \in Pods
           /\ GetWantedPod(c) # Nil
           /\ getPodImage(c) \in Images
<1>1. getPodImage(c) \in Images
  BY ConstantsAssumption DEF getPodImage, RpcObjects
<1>2. StorageClass \in STRING
  BY ConstantsAssumption
<1>3. GetWantedPod(c) \in Pods
  BY <1>1 DEF GetWantedPod, Versions, Pods, PodStatuses, RpcObjects
<1> QED
  BY <1>1, <1>2, <1>3, ConstantsAssumption, NilAssumption
     DEF GetWantedPvc, GetWantedRestorePvc, GetWantedRestoreJob, Claims, Jobs,
         RpcObjects

\* A Reconcile in progress holds a StarknetRPC, with its conditions.
LEMMA CopyInHand ==
    ASSUME TypeOK, pc # "Idle"
    PROVE  cluster \in RpcObjects /\ cluster.conditions \in ConditionLists
  BY DEF TypeOK, ProcessOK, RpcObjects

\* Whatever leaves the job, the workers and the volume alone leaves WorkersOK.
LEMMA WorkersKept ==
    ASSUME WorkersOK, UNCHANGED <<job, data, writer, orphan>>
    PROVE  WorkersOK'
  BY DEF WorkersOK, JobActive, JobFinished

\* The steps of Reconcile keep the types.
LEMMA ReconcileTyped == TypeOK /\ ReconcileStep => TypeOK'
<1> SUFFICES ASSUME TypeOK, ReconcileStep PROVE TypeOK'
  OBVIOUS
<1> USE DEF ApiCalls, ArchiveCalls, PodCalls, CacheReads, PodInHand, RestoreStatuses,
            AvailableStatuses, owned, objects, containers, budgets
<1>1. CASE StartReconcile
  <2>1. ProcessOK'
    BY <1>1, NilAssumption DEF StartReconcile, TypeOK, ProcessOK, Caches
  <2> QED
    BY WorkersKept, <1>1, <2>1 DEF StartReconcile, TypeOK, ObjectsOK, ContainersOK,
       BudgetsOK
<1>2. CASE Initialize
  <2>1. rpc' \in RpcObjects \cup {Nil} /\ ProcessOK'
    <3>1. ApplyRestore(cluster.conditions, "Pending") \in ConditionLists
      BY <1>2, CopyInHand, TransitionsTyped DEF Initialize
    <3>2. ApplyAvailable(ApplyRestore(cluster.conditions, "Pending"), "Pending")
             \in ConditionLists
      BY <3>1, TransitionsTyped
    <3> QED
      BY <1>2, <3>2, SetPhasesTyped DEF Initialize
  <2> QED
    BY WorkersKept, <1>2, <2>1 DEF Initialize, TypeOK, ObjectsOK, ContainersOK, BudgetsOK
<1>3. CASE CreatePvc
  <2>1. pvc' \in Claims \cup {Nil}
    BY <1>3, CopyInHand, WantedTyped DEF CreatePvc, TypeOK, ObjectsOK, Versions
  <2>2. ProcessOK'
    BY <1>3, CopyInHand, ProceedTyped
       DEF CreatePvc, TypeOK, ProcessOK, EnterArchiveRestore
  <2>3. news' \subseteq {"pvc", "scratch", "pod"}
    BY <1>3, AnnounceTyped DEF CreatePvc, TypeOK
  <2> QED
    BY WorkersKept, <1>3, <2>1, <2>2, <2>3 DEF CreatePvc, TypeOK, ObjectsOK,
       ContainersOK, BudgetsOK
<1>4. CASE ResetRestore
  <2>1. ApplyRestore(cluster.conditions, "Pending") \in ConditionLists
    BY <1>4, CopyInHand, TransitionsTyped DEF ResetRestore
  <2>2. rpc' \in RpcObjects \cup {Nil} /\ ProcessOK'
    BY <1>4, <2>1, SetPhasesTyped DEF ResetRestore, EnterArchiveRestore
  <2> QED
    BY WorkersKept, <1>4, <2>2 DEF ResetRestore, TypeOK, ObjectsOK, ContainersOK,
       BudgetsOK
<1>5. CASE DeleteJob
  <2>1. ProcessOK'
    BY <1>5, CopyInHand, ProceedTyped DEF DeleteJob, TypeOK, ProcessOK
  <2> QED
    BY <1>5, <2>1 DEF DeleteJob, TypeOK, ObjectsOK, ContainersOK, BudgetsOK, WorkersOK,
                      JobActive
<1>6. CASE DeleteScratch
  <2>1. ProcessOK'
    BY <1>6, CopyInHand, ProceedTyped DEF DeleteScratch, TypeOK, ProcessOK, Gate
  <2>2. news' \subseteq {"pvc", "scratch", "pod"}
    BY <1>6, AnnounceTyped DEF DeleteScratch, TypeOK
  <2>3. scratch' \in Claims \cup {Nil}
    BY <1>6 DEF DeleteScratch, TypeOK, ObjectsOK, Claims
  <2> QED
    BY WorkersKept, <1>6, <2>1, <2>2, <2>3 DEF DeleteScratch, TypeOK, ObjectsOK,
       ContainersOK, BudgetsOK
<1>7. CASE MarkSkipped
  <2>1. rpc' \in RpcObjects \cup {Nil} /\ ProcessOK'
    BY <1>7, CopyInHand, TransitionsTyped, SetPhasesTyped DEF MarkSkipped, Gate
  <2> QED
    BY WorkersKept, <1>7, <2>1 DEF MarkSkipped, TypeOK, ObjectsOK, ContainersOK, BudgetsOK
<1>8. CASE CreateScratch
  <2>1. ProcessOK'
    BY <1>8, CopyInHand, ProceedTyped DEF CreateScratch, TypeOK, ProcessOK
  <2>2. news' \subseteq {"pvc", "scratch", "pod"}
    BY <1>8, AnnounceTyped DEF CreateScratch, TypeOK
  <2>3. scratch' \in Claims \cup {Nil}
    BY <1>8, CopyInHand, WantedTyped DEF CreateScratch, TypeOK, ObjectsOK, Versions
  <2> QED
    BY WorkersKept, <1>8, <2>1, <2>2, <2>3 DEF CreateScratch, TypeOK, ObjectsOK,
       ContainersOK, BudgetsOK
<1>9. CASE GetScratch \/ EnsurePvcReady \/ GetJob \/ IsReady
  <2>1. ProcessOK'
    BY <1>9, CopyInHand, ProceedTyped, ReturnTyped
       DEF GetScratch, EnsurePvcReady, GetJob, IsReady, TypeOK, ProcessOK
  <2> QED
    BY WorkersKept, <1>9, <2>1 DEF GetScratch, EnsurePvcReady, GetJob, IsReady, TypeOK,
       ObjectsOK,
                      ContainersOK, BudgetsOK
<1>10. CASE CreateJob
  <2>1. ProcessOK'
    BY <1>10, CopyInHand, ProceedTyped DEF CreateJob, TypeOK, ProcessOK
  <2>2. GetWantedRestoreJob \in Jobs /\ ~GetWantedRestoreJob.active
    BY <1>10, CopyInHand, WantedTyped DEF CreateJob, GetWantedRestoreJob
  <2>3. job' \in Jobs \cup {Nil} /\ (~UNCHANGED job => job = Nil /\ ~JobActive')
    <3> HIDE DEF owned
    <3> QED
      BY <1>10, <2>2 DEF CreateJob, TypeOK, ObjectsOK, JobActive
  <2>4. WorkersOK'
    <3>1. UNCHANGED <<data, writer, orphan>>
      BY <1>10 DEF CreateJob
    <3> QED
      BY <2>3, <3>1, WorkersKept DEF TypeOK, WorkersOK, JobActive
  <2> QED
    BY <1>10, <2>1, <2>3, <2>4 DEF CreateJob, TypeOK, ObjectsOK, ContainersOK, BudgetsOK
<1>11. CASE MarkProgressing \/ MarkFinished \/ MarkFailed
  <2>1. rpc' \in RpcObjects \cup {Nil} /\ ProcessOK'
    BY <1>11, CopyInHand, TransitionsTyped, SetPhasesTyped
       DEF MarkProgressing, MarkFinished, MarkFailed
  <2> QED
    BY WorkersKept, <1>11, <2>1 DEF MarkProgressing, MarkFinished, MarkFailed, TypeOK,
       ObjectsOK,
                       ContainersOK, BudgetsOK
<1>12. CASE CreatePod
  <2>1. pod' \in Pods \cup {Nil}
    BY <1>12, CopyInHand, WantedTyped, NewPodTyped DEF CreatePod, TypeOK, ObjectsOK
  <2>2. ProcessOK'
    BY <1>12, CopyInHand, WantedTyped, NewPodTyped, ProceedTyped
       DEF CreatePod, TypeOK, ProcessOK
  <2>3. news' \subseteq {"pvc", "scratch", "pod"}
    BY <1>12, AnnounceTyped DEF CreatePod, TypeOK
  <2> QED
    BY WorkersKept, <1>12, <2>1, <2>2, <2>3 DEF CreatePod, TypeOK, ObjectsOK,
       ContainersOK, BudgetsOK
<1>13. CASE MarkCreating \/ MarkCatchingUp
  <2>1. rpc' \in RpcObjects \cup {Nil} /\ ProcessOK'
    BY <1>13, CopyInHand, TransitionsTyped, SetPhasesTyped
       DEF MarkCreating, MarkCatchingUp, Inspect, TypeOK, ProcessOK
  <2> QED
    BY WorkersKept, <1>13, <2>1 DEF MarkCreating, MarkCatchingUp, TypeOK, ObjectsOK,
       ContainersOK,
                       BudgetsOK
<1>14. CASE GetPod
  <2>1. ProcessOK'
    BY <1>14, CopyInHand, ProceedTyped, ReturnTyped
       DEF GetPod, TypeOK, ProcessOK, Inspect, Caches
  <2> QED
    BY WorkersKept, <1>14, <2>1 DEF GetPod, TypeOK, ObjectsOK, ContainersOK, BudgetsOK
<1>15. CASE UpdateImage
  <2> DEFINE updated == NewPod([podObj EXCEPT !.image = getPodImage(cluster)])
  <2>1. updated \in Pods /\ updated # Nil
    <3>1. podObj \in Pods /\ getPodImage(cluster) \in Images
      BY <1>15, CopyInHand, WantedTyped DEF UpdateImage, TypeOK, ProcessOK
    <3>2. [podObj EXCEPT !.image = getPodImage(cluster)] \in Pods
      BY <3>1 DEF Pods
    <3> QED
      BY <3>2, NewPodTyped
  <2>2. ProcessOK' /\ pod' \in Pods \cup {Nil} /\ serving' \in BOOLEAN
    <3> HIDE DEF updated
    <3>1. CASE pod' = updated /\ serving' = FALSE
               /\ Proceed(Inspect(updated), cluster, updated)
      BY <1>15, <2>1, <3>1, CopyInHand, ProceedTyped, NilAssumption
         DEF UpdateImage, TypeOK, ProcessOK, Inspect
    <3>2. CASE Return(TRUE) /\ UNCHANGED <<pod, serving>>
      BY <3>2, ReturnTyped DEF TypeOK, ProcessOK, ObjectsOK, ContainersOK
    <3> QED
      BY <1>15, <3>1, <3>2 DEF UpdateImage, updated
  <2>3. news' \subseteq {"pvc", "scratch", "pod"}
    BY <1>15, AnnounceTyped DEF UpdateImage, TypeOK
  <2> QED
    BY WorkersKept, <1>15, <2>2, <2>3 DEF UpdateImage, TypeOK, ObjectsOK, ContainersOK,
       BudgetsOK
<1>16. CASE DeletePod
  <2>1. pod' \in Pods \cup {Nil}
    BY <1>16, DeletedPodTyped DEF DeletePod, TypeOK, ObjectsOK
  <2>2. ProcessOK'
    BY <1>16, ReturnTyped DEF DeletePod, TypeOK, ProcessOK
  <2>3. news' \subseteq {"pvc", "scratch", "pod"}
    BY <1>16, AnnounceTyped DEF DeletePod, TypeOK
  <2> QED
    BY WorkersKept, <1>16, <2>1, <2>2, <2>3 DEF DeletePod, TypeOK, ObjectsOK,
       ContainersOK, BudgetsOK
<1> QED
  BY <1>1, <1>2, <1>3, <1>4, <1>5, <1>6, <1>7, <1>8, <1>9, <1>10, <1>11, <1>12,
     <1>13, <1>14, <1>15, <1>16
     DEF ReconcileStep, ArchiveStep, PodStep

\* The watches, the cluster's controllers, the kubelet and the users keep
\* them too.
LEMMA EnvironmentTyped == TypeOK /\ EnvironmentStep => TypeOK'
<1> SUFFICES ASSUME TypeOK, EnvironmentStep PROVE TypeOK'
  OBVIOUS
<1> USE DEF owned, objects, containers, process, budgets, InProgress
<1>1. CASE Watch
  <2>1. cache' \in Caches
    BY <1>1 DEF Watch, SyncRpc, SyncJob, SyncPvc, SyncScratch, SyncPod, SyncOwned,
                CatchUp, TypeOK, ObjectsOK, Caches
  <2>2. queued' \in BOOLEAN /\ news' \subseteq {"pvc", "scratch", "pod"}
    BY <1>1 DEF Watch, SyncRpc, SyncJob, SyncPvc, SyncScratch, SyncPod, SyncOwned,
                TypeOK, ObjectsOK, ProcessOK
  <2>3. UNCHANGED <<rpc, job, pvc, scratch, pod, containers, InProgress, budgets>>
    BY <1>1 DEF Watch, SyncRpc, SyncJob, SyncPvc, SyncScratch, SyncPod, SyncOwned, CatchUp
  <2> QED
    BY WorkersKept, <2>1, <2>2, <2>3 DEF TypeOK, ObjectsOK, ContainersOK, ProcessOK,
       BudgetsOK
<1>2. CASE BindPvc \/ RemovePvc \/ CollectPvc
  <2>1. pvc' \in Claims \cup {Nil}
    BY <1>2 DEF BindPvc, Provisionable, RemovePvc, CollectPvc, Abandoned, Owned,
                TypeOK, ObjectsOK, Claims
  <2>2. news' \subseteq {"pvc", "scratch", "pod"}
    BY <1>2, AnnounceTyped DEF BindPvc, RemovePvc, CollectPvc, TypeOK
  <2>3. ContainersOK' /\ WorkersOK'
    <3>1. CASE RemovePvc
      BY <3>1 DEF RemovePvc, HeldByJob, TypeOK, ContainersOK, WorkersOK, JobActive,
                  JobFinished
    <3>2. CASE BindPvc \/ CollectPvc
      BY <3>2, WorkersKept DEF BindPvc, CollectPvc, TypeOK, ContainersOK
    <3> QED
      BY <1>2, <3>1, <3>2
  <2>4. UNCHANGED <<rpc, scratch, job, pod, process, budgets>>
    BY <1>2 DEF BindPvc, RemovePvc, CollectPvc
  <2> QED
    BY WorkersKept, <2>1, <2>2, <2>3, <2>4
       DEF TypeOK, ObjectsOK, ContainersOK, ProcessOK, BudgetsOK
<1>3. CASE BindScratch \/ RemoveScratch \/ CollectScratch
  <2>1. scratch' \in Claims \cup {Nil}
    BY <1>3 DEF BindScratch, Provisionable, RemoveScratch, CollectScratch, Abandoned,
                Owned, TypeOK, ObjectsOK, Claims
  <2>2. news' \subseteq {"pvc", "scratch", "pod"}
    BY <1>3, AnnounceTyped DEF BindScratch, RemoveScratch, CollectScratch, TypeOK
  <2>3. UNCHANGED <<rpc, pvc, job, pod, containers, process, budgets>>
    BY <1>3 DEF BindScratch, RemoveScratch, CollectScratch
  <2> QED
    BY WorkersKept, <2>1, <2>2, <2>3
       DEF TypeOK, ObjectsOK, ContainersOK, ProcessOK, BudgetsOK
<1>4. CASE StartWorker \/ WorkerOpens \/ WorkerSucceeds \/ WorkerFails \/ KillOrphan
  <2>1. job' \in Jobs \cup {Nil} /\ (JobActive => ~JobFinished(job))'
    <3>1. CASE UNCHANGED job
      BY <1>4, <3>1 DEF TypeOK, ObjectsOK, WorkersOK, JobActive, JobFinished
    <3>2. CASE ~UNCHANGED job
      <4>1. job \in Jobs
        BY <1>4, <3>2 DEF StartWorker, WorkerOpens, WorkerSucceeds, WorkerFails,
           KillOrphan,
                          JobPending, JobActive, objects, TypeOK, ObjectsOK
      <4>2. CASE StartWorker
        BY <4>1, <4>2 DEF StartWorker, JobPending, JobFinished, Jobs
      <4>3. CASE WorkerSucceeds
        BY <4>1, <4>3 DEF WorkerSucceeds, JobActive, Jobs
      <4>4. CASE WorkerFails
        <5>1. job.failures + 1 \in 0 .. BackoffLimit + 1
          BY <4>1, <4>4, ConstantsAssumption
             DEF WorkerFails, TypeOK, WorkersOK, JobActive, JobFinished, Jobs
        <5> QED
          BY <4>1, <4>4, <5>1 DEF WorkerFails, JobActive, Jobs
      <4> QED
        BY <1>4, <3>2, <4>2, <4>3, <4>4 DEF WorkerOpens, KillOrphan
    <3> QED
      BY <3>1, <3>2
  <2>2. ContainersOK' /\ (writer = "job" => JobActive)' /\ (writer = "orphan" => orphan)'
        /\ (writer # "none" => data \in {"partial", "mixed"})'
    <3>1. CASE StartWorker
      BY <3>1 DEF StartWorker, JobPending, TypeOK, ObjectsOK, ContainersOK, WorkersOK,
         JobActive
    <3>2. CASE WorkerOpens
      BY <3>2 DEF WorkerOpens, TypeOK, ContainersOK, WorkersOK, JobActive
    <3>3. CASE WorkerSucceeds
      BY <3>3 DEF WorkerSucceeds, TypeOK, ContainersOK, WorkersOK, JobActive
    <3>4. CASE WorkerFails
      BY <3>4 DEF WorkerFails, LetGo, LeftBehind, TypeOK, ContainersOK, WorkersOK,
         JobActive
    <3>5. CASE KillOrphan
      BY <3>5 DEF KillOrphan, LetGo, LeftBehind, TypeOK, ContainersOK, WorkersOK,
         JobActive
    <3> QED
      BY <1>4, <3>1, <3>2, <3>3, <3>4, <3>5
  <2>3. UNCHANGED <<rpc, owned, process, budgets>>
    BY <1>4 DEF StartWorker, WorkerOpens, WorkerSucceeds, WorkerFails, KillOrphan
  <2> QED
    BY <2>1, <2>2, <2>3 DEF TypeOK, ObjectsOK, ProcessOK, BudgetsOK, WorkersOK
<1>5. CASE \/ SchedulePod \/ KubeletStartsPod \/ PodBreaks \/ ContainerRestarts
           \/ PodRemoved \/ CollectPod
  <2> USE DEF SchedulePod, KubeletStartsPod, PodBreaks, ContainerRestarts, PodRemoved,
              CollectPod
  <2>1. pod' \in Pods \cup {Nil}
    <3>1. pod \in Pods
      BY <1>5 DEF Abandoned, Owned, TypeOK, ObjectsOK
    <3>2. \A s \in PodStatuses : NewPod([pod EXCEPT !.status = s]) \in Pods
      <4>1. \A s \in PodStatuses : [pod EXCEPT !.status = s] \in Pods
        BY <3>1 DEF Pods
      <4> QED
        BY <4>1, NewPodTyped
    <3>3. PodFaults \subseteq PodStatuses
      BY ConstantsAssumption DEF PodStatuses
    <3>4. "Scheduled" \in PodStatuses /\ "Running" \in PodStatuses
      BY DEF PodStatuses
    <3> QED
      BY <1>5, <3>1, <3>2, <3>3, <3>4, DeletedPodTyped
  <2>2. news' \subseteq {"pvc", "scratch", "pod"}
    BY <1>5, AnnounceTyped DEF TypeOK
  <2>3. serving' \in BOOLEAN
    BY <1>5 DEF TypeOK, ContainersOK
  <2>4. /\ data' \in {data, "genesis", "mixed"}
        /\ writer # "none" => data' \in {data, "mixed"}
    <3>1. NodeOpens \/ UNCHANGED data
      BY <1>5, Zenon
    <3> QED
      BY <3>1 DEF NodeOpens, Owned, TypeOK, WorkersOK
  <2>7. BudgetsOK'
    <3>1. \/ disturbances < MaxDisturbances /\ disturbances' = disturbances + 1
          \/ UNCHANGED disturbances
      BY <1>5
    <3>2. UNCHANGED edits
      BY <1>5
    <3> QED
      BY <3>1, <3>2, ConstantsAssumption DEF TypeOK, BudgetsOK
  <2>5. UNCHANGED <<rpc, pvc, scratch, job, writer, orphan, process>>
    BY <1>5
  <2>6. ContainersOK' /\ WorkersOK'
    BY <2>3, <2>4, <2>5 DEF TypeOK, ContainersOK, WorkersOK, JobActive, JobFinished
  <2> QED
    BY <2>1, <2>2, <2>5, <2>6, <2>7 DEF TypeOK, ObjectsOK, ProcessOK
<1>6. CASE PodBeginsServing
  BY WorkersKept, <1>6 DEF PodBeginsServing, TypeOK, ObjectsOK, ContainersOK, ProcessOK,
     BudgetsOK
<1>7. CASE UserStep
  <2>1. edits' \in 0 .. MaxEdits /\ UNCHANGED <<containers, process, disturbances>>
    <3>1. \E op \in AllUserOps : Edit(op)
      BY <1>7 DEF UserStep, EditEnable, EditImage, DeletePvc, DeletePodByHand, DeleteRpc,
                  CreateRpc, CreateForeignPod, AllUserOps
    <3>2. edits' = edits + 1 /\ edits < MaxEdits
      BY <3>1 DEF Edit
    <3>3. UNCHANGED <<containers, process, disturbances>>
      BY <3>1 DEF Edit
    <3> QED
      BY <3>2, <3>3, ConstantsAssumption DEF TypeOK, BudgetsOK
  <2>2. rpc' \in RpcObjects \cup {Nil}
    <3>1. edits + 1 \in Nat
      BY ConstantsAssumption DEF TypeOK, BudgetsOK
    <3>2. CASE CreateRpc
      <4>1. \A enable \in InitialEnable : FreshRpc(edits + 1, enable) \in RpcObjects
        BY <3>1, NoConditionsTyped, ConstantsAssumption DEF FreshRpc, RpcObjects, Versions
      <4> QED
        BY <3>2, <4>1, NewRpcTyped DEF CreateRpc
    <3>3. CASE EditEnable
      <4>1. [rpc EXCEPT !.enable = ~@] \in RpcObjects
        BY <3>3 DEF EditEnable, TypeOK, ObjectsOK, RpcObjects
      <4> QED
        BY <3>3, <4>1, NewRpcTyped DEF EditEnable
    <3>4. CASE EditImage
      <4>1. \A image \in Images \cup {Nil} : [rpc EXCEPT !.image = image] \in RpcObjects
        BY <3>4 DEF EditImage, TypeOK, ObjectsOK, RpcObjects
      <4> QED
        BY <3>4, <4>1, NewRpcTyped DEF EditImage
    <3> QED
      BY <1>7, <3>2, <3>3, <3>4
         DEF UserStep, DeletePvc, DeletePodByHand, DeleteRpc, CreateForeignPod, TypeOK,
             ObjectsOK
  <2>3. pvc' \in Claims \cup {Nil} /\ UNCHANGED <<scratch, job>>
    BY <1>7 DEF UserStep, EditEnable, EditImage, DeletePvc, DeletePodByHand, DeleteRpc,
                CreateRpc, CreateForeignPod, TypeOK, ObjectsOK, Claims
  <2>4. pod' \in Pods \cup {Nil}
    <3>1. CASE DeletePodByHand
      BY <3>1, DeletedPodTyped DEF DeletePodByHand, TypeOK, ObjectsOK
    <3>2. CASE CreateForeignPod
      <4>1. \A management \in BOOLEAN :
                [rv |-> 1, owner |-> NoOwner, image |-> DefaultImage, status |-> "Pending",
                 terminating |-> FALSE, management |-> management] \in Pods
        BY ConstantsAssumption DEF NoOwner, Versions, Pods, PodStatuses
      <4> QED
        BY <3>2, <4>1, NewPodTyped DEF CreateForeignPod
    <3>3. CASE UNCHANGED pod
      BY <3>3 DEF TypeOK, ObjectsOK
    <3> QED
      BY <1>7, <3>1, <3>2, <3>3
         DEF UserStep, EditEnable, EditImage, DeletePvc, DeleteRpc, CreateRpc
  <2>5. news' \subseteq {"pvc", "scratch", "pod"}
    BY <1>7, AnnounceTyped
       DEF UserStep, EditEnable, EditImage, DeletePvc, DeletePodByHand, DeleteRpc,
           CreateRpc, CreateForeignPod, TypeOK, ObjectsOK
  <2> QED
    BY WorkersKept, <2>1, <2>2, <2>3, <2>4, <2>5
       DEF TypeOK, ObjectsOK, ContainersOK, ProcessOK, BudgetsOK
<1> QED
  BY <1>1, <1>2, <1>3, <1>4, <1>5, <1>6, <1>7
     DEF EnvironmentStep, NodeStep, CollectGarbage

\* Failed calls and crashes of the manager, too.
LEMMA FailureTyped == TypeOK /\ (Abort \/ Crash) => TypeOK'
<1> SUFFICES ASSUME TypeOK, Abort \/ Crash PROVE TypeOK'
  OBVIOUS
<1> USE DEF containers
<1>1. ProcessOK' /\ cache' \in Caches /\ news' \subseteq {"pvc", "scratch", "pod"}
  <2>1. CASE Abort
    BY <2>1, ReturnTyped DEF Abort, TypeOK, ObjectsOK, ProcessOK
  <2>2. CASE Crash
    BY <2>2 DEF Crash, TypeOK, ObjectsOK, ProcessOK, PodInHand, Caches
  <2> QED
    BY <2>1, <2>2
<1>2. /\ disturbances' \in 0 .. MaxDisturbances
      /\ UNCHANGED <<rpc, job, pvc, scratch, pod, containers, edits>>
  BY ConstantsAssumption DEF Abort, Crash, Disturb, TypeOK, BudgetsOK
<1> QED
  BY WorkersKept, <1>1, <1>2 DEF TypeOK, ObjectsOK, ContainersOK, BudgetsOK

\* The cluster just created, before the manager has seen anything, is typed.
LEMMA InitTyped == Init => TypeOK
<1> SUFFICES ASSUME Init PROVE TypeOK
  OBVIOUS
<1>1. rpc \in RpcObjects
  BY NoConditionsTyped, ConstantsAssumption DEF Init, FreshRpc, RpcObjects, Versions
<1>2. cache \in Caches
  BY DEF Init, Caches
<1>3. ObjectsOK /\ ContainersOK /\ WorkersOK
  BY <1>1 DEF Init, ObjectsOK, ContainersOK, WorkersOK, JobActive
<1>4. ProcessOK
  BY DEF Init, ProcessOK, PodInHand
<1>5. BudgetsOK
  BY ConstantsAssumption DEF Init, BudgetsOK
<1> QED
  BY <1>2, <1>3, <1>4, <1>5 DEF TypeOK

\* In every behaviour of the operator every variable keeps its type: each
\* object has the fields the handlers write, no job fails more often than the
\* backoff limit of its controller allows, and every call of Reconcile
\* finds the copies it works on.
THEOREM TypeCorrect == Spec => []TypeOK
<1>1. Init => TypeOK
  BY InitTyped
<1>2. TypeOK /\ [Next]_vars => TypeOK'
  <2>1. TypeOK /\ UNCHANGED vars => TypeOK'
    BY WorkersKept DEF vars, owned, objects, containers, process, budgets, TypeOK,
       ObjectsOK,
           ContainersOK, ProcessOK, BudgetsOK
  <2> QED
    BY <2>1, ReconcileTyped, EnvironmentTyped, FailureTyped DEF Next
<1> QED
  BY <1>1, <1>2, PTL DEF Spec

-----------------------------------------------------------------------------
(* Steps. *)

\* An edit of the specification makes a StarknetRPC no copy is equal to, with
\* the status it had.
LEMMA EditsMakeNewVersions ==
    ASSUME TypeOK, EditEnable \/ EditImage
    PROVE  /\ rpc \in RpcObjects /\ rpc # Nil
           /\ rpc' \in RpcObjects /\ rpc' # Nil /\ rpc' # cache.rpc /\ rpc' # cluster
           /\ rpc'.uid = rpc.uid /\ rpc'.conditions = rpc.conditions
<1>1. rpc \in RpcObjects /\ rpc # Nil
  BY DEF EditEnable, EditImage, TypeOK, ObjectsOK
<1>2. /\ [rpc EXCEPT !.enable = ~@] \in RpcObjects
      /\ [rpc EXCEPT !.enable = ~@].uid = rpc.uid
      /\ [rpc EXCEPT !.enable = ~@].conditions = rpc.conditions
  BY <1>1 DEF RpcObjects
<1>3. \A image \in Images \cup {Nil} :
          /\ [rpc EXCEPT !.image = image] \in RpcObjects
          /\ [rpc EXCEPT !.image = image].uid = rpc.uid
          /\ [rpc EXCEPT !.image = image].conditions = rpc.conditions
  BY <1>1 DEF RpcObjects
<1>4. CASE EditEnable
  BY <1>1, <1>2, <1>4, NewRpcTyped, NilAssumption DEF EditEnable
<1>5. CASE EditImage
  BY <1>1, <1>3, <1>5, NewRpcTyped, NilAssumption DEF EditImage
<1> QED
  BY <1>1, <1>4, <1>5

\* One of the image leaves the switch alone.
LEMMA ImageEditKeepsEnable ==
    ASSUME TypeOK, EditImage PROVE rpc'.enable = rpc.enable
<1>1. rpc \in RpcObjects
  BY DEF EditImage, TypeOK, ObjectsOK
<1>2. \A image \in Images \cup {Nil} :
          /\ [rpc EXCEPT !.image = image] \in RpcObjects
          /\ [rpc EXCEPT !.image = image].enable = rpc.enable
  BY <1>1 DEF RpcObjects
<1> QED
  BY <1>2, NewRpcTyped DEF EditImage

\* Whatever happens to a pod, it keeps its owner; only its removal and its
\* deletion take it away.
LEMMA PodKeepsItsOwner ==
    ASSUME pod \in Pods,
           \/ SchedulePod \/ KubeletStartsPod \/ PodBreaks \/ ContainerRestarts
           \/ PodRemoved \/ CollectPod \/ DeletePodByHand
    PROVE  /\ pod' # Nil => pod'.owner = pod.owner
           /\ KubeletStartsPod \/ ContainerRestarts => pod' # Nil
<1> USE DEF SchedulePod, KubeletStartsPod, PodBreaks, ContainerRestarts, PodRemoved,
            CollectPod, DeletePodByHand
<1>1. \A s \in PodStatuses : /\ NewPod([pod EXCEPT !.status = s]).owner = pod.owner
                             /\ NewPod([pod EXCEPT !.status = s]) # Nil
  <2>1. \A s \in PodStatuses : /\ [pod EXCEPT !.status = s] \in Pods
                               /\ [pod EXCEPT !.status = s].owner = pod.owner
    BY DEF Pods
  <2> QED
    BY <2>1, NewPodTyped
<1>2. PodFaults \subseteq PodStatuses
  BY ConstantsAssumption DEF PodStatuses
<1>3. "Scheduled" \in PodStatuses /\ "Running" \in PodStatuses
  BY DEF PodStatuses
<1> QED
  BY <1>1, <1>2, <1>3, DeletedPodTyped

\* Only two calls of the operator make a job come or go.
LEMMA JobComesAndGoes ==
    ASSUME TypeOK, [Next]_vars, job' # job
    PROVE  \/ job' # Nil /\ job # Nil
           \/ DeleteJob /\ job' = Nil
           \/ CreateJob /\ job = Nil
<1> USE DEF owned, objects, containers, process, budgets
<1>1. CASE StartWorker \/ WorkerSucceeds \/ WorkerFails
  <2>1. job \in Jobs /\ job # Nil
    BY <1>1, NilAssumption
       DEF StartWorker, WorkerSucceeds, WorkerFails, JobPending, JobActive, TypeOK,
       ObjectsOK
  <2>2. job' \in Jobs
    <3>1. CASE StartWorker \/ WorkerSucceeds
      BY <2>1, <3>1 DEF StartWorker, WorkerSucceeds, Jobs
    <3>2. CASE WorkerFails
      <4>1. job.failures + 1 \in 0 .. BackoffLimit + 1
        BY <2>1, <3>2, ConstantsAssumption
           DEF WorkerFails, TypeOK, WorkersOK, JobActive, JobFinished, Jobs
      <4> QED
        BY <2>1, <3>2, <4>1 DEF WorkerFails, Jobs
    <3> QED
      BY <1>1, <3>1, <3>2
  <2> QED
    BY <2>1, <2>2, NilAssumption
<1>2. CASE CreateJob \/ DeleteJob
  BY <1>2 DEF CreateJob, DeleteJob
<1>3. ~(UNCHANGED vars \/ Abort \/ Crash \/ Watch \/ CollectGarbage)
  BY DEF vars, Abort, Crash, Disturb, Watch, SyncRpc, SyncPvc, SyncScratch, SyncJob,
     SyncPod,
         SyncOwned, CatchUp, CollectGarbage, CollectPvc, CollectScratch, CollectPod
<1>4. NodeStep => StartWorker \/ WorkerSucceeds \/ WorkerFails
  BY DEF NodeStep, BindPvc, BindScratch, RemovePvc, RemoveScratch, SchedulePod,
         WorkerOpens, KillOrphan, KubeletStartsPod, PodBeginsServing, PodBreaks,
         ContainerRestarts, PodRemoved
<1>5. ~UserStep
  BY DEF UserStep, EditEnable, EditImage, DeletePvc, DeletePodByHand, DeleteRpc,
     CreateRpc,
         CreateForeignPod
<1>6. ReconcileStep => CreateJob \/ DeleteJob
  BY DEF ReconcileStep, ArchiveStep, PodStep, StartReconcile, Initialize, CreatePvc,
         ResetRestore, DeleteScratch, MarkSkipped, CreateScratch, GetScratch,
         EnsurePvcReady,
         MarkProgressing, GetJob, MarkFinished, MarkFailed, CreatePod, MarkCreating,
         GetPod,
         UpdateImage, DeletePod, IsReady, MarkCatchingUp
<1> QED
  BY <1>1, <1>2, <1>3, <1>4, <1>5, <1>6 DEF Next, EnvironmentStep

=============================================================================

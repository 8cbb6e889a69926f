-------------------------- MODULE QuiescenceProofs --------------------------
(***************************************************************************)
(* Proof that no wake-up is lost, for every value of the constants: RestInv *)
(* is inductive for users who make no pod under the node's name by hand,   *)
(* and RestsWhenDone follows.  The part of it about the position of the    *)
(* Reconcile in progress holds for all users, and gives                    *)
(* ResetOnlyWithVolume.                                                    *)
(***************************************************************************)
EXTENDS SwitchProofs, Quiescence

-----------------------------------------------------------------------------
(* The position of the Reconcile in progress. *)

\* An accepted status update goes on with a copy that says what it wrote.
LEMMA ReportsKeepPosition ==
    ASSUME TypeOK, SkipInv, PositionInv, ReportStep
    PROVE  /\ PositionInv'
           /\ Restored(rpc) /\ rpc' # rpc => Restored(rpc') \/ pc = "ResetRestore"
<1> USE DEF RestoringLabels, CleaningLabels, PodLabels, PodCalls
<1> DEFINE done(conds) == IsStatusConditionTrue(conds, "Restore")
<1>1. PICK conds, next :
        /\ conds \in ConditionLists /\ SetPhases(conds, next)
        /\ pc # "Idle"
        /\ \/ pc = "Initialize" /\ next = "CreatePvc" /\ ~done(conds)
           \/ /\ pc = "ResetRestore" /\ ~done(conds)
              /\ next = EnterArchiveRestore([cluster EXCEPT !.conditions = conds])
           \/ pc \in {"MarkProgressing", "MarkFailed", "MarkFinished"} /\ next = "Requeue"
           \/ pc = "MarkSkipped" /\ next \in {"CreatePod", "Requeue"}
           \/ /\ pc \in {"MarkCreating", "MarkCatchingUp"}
              /\ next \in {"DeletePod", "IsReady", "Done"}
              /\ done(conds) = Restored(cluster)
        /\ pc \in {"MarkSkipped", "MarkFinished"} => done(conds)
  BY Reports
<1>2. CASE Return(TRUE) /\ UNCHANGED rpc
  BY <1>2 DEF Return, PositionInv
<1>3. CASE /\ cluster = rpc /\ rpc' # Nil
           /\ rpc'.conditions = conds
           /\ Proceed(next, rpc', podObj)
  <2>1. pc' # "Idle" => pc' = next /\ cluster' = rpc'
    BY <1>3 DEF Proceed, Return
  <2>2. Restored(rpc') <=> done(conds)
    BY <1>3 DEF Restored
  <2> HIDE DEF done
  <2>3. pc = "ResetRestore" => next \in {"CreateScratch", "MarkSkipped"}
    <3> SUFFICES ASSUME pc = "ResetRestore" PROVE next \in {"CreateScratch", "MarkSkipped"}
      OBVIOUS
    <3>1. ~Restored([cluster EXCEPT !.conditions = conds])
      BY <1>1, CopyInHand DEF Restored, RpcObjects, done
    <3> QED
      BY <1>1, <3>1 DEF EnterArchiveRestore
  <2>4. PositionInv'
    BY <1>1, <1>3, <2>1, <2>2, <2>3 DEF PositionInv
  <2>5. Restored(rpc) => Restored(rpc') \/ pc = "ResetRestore"
    BY <1>1, <1>3, <2>2 DEF PositionInv, Restored, IsStatusConditionTrue
  <2> QED
    BY <2>4, <2>5
<1> QED
  BY <1>1, <1>2, <1>3, AcceptedUpdate

\* The other steps of Reconcile branch on what the copy says.
LEMMA OthersKeepPosition ==
    ASSUME TypeOK, PositionInv, ReconcileStep, ~ReportStep
    PROVE  PositionInv'
<1> USE DEF RestoringLabels, CleaningLabels, PodLabels, PodCalls
<1>1. CASE StartReconcile
  BY <1>1 DEF StartReconcile, PositionInv
<1>2. CASE CreatePvc \/ DeleteJob \/ DeleteScratch
  BY <1>2 DEF CreatePvc, DeleteJob, DeleteScratch, EnterArchiveRestore, Gate, Proceed,
              Return, PositionInv
<1>3. CASE CreateScratch \/ GetScratch \/ EnsurePvcReady \/ CreateJob \/ GetJob
  BY <1>3 DEF CreateScratch, GetScratch, EnsurePvcReady, CreateJob, GetJob, Proceed,
              Return, PositionInv
<1>4. CASE CreatePod \/ GetPod \/ UpdateImage \/ DeletePod \/ IsReady
  BY <1>4 DEF CreatePod, GetPod, UpdateImage, DeletePod, IsReady, Inspect, Proceed,
              Return, PositionInv
<1> QED
  BY <1>1, <1>2, <1>3, <1>4 DEF ReportStep, ReconcileStep, ArchiveStep, PodStep

\* Nobody else moves the Reconcile in progress or changes its copy; a failure
\* ends it.
LEMMA ProgressLeftAlone ==
    /\ EnvironmentStep => UNCHANGED <<pc, cluster, podObj>>
    /\ Abort \/ Crash => pc' = "Idle" /\ cluster' = Nil
<1> USE DEF process, InProgress
<1>1. Watch => UNCHANGED <<pc, cluster, podObj>>
  BY DEF Watch, SyncRpc, SyncPvc, SyncScratch, SyncJob, SyncPod, SyncOwned, CatchUp
<1>2. NodeStep \/ CollectGarbage => UNCHANGED <<pc, cluster, podObj>>
  BY DEF objects, NodeStep, CollectGarbage, BindPvc, BindScratch, RemovePvc,
     RemoveScratch,
         SchedulePod, StartWorker, WorkerOpens, WorkerSucceeds, WorkerFails, KillOrphan,
         KubeletStartsPod,
         PodBeginsServing, PodBreaks, ContainerRestarts, PodRemoved, CollectPvc,
         CollectScratch, CollectPod
<1>3. UserStep => UNCHANGED <<pc, cluster, podObj>>
  BY DEF UserStep, EditEnable, EditImage, DeletePvc, DeletePodByHand, DeleteRpc,
     CreateRpc,
         CreateForeignPod, Edit
<1>4. Abort \/ Crash => pc' = "Idle" /\ cluster' = Nil
  BY DEF Abort, Crash, Return
<1> QED
  BY <1>1, <1>2, <1>3, <1>4 DEF EnvironmentStep

\* The position tells what the copy in hand says of the restore.
THEOREM PositionsAreRight == Spec => []PositionInv
<1>1. Init => PositionInv
  BY DEF Init, PositionInv, RestoringLabels, CleaningLabels, PodLabels, PodCalls
<1>2. TypeOK /\ SkipInv /\ PositionInv /\ [Next]_vars => PositionInv'
  <2>1. PositionInv /\ UNCHANGED vars => PositionInv'
    BY DEF vars, process, PositionInv
  <2>2. PositionInv /\ EnvironmentStep => PositionInv'
    BY ProgressLeftAlone DEF PositionInv
  <2>3. Abort \/ Crash => PositionInv'
    BY ProgressLeftAlone DEF PositionInv, RestoringLabels, CleaningLabels, PodLabels,
                             PodCalls
  <2> QED
    BY <2>1, <2>2, <2>3, ReportsKeepPosition, OthersKeepPosition DEF Next
<1> QED
  BY <1>1, <1>2, TypeCorrect, SkipInvAlways, PTL DEF Spec

\* Status updates apart, only users change a StarknetRPC, and they leave its
\* conditions alone.
LEMMA ConditionsAreReported ==
    ASSUME TypeOK, SkipInv, Next, rpc' # rpc, rpc # Nil, rpc' # Nil
    PROVE  \/ ReportStep
           \/ EditEnable \/ EditImage
<1> USE DEF owned, objects, containers, process, InProgress
<1>1. ~ReconcileStep \/ ReportStep
  BY OthersKeepSkipInv
<1>2. ~DeleteRpc /\ ~CreateRpc /\ ~Abort /\ ~Crash /\ ~Watch
  BY DEF DeleteRpc, CreateRpc, Abort, Crash, Disturb, Watch, SyncRpc, SyncPvc,
     SyncScratch,
         SyncJob, SyncPod, SyncOwned, CatchUp
<1>3. ~NodeStep /\ ~CollectGarbage /\ ~(DeletePvc \/ DeletePodByHand \/ CreateForeignPod)
  BY DEF NodeStep, CollectGarbage, BindPvc, BindScratch, RemovePvc, RemoveScratch,
         SchedulePod, StartWorker, WorkerOpens, WorkerSucceeds, WorkerFails, KillOrphan,
         KubeletStartsPod,
         PodBeginsServing, PodBreaks, ContainerRestarts, PodRemoved, CollectPvc,
         CollectScratch, CollectPod, DeletePvc, DeletePodByHand, CreateForeignPod
<1> QED
  BY <1>1, <1>2, <1>3 DEF Next, EnvironmentStep, UserStep

\* A recorded restore is taken back only by a Reconcile that has made the
\* main volume anew (pvc.go:34-40), whatever users delete and make anew.
THEOREM ResetsNeedANewVolume == Spec => ResetOnlyWithVolume
<1>1. TypeOK /\ SkipInv /\ PositionInv /\ [Next]_vars
        => [rpc # Nil /\ rpc' # Nil /\ rpc'.uid = rpc.uid /\ Restored(rpc)
              => Restored(rpc') \/ pc = "ResetRestore"]_rpc
  <2> SUFFICES ASSUME TypeOK, SkipInv, PositionInv, Next, rpc' # rpc,
                      rpc # Nil, rpc' # Nil, Restored(rpc)
               PROVE  Restored(rpc') \/ pc = "ResetRestore"
    BY DEF vars, objects
  <2>1. CASE ReportStep
    BY <2>1, ReportsKeepPosition
  <2>2. CASE EditEnable \/ EditImage
    <3>1. rpc'.conditions = rpc.conditions
      BY <2>2, EditsMakeNewVersions
    <3> QED
      BY <3>1 DEF Restored
  <2> QED
    BY <2>1, <2>2, ConditionsAreReported
<1> QED
  BY <1>1, TypeCorrect, SkipInvAlways, PositionsAreRight, PTL
     DEF Spec, ResetOnlyWithVolume

-----------------------------------------------------------------------------
(* Owners and events. *)

\* A StarknetRPC made again has an identity of its own.
LEMMA CreatedRpcTyped ==
    ASSUME TypeOK, CreateRpc
    PROVE  rpc' # cache.rpc /\ rpc'.uid # NoOwner
<1>1. PICK enable \in InitialEnable : rpc' = NewRpc(FreshRpc(edits + 1, enable))
  BY DEF CreateRpc
<1>2. FreshRpc(edits + 1, enable) \in RpcObjects
  BY NoConditionsTyped, ConstantsAssumption
     DEF FreshRpc, RpcObjects, Versions, TypeOK, BudgetsOK
<1>3. FreshRpc(edits + 1, enable).uid # NoOwner
  BY DEF FreshRpc, NoOwner, TypeOK, BudgetsOK
<1> QED
  BY <1>1, <1>2, <1>3, NewRpcTyped

\* What the operator makes names its StarknetRPC, which is never NoOwner.
LEMMA OwnersStep ==
    ASSUME NoForeignPods, TypeOK, SkipInv, OwnersInv, [Next]_vars
    PROVE  OwnersInv'
<1>1. CASE UNCHANGED vars
  BY <1>1 DEF vars, objects, owned, process, OwnersInv
<1>2. CASE ReportStep
  <2>1. PICK conds, next :
          /\ conds \in ConditionLists /\ SetPhases(conds, next) /\ pc # "Idle"
          /\ UNCHANGED <<owned, cache>>
    BY <1>2, Reports
  <2>2. \/ rpc' = rpc /\ cluster' = Nil
        \/ rpc' # Nil /\ rpc # Nil /\ rpc'.uid = rpc.uid /\ cluster' \in {Nil, rpc'}
    BY <2>1, AcceptedUpdate DEF Return, Proceed
  <2> QED
    BY <2>1, <2>2 DEF OwnersInv, owned
<1>3. CASE ReconcileStep /\ ~ReportStep
  <2>1. /\ UNCHANGED <<rpc, cache>>
        /\ cluster' \in {cluster, cache.rpc, Nil}
    BY <1>3, OthersKeepSkipInv
       DEF ReportStep, ReconcileStep, ArchiveStep, PodStep, StartReconcile, CreatePvc,
           DeleteJob, DeleteScratch, CreateScratch, GetScratch, EnsurePvcReady, CreateJob,
           GetJob, CreatePod, GetPod, UpdateImage, DeletePod, IsReady, Proceed, Return
  <2>2. pvc' = pvc \/ (cluster # Nil /\ pvc' = GetWantedPvc(cluster))
    BY <1>3, CopyInHand, NilAssumption
       DEF ReportStep, ReconcileStep, ArchiveStep, PodStep, StartReconcile, CreatePvc,
           DeleteJob, DeleteScratch, CreateScratch, GetScratch, EnsurePvcReady, CreateJob,
           GetJob, CreatePod, GetPod, UpdateImage, DeletePod, IsReady, objects, owned
  <2>3. \/ pod' = pod \/ pod' = Nil
        \/ cluster # Nil /\ pod'.owner = cluster.uid
        \/ pod # Nil /\ pod'.owner = pod.owner
    <3>1. CASE CreatePod
      BY <3>1, CopyInHand, WantedTyped, NewPodTyped, NilAssumption
         DEF CreatePod, GetWantedPod
    <3>2. CASE UpdateImage
      <4>1. podObj \in Pods /\ podObj # Nil
        BY <3>2 DEF UpdateImage, TypeOK, ProcessOK, PodInHand
      <4>2. cluster \in RpcObjects
        BY <3>2, CopyInHand DEF UpdateImage
      <4>3. /\ [podObj EXCEPT !.image = getPodImage(cluster)] \in Pods
            /\ [podObj EXCEPT !.image = getPodImage(cluster)].owner = podObj.owner
        BY <4>1, <4>2, WantedTyped DEF Pods
      <4> QED
        BY <3>2, <4>1, <4>3, NewPodTyped DEF UpdateImage
    <3>3. CASE DeletePod
      BY <3>3, DeletedPodTyped DEF DeletePod, TypeOK, ObjectsOK
    <3> QED
      BY <1>3, <3>1, <3>2, <3>3
         DEF ReportStep, ReconcileStep, ArchiveStep, PodStep, StartReconcile, CreatePvc,
             DeleteJob, DeleteScratch, CreateScratch, GetScratch, EnsurePvcReady,
             CreateJob,
             GetJob, GetPod, IsReady, objects, owned
  <2> QED
    BY <2>1, <2>2, <2>3 DEF OwnersInv, GetWantedPvc
<1>4. CASE Abort \/ Crash
  BY <1>4 DEF Abort, Crash, Disturb, Return, OwnersInv
<1>5. CASE EnvironmentStep
  <2>1. rpc' = rpc \/ rpc' = Nil \/ rpc'.uid # NoOwner
    <3>1. CASE EditEnable \/ EditImage
      BY <3>1, EditsMakeNewVersions DEF OwnersInv
    <3>2. CASE CreateRpc
      BY <3>2, CreatedRpcTyped
    <3> QED
      BY <1>5, <3>1, <3>2
         DEF EnvironmentStep, UserStep, DeleteRpc, DeletePvc, DeletePodByHand,
             CreateForeignPod, Watch, SyncRpc, SyncPvc, SyncScratch, SyncJob, SyncPod,
             SyncOwned, CatchUp, NodeStep, CollectGarbage, BindPvc, BindScratch,
             RemovePvc,
             RemoveScratch, SchedulePod, StartWorker, WorkerOpens, WorkerSucceeds,
             WorkerFails, KillOrphan,
             KubeletStartsPod, PodBeginsServing, PodBreaks, ContainerRestarts, PodRemoved,
             CollectPvc, CollectScratch, CollectPod, objects
  <2>2. cache'.rpc \in {cache.rpc, rpc}
    BY <1>5 DEF EnvironmentStep, UserStep, EditEnable, EditImage, DeleteRpc, CreateRpc,
       DeletePvc, DeletePodByHand, CreateForeignPod, Edit, Watch, SyncRpc, SyncPvc,
       SyncScratch, SyncJob, SyncPod, SyncOwned, CatchUp, NodeStep, CollectGarbage,
       BindPvc,
       BindScratch, RemovePvc, RemoveScratch, SchedulePod, StartWorker, WorkerOpens,
       WorkerSucceeds, WorkerFails,
       KillOrphan, KubeletStartsPod, PodBeginsServing, PodBreaks, ContainerRestarts,
       PodRemoved, CollectPvc, CollectScratch, CollectPod, process, TypeOK, Caches
  <2>3. pvc' = pvc \/ pvc' = Nil \/ (pvc # Nil /\ pvc'.owner = pvc.owner)
    BY <1>5 DEF EnvironmentStep, UserStep, EditEnable, EditImage, DeleteRpc, CreateRpc,
       DeletePvc, DeletePodByHand, CreateForeignPod, Watch, SyncRpc, SyncPvc,
       SyncScratch, SyncJob, SyncPod, SyncOwned, CatchUp, NodeStep, CollectGarbage,
       BindPvc,
       Provisionable, BindScratch, RemovePvc, RemoveScratch, SchedulePod, StartWorker,
       WorkerOpens, WorkerSucceeds,
       WorkerFails, KillOrphan, KubeletStartsPod, PodBeginsServing, PodBreaks,
       ContainerRestarts, PodRemoved, CollectPvc, Abandoned, Owned, CollectScratch,
       CollectPod, objects, owned, TypeOK, ObjectsOK, Claims
  <2>4. pod' = pod \/ pod' = Nil \/ (pod # Nil /\ pod'.owner = pod.owner)
    <3>1. ~CreateForeignPod
      BY DEF NoForeignPods, CreateForeignPod, Edit
    <3>2. CASE \/ SchedulePod \/ KubeletStartsPod \/ PodBreaks \/ ContainerRestarts
               \/ PodRemoved \/ CollectPod \/ DeletePodByHand
      <4>1. pod # Nil /\ pod \in Pods
        BY <3>2 DEF SchedulePod, KubeletStartsPod, PodBreaks, ContainerRestarts,
           PodRemoved,
                    CollectPod, DeletePodByHand, Abandoned, Owned, TypeOK, ObjectsOK
      <4> QED
        BY <3>2, <4>1, PodKeepsItsOwner
    <3>3. CASE ~(\/ SchedulePod \/ KubeletStartsPod \/ PodBreaks \/ ContainerRestarts
                 \/ PodRemoved \/ CollectPod \/ DeletePodByHand)
      <4>1. UNCHANGED pod
        BY <1>5, <3>1, <3>3
           DEF EnvironmentStep, UserStep, EditEnable, EditImage, DeleteRpc, CreateRpc,
               DeletePvc, Watch, SyncRpc, SyncPvc, SyncScratch, SyncJob, SyncPod,
               SyncOwned,
               CatchUp, NodeStep, CollectGarbage, BindPvc, BindScratch, RemovePvc,
               RemoveScratch, StartWorker, WorkerOpens, WorkerSucceeds, WorkerFails,
               KillOrphan, PodBeginsServing, CollectPvc, CollectScratch, objects, owned
      <4> QED
        BY <4>1
    <3> QED
      BY <3>2, <3>3
  <2>5. cluster' = cluster
    BY <1>5, ProgressLeftAlone
  <2> QED
    BY <2>1, <2>2, <2>3, <2>4, <2>5 DEF OwnersInv
<1> QED
  BY <1>1, <1>2, <1>3, <1>4, <1>5 DEF Next

\* With that, every change of the volume and of the pod is announced, and an
\* announcement that is delivered calls for another Reconcile; a change of
\* the StarknetRPC leaves the cache behind until its own event does the same.
LEMMA EnvironmentWakes ==
    ASSUME NoForeignPods, TypeOK, OwnersInv, EnvironmentStep
    PROVE  /\ queued => queued'
           /\ job = Nil => job' = Nil
           /\ ScratchLetGo => ScratchLetGo'
           /\ ~queued' => (news \subseteq news') /\ cache'.pod \in {cache.pod, pod}
           /\ "pvc" \notin news' /\ ~queued' => pvc' = pvc
           /\ "pod" \notin news' => pod' = pod
           /\ "pod" \notin news' => cache'.pod = pod \/ ("pod" \notin news /\ UNCHANGED cache.pod)
           /\ Fresh' => Fresh /\ rpc' = rpc
<1> USE DEF objects, owned, process, InProgress
<1>1. CASE Watch
  <2>1. UNCHANGED <<rpc, job, pvc, scratch, pod>>
    BY <1>1 DEF Watch, SyncRpc, SyncPvc, SyncScratch, SyncJob, SyncPod, SyncOwned, CatchUp
  <2>2. CASE SyncRpc
    BY <2>1, <2>2 DEF SyncRpc, CatchUp, Fresh, ScratchLetGo, TypeOK, Caches
  <2>3. CASE SyncJob
    BY <2>1, <2>3 DEF SyncJob, CatchUp, Fresh, ScratchLetGo, TypeOK, Caches
  <2>4. CASE SyncPvc \/ SyncScratch \/ SyncPod
    <3>1. PICK kind \in {"pvc", "scratch", "pod"} :
            /\ news' = news \ {kind} /\ queued' = (queued \/ kind \in news)
            /\ cache'.rpc = cache.rpc
            /\ cache'.pod = IF kind = "pod" THEN pod ELSE cache.pod
      BY <2>4 DEF SyncPvc, SyncScratch, SyncPod, SyncOwned, CatchUp, TypeOK, Caches
    <3> QED
      BY <2>1, <3>1 DEF Fresh, ScratchLetGo
  <2> QED
    BY <1>1, <2>2, <2>3, <2>4 DEF Watch
<1>2. CASE EditEnable \/ EditImage \/ DeleteRpc \/ CreateRpc
  <2>1. UNCHANGED <<job, pvc, scratch, pod, news, cache, queued>>
    BY <1>2 DEF EditEnable, EditImage, DeleteRpc, CreateRpc, Edit
  <2>2. rpc' = Nil \/ rpc' # cache.rpc
    <3>1. CASE EditEnable \/ EditImage
      BY <3>1, EditsMakeNewVersions
    <3>2. CASE DeleteRpc
      BY <3>2 DEF DeleteRpc
    <3>3. CASE CreateRpc
      BY <3>3, CreatedRpcTyped
    <3> QED
      BY <1>2, <3>1, <3>2, <3>3
  <2>3. ~Fresh'
    BY <2>1, <2>2 DEF Fresh
  <2> QED
    BY <2>1, <2>3 DEF ScratchLetGo
<1>3. CASE \/ NodeStep \/ CollectGarbage \/ DeletePvc \/ DeletePodByHand
  <2>1. UNCHANGED <<rpc, cache, queued>>
    BY <1>3 DEF NodeStep, CollectGarbage, BindPvc, BindScratch, RemovePvc, RemoveScratch,
         SchedulePod, StartWorker, WorkerOpens, WorkerSucceeds, WorkerFails, KillOrphan,
         KubeletStartsPod,
         PodBeginsServing, PodBreaks, ContainerRestarts, PodRemoved, CollectPvc,
         CollectScratch, CollectPod, DeletePvc, DeletePodByHand, Edit
  <2>2. /\ news \subseteq news'
        /\ pvc' # pvc /\ (Owned(pvc) \/ Owned(pvc')) => "pvc" \in news'
        /\ pod' # pod /\ (Owned(pod) \/ Owned(pod')) => "pod" \in news'
    BY <1>3 DEF NodeStep, CollectGarbage, BindPvc, BindScratch, RemovePvc, RemoveScratch,
         SchedulePod, StartWorker, WorkerOpens, WorkerSucceeds, WorkerFails, KillOrphan,
         KubeletStartsPod,
         PodBeginsServing, PodBreaks, ContainerRestarts, PodRemoved, CollectPvc,
         CollectScratch, CollectPod, DeletePvc, DeletePodByHand, Edit, Announce
  <2>3. /\ pvc' # pvc => pvc # Nil
        /\ pod' # pod => pod # Nil
    BY <1>3 DEF NodeStep, CollectGarbage, BindPvc, BindScratch, RemovePvc, RemoveScratch,
         SchedulePod, StartWorker, WorkerOpens, WorkerSucceeds, WorkerFails, KillOrphan,
         KubeletStartsPod,
         PodBeginsServing, PodBreaks, ContainerRestarts, PodRemoved, CollectPvc,
         CollectScratch, CollectPod, DeletePvc, DeletePodByHand, Edit, Provisionable,
         Abandoned, Owned
  <2>4. job = Nil => job' = Nil
    BY <1>3 DEF NodeStep, CollectGarbage, BindPvc, BindScratch, RemovePvc, RemoveScratch,
         SchedulePod, StartWorker, WorkerOpens, WorkerSucceeds, WorkerFails, KillOrphan,
         KubeletStartsPod,
         PodBeginsServing, PodBreaks, ContainerRestarts, PodRemoved, CollectPvc,
         CollectScratch, CollectPod, DeletePvc, DeletePodByHand, Edit, JobPending,
         JobActive
  <2>5. ScratchLetGo => ScratchLetGo'
    <3>1. CASE CollectScratch
      BY <3>1 DEF CollectScratch, Abandoned, Owned, ScratchLetGo
    <3>2. CASE ~CollectScratch
      BY <1>3, <3>2 DEF NodeStep, CollectGarbage, BindPvc, BindScratch, RemovePvc,
         RemoveScratch, SchedulePod, StartWorker, WorkerOpens, WorkerSucceeds,
         WorkerFails, KillOrphan,
         KubeletStartsPod, PodBeginsServing, PodBreaks, ContainerRestarts, PodRemoved,
         CollectPvc, CollectPod, DeletePvc, DeletePodByHand, Provisionable, ScratchLetGo
    <3> QED
      BY <3>1, <3>2
  <2>6. /\ pvc' # pvc => "pvc" \in news'
        /\ pod' # pod => "pod" \in news'
    BY <2>2, <2>3 DEF OwnersInv, Owned
  <2> QED
    BY <2>1, <2>2, <2>4, <2>5, <2>6 DEF Fresh
<1>4. ~CreateForeignPod
  BY DEF NoForeignPods, CreateForeignPod, Edit
<1> QED
  BY <1>1, <1>2, <1>3, <1>4 DEF EnvironmentStep, UserStep

\* So nobody but the operator takes a rest away that has been reached.
LEMMA EnvironmentKeepsRest ==
    ASSUME NoForeignPods, TypeOK, RestInv, EnvironmentStep
    PROVE  CurrentCopyInv' /\ VolumeThere' /\ CleanedUp' /\ NodeSeen' /\ IdleWhenDone'
<1>1. OwnersInv
  BY DEF RestInv
<1>2. UNCHANGED <<pc, cluster>>
  BY ProgressLeftAlone
<1>3. CurrentCopyInv'
  BY <1>1, <1>2, EnvironmentWakes DEF RestInv, CurrentCopyInv
<1>4. VolumeThere'
  BY <1>1, <1>2, EnvironmentWakes DEF RestInv, VolumeThere
<1>5. CleanedUp'
  BY <1>1, <1>2, EnvironmentWakes DEF RestInv, CleanedUp
<1>6. NodeSeen'
  BY <1>1, <1>2, EnvironmentWakes DEF RestInv, NodeSeen, NodeAsWanted
<1>7. IdleWhenDone'
  <2> SUFFICES ASSUME Fresh', pc' = "Idle"
               PROVE  /\ Restored(rpc') /\ job' = Nil /\ ScratchLetGo'
                      /\ "pvc" \notin news' => pvc' # Nil
                      /\ "pod" \notin news' => NodeAsWanted(rpc)'
    BY DEF IdleWhenDone
  <2>1. Fresh /\ rpc' = rpc /\ pc = "Idle" /\ ~queued'
    BY <1>1, <1>2, EnvironmentWakes DEF Fresh
  <2>2. "pvc" \notin news' => "pvc" \notin news /\ pvc' = pvc
    BY <1>1, <2>1, EnvironmentWakes
  <2>3. "pod" \notin news' => "pod" \notin news /\ pod' = pod
    BY <1>1, <2>1, EnvironmentWakes
  <2> QED
    BY <1>1, <2>1, <2>2, <2>3, EnvironmentWakes DEF RestInv, IdleWhenDone, NodeAsWanted
<1> QED
  BY <1>3, <1>4, <1>5, <1>6, <1>7

-----------------------------------------------------------------------------
(* Towards the rest. *)

\* A status update that changes something leaves the cache behind; one that
\* changes nothing ends a Reconcile that has seen to everything.
LEMMA ReportsKeepRest ==
    ASSUME TypeOK, SkipInv, RestInv, ReportStep
    PROVE  CurrentCopyInv' /\ VolumeThere' /\ CleanedUp' /\ NodeSeen' /\ IdleWhenDone'
<1> USE DEF owned, PodLabels, PodCalls
<1>1. PICK conds, next :
        /\ conds \in ConditionLists /\ SetPhases(conds, next)
        /\ pc # "Idle" /\ UNCHANGED <<owned, job, cache>>
        /\ \/ pc = "Initialize" /\ next = "CreatePvc"
           \/ /\ pc = "ResetRestore"
              /\ next = EnterArchiveRestore([cluster EXCEPT !.conditions = conds])
           \/ pc \in {"MarkProgressing", "MarkFailed", "MarkFinished"} /\ next = "Requeue"
           \/ pc = "MarkSkipped" /\ next \in {"CreatePod", "Requeue"}
           \/ /\ pc \in {"MarkCreating", "MarkCatchingUp"}
              /\ next \in {"DeletePod", "IsReady", "Done"}
        /\ pc = "MarkSkipped" => IsStatusConditionTrue(conds, "Restore")
  BY Reports
<1>2. pc = "MarkCatchingUp" => pc' = "Idle"
  BY DEF ReportStep, Initialize, ResetRestore, MarkSkipped, MarkProgressing, MarkFinished,
         MarkFailed, MarkCreating, MarkCatchingUp, SetPhases, Proceed, Return
<1>3. CASE Return(TRUE) /\ UNCHANGED rpc
  <2>1. queued' /\ pc' = "Idle"
    BY <1>3 DEF Return
  <2> QED
    BY <1>1, <2>1 DEF RestInv, CurrentCopyInv, VolumeThere, CleanedUp, NodeSeen,
                      IdleWhenDone, Fresh
<1>4. CASE /\ cluster = rpc /\ rpc # Nil /\ rpc' # Nil
           /\ rpc'.conditions = conds
           /\ rpc' = rpc \/ rpc' # cache.rpc
           /\ Proceed(next, rpc', podObj)
  <2>1. /\ pc' = "Idle" => queued' \/ (next = "Done" /\ queued' = queued)
        /\ pc' # "Idle" => pc' = next /\ cluster' = rpc' /\ queued' = queued
    <3>1. next # "Idle" /\ queued \in BOOLEAN
      BY <1>1 DEF EnterArchiveRestore, TypeOK, ProcessOK
    <3>2. CASE next \in {"Done", "Requeue"}
      BY <1>4, <3>1, <3>2 DEF Proceed, Return
    <3>3. CASE next \notin {"Done", "Requeue"}
      BY <1>4, <3>1, <3>3 DEF Proceed
    <3> QED
      BY <3>2, <3>3
  <2>2. Fresh' => Fresh /\ rpc' = rpc
    BY <1>1, <1>4, <2>1 DEF Fresh
  <2>3. pc = "MarkSkipped" => ~Fresh'
    <3>1. pc = "MarkSkipped" => Restored(rpc') /\ ~Restored(rpc)
      BY <1>1, <1>4 DEF RestInv, PositionInv, Restored
    <3> QED
      BY <2>2, <3>1
  <2>4. CurrentCopyInv'
    BY <1>1, <2>1, <2>2 DEF RestInv, CurrentCopyInv
  <2>5. VolumeThere'
    BY <1>1, <2>1 DEF RestInv, VolumeThere
  <2>6. next \in PodLabels => pc \in {"MarkSkipped", "MarkCreating", "MarkCatchingUp"}
    BY <1>1 DEF EnterArchiveRestore
  <2>7. CleanedUp'
    <3> SUFFICES ASSUME Fresh', pc' \in PodLabels \cup {"DeleteScratch"}
                 PROVE  job' = Nil /\ (pc' \in PodLabels => ScratchLetGo')
      BY DEF CleanedUp
    <3>1. pc' = next /\ next # "DeleteScratch"
      BY <1>1, <2>1 DEF EnterArchiveRestore
    <3>2. pc \in PodLabels /\ Fresh
      BY <2>2, <2>3, <2>6, <3>1
    <3> QED
      BY <1>1, <3>2 DEF RestInv, CleanedUp, ScratchLetGo
  <2>8. NodeSeen'
    <3>1. pc' # "Idle" => pc' # "MarkCreating" /\ pc' # "MarkCatchingUp"
      BY <1>1, <2>1 DEF EnterArchiveRestore
    <3>2. pc' = "IsReady" => pc = "MarkCreating"
      BY <1>1, <1>2, <2>1 DEF EnterArchiveRestore
    <3> QED
      BY <1>1, <2>1, <3>1, <3>2 DEF RestInv, NodeSeen
  <2>9. IdleWhenDone'
    <3> SUFFICES ASSUME Fresh', pc' = "Idle"
                 PROVE  /\ Restored(rpc') /\ job' = Nil /\ ScratchLetGo'
                        /\ "pvc" \notin news' => pvc' # Nil
                        /\ "pod" \notin news' => NodeAsWanted(rpc)'
      BY DEF IdleWhenDone
    <3>1. Fresh /\ rpc' = rpc /\ ~queued' /\ next = "Done"
      BY <2>1, <2>2 DEF Fresh
    <3>2. pc \in {"MarkCreating", "MarkCatchingUp"}
      BY <1>1, <3>1 DEF EnterArchiveRestore
    <3>3. Restored(rpc) /\ job = Nil /\ ScratchLetGo
      BY <1>4, <3>1, <3>2 DEF RestInv, PositionInv, CleanedUp
    <3>4. "pvc" \notin news => pvc # Nil
      BY <3>1, <3>2 DEF RestInv, VolumeThere, Fresh
    <3>5. "pod" \notin news => NodeAsWanted(rpc)
      BY <1>4, <3>1, <3>2 DEF RestInv, NodeSeen, Fresh
    <3> QED
      BY <1>1, <3>1, <3>3, <3>4, <3>5 DEF ScratchLetGo, NodeAsWanted
  <2> QED
    BY <2>4, <2>5, <2>7, <2>8, <2>9
<1> QED
  BY <1>1, <1>3, <1>4, AcceptedUpdate

\* What Reconcile does with the volumes and the job.
LEMMA ArchiveStepsKeepRest ==
    ASSUME TypeOK, RestInv,
           \/ CreatePvc \/ DeleteJob \/ DeleteScratch \/ CreateScratch
           \/ GetScratch \/ EnsurePvcReady \/ CreateJob \/ GetJob
    PROVE  CurrentCopyInv' /\ VolumeThere' /\ CleanedUp' /\ NodeSeen' /\ IdleWhenDone'
<1> USE DEF objects, owned, PodLabels, PodCalls, RestoringLabels, CleaningLabels
<1>1. CASE CreatePvc
  <2>1. /\ UNCHANGED <<rpc, cache, pod, queued, cluster>>
        /\ pc' \in {"ResetRestore", "DeleteJob", "MarkSkipped", "CreateScratch"}
        /\ "pod" \in news' <=> "pod" \in news
        /\ pc # "Idle"
    BY <1>1 DEF CreatePvc, Announce, Proceed, EnterArchiveRestore
  <2>2. pvc' # Nil
    BY <1>1, <2>1, CopyInHand, WantedTyped, NilAssumption DEF CreatePvc
  <2> QED
    BY <2>1, <2>2 DEF RestInv, CurrentCopyInv, VolumeThere, CleanedUp, NodeSeen,
                      IdleWhenDone, Fresh
<1>2. CASE DeleteJob
  <2>1. /\ UNCHANGED <<rpc, cache, pod, pvc, news, queued, cluster>>
        /\ pc = "DeleteJob" /\ pc' = "DeleteScratch" /\ job' = Nil
    BY <1>2 DEF DeleteJob, Proceed
  <2> QED
    BY <2>1 DEF RestInv, CurrentCopyInv, VolumeThere, CleanedUp, NodeSeen,
                IdleWhenDone, Fresh
<1>3. CASE DeleteScratch
  <2>1. /\ UNCHANGED <<rpc, cache, pod, pvc, job, queued, cluster>>
        /\ pc = "DeleteScratch" /\ pc' = "CreatePod"
        /\ "pod" \in news' <=> "pod" \in news
        /\ "pvc" \in news' <=> "pvc" \in news
    BY <1>3 DEF DeleteScratch, Announce, Proceed, Gate, RestInv, PositionInv
  <2>2. ScratchLetGo'
    BY <1>3 DEF DeleteScratch, ScratchLetGo, TypeOK, ObjectsOK, Claims
  <2> QED
    BY <2>1, <2>2 DEF RestInv, CurrentCopyInv, VolumeThere, CleanedUp, NodeSeen,
                      IdleWhenDone, Fresh
<1>4. CASE CreateScratch \/ GetScratch \/ EnsurePvcReady \/ CreateJob \/ GetJob
  <2>1. /\ UNCHANGED <<rpc, cache, pod, pvc>>
        /\ pc \in RestoringLabels
        /\ \/ pc' = "Idle" /\ queued'
           \/ pc' \in RestoringLabels /\ UNCHANGED <<queued, cluster>>
        /\ "pod" \in news' <=> "pod" \in news
        /\ "pvc" \in news' <=> "pvc" \in news
    BY <1>4 DEF CreateScratch, GetScratch, EnsurePvcReady, CreateJob, GetJob, Announce,
                Proceed, Return
  <2> QED
    BY <2>1 DEF RestInv, CurrentCopyInv, VolumeThere, CleanedUp, NodeSeen,
                IdleWhenDone, Fresh
<1> QED
  BY <1>1, <1>2, <1>3, <1>4

\* What it does with the pod: a change it makes is announced, and the pod it
\* is content with is the pod there is, unless news of it is on its way.
LEMMA PodStepsKeepRest ==
    ASSUME TypeOK, RestInv,
           CreatePod \/ GetPod \/ UpdateImage \/ DeletePod \/ IsReady
    PROVE  CurrentCopyInv' /\ VolumeThere' /\ CleanedUp' /\ NodeSeen' /\ IdleWhenDone'
<1> USE DEF objects, owned, PodLabels, PodCalls
<1>1. pc \in PodLabels
  BY DEF CreatePod, GetPod, UpdateImage, DeletePod, IsReady
<1>2. /\ UNCHANGED <<rpc, cache, pvc, scratch, job>>
      /\ "pvc" \in news' <=> "pvc" \in news
      /\ \/ pc' = "Idle" /\ (queued => queued')
         \/ pc' \in PodLabels /\ UNCHANGED <<queued, cluster>>
  BY DEF CreatePod, GetPod, UpdateImage, DeletePod, IsReady, Announce, Inspect, Proceed,
         Return
<1>3. (pod' = pod /\ news' = news) \/ "pod" \in news'
  <2>1. CASE CreatePod
    <3>1. CASE pod = Nil /\ pod' = NewPod(GetWantedPod(cluster))
      <4>1. cluster # Nil /\ GetWantedPod(cluster) \in Pods
        BY <1>1, CopyInHand, WantedTyped, NilAssumption
      <4>2. pod' # Nil /\ pod'.owner = cluster.uid
        BY <3>1, <4>1, NewPodTyped DEF GetWantedPod
      <4>3. Owned(pod')
        BY <4>1, <4>2 DEF Owned, RestInv, OwnersInv
      <4> QED
        BY <2>1, <3>1, <4>2, <4>3 DEF CreatePod, Announce
    <3> QED
      BY <2>1, <3>1 DEF CreatePod, Announce
  <2>2. CASE UpdateImage
    <3>1. podObj # Nil
      BY <2>2 DEF UpdateImage, TypeOK, ProcessOK, PodInHand
    <3> QED
      BY <2>2, <3>1 DEF UpdateImage, Announce, Owned, RestInv, OwnersInv
  <2>3. CASE DeletePod
    BY <2>3 DEF DeletePod, Announce, Owned, RestInv, OwnersInv
  <2> QED
    BY <2>1, <2>2, <2>3 DEF GetPod, IsReady
<1>4. CurrentCopyInv'
  BY <1>1, <1>2, <1>3 DEF RestInv, CurrentCopyInv, Fresh
<1>5. VolumeThere'
  BY <1>1, <1>2 DEF RestInv, VolumeThere
<1>6. CleanedUp'
  BY <1>1, <1>2 DEF RestInv, CleanedUp, ScratchLetGo, Fresh
<1>7. ASSUME ~queued', "pod" \notin news', pc' \in {"Idle", "IsReady", "MarkCatchingUp"}
      PROVE  ~queued /\ NodeAsWanted(cluster)
  <2>1. ~queued /\ pod' = pod /\ "pod" \notin news /\ cache.pod = pod
    BY <1>2, <1>3, <1>7 DEF RestInv, CurrentCopyInv
  <2>2. ~CreatePod /\ ~DeletePod
    BY <1>7 DEF CreatePod, DeletePod, Proceed, Return
  <2>3. CASE GetPod
    BY <1>7, <2>1, <2>3 DEF GetPod, Proceed, Return, Inspect, NodeAsWanted
  <2>4. ~UpdateImage
    <3> SUFFICES ASSUME UpdateImage PROVE FALSE
      OBVIOUS
    <3>1. podObj \in Pods /\ cluster \in RpcObjects
      BY CopyInHand DEF UpdateImage, TypeOK, ProcessOK, PodInHand
    <3>2. [podObj EXCEPT !.image = getPodImage(cluster)] \in Pods
      BY <3>1, WantedTyped DEF Pods
    <3> QED
      BY <1>7, <2>1, <3>2, NewPodTyped DEF UpdateImage, Return
  <2>5. CASE IsReady
    BY <2>1, <2>5 DEF IsReady, RestInv, NodeSeen
  <2> QED
    BY <2>2, <2>3, <2>4, <2>5
<1>8. ~queued' /\ pc' = "MarkCreating" => "pod" \in news'
  <2> SUFFICES ASSUME pc' = "MarkCreating", "pod" \notin news' PROVE FALSE
    OBVIOUS
  <2>1. CreatePod /\ pod = Nil /\ pod' = NewPod(GetWantedPod(cluster))
    BY DEF CreatePod, GetPod, UpdateImage, DeletePod, IsReady, Inspect, Proceed, Return
  <2>2. pod' # Nil
    BY <1>1, <2>1, CopyInHand, WantedTyped, NewPodTyped
  <2> QED
    BY <1>3, <2>1, <2>2
<1>9. NodeSeen'
  BY <1>2, <1>3, <1>7, <1>8 DEF NodeSeen, NodeAsWanted
<1>10. IdleWhenDone'
  <2> SUFFICES ASSUME Fresh', pc' = "Idle"
               PROVE  /\ Restored(rpc') /\ job' = Nil /\ ScratchLetGo'
                      /\ "pvc" \notin news' => pvc' # Nil
                      /\ "pod" \notin news' => NodeAsWanted(rpc)'
    BY DEF IdleWhenDone
  <2>1. Fresh /\ ~queued'
    BY <1>2 DEF Fresh
  <2>2. cluster = rpc
    BY <1>1, <2>1 DEF RestInv, CurrentCopyInv
  <2>3. Restored(rpc) /\ job = Nil /\ ScratchLetGo
    BY <1>1, <2>1, <2>2 DEF RestInv, PositionInv, CleanedUp
  <2>4. "pvc" \notin news => pvc # Nil
    BY <1>1, <2>1 DEF RestInv, VolumeThere, Fresh
  <2>5. "pod" \notin news' => NodeAsWanted(rpc) /\ pod' = pod
    BY <1>3, <1>7, <2>1, <2>2
  <2> QED
    BY <1>2, <2>3, <2>4, <2>5 DEF ScratchLetGo, NodeAsWanted
<1> QED
  BY <1>4, <1>5, <1>6, <1>9, <1>10

\* The first step takes the StarknetRPC from the cache; a failure asks for
\* another Reconcile, except that of the probe, the last step of one.
LEMMA BeginningAndEndKeepRest ==
    ASSUME TypeOK, RestInv, StartReconcile \/ Abort \/ Crash
    PROVE  CurrentCopyInv' /\ VolumeThere' /\ CleanedUp' /\ NodeSeen' /\ IdleWhenDone'
<1> USE DEF objects, owned, PodLabels, PodCalls
<1>1. CASE StartReconcile
  BY <1>1 DEF StartReconcile, RestInv, CurrentCopyInv, VolumeThere, CleanedUp, NodeSeen,
              IdleWhenDone, Fresh
<1>2. CASE Abort /\ pc # "IsReady"
  BY <1>2 DEF Abort, Disturb, Return, RestInv, CurrentCopyInv, VolumeThere, CleanedUp,
              NodeSeen, IdleWhenDone, Fresh
<1>3. CASE Abort /\ pc = "IsReady"
  <2>1. /\ UNCHANGED <<rpc, cache, pvc, scratch, job, pod, news, queued>>
        /\ pc' = "Idle"
    BY <1>3 DEF Abort, Disturb, Return, TypeOK, ProcessOK
  <2> QED
    BY <1>3, <2>1 DEF RestInv, PositionInv, CurrentCopyInv, VolumeThere, CleanedUp,
       NodeSeen, IdleWhenDone, Fresh, ScratchLetGo, NodeAsWanted
<1>4. CASE Crash
  BY <1>4 DEF Crash, Disturb, CurrentCopyInv, VolumeThere, CleanedUp, NodeSeen,
              IdleWhenDone, Fresh
<1> QED
  BY <1>1, <1>2, <1>3, <1>4

\* RestInv is an invariant.
THEOREM RestInvAlways ==
    ASSUME NoForeignPods PROVE Spec => []RestInv
<1>1. Init => RestInv
  <2> SUFFICES ASSUME Init PROVE RestInv
    OBVIOUS
  <2>1. rpc.uid = 1
    BY DEF Init, FreshRpc
  <2> QED
    BY <2>1, NilAssumption
       DEF Init, RestInv, PositionInv, OwnersInv, CurrentCopyInv, VolumeThere, CleanedUp,
           NodeSeen, IdleWhenDone, Fresh, NoOwner, RestoringLabels, CleaningLabels,
           PodLabels, PodCalls
<1>2. TypeOK /\ SkipInv /\ PositionInv' /\ RestInv /\ [Next]_vars => RestInv'
  <2>1. RestInv /\ UNCHANGED vars => RestInv'
    BY DEF vars, objects, owned, process, RestInv, PositionInv, OwnersInv, CurrentCopyInv,
           VolumeThere, CleanedUp, NodeSeen, IdleWhenDone, Fresh, ScratchLetGo,
           NodeAsWanted
  <2>2. ASSUME TypeOK, SkipInv, RestInv, Next
        PROVE  CurrentCopyInv' /\ VolumeThere' /\ CleanedUp' /\ NodeSeen' /\ IdleWhenDone'
    BY <2>2, ReportsKeepRest, ArchiveStepsKeepRest, PodStepsKeepRest,
       BeginningAndEndKeepRest, EnvironmentKeepsRest
       DEF Next, ReconcileStep, ArchiveStep, PodStep, ReportStep
  <2> QED
    BY <2>1, <2>2, OwnersStep DEF RestInv
<1> QED
  BY <1>1, <1>2, TypeCorrect, SkipInvAlways, PositionsAreRight, PTL DEF Spec

\* No wake-up is lost (controller.go:144-154): whenever nothing will call
\* Reconcile again, there is nothing left for it to do.
THEOREM NoWakeUpIsLost ==
    ASSUME NoForeignPods PROVE Spec => []RestsWhenDone
<1>1. RestInv => RestsWhenDone
  BY DEF RestInv, IdleWhenDone, Fresh, AtRest, RestsWhenDone
<1> QED
  BY <1>1, RestInvAlways, PTL

=============================================================================

---------------------------- MODULE SwitchProofs ----------------------------
(***************************************************************************)
(* Proofs of SkipInv, for every value of the constants, and of SwitchInv,  *)
(* and OverInv, for users who keep the StarknetRPC and its main volume,    *)
(* with the safety of the enable switch that follows.                      *)
(***************************************************************************)
EXTENDS ReconcilerProofs, SwitchInvariant

-----------------------------------------------------------------------------
(* Status updates. *)

ReportStep ==
    \/ Initialize \/ ResetRestore \/ MarkSkipped \/ MarkProgressing
    \/ MarkFinished \/ MarkFailed \/ MarkCreating \/ MarkCatchingUp

Skip(conds) ==
    "Restore" \in DOMAIN conds /\ conds["Restore"].reason = "ArchiveRestoreSkipped"

\* What each of the eight status updates writes, and where it goes on.
LEMMA Reports ==
    ASSUME TypeOK, ReportStep
    PROVE  \E conds \in ConditionLists : \E next :
             /\ SetPhases(conds, next)
             /\ pc # "Idle" /\ UNCHANGED <<owned, job, containers, cache>>
             /\ IsStatusConditionTrue(conds, "Restore") =>
                  \/ pc \in {"MarkSkipped", "MarkFinished"}
                  \/ Restored(cluster)
             /\ \/ /\ pc = "Initialize" /\ next = "CreatePvc"
                   /\ ~IsStatusConditionTrue(conds, "Restore")
                \/ /\ pc = "ResetRestore"
                   /\ next = EnterArchiveRestore([cluster EXCEPT !.conditions = conds])
                   /\ ~IsStatusConditionTrue(conds, "Restore")
                \/ /\ pc \in {"MarkProgressing", "MarkFailed", "MarkFinished"}
                   /\ next = "Requeue"
                \/ /\ pc = "MarkSkipped"
                   /\ next \in {"CreatePod", "Requeue"}
                \/ /\ pc \in {"MarkCreating", "MarkCatchingUp"}
                   /\ next \in {"DeletePod", "IsReady", "Done"}
                   /\ IsStatusConditionTrue(conds, "Restore") = Restored(cluster)
             /\ pc \in {"MarkSkipped", "MarkFinished"} =>
                  IsStatusConditionTrue(conds, "Restore")
             /\ Skip(conds) => pc = "MarkSkipped" \/ Skip(cluster.conditions)
<1> DEFINE list == cluster.conditions
           done(conds) == IsStatusConditionTrue(conds, "Restore")
<1>1. list \in ConditionLists /\ pc # "Idle"
  <2>1. pc # "Idle"
    BY DEF ReportStep, Initialize, ResetRestore, MarkSkipped, MarkProgressing,
       MarkFinished,
           MarkFailed, MarkCreating, MarkCatchingUp
  <2> QED
    BY <2>1, CopyInHand
<1>2. UNCHANGED <<owned, job, containers, cache>>
  BY DEF ReportStep, Initialize, ResetRestore, MarkSkipped, MarkProgressing, MarkFinished,
         MarkFailed, MarkCreating, MarkCatchingUp
<1> DEFINE reset == ApplyRestore(list, "Pending")
<1>3. /\ reset \in ConditionLists
      /\ ApplyAvailable(reset, "Pending") \in ConditionLists
      /\ \A s \in AvailableStatuses : ApplyAvailable(list, s) \in ConditionLists
      /\ markRestoreAsSkipped(list) \in ConditionLists
      /\ markRestoreAsProgressing(list) \in ConditionLists
      /\ markArchiveAsFinished(list) \in ConditionLists
      /\ markRestoreAsFailed(list) \in ConditionLists
  BY <1>1, TransitionsTyped DEF RestoreStatuses, AvailableStatuses
<1>4. /\ ~done(reset)
      /\ ~done(ApplyAvailable(reset, "Pending"))
      /\ \A s \in AvailableStatuses : done(ApplyAvailable(list, s)) <=> done(list)
      /\ done(markRestoreAsSkipped(list)) /\ done(markArchiveAsFinished(list))
      /\ ~done(markRestoreAsProgressing(list)) /\ ~done(markRestoreAsFailed(list))
  BY <1>1, <1>3, TransitionsRestore DEF AvailableStatuses
<1>5. /\ ~Skip(reset)
      /\ ~Skip(ApplyAvailable(reset, "Pending"))
      /\ \A s \in AvailableStatuses : Skip(ApplyAvailable(list, s)) => Skip(list)
      /\ ~Skip(markArchiveAsFinished(list))
      /\ ~Skip(markRestoreAsProgressing(list)) /\ ~Skip(markRestoreAsFailed(list))
  BY DEF Skip, SetStatusCondition, RestoreCondition, ApplyRestore, ApplyAvailable,
         markArchiveAsFinished, markRestoreAsFailed, markRestoreAsProgressing
<1> HIDE DEF reset, done
<1>6. CASE Initialize
  <2> DEFINE conds == ApplyAvailable(reset, "Pending")
  <2>1. pc = "Initialize" /\ SetPhases(conds, "CreatePvc")
    BY <1>6 DEF Initialize, reset
  <2> QED
    BY <1>1, <1>2, <1>3, <1>4, <1>5, <2>1 DEF done
<1>7. CASE ResetRestore
  <2>1. /\ pc = "ResetRestore"
        /\ SetPhases(reset, EnterArchiveRestore([cluster EXCEPT !.conditions = reset]))
    BY <1>7 DEF ResetRestore, reset
  <2> QED
    BY <1>1, <1>2, <1>3, <1>4, <1>5, <2>1 DEF done
<1>8. CASE MarkSkipped
  <2> DEFINE conds == markRestoreAsSkipped(list)
             next == Gate([cluster EXCEPT !.conditions = conds])
  <2>1. pc = "MarkSkipped" /\ SetPhases(conds, next) /\ next \in {"CreatePod", "Requeue"}
    BY <1>8 DEF MarkSkipped, Gate
  <2> HIDE DEF next
  <2> QED
    BY <1>1, <1>2, <1>3, <1>4, <2>1 DEF done
<1>9. CASE MarkProgressing \/ MarkFinished \/ MarkFailed
  <2>1. CASE MarkProgressing
    BY <1>1, <1>2, <1>3, <1>4, <1>5, <2>1 DEF MarkProgressing, done
  <2>2. CASE MarkFinished
    BY <1>1, <1>2, <1>3, <1>4, <1>5, <2>2 DEF MarkFinished, done
  <2>3. CASE MarkFailed
    BY <1>1, <1>2, <1>3, <1>4, <1>5, <2>3 DEF MarkFailed, done
  <2> QED
    BY <1>9, <2>1, <2>2, <2>3
<1>10. CASE MarkCreating \/ MarkCatchingUp
  <2>1. PICK s \in AvailableStatuses : \E next \in {"DeletePod", "IsReady", "Done"} :
          /\ pc \in {"MarkCreating", "MarkCatchingUp"}
          /\ SetPhases(ApplyAvailable(list, s), next)
    BY <1>10 DEF MarkCreating, MarkCatchingUp, Inspect, AvailableStatuses
  <2>2. done(ApplyAvailable(list, s)) = Restored(cluster)
    <3>1. done(ApplyAvailable(list, s)) \in BOOLEAN /\ Restored(cluster) \in BOOLEAN
      BY DEF done, Restored, IsStatusConditionTrue
    <3> QED
      BY <1>4, <3>1 DEF done, Restored
  <2> QED
    BY <1>1, <1>2, <1>3, <1>5, <2>1, <2>2 DEF done
<1> QED
  BY <1>6, <1>7, <1>8, <1>9, <1>10 DEF ReportStep

-----------------------------------------------------------------------------
(* Skips. *)

\* A status update works on the StarknetRPC itself or is refused.
LEMMA AcceptedUpdate ==
    ASSUME TypeOK, pc # "Idle",
           NEW conds \in ConditionLists, NEW next,
           SetPhases(conds, next)
    PROVE  \/ Return(TRUE) /\ UNCHANGED rpc
           \/ /\ cluster = rpc /\ rpc # Nil
              /\ rpc' \in RpcObjects /\ rpc' # Nil
              /\ rpc'.uid = rpc.uid /\ rpc'.enable = rpc.enable
              /\ rpc'.conditions = conds
              /\ rpc' = rpc \/ rpc' # cache.rpc
              /\ Proceed(next, rpc', podObj)
<1>1. CASE UpToDate /\ rpc' = Stored(conds) /\ Proceed(next, Stored(conds), podObj)
  <2>1. cluster = rpc /\ rpc # Nil
    BY <1>1 DEF UpToDate
  <2>2. /\ rpc' \in RpcObjects /\ rpc'.uid = rpc.uid /\ rpc'.enable = rpc.enable
        /\ rpc'.conditions = conds /\ (rpc' = rpc \/ rpc' # cache.rpc)
    <3>1. rpc \in RpcObjects
      BY <2>1 DEF TypeOK, ObjectsOK
    <3>2. /\ [rpc EXCEPT !.conditions = conds] \in RpcObjects
          /\ [rpc EXCEPT !.conditions = conds].uid = rpc.uid
          /\ [rpc EXCEPT !.conditions = conds].enable = rpc.enable
          /\ [rpc EXCEPT !.conditions = conds].conditions = conds
      BY <3>1 DEF RpcObjects
    <3> QED
      BY <1>1, <3>1, <3>2, NewRpcTyped DEF Stored
  <2> QED
    BY <1>1, <2>1, <2>2, NilAssumption
<1> QED
  BY <1>1 DEF SetPhases

\* The eight status updates.
LEMMA ReportsKeepSkipInv ==
    ASSUME TypeOK, SkipInv, ReportStep
    PROVE  SkipInv'
<1>1. PICK conds, next :
        /\ conds \in ConditionLists
        /\ SetPhases(conds, next)
        /\ pc # "Idle" /\ UNCHANGED cache
        /\ \/ pc = "ResetRestore"
              /\ next = EnterArchiveRestore([cluster EXCEPT !.conditions = conds])
           \/ next # "MarkSkipped"
  BY Reports
<1>2. CASE Return(TRUE) /\ UNCHANGED rpc
  BY <1>1, <1>2 DEF Return, SkipInv
<1>3. CASE /\ cluster = rpc /\ rpc # Nil
           /\ rpc'.enable = rpc.enable
           /\ Proceed(next, rpc', podObj)
  <2>1. cluster' \in {Nil, rpc'}
    BY <1>3 DEF Proceed, Return
  <2>2. pc' = "MarkSkipped" => ~cluster'.enable
    <3> SUFFICES ASSUME pc' = "MarkSkipped" PROVE ~cluster'.enable
      OBVIOUS
    <3>1. next = "MarkSkipped" /\ cluster' = rpc'
      BY <1>3 DEF Proceed, Return
    <3>2. RestoreDisabled([cluster EXCEPT !.conditions = conds])
      BY <1>1, <3>1 DEF EnterArchiveRestore
    <3>3. cluster \in RpcObjects
      BY <1>1, CopyInHand
    <3> QED
      BY <1>3, <3>1, <3>2, <3>3 DEF RestoreDisabled, RpcObjects
  <2> QED
    BY <1>1, <1>3, <2>1, <2>2 DEF SkipInv
<1> QED
  BY <1>1, <1>2, <1>3, AcceptedUpdate

\* The other steps of Reconcile leave the StarknetRPC alone.
LEMMA OthersKeepSkipInv ==
    ASSUME TypeOK, SkipInv, ReconcileStep, ~ReportStep
    PROVE  SkipInv' /\ UNCHANGED <<rpc, cache>>
<1> USE DEF owned, objects
<1>1. /\ UNCHANGED <<rpc, cache>>
      /\ cluster' \in {cluster, cache.rpc, Nil}
  BY DEF ReportStep, ReconcileStep, ArchiveStep, PodStep, StartReconcile, CreatePvc,
     DeleteJob,
         DeleteScratch, CreateScratch, GetScratch, EnsurePvcReady, CreateJob, GetJob,
         CreatePod, GetPod, UpdateImage, DeletePod, IsReady, Proceed, Return
<1>2. pc' = "MarkSkipped" => CreatePvc
  BY DEF ReportStep, ReconcileStep, ArchiveStep, PodStep, StartReconcile, CreatePvc,
     DeleteJob,
         DeleteScratch, CreateScratch, GetScratch, EnsurePvcReady, CreateJob, GetJob,
         CreatePod, GetPod, UpdateImage, DeletePod, IsReady, Proceed, Return, Gate,
         Inspect
<1>3. pc' = "MarkSkipped" => ~cluster'.enable
  BY <1>2 DEF CreatePvc, Proceed, Return, EnterArchiveRestore, RestoreDisabled
<1> QED
  BY <1>1, <1>3 DEF SkipInv

\* Nobody else touches the Reconcile in progress, but for its end.
LEMMA EverybodyElseKeepsSkipInv ==
    ASSUME TypeOK, SkipInv, Abort \/ Crash \/ EnvironmentStep
    PROVE  SkipInv'
<1> USE DEF owned, objects, containers, process, InProgress
<1>1. CASE EditEnable \/ EditImage \/ DeleteRpc \/ CreateRpc
  <2>1. UNCHANGED <<cache, pc, cluster>>
    BY <1>1 DEF EditEnable, EditImage, DeleteRpc, CreateRpc, Edit
  <2> QED
    BY <2>1 DEF SkipInv
<1>2. CASE Watch \/ Abort \/ Crash
  <2>1. /\ UNCHANGED rpc
        /\ cache'.rpc \in {cache.rpc, rpc}
        /\ UNCHANGED <<pc, cluster>> \/ (pc' = "Idle" /\ cluster' = Nil)
    <3>1. CASE Watch
      BY <3>1 DEF Watch, SyncRpc, SyncPvc, SyncScratch, SyncJob, SyncPod, SyncOwned,
         CatchUp,
                  TypeOK, Caches
    <3>2. CASE Abort \/ Crash
      BY <3>2 DEF Abort, Crash, Disturb, Return
    <3> QED
      BY <1>2, <3>1, <3>2
  <2> QED
    BY <2>1 DEF SkipInv
<1>3. CASE \/ NodeStep \/ CollectGarbage
           \/ DeletePvc \/ DeletePodByHand \/ CreateForeignPod
  <2>1. UNCHANGED <<rpc, cache, pc, cluster>>
    BY <1>3 DEF NodeStep, CollectGarbage, BindPvc, BindScratch, RemovePvc, RemoveScratch,
         SchedulePod, StartWorker, WorkerOpens, WorkerSucceeds, WorkerFails, KillOrphan,
         KubeletStartsPod, PodBeginsServing, PodBreaks, ContainerRestarts, PodRemoved,
         CollectPvc,
         CollectScratch, CollectPod, DeletePvc, DeletePodByHand, CreateForeignPod, Edit
  <2> QED
    BY <2>1 DEF SkipInv
<1> QED
  BY <1>1, <1>2, <1>3 DEF EnvironmentStep, UserStep

\* A Reconcile about to record a skip works on a copy that asks for it, for
\* whatever users do (archive_restore.go:54-60).
THEOREM SkipInvAlways == Spec => []SkipInv
<1>1. Init => SkipInv
  BY DEF Init, SkipInv
<1>2. TypeOK /\ SkipInv /\ [Next]_vars => SkipInv'
  <2>1. SkipInv /\ UNCHANGED vars => SkipInv'
    BY DEF vars, objects, process, SkipInv
  <2> QED
    BY <2>1, ReportsKeepSkipInv, OthersKeepSkipInv, EverybodyElseKeepsSkipInv
       DEF Next
<1> QED
  BY <1>1, <1>2, TypeCorrect, PTL DEF Spec

\* A skip is recorded only while the restore is disabled
\* (archive_restore.go:54-60), also when the user flips the switch, or
\* deletes the StarknetRPC and makes it again, during the Reconcile.
THEOREM SkipsAreAskedFor == Spec => SkippedOnlyWhileDisabled
<1>1. TypeOK /\ SkipInv /\ [Next]_vars
        => [Reason("Restore", "ArchiveRestoreSkipped")' /\ rpc # Nil
               => Reason("Restore", "ArchiveRestoreSkipped") \/ ~rpc.enable]_rpc
  <2> SUFFICES ASSUME TypeOK, SkipInv, Next, rpc' # rpc, rpc # Nil, rpc' # Nil,
                      Skip(rpc'.conditions)
               PROVE  Skip(rpc.conditions) \/ ~rpc.enable
    BY DEF vars, objects, Reason, Skip
  <2> USE DEF owned, objects, containers, process, InProgress
  <2>1. CASE ReportStep
    <3>1. PICK conds, next :
            /\ conds \in ConditionLists /\ SetPhases(conds, next) /\ pc # "Idle"
            /\ Skip(conds) => pc = "MarkSkipped" \/ Skip(cluster.conditions)
      BY <2>1, Reports
    <3>2. cluster = rpc /\ rpc'.conditions = conds
      BY <3>1, AcceptedUpdate
    <3> QED
      BY <3>1, <3>2 DEF SkipInv
  <2>2. CASE EditEnable \/ EditImage
    <3>1. rpc'.conditions = rpc.conditions
      BY <2>2, EditsMakeNewVersions
    <3> QED
      BY <3>1
  <2>3. ~ReconcileStep \/ ReportStep
    BY OthersKeepSkipInv
  <2>4. ~DeleteRpc /\ ~CreateRpc /\ ~Abort /\ ~Crash /\ ~Watch
    BY DEF DeleteRpc, CreateRpc, Abort, Crash, Disturb, Watch, SyncRpc, SyncPvc,
       SyncScratch,
           SyncJob, SyncPod, SyncOwned, CatchUp
  <2>5. ~NodeStep /\ ~CollectGarbage
        /\ ~(DeletePvc \/ DeletePodByHand \/ CreateForeignPod)
    BY DEF NodeStep, CollectGarbage, BindPvc, BindScratch, RemovePvc, RemoveScratch,
         SchedulePod, StartWorker, WorkerOpens, WorkerSucceeds, WorkerFails, KillOrphan,
         KubeletStartsPod, PodBeginsServing, PodBreaks, ContainerRestarts, PodRemoved,
         CollectPvc,
         CollectScratch, CollectPod, DeletePvc, DeletePodByHand, CreateForeignPod
  <2> QED
    BY <2>1, <2>2, <2>3, <2>4, <2>5 DEF Next, EnvironmentStep, UserStep
<1> QED
  BY <1>1, TypeCorrect, SkipInvAlways, PTL DEF Spec, SkippedOnlyWhileDisabled

-----------------------------------------------------------------------------
(* The switch. *)

\* The eight status updates: none takes a recorded restore back.
LEMMA ReportsKeepSwitchInv ==
    ASSUME TypeOK, SwitchInv, ReportStep
    PROVE  SwitchInv' /\ (Restored(rpc) => Restored(rpc'))
<1> USE DEF owned, containers, RestoringLabels, CleaningLabels, PodLabels, PodCalls
<1> DEFINE done(conds) == IsStatusConditionTrue(conds, "Restore")
<1>1. SkipInv /\ SkipInv'
  BY ReportsKeepSkipInv DEF SwitchInv
<1>2. PICK conds, next :
        /\ conds \in ConditionLists /\ SetPhases(conds, next)
        /\ pc # "Idle" /\ UNCHANGED <<owned, job, containers, cache>>
        /\ \/ pc = "Initialize" /\ next = "CreatePvc" /\ ~done(conds)
           \/ /\ pc = "ResetRestore" /\ ~done(conds)
              /\ next = EnterArchiveRestore([cluster EXCEPT !.conditions = conds])
           \/ pc \in {"MarkProgressing", "MarkFailed", "MarkFinished"} /\ next = "Requeue"
           \/ pc = "MarkSkipped" /\ next \in {"CreatePod", "Requeue"}
           \/ /\ pc \in {"MarkCreating", "MarkCatchingUp"}
              /\ next \in {"DeletePod", "IsReady", "Done"}
              /\ done(conds) = Restored(cluster)
        /\ pc \in {"MarkSkipped", "MarkFinished"} => done(conds)
  BY Reports
<1>3. cluster # Nil /\ cluster \in RpcObjects
  BY <1>2, CopyInHand, NilAssumption
<1>4. CASE Return(TRUE) /\ UNCHANGED rpc
  BY <1>1, <1>2, <1>4 DEF Return, SwitchInv, ModestCopies, ModestCopy, VolumeInv,
                          SwitchLabels, OrphanInv
<1>5. CASE /\ cluster = rpc
           /\ rpc' # Nil /\ rpc'.uid = rpc.uid /\ rpc'.conditions = conds
           /\ Proceed(next, rpc', podObj)
  <2>1. cluster' \in {Nil, rpc'} /\ (pc' # "Idle" => pc' = next /\ cluster' = rpc')
    BY <1>5 DEF Proceed, Return
  <2>2. Restored(rpc') <=> done(conds)
    BY <1>5 DEF Restored
  <2> HIDE DEF done
  <2>3. Restored(rpc) => Restored(rpc')
    <3>1. CASE pc = "Initialize"
      BY <1>5, <3>1 DEF SwitchInv, SwitchLabels, Restored, IsStatusConditionTrue
    <3>2. CASE pc \in {"ResetRestore", "MarkProgressing", "MarkFailed"}
      BY <1>5, <3>2 DEF SwitchInv, SwitchLabels
    <3> QED
      BY <1>2, <1>5, <2>2, <3>1, <3>2
  <2>4. next \in {"CreateScratch", "DeleteJob", "MarkSkipped"} => pc = "ResetRestore"
    BY <1>2
  <2>5. pc = "ResetRestore" => next \in {"CreateScratch", "MarkSkipped"}
    <3> SUFFICES ASSUME pc = "ResetRestore" PROVE next \in {"CreateScratch", "MarkSkipped"}
      OBVIOUS
    <3>1. ~Restored([cluster EXCEPT !.conditions = conds])
      BY <1>2, <1>3 DEF Restored, RpcObjects, done
    <3> QED
      BY <1>2, <3>1 DEF EnterArchiveRestore
  <2>6. ModestCopies'
    BY <1>2, <1>5, <2>1, <2>3 DEF SwitchInv, ModestCopies, ModestCopy
  <2>7. VolumeInv'
    BY <1>2, <1>5, <2>1, <2>2, <2>3 DEF SwitchInv, VolumeInv
  <2>8. SwitchLabels'
    BY <1>2, <1>5, <2>1, <2>2, <2>4, <2>5 DEF SwitchLabels
  <2>9. OrphanInv'
    BY <1>2, <1>3, <1>5, <2>1, <2>3 DEF SwitchInv, OrphanInv
  <2> QED
    BY <1>1, <2>3, <2>6, <2>7, <2>8, <2>9 DEF SwitchInv
<1> QED
  BY <1>1, <1>2, <1>4, <1>5, AcceptedUpdate

\* The other steps of Reconcile: a job is made only by a copy that does not
\* know of the restore, and deleted by one that does.
LEMMA OthersKeepSwitchInv ==
    ASSUME TypeOK, SwitchInv, ReconcileStep, ~ReportStep
    PROVE  SwitchInv'
<1> USE DEF owned, objects, containers, RestoringLabels, CleaningLabels, PodLabels, PodCalls
<1>1. SkipInv' /\ UNCHANGED <<rpc, cache>>
  BY OthersKeepSkipInv DEF SwitchInv
<1>2. CASE StartReconcile
  BY <1>1, <1>2 DEF StartReconcile, SwitchInv, ModestCopies, ModestCopy, VolumeInv,
                    SwitchLabels, OrphanInv
<1>3. ASSUME ~StartReconcile PROVE cluster # Nil /\ cluster' \in {cluster, Nil}
  BY <1>3, CopyInHand, NilAssumption
     DEF ReportStep, ReconcileStep, ArchiveStep, PodStep, CreatePvc, DeleteJob,
         DeleteScratch, CreateScratch, GetScratch, EnsurePvcReady, CreateJob, GetJob,
         CreatePod, GetPod, UpdateImage, DeletePod, IsReady, Proceed, Return
<1>4. CASE CreatePvc
  <2>1. cluster # Nil /\ cluster' \in {cluster, Nil}
    BY <1>3, <1>4 DEF CreatePvc, StartReconcile
  <2>2. GetWantedPvc(cluster) # Nil
    BY <1>4, CopyInHand, WantedTyped, NilAssumption DEF CreatePvc
  <2>3. VolumeInv'
    BY <1>1, <1>4, <2>1, <2>2 DEF CreatePvc, GetWantedPvc, Proceed, Return, SwitchInv,
                                  VolumeInv, ModestCopies, ModestCopy
  <2>4. SwitchLabels'
    BY <1>1, <1>4 DEF CreatePvc, Proceed, Return, EnterArchiveRestore, SwitchInv,
                      VolumeInv, SwitchLabels
  <2> QED
    BY <1>1, <1>4, <2>1, <2>3, <2>4
       DEF CreatePvc, SwitchInv, ModestCopies, ModestCopy, OrphanInv
<1>5. CASE DeleteJob \/ DeleteScratch
  <2>1. cluster # Nil /\ cluster' \in {cluster, Nil}
    BY <1>3, <1>5 DEF DeleteJob, DeleteScratch, StartReconcile
  <2>2. VolumeInv' /\ SwitchLabels'
    BY <1>1, <1>5 DEF DeleteJob, DeleteScratch, Proceed, Return, Gate, SwitchInv,
       VolumeInv,
                      SwitchLabels
  <2>3. OrphanInv'
    BY <1>1, <1>5, <2>1 DEF DeleteJob, DeleteScratch, SwitchInv, SwitchLabels, OrphanInv
  <2> QED
    BY <1>1, <2>1, <2>2, <2>3 DEF SwitchInv, ModestCopies, ModestCopy
<1>6. CASE CreateJob
  <2>1. cluster # Nil /\ cluster' \in {cluster, Nil}
    BY <1>3, <1>6 DEF CreateJob, StartReconcile
  <2>2. ~orphan
    BY <1>6, <2>1 DEF CreateJob, SwitchInv, SwitchLabels, OrphanInv
  <2>3. VolumeInv' /\ SwitchLabels'
    BY <1>1, <1>6 DEF CreateJob, Proceed, Return, SwitchInv, VolumeInv, SwitchLabels
  <2> QED
    BY <1>1, <1>6, <2>1, <2>2, <2>3
       DEF CreateJob, SwitchInv, ModestCopies, ModestCopy, OrphanInv
<1>7. CASE CreateScratch \/ GetScratch \/ EnsurePvcReady \/ GetJob
  <2>1. cluster # Nil /\ cluster' \in {cluster, Nil}
    BY <1>3, <1>7 DEF CreateScratch, GetScratch, EnsurePvcReady, GetJob, StartReconcile
  <2>2. UNCHANGED <<pvc, job, orphan>>
    BY <1>7 DEF CreateScratch, GetScratch, EnsurePvcReady, GetJob
  <2>3. VolumeInv' /\ SwitchLabels'
    BY <1>1, <1>7, <2>2 DEF CreateScratch, GetScratch, EnsurePvcReady, GetJob, Proceed,
                            Return, SwitchInv, VolumeInv, SwitchLabels
  <2> QED
    BY <1>1, <2>1, <2>2, <2>3 DEF SwitchInv, ModestCopies, ModestCopy, OrphanInv
<1>8. CASE CreatePod \/ GetPod \/ UpdateImage \/ DeletePod \/ IsReady
  <2>1. cluster # Nil /\ cluster' \in {cluster, Nil}
    BY <1>3, <1>8 DEF CreatePod, GetPod, UpdateImage, DeletePod, IsReady, StartReconcile
  <2>2. UNCHANGED <<pvc, job, orphan>>
    BY <1>8 DEF CreatePod, GetPod, UpdateImage, DeletePod, IsReady
  <2>3. VolumeInv' /\ SwitchLabels'
    BY <1>1, <1>8, <2>2 DEF CreatePod, GetPod, UpdateImage, DeletePod, IsReady, Inspect,
                            Proceed, Return, SwitchInv, VolumeInv, SwitchLabels
  <2> QED
    BY <1>1, <2>1, <2>2, <2>3 DEF SwitchInv, ModestCopies, ModestCopy, OrphanInv
<1> QED
  BY <1>2, <1>4, <1>5, <1>6, <1>7, <1>8 DEF ReportStep, ReconcileStep, ArchiveStep,
     PodStep

\* Everybody else, as long as the StarknetRPC and its volume are kept.
LEMMA EverybodyElseKeepsSwitchInv ==
    ASSUME VolumeKept, TypeOK, SwitchInv, Abort \/ Crash \/ EnvironmentStep
    PROVE  SwitchInv'
<1> USE DEF owned, objects, containers, process, InProgress
<1>1. SkipInv'
  BY EverybodyElseKeepsSkipInv DEF SwitchInv
<1>2. CASE EditEnable \/ EditImage
  <2>1. /\ UNCHANGED <<cache, pc, cluster, pvc, job, orphan>>
        /\ rpc' # Nil /\ rpc'.uid = rpc.uid /\ rpc'.conditions = rpc.conditions
    BY <1>2, EditsMakeNewVersions DEF EditEnable, EditImage, Edit
  <2> QED
    BY <1>1, <2>1 DEF SwitchInv, ModestCopies, ModestCopy, VolumeInv, SwitchLabels,
                      OrphanInv, Restored
<1>3. CASE Watch \/ Abort \/ Crash
  <2>1. /\ UNCHANGED <<rpc, pvc, job, orphan>>
        /\ cache'.rpc \in {cache.rpc, rpc}
        /\ UNCHANGED <<pc, cluster>> \/ (pc' = "Idle" /\ cluster' = Nil)
    <3>1. CASE Watch
      BY <3>1 DEF Watch, SyncRpc, SyncPvc, SyncScratch, SyncJob, SyncPod, SyncOwned,
         CatchUp,
                  TypeOK, Caches
    <3>2. CASE Abort \/ Crash
      BY <3>2 DEF Abort, Crash, Disturb, Return
    <3> QED
      BY <1>3, <3>1, <3>2
  <2>2. cache.rpc # Nil /\ Restored(cache.rpc) => cache'.rpc # Nil /\ Restored(cache'.rpc)
    BY <2>1 DEF SwitchInv, ModestCopies, ModestCopy
  <2>3. ModestCopies' /\ VolumeInv' /\ SwitchLabels' /\ OrphanInv'
    BY <2>1, <2>2 DEF SwitchInv, ModestCopies, ModestCopy, VolumeInv, SwitchLabels,
                      OrphanInv, RestoringLabels, CleaningLabels
  <2> QED
    BY <1>1, <2>3 DEF SwitchInv
<1>4. CASE NodeStep \/ CollectGarbage \/ DeletePodByHand \/ CreateForeignPod
  <2>1. UNCHANGED <<rpc, cache, pc, cluster>>
    BY <1>4 DEF NodeStep, CollectGarbage, BindPvc, BindScratch, RemovePvc, RemoveScratch,
         SchedulePod, StartWorker, WorkerOpens, WorkerSucceeds, WorkerFails, KillOrphan,
         KubeletStartsPod, PodBeginsServing, PodBreaks, ContainerRestarts, PodRemoved,
         CollectPvc,
         CollectScratch, CollectPod, DeletePodByHand, CreateForeignPod, Edit
  <2>2. /\ orphan' => orphan
        /\ job = Nil => job' = Nil
    <3>1. CASE StartWorker \/ WorkerSucceeds \/ WorkerFails
      BY <3>1 DEF StartWorker, WorkerSucceeds, WorkerFails, JobPending, JobActive
    <3>2. CASE ~(StartWorker \/ WorkerSucceeds \/ WorkerFails)
      <4>1. job' = job /\ (orphan' = orphan \/ ~orphan')
        <5>1. CASE WorkerOpens \/ KillOrphan \/ PodBreaks
          BY <5>1 DEF WorkerOpens, KillOrphan, PodBreaks
        <5>2. CASE ~(WorkerOpens \/ KillOrphan \/ PodBreaks)
          BY <1>4, <3>2, <5>2
             DEF NodeStep, CollectGarbage, BindPvc, BindScratch, RemovePvc, RemoveScratch,
               SchedulePod, KubeletStartsPod, PodBeginsServing, ContainerRestarts,
               PodRemoved, CollectPvc, CollectScratch, CollectPod, DeletePodByHand,
               CreateForeignPod, Edit
        <5> QED
          BY <5>1, <5>2
      <4> QED
        BY <4>1
    <3> QED
      BY <3>1, <3>2
  <2>3. pvc' = pvc \/ (pvc # Nil /\ pvc' = [pvc EXCEPT !.bound = TRUE])
    BY <1>4 DEF NodeStep, CollectGarbage, BindPvc, BindScratch, RemovePvc, RemoveScratch,
         SchedulePod, StartWorker, WorkerOpens, WorkerSucceeds, WorkerFails, KillOrphan,
         KubeletStartsPod, PodBeginsServing, PodBreaks, ContainerRestarts, PodRemoved,
         CollectPvc,
         CollectScratch, CollectPod, DeletePodByHand, CreateForeignPod, Edit,
         Provisionable, Abandoned, Owned, SwitchInv, ModestCopies, VolumeInv
  <2>4. VolumeInv'
    <3>1. CASE pvc' = pvc
      BY <2>1, <3>1 DEF SwitchInv, VolumeInv
    <3>2. CASE pvc # Nil /\ pvc' = [pvc EXCEPT !.bound = TRUE]
      <4>1. pvc' \in Claims /\ pvc'.owner = pvc.owner /\ pvc'.terminating = pvc.terminating
        BY <3>2 DEF TypeOK, ObjectsOK, Claims
      <4> QED
        BY <2>1, <3>2, <4>1, NilAssumption DEF SwitchInv, VolumeInv
    <3> QED
      BY <2>3, <3>1, <3>2
  <2> QED
    BY <1>1, <2>1, <2>2, <2>4
       DEF SwitchInv, ModestCopies, ModestCopy, SwitchLabels, OrphanInv
<1>5. ~DeletePvc /\ ~DeleteRpc /\ ~CreateRpc
  BY DEF VolumeKept, DeletePvc, DeleteRpc, CreateRpc, Edit
<1> QED
  BY <1>2, <1>3, <1>4, <1>5 DEF EnvironmentStep, UserStep

\* The invariant of a switch that moves (controller.go:72-111,
\* archive_restore.go:29-61).
THEOREM SwitchInvAlways ==
    ASSUME VolumeKept PROVE Spec => []SwitchInv
<1>1. Init => SwitchInv
  <2> SUFFICES ASSUME Init PROVE SwitchInv
    OBVIOUS
  <2>1. rpc # Nil /\ ~Restored(rpc)
    <3>1. rpc \in RpcObjects
      BY NoConditionsTyped, ConstantsAssumption DEF Init, FreshRpc, RpcObjects, Versions
    <3>2. rpc.conditions = NoConditions
      BY DEF Init, FreshRpc
    <3> QED
      BY <3>1, <3>2, NilAssumption DEF Restored, IsStatusConditionTrue, NoConditions
  <2> QED
    BY <2>1 DEF Init, SwitchInv, SkipInv, ModestCopies, ModestCopy, VolumeInv,
                SwitchLabels, OrphanInv, RestoringLabels, CleaningLabels
<1>2. TypeOK /\ SwitchInv /\ [Next]_vars => SwitchInv'
  <2>1. SwitchInv /\ UNCHANGED vars => SwitchInv'
    BY DEF vars, objects, owned, containers, process, SwitchInv, SkipInv, ModestCopies,
           ModestCopy, VolumeInv, SwitchLabels, OrphanInv
  <2> QED
    BY <2>1, ReportsKeepSwitchInv, OthersKeepSwitchInv,
       EverybodyElseKeepsSwitchInv DEF Next
<1> QED
  BY <1>1, <1>2, TypeCorrect, PTL DEF Spec

\* Two workers never extract into the volume at the same time, however the
\* user moves the switch: a job deleted while it runs has no successor
\* (archive_restore.go:29-61).
THEOREM OneWorker ==
    ASSUME VolumeKept PROVE Spec => []OneWorkerAtATime
<1>1. SwitchInv => OneWorkerAtATime
  BY DEF SwitchInv, OrphanInv, OneWorkerAtATime
<1> QED
  BY <1>1, SwitchInvAlways, PTL

\* A finished or skipped restore is not taken back, with a switch that moves
\* as well: a status update made from a stale copy is refused, and one made
\* from the latest version keeps a condition that is true
\* (controller.go:72-83, pvc.go:36, archive_restore.go:56).
THEOREM RestoreIsFinal ==
    ASSUME VolumeKept PROVE Spec => RestoreNeverUndone
<1>1. VolumeKept /\ TypeOK /\ SwitchInv /\ [Next]_vars
        => [rpc # Nil /\ rpc' # Nil /\ Restored(rpc) => Restored(rpc')]_rpc
  <2> SUFFICES ASSUME VolumeKept, TypeOK, SwitchInv, Next, rpc' # rpc
               PROVE  Restored(rpc) => Restored(rpc')
    BY DEF vars, objects
  <2> USE DEF owned, objects, containers, process, InProgress
  <2>1. CASE ReportStep
    BY <2>1, ReportsKeepSwitchInv
  <2>2. CASE EditEnable \/ EditImage
    <3>1. rpc'.conditions = rpc.conditions
      BY <2>2, EditsMakeNewVersions
    <3> QED
      BY <3>1 DEF Restored
  <2>3. ~ReconcileStep \/ ReportStep
    BY OthersKeepSkipInv DEF SwitchInv
  <2>4. ~DeleteRpc /\ ~CreateRpc /\ ~DeletePvc /\ ~Abort /\ ~Crash /\ ~Watch
    BY DEF VolumeKept, DeleteRpc, CreateRpc, DeletePvc, Edit, Abort, Crash, Disturb,
       Watch,
           SyncRpc, SyncPvc, SyncScratch, SyncJob, SyncPod, SyncOwned, CatchUp
  <2>5. ~NodeStep /\ ~CollectGarbage /\ ~(DeletePodByHand \/ CreateForeignPod)
    BY DEF NodeStep, CollectGarbage, BindPvc, BindScratch, RemovePvc, RemoveScratch,
         SchedulePod, StartWorker, WorkerOpens, WorkerSucceeds, WorkerFails, KillOrphan,
         KubeletStartsPod, PodBeginsServing, PodBreaks, ContainerRestarts, PodRemoved,
         CollectPvc,
         CollectScratch, CollectPod, DeletePodByHand, CreateForeignPod
  <2> QED
    BY <2>1, <2>2, <2>3, <2>4, <2>5 DEF Next, EnvironmentStep, UserStep
<1> QED
  BY <1>1, TypeCorrect, SwitchInvAlways, PTL DEF Spec, RestoreNeverUndone

-----------------------------------------------------------------------------
(* When a restore is over. *)

\* Two reports are made at one place each.
LEMMA ReportedReasons ==
    ASSUME TypeOK, SkipInv, ReportStep
    PROVE  /\ Reason("Restore", "ArchiveJobFinished")' =>
                pc = "MarkFinished" \/ Reason("Restore", "ArchiveJobFinished")
           /\ \A r \in {"Creating", "CatchingUp"} :
                Reason("Available", r)' =>
                    pc \in {"MarkCreating", "MarkCatchingUp"} \/ Reason("Available", r)
<1> DEFINE list == cluster.conditions
           Says(conds, type, r) == type \in DOMAIN conds /\ conds[type].reason = r
<1>1. PICK conds, next :
        /\ conds \in ConditionLists
        /\ SetPhases(conds, next) /\ pc # "Idle"
        /\ Says(conds, "Restore", "ArchiveJobFinished") =>
             pc = "MarkFinished" \/ Says(list, "Restore", "ArchiveJobFinished")
        /\ \A r \in {"Creating", "CatchingUp"} :
             Says(conds, "Available", r) =>
                 pc \in {"MarkCreating", "MarkCatchingUp"} \/ Says(list, "Available", r)
  <2>1. pc # "Idle"
    BY DEF ReportStep, Initialize, ResetRestore, MarkSkipped, MarkProgressing,
       MarkFinished,
           MarkFailed, MarkCreating, MarkCatchingUp
  <2>2. list \in ConditionLists
    BY <2>1, CopyInHand
  <2>3. /\ ApplyRestore(list, "Pending") \in ConditionLists
        /\ ApplyAvailable(ApplyRestore(list, "Pending"), "Pending") \in ConditionLists
        /\ \A s \in AvailableStatuses : ApplyAvailable(list, s) \in ConditionLists
        /\ markRestoreAsSkipped(list) \in ConditionLists
        /\ markRestoreAsProgressing(list) \in ConditionLists
        /\ markArchiveAsFinished(list) \in ConditionLists
        /\ markRestoreAsFailed(list) \in ConditionLists
    BY <2>2, TransitionsTyped DEF RestoreStatuses, AvailableStatuses
  <2>4. CASE Initialize
    BY <2>1, <2>3, <2>4 DEF Initialize, SetStatusCondition, ApplyRestore, ApplyAvailable,
                            RestoreCondition, AvailableCondition
  <2>5. CASE ResetRestore
    BY <2>1, <2>3, <2>5 DEF ResetRestore, SetStatusCondition, ApplyRestore,
       RestoreCondition
  <2>6. CASE MarkSkipped
    BY <2>1, <2>3, <2>6 DEF MarkSkipped, SetStatusCondition, markRestoreAsSkipped
  <2>7. CASE MarkProgressing
    BY <2>1, <2>3, <2>7 DEF MarkProgressing, SetStatusCondition, markRestoreAsProgressing
  <2>8. CASE MarkFinished
    BY <2>1, <2>3, <2>8 DEF MarkFinished, SetStatusCondition, markArchiveAsFinished
  <2>9. CASE MarkFailed
    BY <2>1, <2>3, <2>9 DEF MarkFailed, SetStatusCondition, markRestoreAsFailed
  <2>10. CASE MarkCreating \/ MarkCatchingUp
    <3>1. PICK s \in AvailableStatuses : \E next :
            /\ pc \in {"MarkCreating", "MarkCatchingUp"}
            /\ SetPhases(ApplyAvailable(list, s), next)
      BY <2>10 DEF MarkCreating, MarkCatchingUp, AvailableStatuses
    <3>2. Says(ApplyAvailable(list, s), "Restore", "ArchiveJobFinished")
            => Says(list, "Restore", "ArchiveJobFinished")
      BY DEF ApplyAvailable, SetStatusCondition
    <3> QED
      BY <2>1, <2>3, <3>1, <3>2
  <2> QED
    BY <2>4, <2>5, <2>6, <2>7, <2>8, <2>9, <2>10 DEF ReportStep
<1>2. CASE UNCHANGED rpc
  BY <1>2 DEF Reason
<1>3. CASE cluster = rpc /\ rpc # Nil /\ rpc' # Nil /\ rpc'.conditions = conds
  BY <1>1, <1>3 DEF Reason
<1> QED
  BY <1>1, <1>2, <1>3, AcceptedUpdate

\* The eight status updates: a skip is recorded by a Reconcile whose copy
\* disables the restore, and so does the cached one.
LEMMA ReportsKeepOverInv ==
    ASSUME TypeOK, SwitchInv, OverInv, ReportStep
    PROVE  OverInv'
<1> USE DEF owned, containers, RestoringLabels, PodLabels, PodCalls
<1> DEFINE done(conds) == IsStatusConditionTrue(conds, "Restore")
<1>1. SkipInv
  BY DEF SwitchInv
<1>2. PICK conds, next :
        /\ conds \in ConditionLists /\ SetPhases(conds, next)
        /\ pc # "Idle" /\ UNCHANGED <<owned, job, containers, cache>>
        /\ \/ pc = "Initialize" /\ next = "CreatePvc"
           \/ /\ pc = "ResetRestore" /\ ~done(conds)
              /\ next = EnterArchiveRestore([cluster EXCEPT !.conditions = conds])
           \/ pc \in {"MarkProgressing", "MarkFailed", "MarkFinished"} /\ next = "Requeue"
           \/ pc = "MarkSkipped" /\ next \in {"CreatePod", "Requeue"}
           \/ /\ pc \in {"MarkCreating", "MarkCatchingUp"}
              /\ next \in {"DeletePod", "IsReady", "Done"}
              /\ done(conds) = Restored(cluster)
        /\ pc \in {"MarkSkipped", "MarkFinished"} => done(conds)
  BY Reports
<1>3. cluster # Nil /\ cluster \in RpcObjects
  BY <1>2, CopyInHand, NilAssumption
<1>4. CASE Return(TRUE) /\ UNCHANGED rpc
  BY <1>2, <1>4 DEF Return, SwitchInv, ModestCopies, OverInv, CacheKeepsUp, PositionTells,
                    OverWhenUsed, RestoreOver,
                    KnowsItIsOver, Owned, SuccessInv, SnapshotOrSkipped,
                    FinishedMeansSnapshot, AvailableAfterRestore, Reason
<1>5. CASE /\ cluster = rpc
           /\ rpc' # Nil /\ rpc'.enable = rpc.enable /\ rpc'.conditions = conds
           /\ Proceed(next, rpc', podObj)
  <2>1. cluster' \in {Nil, rpc'} /\ (pc' # "Idle" => pc' = next /\ cluster' = rpc')
    BY <1>5 DEF Proceed, Return
  <2>2. Restored(rpc') <=> done(conds)
    BY <1>5 DEF Restored
  <2>3. cache.rpc # Nil /\ cache.rpc.enable = rpc.enable
    BY <1>3, <1>5 DEF OverInv, CacheKeepsUp
  <2>4. Restored(rpc) => Restored(rpc')
    BY ReportsKeepSwitchInv
  <2>5. ASSUME pc = "ResetRestore" PROVE PositionTells'
    <3>1. EnterArchiveRestore([cluster EXCEPT !.conditions = conds])
            = IF cluster.enable THEN "CreateScratch" ELSE "MarkSkipped"
      BY <1>2, <1>3, <2>5 DEF EnterArchiveRestore, Restored, RestoreDisabled, RpcObjects
    <3> QED
      BY <1>2, <1>5, <2>1, <2>2, <2>5, <3>1 DEF PositionTells
  <2> HIDE DEF done
  <2>6. PositionTells'
    <3>1. CASE pc \in {"MarkCreating", "MarkCatchingUp"}
      <4>1. Restored(cluster)
        BY <3>1 DEF OverInv, PositionTells
      <4> QED
        BY <1>2, <2>1, <2>2, <3>1, <4>1 DEF PositionTells
    <3> QED
      BY <1>2, <2>1, <2>2, <2>5, <3>1 DEF PositionTells
  <2>7. pc' \in PodLabels => pc = "MarkSkipped" \/ RestoreOver
    <3>1. pc = "ResetRestore" => pc' \notin PodLabels
      BY <1>2, <2>1 DEF EnterArchiveRestore
    <3> QED
      BY <1>2, <2>1, <3>1 DEF OverInv, OverWhenUsed
  <2>8. OverWhenUsed'
    <3>1. ASSUME RestoreOver PROVE RestoreOver'
      BY <1>2, <2>1, <2>4, <3>1 DEF RestoreOver, KnowsItIsOver
    <3>2. ASSUME pc = "MarkSkipped" PROVE RestoreOver'
      <4>1. ~cache.rpc.enable /\ Restored(rpc')
        BY <1>1, <1>2, <1>5, <2>2, <2>3, <3>2 DEF SkipInv
      <4> QED
        BY <1>2, <2>1, <4>1 DEF RestoreOver, KnowsItIsOver
    <3> QED
      BY <1>2, <2>7, <3>1, <3>2 DEF OverInv, OverWhenUsed, Owned
  <2>9. CacheKeepsUp'
    BY <1>2, <1>5, <2>1, <2>3 DEF CacheKeepsUp
  <2>10. SuccessInv'
    <3>1. pc' # "MarkFinished"
      BY <1>2, <2>1 DEF EnterArchiveRestore
    <3> QED
      BY <1>2, <2>4, <3>1 DEF OverInv, SuccessInv, SnapshotOrSkipped
  <2>11. FinishedMeansSnapshot' /\ AvailableAfterRestore'
    <3>1. pc \in {"MarkCreating", "MarkCatchingUp"} => Restored(rpc)
      BY <1>5 DEF OverInv, PositionTells
    <3>2. pc = "MarkFinished" => data = "snapshot"
      BY <1>5 DEF SwitchInv, SwitchLabels, OverInv, SuccessInv, SnapshotOrSkipped
    <3> QED
      BY <1>1, <1>2, <2>4, <3>1, <3>2, ReportedReasons
         DEF OverInv, FinishedMeansSnapshot, AvailableAfterRestore
  <2> QED
    BY <2>6, <2>8, <2>9, <2>10, <2>11 DEF OverInv
<1> QED
  BY <1>1, <1>2, <1>4, <1>5, AcceptedUpdate

\* The other steps of Reconcile: a job goes, and the first pod comes, by the
\* hand of one who knows that the restore is over.
LEMMA OthersKeepOverInv ==
    ASSUME TypeOK, SwitchInv, OverInv, ReconcileStep, ~ReportStep
    PROVE  OverInv'
<1> USE DEF owned, objects, containers, RestoringLabels, CleaningLabels, PodLabels, PodCalls
<1>1. UNCHANGED <<rpc, cache>>
  BY OthersKeepSkipInv DEF SwitchInv
<1>2. CASE StartReconcile
  <2>1. /\ UNCHANGED <<job, pod, data>>
        /\ cluster' \in {cluster, cache.rpc}
        /\ pc' \notin RestoringLabels \cup PodLabels \cup {"MarkSkipped"}
    BY <1>2 DEF StartReconcile
  <2>2. CacheKeepsUp'
    BY <1>1, <2>1 DEF SwitchInv, SkipInv, ModestCopies, OverInv, CacheKeepsUp
  <2> QED
    BY <1>1, <2>1, <2>2
       DEF OverInv, PositionTells, OverWhenUsed, RestoreOver, KnowsItIsOver, Owned,
       SuccessInv,
           SnapshotOrSkipped, FinishedMeansSnapshot, AvailableAfterRestore, Reason
<1>3. CASE ~StartReconcile
  <2>1. /\ cluster # Nil /\ cluster' \in {cluster, Nil}
        /\ pc' # "Idle" => cluster' = cluster
        /\ UNCHANGED data
    BY <1>3, CopyInHand, NilAssumption
       DEF ReportStep, ReconcileStep, ArchiveStep, PodStep, CreatePvc, DeleteJob,
           DeleteScratch, CreateScratch, GetScratch, EnsurePvcReady, CreateJob, GetJob,
           CreatePod, GetPod, UpdateImage, DeletePod, IsReady, Proceed, Return
  <2>2. /\ pc' = "MarkSkipped" => ~Restored(cluster)
        /\ pc' \in RestoringLabels =>
             pc \in RestoringLabels \/ (pc = "CreatePvc" /\ cluster.enable)
        /\ pc' \in PodLabels =>
             pc \in PodLabels \/ (pc = "DeleteScratch" /\ Restored(cluster))
        /\ pc' = "MarkFinished" => cache.job # Nil /\ cache.job.succeeded
    <3>1. CASE CreatePvc
      BY <3>1 DEF CreatePvc, Proceed, Return, EnterArchiveRestore, RestoreDisabled
    <3>2. CASE DeleteJob \/ DeleteScratch
      BY <3>2 DEF DeleteJob, DeleteScratch, Proceed, Return, Gate
    <3>3. CASE CreateScratch \/ GetScratch \/ EnsurePvcReady \/ CreateJob \/ GetJob
      BY <3>3 DEF CreateScratch, GetScratch, EnsurePvcReady, CreateJob, GetJob, Proceed,
         Return
    <3>4. CASE CreatePod \/ GetPod \/ UpdateImage \/ DeletePod \/ IsReady
      BY <3>4 DEF CreatePod, GetPod, UpdateImage, DeletePod, IsReady, Inspect, Proceed,
         Return
    <3> QED
      BY <1>3, <3>1, <3>2, <3>3, <3>4 DEF ReportStep, ReconcileStep, ArchiveStep, PodStep
  <2>3. /\ job' = Nil => job = Nil \/ pc = "DeleteJob"
        /\ job' # Nil => job' = job \/ ~job'.succeeded
    <3>1. CASE CreateJob \/ DeleteJob
      BY <3>1 DEF CreateJob, DeleteJob, GetWantedRestoreJob
    <3>2. CASE ~CreateJob /\ ~DeleteJob
      BY <1>3, <3>2
         DEF ReportStep, ReconcileStep, ArchiveStep, PodStep, CreatePvc, DeleteScratch,
             CreateScratch, GetScratch, EnsurePvcReady, GetJob, CreatePod, GetPod,
             UpdateImage, DeletePod, IsReady
    <3> QED
      BY <3>1, <3>2
  <2>4. Owned(pod)' => Owned(pod) \/ pc \in PodLabels
    <3>1. CASE CreatePod \/ UpdateImage \/ DeletePod
      BY <3>1 DEF CreatePod, UpdateImage, DeletePod
    <3>2. CASE ~(CreatePod \/ UpdateImage \/ DeletePod)
      <4>1. UNCHANGED pod
        BY <1>3, <3>2
           DEF ReportStep, ReconcileStep, ArchiveStep, PodStep, CreatePvc, DeleteJob,
               DeleteScratch, CreateScratch, GetScratch, EnsurePvcReady, CreateJob,
               GetJob,
               GetPod, IsReady
      <4> QED
        BY <4>1 DEF Owned
    <3> QED
      BY <3>1, <3>2
  <2>5. pc \in CleaningLabels => RestoreOver
    BY DEF SwitchInv, SwitchLabels, ModestCopies, ModestCopy, RestoreOver, KnowsItIsOver
  <2>6. RestoreOver => RestoreOver'
    BY <1>1, <2>1 DEF RestoreOver, KnowsItIsOver
  <2>7. OverWhenUsed'
    BY <2>1, <2>2, <2>3, <2>4, <2>5, <2>6 DEF OverInv, OverWhenUsed
  <2>8. PositionTells'
    BY <2>1, <2>2 DEF OverInv, PositionTells
  <2>9. SuccessInv'
    BY <1>1, <2>1, <2>2, <2>3 DEF OverInv, SuccessInv, SnapshotOrSkipped
  <2>10. CacheKeepsUp'
    BY <1>1, <2>1 DEF SwitchInv, ModestCopies, OverInv, CacheKeepsUp
  <2> QED
    BY <1>1, <2>1, <2>7, <2>8, <2>9, <2>10
       DEF OverInv, FinishedMeansSnapshot, AvailableAfterRestore, Reason
<1> QED
  BY <1>2, <1>3

\* A snapshot, once there, stays: whoever could spoil it has let go of the
\* volume, and the volume is kept.
LEMMA ClusterKeepsSnapshot ==
    ASSUME TypeOK, SwitchInv, data = "snapshot",
           NodeStep \/ CollectGarbage \/ DeletePodByHand \/ CreateForeignPod
    PROVE  data' = "snapshot"
<1> USE DEF owned, objects, containers, process
<1>1. writer = "none" /\ ~RemovePvc
  BY DEF TypeOK, ContainersOK, WorkersOK, RemovePvc, SwitchInv, VolumeInv
<1> QED
  BY <1>1 DEF NodeStep, CollectGarbage, BindPvc, BindScratch, RemoveScratch, SchedulePod,
       StartWorker, WorkerOpens, WorkerSucceeds, WorkerFails, KillOrphan, LetGo,
       KubeletStartsPod, NodeOpens, PodBeginsServing, PodBreaks, ContainerRestarts,
       PodRemoved, CollectPvc, CollectScratch, CollectPod, DeletePodByHand,
       CreateForeignPod, Edit

\* The controllers of the cluster and the kubelet.
LEMMA ClusterKeepsOverInv ==
    ASSUME TypeOK, SwitchInv, OverInv,
           NodeStep \/ CollectGarbage \/ DeletePodByHand \/ CreateForeignPod
    PROVE  OverInv'
<1> USE DEF owned, objects, containers, process
<1>1. UNCHANGED <<rpc, cache, pc, cluster>>
  BY DEF NodeStep, CollectGarbage, BindPvc, BindScratch, RemovePvc, RemoveScratch,
         SchedulePod, StartWorker, WorkerOpens, WorkerSucceeds, WorkerFails, KillOrphan,
         KubeletStartsPod, PodBeginsServing, PodBreaks, ContainerRestarts, PodRemoved,
         CollectPvc,
         CollectScratch, CollectPod, DeletePodByHand, CreateForeignPod, Edit
<1>2. RestoreOver' <=> RestoreOver
  BY <1>1 DEF RestoreOver, KnowsItIsOver
<1>3. Owned(pod)' => Owned(pod)
  <2>1. CASE CreateForeignPod
    <3>1. \A management \in BOOLEAN :
              [rv |-> 1, owner |-> NoOwner, image |-> DefaultImage, status |-> "Pending",
               terminating |-> FALSE, management |-> management] \in Pods
      BY ConstantsAssumption DEF NoOwner, Versions, Pods, PodStatuses
    <3> QED
      BY <2>1, <3>1, NewPodTyped DEF CreateForeignPod, Owned
  <2>2. CASE \/ SchedulePod \/ KubeletStartsPod \/ PodBreaks \/ ContainerRestarts
             \/ PodRemoved \/ CollectPod \/ DeletePodByHand
    <3>1. pod # Nil /\ pod \in Pods
      BY <2>2 DEF SchedulePod, KubeletStartsPod, PodBreaks, ContainerRestarts, PodRemoved,
                  CollectPod, DeletePodByHand, Abandoned, Owned, TypeOK, ObjectsOK
    <3> QED
      BY <2>2, <3>1, PodKeepsItsOwner DEF Owned
  <2>3. ASSUME UNCHANGED pod PROVE Owned(pod)' => Owned(pod)
    BY <2>3 DEF Owned
  <2> QED
    BY <2>1, <2>2, <2>3
       DEF NodeStep, CollectGarbage, BindPvc, BindScratch, RemovePvc, RemoveScratch,
         StartWorker, WorkerOpens, WorkerSucceeds, WorkerFails, KillOrphan,
         PodBeginsServing, CollectPvc, CollectScratch
<1>4. Restored(rpc') = Restored(rpc)
  BY <1>1 DEF Restored
<1>5. data = "snapshot" => data' = "snapshot"
  BY ClusterKeepsSnapshot
<1>6. /\ job = Nil <=> job' = Nil
      /\ job' # Nil /\ job'.succeeded =>
             ~job'.active /\ (data' = "snapshot" \/ Restored(rpc))
  <2>1. CASE StartWorker \/ WorkerSucceeds \/ WorkerFails
    <3>1. job # Nil /\ job \in Jobs
      BY <2>1 DEF StartWorker, WorkerSucceeds, WorkerFails, JobPending, JobActive, TypeOK,
                  ObjectsOK
    <3>2. job' # Nil
      <4>1. ~DeleteJob
        BY <1>1 DEF DeleteJob, Proceed
      <4>2. Next
        BY DEF Next, EnvironmentStep, UserStep
      <4> QED
        BY <3>1, <4>1, <4>2, JobComesAndGoes
    <3>3. CASE StartWorker
      BY <3>1, <3>2, <3>3 DEF StartWorker, JobPending, JobFinished, Jobs
    <3>4. CASE WorkerSucceeds
      BY <3>1, <3>2, <3>4
         DEF WorkerSucceeds, TypeOK, WorkersOK, OverInv, SuccessInv, Jobs
    <3>5. CASE WorkerFails
      BY <3>1, <3>2, <3>5
         DEF WorkerFails, TypeOK, WorkersOK, JobFinished, JobActive, Jobs
    <3> QED
      BY <2>1, <3>3, <3>4, <3>5
  <2>2. CASE ~(StartWorker \/ WorkerSucceeds \/ WorkerFails)
    <3>1. UNCHANGED job
      BY <2>2 DEF NodeStep, CollectGarbage, BindPvc, BindScratch, RemovePvc,
         RemoveScratch,
           SchedulePod, WorkerOpens, KillOrphan, KubeletStartsPod, PodBeginsServing,
           PodBreaks, ContainerRestarts, PodRemoved, CollectPvc, CollectScratch,
           CollectPod,
           DeletePodByHand, CreateForeignPod
    <3> QED
      BY <1>5, <3>1 DEF OverInv, SuccessInv, SnapshotOrSkipped
  <2> QED
    BY <2>1, <2>2
<1>7. data' = data \/ JobActive \/ orphan \/ Owned(pod)
  <2>1. ~RemovePvc
    BY DEF RemovePvc, SwitchInv, VolumeInv
  <2> QED
    BY <2>1 DEF NodeStep, CollectGarbage, BindPvc, BindScratch, RemoveScratch,
       SchedulePod,
         StartWorker, WorkerOpens, WorkerSucceeds, WorkerFails, KillOrphan,
         KubeletStartsPod, NodeOpens, PodBeginsServing, PodBreaks, ContainerRestarts,
         PodRemoved, CollectPvc, CollectScratch, CollectPod, DeletePodByHand,
         CreateForeignPod, Edit
<1>8. orphan => RestoreOver
  BY DEF SwitchInv, OrphanInv, ModestCopies, ModestCopy, RestoreOver, KnowsItIsOver
<1>9. OverWhenUsed'
  BY <1>1, <1>2, <1>3, <1>6, <1>7, <1>8 DEF OverInv, OverWhenUsed, JobActive
<1>10. data' = "mixed" => Restored(rpc)
  <2>1. data' = "mixed" => data = "mixed" \/ Owned(pod)
    BY DEF NodeStep, CollectGarbage, BindPvc, BindScratch, RemovePvc, RemoveScratch,
         SchedulePod, StartWorker, WorkerOpens, WorkerSucceeds, WorkerFails, KillOrphan,
         LetGo, LeftBehind, KubeletStartsPod, NodeOpens, PodBeginsServing, PodBreaks,
         ContainerRestarts, PodRemoved, CollectPvc, CollectScratch, CollectPod,
         DeletePodByHand, CreateForeignPod, Edit
  <2> QED
    BY <2>1 DEF OverInv, OverWhenUsed, RestoreOver, SuccessInv
<1>11. SuccessInv'
  BY <1>1, <1>4, <1>5, <1>6, <1>10 DEF OverInv, SuccessInv, SnapshotOrSkipped
<1> QED
  BY <1>1, <1>5, <1>9, <1>11
     DEF OverInv, CacheKeepsUp, PositionTells, FinishedMeansSnapshot,
     AvailableAfterRestore,
         Reason

\* Edits, the watches and the failures of the operator.
LEMMA EverybodyElseKeepsOverInv ==
    ASSUME VolumeKept, TypeOK, SwitchInv, OverInv, Abort \/ Crash \/ EnvironmentStep
    PROVE  OverInv'
<1> USE DEF owned, objects, containers, process, InProgress
<1>1. CASE EditEnable \/ EditImage
  <2>1. /\ UNCHANGED <<cache, pc, cluster, pod, job, data>>
        /\ rpc # Nil /\ rpc' # Nil
        /\ rpc'.conditions = rpc.conditions /\ rpc' # cluster
    BY <1>1, EditsMakeNewVersions DEF EditEnable, EditImage, Edit
  <2>2. CacheKeepsUp'
    BY <2>1 DEF CacheKeepsUp
  <2> QED
    BY <2>1, <2>2
       DEF OverInv, PositionTells, OverWhenUsed, RestoreOver, KnowsItIsOver, Owned,
       Restored,
           SuccessInv, SnapshotOrSkipped, FinishedMeansSnapshot, AvailableAfterRestore,
           Reason
<1>2. CASE Watch \/ Abort \/ Crash
  <2>1. /\ UNCHANGED <<rpc, job, pod, data>>
        /\ cache'.rpc \in {cache.rpc, rpc}
        /\ cache'.job \in {cache.job, job}
        /\ UNCHANGED <<pc, cluster>> \/ (pc' = "Idle" /\ cluster' = Nil)
    <3>1. CASE Watch
      BY <3>1 DEF Watch, SyncRpc, SyncPvc, SyncScratch, SyncJob, SyncPod, SyncOwned,
         CatchUp,
                  TypeOK, Caches
    <3>2. CASE Abort \/ Crash
      BY <3>2 DEF Abort, Crash, Disturb, Return
    <3> QED
      BY <1>2, <3>1, <3>2
  <2>2. RestoreOver => RestoreOver'
    BY <2>1 DEF RestoreOver, KnowsItIsOver
  <2>3. CacheKeepsUp'
    BY <2>1 DEF OverInv, CacheKeepsUp, SwitchInv, ModestCopies
  <2>4. PositionTells' /\ OverWhenUsed' /\ SuccessInv'
    BY <2>1, <2>2 DEF OverInv, PositionTells, OverWhenUsed, Owned, SuccessInv,
                      SnapshotOrSkipped, RestoringLabels, PodLabels, PodCalls
  <2> QED
    BY <2>1, <2>3, <2>4 DEF OverInv, FinishedMeansSnapshot, AvailableAfterRestore, Reason
<1>3. ~DeletePvc /\ ~DeleteRpc /\ ~CreateRpc
  BY DEF VolumeKept, DeletePvc, DeleteRpc, CreateRpc, Edit
<1> QED
  BY <1>1, <1>2, <1>3, ClusterKeepsOverInv DEF EnvironmentStep, UserStep

\* When nobody asks for a restore any more, with a switch that moves
\* (controller.go:72-111, archive_restore.go:29-61): a copy that still asks
\* for one is found out by its version before the first pod is made.
THEOREM OverInvAlways ==
    ASSUME VolumeKept PROVE Spec => []OverInv
<1>1. Init => OverInv
  <2> SUFFICES ASSUME Init PROVE OverInv
    OBVIOUS
  <2>1. rpc \in RpcObjects /\ rpc.conditions = NoConditions
    BY NoConditionsTyped, ConstantsAssumption DEF Init, FreshRpc, RpcObjects, Versions
  <2> QED
    BY <2>1, NilAssumption DEF Init, OverInv, CacheKeepsUp, PositionTells, OverWhenUsed,
       Owned, SuccessInv,
                FinishedMeansSnapshot, AvailableAfterRestore, Reason, NoConditions,
                RestoringLabels, PodLabels, PodCalls
<1>2. TypeOK /\ SwitchInv /\ OverInv /\ [Next]_vars => OverInv'
  <2>1. OverInv /\ UNCHANGED vars => OverInv'
    BY DEF vars, objects, owned, containers, process, OverInv, CacheKeepsUp,
       PositionTells,
           OverWhenUsed, RestoreOver, KnowsItIsOver, Owned, SuccessInv, SnapshotOrSkipped,
           FinishedMeansSnapshot, AvailableAfterRestore, Reason
  <2> QED
    BY <2>1, ReportsKeepOverInv, OthersKeepOverInv, EverybodyElseKeepsOverInv DEF Next
<1> QED
  BY <1>1, <1>2, TypeCorrect, SwitchInvAlways, PTL DEF Spec

\* A volume is restored once (archive_restore.go:95-107), however the user
\* flips the switch between the making of a job, its deletion and the first
\* start of a node.
THEOREM OneRestore ==
    ASSUME VolumeKept PROVE Spec => OneRestorePerVolume
<1>1. TypeOK /\ SwitchInv /\ OverInv /\ [Next]_vars
        => [job = Nil /\ job' # Nil => data = "empty"]_job
  <2> SUFFICES ASSUME TypeOK, SwitchInv, OverInv, [Next]_vars, job = Nil, job' # Nil
               PROVE  data = "empty"
    OBVIOUS
  <2>1. pc = "CreateJob" /\ cluster # Nil
    BY JobComesAndGoes, CopyInHand, NilAssumption DEF CreateJob
  <2>2. ~KnowsItIsOver(cluster)
    BY <2>1 DEF SwitchInv, SwitchLabels, OverInv, PositionTells, RestoringLabels,
                KnowsItIsOver
  <2> QED
    BY <2>2 DEF OverInv, OverWhenUsed, RestoreOver
<1> QED
  BY <1>1, TypeCorrect, SwitchInvAlways, OverInvAlways, PTL DEF Spec, OneRestorePerVolume

\* A restore reported as finished has put the snapshot on the volume
\* (archive_restore.go:118), and no node is reported as being created or
\* catching up before a restore is recorded (ready.go:15-20), however the
\* user flips the switch.
THEOREM ReportsAreTrue ==
    ASSUME VolumeKept PROVE Spec => [](FinishedMeansSnapshot /\ AvailableAfterRestore)
<1>1. OverInv => FinishedMeansSnapshot /\ AvailableAfterRestore
  BY DEF OverInv
<1> QED
  BY <1>1, OverInvAlways, PTL

=============================================================================

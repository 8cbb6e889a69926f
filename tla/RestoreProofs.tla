---------------------------- MODULE RestoreProofs ----------------------------
(***************************************************************************)
(* Proof that RestoreInv is inductive and of the safety properties of the  *)
(* restore that follow from it, for every value of the constants in which  *)
(* users neither delete the StarknetRPC or its main volume nor touch the   *)
(* enable switch.                                                          *)
(***************************************************************************)
EXTENDS ReconcilerProofs

-----------------------------------------------------------------------------
(* Status updates. *)

\* A status update: the StarknetRPC is replaced by what the copy made of it,
\* or nothing happens and Reconcile returns.
LEMMA StatusUpdate ==
    ASSUME TypeOK, RestoreInv, pc # "Idle",
           NEW conds \in ConditionLists, NEW next,
           SetPhases(conds, next),
           Restored(cluster) => IsStatusConditionTrue(conds, "Restore"),
           UNCHANGED cache
    PROVE  /\ CopiesInv'
           /\ rpc'.uid = rpc.uid /\ rpc'.enable = rpc.enable
           /\ Restored(rpc) => Restored(rpc')
           /\ \/ Return(TRUE) /\ UNCHANGED rpc
              \/ /\ cluster = rpc
                 /\ rpc'.conditions = conds
                 /\ Proceed(next, rpc', podObj)
<1>1. CASE Return(TRUE) /\ UNCHANGED rpc
  BY <1>1 DEF RestoreInv, CopiesInv, FaithfulCopy, Return
<1>2. CASE UpToDate /\ rpc' = Stored(conds) /\ Proceed(next, Stored(conds), podObj)
  <2>1. cluster = rpc /\ rpc # Nil
    BY <1>2, CopyInHand, NilAssumption DEF UpToDate, RestoreInv, CopiesInv, FaithfulCopy
  <2>2. /\ rpc' \in RpcObjects /\ rpc'.uid = rpc.uid /\ rpc'.enable = rpc.enable
        /\ rpc'.conditions = conds
    <3>1. rpc \in RpcObjects
      BY <2>1 DEF TypeOK, ObjectsOK
    <3>2. [rpc EXCEPT !.conditions = conds] \in RpcObjects
      BY <3>1 DEF RpcObjects
    <3> QED
      BY <1>2, <3>1, <3>2, NewRpcTyped DEF Stored, RpcObjects
  <2>3. Restored(rpc) => Restored(rpc')
    BY <2>1, <2>2 DEF Restored
  <2>4. CopiesInv'
    <3>1. FaithfulCopy(cache.rpc)'
      BY <2>2, <2>3 DEF RestoreInv, CopiesInv, FaithfulCopy
    <3>2. FaithfulCopy(cluster)'
      BY <1>2, <2>2 DEF Proceed, Return, FaithfulCopy
    <3> QED
      BY <2>2, <3>1, <3>2, NilAssumption DEF CopiesInv
  <2> QED
    BY <1>2, <2>1, <2>2, <2>3, <2>4
<1> QED
  BY <1>1, <1>2 DEF SetPhases

\* A status update that does not touch the report of the pod, made with the
\* volume in place, keeps every part of the invariant that does not depend on
\* where Reconcile goes next; recording the restore needs the snapshot.
LEMMA StatusUpdateKeeps ==
    ASSUME TypeOK, RestoreInv, pc # "Idle",
           NEW conds \in ConditionLists, NEW next,
           SetPhases(conds, next),
           Restored(cluster) => IsStatusConditionTrue(conds, "Restore"),
           UNCHANGED <<owned, job, containers, cache>>,
           IsStatusConditionTrue(conds, "Restore") =>
               \/ Restored(cluster)
               \/ /\ pvc # Nil
                  /\ cluster.enable =>
                        data = "snapshot" /\ (job # Nil => job.succeeded)
    PROVE  /\ CopiesInv' /\ JobInv' /\ RestoredInv' /\ NoSecondJobInv' /\ PodInv'
           /\ pvc = Nil => ~Restored(rpc')
<1> USE DEF owned, containers
<1>1. /\ CopiesInv'
      /\ rpc'.uid = rpc.uid /\ rpc'.enable = rpc.enable
      /\ Restored(rpc) => Restored(rpc')
      /\ \/ Return(TRUE) /\ UNCHANGED rpc
         \/ /\ cluster = rpc
            /\ rpc'.conditions = conds
            /\ Proceed(next, rpc', podObj)
  BY StatusUpdate
<1>2. JobInv'
  BY <1>1 DEF RestoreInv, JobInv
<1>3. RestoredInv' /\ (pvc = Nil => ~Restored(rpc'))
  BY <1>1 DEF RestoreInv, RestoredInv, VolumeInv, Restored
<1>4. NoSecondJobInv'
  BY <1>1, CopyInHand, NilAssumption
     DEF RestoreInv, NoSecondJobInv, CopiesInv, FaithfulCopy, Proceed, Return
<1>5. PodInv'
  BY <1>1 DEF RestoreInv, PodInv, Owned
<1> QED
  BY <1>1, <1>2, <1>3, <1>4, <1>5

-----------------------------------------------------------------------------
(* The steps of Reconcile. *)

\* The steps that read a cache or decide keep the objects as they are.
LEMMA ReadsKeepRestoreInv ==
    ASSUME TypeOK, RestoreInv,
           StartReconcile \/ GetScratch \/ EnsurePvcReady \/ GetJob \/ GetPod \/ IsReady
    PROVE  RestoreInv'
<1> USE DEF owned, objects, containers, RestoringLabels, CleaningLabels, PodLabels, PodCalls
<1>1. /\ UNCHANGED <<rpc, pvc, job, pod, data, orphan, cache>>
      /\ cluster' \in {cluster, cache.rpc, Nil}
  BY DEF StartReconcile, GetScratch, EnsurePvcReady, GetJob, GetPod, IsReady, Proceed,
     Return
<1>2. CopiesInv' /\ JobInv' /\ RestoredInv' /\ NoSecondJobInv' /\ PodInv'
  BY <1>1 DEF RestoreInv, CopiesInv, FaithfulCopy, JobInv, RestoredInv, NoSecondJobInv,
              PodInv, Owned
<1>3. VolumeInv'
  BY <1>1 DEF StartReconcile, GetScratch, EnsurePvcReady, GetJob, GetPod, IsReady,
     Proceed,
              Return, RestoreInv, VolumeInv, Inspect
<1>4. LabelInv'
  <2>1. CASE StartReconcile
    BY <1>1, <2>1 DEF StartReconcile, RestoreInv, LabelInv
  <2>2. CASE GetScratch \/ EnsurePvcReady
    BY <1>1, <2>2 DEF GetScratch, EnsurePvcReady, Proceed, Return, RestoreInv, LabelInv
  <2>3. CASE GetJob
    BY <1>1, <2>3 DEF GetJob, Proceed, Return, RestoreInv, LabelInv, JobInv
  <2>4. CASE GetPod
    BY <1>1, <2>4 DEF GetPod, Inspect, Proceed, Return, RestoreInv, LabelInv
  <2>5. CASE IsReady
    BY <1>1, <2>5 DEF IsReady, Proceed, Return, RestoreInv, LabelInv
  <2> QED
    BY <2>1, <2>2, <2>3, <2>4, <2>5
<1>5. AvailableAfterRestore'
  BY <1>1 DEF RestoreInv, AvailableAfterRestore, Reason
<1> QED
  BY <1>2, <1>3, <1>4, <1>5 DEF RestoreInv

\* The steps that report on the restore.
LEMMA RestoreReportsKeepRestoreInv ==
    ASSUME TypeOK, RestoreInv,
           \/ Initialize \/ ResetRestore \/ MarkSkipped
           \/ MarkProgressing \/ MarkFinished \/ MarkFailed
    PROVE  /\ RestoreInv'
           /\ Restored(rpc) => Restored(rpc')
           /\ Restored(rpc') =>
                \/ Restored(rpc)
                \/ pc \in {"MarkSkipped", "MarkFinished"} /\ cluster = rpc
           /\ rpc'.enable = rpc.enable
<1> USE DEF owned, containers, RestoringLabels, CleaningLabels, PodLabels, PodCalls
<1> DEFINE list == cluster.conditions
           done(conds) == IsStatusConditionTrue(conds, "Restore")
<1> USE DEF Restored
<1>1. list \in ConditionLists
  BY CopyInHand
     DEF Initialize, ResetRestore, MarkSkipped, MarkProgressing, MarkFinished, MarkFailed
<1>2. PICK conds, next :
        /\ conds \in ConditionLists
        /\ SetPhases(conds, next)
        /\ \/ /\ pc = "Initialize" /\ next = "CreatePvc"
              /\ conds = ApplyAvailable(ApplyRestore(list, "Pending"), "Pending")
           \/ /\ pc = "ResetRestore" /\ conds = ApplyRestore(list, "Pending")
              /\ next = EnterArchiveRestore([cluster EXCEPT !.conditions = conds])
           \/ /\ pc = "MarkSkipped" /\ conds = markRestoreAsSkipped(list)
              /\ next = Gate([cluster EXCEPT !.conditions = conds])
           \/ /\ pc = "MarkProgressing" /\ next = "Requeue"
              /\ conds = markRestoreAsProgressing(list)
           \/ /\ pc = "MarkFinished" /\ next = "Requeue"
              /\ conds = markArchiveAsFinished(list)
           \/ /\ pc = "MarkFailed" /\ next = "Requeue"
              /\ conds = markRestoreAsFailed(list)
  <2>1. /\ ApplyRestore(list, "Pending") \in ConditionLists
        /\ ApplyAvailable(ApplyRestore(list, "Pending"), "Pending") \in ConditionLists
        /\ markRestoreAsSkipped(list) \in ConditionLists
        /\ markRestoreAsProgressing(list) \in ConditionLists
        /\ markArchiveAsFinished(list) \in ConditionLists
        /\ markRestoreAsFailed(list) \in ConditionLists
    BY <1>1, TransitionsTyped DEF RestoreStatuses, AvailableStatuses
  <2> QED
    BY <2>1 DEF Initialize, ResetRestore, MarkSkipped, MarkProgressing, MarkFinished,
                MarkFailed
<1>3. UNCHANGED <<owned, job, containers, cache>>
  BY DEF Initialize, ResetRestore, MarkSkipped, MarkProgressing, MarkFinished, MarkFailed
<1>4. /\ done(conds) <=> pc \in {"MarkSkipped", "MarkFinished"}
      /\ Restored(cluster) => done(conds)
      /\ done(conds) =>
           \/ Restored(cluster)
           \/ /\ pvc # Nil
              /\ cluster.enable => data = "snapshot" /\ (job # Nil => job.succeeded)
  <2>1. done(conds) <=> pc \in {"MarkSkipped", "MarkFinished"}
    <3>1. ApplyRestore(list, "Pending") \in ConditionLists
      BY <1>1, TransitionsTyped DEF RestoreStatuses
    <3> QED
      BY <1>1, <1>2, <3>1, TransitionsRestore DEF AvailableStatuses
  <2>2. Restored(cluster) => done(conds)
    <3>1. CASE pc = "Initialize"
      BY <3>1 DEF RestoreInv, LabelInv, IsStatusConditionTrue
    <3>2. CASE pc = "ResetRestore"
      BY <3>2, CopyInHand, NilAssumption DEF RestoreInv, LabelInv, CopiesInv, FaithfulCopy
    <3> QED
      BY <1>2, <2>1, <3>1, <3>2 DEF RestoreInv, LabelInv
  <2>3. done(conds) => pvc # Nil
                       /\ (cluster.enable =>
                             data = "snapshot" /\ (job # Nil => job.succeeded))
    BY <2>1 DEF RestoreInv, LabelInv, VolumeInv
  <2> QED
    BY <2>1, <2>2, <2>3
<1>5. /\ CopiesInv' /\ JobInv' /\ RestoredInv' /\ NoSecondJobInv' /\ PodInv'
      /\ pvc = Nil => ~Restored(rpc')
      /\ rpc'.uid = rpc.uid /\ rpc'.enable = rpc.enable
      /\ Restored(rpc) => Restored(rpc')
      /\ \/ Return(TRUE) /\ UNCHANGED rpc
         \/ /\ cluster = rpc
            /\ rpc'.conditions = conds
            /\ Proceed(next, rpc', podObj)
  <2>1. pc # "Idle"
    BY <1>2
  <2> QED
    BY <1>2, <1>3, <1>4, <2>1, StatusUpdate, StatusUpdateKeeps
<1>6. Restored(rpc') =>
        \/ Restored(rpc)
        \/ pc \in {"MarkSkipped", "MarkFinished"} /\ cluster = rpc
  BY <1>4, <1>5
<1>7. CASE Return(TRUE) /\ UNCHANGED rpc
  BY <1>3, <1>5, <1>7
     DEF Return, RestoreInv, VolumeInv, LabelInv, AvailableAfterRestore, Reason
<1>8. CASE cluster = rpc /\ rpc'.conditions = conds /\ Proceed(next, rpc', podObj)
  <2>1. VolumeInv'
    BY <1>2, <1>3, <1>5, <1>8
       DEF Proceed, Return, RestoreInv, VolumeInv, EnterArchiveRestore, Gate
  <2>2. LabelInv'
    <3>1. CASE pc = "Initialize"
      BY <1>2, <1>4, <1>5, <1>8, <3>1 DEF Proceed, LabelInv
    <3>2. CASE pc = "ResetRestore"
      BY <1>2, <1>4, <1>5, <1>8, <3>2 DEF Proceed, LabelInv, EnterArchiveRestore,
                                         RestoreDisabled
    <3>3. CASE pc = "MarkSkipped"
      BY <1>2, <1>4, <1>5, <1>8, <3>3 DEF Proceed, Return, LabelInv, Gate
    <3>4. CASE next = "Requeue"
      BY <1>8, <3>4 DEF Proceed, Return, LabelInv
    <3> QED
      BY <1>2, <3>1, <3>2, <3>3, <3>4
  <2>3. AvailableAfterRestore'
    <3>1. "Available" \in DOMAIN conds =>
             \/ conds["Available"].reason = "Pending"
             \/ /\ "Available" \in DOMAIN list
                /\ conds["Available"] = list["Available"]
      <4>1. CASE pc = "Initialize"
        BY <1>2, <4>1 DEF ApplyAvailable, AvailableCondition, SetStatusCondition
      <4>2. CASE pc # "Initialize"
        BY <1>2, <4>2
           DEF ApplyRestore, SetStatusCondition, markRestoreAsSkipped,
               markRestoreAsProgressing, markArchiveAsFinished, markRestoreAsFailed
      <4> QED
        BY <4>1, <4>2
    <3>2. \A reason \in {"Creating", "CatchingUp"} :
             Reason("Available", reason)' => Reason("Available", reason)
      BY <1>8, <3>1 DEF Reason, RestoreInv, CopiesInv
    <3> QED
      BY <1>5, <3>2 DEF RestoreInv, AvailableAfterRestore
  <2> QED
    BY <1>5, <1>6, <2>1, <2>2, <2>3 DEF RestoreInv
<1> QED
  BY <1>5, <1>6, <1>7, <1>8

\* The steps that report on the pod: the restore condition stays.
LEMMA PodReportsKeepRestoreInv ==
    ASSUME TypeOK, RestoreInv, MarkCreating \/ MarkCatchingUp
    PROVE  RestoreInv' /\ Restored(rpc) /\ Restored(rpc') /\ rpc'.enable = rpc.enable
<1> USE DEF owned, containers, RestoringLabels, CleaningLabels, PodLabels, PodCalls
<1> USE DEF Restored
<1>1. PICK conds, next :
        /\ conds \in ConditionLists
        /\ SetPhases(conds, next)
        /\ next \in {"DeletePod", "IsReady", "Done"}
        /\ IsStatusConditionTrue(conds, "Restore") <=> Restored(cluster)
  <2>1. cluster.conditions \in ConditionLists
    BY CopyInHand DEF MarkCreating, MarkCatchingUp
  <2> QED
    BY <2>1, TransitionsTyped, TransitionsRestore
       DEF MarkCreating, MarkCatchingUp, Inspect, AvailableStatuses
<1>2. /\ pc \in PodLabels /\ UNCHANGED <<owned, job, containers, cache>>
      /\ Restored(cluster)
  BY DEF MarkCreating, MarkCatchingUp, RestoreInv, LabelInv
<1>3. /\ CopiesInv' /\ JobInv' /\ RestoredInv' /\ NoSecondJobInv' /\ PodInv'
      /\ pvc = Nil => ~Restored(rpc')
      /\ rpc'.uid = rpc.uid /\ rpc'.enable = rpc.enable
      /\ Restored(rpc) => Restored(rpc')
      /\ \/ Return(TRUE) /\ UNCHANGED rpc
         \/ cluster = rpc /\ rpc'.conditions = conds /\ Proceed(next, rpc', podObj)
  <2>1. pc # "Idle"
    BY <1>2
  <2> QED
    BY <1>1, <1>2, <2>1, StatusUpdate, StatusUpdateKeeps
<1>4. Restored(rpc) /\ Restored(rpc')
  BY <1>2, <1>3, CopyInHand, NilAssumption DEF RestoreInv, CopiesInv, FaithfulCopy
<1>5. VolumeInv'
  BY <1>1, <1>2, <1>3 DEF Proceed, Return, RestoreInv, VolumeInv
<1>6. LabelInv'
  BY <1>1, <1>2, <1>3, <1>4 DEF Proceed, Return, LabelInv
<1> QED
  BY <1>3, <1>4, <1>5, <1>6 DEF RestoreInv, AvailableAfterRestore

\* The steps that write the other objects keep the StarknetRPC and its copies.
LEMMA WritesKeepRestoreInv ==
    ASSUME TypeOK, RestoreInv,
           \/ CreatePvc \/ DeleteJob \/ DeleteScratch \/ CreateScratch \/ CreateJob
           \/ CreatePod \/ UpdateImage \/ DeletePod
    PROVE  RestoreInv'
<1> USE DEF owned, containers, RestoringLabels, CleaningLabels, PodLabels, PodCalls
<1>1. /\ UNCHANGED <<rpc, data, cache>>
      /\ cluster # Nil /\ cluster' \in {cluster, Nil}
  BY CopyInHand, NilAssumption
     DEF CreatePvc, DeleteJob, DeleteScratch, CreateScratch, CreateJob, CreatePod,
         UpdateImage, DeletePod, Proceed, Return
<1>2. CopiesInv' /\ AvailableAfterRestore'
  BY <1>1 DEF RestoreInv, CopiesInv, FaithfulCopy, AvailableAfterRestore, Reason
<1>3. CASE CreatePvc
  <2>1. VolumeInv'
    <3>1. GetWantedPvc(cluster) # Nil
      BY <1>3, CopyInHand, WantedTyped, NilAssumption DEF CreatePvc
    <3> QED
      BY <1>1, <1>3, <3>1 DEF CreatePvc, GetWantedPvc, Proceed, Return, RestoreInv,
                              VolumeInv, CopiesInv, FaithfulCopy
  <2>2. JobInv' /\ RestoredInv' /\ NoSecondJobInv' /\ PodInv'
    BY <1>1, <1>3 DEF CreatePvc, RestoreInv, JobInv, RestoredInv, NoSecondJobInv, PodInv,
                      Owned
  <2>3. LabelInv'
    BY <1>1, <1>3 DEF CreatePvc, Proceed, Return, EnterArchiveRestore, RestoreDisabled,
                      RestoreInv, LabelInv, VolumeInv
  <2> QED
    BY <1>2, <2>1, <2>2, <2>3 DEF RestoreInv
<1>4. CASE DeleteJob
  <2>1. job # Nil => job.succeeded /\ ~job.active
    BY <1>1, <1>4 DEF DeleteJob, RestoreInv, LabelInv, CopiesInv, FaithfulCopy,
       RestoredInv,
                      JobInv
  <2>2. VolumeInv' /\ PodInv'
    BY <1>1, <1>4 DEF DeleteJob, Proceed, RestoreInv, VolumeInv, PodInv, Owned
  <2>3. JobInv' /\ RestoredInv' /\ NoSecondJobInv'
    BY <1>1, <1>4, <2>1 DEF DeleteJob, RestoreInv, JobInv, RestoredInv, NoSecondJobInv,
                            LabelInv
  <2>4. LabelInv'
    BY <1>1, <1>4 DEF DeleteJob, Proceed, RestoreInv, LabelInv
  <2> QED
    BY <1>2, <2>2, <2>3, <2>4 DEF RestoreInv
<1>5. CASE CreateJob
  <2>1. cluster.enable /\ ~Restored(cluster) /\ rpc.enable
    BY <1>1, <1>5 DEF CreateJob, RestoreInv, LabelInv, CopiesInv, FaithfulCopy
  <2>2. job = Nil => data = "empty"
    BY <1>1, <2>1 DEF RestoreInv, NoSecondJobInv
  <2>3. VolumeInv' /\ PodInv'
    BY <1>1, <1>5 DEF CreateJob, Proceed, RestoreInv, VolumeInv, PodInv, Owned
  <2>4. JobInv' /\ RestoredInv' /\ NoSecondJobInv'
    BY <1>1, <1>5, <2>1, <2>2
       DEF CreateJob, GetWantedRestoreJob, RestoreInv, JobInv, RestoredInv,
       NoSecondJobInv,
           Proceed
  <2>5. LabelInv'
    BY <1>1, <1>5, <2>1 DEF CreateJob, Proceed, RestoreInv, LabelInv
  <2> QED
    BY <1>2, <2>3, <2>4, <2>5 DEF RestoreInv
<1>6. CASE DeleteScratch \/ CreateScratch \/ CreatePod \/ UpdateImage \/ DeletePod
  <2>1. UNCHANGED <<pvc, job, orphan>>
    BY <1>6 DEF DeleteScratch, CreateScratch, CreatePod, UpdateImage, DeletePod
  <2>2. VolumeInv'
    BY <1>1, <1>6, <2>1
       DEF DeleteScratch, CreateScratch, CreatePod, UpdateImage, DeletePod, Proceed,
       Return,
           Gate, Inspect, RestoreInv, VolumeInv
  <2>3. JobInv' /\ RestoredInv' /\ NoSecondJobInv'
    BY <1>1, <2>1 DEF RestoreInv, JobInv, RestoredInv, NoSecondJobInv
  <2>4. LabelInv'
    BY <1>1, <1>6, <2>1
       DEF DeleteScratch, CreateScratch, CreatePod, UpdateImage, DeletePod, Proceed,
       Return,
           Gate, Inspect, RestoreInv, LabelInv
  <2>5. PodInv'
    <3>1. CASE DeleteScratch \/ CreateScratch
      BY <1>1, <3>1 DEF DeleteScratch, CreateScratch, RestoreInv, PodInv, Owned
    <3>2. CASE CreatePod
      BY <1>1, <3>2 DEF CreatePod, RestoreInv, LabelInv, CopiesInv, FaithfulCopy, PodInv
    <3>3. CASE UpdateImage
      <4>1. podObj \in Pods
        BY <3>3 DEF UpdateImage, TypeOK, ProcessOK, PodInHand
      <4> QED
        BY <1>1, <3>3, <4>1 DEF UpdateImage, RestoreInv, LabelInv, CopiesInv,
           FaithfulCopy,
                               PodInv
    <3>4. CASE DeletePod
      BY <1>1, <3>4 DEF DeletePod, RestoreInv, LabelInv, CopiesInv, FaithfulCopy, PodInv
    <3> QED
      BY <1>6, <3>1, <3>2, <3>3, <3>4
  <2> QED
    BY <1>2, <2>2, <2>3, <2>4, <2>5 DEF RestoreInv
<1> QED
  BY <1>3, <1>4, <1>5, <1>6

\* Together: every step of Reconcile keeps the invariant.
LEMMA ReconcileKeepsRestoreInv ==
    TypeOK /\ RestoreInv /\ ReconcileStep => RestoreInv'
  BY ReadsKeepRestoreInv, RestoreReportsKeepRestoreInv, PodReportsKeepRestoreInv,
     WritesKeepRestoreInv DEF ReconcileStep, ArchiveStep, PodStep

-----------------------------------------------------------------------------
(* Everybody else. *)

\* Whatever happens to the manager, its copies only get newer.
LEMMA FailuresKeepRestoreInv ==
    ASSUME TypeOK, RestoreInv, Watch \/ Abort \/ Crash
    PROVE  RestoreInv'
<1> USE DEF owned, containers, InProgress, RestoringLabels, CleaningLabels, PodLabels, PodCalls
<1>1. /\ UNCHANGED <<rpc, pvc, job, pod, data, orphan>>
      /\ cache'.rpc \in {cache.rpc, rpc}
      /\ cache'.job \in {cache.job, job}
      /\ \/ UNCHANGED <<pc, cluster>>
         \/ pc' = "Idle" /\ cluster' = Nil
  <2>1. CASE Watch
    BY <2>1 DEF Watch, SyncRpc, SyncPvc, SyncScratch, SyncJob, SyncPod, SyncOwned,
       CatchUp,
                TypeOK, Caches
  <2>2. CASE Abort
    BY <2>2 DEF Abort, Disturb, Return
  <2>3. CASE Crash
    BY <2>3 DEF Crash, Disturb
  <2> QED
    BY <2>1, <2>2, <2>3
<1>2. CopiesInv' /\ JobInv' /\ RestoredInv' /\ NoSecondJobInv' /\ PodInv' /\ VolumeInv'
  <2>1. CopiesInv'
    BY <1>1 DEF RestoreInv, CopiesInv, FaithfulCopy
  <2>2. JobInv' /\ RestoredInv'
    BY <1>1 DEF RestoreInv, JobInv, RestoredInv
  <2>3. NoSecondJobInv'
    BY <1>1 DEF RestoreInv, NoSecondJobInv, CopiesInv, FaithfulCopy
  <2>4. PodInv' /\ VolumeInv'
    BY <1>1 DEF RestoreInv, PodInv, VolumeInv, Owned
  <2> QED
    BY <2>1, <2>2, <2>3, <2>4
<1>3. LabelInv'
  BY <1>1 DEF RestoreInv, LabelInv, CopiesInv, FaithfulCopy
<1>4. AvailableAfterRestore'
  BY <1>1 DEF RestoreInv, AvailableAfterRestore, Reason
<1> QED
  BY <1>2, <1>3, <1>4 DEF RestoreInv

\* A node finds the snapshot, or an empty volume if nobody wants a restore.
LEMMA NodeFindsSnapshot ==
    ASSUME TypeOK, RestoreInv, NodeOpens, Owned(pod)
    PROVE  \/ UNCHANGED data
           \/ ~rpc.enable /\ data = "empty" /\ data' = "genesis"
<1>1. Restored(rpc)
  BY DEF RestoreInv, PodInv
<1>2. ~JobActive /\ ~orphan
  BY <1>1 DEF RestoreInv, RestoredInv, JobInv, JobActive
<1>3. writer = "none"
  BY <1>2 DEF TypeOK, ContainersOK, WorkersOK
<1> QED
  BY <1>1, <1>3 DEF NodeOpens, RestoreInv, RestoredInv

\* The controllers of the cluster and the worker: a job that has succeeded
\* stays so, and with it the snapshot.
LEMMA ControllersKeepRestoreInv ==
    ASSUME TypeOK, RestoreInv, NodeStep \/ CollectGarbage
    PROVE  RestoreInv'
<1> USE DEF owned, objects, containers, process, RestoringLabels, CleaningLabels, PodLabels,
            PodCalls
<1>1. UNCHANGED <<rpc, cache, pc, cluster>>
  BY DEF NodeStep, CollectGarbage, BindPvc, BindScratch, RemovePvc, RemoveScratch,
         SchedulePod, StartWorker, WorkerOpens, WorkerSucceeds, WorkerFails, KillOrphan,
         KubeletStartsPod, PodBeginsServing, PodBreaks, ContainerRestarts, PodRemoved,
         CollectPvc,
         CollectScratch, CollectPod
<1>2. CopiesInv' /\ AvailableAfterRestore'
  BY <1>1 DEF RestoreInv, CopiesInv, FaithfulCopy, AvailableAfterRestore, Reason
<1>3. CASE StartWorker \/ WorkerOpens \/ WorkerSucceeds \/ WorkerFails
  <2> USE DEF StartWorker, WorkerOpens, WorkerSucceeds, WorkerFails
  <2>1. /\ job # Nil /\ ~job.succeeded /\ rpc.enable
        /\ job \in Jobs
    BY <1>3 DEF JobPending, JobActive, JobFinished, RestoreInv, JobInv, TypeOK, ObjectsOK
  <2>2. ~Restored(rpc) /\ pc # "MarkFinished"
        /\ (cache.job # Nil => ~cache.job.succeeded)
    BY <2>1 DEF RestoreInv, RestoredInv, LabelInv, JobInv
  <2>3. UNCHANGED <<pvc, pod, orphan>>
    BY <1>3
  <2>4. job' \in Jobs /\ (job'.succeeded => ~job'.active /\ data' = "snapshot")
    <3>1. CASE StartWorker \/ WorkerOpens
      BY <2>1, <3>1 DEF Jobs
    <3>2. CASE WorkerSucceeds
      <4>1. data = "partial"
        BY <3>2 DEF TypeOK, WorkersOK, RestoreInv, JobInv
      <4> QED
        BY <2>1, <3>2, <4>1 DEF Jobs
    <3>3. CASE WorkerFails
      <4>1. job.failures + 1 \in 0 .. BackoffLimit + 1
        BY <2>1, <3>3, ConstantsAssumption DEF TypeOK, WorkersOK, JobFinished, Jobs
      <4> QED
        BY <2>1, <3>3, <4>1 DEF Jobs
    <3> QED
      BY <1>3, <3>1, <3>2, <3>3
  <2>5. data' # "mixed"
    BY <1>3 DEF LetGo, LeftBehind, RestoreInv, JobInv
  <2>6. JobInv' /\ RestoredInv'
    BY <1>1, <2>1, <2>2, <2>3, <2>4, <2>5 DEF RestoreInv, JobInv, RestoredInv
  <2>7. NoSecondJobInv'
    BY <2>4, NilAssumption DEF NoSecondJobInv
  <2>8. VolumeInv' /\ LabelInv' /\ PodInv'
    BY <1>1, <2>2, <2>3 DEF RestoreInv, VolumeInv, LabelInv, PodInv, Owned
  <2> QED
    BY <1>2, <2>6, <2>7, <2>8 DEF RestoreInv
<1>4. CASE \/ SchedulePod \/ KubeletStartsPod \/ PodBreaks \/ ContainerRestarts
           \/ PodRemoved \/ CollectPod
  <2> USE DEF SchedulePod, KubeletStartsPod, PodBreaks, ContainerRestarts, PodRemoved,
              CollectPod
  <2>1. UNCHANGED <<pvc, job, writer, orphan>>
    BY <1>4
  <2>2. /\ pod # Nil /\ pod \in Pods
        /\ pod' # Nil => pod'.owner = pod.owner
    <3>1. pod # Nil /\ pod \in Pods
      BY <1>4 DEF Abandoned, Owned, TypeOK, ObjectsOK
    <3> QED
      BY <1>4, <3>1, PodKeepsItsOwner
  <2>3. PodInv'
    BY <1>1, <2>2 DEF RestoreInv, PodInv, Owned
  <2>4. data' = data \/ (data = "empty" /\ data' = "genesis" /\ Restored(rpc))
    <3>1. CASE UNCHANGED data
      BY <3>1
    <3>2. CASE NodeOpens /\ Owned(pod)
      BY <3>2, NodeFindsSnapshot DEF RestoreInv, PodInv
    <3>3. CASE NodeOpens /\ ~Owned(pod)
      BY <3>3 DEF NodeOpens
    <3>4. UNCHANGED data \/ NodeOpens
      BY <1>4, Zenon
    <3> QED
      BY <3>1, <3>2, <3>3, <3>4
  <2>5. rpc.enable => data' = data
    BY <2>4 DEF RestoreInv, RestoredInv
  <2>6. cache.job # Nil /\ cache.job.succeeded => data' = data
    BY <2>4 DEF RestoreInv, JobInv
  <2>7. JobInv' /\ RestoredInv' /\ NoSecondJobInv'
    BY <1>1, <2>1, <2>4, <2>5, <2>6 DEF RestoreInv, JobInv, RestoredInv, NoSecondJobInv
  <2>8. VolumeInv'
    BY <1>1, <2>1 DEF RestoreInv, VolumeInv
  <2>9. LabelInv'
    BY <1>1, <2>1, <2>4 DEF RestoreInv, LabelInv
  <2> QED
    BY <1>2, <2>3, <2>7, <2>8, <2>9 DEF RestoreInv
<1>5. CASE BindPvc \/ BindScratch \/ RemovePvc \/ RemoveScratch \/ KillOrphan
           \/ PodBeginsServing \/ CollectPvc \/ CollectScratch
  <2>1. UNCHANGED <<job, pod, data, orphan>>
    BY <1>5 DEF BindPvc, BindScratch, RemovePvc, RemoveScratch, KillOrphan,
                PodBeginsServing, CollectPvc, CollectScratch, RestoreInv, VolumeInv,
                JobInv
  <2>2. pvc' = pvc \/ (pvc # Nil /\ pvc' = [pvc EXCEPT !.bound = TRUE])
    BY <1>5 DEF BindPvc, BindScratch, RemovePvc, RemoveScratch, KillOrphan, Provisionable,
                PodBeginsServing, CollectPvc, CollectScratch, Abandoned, Owned,
                RestoreInv, VolumeInv, CopiesInv, JobInv
  <2>3. VolumeInv'
    <3>1. CASE pvc' = pvc
      BY <1>1, <3>1 DEF RestoreInv, VolumeInv
    <3>2. CASE pvc # Nil /\ pvc' = [pvc EXCEPT !.bound = TRUE]
      <4>1. pvc \in Claims /\ pvc' \in Claims /\ pvc'.owner = pvc.owner
            /\ pvc'.terminating = pvc.terminating
        BY <3>2 DEF TypeOK, ObjectsOK, Claims
      <4> QED
        BY <1>1, <3>2, <4>1, NilAssumption DEF RestoreInv, VolumeInv
    <3> QED
      BY <2>2, <3>1, <3>2
  <2>4. JobInv' /\ RestoredInv' /\ NoSecondJobInv' /\ PodInv' /\ LabelInv'
    BY <1>1, <2>1 DEF RestoreInv, JobInv, RestoredInv, NoSecondJobInv, PodInv, Owned,
       LabelInv
  <2> QED
    BY <1>2, <2>3, <2>4 DEF RestoreInv
<1> QED
  BY <1>3, <1>4, <1>5 DEF NodeStep, CollectGarbage

\* Users who leave the StarknetRPC, its main volume and the switch in place.
LEMMA UsersKeepRestoreInv ==
    ASSUME RestoreSettled, TypeOK, RestoreInv, UserStep
    PROVE  RestoreInv'
<1> USE DEF owned, containers, process
<1>1. EditImage \/ DeletePodByHand \/ CreateForeignPod
  BY DEF RestoreSettled, UserStep, EditEnable, DeletePvc, DeleteRpc, CreateRpc, Edit
<1>2. UNCHANGED <<pvc, job, data, orphan, cache, pc, cluster>>
  BY <1>1 DEF EditImage, DeletePodByHand, CreateForeignPod, Edit
<1>3. /\ rpc # Nil /\ rpc' \in RpcObjects
      /\ rpc'.uid = rpc.uid /\ rpc'.enable = rpc.enable
      /\ rpc'.conditions = rpc.conditions
  <2>1. rpc # Nil /\ rpc \in RpcObjects
    BY DEF RestoreInv, CopiesInv, TypeOK, ObjectsOK
  <2> QED
    BY <1>1, <2>1, EditsMakeNewVersions, ImageEditKeepsEnable
       DEF DeletePodByHand, CreateForeignPod
<1>4. Restored(rpc') = Restored(rpc)
  BY <1>3 DEF Restored
<1>5. CopiesInv'
  <2>1. FaithfulCopy(cache.rpc)'
    BY <1>2, <1>3, <1>4 DEF RestoreInv, CopiesInv, FaithfulCopy
  <2>2. FaithfulCopy(cluster)'
    BY <1>2, <1>3, <1>4 DEF RestoreInv, CopiesInv, FaithfulCopy
  <2> QED
    BY <1>3, <2>1, <2>2, NilAssumption DEF CopiesInv
<1>6. VolumeInv' /\ JobInv' /\ RestoredInv' /\ NoSecondJobInv' /\ LabelInv'
  BY <1>2, <1>3, <1>4
     DEF RestoreInv, VolumeInv, JobInv, RestoredInv, NoSecondJobInv, LabelInv
<1>7. PodInv'
  <2>1. Owned(pod') => Owned(pod)
    <3>1. CASE EditImage
      BY <3>1 DEF EditImage, Owned
    <3>2. CASE DeletePodByHand
      <4>1. pod \in Pods
        BY <3>2 DEF DeletePodByHand, TypeOK, ObjectsOK
      <4> QED
        BY <3>2, <4>1, DeletedPodTyped DEF DeletePodByHand, Owned
    <3>3. CASE CreateForeignPod
      <4>1. \A management \in BOOLEAN :
                [rv |-> 1, owner |-> NoOwner, image |-> DefaultImage, status |-> "Pending",
                 terminating |-> FALSE, management |-> management] \in Pods
        BY ConstantsAssumption DEF NoOwner, Versions, Pods, PodStatuses
      <4> QED
        BY <3>3, <4>1, NewPodTyped DEF CreateForeignPod, Owned
    <3> QED
      BY <1>1, <3>1, <3>2, <3>3
  <2> QED
    BY <1>4, <2>1 DEF RestoreInv, PodInv
<1>8. AvailableAfterRestore'
  BY <1>3, <1>4 DEF RestoreInv, AvailableAfterRestore, Reason
<1> QED
  BY <1>5, <1>6, <1>7, <1>8 DEF RestoreInv

\* The cluster just created.
LEMMA RestoreInvInit == Init => RestoreInv
<1> SUFFICES ASSUME Init PROVE RestoreInv
  OBVIOUS
<1>1. rpc # Nil /\ rpc.conditions = NoConditions
  <2>1. rpc \in RpcObjects
    BY NoConditionsTyped, ConstantsAssumption DEF Init, FreshRpc, RpcObjects, Versions
  <2>2. rpc.conditions = NoConditions
    BY DEF Init, FreshRpc
  <2> QED
    BY <2>1, <2>2, NilAssumption
<1>2. ~Restored(rpc) /\ \A reason : ~Reason("Available", reason)
  BY <1>1 DEF Restored, Reason, IsStatusConditionTrue, NoConditions
<1>3. CopiesInv
  BY <1>1 DEF Init, CopiesInv, FaithfulCopy
<1>4. VolumeInv /\ JobInv /\ RestoredInv /\ NoSecondJobInv /\ PodInv
  BY <1>2 DEF Init, VolumeInv, JobInv, RestoredInv, NoSecondJobInv, PodInv, Owned
<1>5. LabelInv
  BY DEF Init, LabelInv, RestoringLabels, CleaningLabels, PodLabels, PodCalls
<1> QED
  BY <1>2, <1>3, <1>4, <1>5 DEF RestoreInv, AvailableAfterRestore

\* Every step of anybody keeps the invariant.
LEMMA RestoreInvStep ==
    RestoreSettled /\ TypeOK /\ RestoreInv /\ [Next]_vars => RestoreInv'
<1>1. RestoreInv /\ UNCHANGED vars => RestoreInv'
  BY DEF vars, objects, owned, containers, process, budgets, RestoreInv, CopiesInv,
         FaithfulCopy, VolumeInv, JobInv, RestoredInv, NoSecondJobInv, LabelInv, PodInv,
         Owned, AvailableAfterRestore, Reason
<1> QED
  BY <1>1, ReconcileKeepsRestoreInv, FailuresKeepRestoreInv, ControllersKeepRestoreInv,
     UsersKeepRestoreInv DEF Next, EnvironmentStep

-----------------------------------------------------------------------------
(* The theorems. *)

\* The invariant: no copy of the StarknetRPC the operator works on, however
\* late its informer, is wrong about the restore, and a recorded restore has
\* its snapshot (controller.go:72, archive_restore.go:29,118).
THEOREM RestoreInvAlways ==
    ASSUME RestoreSettled PROVE Spec => []RestoreInv
<1>1. Init => RestoreInv
  BY RestoreInvInit
<1>2. TypeOK /\ RestoreInv /\ [Next]_vars => RestoreInv'
  BY RestoreInvStep
<1> QED
  BY <1>1, <1>2, TypeCorrect, PTL DEF Spec

\* The node is created only after the restore (controller.go:105,131), with
\* whatever stale copy of the StarknetRPC the Reconcile decides.
THEOREM PodAfterRestore ==
    ASSUME RestoreSettled PROVE Spec => []PodOnlyAfterRestore
<1>1. RestoreInv => PodOnlyAfterRestore
  BY DEF RestoreInv, PodInv, RestoredInv, PodOnlyAfterRestore
<1> QED
  BY <1>1, RestoreInvAlways, PTL

\* The worker that writes the database and the node that opens it never share
\* the volume (archive_restore.go:95-140, controller.go:95-105).
THEOREM WorkerNeverBesideNode ==
    ASSUME RestoreSettled PROVE Spec => []NoWorkerBesideNode
<1>1. RestoreInv => NoWorkerBesideNode
  BY DEF RestoreInv, PodInv, JobInv, RestoredInv, NoWorkerBesideNode, WorkerRuns,
     JobActive
<1> QED
  BY <1>1, RestoreInvAlways, PTL

\* No pod is reported as being created or catching up while the restore is
\* pending (ready.go:15-20, controller.go:131).
THEOREM AvailabilityAfterRestore ==
    ASSUME RestoreSettled PROVE Spec => []AvailableAfterRestore
<1>1. RestoreInv => AvailableAfterRestore
  BY DEF RestoreInv
<1> QED
  BY <1>1, RestoreInvAlways, PTL

\* Cleaning up never deletes a job that still has work to do
\* (archive_restore.go:29-52): who deletes it knows of the restore, which is
\* recorded, for a job that has succeeded.
THEOREM DeletedJobsAreFinished ==
    ASSUME RestoreSettled PROVE Spec => OnlyFinishedJobsDeleted
<1>1. TypeOK /\ RestoreInv /\ [Next]_vars
        => [job # Nil /\ job' = Nil => job.succeeded /\ ~job.active]_job
  <2> SUFFICES ASSUME TypeOK, RestoreInv, [Next]_vars, job # Nil, job' = Nil
               PROVE  job.succeeded /\ ~job.active
    OBVIOUS
  <2>1. pc = "DeleteJob" /\ cluster # Nil
    BY JobComesAndGoes, CopyInHand, NilAssumption DEF DeleteJob
  <2>2. Restored(rpc) /\ rpc.enable
    BY <2>1 DEF RestoreInv, LabelInv, CleaningLabels, CopiesInv, FaithfulCopy, JobInv
  <2> QED
    BY <2>2 DEF RestoreInv, RestoredInv, JobInv
<1> QED
  BY <1>1, TypeCorrect, RestoreInvAlways, PTL DEF Spec, OnlyFinishedJobsDeleted

\* A job is only ever created for an empty volume (archive_restore.go:95-107):
\* with the previous job cleaned up, no copy of the StarknetRPC is old enough
\* to ask for another one.
THEOREM VolumeRestoredOnce ==
    ASSUME RestoreSettled PROVE Spec => OneRestorePerVolume
<1>1. TypeOK /\ RestoreInv /\ [Next]_vars
        => [job = Nil /\ job' # Nil => data = "empty"]_job
  <2> SUFFICES ASSUME TypeOK, RestoreInv, [Next]_vars, job = Nil, job' # Nil
               PROVE  data = "empty"
    OBVIOUS
  <2>1. pc = "CreateJob" /\ cluster # Nil
    BY JobComesAndGoes, CopyInHand, NilAssumption DEF CreateJob
  <2>2. ~Restored(cluster) /\ rpc.enable
    BY <2>1 DEF RestoreInv, LabelInv, RestoringLabels, CopiesInv, FaithfulCopy
  <2> QED
    BY <2>1, <2>2 DEF RestoreInv, NoSecondJobInv
<1> QED
  BY <1>1, TypeCorrect, RestoreInvAlways, PTL DEF Spec, OneRestorePerVolume

=============================================================================

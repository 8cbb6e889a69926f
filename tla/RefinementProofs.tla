--------------------------- MODULE RefinementProofs ---------------------------
(***************************************************************************)
(* Proof that the operator implements RestoreLifecycle, for every value of *)
(* the constants in which users leave the StarknetRPC, its main volume and *)
(* its switch alone: each step is a step of the promise or changes nothing *)
(* the promise speaks of.                                                  *)
(***************************************************************************)
EXTENDS RestoreProofs, RestoreRefinement

-----------------------------------------------------------------------------
(* The promise by itself. *)

\* RestoreLifecycle keeps what it promises.
LEMMA PromiseFollows == Lifecycle!Spec => []Lifecycle!Promise
<1> USE DEF Lifecycle!Promise
<1>1. Lifecycle!Init => Lifecycle!Promise
  BY DEF Lifecycle!Init
<1>2. Lifecycle!Promise /\ [Lifecycle!Next]_(Lifecycle!vars) => Lifecycle!Promise'
  BY DEF Lifecycle!Next, Lifecycle!vars, Lifecycle!Begin, Lifecycle!Attempt,
         Lifecycle!Extract, Lifecycle!Succeed, Lifecycle!Fail, Lifecycle!Record,
         Lifecycle!Forget, Lifecycle!StartNode, Lifecycle!StopNode,
         Lifecycle!SyncFromGenesis
<1> QED
  BY <1>1, <1>2, PTL DEF Lifecycle!Spec

-----------------------------------------------------------------------------
(* Steps the promise does not see, and steps it does. *)

PromiseStep == [Lifecycle!Next]_(Lifecycle!vars)

\* Status updates: only the two that end the restore change the record.
LEMMA ReportsImplement ==
    ASSUME TypeOK, RestoreInv,
           \/ Initialize \/ ResetRestore \/ MarkSkipped \/ MarkProgressing
           \/ MarkFinished \/ MarkFailed \/ MarkCreating \/ MarkCatchingUp
    PROVE  PromiseStep
<1>1. UNCHANGED <<job, data, writer, pod>>
  BY DEF Initialize, ResetRestore, MarkSkipped, MarkProgressing, MarkFinished, MarkFailed,
         MarkCreating, MarkCatchingUp, owned, containers
<1>2. /\ rpc'.enable = rpc.enable
      /\ Restored(rpc) => Restored(rpc')
      /\ Restored(rpc') =>
           \/ Restored(rpc)
           \/ pc \in {"MarkSkipped", "MarkFinished"} /\ cluster = rpc
  BY RestoreReportsKeepRestoreInv, PodReportsKeepRestoreInv
<1>3. CASE Restored(rpc') <=> Restored(rpc)
  <2>1. Restored(rpc') = Restored(rpc)
    BY <1>3 DEF Restored, IsStatusConditionTrue
  <2>2. Work' = Work /\ Owned(pod)' = Owned(pod)
    BY <1>1 DEF Work
  <2> QED
    BY <1>1, <1>2, <2>1, <2>2 DEF PromiseStep, Lifecycle!vars
<1>4. CASE ~Restored(rpc) /\ Restored(rpc')
  <2>1. IF rpc.enable THEN Work = "done" ELSE Work = "none"
    <3>1. CASE pc = "MarkSkipped"
      BY <1>2, <1>4, <3>1 DEF RestoreInv, LabelInv, JobInv, Work
    <3>2. CASE pc = "MarkFinished"
      BY <1>2, <1>4, <3>2
         DEF RestoreInv, LabelInv, RestoringLabels, NoSecondJobInv, CopiesInv,
             FaithfulCopy, Work
    <3> QED
      BY <1>2, <1>4, <3>1, <3>2
  <2>2. Lifecycle!Record
    BY <1>1, <1>2, <1>4, <2>1 DEF Lifecycle!Record, Work, Owned
  <2> QED
    BY <2>2 DEF PromiseStep, Lifecycle!Next
<1> QED
  BY <1>2, <1>3, <1>4

\* The writes of the operator: creating the job begins the restore, deleting
\* it forgets the restore, and the node comes and goes.
LEMMA WritesImplement ==
    ASSUME TypeOK, RestoreInv,
           \/ CreatePvc \/ DeleteJob \/ DeleteScratch \/ CreateScratch \/ CreateJob
           \/ CreatePod \/ UpdateImage \/ DeletePod
    PROVE  PromiseStep
<1> USE DEF owned, containers
<1>1. /\ UNCHANGED <<rpc, data>>
      /\ cluster # Nil
  BY CopyInHand, NilAssumption
     DEF CreatePvc, DeleteJob, DeleteScratch, CreateScratch, CreateJob, CreatePod,
         UpdateImage, DeletePod
<1>2. UNCHANGED <<rpc.enable, data, Restored(rpc)>>
  BY <1>1
<1>3. CASE UNCHANGED <<job, writer>> /\ Owned(pod)' = Owned(pod)
  <2>1. Work' = Work
    BY <1>3 DEF Work
  <2> QED
    BY <1>2, <1>3, <2>1 DEF PromiseStep, Lifecycle!vars
<1>4. CASE DeleteJob /\ job # Nil
  <2>1. Restored(rpc) /\ job.succeeded
    BY <1>1, <1>4 DEF DeleteJob, RestoreInv, LabelInv, CleaningLabels, CopiesInv,
                      FaithfulCopy, JobInv, RestoredInv
  <2>2. Work = "done" /\ Work' = "none" /\ Owned(pod)' = Owned(pod)
    BY <1>4, <2>1 DEF DeleteJob, Work
  <2>3. Lifecycle!Forget
    BY <1>2, <2>1, <2>2 DEF Lifecycle!Forget
  <2> QED
    BY <2>3 DEF PromiseStep, Lifecycle!Next
<1>5. CASE CreateJob /\ job = Nil
  <2>1. rpc.enable /\ ~Restored(cluster)
    BY <1>1, <1>5 DEF CreateJob, RestoreInv, LabelInv, RestoringLabels, CopiesInv,
                      FaithfulCopy
  <2>2. data = "empty" /\ ~Restored(rpc)
    BY <1>1, <1>5, <2>1 DEF RestoreInv, NoSecondJobInv, RestoredInv
  <2>3. job' = GetWantedRestoreJob /\ job' # Nil
    BY <1>5, WantedTyped, CopyInHand, NilAssumption DEF CreateJob
  <2>4. Work = "none" /\ Work' = "pending" /\ Owned(pod)' = Owned(pod)
    <3>1. ~job'.succeeded /\ ~job'.active /\ ~JobFinished(job')
      BY <2>3, ConstantsAssumption DEF GetWantedRestoreJob, JobFinished
    <3> QED
      BY <1>5, <2>3, <3>1 DEF CreateJob, Work
  <2>5. Lifecycle!Begin
    BY <1>2, <2>1, <2>2, <2>4 DEF Lifecycle!Begin
  <2> QED
    BY <2>5 DEF PromiseStep, Lifecycle!Next
<1>6. CASE UNCHANGED <<job, writer>> /\ Owned(pod)' # Owned(pod)
  <2>1. Restored(rpc)
    <3>1. pc \in PodLabels
      BY <1>6 DEF CreatePvc, DeleteJob, DeleteScratch, CreateScratch, CreateJob,
         CreatePod,
                  UpdateImage, DeletePod, PodLabels, PodCalls
    <3> QED
      BY <1>1, <3>1 DEF RestoreInv, LabelInv, CopiesInv, FaithfulCopy
  <2>2. Work' = Work
    BY <1>6 DEF Work
  <2>3. Lifecycle!StartNode \/ Lifecycle!StopNode
    BY <1>2, <1>6, <2>1, <2>2 DEF Lifecycle!StartNode, Lifecycle!StopNode, Owned
  <2> QED
    BY <2>3 DEF PromiseStep, Lifecycle!Next
<1>7. \/ UNCHANGED <<job, writer>>
      \/ DeleteJob /\ job # Nil
      \/ CreateJob /\ job = Nil
  BY DEF CreatePvc, DeleteJob, DeleteScratch, CreateScratch, CreateJob, CreatePod,
         UpdateImage, DeletePod, TypeOK, WorkersOK, JobActive
<1> QED
  BY <1>3, <1>4, <1>5, <1>6, <1>7

\* Reads, watches, failed calls and crashes are not seen at all.
LEMMA CopiesUnseen ==
    ASSUME \/ StartReconcile \/ GetScratch \/ EnsurePvcReady \/ GetJob \/ GetPod \/ IsReady
           \/ Watch \/ Abort \/ Crash
    PROVE  PromiseStep
<1>1. UNCHANGED <<rpc, job, data, writer, pod>>
  BY DEF StartReconcile, GetScratch, EnsurePvcReady, GetJob, GetPod, IsReady, Watch,
     SyncRpc,
         SyncPvc, SyncScratch, SyncJob, SyncPod, SyncOwned, CatchUp, Abort, Crash,
         Disturb,
         owned, objects, containers
<1>2. UNCHANGED <<rpc.enable, data, Restored(rpc), Owned(pod), Work>>
  BY <1>1 DEF Work
<1> QED
  BY <1>2 DEF PromiseStep, Lifecycle!vars

\* The worker makes the attempts.
LEMMA WorkerImplements ==
    ASSUME TypeOK, RestoreInv, StartWorker \/ WorkerOpens \/ WorkerSucceeds \/ WorkerFails
    PROVE  PromiseStep
<1> USE DEF owned, objects, containers, process
<1>1. /\ job # Nil /\ job \in Jobs /\ ~job.succeeded
      /\ job' \in Jobs /\ job' # Nil
  <2>1. job # Nil /\ job \in Jobs
    BY DEF StartWorker, WorkerOpens, WorkerSucceeds, WorkerFails, JobPending, JobActive,
           RestoreInv, JobInv, TypeOK, ObjectsOK
  <2>2. ~job.succeeded
    BY DEF StartWorker, WorkerOpens, WorkerSucceeds, WorkerFails, JobPending, JobActive,
           JobFinished, RestoreInv, JobInv
  <2>3. job' \in Jobs
    <3>1. CASE StartWorker \/ WorkerOpens \/ WorkerSucceeds
      BY <2>1, <3>1 DEF StartWorker, WorkerOpens, WorkerSucceeds, Jobs
    <3>2. CASE WorkerFails
      <4>1. job.failures + 1 \in 0 .. BackoffLimit + 1
        BY <2>1, <3>2, ConstantsAssumption
           DEF WorkerFails, TypeOK, WorkersOK, JobFinished, Jobs
      <4> QED
        BY <2>1, <3>2, <4>1 DEF WorkerFails, Jobs
    <3> QED
      BY <3>1, <3>2
  <2> QED
    BY <2>1, <2>2, <2>3, NilAssumption
<1>2. UNCHANGED <<rpc.enable, Restored(rpc), Owned(pod)>>
  BY DEF StartWorker, WorkerOpens, WorkerSucceeds, WorkerFails
<1>3. CASE StartWorker
  <2>1. writer # "job"
    BY <1>3 DEF StartWorker, JobPending, TypeOK, WorkersOK, JobActive
  <2>2. Work = "pending" /\ Work' = "running" /\ data' = data
    BY <1>1, <1>3, <2>1 DEF StartWorker, JobPending, Work, Jobs
  <2>3. Lifecycle!Attempt
    BY <1>2, <2>2 DEF Lifecycle!Attempt
  <2> QED
    BY <2>3 DEF PromiseStep, Lifecycle!Next
<1>4. CASE WorkerOpens
  <2>1. JobActive /\ writer # "job" /\ writer' = "job"
    BY <1>4 DEF WorkerOpens, RestoreInv, JobInv, TypeOK, WorkersOK
  <2>2. Work = "running" /\ Work' = "extracting"
    BY <1>1, <1>4, <2>1 DEF WorkerOpens, JobActive, Work
  <2>3. Lifecycle!Extract
    BY <1>2, <1>4, <2>2 DEF WorkerOpens, Lifecycle!Extract
  <2> QED
    BY <2>3 DEF PromiseStep, Lifecycle!Next
<1>5. CASE WorkerSucceeds
  <2>1. data = "partial"
    BY <1>5 DEF WorkerSucceeds, TypeOK, WorkersOK, RestoreInv, JobInv
  <2>2. Work = "extracting" /\ Work' = "done" /\ data' = "snapshot"
    BY <1>1, <1>5, <2>1 DEF WorkerSucceeds, JobActive, Work, Jobs
  <2>3. Lifecycle!Succeed
    BY <1>2, <2>2 DEF Lifecycle!Succeed
  <2> QED
    BY <2>3 DEF PromiseStep, Lifecycle!Next
<1>6. CASE WorkerFails
  <2>1. /\ Work = IF writer = "job" THEN "extracting" ELSE "running"
        /\ Work' \in {"pending", "failed"}
    BY <1>1, <1>6 DEF WorkerFails, JobActive, Work, Jobs
  <2>2. data' \in IF Work = "running" THEN {data} ELSE {"empty", "partial", "snapshot"}
    BY <1>6, <2>1
       DEF WorkerFails, LetGo, LeftBehind, TypeOK, WorkersOK, RestoreInv, JobInv
  <2>3. Lifecycle!Fail
    BY <1>2, <2>1, <2>2 DEF Lifecycle!Fail
  <2> QED
    BY <2>3 DEF PromiseStep, Lifecycle!Next
<1> QED
  BY <1>3, <1>4, <1>5, <1>6

\* The pod: the kubelet and the garbage collector only ever take it away, and
\* a node on an empty volume is one whose restore nobody wants.
LEMMA PodChangesImplement ==
    ASSUME TypeOK, RestoreInv,
           \/ SchedulePod \/ KubeletStartsPod \/ PodBreaks \/ ContainerRestarts
           \/ PodRemoved \/ CollectPod \/ DeletePodByHand \/ CreateForeignPod
    PROVE  PromiseStep
<1> USE DEF owned, objects, containers, process
<1>1. UNCHANGED <<rpc, job, writer>>
  BY DEF SchedulePod, KubeletStartsPod, PodBreaks, ContainerRestarts, PodRemoved,
     CollectPod,
         DeletePodByHand, CreateForeignPod, Edit
<1>2. UNCHANGED <<rpc.enable, Restored(rpc), Work>>
  BY <1>1 DEF Work
<1>3. Owned(pod)' => Owned(pod)
  <2>1. CASE CreateForeignPod
    <3>1. \A management \in BOOLEAN :
              [rv |-> 1, owner |-> NoOwner, image |-> DefaultImage, status |-> "Pending",
               terminating |-> FALSE, management |-> management] \in Pods
      BY ConstantsAssumption DEF NoOwner, Versions, Pods, PodStatuses
    <3> QED
      BY <2>1, <3>1, NewPodTyped DEF CreateForeignPod, Owned
  <2>2. CASE ~CreateForeignPod
    <3>1. pod # Nil /\ pod \in Pods
      BY <2>2 DEF SchedulePod, KubeletStartsPod, PodBreaks, ContainerRestarts, PodRemoved,
                  CollectPod, DeletePodByHand, Abandoned, Owned, TypeOK, ObjectsOK
    <3> QED
      BY <2>2, <3>1, PodKeepsItsOwner DEF Owned
  <2> QED
    BY <2>1, <2>2
<1>4. CASE data' = data
  <2>1. CASE Owned(pod)' = Owned(pod)
    BY <1>2, <1>4, <2>1 DEF PromiseStep, Lifecycle!vars
  <2>2. CASE Owned(pod)' # Owned(pod)
    <3>1. Lifecycle!StopNode
      BY <1>2, <1>3, <1>4, <2>2 DEF Lifecycle!StopNode, Owned
    <3> QED
      BY <3>1 DEF PromiseStep, Lifecycle!Next
  <2> QED
    BY <2>1, <2>2
<1>5. CASE data' # data
  <2>1. KubeletStartsPod \/ ContainerRestarts
    BY <1>5 DEF SchedulePod, PodBreaks, PodRemoved, CollectPod, DeletePodByHand,
                CreateForeignPod, Edit
  <2>2. Owned(pod) /\ data = "empty" /\ data' = "genesis" /\ ~rpc.enable
    <3>1. NodeOpens
      BY <2>1 DEF KubeletStartsPod, ContainerRestarts
    <3>2. Owned(pod)
      BY <1>5, <3>1 DEF NodeOpens
    <3> QED
      BY <1>5, <3>1, <3>2, NodeFindsSnapshot
  <2>3. Owned(pod)' = Owned(pod)
    <3>1. pod \in Pods /\ pod # Nil
      BY <2>2 DEF Owned, TypeOK, ObjectsOK
    <3>2. pod' # Nil /\ pod'.owner = pod.owner
      BY <2>1, <3>1, PodKeepsItsOwner
    <3> QED
      BY <3>1, <3>2 DEF Owned
  <2>4. Lifecycle!SyncFromGenesis
    BY <1>2, <2>2, <2>3 DEF Lifecycle!SyncFromGenesis
  <2> QED
    BY <2>4 DEF PromiseStep, Lifecycle!Next
<1> QED
  BY <1>4, <1>5

\* Claims, images and containers that answer.
LEMMA OthersUnseen ==
    ASSUME RestoreSettled, TypeOK, RestoreInv,
           \/ BindPvc \/ BindScratch \/ RemovePvc \/ RemoveScratch \/ KillOrphan
           \/ PodBeginsServing \/ CollectPvc \/ CollectScratch
           \/ EditEnable \/ EditImage \/ DeletePvc \/ DeleteRpc \/ CreateRpc
    PROVE  PromiseStep
<1> USE DEF owned, objects, containers, process
<1>1. UNCHANGED <<job, data, writer, pod>>
  BY DEF BindPvc, BindScratch, RemovePvc, RemoveScratch, KillOrphan, PodBeginsServing,
         CollectPvc, CollectScratch, RestoreSettled, EditEnable, EditImage, DeletePvc,
         DeleteRpc, CreateRpc, Edit, RestoreInv, VolumeInv, JobInv
<1>2. UNCHANGED <<rpc.enable, Restored(rpc)>>
  <2>1. CASE EditImage
    <3>1. rpc'.conditions = rpc.conditions /\ rpc'.enable = rpc.enable
      BY <2>1, EditsMakeNewVersions, ImageEditKeepsEnable
    <3> QED
      BY <3>1 DEF Restored
  <2>2. CASE ~EditImage
    BY <2>2 DEF BindPvc, BindScratch, RemovePvc, RemoveScratch, KillOrphan,
                PodBeginsServing, CollectPvc, CollectScratch, RestoreSettled, EditEnable,
                DeletePvc, DeleteRpc, CreateRpc, Edit
  <2> QED
    BY <2>1, <2>2
<1>3. UNCHANGED <<Work, Owned(pod)>>
  BY <1>1 DEF Work
<1> QED
  BY <1>1, <1>2, <1>3 DEF PromiseStep, Lifecycle!vars

-----------------------------------------------------------------------------
(* The theorems. *)

\* Initial states map to initial states.
LEMMA InitImplements == Init => Lifecycle!Init
<1> SUFFICES ASSUME Init PROVE Lifecycle!Init
  OBVIOUS
<1>1. ~Restored(rpc) /\ rpc.enable \in BOOLEAN
  BY ConstantsAssumption
     DEF Init, FreshRpc, Restored, IsStatusConditionTrue, NoConditions
<1> QED
  BY <1>1 DEF Init, Lifecycle!Init, Work, Owned

\* The operator implements the promise: whatever the caches, failed calls and
\* crashes do to Reconcile (controller.go:67-137), what the cluster shows of
\* the restore and the node is a behaviour of RestoreLifecycle.
THEOREM OperatorImplementsLifecycle ==
    ASSUME RestoreSettled PROVE Spec => LifecycleImplemented
<1>1. Init => Lifecycle!Init
  BY InitImplements
<1>2. TypeOK /\ RestoreInv /\ [Next]_vars => [Lifecycle!Next]_(Lifecycle!vars)
  <2>1. UNCHANGED vars => PromiseStep
    <3> SUFFICES ASSUME UNCHANGED vars PROVE PromiseStep
      OBVIOUS
    <3>1. UNCHANGED <<rpc, job, data, writer, pod>>
      BY DEF vars, owned, objects, containers
    <3>2. UNCHANGED <<rpc.enable, data, Restored(rpc), Owned(pod), Work>>
      BY <3>1 DEF Work
    <3> QED
      BY <3>2 DEF PromiseStep, Lifecycle!vars
  <2>2. TypeOK /\ RestoreInv /\ ReconcileStep => PromiseStep
    BY ReportsImplement, WritesImplement, CopiesUnseen
       DEF ReconcileStep, ArchiveStep, PodStep
  <2>3. TypeOK /\ RestoreInv /\ EnvironmentStep => PromiseStep
    BY CopiesUnseen, WorkerImplements, PodChangesImplement, OthersUnseen
       DEF EnvironmentStep, NodeStep, CollectGarbage, UserStep
  <2>4. Abort \/ Crash => PromiseStep
    BY CopiesUnseen
  <2> QED
    BY <2>1, <2>2, <2>3, <2>4 DEF Next, PromiseStep
<1> QED
  BY <1>1, <1>2, TypeCorrect, RestoreInvAlways, PTL
     DEF Spec, LifecycleImplemented, Lifecycle!Spec

\* Hence the promise: a record of a wanted restore is worth its snapshot, a
\* restore neither done nor recorded has left the volume empty, and there is
\* no node without the record (controller.go:105,131).
THEOREM PromiseKept ==
    ASSUME RestoreSettled PROVE Spec => []Lifecycle!Promise
  BY OperatorImplementsLifecycle, PromiseFollows, PTL DEF LifecycleImplemented

=============================================================================

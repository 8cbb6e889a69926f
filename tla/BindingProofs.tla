--------------------------- MODULE BindingProofs ---------------------------
(***************************************************************************)
(* Proof that a restore needs volumes that are bound before they are used: *)
(* where nothing binds them, the job is never made, whatever users do,     *)
(* whatever fails, and for every value of the constants.                   *)
(***************************************************************************)
EXTENDS ReconcilerProofs, SwitchInvariant

\* The scratch volume as anybody leaves it: gone, newly made, or as it was
\* but for a deletion mark; nobody binds it while there is no job.
LEMMA ScratchStaysUnbound ==
    ASSUME TypeOK, UnboundInv, NeverBound, Next
    PROVE  UnboundClaim(scratch')
<1> USE DEF owned, objects, containers, process, budgets, InProgress
<1>1. CASE CreateScratch \/ DeleteScratch
  <2>1. scratch \in Claims \cup {Nil}
    BY DEF TypeOK, ObjectsOK
  <2> QED
    BY <1>1, <2>1 DEF CreateScratch, DeleteScratch, GetWantedRestorePvc, UnboundInv,
                      UnboundClaim, Claims
<1>2. CASE CollectScratch \/ RemoveScratch
  <2>1. scratch \in Claims \cup {Nil}
    BY DEF TypeOK, ObjectsOK
  <2> QED
    BY <1>2, <2>1 DEF CollectScratch, RemoveScratch, Abandoned, Owned, UnboundInv,
                      UnboundClaim, Claims
<1>3. ~BindScratch
  <2>1. ~JobPending /\ (scratch # Nil => scratch.class = StorageClass)
    BY DEF JobPending, UnboundInv, UnboundClaim
  <2> QED
    BY <2>1 DEF BindScratch, Provisionable, NeverBound
<1>4. ASSUME UNCHANGED scratch PROVE UnboundClaim(scratch')
  BY <1>4 DEF UnboundInv, UnboundClaim
<1>5. CASE Abort \/ Crash \/ Watch \/ UserStep
  BY <1>4, <1>5 DEF Abort, Crash, Disturb, Watch, SyncRpc, SyncPvc, SyncScratch, SyncJob,
     SyncPod, SyncOwned, CatchUp, UserStep, EditEnable, EditImage, DeletePvc,
     DeletePodByHand, DeleteRpc, CreateRpc, CreateForeignPod
<1>6. CASE (NodeStep \/ CollectGarbage) /\ ~BindScratch /\ ~RemoveScratch /\ ~CollectScratch
  BY <1>4, <1>6 DEF NodeStep, CollectGarbage, BindPvc, RemovePvc,
     SchedulePod, StartWorker, WorkerOpens, WorkerSucceeds, WorkerFails, KillOrphan,
     KubeletStartsPod, PodBeginsServing, PodBreaks,
     ContainerRestarts, PodRemoved, CollectPvc, CollectPod
<1>7. CASE ReconcileStep /\ ~CreateScratch /\ ~DeleteScratch
  BY <1>4, <1>7 DEF ReconcileStep, ArchiveStep, PodStep, StartReconcile, Initialize,
     CreatePvc, ResetRestore, DeleteJob, MarkSkipped, GetScratch, EnsurePvcReady,
     CreateJob,
     MarkProgressing, GetJob, MarkFinished, MarkFailed, CreatePod, MarkCreating, GetPod,
     UpdateImage, DeletePod, IsReady, MarkCatchingUp
<1> QED
  BY <1>1, <1>2, <1>3, <1>5, <1>6, <1>7 DEF Next, EnvironmentStep

\* The cached claim is one the store has had; the watch and the restart copy
\* what is stored now.
LEMMA CachedScratchStaysUnbound ==
    ASSUME TypeOK, UnboundInv, NeverBound, Next
    PROVE  UnboundClaim(cache'.scratch)
<1> USE DEF owned, objects, containers, process, budgets, InProgress
<1>1. cache'.scratch \in {cache.scratch, scratch}
  <2>1. CASE Watch \/ Crash
    BY <2>1 DEF Watch, SyncRpc, SyncPvc, SyncScratch, SyncJob, SyncPod, SyncOwned,
       CatchUp,
                Crash, TypeOK, Caches
  <2>2. CASE Abort \/ UserStep \/ NodeStep \/ CollectGarbage
    BY <2>2 DEF Abort, UserStep, EditEnable, EditImage, DeletePvc, DeletePodByHand,
       DeleteRpc, CreateRpc, CreateForeignPod, Edit, NodeStep, CollectGarbage, BindPvc,
       BindScratch, RemovePvc, RemoveScratch, SchedulePod, StartWorker, WorkerOpens,
       WorkerSucceeds, WorkerFails, KillOrphan, KubeletStartsPod, PodBeginsServing,
       PodBreaks, ContainerRestarts,
       PodRemoved, CollectPvc, CollectScratch, CollectPod
  <2>3. CASE ReconcileStep
    BY <2>3 DEF ReconcileStep, ArchiveStep, PodStep, StartReconcile, Initialize,
       CreatePvc, ResetRestore, DeleteJob, DeleteScratch, CreateScratch, MarkSkipped,
       GetScratch, EnsurePvcReady, CreateJob, MarkProgressing, GetJob, MarkFinished,
       MarkFailed, CreatePod, MarkCreating, GetPod, UpdateImage, DeletePod, IsReady,
       MarkCatchingUp
  <2> QED
    BY <2>1, <2>2, <2>3 DEF Next, EnvironmentStep
<1> QED
  BY <1>1 DEF UnboundInv, UnboundClaim

Waiting ==
    {"EnsurePvcReady", "CreateJob", "MarkProgressing", "GetJob", "MarkFinished",
     "MarkFailed"}

\* Reconcile does not get past the wait for the scratch volume, so that no
\* job is made.
LEMMA NobodyPassesTheWait ==
    ASSUME TypeOK, UnboundInv, NeverBound, Next
    PROVE  job' = Nil /\ pc' \notin Waiting
<1> USE DEF owned, objects, containers, process, budgets, InProgress
<1>1. job = Nil /\ pc \notin Waiting
  BY DEF UnboundInv, Waiting
<1>2. CASE Abort \/ Crash \/ Watch \/ UserStep
  BY <1>1, <1>2 DEF Abort, Crash, Disturb, Return, Watch, SyncRpc, SyncPvc, SyncScratch,
     SyncJob, SyncPod, SyncOwned, CatchUp, UserStep, EditEnable, EditImage, DeletePvc,
     DeletePodByHand, DeleteRpc, CreateRpc, CreateForeignPod, Edit, Waiting
<1>3. CASE NodeStep \/ CollectGarbage
  BY <1>1, <1>3 DEF NodeStep, CollectGarbage, BindPvc, BindScratch, RemovePvc,
     RemoveScratch, SchedulePod, StartWorker, JobPending, WorkerOpens, WorkerSucceeds,
     WorkerFails, JobActive, KillOrphan, KubeletStartsPod, PodBeginsServing, PodBreaks,
     ContainerRestarts, PodRemoved,
     CollectPvc, CollectScratch, CollectPod
<1>4. CASE ReconcileStep
  <2>1. ~(EnsurePvcReady \/ CreateJob \/ MarkProgressing \/ GetJob \/ MarkFinished \/ MarkFailed)
    BY <1>1 DEF EnsurePvcReady, CreateJob, MarkProgressing, GetJob, MarkFinished,
                MarkFailed, Waiting
  <2>2. CASE GetScratch
    BY <1>1, <2>2 DEF GetScratch, Return, isReady, UnboundInv, UnboundClaim, Waiting
  <2>3. CASE StartReconcile \/ DeleteJob \/ DeleteScratch \/ CreateScratch \/ MarkSkipped
    BY <1>1, <2>3 DEF StartReconcile, DeleteJob, DeleteScratch, CreateScratch,
       MarkSkipped,
       SetPhases, Gate, Proceed, Return, Waiting
  <2>4. CASE Initialize \/ CreatePvc \/ ResetRestore
    BY <1>1, <2>4 DEF Initialize, CreatePvc, ResetRestore, SetPhases, EnterArchiveRestore,
       Proceed, Return, Waiting
  <2>5. CASE PodStep
    BY <1>1, <2>5 DEF PodStep, CreatePod, MarkCreating, GetPod, UpdateImage, DeletePod,
       IsReady, MarkCatchingUp, SetPhases, Inspect, Proceed, Return, Waiting
  <2> QED
    BY <1>4, <2>1, <2>2, <2>3, <2>4, <2>5 DEF ReconcileStep, ArchiveStep
<1> QED
  BY <1>2, <1>3, <1>4 DEF Next, EnvironmentStep

\* The deadlock of archive_restore.go:78-107, stated from both
\* sides: the scratch volume waits for the job to bind it, the job for the
\* scratch volume to be bound.
THEOREM UnboundInvAlways == Spec => []UnboundInv
<1>1. Init => UnboundInv
  BY DEF Init, UnboundInv, UnboundClaim
<1>2. TypeOK /\ UnboundInv /\ [Next]_vars => UnboundInv'
  <2>1. UnboundInv /\ UNCHANGED vars => UnboundInv'
    BY DEF vars, objects, owned, process, UnboundInv, UnboundClaim, NeverBound
  <2>2. ASSUME TypeOK, UnboundInv, Next PROVE UnboundInv'
    <3> SUFFICES ASSUME NeverBound
                 PROVE /\ job' = Nil
                       /\ UnboundClaim(scratch') /\ UnboundClaim(cache'.scratch)
                       /\ pc' \notin Waiting
      BY DEF UnboundInv, UnboundClaim, NeverBound, Waiting
    <3> QED
      BY <2>2, ScratchStaysUnbound, CachedScratchStaysUnbound, NobodyPassesTheWait
  <2> QED
    BY <2>1, <2>2
<1> QED
  BY <1>1, <1>2, TypeCorrect, PTL DEF Spec

\* Where nothing binds a volume before its first use, no restore ever begins
\* (archive_restore.go:78-107).
THEOREM NoRestoreWithoutBoundVolumes == Spec => []RestoreNeedsBoundVolumes
<1>1. UnboundInv => RestoreNeedsBoundVolumes
  BY DEF UnboundInv, RestoreNeedsBoundVolumes
<1> QED
  BY <1>1, UnboundInvAlways, PTL

=============================================================================

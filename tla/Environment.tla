---------------------------- MODULE Environment ----------------------------
(***************************************************************************)
(* Everybody but the operator: the users of the cluster, the controllers   *)
(* of Kubernetes, the kubelet, the restore worker inside the job, and the  *)
(* watches that feed the manager's cache.  Each action leaves the          *)
(* Reconcile in progress alone; only a watch event touches the queue.      *)
(***************************************************************************)
EXTENDS Cluster

InProgress == <<pc, cluster, podObj>>

-----------------------------------------------------------------------------
(* Watches.  An informer catches up with the store at any later time, each *)
(* kind on its own; the events of owned objects enqueue their StarknetRPC. *)

CatchUp(kind, object) ==
    /\ cache' = [cache EXCEPT ![kind] = object]
    /\ UNCHANGED <<rpc, job, pvc, scratch, pod, containers, InProgress, budgets>>

SyncRpc ==
    /\ cache.rpc # rpc
    /\ CatchUp("rpc", rpc)
    /\ queued' = TRUE
    /\ UNCHANGED news

SyncJob ==
    /\ cache.job # job
    /\ CatchUp("job", job)
    /\ UNCHANGED <<queued, news>>

\* Variant: the kind is not among those of SetupWithManager.
SyncUnwatchedKind(kind, object) ==
    /\ kind \in news \/ cache[kind] # object
    /\ CatchUp(kind, object)
    /\ news' = news \ {kind}
    /\ UNCHANGED queued

SyncOwned(kind, object) ==
    /\ kind \in news \/ cache[kind] # object
    /\ CatchUp(kind, object)
    /\ queued' = (queued \/ kind \in news)
    /\ news' = news \ {kind}

SyncPvc == SyncOwned("pvc", pvc)
SyncScratch == SyncOwned("scratch", scratch)
SyncPod == SyncOwned("pod", pod)

Watch == SyncRpc \/ SyncPvc \/ SyncScratch \/ SyncJob \/ SyncPod

-----------------------------------------------------------------------------
(* Volumes and the scheduler. *)

JobFinished(j) == j.succeeded \/ j.failures > BackoffLimit
JobPending == job # Nil /\ ~job.active /\ ~JobFinished(job)

Usable(claim) == claim # Nil /\ claim.bound /\ ~claim.terminating

HasContainer(p) == p.status \in {"Running", "CrashLoop"}
JobActive == job # Nil /\ job.active
WorkerRuns == orphan \/ JobActive
NodeRuns == Owned(pod) /\ HasContainer(pod)

\* The pvc-protection finalizer holds a claim while a pod that has been given
\* a machine uses it: a node that has not started yet, and the pods that the
\* attempts of a job have left behind, with it.
HeldByNode == Owned(pod) /\ pod.status # "Pending"
HeldByJob == orphan \/ (job # Nil /\ (job.active \/ job.succeeded \/ job.failures > 0))

\* For a claim whose class is the empty string nothing is provisioned; it may
\* find a volume without class that was there before.
Provisionable(claim, consumed) ==
    /\ claim # Nil /\ ~claim.bound /\ ~claim.terminating
    /\ IF claim.class = "" THEN StaticVolumes
       ELSE BindingMode = "Immediate" \/ consumed

BindPvc ==
    /\ Provisionable(pvc, JobPending \/ (Owned(pod) /\ pod.status = "Pending"))
    /\ pvc' = [pvc EXCEPT !.bound = TRUE]
    /\ Announce("pvc", pvc, pvc')
    /\ UNCHANGED <<rpc, scratch, job, pod, containers, process, budgets>>

BindScratch ==
    /\ Provisionable(scratch, JobPending)
    /\ scratch' = [scratch EXCEPT !.bound = TRUE]
    /\ Announce("scratch", scratch, scratch')
    /\ UNCHANGED <<rpc, pvc, job, pod, containers, process, budgets>>

\* Neither the scheduler nor the kubelet takes a pod whose claim is being
\* deleted.
SchedulePod ==
    /\ pod # Nil /\ pod.status = "Pending" /\ ~pod.terminating
    /\ Owned(pod) => Usable(pvc)
    /\ pod' = NewPod([pod EXCEPT !.status = "Scheduled"])
    /\ Announce("pod", pod, pod')
    /\ UNCHANGED <<rpc, pvc, scratch, job, containers, process, budgets>>

RemovePvc ==
    /\ pvc # Nil /\ pvc.terminating
    /\ ~HeldByNode /\ ~HeldByJob
    /\ pvc' = Nil
    /\ data' = "empty"
    /\ Announce("pvc", pvc, pvc')
    /\ UNCHANGED <<rpc, scratch, job, pod, writer, orphan, serving, process, budgets>>

RemoveScratch ==
    /\ scratch # Nil /\ scratch.terminating
    /\ ~HeldByJob
    /\ scratch' = Nil
    /\ Announce("scratch", scratch, scratch')
    /\ UNCHANGED <<rpc, pvc, job, pod, containers, process, budgets>>

-----------------------------------------------------------------------------
(* The restore worker (images/snapshotter/restore.sh under the job         *)
(* controller).  zstd does not overwrite an output file: a worker opens    *)
(* the database on an empty volume only, and fails on any other.  From     *)
(* then on it writes to that file, whoever else may open it.               *)

\* One that dies may have left part of the database behind, or all of it,
\* but nothing of worth where a node has written as well.
LeftBehind == IF data = "partial" THEN {"empty", "partial", "snapshot"} ELSE {data}

StartWorker ==
    /\ JobPending
    /\ Usable(pvc) /\ Usable(scratch)
    /\ job' = [job EXCEPT !.active = TRUE]
    /\ UNCHANGED <<rpc, owned, containers, process, budgets>>

WorkerOpens ==
    /\ data = "empty"
    /\ \/ JobActive /\ writer' = "job"
       \/ orphan /\ writer' = "orphan"
    /\ data' = "partial"
    /\ UNCHANGED <<objects, orphan, serving, process, budgets>>

WorkerSucceeds ==
    /\ JobActive /\ writer = "job"
    /\ data' = IF data = "partial" THEN "snapshot" ELSE data
    /\ writer' = "none"
    /\ job' = [job EXCEPT !.active = FALSE, !.succeeded = TRUE]
    /\ UNCHANGED <<rpc, owned, orphan, serving, process, budgets>>

\* The worker's last breath: of what it was writing, something is left.
LetGo(who) ==
    IF writer = who
    THEN data' \in LeftBehind /\ writer' = "none"
    ELSE UNCHANGED <<data, writer>>

WorkerFails ==
    /\ JobActive
    /\ LetGo("job")
    /\ job' = [job EXCEPT !.active = FALSE, !.failures = @ + 1]
    /\ UNCHANGED <<rpc, owned, orphan, serving, process, budgets>>

\* The garbage collector kills the worker of a deleted job.
KillOrphan ==
    /\ orphan
    /\ orphan' = FALSE
    /\ LetGo("orphan")
    /\ UNCHANGED <<objects, serving, process, budgets>>

-----------------------------------------------------------------------------
(* The kubelet. *)

\* A node started on an empty volume syncs from genesis; one that finds a
\* database still being extracted may refuse it or write to it as well.
NodeOpens ==
    \/ Owned(pod) /\ data = "empty" /\ data' = "genesis"
    \/ Owned(pod) /\ writer # "none" /\ data' = "mixed"
    \/ ~(Owned(pod) /\ data = "empty") /\ UNCHANGED data

KubeletStartsPod ==
    /\ pod # Nil /\ pod.status = "Scheduled" /\ ~pod.terminating
    /\ Owned(pod) => Usable(pvc)
    /\ pod' = NewPod([pod EXCEPT !.status = "Running"])
    /\ NodeOpens
    /\ Announce("pod", pod, pod')
    /\ UNCHANGED <<rpc, pvc, scratch, job, writer, orphan, serving, process, budgets>>

\* The container answers /ready on its port for management (or monitoring).
PodBeginsServing ==
    /\ pod # Nil /\ pod.status = "Running"
    /\ ~serving
    /\ serving' = TRUE
    /\ UNCHANGED <<objects, data, writer, orphan, process, budgets>>

PodBreaks ==
    \E fault \in PodFaults :
        /\ disturbances < MaxDisturbances
        /\ pod # Nil /\ pod.status = "Running" /\ ~pod.terminating
        /\ pod' = NewPod([pod EXCEPT !.status = fault])
        /\ serving' = FALSE
        /\ disturbances' = disturbances + 1
        /\ Announce("pod", pod, pod')
    /\ UNCHANGED <<rpc, pvc, scratch, job, data, writer, orphan, process, edits>>

ContainerRestarts ==
    /\ pod # Nil /\ pod.status = "CrashLoop"
    /\ pod' = NewPod([pod EXCEPT !.status = "Running"])
    /\ NodeOpens
    /\ Announce("pod", pod, pod')
    /\ UNCHANGED <<rpc, pvc, scratch, job, writer, orphan, serving, process, budgets>>

PodRemoved ==
    /\ pod # Nil /\ pod.terminating
    /\ pod' = Nil
    /\ serving' = FALSE
    /\ Announce("pod", pod, pod')
    /\ UNCHANGED <<rpc, pvc, scratch, job, data, writer, orphan, process, budgets>>

-----------------------------------------------------------------------------
(* The garbage collector deletes what a StarknetRPC that is gone owned.    *)

Abandoned(x) ==
    /\ Owned(x)
    /\ IF rpc = Nil THEN TRUE ELSE rpc.uid # x.owner

CollectPvc ==
    /\ Abandoned(pvc) /\ ~pvc.terminating
    /\ pvc' = [pvc EXCEPT !.terminating = TRUE]
    /\ Announce("pvc", pvc, pvc')
    /\ UNCHANGED <<rpc, scratch, job, pod, containers, process, budgets>>

CollectScratch ==
    /\ Abandoned(scratch) /\ ~scratch.terminating
    /\ scratch' = [scratch EXCEPT !.terminating = TRUE]
    /\ Announce("scratch", scratch, scratch')
    /\ UNCHANGED <<rpc, pvc, job, pod, containers, process, budgets>>

CollectPod ==
    /\ Abandoned(pod) /\ ~pod.terminating
    /\ pod' = DeletedPod(pod)
    /\ Announce("pod", pod, pod')
    /\ UNCHANGED <<rpc, pvc, scratch, job, containers, process, budgets>>

CollectGarbage == CollectPvc \/ CollectScratch \/ CollectPod

-----------------------------------------------------------------------------
(* Users. *)

Edit(op) ==
    /\ op \in UserOps
    /\ edits < MaxEdits
    /\ edits' = edits + 1
    /\ UNCHANGED <<containers, process, disturbances>>

EditEnable ==
    /\ Edit("enable")
    /\ rpc # Nil
    /\ rpc' = NewRpc([rpc EXCEPT !.enable = ~@])
    /\ UNCHANGED <<owned, job>>

EditImage ==
    /\ Edit("image")
    /\ rpc # Nil
    /\ \E image \in (Images \cup {Nil}) \ {rpc.image} :
           rpc' = NewRpc([rpc EXCEPT !.image = image])
    /\ UNCHANGED <<owned, job>>

DeletePvc ==
    /\ Edit("deletePvc")
    /\ pvc # Nil /\ ~pvc.terminating
    /\ pvc' = [pvc EXCEPT !.terminating = TRUE]
    /\ Announce("pvc", pvc, pvc')
    /\ UNCHANGED <<rpc, scratch, job, pod>>

DeletePodByHand ==
    /\ Edit("deletePod")
    /\ pod # Nil /\ ~pod.terminating
    /\ pod' = DeletedPod(pod)
    /\ Announce("pod", pod, pod')
    /\ UNCHANGED <<rpc, pvc, scratch, job>>

DeleteRpc ==
    /\ Edit("deleteRpc")
    /\ rpc # Nil
    /\ rpc' = Nil
    /\ UNCHANGED <<owned, job>>

\* A new StarknetRPC under the same name.
FreshRpc(uid, enable) ==
    [uid |-> uid, rv |-> 1, enable |-> enable, image |-> Nil,
     conditions |-> NoConditions]

CreateRpc ==
    /\ Edit("deleteRpc")
    /\ rpc = Nil
    /\ \E enable \in InitialEnable : rpc' = NewRpc(FreshRpc(edits + 1, enable))
    /\ UNCHANGED <<owned, job>>

\* Somebody else's pod under the name <name>-rpc.
CreateForeignPod ==
    /\ Edit("foreignPod")
    /\ pod = Nil
    /\ \E management \in BOOLEAN :
           pod' = NewPod([rv |-> 1, owner |-> NoOwner, image |-> DefaultImage,
                              status |-> "Pending", terminating |-> FALSE,
                              management |-> management])
    /\ Announce("pod", pod, pod')
    /\ UNCHANGED <<rpc, pvc, scratch, job>>

UserStep ==
    \/ EditEnable \/ EditImage \/ DeletePvc \/ DeletePodByHand
    \/ DeleteRpc \/ CreateRpc \/ CreateForeignPod

NodeStep ==
    \/ BindPvc \/ BindScratch \/ RemovePvc \/ RemoveScratch \/ SchedulePod
    \/ StartWorker \/ WorkerOpens \/ WorkerSucceeds \/ WorkerFails \/ KillOrphan
    \/ KubeletStartsPod \/ PodBeginsServing \/ PodBreaks
    \/ ContainerRestarts \/ PodRemoved

EnvironmentStep == Watch \/ NodeStep \/ CollectGarbage \/ UserStep

=============================================================================

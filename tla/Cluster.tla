------------------------------ MODULE Cluster ------------------------------
(***************************************************************************)
(* One StarknetRPC and everything the operator shares with the rest of the *)
(* cluster about it: the objects the API server stores, the containers     *)
(* that touch the main volume, the manager's informer cache and work       *)
(* queue, and the Reconcile call in progress.  This module declares that   *)
(* state, the API calls the handlers are built from (shared by             *)
(* ArchiveRestore, RpcPod and Reconciler), and the actions of everybody    *)
(* who is not the operator: users, the job and volume controllers, the     *)
(* kubelet, the garbage collector.  The latter are external: they are      *)
(* modelled as far as the operator relies on them.                         *)
(***************************************************************************)
EXTENDS Conditions, Naturals

CONSTANTS
    Nil,             \* absent object, unset pointer
    Images,          \* images a user may put in spec.image
    DefaultImage,    \* the image of getPodImage when spec.image is unset
    StorageClass,    \* spec.storage.storageClass, "" when unset
    BindingMode,     \* volumeBindingMode of the storage class
    StaticVolumes,   \* volumes without class made by an administrator
    BackoffLimit,    \* failures after which the job controller gives up
    InitialEnable,   \* values of spec.restoreArchive.enable at creation
    UserOps,         \* what users of the cluster may do
    PodFaults,       \* how a running pod may break
    MaxEdits,        \* bound: user operations in a behaviour
    MaxDisturbances  \* bound: crashes, API errors and pod faults

AllUserOps ==
    {"enable", "image", "deletePvc", "deleteRpc", "deletePod", "foreignPod"}
AllPodFaults == {"CrashLoop", "Evicted", "Failed"}

ASSUME ConstantsAssumption ==
    /\ DefaultImage \in Images
    /\ Nil \notin Images
    /\ StorageClass \in STRING
    /\ BindingMode \in {"Immediate", "WaitForFirstConsumer"}
    /\ StaticVolumes \in BOOLEAN
    /\ BackoffLimit \in Nat
    /\ InitialEnable \subseteq BOOLEAN
    /\ UserOps \subseteq AllUserOps
    /\ PodFaults \subseteq AllPodFaults
    /\ MaxEdits \in Nat
    /\ MaxDisturbances \in Nat

VARIABLES
    rpc,          \* the StarknetRPC
    pvc,          \* claim <name>-storage, the main volume
    scratch,      \* claim <name>-archive-restore
    job,          \* job <name>-archive-restore-job
    pod,          \* pod <name>-rpc
    news,         \* kinds of owned objects with a watch event on its way
    data,         \* content of the main volume
    writer,       \* whose worker is extracting into it: "job", "orphan", "none"
    orphan,       \* a worker of a deleted job is still running
    serving,      \* the pod's container answers /ready
    cache,        \* the manager's informers
    queued,       \* the request is in the work queue
    pc,           \* the next call of the Reconcile in progress
    cluster,      \* its copy of the StarknetRPC
    podObj,       \* its copy of the pod
    edits, disturbances   \* budgets spent

owned      == <<pvc, scratch, pod, news>>
objects    == <<rpc, job, owned>>
containers == <<data, writer, orphan, serving>>
process    == <<cache, queued, pc, cluster, podObj>>
budgets    == <<edits, disturbances>>
vars == <<objects, containers, process, budgets>>

-----------------------------------------------------------------------------
(* Types. *)

NoOwner == 0   \* a pod with no controller reference

\* What sets two versions of an object apart that are otherwise alike; three
\* are enough, for at most two copies of an object are in use.
Versions == 1 .. 3

RpcObjects ==
    [uid : Nat, rv : Versions, enable : BOOLEAN, image : Images \cup {Nil},
     conditions : ConditionLists]
Claims == [owner : Nat, class : STRING, bound : BOOLEAN, terminating : BOOLEAN]
Jobs == [active : BOOLEAN, succeeded : BOOLEAN, failures : 0 .. BackoffLimit + 1]
\* Its phase, with the reasons the operator looks at; "Scheduled" is a pending
\* pod that a machine has been chosen for.
PodStatuses == {"Pending", "Scheduled", "Running"} \cup AllPodFaults
Pods ==
    [rv : Versions, owner : Nat, image : Images, status : PodStatuses,
     terminating : BOOLEAN, management : BOOLEAN]
Caches ==
    [rpc : RpcObjects \cup {Nil}, pvc : Claims \cup {Nil},
     scratch : Claims \cup {Nil}, job : Jobs \cup {Nil}, pod : Pods \cup {Nil}]

\* Nil is no object of any kind.
ASSUME NilAssumption == Nil \notin RpcObjects \cup Claims \cup Jobs \cup Pods

ArchiveCalls ==
    {"DeleteJob", "DeleteScratch", "MarkSkipped", "CreateScratch",
     "CreateJob", "MarkProgressing", "MarkFinished", "MarkFailed"}
PodCalls ==
    {"CreatePod", "MarkCreating", "UpdateImage", "DeletePod", "IsReady",
     "MarkCatchingUp"}
\* The calls that reach the API server, and the reads of the cache.
ApiCalls == {"Initialize", "CreatePvc", "ResetRestore"} \cup ArchiveCalls \cup PodCalls
CacheReads == {"GetScratch", "EnsurePvcReady", "GetJob", "GetPod"}

-----------------------------------------------------------------------------
(* What the handlers look at. *)

Restored(c) == IsStatusConditionTrue(c.conditions, "Restore")

isReady(claim) == claim.bound

\* spec.restoreArchive.enable is a pointer: unset counts as enabled.
RestoreDisabled(c) == ~c.enable

\* Variant: no default image.
SpecImage(c) == c.image

getPodImage(c) == IF c.image # Nil THEN c.image ELSE DefaultImage

\* Variant: crash loops are left alone.
OnlyEvicted(p) == p.status = "Evicted"

shouldPodGetRecreated(p) == p.status \in {"Evicted", "CrashLoop"}

GetWantedPvc(c) ==
    [owner |-> c.uid, class |-> StorageClass, bound |-> FALSE,
     terminating |-> FALSE]

\* Variant: a scratch volume without owner reference.
UnownedRestorePvc(c) ==
    [owner |-> NoOwner, class |-> StorageClass, bound |-> FALSE,
     terminating |-> FALSE]

\* GetWantedRestorePvc takes class and size from spec.storage too.
GetWantedRestorePvc(c) ==
    [owner |-> c.uid, class |-> StorageClass, bound |-> FALSE,
     terminating |-> FALSE]

\* The job carries no owner reference.
GetWantedRestoreJob ==
    [active |-> FALSE, succeeded |-> FALSE, failures |-> 0]

\* Its ports are named "rpc" and "monitoring".
GetWantedPod(c) ==
    [rv |-> 1, owner |-> c.uid, image |-> getPodImage(c),
     status |-> "Pending", terminating |-> FALSE, management |-> FALSE]

-----------------------------------------------------------------------------
(* The API server announces every change of an object to the watches on    *)
(* its kind; SetupWithManager maps an event to the StarknetRPC its object  *)
(* names as controller.  The restore job names none: its events enqueue    *)
(* nothing.                                                                *)

Owned(x) == x # Nil /\ x.owner # NoOwner

Announce(kind, old, new) ==
    news' = IF old # new /\ (Owned(old) \/ Owned(new))
            THEN news \cup {kind} ELSE news

\* The server gives every change of an object a resourceVersion of its own.
\* Here a change makes of it what none of its copies is equal to, also where it
\* is back to what it was before: a copy is the latest version if and only if
\* it is equal to the object.
Version(object, v) == [object EXCEPT !.rv = v]

NewVersion(object, copies) ==
    Version(object, CHOOSE v \in Versions : Version(object, v) \notin copies)

NewRpc(c) == NewVersion(c, {cache.rpc, cluster})
NewPod(p) == NewVersion(p, {cache.pod, podObj})

-----------------------------------------------------------------------------
(* How a Reconcile call continues. *)

\* Reconcile returns; an error and a Result with a delay both requeue.
Return(again) ==
    /\ pc' = "Idle"
    /\ cluster' = Nil
    /\ podObj' = Nil
    /\ queued' = (queued \/ again)

\* On to the call named by label, with the copies c and p in hand.
Proceed(label, c, p) ==
    IF label \in {"Done", "Requeue"}
    THEN Return(label = "Requeue")
    ELSE /\ pc' = label
         /\ cluster' = c
         /\ podObj' = p
         /\ UNCHANGED queued

\* Variant: the update goes through whatever the version (a blind patch).
RpcExists == rpc # Nil

\* Status().Update under optimistic concurrency: the server refuses a copy
\* that is not the latest version, stores nothing when nothing changed, and
\* hands the stored object back to the caller.
UpToDate == rpc # Nil /\ rpc = cluster

Stored(conds) ==
    IF conds = rpc.conditions THEN rpc
    ELSE NewRpc([rpc EXCEPT !.conditions = conds])

SetPhases(conds, next) ==
    \/ /\ UpToDate
       /\ rpc' = Stored(conds)
       /\ Proceed(next, Stored(conds), podObj)
    \/ /\ ~UpToDate
       /\ Return(TRUE)
       /\ UNCHANGED rpc

\* A pod that no kubelet has, or that has ended, is removed at once.
DeletedPod(p) ==
    IF p.status \in {"Scheduled", "Running", "CrashLoop"}
    THEN NewPod([p EXCEPT !.terminating = TRUE])
    ELSE Nil

=============================================================================

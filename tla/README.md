# The StarknetRPC operator in TLA+

This directory is a verification project for the operator in `src/`: TLA+
models of its reconciler, TLC configurations that check them on small
instances, and TLAPS proofs for every value of the constants.

## 1. Inventory

The operator watches `StarknetRPC` objects. For each it keeps a main volume,
restores a database snapshot into that volume with a job, and runs one
pathfinder pod on it.

| Component | State | Operations | Hard behaviour |
|---|---|---|---|
| Status conditions (`utils/condition`, `utils/condition/starknetrpc`) | `Restore` and `Available` in the status of the StarknetRPC | `Initialize`, `SetPhases`, `Apply`, `mark*` | written back from a copy read many calls earlier; optimistic concurrency |
| Main volume (`starknetrpc_pvc.go`) | claim `<name>-storage` | `ReconcilePvc`, `EnsurePvcReady` | two calls that belong together (create, reset the status) |
| Archive restore (`starknetrpc_archive_restore.go`) | claim `<name>-archive-restore`, job `<name>-archive-restore-job` | `ReconcileArchiveRestore` | runs for minutes, no event at its end, three objects to clean up, worker failures, a switch the user may flip |
| RPC pod (`starknetrpc_pod.go`, `utils/reconciler`, `utils/proxy`) | pod `<name>-rpc` | `ReconcilePod`, `CreateOrReconcile`, `ImageReconciler`, `shouldPodGetRecreated`, `IsReady` | stale copies of a pod that others change, replace or own |
| PodMonitor (`starknetrpc_podmonitor.go`) | PodMonitor `<name>-podmonitor` | `ReconcilePodMonitor` | errors dropped; users edit it too; the CRD may be missing, come and go; the comparison can panic |
| Reconcile loop (`starknetrpc_controller.go`) | the manager's work queue and informer cache | `Reconcile`, `SetupWithManager` | order of the handlers, requeues, what triggers it at all |
| Restore worker (`images/snapshotter/restore.sh`) | contents of both volumes | download, verify, extract | dies half-way, is retried, refuses to overwrite |
| Start-up (`cmd/main.go`) | scheme, watches | flags, registration | waits for the cache of every watched kind |

One Reconcile runs at a time per object. It talks to the API server call by
call; reads come from an informer cache that is behind by any amount, writes go
to the server. Between two calls anything may happen: users edit and delete,
the job controller retries, the kubelet starts and restarts containers, the
garbage collector deletes, the manager crashes.

What makes the components correct:

* restore: worker and node never share the volume; the node runs on the
  snapshot; the snapshot is restored once per volume; a recorded restore stays
  recorded; a finished job is noticed, a failed one reported; temporary objects
  go away; where nothing can be bound nothing is begun;
* worker: success means the verified snapshot, whatever killed attempts left;
  a complete database is never lost;
* pod: it is replaced when beyond repair, ends up with the wanted image, and
  its readiness is reported;
* volume: a new volume is a new restore;
* PodMonitor: it ends up as wanted although its errors requeue nothing, keeps
  what users added to it, and never keeps the node from running;
* loop: what is owned disappears with its owner; what cannot succeed is left
  alone; a StarknetRPC made again under an old name is served.

`PROJECT.json` lists the hazards, each at its line with the properties that
cover it.

## 2. Modules

| Module | Models |
|---|---|
| `Conditions` | condition types, reasons, statuses and the transitions on them (pure) |
| `Cluster` | constants and all variables; the objects the handlers want; how a Reconcile proceeds, returns, and updates the status |
| `ArchiveRestore` | `ReconcilePvc`, `ReconcileArchiveRestore`, the gate of `Reconcile` |
| `RpcPod` | `ReconcilePod` with `CreateOrReconcile` and the probe |
| `Environment` | watches, provisioner, job controller and worker, kubelet, garbage collector, users (external, except what `SetupWithManager`, `restore.sh` and the API type say) |
| `Reconciler` | composes them: start of `Reconcile`, failed calls, crashes, `Spec`, fairness, the properties |
| `Expectations` | what comments and docs of the repository say and the code does not do |
| `RestoreLifecycle` | what the operator promises about a restore, with no cache, queue or call in it (abstract specification) |
| `RestoreRefinement` | the mapping under which `Reconciler` implements it |
| `RestoreInvariant` | the inductive invariant of the restore |
| `SwitchInvariant` | the inductive invariants about skips, the switch, restores that are over, and volumes that are never bound |
| `Quiescence` | what is true whenever nothing will call `Reconcile` again, and its inductive invariant |
| `RestoreScript` | `restore.sh` command by command in the pods of the job; `Worker`, an instance of `Environment`, is what it has to look like |
| `PodMonitor` | `ReconcilePodMonitor` at the end of `Reconcile`, the CRD, and the start of the manager; a state machine of its own |
| `MonitorInvariant` | two more promises of `Reconcile` up to the PodMonitor, as claims about states, and their inductive invariants |
| `ReconcilerProofs` | type correctness, and the lemmas about versions, transitions, users and the job, proved |
| `RestoreProofs`, `RefinementProofs`, `SwitchProofs`, `BindingProofs`, `QuiescenceProofs` | the safety of the restore, the refinement, the switch, the restore that never begins, the wake-ups that are never lost, proved |
| `PodMonitorProofs`, `RestoreScriptProofs` | the same for the two other state machines |
| `MCReconciler` | the instance the configurations of `Reconciler` check; `PodMonitor`, `MonitorInvariant` and `RestoreScript` are checked directly |

Three state machines rather than one. `Reconciler` has the worker's attempt as
two actions, the opening of the database and the end of the attempt;
`RestoreScript` takes them apart and is shown to implement them. `Reconciler`
leaves out the PodMonitor, which none of its state depends on. `PodMonitor` has
the rest of `Reconcile` again, in six actions (`NodeStep`: volume, reset of the
record, restore, record, pod, report), as far as it decides whether and for which
StarknetRPC the PodMonitor is reached; it leaves out what stops `Reconcile` on the
way: volumes that are not bound, a restore that is disabled or fails, a pod that
is replaced, late copies of the job.

### State and code

`rpc`, `pvc`, `scratch`, `job`, `pod` are the objects at the API server (`Nil`
when absent); `data` is the content of the main volume (`mixed` when a node may
have written to the database while it was extracted), `writer` whose worker has
opened it and is extracting, `orphan` a worker whose job was deleted in the
background (`archive_restore.go:34`), `serving` whether the node's container
answers. A pending pod that a machine was chosen for is `Scheduled`. `cache` is
the informers' copy of each kind, `queued` the work queue, `news` the kinds with
an event on its way. `pc` names the next call of the Reconcile in progress,
`cluster` and `podObj` its local copies.

One action is one call to the API server or one read of the cache, with
everything the handler decides up to the next one. `Proceed` goes on to a call,
`Return` ends the Reconcile, requeued or not: an error, `Requeue: true` and a
`RequeueAfter` all requeue, at some later time. `SetPhases` is the status
update: it writes the whole object's status, is refused when the copy is not
the latest version, and leaves the stored object in the caller's hands. Cached
reads (`GetScratch`, `EnsurePvcReady`, `GetJob`, `GetPod`) see the cache;
creations and deletions reach the server.

`Variant:` operators are not part of the specification; each is the definition
after it with a plausible mistake, and is what the mutants of `PROJECT.json`
put in its place to see a property fail.

### PodMonitor

`rpc`, `volume`, `job` and `pod` keep what decides about the PodMonitor: the
record of the restore and the uid of the owner. The record is made when the job is
over, whoever made that job and for whichever volume, and taken back when the
volume had to be made anew (`pvc.go:28-36`); `recorded` (history) has the uids it
was ever made for. The volume goes when its owner is gone, at any time or, held by
a pod, never; the job is never collected. `monitor` is the object with its labels
and what is left of its specification (`Specs`: as wanted, drifted in a field the
comparison looks at, in another one, or an endpoint without port); `crd` says
whether the kind exists, `manager` whether the caches have filled since the
manager started. `dropped` notes that the last Reconcile gave up on the PodMonitor
for an error that `controller.go:126-129` logs and drops. A conflict is not noted
there: the change that caused it has an event.

### Restore script

`step` is the command the script is at, `file` the download on the scratch
volume, `content` the database, `status` how the script ended, `opened` whether the
script in the pod is the one that made that database. `Killed` ends the script at
any command without its trap. The operator is reduced to making a job for an empty
volume no worker uses, and deleting the job at any time: the first is what
`OneRestorePerVolume` and `OneWorkerAtATime` say of `Reconciler`. A node may open
the database at any time (`NodeOpensDatabase`), as one let in by a skip does
beside the worker. Seen from `Environment` (`Database`, `Writer`) the database is
partial from its opening until the attempt is counted, mixed if a node got at it.

### Environment

* **Watches.** Each informer jumps to the current object at any time and kind
  by kind; it may skip values between. An event of an owned object enqueues the
  StarknetRPC its controller reference names: `Announce` records that such an
  event exists, `SyncOwned` delivers it. The job has no owner, hence
  `SyncJob` enqueues nothing. Periodic resync (10 hours) and relists that go
  back in time are left out.
* **Failures.** `Abort`: the next call fails, or the answer of the previous
  one is lost after it took effect. `Crash`: the manager restarts with a fresh
  cache and everything queued. Leader election is left out: one manager.
* **Volumes.** A claim is bound; with `WaitForFirstConsumer` only when a pod wants
  it; for the class `""` nothing is provisioned, and it is bound only where an
  administrator has made a volume without class (`StaticVolumes`). A deleted claim
  stays `terminating` while a pod that has been given a machine uses it, one that
  has not started yet included, and while the pods of a job do, finished ones
  included, which go with the job only. Scheduler and kubelet take no pod whose
  claim is terminating: a scheduled pod and a claim marked after that wait for each
  other (`Deadlocked`).
* **Worker.** `restore.sh` ends with `zstd -d -o`, which does not overwrite:
  `WorkerOpens` needs an empty volume, at that moment only. From then on the
  worker writes to its file whatever else happens to it, and may succeed beside a
  node. An attempt that fails leaves nothing, part or all of the database. The job
  controller retries up to `BackoffLimit`. `RestoreScript` has the commands.
* **Garbage collector.** Deletes what names an owner that is gone.
* **Users.** `UserOps` says which operations a configuration allows.

A `resourceVersion` is only ever compared for equality with that of a copy in use,
and there are at most two copies of an object. `NewVersion` gives a changed object
one of three versions (`rv`) that make it differ from both, also where the change
takes it back to what a copy says: a copy is the latest version if and only if it
equals the object. The state space stays finite without a bound on the number of
updates (`NewVersionExists`, `NewVersionIsNew`).

## 3. Runs

Deadlock is not checked: with its budgets spent and everything in place the
system rests. The instances of `Reconciler` have two images.

Passing:

| Run | Question | Instance |
|---|---|---|
| `Restore` | is the restore safe under stale caches, failures and worker retries? Does the operator implement `RestoreLifecycle`? Does a restore that ends, well or badly, get noticed and cleaned up, and is nothing left to do whenever nothing will call `Reconcile`? Checks the inductive invariant of section 4 too | enabled and disabled, 3 disturbances, 1 retry |
| `PodLiveness` | does a node that breaks or is deleted come back, and with the last image? | restore disabled, claims wait for their consumer, 1 edit or deletion by hand, 2 faults or failures |
| `Deletion` | is everything owned collected, what a Reconcile in flight creates included? Does an enabled restore ever begin where claims wait for their consumer? Is a record only reset with a new volume? Checks the inductive invariants `UnboundInv` and `RestInv` too | enabled and disabled, 1 deletion of the StarknetRPC or its volume (anywhere), 1 disturbance |
| `Succession` | does a StarknetRPC made again under the name of one just deleted get a node of its own, unless pod and volume wait for each other? | restore disabled, deleted and made again (anywhere) |
| `EnableToggled` | whatever the user does with the switch: one worker at a time, nothing undone, no skip that nobody asked for, no second restore of a volume, no success without the snapshot? Checks the inductive invariants `SwitchInv` and `OverInv` too | 2 operations out of editing the switch and making a foreign pod, 1 disturbance |
| `Monitor` | does the PodMonitor converge although its errors requeue nothing, do labels of users survive repairs, does the node come up whatever becomes of its monitoring? Is nothing left undone when nothing will call `Reconcile`? Does a StarknetRPC made again get anything before a restore of its own was recorded, also when its volume, its record or both go later? Checks the inductive invariants `MonitorRestInv` and `OriginInv` too | with and without the CRD, monitoring enabled at first and without labels (users change both), 2 operations of users out of five kinds, 1 crash or failed call, one label |
| `Script` | is success worth the snapshot, is a complete database kept, and is the script the worker `Environment` assumes? | altered and intact downloads, 6 retries (the default of a job), a kill in every attempt, a node that opens the database at any time |

A disturbance is a failed call, a crash of the manager or a fault of the pod.
The bounds count what interrupts, not what the system does: the number of
Reconciles, status updates and events is unbounded. A second disturbance lets
the repair of the first failure fail; one retry lets the job fail and then succeed;
a hazard involves at most one user operation and its reversal. In `Monitor` two
operations let an edit of the user race the repair of another one; one label is
enough, since labels are compared and copied one by one.

With claims that wait for their consumer an enabled restore never leaves
`GetScratch` (`RestoreNeedsBoundVolumes`): the handler waits for the scratch
volume to be bound before it creates the job that would consume it. `Deletion`
therefore covers a disabled restore to its end and an enabled one up to that
point; a StarknetRPC deleted while its job runs is beyond the instances TLC
finishes for liveness (`VolumeReplaced` walks into that part of the state space
for the volume); `OwnedObjectsCollected` excepts the volumes that the pods of such a
job hold.

`SuccessorServed` asks for a running pod of the successor, not for a volume of
its own: the successor's pod can start on the volume of its predecessor before
the garbage collector marks that one, and then holds its deletion up; the
volume, and the database with it, goes when that pod is replaced. Nor does it
promise that pod where the mark comes between the scheduling of the pod and its
start (`Deadlocked`): nothing in the operator notices that these two wait for each
other, and the states in which they do are reached in `Succession`.

Violations (each is one behaviour of the code against a sentence of the
repository; `PROJECT.json` "findings" quotes it):

| Run | What happens |
|---|---|
| `RestoreDisabledMidway` | enable is set to false while the job runs: the node runs beside the worker |
| `VolumeReplaced` | the main volume is deleted and made again, and the record reset; the next Reconcile begins from a cached copy older than the reset and makes the pod on the empty volume |
| `UnsetClass` | without a class in the specification the claim asks for no class instead of the default one; the node never starts |
| `LabelsRemoved` | a label taken out of `spec.podMonitor` stays on the PodMonitor |
| `PrometheusMissing` | the kind PodMonitor is watched whether or not the cluster has it; without it the manager waits for a cache that never fills |

Seen while modelling, without a run of their own:

* a conflict on the status update after the creation of the volume loses the
  reset (`pvc.go:29`): another way to the end of `VolumeReplaced`, and the success
  of an old job is a third (`archive_restore.go:118`); a run shows one behaviour
  only;
* the job has no owner (`archive_restore.go:226`) and outlives its StarknetRPC: one
  made again under the name takes its success for the restore of its own volume,
  also when that of the predecessor is what was restored; and the pods of the job
  hold the volumes until somebody deletes it;
* the probe asks for a port named `management` (`proxy.go:49`), which the pod does
  not have: no node is ever reported as catching up;
* `ErrTerminateLoop` is retried for ever (`archive_restore.go:135`, against
  `reconciler.go:30-31`);
* a crash-looping pod in the cache leads to the deletion of its healthy
  successor (`pod.go:39`); `PodLiveness` shows that the node comes back;
* the scratch volume is made from `spec.storage` instead of its own section;
* `rsyncConfig` reaches the worker under a name that `restore.sh` does not read
  (`archive_restore.go:213`, `restore.sh:41`);
* an attempt killed while it extracts leaves a file that no retry overwrites,
  and one killed after that a complete database no retry accepts: in both cases
  the restore fails for good (`restore.sh:78`); the safe side of that is what
  `SuccessMeansSnapshot` and `DatabaseKept` say;
* fields of the PodMonitor that the comparison skips are never repaired, and an
  endpoint without a port makes it panic (`podmonitor.go:103`), which the manager
  recovers and retries for ever;
* a CRD installed after its absence was swallowed (`podmonitor.go:60`) is only
  noticed with the next Reconcile.

### Fairness

`FairSpec` assumes of the operator only that a Reconcile that can take its next
step does, and that a queued request is taken (the manager's worker loop); of the
watches, that each informer catches up; of the cluster, that bindable claims are
bound, pods scheduled and started, startable workers started and finished one way
or the other, deletions completed and garbage collected. No user operation, failed
call, crash or pod fault is fair. Weak fairness is enough for each: none of these
steps is disabled again and again by the others for ever. `WorkerSucceeds \/
WorkerFails` share one fairness condition: the worker ends, no matter how;
`WorkerOpens` has none, since an attempt may end before. `ContainerRestarts` is
not fair: a crash loop may last.

`PodLiveness` and `Succession`, whose restore is disabled, check `NodeFairSpec`,
which assumes only the `NodeFairness` part of this: nothing of the worker, the
scratch volume or the readiness probe.

`FairSpec` of `PodMonitor` assumes the same of the operator, its watches and the
garbage collector, that a manager that has ended is started again (the kubelet
does) and gets to work when its caches can fill, and that a job with a volume
ends. That the volume of a predecessor is collected is not assumed: a pod may
hold it.
`RestoreScript` states safety only and assumes nothing.

## 4. Proofs

`tlapm` proves what follows for every value of the constants that satisfies the
assumptions of the module (`ConstantsAssumption`: the image, the classes and the
bounds are what their names say; `NilAssumption`: `Nil` is no object; their like
in `PodMonitor` and `RestoreScript`); TLC evaluates them in every run.

`ReconcilerProofs`: **`TypeCorrect`**, `Spec => []TypeOK`. Next to the fields of
objects it says that a Reconcile always has the copies its next call needs and
that a job fails at most `BackoffLimit + 1` times, and that whoever extracts is
running. `NewVersionExists` shows that three versions are enough for two copies.

`RestoreProofs`, under `RestoreSettled` (users may edit images, delete the pod
and create foreign ones, but neither delete the StarknetRPC or its main volume
nor edit the switch; `RestoreDisabledMidway` and `VolumeReplaced` show that the
properties are false without it):

| Theorem | States |
|---|---|
| `RestoreInvAlways` | the inductive invariant `RestoreInv` |
| `PodAfterRestore` | `PodOnlyAfterRestore` |
| `WorkerNeverBesideNode` | `NoWorkerBesideNode` |
| `AvailabilityAfterRestore` | `AvailableAfterRestore` |
| `DeletedJobsAreFinished` | `OnlyFinishedJobsDeleted` |
| `VolumeRestoredOnce` | `OneRestorePerVolume` |

They hold for any number of edits, failures, crashes, pod faults and retries of
the job, any initial switch, class and binding mode. None of the five properties
is inductive: each speaks of the objects, and the next step is taken from a copy.
`RestoreInv` says what the copies are worth.

* `CopiesInv`: the cached StarknetRPC and the one in a Reconcile's hands may be
  old, but never claim a restore that is not recorded. A status update, which the
  server accepts of the current version only, cannot undo anything therefore.
* `VolumeInv`: the volume exists past `ReconcilePvc` and stays; before it
  exists no restore is recorded. Without it `ResetRestore` could undo a restore.
* `JobInv`, `RestoredInv`: success, also the success the cache reports, means
  the snapshot; a recorded restore has the snapshot and no job with work left.
* `NoSecondJobInv`: once the job is gone from a written volume, the cache and
  every Reconcile in progress know of the restore. This is the argument for
  `OneRestorePerVolume`: creation of the job does not look at the job cache or
  the status at the server, only at the copy, so the copy must not be too old.
  It holds because the Reconcile that deletes the job got the restored status
  from the cache, which is why `LabelInv` has a conjunct for `CleaningLabels`
  and `CreatePvc`.
* `LabelInv`: what the position of a Reconcile says about its copy.
* `PodInv`: an owned pod means a recorded restore.

The proof that a step keeps `RestoreInv` has one lemma per kind of step: reads,
reports on the restore, reports on the pod, writes of other objects
(`ReconcileKeepsRestoreInv` joins them), failures and watches, controllers,
users. `StatusUpdate` and `StatusUpdateKeeps` are shared by all eight status
updates. The action properties follow from the invariant and the few actions
that change the object (`JobComesAndGoes` for the job).

`RefinementProofs`, under the same assumption: **`OperatorImplementsLifecycle`**
(`LifecycleImplemented`), from `RestoreInv`: each step of the operator or of the
cluster is a step of `RestoreLifecycle` or a stutter, once `RestoreInv` says
that the copy it is taken from is good enough. **`PromiseKept`** carries the
invariant of the abstract specification over.

`SwitchProofs`:

* **`SkipsAreAskedFor`** (`SkippedOnlyWhileDisabled`), without any assumption on
  users: a skip is decided on a copy that asks for it, and only the current
  version is accepted.
* **`SwitchInvAlways`**, under `VolumeKept` (users may flip the switch but
  delete neither the StarknetRPC nor its volume): `SwitchInv` keeps of
  `RestoreInv` what a moving switch leaves true. Its `OrphanInv` is the part
  behind **`OneWorker`** (`OneWorkerAtATime`): a worker is killed in the
  background only after the record was made and every copy in use has it, so
  that no copy is left from which another job could be made. **`RestoreIsFinal`**
  (`RestoreNeverUndone`) follows as well.

* **`OverInvAlways`**, under the same assumption: `OverInv` is what a moving
  switch leaves of `NoSecondJobInv` and `RestoredInv`. A copy may now ask for a
  restore that is over, because the user enabled it again; what it may not be is
  in use. `CacheKeepsUp` is the argument: a status update is accepted only for the
  current version, hence for a copy that has seen the last flip, and the cache,
  from which that copy came, has seen it too. So when a skip is recorded, the
  cache says "disabled" as long as it does not say "restored", and `OverWhenUsed`
  follows: from the first pod on, or with the job gone from a written volume,
  neither the cache nor the Reconcile in progress asks for a restore. The worker
  may have opened the database before the skip and succeed beside the node that it
  lets in: what success is worth (`SnapshotOrSkipped`) is the snapshot, *or a skip
  was recorded*, and then the success itself cannot be, because the Reconcile that
  is about to record it (`MarkFinished`) works on a copy without the skip, which
  the server refuses. **`OneRestore`** (`OneRestorePerVolume`, of which
  `VolumeRestoredOnce` is the case of a switch that stays) and
  **`ReportsAreTrue`** (`FinishedMeansSnapshot`, `AvailableAfterRestore`) rest on
  it.

`QuiescenceProofs` is about an operator driven by events: it is right if it has
nothing left to do whenever nothing will wake it again. The liveness properties
need that and fairness; this half of them is safety, and proved.

* **`PositionsAreRight`** (`PositionInv`) and **`ResetsNeedANewVolume`**
  (`ResetOnlyWithVolume`), without any assumption on users: the pod is touched
  only by a Reconcile whose copy knows of the restore, and a record is taken back
  only by the Reconcile that has just made the volume. `RestoreNeverUndone` says
  more, for a volume that is kept; this is what is left when it is not.
* **`RestInvAlways`** (`RestInv`) and **`NoWakeUpIsLost`** (`RestsWhenDone`),
  under `NoForeignPods`: users may delete, edit and make again what they like,
  but put no pod of their own under the node's name. Such a pod names no owner
  and its deletion reaches nobody, so the operator would rest without a node
  (section 3 checks safety with foreign pods, nothing more is promised).
  A state predicate about the end of a Reconcile is not inductive; what carries
  it through is what a Reconcile has seen so far, *if nothing has overtaken it*:
  `Fresh` (the queue is empty and the cache has the StarknetRPC as it is), and
  for each object, no event of its kind on its way. `VolumeThere`, `CleanedUp`
  and `NodeSeen` say what each position is worth then, `IdleWhenDone` the end. A
  Reconcile that did not get to its end has asked to be called again, so that
  `queued` makes the claim empty; an object that changes after it was seen
  announces it, because it names an owner (`OwnersInv`); the StarknetRPC itself
  differs from the cache until it is announced. The job, which announces nothing,
  needs the requeue: no position with a job is followed by a return without one.

`BindingProofs`, without assumption on users: **`UnboundInvAlways`**
(`UnboundInv`) has the circle, no bound scratch volume for want of a job and no
job for want of a bound scratch volume, in the store, in the cache and in the
Reconcile in progress; **`NoRestoreWithoutBoundVolumes`**
(`RestoreNeedsBoundVolumes`) is what follows.

`PodMonitorProofs`, for any labels, operations of users and failures:

* **`MonitorTypeCorrect`** and **`RepairKeepsUserLabels`** (`UserLabelsKept`),
  from the copy of the PodMonitor in hand (`TypeOK`): an update is accepted only of
  the latest version, so that it was computed from the object it replaces. The
  promise is about labels that users gave under keys the StarknetRPC does not name.
  Those that a specification put there and no longer names stay as well, against
  what the documentation says (`LabelsRemoved`).
* **`MonitorRestInvAlways`** (`MonitorRestInv`) and **`MonitorRestsSettled`**
  (`RestsSettled`): the same argument as in `QuiescenceProofs`, for a handler
  whose errors requeue nothing. A conflict needs no requeue, because the change
  that caused it is announced; an error that is not the trace of a change is
  what `dropped` notes, and what the property has to except.
* **`OriginInvAlways`** (`OriginInv`) and **`NothingIsMadeBeforeRestore`**
  (`NothingBeforeRestore`): uids grow with each StarknetRPC made under the name, and
  every copy and owner is of an older one or of the current one, so that a Reconcile
  still at work for the predecessor makes its pod and its PodMonitor under the
  predecessor's uid. The record itself is no measure of what was made under it: it
  is taken back when the volume is made anew, with pod, PodMonitor and older copies
  still there. Therefore both speak of `recorded`, the uids whose restore was ever
  recorded, which only grows: a copy that claims a restore has its uid in it, and so
  has every owner.

`RestoreScriptProofs`: **`ScriptInvAlways`**, and from it **`SuccessIsGenuine`**
(`SuccessMeansSnapshot`), **`CompleteDatabaseStays`** (`DatabaseKept`) and
**`ScriptImplementsWorker`** (`WorkerImplemented`). `AttemptInv` says for each
command what the attempt may have done to the database so far: nothing before
`zstd`, and from then on only to one it has made itself, which a node may be
writing to as well.

Every invariant and action property of the passing runs is stated by a theorem.
Only model-checked: all liveness properties (induction over fair behaviours and
`ENABLED` are out of the prover's reach); the safety they rest on is
`NoWakeUpIsLost` and `MonitorRestsSettled`. The assumptions on users are needed:
`RestoreDisabledMidway` and `VolumeReplaced` have the counterexamples to
`NoWorkerBesideNode` and to what a record is worth; `OneWorkerAtATime` is false as
well when the volume or the StarknetRPC is deleted, because the record is then
reset, or missing from the successor, while a killed worker still runs.

## 5. Not modelled

* Start-up but for the watched kinds: flags, metrics and webhook servers,
  certificate watchers and health checks are sequential set-up code.
  `proxy.IsSynced` has no caller.
* More than one StarknetRPC: names are derived from the object's name, so two
  of them share nothing but the manager.
* The content of the specification that no decision reads: resources,
  tolerations, secrets, network, file name, sizes. The checksum is the one an intact
  file has.
* `RestartPolicyNever` with several pods per job is reduced to one worker at a
  time per job, as the job controller does with `parallelism` 1.
* Generated code, manifests, dashboards and test suites.

## 6. Plan

Done, in order: `Conditions`, `Cluster`, `ArchiveRestore`, `RpcPod`,
`Environment`, `Reconciler`, their runs, `RestoreInvariant` and its proofs;
`RestoreLifecycle` and the refinement, `SwitchInvariant`, the proofs for the
switch and for unbound volumes, `PodMonitor`, `RestoreScript` and their proofs;
`Quiescence`, `MonitorInvariant`, the second half of `SwitchInvariant`, and their
proofs.

What could follow:

1. The refinement of a lifecycle whose restore may be wanted and not wanted in
   turn, from `SwitchInv` and `OverInv`: `RestoreLifecycle` has a switch that
   stays.
2. A deleted volume or StarknetRPC while the job runs, for safety: an invariant
   that says what a job is worth when the volume it was made for is gone, up to
   the point where `VolumeReplaced` begins.
3. Two managers during a rollout without leader election, with a cache and a
   queue each.
4. Reports on the pod: the `Creating` report lost by a failed update, pods that
   fail for reasons other than eviction.

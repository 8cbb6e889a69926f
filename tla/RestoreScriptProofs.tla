------------------------- MODULE RestoreScriptProofs -------------------------
(***************************************************************************)
(* For every backoff limit and every content of the bucket: a job succeeds *)
(* with the snapshot only, a complete database is never lost, and the      *)
(* script under the job controller implements the worker of Environment.   *)
(***************************************************************************)
EXTENDS RestoreScript, TLAPS

LEMMA InitScript == Init => ScriptInv
  BY NilIsNoObject DEF Init, ScriptInv, TypeOK, OnePod, AttemptInv,
     SuccessMeansSnapshot, ScriptSteps, Files

\* What JobPending says of a job, without the instance.
LEMMA Pending ==
    ASSUME Worker!JobPending
    PROVE  /\ job # Nil /\ ~job.active /\ ~job.succeeded
           /\ ~(job.failures > BackoffLimit)
  BY DEF Worker!JobPending, Worker!JobFinished

-----------------------------------------------------------------------------
(* The invariant is inductive. *)

LEMMA ScriptKeeps == ScriptInv /\ ScriptStep => ScriptInv'
<1> SUFFICES ASSUME ScriptInv, ScriptStep PROVE ScriptInv'
  OBVIOUS
<1> USE ScriptConstants DEF ScriptInv, TypeOK, OnePod, AttemptInv,
     SuccessMeansSnapshot, ScriptSteps, Files, Goto
<1>1. CASE Download
  <2>1. file' \in Files \cup {"none"}
    BY <1>1 DEF Download
  <2>2. step' \in {"verify", "cleanup"}
    BY <1>1 DEF Download
  <2> QED
    BY <1>1, <2>1, <2>2 DEF Download
<1>2. CASE Verify
  BY <1>2 DEF Verify
<1>3. CASE OpenDatabase
  <2>1. CASE content = "empty"
    <3>1. /\ step = "extract" /\ file = "intact" /\ status = "failure"
          /\ content' = "partial" /\ opened' = TRUE /\ step' = "extracting"
          /\ UNCHANGED <<job, orphan, status, file>>
      BY <1>3, <2>1 DEF OpenDatabase
    <3> QED
      BY <3>1
  <2>2. CASE content # "empty"
    <3>1. /\ step = "extract" /\ status = "failure" /\ step' = "cleanup"
          /\ UNCHANGED <<job, orphan, status, file, content, opened>>
      BY <1>3, <2>2 DEF OpenDatabase
    <3> QED
      BY <3>1
  <2> QED
    BY <2>1, <2>2
<1>4. CASE Extract
  BY <1>4 DEF Extract
<1>5. CASE Cleanup
  BY <1>5 DEF Cleanup
<1> QED
  BY <1>1, <1>2, <1>3, <1>4, <1>5 DEF ScriptStep

LEMMA ClusterKeeps == ScriptInv /\ ClusterStep => ScriptInv'
<1> SUFFICES ASSUME ScriptInv, ClusterStep PROVE ScriptInv'
  OBVIOUS
<1> USE ScriptConstants, NilIsNoObject DEF ScriptInv, TypeOK, OnePod, AttemptInv,
     SuccessMeansSnapshot, ScriptSteps, Files, Goto, Jobs
<1>1. CASE StartAttempt
  <2>1. job \in Jobs /\ ~job.succeeded /\ job.failures <= BackoffLimit
    BY <1>1, Pending DEF StartAttempt
  <2>2. job' = [job EXCEPT !.active = TRUE]
    BY <1>1 DEF StartAttempt
  <2>3. /\ job' \in Jobs /\ job'.active
        /\ ~job'.succeeded /\ job'.failures <= BackoffLimit
    BY <2>1, <2>2
  <2>4. UNCHANGED orphan /\ ~orphan
    BY <1>1, <2>1 DEF StartAttempt
  <2> QED
    BY <1>1, <2>3, <2>4 DEF StartAttempt
<1>2. CASE Killed
  BY <1>2 DEF Killed
<1>3. CASE Counted
  <2>1. job \in Jobs /\ job.active /\ ~job.succeeded /\ job.failures <= BackoffLimit
    BY <1>3 DEF Counted
  <2>2. /\ job' \in Jobs /\ ~job'.active
        /\ job'.succeeded => status = "success"
    <3>1. CASE status = "success"
      <4>1. job' = [job EXCEPT !.active = FALSE, !.succeeded = TRUE]
        BY <1>3, <3>1 DEF Counted
      <4> QED
        BY <2>1, <3>1, <4>1
    <3>2. CASE status # "success"
      <4>1. job' = [job EXCEPT !.active = FALSE, !.failures = @ + 1]
        BY <1>3, <3>2 DEF Counted
      <4>2. job.failures + 1 \in 0 .. BackoffLimit + 1
        BY <2>1
      <4>3. ~job'.active /\ ~job'.succeeded
        BY <2>1, <4>1
      <4> QED
        BY <2>1, <4>1, <4>2, <4>3
    <3> QED
      BY <3>1, <3>2
  <2>3. job'.succeeded => content' \in {"snapshot", "mixed"}
    BY <1>3, <2>2 DEF Counted
  <2> QED
    BY <1>3, <2>2, <2>3 DEF Counted
<1>4. CASE OrphanCollected
  BY <1>4 DEF OrphanCollected
<1>5. CASE NodeOpensDatabase
  BY <1>5 DEF NodeOpensDatabase
<1> QED
  BY <1>1, <1>2, <1>3, <1>4, <1>5 DEF ClusterStep

LEMMA OperatorKeeps == ScriptInv /\ OperatorStep => ScriptInv'
<1> SUFFICES ASSUME ScriptInv, OperatorStep PROVE ScriptInv'
  OBVIOUS
<1> USE ScriptConstants, NilIsNoObject DEF ScriptInv, TypeOK, OnePod, AttemptInv,
     SuccessMeansSnapshot, ScriptSteps, Files, Jobs
<1>1. CASE CreateJob
  BY <1>1 DEF CreateJob
<1>2. CASE DeleteJob
  BY <1>2 DEF DeleteJob
<1> QED
  BY <1>1, <1>2 DEF OperatorStep

LEMMA NextScript == ScriptInv /\ [Next]_vars => ScriptInv'
<1>1. ScriptInv /\ UNCHANGED vars => ScriptInv'
  BY DEF vars, ScriptInv, TypeOK, OnePod, AttemptInv, SuccessMeansSnapshot
<1> QED
  BY <1>1, ScriptKeeps, ClusterKeeps, OperatorKeeps DEF Next

\* ScriptInv holds at every moment (restore.sh:17-78).
THEOREM ScriptInvAlways == Spec => []ScriptInv
  BY InitScript, NextScript, PTL DEF Spec

\* A job that has succeeded stands for the verified snapshot
\* (restore.sh:69-78).
THEOREM SuccessIsGenuine == Spec => []SuccessMeansSnapshot
<1>1. ScriptInv => SuccessMeansSnapshot
  BY DEF ScriptInv
<1> QED
  BY <1>1, ScriptInvAlways, PTL

-----------------------------------------------------------------------------
(* A complete database stays. *)

\* No attempt, killed or retried, takes a complete database away again
\* (restore.sh:78).
THEOREM CompleteDatabaseStays == Spec => DatabaseKept
<1>1. ScriptInv /\ [Next]_vars => [content = "snapshot" => content' = "snapshot"]_content
  <2> SUFFICES ASSUME ScriptInv, [Next]_vars, content = "snapshot", content' # content
               PROVE  FALSE
    OBVIOUS
  <2>1. CASE ScriptStep
    <3>1. ~Extract
      BY DEF Extract, ScriptInv, AttemptInv
    <3> QED
      BY <2>1, <3>1, Zenon DEF ScriptStep, Download, Verify, OpenDatabase, Cleanup
  <2>2. CASE ClusterStep
    BY <2>2 DEF ClusterStep, StartAttempt, Killed, Counted, OrphanCollected,
       NodeOpensDatabase
  <2>3. CASE OperatorStep
    BY <2>3 DEF OperatorStep, CreateJob, DeleteJob
  <2>4. CASE UNCHANGED vars
    BY <2>4 DEF vars
  <2> QED
    BY <2>1, <2>2, <2>3, <2>4 DEF Next
<1> QED
  BY <1>1, ScriptInvAlways, PTL DEF Spec, DatabaseKept

-----------------------------------------------------------------------------
(* The script implements the worker. *)

WorkerStep ==
    \/ Worker!StartWorker \/ Worker!WorkerOpens
    \/ Worker!WorkerSucceeds \/ Worker!WorkerFails \/ Worker!KillOrphan
    \/ Worker!NodeOpens /\ UNCHANGED <<job, Writer, orphan>>
    \/ OperatorStep /\ UNCHANGED Database

\* Of a pod's script nothing shows but the opening of the database, before its
\* end has been counted.
LEMMA ScriptHidden ==
    ASSUME ScriptInv, ScriptStep \/ Killed
    PROVE  Worker!WorkerOpens \/ UNCHANGED <<job, Database, Writer, orphan>>
<1>1. CASE OpenDatabase /\ content = "empty"
  <2>1. /\ step = "extract" /\ ~opened /\ opened' /\ content' = "partial"
        /\ UNCHANGED <<job, orphan>>
    BY <1>1 DEF OpenDatabase, Goto, ScriptInv, AttemptInv
  <2>2. orphan \/ Worker!JobActive
    BY <2>1 DEF ScriptInv, OnePod, Worker!JobActive
  <2>3. Database = "empty" /\ Database' = "partial"
    BY <1>1, <2>1 DEF Database
  <2>4. Writer' = IF orphan THEN "orphan" ELSE "job"
    BY <2>1 DEF Writer
  <2> QED
    BY <2>1, <2>2, <2>3, <2>4 DEF Worker!WorkerOpens, Worker!objects, Worker!owned,
       Worker!process, Worker!budgets
<1>2. CASE ~(OpenDatabase /\ content = "empty")
  <2>1. UNCHANGED <<job, orphan, opened>>
    BY <1>2 DEF ScriptStep, Download, Verify, OpenDatabase, Extract, Cleanup, Killed, Goto
  <2>2. Database' = Database
    <3>1. CASE Extract
      <4>1. opened /\ (content' = "mixed" <=> content = "mixed")
        <5>1. opened
          BY <3>1 DEF Extract, ScriptInv, AttemptInv
        <5>2. CASE content = "mixed"
          BY <3>1, <5>1, <5>2 DEF Extract
        <5>3. CASE content # "mixed"
          <6>1. content' \in {"snapshot", "corrupt", "empty", "partial"}
            BY <3>1, <5>3 DEF Extract
          <6> QED
            BY <5>1, <5>3, <6>1
        <5> QED
          BY <5>1, <5>2, <5>3
      <4> QED
        BY <2>1, <4>1 DEF Database
    <3>2. CASE ~Extract
      BY <1>2, <2>1, <3>2 DEF ScriptStep, Download, Verify, OpenDatabase, Cleanup,
         Killed, Database
    <3> QED
      BY <3>1, <3>2
  <2> QED
    BY <2>1, <2>2 DEF Writer
<1> QED
  BY <1>1, <1>2

LEMMA StartIsStart ==
    ASSUME ScriptInv, StartAttempt
    PROVE  Worker!StartWorker
<1>1. Database' = Database /\ Writer' = Writer
  BY DEF StartAttempt, Database, Writer
<1>2. Worker!Usable(Volume)
  BY NilIsNoObject DEF Worker!Usable, Volume
<1>3. UNCHANGED <<Nil, Worker!owned, Worker!containers, Worker!process, Worker!budgets>>
  BY <1>1 DEF StartAttempt, Worker!owned, Worker!containers, Worker!process,
     Worker!budgets, Volume, NodePod
<1> QED
  BY <1>2, <1>3 DEF StartAttempt, Worker!StartWorker

\* What an attempt that is over leaves of the database it has opened.
LEMMA LeftByTheAttempt ==
    ASSUME ScriptInv, opened, opened' = FALSE, content' = content
    PROVE  Database' \in Worker!LeftBehind
<1>1. Database' = content
  BY DEF Database
<1>2. CASE content = "mixed"
  BY <1>1, <1>2 DEF Worker!LeftBehind, Database
<1>3. CASE content # "mixed"
  BY <1>1, <1>3 DEF Worker!LeftBehind, Database, ScriptInv, AttemptInv, TypeOK
<1> QED
  BY <1>2, <1>3

LEMMA CountIsOutcome ==
    ASSUME ScriptInv, Counted
    PROVE  Worker!WorkerSucceeds \/ Worker!WorkerFails
<1> USE DEF Worker!owned, Worker!process, Worker!budgets
<1>1. Worker!JobActive /\ ~orphan /\ UNCHANGED orphan
  BY DEF ScriptInv, OnePod, Counted, Worker!JobActive
<1>2. opened' = FALSE /\ content' = content /\ Writer' = "none"
  BY DEF Counted, Writer
<1>3. CASE status = "success"
  <2>1. opened /\ content \in {"snapshot", "mixed"}
    BY <1>3 DEF Counted, ScriptInv, AttemptInv
  <2>2. Writer = "job"
    BY <1>1, <2>1 DEF Writer
  <2>3. Database' = IF Database = "partial" THEN "snapshot" ELSE Database
    BY <1>2, <2>1 DEF Database
  <2> QED
    BY <1>1, <1>2, <1>3, <2>2, <2>3 DEF Counted, Worker!WorkerSucceeds, NodePod, Volume
<1>4. CASE status # "success"
  <2>1. Worker!LetGo("job")
    <3>1. CASE opened
      BY <1>1, <1>2, <3>1, LeftByTheAttempt DEF Writer, Worker!LetGo
    <3>2. CASE ~opened
      BY <1>2, <3>2 DEF Writer, Database, Worker!LetGo, ScriptInv, TypeOK
    <3> QED
      BY <3>1, <3>2
  <2> QED
    BY <1>1, <1>4, <2>1 DEF Counted, Worker!WorkerFails, NodePod, Volume
<1> QED
  BY <1>3, <1>4

LEMMA CollectionIsKill ==
    ASSUME ScriptInv, OrphanCollected
    PROVE  Worker!KillOrphan
<1>1. orphan /\ opened' = FALSE /\ content' = content /\ Writer' = "none"
  BY DEF OrphanCollected, Writer
<1>2. Worker!LetGo("orphan")
  <2>1. CASE opened
    BY <1>1, <2>1, LeftByTheAttempt DEF Writer, Worker!LetGo
  <2>2. CASE ~opened
    BY <1>1, <2>2 DEF Writer, Database, Worker!LetGo, ScriptInv, TypeOK
  <2> QED
    BY <2>1, <2>2
<1> QED
  BY <1>1, <1>2 DEF OrphanCollected, Worker!KillOrphan, Worker!objects, Worker!owned,
     Worker!process, Worker!budgets, NodePod, Volume

LEMMA NodeIsNode ==
    ASSUME ScriptInv, NodeOpensDatabase
    PROVE  Worker!NodeOpens /\ UNCHANGED <<job, Writer, orphan>>
<1>1. UNCHANGED <<job, orphan, opened, Writer>>
  BY DEF NodeOpensDatabase, Writer
<1>2. Worker!Owned(NodePod)
  BY NilIsNoObject DEF Worker!Owned, Worker!NoOwner, NodePod
<1>3. CASE opened
  <2>1. Writer # "none" /\ Database # "empty"
    BY <1>3 DEF Writer, Database
  <2>2. content' \in {content, "mixed"}
    BY <1>3 DEF NodeOpensDatabase
  <2>3. Database' \in {Database, "mixed"}
    BY <1>1, <1>3, <2>2 DEF Database
  <2> QED
    BY <1>1, <1>2, <2>1, <2>3 DEF Worker!NodeOpens
<1>4. CASE ~opened
  <2>1. Writer = "none" /\ Database = content /\ Database' = content'
    BY <1>1, <1>4 DEF Writer, Database
  <2>2. content' = IF content = "empty" THEN "genesis" ELSE content
    BY <1>4 DEF NodeOpensDatabase
  <2> QED
    BY <1>1, <1>2, <2>1, <2>2 DEF Worker!NodeOpens
<1> QED
  BY <1>3, <1>4

LEMMA OperatorHidden ==
    ASSUME OperatorStep
    PROVE  UNCHANGED Database
  BY DEF OperatorStep, CreateJob, DeleteJob, Database

\* Whatever restore.sh does under the job controller, job and main volume see
\* the worker that the operator's models assume (restore.sh:17-78).
THEOREM ScriptImplementsWorker == Spec => WorkerImplemented
<1>1. ScriptInv /\ [Next]_vars => [WorkerStep]_<<job, Database, Writer, orphan>>
  <2> SUFFICES ASSUME ScriptInv, [Next]_vars
               PROVE  WorkerStep \/ UNCHANGED <<job, Database, Writer, orphan>>
    OBVIOUS
  <2>1. CASE ScriptStep \/ Killed
    BY <2>1, ScriptHidden DEF WorkerStep
  <2>2. CASE StartAttempt
    BY <2>2, StartIsStart DEF WorkerStep
  <2>3. CASE Counted
    BY <2>3, CountIsOutcome DEF WorkerStep
  <2>4. CASE OrphanCollected
    BY <2>4, CollectionIsKill DEF WorkerStep
  <2>5. CASE OperatorStep
    BY <2>5, OperatorHidden DEF WorkerStep
  <2>6. CASE UNCHANGED vars
    BY <2>6 DEF vars, Database, Writer
  <2>7. CASE NodeOpensDatabase
    BY <2>7, NodeIsNode DEF WorkerStep
  <2> QED
    BY <2>1, <2>2, <2>3, <2>4, <2>5, <2>6, <2>7 DEF Next, ClusterStep
<1> QED
  BY <1>1, ScriptInvAlways, PTL DEF Spec, WorkerImplemented, WorkerStep

=============================================================================

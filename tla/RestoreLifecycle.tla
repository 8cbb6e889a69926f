-------------------------- MODULE RestoreLifecycle --------------------------
(***************************************************************************)
(* What the operator promises about the restore of one StarknetRPC, with   *)
(* no cache, no queue and no call in it: the volume is written by one line *)
(* of attempts, the restore is recorded when an attempt has succeeded or   *)
(* nobody wants one, and the node comes after the record.                  *)
(***************************************************************************)

VARIABLES
    wanted,     \* the restore is enabled
    volume,     \* content of the main volume
    work,       \* where the attempts to restore it stand
    recorded,   \* the status says that the restore is made (or skipped)
    node        \* the node's pod exists

vars == <<wanted, volume, work, recorded, node>>

Init ==
    /\ wanted \in BOOLEAN
    /\ volume = "empty" /\ work = "none"
    /\ ~recorded /\ ~node

-----------------------------------------------------------------------------
(* The attempts.  A restore begins once, on an empty volume. *)

Begin ==
    /\ wanted /\ ~recorded
    /\ work = "none" /\ volume = "empty"
    /\ work' = "pending"
    /\ UNCHANGED <<wanted, volume, recorded, node>>

Attempt ==
    /\ work = "pending"
    /\ work' = "running"
    /\ UNCHANGED <<wanted, volume, recorded, node>>

Extract ==
    /\ work = "running" /\ volume = "empty"
    /\ work' = "extracting"
    /\ volume' = "partial"
    /\ UNCHANGED <<wanted, recorded, node>>

Succeed ==
    /\ work = "extracting"
    /\ work' = "done"
    /\ volume' = "snapshot"
    /\ UNCHANGED <<wanted, recorded, node>>

\* To be tried again, or for the last time.
Fail ==
    /\ work \in {"running", "extracting"}
    /\ work' \in {"pending", "failed"}
    /\ volume' \in IF work = "running" THEN {volume} ELSE {"empty", "partial", "snapshot"}
    /\ UNCHANGED <<wanted, recorded, node>>

-----------------------------------------------------------------------------
(* The record, and what follows it. *)

Record ==
    /\ ~recorded
    /\ IF wanted THEN work = "done" ELSE work = "none"
    /\ recorded' = TRUE
    /\ UNCHANGED <<wanted, volume, work, node>>

Forget ==
    /\ recorded /\ work = "done"
    /\ work' = "none"
    /\ UNCHANGED <<wanted, volume, recorded, node>>

StartNode ==
    /\ recorded /\ ~node
    /\ node' = TRUE
    /\ UNCHANGED <<wanted, volume, work, recorded>>

StopNode ==
    /\ node
    /\ node' = FALSE
    /\ UNCHANGED <<wanted, volume, work, recorded>>

\* Without a snapshot the node begins at genesis.
SyncFromGenesis ==
    /\ ~wanted
    /\ node /\ volume = "empty"
    /\ volume' = "genesis"
    /\ UNCHANGED <<wanted, work, recorded, node>>

Next ==
    \/ Begin \/ Attempt \/ Extract \/ Succeed \/ Fail
    \/ Record \/ Forget \/ StartNode \/ StopNode \/ SyncFromGenesis

Spec == Init /\ [][Next]_vars

-----------------------------------------------------------------------------
\* What the promise comes to: a record of a wanted restore is worth its
\* snapshot, the node never runs beside the worker, and the volume of a
\* forgotten restore is not restored again.
Promise ==
    /\ recorded /\ wanted => volume = "snapshot" /\ work \in {"none", "done"}
    /\ work = "done" => volume = "snapshot"
    /\ work # "none" => wanted
    /\ ~recorded /\ work = "none" => volume = "empty"
    /\ node => recorded

=============================================================================

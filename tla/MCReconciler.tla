---------------------------- MODULE MCReconciler ----------------------------
(***************************************************************************)
(* The instance TLC checks: the operator with the properties of            *)
(* Expectations, the promise of RestoreRefinement, and the invariants of   *)
(* RestoreInvariant, SwitchInvariant and Quiescence.  The configurations   *)
(* give the constants their values; Nil is a model value.                  *)
(***************************************************************************)
EXTENDS Expectations, RestoreRefinement, Quiescence

=============================================================================

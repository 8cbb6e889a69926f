---------------------------- MODULE Expectations ----------------------------
(***************************************************************************)
(* What comments and documentation of the repository say of the operator   *)
(* and the code does not do.  Each property is checked by a run of its own *)
(* in which TLC finds the behaviour that breaks it.                        *)
(***************************************************************************)
EXTENDS Reconciler

\* archive_restore.go:28-30 and ready.go:15: the pod waits for the restore
\* operation to complete.  Here also when the user disables the restore
\* while its job runs.
PodWaitsForWorker == ~(NodeRuns /\ WorkerRuns)

\* controller.go:131, "If the archive was restored correctly, we can finally
\* create the pod": the volume the pod of an enabled StarknetRPC is created for
\* has the snapshot.  Here also when that volume was deleted and made again.
NodeMadeOnSnapshot ==
    [][pod = Nil /\ Owned(pod') /\ rpc # Nil /\ rpc.enable /\ Usable(pvc)
           => data = "snapshot"]_pod

\* starknetrpc_types.go:33, "If not set uses the default storage class.": a
\* node comes up without a class in its specification.  The class of the claim
\* is then the empty string, which asks for no class.
UnsetClassServed == StorageClass = "" => <>NodeRuns

=============================================================================

---------------------------- MODULE MCLifecycle -----------------------------
(* Lifecycle for TLC, with the inductive invariant of its proofs.           *)
EXTENDS LifecycleProofs
=============================================================================

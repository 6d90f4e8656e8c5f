---------------------------- MODULE MCRabbitBus -----------------------------
(* RabbitBus for TLC, with the inductive invariant of its proofs.           *)
EXTENDS RabbitBusProofs
=============================================================================

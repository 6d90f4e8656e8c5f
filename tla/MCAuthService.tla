--------------------------- MODULE MCAuthService ----------------------------
(* AuthService for TLC, with the inductive invariant of its proofs.         *)
EXTENDS AuthServiceProofs
=============================================================================

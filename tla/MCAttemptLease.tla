--------------------------- MODULE MCAttemptLease ---------------------------
(* Instances of AttemptLease for TLC. *)
EXTENDS AttemptLease, TLC
=============================================================================

--------------------------- MODULE MCHostDaemon ---------------------------
(* Instances of HostDaemon for TLC. *)
EXTENDS HostDaemon, TLC

TaskSymmetry == Permutations(Tasks)
=============================================================================

---------------------------- MODULE MCUserLocks ----------------------------
(* UserLocks for TLC: the values of the constants are in the cfgs. *)
EXTENDS UserLocks, TLC
=============================================================================

----------------------------- MODULE MCSessions -----------------------------
(* Sessions for TLC: the values of the constants are in the cfgs. *)
EXTENDS Sessions, TLC

CONSTANTS m, t1

\* The account m moderates the tenant t1.
ModeratorPairs == {<<m, t1>>}

\* Used by the runs that check no liveness.
Symmetry == Permutations(Conns) \cup Permutations(Ids)
=============================================================================

---------------------------- MODULE MCServerList ----------------------------
(* ServerList for TLC: the values of the constants are in the cfg. *)
EXTENDS ServerList, TLC
=============================================================================

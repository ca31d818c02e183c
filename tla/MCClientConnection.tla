------------------------- MODULE MCClientConnection -------------------------
(* ClientConnection for TLC: the values of the constants are in the cfgs. *)
EXTENDS ClientConnection

(* Every property is about the time before something left over acts: the run
   need not go on after that.  Three generations are a connection, its end and
   the next connection; there a reconnection is followed for one attempt only. *)
Explored ==
  /\ ~stale
  /\ connect_gen <= 3
  /\ connect_gen > 1 => reconnect = None \/ reconnect.attempt = 1
=============================================================================

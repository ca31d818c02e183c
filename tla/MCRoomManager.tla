--------------------------- MODULE MCRoomManager ---------------------------
(* RoomManager for TLC: two tenants, a lobby each; in the first one a locked
   room and another below it.  Its lobby is for one user, and takes in all whom
   the deletion of the room leaves. *)
EXTENDS RoomManager, TLC

CONSTANTS a, t1, t2, lobby1, lobby2, hall, booth

TenantOfRoom == (lobby1 :> t1) @@ (hall :> t1) @@ (booth :> t1) @@ (lobby2 :> t2)
AboveRoom == (lobby1 :> {}) @@ (hall :> {}) @@ (booth :> {hall}) @@ (lobby2 :> {})
LobbyOfTenant == (t1 :> lobby1) @@ (t2 :> lobby2)
LimitOfRoom == (lobby1 :> 1) @@ (hall :> 0) @@ (booth :> 0) @@ (lobby2 :> 0)
AdminPairs == {<<a, t1>>}

Symmetry == Permutations(Conns) \cup Permutations(Ids)
=============================================================================

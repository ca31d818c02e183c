---------------------------- MODULE UserManager ----------------------------
(***************************************************************************)
(* The registry of online users: server/src/user/manager.rs.               *)
(*                                                                         *)
(* Three maps describe who is online: `users` holds the session of every   *)
(* account, `token_map` the account behind each secret UDP token and       *)
(* `audio_map` the account behind each public audio id.  Every operation   *)
(* of the module is one atomic step here; UserLocks takes the operations   *)
(* apart into the acquisitions of the three locks and shows that they      *)
(* implement this module.                                                  *)
(*                                                                         *)
(* Sessions extends the module with the connections that call it.          *)
(***************************************************************************)
EXTENDS Naturals, FiniteSets

CONSTANTS
  Accounts,   \* user ids (rows of the table users)
  Conns,      \* WebSocket connections; a connection stands for its channel tx
  Tenants,    \* sub-servers; one element in single-server mode
  Ids,        \* the non-zero u32 values tokens and audio ids are drawn from
  Rooms,      \* room ids
  Addrs,      \* UDP source addresses
  None        \* "no session", "no account", "no room", "no address"

(* One connection of one account at a time: what OnlineUser carries.  The
   display data (names, role, audio format) is left out. *)
Session ==
  [tx: Conns, tenant: Tenants, session_token: Ids, audio_id: Ids,
   room_id: Rooms \cup {None}, muted: BOOLEAN, deafened: BOOLEAN,
   admin_muted: BOOLEAN, loopback: BOOLEAN, udp_addr: Addrs \cup {None}]

(* None is a value of its own. *)
ASSUME NoneAssumption ==
  /\ None \notin Accounts
  /\ None \notin Session

(* The registry never runs out of identifiers (2^32 of them). *)
ASSUME IdsAssumption ==
  /\ IsFiniteSet(Accounts)
  /\ IsFiniteSet(Ids)
  /\ Cardinality(Ids) >= Cardinality(Accounts)

VARIABLES
  users,      \* the session of each account, or None
  token_map,  \* the account a secret token authenticates, or None
  audio_map,  \* the account a public audio id names, or None
  told        \* the notices queued on each connection since it last took a
              \* session: what its client can know of having lost it

registry == <<users, token_map, audio_map>>
umVars   == <<users, token_map, audio_map, told>>

Notices == {"session_replaced", "user_kicked", "user_banned"}

Online(u)   == users[u] # None
Owns(c, u)  == Online(u) /\ users[u].tx = c
UserCount   == Cardinality({u \in Accounts : Online(u)})

(* A session as handle_login fills it in: no room, nothing muted, no UDP
   address yet. *)
FreshSession(c, tn, t, a) ==
  [tx |-> c, tenant |-> tn, session_token |-> t, audio_id |-> a,
   room_id |-> None, muted |-> FALSE, deafened |-> FALSE,
   admin_muted |-> FALSE, loopback |-> FALSE, udp_addr |-> None]

(* A plausible slip: the token of the old session keeps its entry. *)
TokensKept(u) == token_map

(* The two id maps once the session of u is gone from them. *)
TokensWithout(u) ==
  IF Online(u) THEN [token_map EXCEPT ![users[u].session_token] = None]
               ELSE token_map
AudioWithout(u) ==
  IF Online(u) THEN [audio_map EXCEPT ![users[u].audio_id] = None]
               ELSE audio_map

(* A plausible slip: the connection that held the session is not told. *)
ToldNobody(c, u) == [told EXCEPT ![c] = {}]

(* The notices after add_user(u) by connection c: the connection that held
   the session is told, the one that takes it starts from nothing. *)
ToldOfTakeover(c, u) ==
  [d \in Conns |->
     IF d = c THEN {}
     ELSE IF Owns(d, u) THEN told[d] \cup {"session_replaced"}
     ELSE told[d]]

----------------------------------------------------------------------------
Init ==
  /\ users = [u \in Accounts |-> None]
  /\ token_map = [t \in Ids |-> None]
  /\ audio_map = [a \in Ids |-> None]
  /\ told = [c \in Conns |-> {}]

(* add_user: replace the session of u by one of connection c under a token
   and an audio id that nobody holds. *)
AddUser(u, c, tn) ==
  \E t, a \in Ids :
    /\ TokensWithout(u)[t] = None
    /\ AudioWithout(u)[a] = None
    /\ users' = [users EXCEPT ![u] = FreshSession(c, tn, t, a)]
    /\ token_map' = [TokensWithout(u) EXCEPT ![t] = u]
    /\ audio_map' = [AudioWithout(u) EXCEPT ![a] = u]
    /\ told' = ToldOfTakeover(c, u)

(* remove_user: free the account, its token and its audio id; nothing happens
   when the account is not online. *)
RemoveUser(u) ==
  /\ users' = [users EXCEPT ![u] = None]
  /\ token_map' = TokensWithout(u)
  /\ audio_map' = AudioWithout(u)

(* The setters of one field: they change an existing session only. *)
SetRoom(u, r) ==
  users' = IF Online(u) THEN [users EXCEPT ![u].room_id = r] ELSE users
SetMuted(u, b) ==
  users' = IF Online(u) THEN [users EXCEPT ![u].muted = b] ELSE users
SetDeafened(u, b) ==
  users' = IF Online(u) THEN [users EXCEPT ![u].deafened = b] ELSE users
SetAdminMuted(u, b) ==
  users' = IF Online(u) THEN [users EXCEPT ![u].admin_muted = b] ELSE users
SetLoopback(u, b) ==
  users' = IF Online(u) THEN [users EXCEPT ![u].loopback = b] ELSE users
SetUdpAddr(u, ad) ==
  users' = IF Online(u) THEN [users EXCEPT ![u].udp_addr = ad] ELSE users

(* send_to_user(u, kind) for one of the notices. *)
Tell(u, kind) ==
  told' = [c \in Conns |-> IF Owns(c, u) THEN told[c] \cup {kind} ELSE told[c]]

Set(u) ==
  /\ \/ \E r \in Rooms \cup {None} : SetRoom(u, r)
     \/ \E b \in BOOLEAN : \/ SetMuted(u, b)
                           \/ SetDeafened(u, b)
                           \/ SetAdminMuted(u, b)
                           \/ SetLoopback(u, b)
     \/ \E ad \in Addrs : SetUdpAddr(u, ad)
  /\ UNCHANGED <<token_map, audio_map, told>>

Next ==
  \E u \in Accounts :
    \/ \E c \in Conns, tn \in Tenants : AddUser(u, c, tn)
    \/ RemoveUser(u) /\ UNCHANGED told
    \/ Set(u)
    \/ \E kind \in Notices : Tell(u, kind) /\ UNCHANGED registry

Spec == Init /\ [][Next]_umVars

----------------------------------------------------------------------------
(* Every variable has its type. *)
TypeOK ==
  /\ users \in [Accounts -> Session \cup {None}]
  /\ token_map \in [Ids -> Accounts \cup {None}]
  /\ audio_map \in [Ids -> Accounts \cup {None}]
  /\ told \in [Conns -> SUBSET Notices]

(* The secret of every online user authenticates that user ... *)
TokensReachSessions ==
  \A u \in Accounts :
    Online(u) => /\ token_map[users[u].session_token] = u
                 /\ audio_map[users[u].audio_id] = u

(* ... and no identifier outlives the session it was drawn for. *)
NoStaleIds ==
  /\ \A t \in Ids : token_map[t] # None =>
       Online(token_map[t]) /\ users[token_map[t]].session_token = t
  /\ \A a \in Ids : audio_map[a] # None =>
       Online(audio_map[a]) /\ users[audio_map[a]].audio_id = a

(* The three maps agree: a UDP packet is accounted to the one session that
   was handed its token, and a token of a replaced, kicked or closed session
   authenticates nobody. *)
MapsConsistent == TokensReachSessions /\ NoStaleIds
=============================================================================

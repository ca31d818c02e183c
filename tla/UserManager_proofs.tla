------------------------- MODULE UserManager_proofs -------------------------
(***************************************************************************)
(* The three maps of the registry agree: the inductive facts about         *)
(* UserManager's operations, and the invariant of its specification.       *)
(* Sessions_proofs reuses the lemmas for the connections.                  *)
(***************************************************************************)
EXTENDS UserManager, TLAPS

RegistryOK == TypeOK /\ MapsConsistent

(* A session is never None. *)
LEMMA SessionNotNone == \A s \in Session : s # None
BY NoneAssumption

(* A fresh session has the type of a session and the fields it is given. *)
LEMMA FreshSessionType ==
  ASSUME NEW c \in Conns, NEW tn \in Tenants, NEW t \in Ids, NEW a \in Ids
  PROVE  /\ FreshSession(c, tn, t, a) \in Session
         /\ FreshSession(c, tn, t, a) # None
         /\ FreshSession(c, tn, t, a).tx = c
         /\ FreshSession(c, tn, t, a).session_token = t
         /\ FreshSession(c, tn, t, a).audio_id = a
<1>1. FreshSession(c, tn, t, a) \in Session
  BY DEF FreshSession, Session
<1>2. QED
  BY <1>1, SessionNotNone DEF FreshSession

(* What is in the maps for an online account. *)
LEMMA OnlineSession ==
  ASSUME TypeOK, NEW u \in Accounts, Online(u)
  PROVE  /\ users[u] \in Session
         /\ users[u].session_token \in Ids
         /\ users[u].audio_id \in Ids
         /\ users[u].tx \in Conns
<1>1. users[u] \in Session
  BY DEF TypeOK, Online
<1>2. QED
  BY <1>1 DEF Session

(* Freeing the identifiers of u removes exactly the entries that name u. *)
LEMMA FreedIds ==
  ASSUME TypeOK, MapsConsistent, NEW u \in Accounts
  PROVE  /\ TokensWithout(u) \in [Ids -> Accounts \cup {None}]
         /\ AudioWithout(u) \in [Ids -> Accounts \cup {None}]
         /\ \A t \in Ids : /\ TokensWithout(u)[t] # u
                           /\ token_map[t] # u => TokensWithout(u)[t] = token_map[t]
                           /\ TokensWithout(u)[t] # None => TokensWithout(u)[t] = token_map[t]
         /\ \A a \in Ids : /\ AudioWithout(u)[a] # u
                           /\ audio_map[a] # u => AudioWithout(u)[a] = audio_map[a]
                           /\ AudioWithout(u)[a] # None => AudioWithout(u)[a] = audio_map[a]
<1>1. u # None
  BY NoneAssumption
<1>2. CASE Online(u)
  <2>1. users[u].session_token \in Ids /\ users[u].audio_id \in Ids
    BY <1>2, OnlineSession
  <2>2. /\ token_map[users[u].session_token] = u
        /\ audio_map[users[u].audio_id] = u
    BY <1>2 DEF MapsConsistent, TokensReachSessions
  <2>3. \A t \in Ids : token_map[t] = u => t = users[u].session_token
    BY <1>1 DEF MapsConsistent, NoStaleIds
  <2>4. \A a \in Ids : audio_map[a] = u => a = users[u].audio_id
    BY <1>1 DEF MapsConsistent, NoStaleIds
  <2>5. QED
    BY <1>1, <1>2, <2>1, <2>2, <2>3, <2>4 DEF TokensWithout, AudioWithout, TypeOK
<1>3. CASE ~Online(u)
  <2>1. \A t \in Ids : token_map[t] # u /\ audio_map[t] # u
    BY <1>1, <1>3 DEF MapsConsistent, NoStaleIds
  <2>2. QED
    BY <1>3, <2>1 DEF TokensWithout, AudioWithout, TypeOK
<1>4. QED
  BY <1>2, <1>3

LEMMA InitRegistry == Init => RegistryOK
BY DEF Init, RegistryOK, TypeOK, MapsConsistent, TokensReachSessions, NoStaleIds,
       Online, Notices

(* A session under identifiers that nobody else holds keeps the maps in
   agreement. *)
LEMMA NewSessionRegistry ==
  ASSUME RegistryOK, NEW u \in Accounts, NEW c \in Conns, NEW tn \in Tenants,
         NEW t \in Ids, NEW a \in Ids,
         TokensWithout(u)[t] = None,
         AudioWithout(u)[a] = None,
         users' = [users EXCEPT ![u] = FreshSession(c, tn, t, a)],
         token_map' = [TokensWithout(u) EXCEPT ![t] = u],
         audio_map' = [AudioWithout(u) EXCEPT ![a] = u],
         told' \in [Conns -> SUBSET Notices]
  PROVE  RegistryOK'
<1> DEFINE s == FreshSession(c, tn, t, a)
<1>1. s \in Session /\ s # None /\ s.session_token = t /\ s.audio_id = a
  BY FreshSessionType
<1> HIDE DEF s
<1>2. TypeOK /\ MapsConsistent
  BY DEF RegistryOK
<1>3. u # None
  BY NoneAssumption
<1>4. /\ users' \in [Accounts -> Session \cup {None}]
      /\ users'[u] = s
      /\ \A v \in Accounts : v # u => users'[v] = users[v]
  BY <1>1, <1>2 DEF TypeOK, s
<1>5. /\ token_map' \in [Ids -> Accounts \cup {None}]
      /\ token_map'[t] = u
      /\ \A x \in Ids : x # t => token_map'[x] = TokensWithout(u)[x]
  BY <1>2, FreedIds
<1>6. /\ audio_map' \in [Ids -> Accounts \cup {None}]
      /\ audio_map'[a] = u
      /\ \A x \in Ids : x # a => audio_map'[x] = AudioWithout(u)[x]
  BY <1>2, FreedIds
<1>7. TypeOK'
  BY <1>4, <1>5, <1>6 DEF TypeOK
<1>8. TokensReachSessions'
  <2> SUFFICES ASSUME NEW v \in Accounts, users'[v] # None
               PROVE  /\ token_map'[users'[v].session_token] = v
                      /\ audio_map'[users'[v].audio_id] = v
    BY DEF TokensReachSessions, Online
  <2>1. CASE v = u
    BY <2>1, <1>1, <1>4, <1>5, <1>6
  <2>2. CASE v # u
    <3>1. users'[v] = users[v] /\ Online(v)
      BY <2>2, <1>4 DEF Online
    <3>2. users[v].session_token \in Ids /\ users[v].audio_id \in Ids
      BY <3>1, <1>2, OnlineSession
    <3>3. token_map[users[v].session_token] = v /\ audio_map[users[v].audio_id] = v
      BY <3>1, <1>2 DEF MapsConsistent, TokensReachSessions
    <3>4. v # None
      BY NoneAssumption
    <3>5. /\ TokensWithout(u)[users[v].session_token] = v
          /\ AudioWithout(u)[users[v].audio_id] = v
      BY <2>2, <3>2, <3>3, <1>2, FreedIds
    <3>6. users[v].session_token # t /\ users[v].audio_id # a
      BY <3>4, <3>5
    <3>7. QED
      BY <3>1, <3>2, <3>5, <3>6, <1>5, <1>6
  <2>3. QED
    BY <2>1, <2>2
<1>9. NoStaleIds'
  <2>1. ASSUME NEW x \in Ids, token_map'[x] # None
        PROVE  users'[token_map'[x]] # None /\ users'[token_map'[x]].session_token = x
    <3>1. CASE x = t
      BY <3>1, <1>1, <1>4, <1>5
    <3>2. CASE x # t
      <4>1. token_map'[x] = TokensWithout(u)[x]
        BY <3>2, <1>5
      <4>2. token_map'[x] = token_map[x] /\ token_map[x] # u
        BY <4>1, <2>1, <1>2, FreedIds
      <4>3. token_map[x] \in Accounts
        BY <4>2, <2>1, <1>2 DEF TypeOK
      <4>4. users[token_map[x]] # None /\ users[token_map[x]].session_token = x
        BY <4>2, <2>1, <1>2 DEF MapsConsistent, NoStaleIds, Online
      <4>5. QED
        BY <4>2, <4>3, <4>4, <1>4
    <3>3. QED
      BY <3>1, <3>2
  <2>2. ASSUME NEW x \in Ids, audio_map'[x] # None
        PROVE  users'[audio_map'[x]] # None /\ users'[audio_map'[x]].audio_id = x
    <3>1. CASE x = a
      BY <3>1, <1>1, <1>4, <1>6
    <3>2. CASE x # a
      <4>1. audio_map'[x] = AudioWithout(u)[x]
        BY <3>2, <1>6
      <4>2. audio_map'[x] = audio_map[x] /\ audio_map[x] # u
        BY <4>1, <2>2, <1>2, FreedIds
      <4>3. audio_map[x] \in Accounts
        BY <4>2, <2>2, <1>2 DEF TypeOK
      <4>4. users[audio_map[x]] # None /\ users[audio_map[x]].audio_id = x
        BY <4>2, <2>2, <1>2 DEF MapsConsistent, NoStaleIds, Online
      <4>5. QED
        BY <4>2, <4>3, <4>4, <1>4
    <3>3. QED
      BY <3>1, <3>2
  <2>3. QED
    BY <2>1, <2>2 DEF NoStaleIds, Online
<1>10. QED
  BY <1>7, <1>8, <1>9 DEF RegistryOK, MapsConsistent

(* add_user keeps the maps in agreement. *)
LEMMA AddUserRegistry ==
  ASSUME RegistryOK, NEW u \in Accounts, NEW c \in Conns, NEW tn \in Tenants,
         AddUser(u, c, tn)
  PROVE  RegistryOK'
<1>1. told' \in [Conns -> SUBSET Notices]
  BY DEF AddUser, RegistryOK, TypeOK, ToldOfTakeover, Notices
<1>2. PICK t \in Ids, a \in Ids :
        /\ TokensWithout(u)[t] = None
        /\ AudioWithout(u)[a] = None
        /\ users' = [users EXCEPT ![u] = FreshSession(c, tn, t, a)]
        /\ token_map' = [TokensWithout(u) EXCEPT ![t] = u]
        /\ audio_map' = [AudioWithout(u) EXCEPT ![a] = u]
  BY DEF AddUser
<1>3. QED
  BY <1>1, <1>2, NewSessionRegistry

(* remove_user keeps the maps in agreement. *)
LEMMA RemoveUserRegistry ==
  ASSUME RegistryOK, NEW u \in Accounts, RemoveUser(u), told' \in [Conns -> SUBSET Notices]
  PROVE  RegistryOK'
<1>1. TypeOK /\ MapsConsistent
  BY DEF RegistryOK
<1>2. /\ users' \in [Accounts -> Session \cup {None}]
      /\ users'[u] = None
      /\ \A v \in Accounts : v # u => users'[v] = users[v]
  BY <1>1 DEF RemoveUser, TypeOK
<1>3. token_map' = TokensWithout(u) /\ audio_map' = AudioWithout(u)
  BY DEF RemoveUser
<1>4. TypeOK'
  BY <1>1, <1>2, <1>3, FreedIds DEF TypeOK
<1>5. TokensReachSessions'
  <2> SUFFICES ASSUME NEW v \in Accounts, users'[v] # None
               PROVE  /\ token_map'[users'[v].session_token] = v
                      /\ audio_map'[users'[v].audio_id] = v
    BY DEF TokensReachSessions, Online
  <2>1. v # u /\ users'[v] = users[v] /\ Online(v)
    BY <1>2 DEF Online
  <2>2. users[v].session_token \in Ids /\ users[v].audio_id \in Ids
    BY <2>1, <1>1, OnlineSession
  <2>3. token_map[users[v].session_token] = v /\ audio_map[users[v].audio_id] = v
    BY <2>1, <1>1 DEF MapsConsistent, TokensReachSessions
  <2>4. QED
    BY <2>1, <2>2, <2>3, <1>1, <1>3, FreedIds
<1>6. NoStaleIds'
  <2>1. ASSUME NEW x \in Ids, token_map'[x] # None
        PROVE  users'[token_map'[x]] # None /\ users'[token_map'[x]].session_token = x
    <3>1. token_map'[x] = token_map[x] /\ token_map'[x] # u
      BY <2>1, <1>1, <1>3, FreedIds
    <3>2. token_map[x] \in Accounts
      BY <3>1, <2>1, <1>1 DEF TypeOK
    <3>3. users[token_map[x]] # None /\ users[token_map[x]].session_token = x
      BY <3>1, <2>1, <1>1 DEF MapsConsistent, NoStaleIds, Online
    <3>4. QED
      BY <3>1, <3>2, <3>3, <1>2
  <2>2. ASSUME NEW x \in Ids, audio_map'[x] # None
        PROVE  users'[audio_map'[x]] # None /\ users'[audio_map'[x]].audio_id = x
    <3>1. audio_map'[x] = audio_map[x] /\ audio_map'[x] # u
      BY <2>2, <1>1, <1>3, FreedIds
    <3>2. audio_map[x] \in Accounts
      BY <3>1, <2>2, <1>1 DEF TypeOK
    <3>3. users[audio_map[x]] # None /\ users[audio_map[x]].audio_id = x
      BY <3>1, <2>2, <1>1 DEF MapsConsistent, NoStaleIds, Online
    <3>4. QED
      BY <3>1, <3>2, <3>3, <1>2
  <2>3. QED
    BY <2>1, <2>2 DEF NoStaleIds, Online
<1>7. QED
  BY <1>4, <1>5, <1>6 DEF RegistryOK, MapsConsistent

(* A step that changes neither who is online nor anybody's identifiers, and
   leaves the id maps alone, keeps the maps in agreement. *)
LEMMA SameIdsRegistry ==
  ASSUME RegistryOK, TypeOK', UNCHANGED <<token_map, audio_map>>,
         \A v \in Accounts :
           /\ users[v] = None <=> users'[v] = None
           /\ users[v] # None => /\ users'[v].session_token = users[v].session_token
                                 /\ users'[v].audio_id = users[v].audio_id
  PROVE  RegistryOK'
<1>1. TypeOK /\ MapsConsistent
  BY DEF RegistryOK
<1>2. TokensReachSessions'
  BY <1>1 DEF MapsConsistent, TokensReachSessions, Online
<1>3. NoStaleIds'
  <2>1. ASSUME NEW x \in Ids, token_map'[x] # None
        PROVE  users'[token_map'[x]] # None /\ users'[token_map'[x]].session_token = x
    <3>1. token_map[x] \in Accounts /\ token_map'[x] = token_map[x]
      BY <2>1, <1>1 DEF TypeOK
    <3>2. users[token_map[x]] # None /\ users[token_map[x]].session_token = x
      BY <3>1, <2>1, <1>1 DEF MapsConsistent, NoStaleIds, Online
    <3>3. QED
      BY <3>1, <3>2
  <2>2. ASSUME NEW x \in Ids, audio_map'[x] # None
        PROVE  users'[audio_map'[x]] # None /\ users'[audio_map'[x]].audio_id = x
    <3>1. audio_map[x] \in Accounts /\ audio_map'[x] = audio_map[x]
      BY <2>2, <1>1 DEF TypeOK
    <3>2. users[audio_map[x]] # None /\ users[audio_map[x]].audio_id = x
      BY <3>1, <2>2, <1>1 DEF MapsConsistent, NoStaleIds, Online
    <3>3. QED
      BY <3>1, <3>2
  <2>3. QED
    BY <2>1, <2>2 DEF NoStaleIds, Online
<1>4. QED
  BY <1>2, <1>3 DEF RegistryOK, MapsConsistent

(* A setter replaces the session of an online account by one with the same
   identifiers, and does nothing for an account that is offline. *)
LEMMA SetterRegistry ==
  ASSUME RegistryOK, NEW u \in Accounts, NEW s,
         Online(u) => /\ s \in Session
                      /\ s.session_token = users[u].session_token
                      /\ s.audio_id = users[u].audio_id,
         users' = IF Online(u) THEN [users EXCEPT ![u] = s] ELSE users,
         UNCHANGED <<token_map, audio_map, told>>
  PROVE  RegistryOK'
<1>1. TypeOK
  BY DEF RegistryOK
<1>2. CASE Online(u)
  <2>1. TypeOK'
    BY <1>1, <1>2 DEF TypeOK
  <2>2. QED
    BY <1>1, <1>2, <2>1, SameIdsRegistry, SessionNotNone DEF Online, TypeOK
<1>3. CASE ~Online(u)
  <2>1. users' = users
    BY <1>3
  <2>2. TypeOK'
    BY <1>1, <2>1 DEF TypeOK
  <2>3. QED
    BY <2>1, <2>2, SameIdsRegistry
<1>4. QED
  BY <1>2, <1>3

(* set_room *)
LEMMA SetRoomRegistry ==
  ASSUME RegistryOK, NEW u \in Accounts, NEW r \in Rooms \cup {None}, SetRoom(u, r),
         UNCHANGED <<token_map, audio_map, told>>
  PROVE  RegistryOK'
<1> DEFINE s == [users[u] EXCEPT !.room_id = r]
<1>1. Online(u) => users[u] \in Session
  BY OnlineSession DEF RegistryOK
<1>2. Online(u) => /\ s \in Session
                   /\ s.session_token = users[u].session_token
                   /\ s.audio_id = users[u].audio_id
  BY <1>1 DEF Session
<1>3. users' = IF Online(u) THEN [users EXCEPT ![u] = s] ELSE users
  BY DEF SetRoom
<1> HIDE DEF s
<1>4. QED
  BY <1>2, <1>3, SetterRegistry

(* set_muted *)
LEMMA SetMutedRegistry ==
  ASSUME RegistryOK, NEW u \in Accounts, NEW b \in BOOLEAN, SetMuted(u, b),
         UNCHANGED <<token_map, audio_map, told>>
  PROVE  RegistryOK'
<1> DEFINE s == [users[u] EXCEPT !.muted = b]
<1>1. Online(u) => users[u] \in Session
  BY OnlineSession DEF RegistryOK
<1>2. Online(u) => /\ s \in Session
                   /\ s.session_token = users[u].session_token
                   /\ s.audio_id = users[u].audio_id
  BY <1>1 DEF Session
<1>3. users' = IF Online(u) THEN [users EXCEPT ![u] = s] ELSE users
  BY DEF SetMuted
<1> HIDE DEF s
<1>4. QED
  BY <1>2, <1>3, SetterRegistry

(* set_deafened *)
LEMMA SetDeafenedRegistry ==
  ASSUME RegistryOK, NEW u \in Accounts, NEW b \in BOOLEAN, SetDeafened(u, b),
         UNCHANGED <<token_map, audio_map, told>>
  PROVE  RegistryOK'
<1> DEFINE s == [users[u] EXCEPT !.deafened = b]
<1>1. Online(u) => users[u] \in Session
  BY OnlineSession DEF RegistryOK
<1>2. Online(u) => /\ s \in Session
                   /\ s.session_token = users[u].session_token
                   /\ s.audio_id = users[u].audio_id
  BY <1>1 DEF Session
<1>3. users' = IF Online(u) THEN [users EXCEPT ![u] = s] ELSE users
  BY DEF SetDeafened
<1> HIDE DEF s
<1>4. QED
  BY <1>2, <1>3, SetterRegistry

(* set_admin_muted *)
LEMMA SetAdminMutedRegistry ==
  ASSUME RegistryOK, NEW u \in Accounts, NEW b \in BOOLEAN, SetAdminMuted(u, b),
         UNCHANGED <<token_map, audio_map, told>>
  PROVE  RegistryOK'
<1> DEFINE s == [users[u] EXCEPT !.admin_muted = b]
<1>1. Online(u) => users[u] \in Session
  BY OnlineSession DEF RegistryOK
<1>2. Online(u) => /\ s \in Session
                   /\ s.session_token = users[u].session_token
                   /\ s.audio_id = users[u].audio_id
  BY <1>1 DEF Session
<1>3. users' = IF Online(u) THEN [users EXCEPT ![u] = s] ELSE users
  BY DEF SetAdminMuted
<1> HIDE DEF s
<1>4. QED
  BY <1>2, <1>3, SetterRegistry

(* set_loopback *)
LEMMA SetLoopbackRegistry ==
  ASSUME RegistryOK, NEW u \in Accounts, NEW b \in BOOLEAN, SetLoopback(u, b),
         UNCHANGED <<token_map, audio_map, told>>
  PROVE  RegistryOK'
<1> DEFINE s == [users[u] EXCEPT !.loopback = b]
<1>1. Online(u) => users[u] \in Session
  BY OnlineSession DEF RegistryOK
<1>2. Online(u) => /\ s \in Session
                   /\ s.session_token = users[u].session_token
                   /\ s.audio_id = users[u].audio_id
  BY <1>1 DEF Session
<1>3. users' = IF Online(u) THEN [users EXCEPT ![u] = s] ELSE users
  BY DEF SetLoopback
<1> HIDE DEF s
<1>4. QED
  BY <1>2, <1>3, SetterRegistry

(* set_udp_addr *)
LEMMA SetUdpAddrRegistry ==
  ASSUME RegistryOK, NEW u \in Accounts, NEW ad \in Addrs, SetUdpAddr(u, ad),
         UNCHANGED <<token_map, audio_map, told>>
  PROVE  RegistryOK'
<1> DEFINE s == [users[u] EXCEPT !.udp_addr = ad]
<1>1. Online(u) => users[u] \in Session
  BY OnlineSession DEF RegistryOK
<1>2. Online(u) => /\ s \in Session
                   /\ s.session_token = users[u].session_token
                   /\ s.audio_id = users[u].audio_id
  BY <1>1 DEF Session
<1>3. users' = IF Online(u) THEN [users EXCEPT ![u] = s] ELSE users
  BY DEF SetUdpAddr
<1> HIDE DEF s
<1>4. QED
  BY <1>2, <1>3, SetterRegistry

(* Queueing a notice leaves the maps alone. *)
LEMMA TellRegistry ==
  ASSUME RegistryOK, NEW u \in Accounts, NEW kind \in Notices, Tell(u, kind),
         UNCHANGED registry
  PROVE  RegistryOK'
<1>1. TypeOK'
  BY DEF RegistryOK, TypeOK, Tell, registry
<1>2. QED
  BY <1>1, SameIdsRegistry DEF registry

(* Every token authenticates the session it was handed to and nothing else,
   whatever the order of logins, removals and settings, for any number of
   accounts, connections and identifiers. *)
THEOREM RegistryInvariant == Spec => [](TypeOK /\ MapsConsistent)
<1>1. Init => RegistryOK
  BY InitRegistry
<1>2. RegistryOK /\ [Next]_umVars => RegistryOK'
  <2> SUFFICES ASSUME RegistryOK, [Next]_umVars
               PROVE  RegistryOK'
    OBVIOUS
  <2>1. ASSUME NEW u \in Accounts, NEW c \in Conns, NEW tn \in Tenants, AddUser(u, c, tn)
        PROVE  RegistryOK'
    BY <2>1, AddUserRegistry
  <2>2. ASSUME NEW u \in Accounts, RemoveUser(u), UNCHANGED told
        PROVE  RegistryOK'
    <3>1. told' \in [Conns -> SUBSET Notices]
      BY <2>2 DEF RegistryOK, TypeOK
    <3>2. QED
      BY <2>2, <3>1, RemoveUserRegistry
  <2>3. ASSUME NEW u \in Accounts, Set(u)
        PROVE  RegistryOK'
    <3>1. UNCHANGED <<token_map, audio_map, told>>
      BY <2>3 DEF Set
    <3>2. CASE \E r \in Rooms \cup {None} : SetRoom(u, r)
      BY <3>1, <3>2, SetRoomRegistry
    <3>3. CASE \E b \in BOOLEAN : SetMuted(u, b)
      BY <3>1, <3>3, SetMutedRegistry
    <3>4. CASE \E b \in BOOLEAN : SetDeafened(u, b)
      BY <3>1, <3>4, SetDeafenedRegistry
    <3>5. CASE \E b \in BOOLEAN : SetAdminMuted(u, b)
      BY <3>1, <3>5, SetAdminMutedRegistry
    <3>6. CASE \E b \in BOOLEAN : SetLoopback(u, b)
      BY <3>1, <3>6, SetLoopbackRegistry
    <3>7. CASE \E ad \in Addrs : SetUdpAddr(u, ad)
      BY <3>1, <3>7, SetUdpAddrRegistry
    <3>8. QED
      BY <2>3, <3>2, <3>3, <3>4, <3>5, <3>6, <3>7 DEF Set
  <2>4. ASSUME NEW u \in Accounts, NEW kind \in Notices, Tell(u, kind), UNCHANGED registry
        PROVE  RegistryOK'
    BY <2>4, TellRegistry
  <2>5. CASE UNCHANGED umVars
    <3>1. TypeOK'
      BY <2>5 DEF RegistryOK, TypeOK, umVars
    <3>2. QED
      BY <2>5, <3>1, SameIdsRegistry DEF umVars
  <2>6. QED
    BY <2>1, <2>2, <2>3, <2>4, <2>5 DEF Next
<1>3. QED
  BY <1>1, <1>2, PTL DEF Spec, RegistryOK
=============================================================================

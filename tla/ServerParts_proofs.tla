-------------------------- MODULE ServerParts_proofs --------------------------
(* Theorems about parts of the server that run beside the registries: Logins,   *)
(* for any connections, names, identities, tenants and numbers of attempts,     *)
(* requests and rows; FileDownloads, for any files of any length; Uploads, for  *)
(* any uploads, clients, rooms and limits; OfflineMessages, for any accounts,   *)
(* connections and numbers of messages.                                         *)
EXTENDS Logins, Uploads, FileDownloads, OfflineMessages, FiniteSetTheorems, SequenceTheorems,
        WellFoundedInduction, TLAPS

----------------------------------------------------------------------------
(* Types of what the theorem is about *)

AccountTypes ==
  /\ mode \in {"local", "central", "hub"}
  /\ users_table \subseteq Row
  /\ next_id \in 1..(MaxRows + 1)
  /\ pc \in [Sockets -> {"idle"} \cup LoginSteps \cup RequestSteps]
  /\ errand \in [Sockets -> Errand \cup {Nil}]
  /\ session \in [Sockets -> Errand \cup {Nil}]
  /\ \A c \in Sockets : pc[c] # "idle" => errand[c] \in Errand

LEMMA AccountTypesInit == LoginsInit => AccountTypes
<1> SUFFICES ASSUME LoginsInit PROVE AccountTypes
  OBVIOUS
<1>1. 1 \in 1..MaxRows /\ 2 \in 1..(MaxRows + 1)
  BY LoginsAssumption
<1>2. users_table \subseteq Row
  BY <1>1 DEF LoginsInit, Row
<1> QED
  BY <1>1, <1>2 DEF LoginsInit, AccountTypes

----------------------------------------------------------------------------
(* What a login holds between its steps, in any state of the tables: T is    *)
(* users_table, n next_id, s where the task is and j its errand.             *)

(* The account j.id is of the identity, or the name, that j came with. *)
Owns(T, n, j) ==
  /\ j.id < n
  /\ \A r \in T : r.id = j.id =>
       IF j.uid = Nil THEN r.name = j.name /\ r.password = "set" ELSE r.uid = j.uid

PasswordSteps   == {"auth", "exists", "registration", "create"}
CentralSteps == {"find", "name", "create_central"}
KnownSteps   == {"lookup", "get_tenant", "create_tenant", "create_lobby", "enter"}
AllSteps     == {"idle"} \cup LoginSteps \cup RequestSteps

Right(T, n, s, j) ==
  /\ s \in KnownSteps => Owns(T, n, j)
  /\ s \in PasswordSteps => j.uid = Nil
  /\ s \in CentralSteps => j.uid # Nil
  /\ s = "account_create" => j.uid = Nil

TableRight ==
  /\ \A r \in users_table : r.id < next_id
  /\ \A r, q \in users_table : r.id = q.id => r = q

ErrandsRight == \A c \in Sockets : Right(users_table, next_id, pc[c], errand[c])

SessionsRight ==
  \A c \in Sockets : session[c] # Nil => Owns(users_table, next_id, session[c])

LoginsInv == AccountTypes /\ TableRight /\ ErrandsRight /\ SessionsRight

LEMMA LoginsInvInit == LoginsInit => LoginsInv
<1> SUFFICES ASSUME LoginsInit PROVE LoginsInv
  OBVIOUS
<1>1. AccountTypes
  BY AccountTypesInit
<1>2. TableRight
  BY DEF LoginsInit, TableRight
<1>3. ErrandsRight
  BY DEF LoginsInit, ErrandsRight, Right, KnownSteps, PasswordSteps, CentralSteps
<1>4. SessionsRight
  BY DEF LoginsInit, SessionsRight
<1> QED
  BY <1>1, <1>2, <1>3, <1>4 DEF LoginsInv

(* The task of c goes on to s with the errand j. *)
LEMMA Moves ==
  ASSUME LoginsInv, NEW c \in Sockets, NEW s \in AllSteps, NEW j \in Errand,
         pc' = [pc EXCEPT ![c] = s], errand' = [errand EXCEPT ![c] = j],
         UNCHANGED <<mode, users_table, next_id, session>>,
         Right(users_table, next_id, s, j)
  PROVE  LoginsInv'
<1>1. AccountTypes'
  BY DEF LoginsInv, AccountTypes, AllSteps
<1>2. TableRight'
  BY DEF LoginsInv, TableRight
<1>3. ErrandsRight'
  <2>1. \A d \in Sockets : (d = c /\ pc'[d] = s /\ errand'[d] = j)
                           \/ (pc'[d] = pc[d] /\ errand'[d] = errand[d])
    BY DEF LoginsInv, AccountTypes
  <2> QED
    BY <2>1 DEF LoginsInv, ErrandsRight
<1>4. SessionsRight'
  BY DEF LoginsInv, SessionsRight
<1> QED
  BY <1>1, <1>2, <1>3, <1>4 DEF LoginsInv

(* The same when the errand stays as it is. *)
LEMMA MovesOn ==
  ASSUME LoginsInv, NEW c \in Sockets, NEW s \in AllSteps, pc[c] # "idle",
         Goto(c, s), UNCHANGED <<mode, users_table, next_id, session, errand>>,
         Right(users_table, next_id, s, errand[c])
  PROVE  LoginsInv'
<1>1. errand[c] \in Errand /\ errand' = [errand EXCEPT ![c] = errand[c]]
  BY DEF LoginsInv, AccountTypes
<1> QED
  BY <1>1, Moves DEF Goto

----------------------------------------------------------------------------
(* The steps of a login that write no table *)

(* A task in one of the early steps holds what these say. *)
LEMMA LooksUp ==
  ASSUME LoginsInv, NEW c \in Sockets, NEW r \in users_table, pc[c] # "idle",
         NEW s \in KnownSteps, Goto(c, s),
         UNCHANGED <<mode, users_table, next_id, session>>,
         errand' = [errand EXCEPT ![c].id = r.id, ![c].role = r.role],
         IF errand[c].uid = Nil THEN r.name = errand[c].name /\ r.password = "set"
         ELSE r.uid = errand[c].uid
  PROVE  LoginsInv'
<1>1. PICK j \in Errand : j = [errand[c] EXCEPT !.id = r.id, !.role = r.role]
  <2>1. errand[c] \in Errand /\ r \in Row
    BY DEF LoginsInv, AccountTypes
  <2>2. r.id \in 0..MaxRows /\ r.role \in {"user", "admin"}
    BY <2>1, LoginsAssumption DEF Row
  <2> QED
    BY <2>1, <2>2 DEF Errand
<1>2. errand' = [errand EXCEPT ![c] = j]
  BY <1>1 DEF LoginsInv, AccountTypes
<1>3. j.id = r.id /\ j.name = errand[c].name /\ j.uid = errand[c].uid
  BY <1>1 DEF LoginsInv, AccountTypes, Errand
<1>4. Owns(users_table, next_id, j)
  BY <1>3 DEF LoginsInv, TableRight, Owns
<1>5. Right(users_table, next_id, s, j) /\ s \in AllSteps
  BY <1>4 DEF Right, KnownSteps, PasswordSteps, CentralSteps, AllSteps,
                                 LoginSteps
<1> QED
  BY <1>1, <1>2, <1>5, Moves DEF Goto

LEMMA ErrandOfLogin ==
  ASSUME NEW n \in Names, NEW i \in Uids \cup {Nil}, NEW t \in SubServers \cup {Nil}
  PROVE  [name |-> n, uid |-> i, tenant |-> t, id |-> 0, role |-> "user"] \in Errand
<1>1. 0 \in 0..MaxRows
  BY LoginsAssumption
<1> QED
  BY <1>1 DEF Errand

LEMMA StartSafe ==
  ASSUME LoginsInv, NEW c \in Sockets, AuthLogin(c) PROVE LoginsInv'
<1>1. UNCHANGED <<mode, users_table, next_id, session>>
  BY DEF AuthLogin, tables
<1>2. ASSUME NEW n \in Names, NEW s \in {"auth", "reject"}, Comes(c, n, Nil, Nil, s)
      PROVE  LoginsInv'
  <2>1. PICK j \in Errand : /\ j = [name |-> n, uid |-> Nil, tenant |-> Nil,
                                    id |-> 0, role |-> "user"]
                            /\ j.uid = Nil
    <3>1. [name |-> n, uid |-> Nil, tenant |-> Nil, id |-> 0, role |-> "user"] \in Errand
      BY ErrandOfLogin
    <3> QED
      BY <3>1
  <2>2. Right(users_table, next_id, s, j) /\ s \in AllSteps
    BY <2>1 DEF Right, KnownSteps, PasswordSteps, CentralSteps, AllSteps, LoginSteps
  <2> QED
    BY <1>1, <1>2, <2>1, <2>2, Moves DEF Comes, Goto
<1>3. ASSUME NEW i \in Uids, NEW t \in SubServers \cup {Nil}, Comes(c, NameOf[i], i, t, "find")
      PROVE  LoginsInv'
  <2>1. PICK j \in Errand : /\ j = [name |-> NameOf[i], uid |-> i, tenant |-> t,
                                    id |-> 0, role |-> "user"]
                            /\ j.uid # Nil
    <3>1. NameOf[i] \in Names /\ i # Nil
      BY LoginsAssumption
    <3>2. [name |-> NameOf[i], uid |-> i, tenant |-> t, id |-> 0, role |-> "user"] \in Errand
      BY <3>1, ErrandOfLogin
    <3> QED
      BY <3>1, <3>2
  <2>2. Right(users_table, next_id, "find", j) /\ "find" \in AllSteps
    BY <2>1 DEF Right, KnownSteps, PasswordSteps, CentralSteps, AllSteps, LoginSteps
  <2> QED
    BY <1>1, <1>3, <2>1, <2>2, Moves DEF Comes, Goto
<1> QED
  BY <1>2, <1>3 DEF AuthLogin

LEMMA AuthenticateSafe ==
  ASSUME LoginsInv, NEW c \in Sockets, Authenticate(c) PROVE LoginsInv'
<1>1. UNCHANGED <<mode, users_table, next_id, session>> /\ pc[c] = "auth"
  BY DEF Authenticate, Quietly, tables, rest
<1>2. errand[c].uid = Nil
  BY <1>1 DEF LoginsInv, ErrandsRight, Right, PasswordSteps
<1>3. CASE \E r \in WithPassword(errand[c].name) :
             /\ errand' = [errand EXCEPT ![c].id = r.id, ![c].role = r.role]
             /\ Goto(c, "enter")
  BY <1>1, <1>2, <1>3, LooksUp DEF WithPassword, Named, KnownSteps
<1>4. CASE Goto(c, "exists") /\ UNCHANGED errand
  BY <1>1, <1>2, <1>4, MovesOn DEF Right, KnownSteps, PasswordSteps, CentralSteps, AllSteps,
                                 LoginSteps
<1> QED
  BY <1>3, <1>4 DEF Authenticate

LEMMA FindSafe ==
  ASSUME LoginsInv, NEW c \in Sockets, FindCentral(c) PROVE LoginsInv'
<1>1. UNCHANGED <<mode, users_table, next_id, session>> /\ pc[c] = "find"
  BY DEF FindCentral, Quietly, tables, rest
<1>2. errand[c].uid # Nil /\ NextAfterAccount \in KnownSteps
  BY <1>1 DEF LoginsInv, ErrandsRight, Right, CentralSteps, NextAfterAccount, KnownSteps
<1>3. CASE \E r \in FindIdentity(errand[c]) :
             /\ errand' = [errand EXCEPT ![c].id = r.id, ![c].role = r.role]
             /\ Goto(c, NextAfterAccount)
  BY <1>1, <1>2, <1>3, LooksUp DEF FindIdentity, RowOfIdentity, WithUid
<1>4. CASE Goto(c, "name") /\ UNCHANGED errand
  BY <1>1, <1>2, <1>4, MovesOn DEF Right, KnownSteps, PasswordSteps, CentralSteps, AllSteps,
                                 LoginSteps
<1> QED
  BY <1>3, <1>4 DEF FindCentral

LEMMA NameSafe ==
  ASSUME LoginsInv, NEW c \in Sockets, UniqueUsername(c) PROVE LoginsInv'
<1>1. UNCHANGED <<mode, users_table, next_id, session>> /\ pc[c] = "name"
  BY DEF UniqueUsername, Quietly, tables, rest
<1>2. errand[c].uid # Nil /\ errand[c] \in Errand
  BY <1>1 DEF LoginsInv, AccountTypes, ErrandsRight, Right, CentralSteps
<1>3. PICK n \in FreeNames(errand[c].name) : errand' = [errand EXCEPT ![c].name = n]
  BY DEF UniqueUsername
<1>4. n \in Names
  BY <1>2, <1>3 DEF FreeNames, Errand
<1>5. PICK j \in Errand : j = [errand[c] EXCEPT !.name = n] /\ j.uid # Nil
  <2>1. [errand[c] EXCEPT !.name = n] \in Errand
    BY <1>2, <1>4 DEF Errand
  <2>2. [errand[c] EXCEPT !.name = n].uid = errand[c].uid
    BY <1>2 DEF Errand
  <2> QED
    BY <1>2, <2>1, <2>2
<1>6. errand' = [errand EXCEPT ![c] = j]
  BY <1>3, <1>5 DEF LoginsInv, AccountTypes
<1>7. Right(users_table, next_id, "create_central", j) /\ "create_central" \in AllSteps
  BY <1>5 DEF Right, KnownSteps, PasswordSteps, CentralSteps, AllSteps,
                                 LoginSteps
<1> QED
  BY <1>1, <1>5, <1>6, <1>7, Moves DEF UniqueUsername, Goto

LEMMA LookupSafe ==
  ASSUME LoginsInv, NEW c \in Sockets, Lookup(c) PROVE LoginsInv'
<1>1. UNCHANGED <<mode, users_table, next_id, session>> /\ pc[c] = "lookup"
  BY DEF Lookup, Quietly, tables, rest
<1>2. errand[c] \in Errand /\ Owns(users_table, next_id, errand[c])
  BY <1>1 DEF LoginsInv, AccountTypes, ErrandsRight, Right, KnownSteps
<1>3. CASE /\ Goto(c, "get_tenant")
           /\ errand' = [errand EXCEPT ![c].role = IF OwnerOf[errand[c].tenant] = errand[c].uid
                                             THEN "admin" ELSE @]
  <2>1. PICK role \in {"user", "admin"} : errand' = [errand EXCEPT ![c].role = role]
    BY <1>2, <1>3 DEF LoginsInv, AccountTypes, Errand
  <2>2. PICK j \in Errand : j = [errand[c] EXCEPT !.role = role]
    BY <1>2 DEF Errand
  <2>3. j.id = errand[c].id /\ j.name = errand[c].name /\ j.uid = errand[c].uid
    BY <1>2, <2>2 DEF Errand
  <2>4. errand' = [errand EXCEPT ![c] = j]
    BY <2>1, <2>2 DEF LoginsInv, AccountTypes
  <2>5. Right(users_table, next_id, "get_tenant", j) /\ "get_tenant" \in AllSteps
    BY <1>2, <2>3 DEF Owns, Right, KnownSteps, PasswordSteps, CentralSteps, AllSteps, LoginSteps
  <2> QED
    BY <1>1, <1>3, <2>2, <2>4, <2>5, Moves DEF Goto
<1>4. CASE Goto(c, "reject") /\ UNCHANGED errand
  BY <1>1, <1>4, MovesOn DEF Right, KnownSteps, PasswordSteps, CentralSteps, AllSteps,
                                 LoginSteps
<1> QED
  BY <1>3, <1>4 DEF Lookup

(* The steps that only pass what they hold on to the next one. *)
LEMMA PassSafe ==
  ASSUME LoginsInv, NEW c \in Sockets,
         \/ LookWhetherExists(c) \/ LookWhetherOpen(c) \/ GetTenant(c)
         \/ CreateTenant(c) \/ CreateDefaultRoom(c) \/ IsUserBanned(c) \/ Reject(c)
  PROVE  LoginsInv'
<1>1. UNCHANGED <<mode, users_table, next_id, session, errand>>
  BY DEF LookWhetherExists, LookWhetherOpen, GetTenant, CreateTenant, CreateDefaultRoom,
         IsUserBanned, Reject, Quietly, tables, rest
<1>2. CASE LookWhetherExists(c) \/ LookWhetherOpen(c)
  <2>1. pc[c] \in PasswordSteps /\ \E s \in PasswordSteps \cup {"reject"} : Goto(c, s)
    BY <1>2 DEF LookWhetherExists, LookWhetherOpen, PasswordSteps
  <2>2. PICK s \in PasswordSteps \cup {"reject"} : Goto(c, s)
    BY <2>1
  <2>3. errand[c].uid = Nil
    BY <2>1 DEF LoginsInv, ErrandsRight, Right
  <2>4. s \in AllSteps /\ Right(users_table, next_id, s, errand[c])
    BY <2>2, <2>3 DEF Right, KnownSteps, PasswordSteps, CentralSteps, AllSteps, LoginSteps
  <2>5. pc[c] # "idle"
    BY <2>1 DEF PasswordSteps
  <2> QED
    BY <1>1, <2>2, <2>4, <2>5, MovesOn
<1>3. CASE GetTenant(c) \/ CreateTenant(c) \/ CreateDefaultRoom(c)
  <2>1. pc[c] \in KnownSteps /\ \E s \in KnownSteps : Goto(c, s)
    BY <1>3 DEF GetTenant, CreateTenant, CreateDefaultRoom, KnownSteps
  <2>2. PICK s \in KnownSteps : Goto(c, s)
    BY <2>1
  <2>3. Owns(users_table, next_id, errand[c])
    BY <2>1 DEF LoginsInv, ErrandsRight, Right
  <2>4. s \in AllSteps /\ Right(users_table, next_id, s, errand[c])
    BY <2>2, <2>3 DEF Right, KnownSteps, PasswordSteps, CentralSteps, AllSteps, LoginSteps
  <2>5. pc[c] # "idle"
    BY <2>1 DEF KnownSteps
  <2> QED
    BY <1>1, <2>2, <2>4, <2>5, MovesOn
<1>4. CASE IsUserBanned(c) \/ Reject(c)
  <2>1. PICK s \in {"reject", "idle"} : pc[c] # "idle" /\ Goto(c, s)
    BY <1>4 DEF IsUserBanned, Reject
  <2>2. s \in AllSteps /\ Right(users_table, next_id, s, errand[c])
    BY DEF Right, KnownSteps, PasswordSteps, CentralSteps, AllSteps, LoginSteps
  <2> QED
    BY <1>1, <2>1, <2>2, MovesOn
<1> QED
  BY <1>2, <1>3, <1>4

----------------------------------------------------------------------------
(* Sessions begin and end *)

LEMMA EnterSafe ==
  ASSUME LoginsInv, NEW c \in Sockets, Enter(c) PROVE LoginsInv'
<1>1. /\ UNCHANGED <<mode, users_table, next_id, errand>> /\ pc[c] = "enter"
      /\ pc' = [pc EXCEPT ![c] = "idle"] /\ session' = [session EXCEPT ![c] = errand[c]]
  BY DEF Enter, Goto, tables
<1>2. errand[c] \in Errand /\ Owns(users_table, next_id, errand[c])
  BY <1>1 DEF LoginsInv, AccountTypes, ErrandsRight, Right, KnownSteps
<1>3. AccountTypes'
  BY <1>1, <1>2 DEF LoginsInv, AccountTypes
<1>4. TableRight'
  BY <1>1 DEF LoginsInv, TableRight
<1>5. ErrandsRight'
  <2>1. \A d \in Sockets : pc'[d] = "idle" \/ pc'[d] = pc[d]
    BY <1>1 DEF LoginsInv, AccountTypes
  <2> QED
    BY <1>1, <2>1 DEF LoginsInv, ErrandsRight, Right, KnownSteps, PasswordSteps, CentralSteps
<1>6. SessionsRight'
  <2>1. \A d \in Sockets : session'[d] = errand[c] \/ session'[d] = session[d]
    BY <1>1 DEF LoginsInv, AccountTypes
  <2> QED
    BY <1>1, <1>2, <2>1 DEF LoginsInv, SessionsRight
<1> QED
  BY <1>3, <1>4, <1>5, <1>6 DEF LoginsInv

LEMMA EndSafe ==
  ASSUME LoginsInv, RestartServer \/ \E c \in Sockets : Leave(c) PROVE LoginsInv'
<1>1. /\ UNCHANGED <<mode, users_table, next_id, errand>>
      /\ pc' = pc \/ pc' = [c \in Sockets |-> "idle"]
      /\ session' \in [Sockets -> Errand \cup {Nil}]
      /\ \A d \in Sockets : session'[d] = Nil \/ session'[d] = session[d]
  BY DEF RestartServer, Leave, tables, LoginsInv, AccountTypes
<1>2. AccountTypes'
  BY <1>1 DEF LoginsInv, AccountTypes
<1>3. TableRight' /\ SessionsRight'
  BY <1>1 DEF LoginsInv, TableRight, SessionsRight
<1>4. ErrandsRight'
  BY <1>1 DEF LoginsInv, ErrandsRight, Right, KnownSteps, PasswordSteps, CentralSteps
<1> QED
  BY <1>2, <1>3, <1>4 DEF LoginsInv
----------------------------------------------------------------------------
(* The steps that write the table of users *)

(* Insert gives the task of c the new account, or nothing. *)
LEMMA InsertSafe ==
  ASSUME LoginsInv, NEW c \in Sockets, NEW s \in KnownSteps \cup {"idle"}, Insert(c, s),
         pc[c] # "idle"
  PROVE  LoginsInv'
<1> DEFINE j == errand[c]
<1>1. UNCHANGED <<mode, session>> /\ next_id \in 1..MaxRows /\ j \in Errand
  BY LoginsAssumption DEF Insert, rest, LoginsInv, AccountTypes
<1> DEFINE word == IF j.uid = Nil THEN "set" ELSE "none"
<1>2. CASE /\ users_table' = users_table \cup
                {[id |-> next_id, name |-> j.name, uid |-> j.uid, role |-> j.role,
                  password |-> word]}
           /\ next_id' = next_id + 1
           /\ errand' = [errand EXCEPT ![c].id = next_id]
           /\ Goto(c, s)
  <2>1. PICK k \in Errand : k = [errand[c] EXCEPT !.id = next_id]
    <3>1. next_id \in 0..MaxRows
      BY <1>1, LoginsAssumption
    <3> QED
      BY <1>1, <3>1 DEF Errand
  <2>2. errand' = [errand EXCEPT ![c] = k] /\ k.id = next_id /\ k.name = j.name /\ k.uid = j.uid
    BY <1>1, <1>2, <2>1 DEF LoginsInv, AccountTypes, Errand
  <2>3. PICK new \in Row :
          /\ users_table' = users_table \cup {new}
          /\ new.id = next_id /\ new.name = j.name /\ new.uid = j.uid
          /\ new.uid = Nil => new.password = "set"
    <3>1. [id |-> next_id, name |-> j.name, uid |-> j.uid, role |-> j.role,
           password |-> word] \in Row
      BY <1>1 DEF Row, Errand
    <3> QED
      BY <1>2, <3>1
  <2>4. next_id' \in 1..(MaxRows + 1) /\ next_id < next_id'
    BY <1>1, <1>2, LoginsAssumption
  <2>5. \A r \in users_table : r.id \in Nat /\ r.id < next_id
    BY LoginsAssumption DEF LoginsInv, AccountTypes, TableRight, Row
  <2>6. AccountTypes'
    <3>1. pc' \in [Sockets -> AllSteps]
      BY <1>2 DEF LoginsInv, AccountTypes, Goto, AllSteps, KnownSteps, LoginSteps
    <3>2. errand' \in [Sockets -> Errand \cup {Nil}] /\ errand'[c] \in Errand
          /\ \A d \in Sockets \ {c} : errand'[d] = errand[d] /\ pc'[d] = pc[d]
      BY <1>2, <2>1, <2>2 DEF LoginsInv, AccountTypes, Goto
    <3> QED
      BY <1>1, <2>3, <2>4, <3>1, <3>2 DEF LoginsInv, AccountTypes, AllSteps
  <2>7. TableRight'
    <3>1. \A r \in users_table' : r.id \in Nat /\ r.id < next_id'
      BY <1>1, <2>3, <2>4, <2>5
    <3>2. \A r, q \in users_table' : r.id = q.id => r = q
      BY <1>1, <2>3, <2>5 DEF LoginsInv, TableRight
    <3> QED
      BY <3>1, <3>2 DEF TableRight
  \* What was right of an errand or a session stays so: the new account is nobody's.
  <2>8. \A o \in Errand : Owns(users_table, next_id, o)
                          => Owns(users_table, next_id, o)'
    BY <1>1, <2>3, <2>4, LoginsAssumption DEF Owns, Errand
  <2>9. Owns(users_table, next_id, k)'
    <3>1. k.id < next_id'
      BY <2>2, <2>4
    <3>2. \A r \in users_table' : r.id = k.id =>
            r.name = k.name /\ r.uid = k.uid /\ (k.uid = Nil => r.password = "set")
      BY <1>1, <2>2, <2>3, <2>5
    <3> QED
      BY <3>1, <3>2 DEF Owns
  <2>10. ErrandsRight'
    <3> SUFFICES ASSUME NEW d \in Sockets
                 PROVE  Right(users_table, next_id, pc[d], errand[d])'
      BY DEF ErrandsRight
    <3>1. CASE d = c
      <4>1. pc'[d] = s /\ errand'[d] = k
        BY <1>2, <2>2, <3>1 DEF LoginsInv, AccountTypes, Goto
      <4> QED
        BY <2>9, <4>1 DEF Right, KnownSteps, PasswordSteps, CentralSteps
    <3>2. CASE d # c
      <4>1. pc'[d] = pc[d] /\ errand'[d] = errand[d]
            /\ Right(users_table, next_id, pc[d], errand[d])
        BY <1>2, <2>2, <3>2 DEF LoginsInv, AccountTypes, ErrandsRight, Goto
      <4>2. pc[d] \in KnownSteps => errand[d] \in Errand
        BY DEF LoginsInv, AccountTypes, KnownSteps
      <4> QED
        BY <1>1, <2>8, <4>1, <4>2 DEF Right
    <3> QED
      BY <3>1, <3>2
  <2>11. SessionsRight'
    BY <1>1, <2>8 DEF LoginsInv, AccountTypes, SessionsRight
  <2> QED
    BY <2>6, <2>7, <2>10, <2>11 DEF LoginsInv
<1>3. CASE /\ Goto(c, IF pc[c] \in LoginSteps THEN "reject" ELSE "idle")
           /\ UNCHANGED <<users_table, next_id, errand>>
  <2>1. PICK x \in {"reject", "idle"} : Goto(c, x)
    BY <1>3
  <2>2. x \in AllSteps /\ Right(users_table, next_id, x, errand[c])
    BY DEF Right, KnownSteps, PasswordSteps, CentralSteps, AllSteps, LoginSteps
  <2> QED
    BY <1>1, <1>3, <2>1, <2>2, MovesOn
<1> QED
  BY <1>2, <1>3 DEF Insert

LEMMA CreateSafe ==
  ASSUME LoginsInv, NEW c \in Sockets, CreateUser(c) \/ CreateCentral(c) \/ AccountCreate(c)
  PROVE  LoginsInv'
<1>1. PICK s \in KnownSteps \cup {"idle"} : Insert(c, s)
  BY DEF CreateUser, CreateCentral, AccountCreate, NextAfterAccount, KnownSteps
<1>2. pc[c] \in {"create", "create_central", "account_create"}
  BY DEF CreateUser, CreateCentral, AccountCreate
<1> QED
  BY <1>1, <1>2, InsertSafe

(* Accounts are deleted, or change but for number, name and identity, and keep a
   password if they have one. *)
LEMMA RowsKept ==
  ASSUME LoginsInv, NEW c \in Sockets, pc[c] # "idle", Goto(c, "idle"),
         UNCHANGED <<mode, next_id, session, errand>>, users_table' \subseteq Row,
         \A q \in users_table' : \E r \in users_table :
           /\ q.id = r.id /\ q.name = r.name /\ q.uid = r.uid
           /\ r.password = "set" => q.password = "set",
         \A p, q \in users_table' : p.id = q.id => p = q
  PROVE  LoginsInv'
<1>1. AccountTypes'
  BY DEF LoginsInv, AccountTypes, Goto
<1>2. TableRight'
  BY DEF LoginsInv, TableRight
<1>3. \A o : Owns(users_table, next_id, o) => Owns(users_table, next_id, o)'
  BY DEF Owns
<1>4. ErrandsRight'
  <2>1. \A d \in Sockets : pc'[d] = "idle" \/ pc'[d] = pc[d]
    BY DEF LoginsInv, AccountTypes, Goto
  <2> QED
    BY <1>3, <2>1 DEF LoginsInv, ErrandsRight, Right, KnownSteps, PasswordSteps, CentralSteps
<1>5. SessionsRight'
  BY <1>3 DEF LoginsInv, SessionsRight
<1> QED
  BY <1>1, <1>2, <1>4, <1>5 DEF LoginsInv

LEMMA DeleteSafe ==
  ASSUME LoginsInv, NEW c \in Sockets, AccountDelete(c) PROVE LoginsInv'
<1>1. /\ UNCHANGED <<mode, next_id, session, errand>> /\ pc[c] # "idle" /\ Goto(c, "idle")
      /\ users_table' \subseteq users_table
  BY DEF AccountDelete, rest
<1>2. users_table' \subseteq Row
  BY <1>1 DEF LoginsInv, AccountTypes
<1>3. \A p, q \in users_table' : p.id = q.id => p = q
  BY <1>1 DEF LoginsInv, TableRight
<1> QED
  BY <1>1, <1>2, <1>3, RowsKept

LEMMA SetRoleSafe ==
  ASSUME LoginsInv, NEW c \in Sockets, AccountSetRole(c) PROVE LoginsInv'
<1>1. UNCHANGED <<mode, next_id, session, errand>> /\ pc[c] # "idle" /\ Goto(c, "idle")
  BY DEF AccountSetRole, rest
<1> DEFINE id == errand[c].id
           role == errand[c].role
           Set(r) == IF r.id = id THEN [r EXCEPT !.role = role] ELSE r
<1>2. role \in {"user", "admin"} /\ users_table' = {Set(r) : r \in users_table}
  BY <1>1 DEF AccountSetRole, LoginsInv, AccountTypes, Errand
<1>3. \A r \in users_table : /\ Set(r) \in Row /\ Set(r).id = r.id
                             /\ Set(r).name = r.name /\ Set(r).uid = r.uid
                             /\ r.password = "set" => Set(r).password = "set"
  BY <1>2 DEF LoginsInv, AccountTypes, Row
<1> HIDE DEF Set
<1>4. users_table' \subseteq Row
  BY <1>2, <1>3
<1>5. \A q \in users_table' : \E r \in users_table :
        /\ q.id = r.id /\ q.name = r.name /\ q.uid = r.uid
        /\ r.password = "set" => q.password = "set"
  BY <1>2, <1>3
<1>6. \A p, q \in users_table' : p.id = q.id => p = q
  <2> SUFFICES ASSUME NEW r \in users_table, NEW o \in users_table, Set(r).id = Set(o).id
               PROVE  Set(r) = Set(o)
    BY <1>2
  <2>1. r.id = o.id
    BY <1>3
  <2> QED
    BY <2>1 DEF LoginsInv, TableRight
<1> QED
  BY <1>1, <1>4, <1>5, <1>6, RowsKept

LEMMA SetPasswordSafe ==
  ASSUME LoginsInv, NEW c \in Sockets, AccountSetPassword(c) PROVE LoginsInv'
<1>1. UNCHANGED <<mode, next_id, session, errand>> /\ pc[c] # "idle" /\ Goto(c, "idle")
  BY DEF AccountSetPassword, rest
<1> DEFINE id == errand[c].id
           Set(r) == IF r.id = id THEN [r EXCEPT !.password = "set"] ELSE r
<1>2. users_table' = {Set(r) : r \in users_table}
  BY <1>1 DEF AccountSetPassword
<1>3. \A r \in users_table : /\ Set(r) \in Row /\ Set(r).id = r.id
                             /\ Set(r).name = r.name /\ Set(r).uid = r.uid
                             /\ r.password = "set" => Set(r).password = "set"
  BY <1>2 DEF LoginsInv, AccountTypes, Row
<1> HIDE DEF Set
<1>4. users_table' \subseteq Row
  BY <1>2, <1>3
<1>5. \A q \in users_table' : \E r \in users_table :
        /\ q.id = r.id /\ q.name = r.name /\ q.uid = r.uid
        /\ r.password = "set" => q.password = "set"
  BY <1>2, <1>3
<1>6. \A p, q \in users_table' : p.id = q.id => p = q
  <2> SUFFICES ASSUME NEW r \in users_table, NEW o \in users_table, Set(r).id = Set(o).id
               PROVE  Set(r) = Set(o)
    BY <1>2
  <2>1. r.id = o.id
    BY <1>3
  <2> QED
    BY <2>1 DEF LoginsInv, TableRight
<1> QED
  BY <1>1, <1>4, <1>5, <1>6, RowsKept

(* A request keeps what it needs: no identity, and the row it has found. *)
LEMMA RequestSafe ==
  ASSUME LoginsInv, NEW c \in Sockets, AccountRequest(c) PROVE LoginsInv'
<1>1. UNCHANGED <<mode, users_table, next_id, session>>
  BY DEF AccountRequest, tables, rest
<1>2. PICK n \in Names, role \in {"user", "admin"}, s \in RequestSteps, id \in 0..MaxRows :
        /\ errand' = [errand EXCEPT ![c] = [name |-> n, uid |-> Nil, tenant |-> Nil,
                                      id |-> id, role |-> role]]
        /\ Goto(c, s)
  <2>1. \A r \in users_table : r.id \in 0..MaxRows
    BY LoginsAssumption DEF LoginsInv, AccountTypes, Row
  <2>2. 0 \in 0..MaxRows
    BY LoginsAssumption
  <2>3. \A n \in Names : (IF Named(n) = {} THEN 0 ELSE (CHOOSE r \in Named(n) : TRUE).id)
                         \in 0..MaxRows
    BY <2>1, <2>2 DEF Named
  <2> QED
    BY <2>3 DEF AccountRequest
<1>3. PICK j \in Errand : /\ j = [name |-> n, uid |-> Nil, tenant |-> Nil, id |-> id,
                                  role |-> role]
                          /\ j.uid = Nil
  <2>1. [name |-> n, uid |-> Nil, tenant |-> Nil, id |-> id, role |-> role] \in Errand
    BY DEF Errand
  <2> QED
    BY <2>1
<1>4. s \in AllSteps /\ Right(users_table, next_id, s, j)
  BY <1>3 DEF Right, KnownSteps, PasswordSteps, CentralSteps, AllSteps, RequestSteps
<1> QED
  BY <1>1, <1>2, <1>3, <1>4, Moves DEF Goto

----------------------------------------------------------------------------
LEMMA LoginsInvStep ==
  ASSUME LoginsInv, [LoginsNext]_loginVars PROVE LoginsInv'
<1>1. CASE LoginsNext
  <2>1. CASE \E c \in Sockets :
               \/ AuthLogin(c) \/ Authenticate(c) \/ LookWhetherExists(c) \/ LookWhetherOpen(c)
               \/ FindCentral(c) \/ UniqueUsername(c) \/ Lookup(c) \/ GetTenant(c)
               \/ CreateTenant(c) \/ CreateDefaultRoom(c) \/ IsUserBanned(c)
               \/ Reject(c)
    BY <2>1, StartSafe, AuthenticateSafe, FindSafe, NameSafe, LookupSafe, PassSafe
  <2>2. CASE \E c \in Sockets :
               \/ CreateUser(c) \/ CreateCentral(c) \/ AccountCreate(c) \/ AccountDelete(c)
               \/ AccountSetRole(c) \/ AccountSetPassword(c) \/ AccountRequest(c)
    BY <2>2, CreateSafe, DeleteSafe, SetRoleSafe, SetPasswordSafe, RequestSafe
  <2>3. CASE RestartServer \/ \E c \in Sockets : Enter(c) \/ Leave(c)
    BY <2>3, EnterSafe, EndSafe
  <2>4. CASE (\E c \in Sockets : SetRegistration(c)) \/ \E a \in Addrs : WindowPasses(a)
    <3>1. UNCHANGED <<mode, users_table, next_id, pc, errand, session>>
      BY <2>4 DEF SetRegistration, WindowPasses, tables
    <3> QED
      BY <3>1 DEF LoginsInv, AccountTypes, TableRight, ErrandsRight, SessionsRight
  <2> QED
    BY <1>1, <2>1, <2>2, <2>3, <2>4 DEF LoginsNext
<1>2. CASE UNCHANGED loginVars
  BY <1>2 DEF loginVars, LoginsInv, AccountTypes, TableRight, ErrandsRight, SessionsRight
<1> QED
  BY <1>1, <1>2

(* A session is of the account its login named, by identity or by name and     *)
(* password, whatever is created or deleted between the steps of a login and   *)
(* by other connections (control/auth.rs:49 and 107): numbers are never given  *)
(* twice, and both names and identities are unique.                            *)
THEOREM LoginsEnterOwnAccount == LoginsSpec => []EntersOwnAccount
<1>1. LoginsInv => EntersOwnAccount
  BY DEF LoginsInv, SessionsRight, Owns, EntersOwnAccount
<1> QED
  BY <1>1, LoginsInvInit, LoginsInvStep, PTL DEF LoginsSpec

----------------------------------------------------------------------------
(* Default rooms *)

Making == {"create_tenant", "create_lobby"}

(* One task at most makes a tenant; until it has made the default room there is
   none, and the tenant itself is there once it has passed CreateTenant. *)
TenantSound(t) ==
  /\ \A c, d \in Provisioning(t) : c = d
  /\ \A c \in Provisioning(t) : lobbies[t] = 0 /\ (pc[c] = "create_tenant" <=> t \notin tenants)
  /\ Provisioning(t) = {} => lobbies[t] = IF t \in tenants THEN 1 ELSE 0

LobbyInv ==
  /\ lobbies \in [SubServers -> Nat]
  /\ \A t \in SubServers \ contested : TenantSound(t)

LEMMA LobbyInit == LoginsInit => LobbyInv
BY DEF LoginsInit, LobbyInv, TenantSound, Provisioning

(* A step of a task that makes no tenant, before and after. *)
LEMMA LobbyKept ==
  ASSUME LobbyInv, UNCHANGED <<lobbies, tenants, contested>>,
         \A d \in Sockets : \/ pc'[d] = pc[d] /\ errand'[d] = errand[d]
                            \/ pc[d] \notin Making /\ pc'[d] \notin Making
  PROVE  LobbyInv'
<1>1. \A t : /\ Provisioning(t)' = Provisioning(t)
             /\ \A d \in Provisioning(t) : pc'[d] = pc[d]
  BY DEF Provisioning, Making
<1> QED
  BY <1>1 DEF LobbyInv, TenantSound

(* A step that makes a tenant leaves the other ones alone. *)
LEMMA OthersSound ==
  ASSUME LoginsInv, NEW c \in Sockets, NEW s \in AllSteps, Goto(c, s), errand' = errand,
         NEW t \in SubServers, t # errand[c].tenant, TenantSound(t),
         t \in tenants' <=> t \in tenants, lobbies'[t] = lobbies[t]
  PROVE  TenantSound(t)'
<1>1. \A d \in Sockets : d # c => pc'[d] = pc[d]
  BY DEF LoginsInv, AccountTypes, Goto
<1>2. Provisioning(t)' = Provisioning(t) /\ c \notin Provisioning(t)
  BY <1>1 DEF Provisioning
<1> QED
  BY <1>1, <1>2 DEF TenantSound, Provisioning

LEMMA GetTenantSound ==
  ASSUME LoginsInv, LobbyInv, NEW c \in Sockets, GetTenant(c) PROVE LobbyInv'
<1> DEFINE mine == errand[c].tenant
<1>1. /\ UNCHANGED <<errand, tenants, lobbies>> /\ pc[c] = "get_tenant"
      /\ \E s \in {"enter", "create_tenant"} : Goto(c, s)
  BY DEF GetTenant, tables
<1>2. PICK s \in {"enter", "create_tenant"} : Goto(c, s)
  BY <1>1
<1>3. SUFFICES ASSUME NEW t \in SubServers \ contested' PROVE TenantSound(t)'
  BY <1>1 DEF LobbyInv
<1>4. TenantSound(t) /\ s \in AllSteps
  BY DEF GetTenant, LobbyInv, AllSteps, LoginSteps
<1>5. CASE t # mine
  BY <1>1, <1>2, <1>4, <1>5, OthersSound
<1>6. CASE t = mine
  <2>1. mine \notin tenants => Provisioning(mine) = {}
    BY <1>3, <1>6 DEF GetTenant
  <2>2. pc'[c] = IF mine \in tenants THEN "enter" ELSE "create_tenant"
    BY <1>3, <1>6 DEF GetTenant, Goto, LoginsInv, AccountTypes
  <2>3. \A d \in Sockets : d # c => pc'[d] = pc[d]
    BY <1>2 DEF LoginsInv, AccountTypes, Goto
  <2>4. CASE mine \in tenants
    <3>1. Provisioning(t)' = Provisioning(t) /\ c \notin Provisioning(t)
      BY <1>1, <1>6, <2>2, <2>3, <2>4 DEF Provisioning
    <3> QED
      BY <1>1, <1>4, <2>3, <3>1 DEF TenantSound, Provisioning
  <2>5. CASE mine \notin tenants
    <3>1. Provisioning(t)' = {c}
      BY <1>1, <1>6, <2>1, <2>2, <2>3, <2>5 DEF Provisioning
    <3> QED
      BY <1>1, <1>4, <1>6, <2>1, <2>2, <2>5, <3>1 DEF TenantSound
  <2> QED
    BY <2>4, <2>5
<1> QED
  BY <1>5, <1>6

LEMMA CreateTenantSound ==
  ASSUME LoginsInv, LobbyInv, NEW c \in Sockets, CreateTenant(c) PROVE LobbyInv'
<1> DEFINE mine == errand[c].tenant
<1>1. UNCHANGED <<errand, lobbies>> /\ pc[c] = "create_tenant" /\ Goto(c, "create_lobby")
  BY DEF CreateTenant
<1>2. SUFFICES ASSUME NEW t \in SubServers \ contested' PROVE TenantSound(t)'
  BY <1>1 DEF LobbyInv
<1>3. TenantSound(t) /\ "create_lobby" \in AllSteps
  BY DEF CreateTenant, LobbyInv, AllSteps, LoginSteps
<1>4. \A d \in Sockets : pc'[d] = IF d = c THEN "create_lobby" ELSE pc[d]
  BY <1>1 DEF LoginsInv, AccountTypes, Goto
<1>5. CASE t # mine
  <2>1. t \in tenants' <=> t \in tenants
    BY <1>5 DEF CreateTenant
  <2> QED
    BY <1>1, <1>3, <1>5, <2>1, OthersSound
<1>6. CASE t = mine
  <2>1. tenants' = tenants \cup {mine}
    BY <1>2, <1>6 DEF CreateTenant
  <2>2. c \in Provisioning(t) /\ Provisioning(t)' = Provisioning(t)
    BY <1>1, <1>4, <1>6 DEF Provisioning
  <2>3. Provisioning(t) = {c} /\ lobbies[t] = 0
    BY <1>3, <2>2 DEF TenantSound
  <2> QED
    BY <1>1, <1>4, <1>6, <2>1, <2>2, <2>3 DEF TenantSound
<1> QED
  BY <1>5, <1>6

LEMMA CreateRoomSound ==
  ASSUME LoginsInv, LobbyInv, NEW c \in Sockets, CreateDefaultRoom(c) PROVE LobbyInv'
<1> DEFINE mine == errand[c].tenant
<1>1. UNCHANGED <<errand, tenants>> /\ pc[c] = "create_lobby" /\ Goto(c, "enter")
  BY DEF CreateDefaultRoom
<1>2. lobbies' = lobbies \/ lobbies' = [lobbies EXCEPT ![mine] = @ + 1]
  BY DEF CreateDefaultRoom, InsertLobby
<1>3. lobbies' \in [SubServers -> Nat]
  BY <1>2 DEF LobbyInv
<1>4. SUFFICES ASSUME NEW t \in SubServers \ contested' PROVE TenantSound(t)'
  BY <1>3 DEF LobbyInv
<1>5. TenantSound(t) /\ "enter" \in AllSteps /\ lobbies[t] \in Nat
  BY DEF CreateDefaultRoom, LobbyInv, AllSteps, LoginSteps
<1>6. \A d \in Sockets : pc'[d] = IF d = c THEN "enter" ELSE pc[d]
  BY <1>1 DEF LoginsInv, AccountTypes, Goto
<1>7. CASE t # mine
  <2>1. lobbies'[t] = lobbies[t]
    BY <1>2, <1>7 DEF LobbyInv
  <2> QED
    BY <1>1, <1>5, <1>7, <2>1, OthersSound
<1>8. CASE t = mine
  <2>1. lobbies' = [lobbies EXCEPT ![mine] = @ + 1]
    BY <1>4, <1>8 DEF CreateDefaultRoom, InsertLobby
  <2>2. c \in Provisioning(t)
    BY <1>1, <1>8 DEF Provisioning
  <2>3. Provisioning(t) = {c} /\ lobbies[t] = 0 /\ t \in tenants
    BY <1>1, <1>5, <2>2 DEF TenantSound
  <2>4. Provisioning(t)' = {}
    BY <1>1, <1>6, <2>3 DEF Provisioning
  <2>5. lobbies'[t] = 1
    BY <1>8, <2>1, <2>3 DEF LobbyInv
  <2> QED
    BY <1>1, <2>3, <2>4, <2>5 DEF TenantSound
<1> QED
  BY <1>7, <1>8

\* Steps of a login or a request that make no tenant.
PlainStep(c) ==
  \/ AuthLogin(c) \/ Authenticate(c) \/ LookWhetherExists(c) \/ LookWhetherOpen(c)
  \/ FindCentral(c) \/ UniqueUsername(c) \/ CreateUser(c) \/ CreateCentral(c)
  \/ Lookup(c) \/ IsUserBanned(c) \/ Enter(c) \/ Reject(c)
  \/ AccountRequest(c) \/ AccountCreate(c) \/ AccountDelete(c) \/ AccountSetRole(c)
  \/ AccountSetPassword(c)

LEMMA PlainSteps ==
  ASSUME LoginsInv, NEW c \in Sockets, PlainStep(c)
  PROVE  /\ UNCHANGED <<lobbies, tenants, contested>>
         /\ pc[c] \notin Making /\ pc'[c] \notin Making
         /\ \A d \in Sockets \ {c} : pc'[d] = pc[d] /\ errand'[d] = errand[d]
<1>1. UNCHANGED <<lobbies, tenants, contested>>
  BY DEF PlainStep, AuthLogin, Authenticate, LookWhetherExists, LookWhetherOpen, FindCentral,
         UniqueUsername, CreateUser, CreateCentral, Lookup, IsUserBanned, Enter, Reject,
         AccountRequest, AccountCreate, AccountDelete, AccountSetRole, AccountSetPassword, Comes,
         Insert, Quietly, tables, ghosts
<1>2. pc[c] \notin Making
  BY DEF PlainStep, AuthLogin, Authenticate, LookWhetherExists, LookWhetherOpen, FindCentral,
         UniqueUsername, CreateUser, CreateCentral, Lookup, IsUserBanned, Enter, Reject,
         AccountRequest, AccountCreate, AccountDelete, AccountSetRole, AccountSetPassword, Comes,
         Making
<1>3. \E s \in AllSteps \ Making : pc' = [pc EXCEPT ![c] = s]
  BY DEF PlainStep, AuthLogin, Authenticate, LookWhetherExists, LookWhetherOpen, FindCentral,
         UniqueUsername, CreateUser, CreateCentral, Lookup, IsUserBanned, Enter, Reject,
         AccountRequest, AccountCreate, AccountDelete, AccountSetRole, AccountSetPassword, Comes,
         Insert, NextAfterAccount, Goto, Making,
         AllSteps, LoginSteps, RequestSteps
<1>4. errand' = errand \/ \E j : errand' = [errand EXCEPT ![c] = j]
  <2>1. CASE AuthLogin(c)
    BY <2>1 DEF AuthLogin, Comes
  <2>2. CASE Authenticate(c) \/ FindCentral(c) \/ UniqueUsername(c) \/ Lookup(c)
    BY <2>2 DEF Authenticate, FindCentral, UniqueUsername, Lookup
  <2>3. CASE CreateUser(c) \/ CreateCentral(c) \/ AccountCreate(c)
    BY <2>3 DEF CreateUser, CreateCentral, AccountCreate, Insert
  <2>4. CASE AccountRequest(c)
    BY <2>4 DEF AccountRequest
  <2>5. CASE \/ LookWhetherExists(c) \/ LookWhetherOpen(c) \/ Enter(c) \/ Reject(c)
             \/ IsUserBanned(c) \/ AccountDelete(c) \/ AccountSetRole(c)
             \/ AccountSetPassword(c)
    BY <2>5 DEF LookWhetherExists, LookWhetherOpen, IsUserBanned, Enter, Reject, Quietly,
                AccountDelete, AccountSetRole, AccountSetPassword
  <2> QED
    BY <2>1, <2>2, <2>3, <2>4, <2>5 DEF PlainStep
<1>5. pc'[c] \notin Making /\ \A d \in Sockets \ {c} : pc'[d] = pc[d]
  BY <1>3 DEF LoginsInv, AccountTypes
<1>6. \A d \in Sockets \ {c} : errand'[d] = errand[d]
  BY <1>4 DEF LoginsInv, AccountTypes
<1> QED
  BY <1>1, <1>2, <1>5, <1>6

LEMMA LobbyStep == LoginsInv /\ LobbyInv /\ [LoginsNext]_loginVars => LobbyInv'
<1> SUFFICES ASSUME LoginsInv, LobbyInv, [LoginsNext]_loginVars PROVE LobbyInv'
  OBVIOUS
<1>1. CASE \E c \in Sockets : PlainStep(c)
  <2>1. PICK c \in Sockets : PlainStep(c)
    BY <1>1
  <2> QED
    BY <2>1, PlainSteps, LobbyKept
<1>2. CASE \E c \in Sockets : GetTenant(c) \/ CreateTenant(c) \/ CreateDefaultRoom(c)
  BY <1>2, GetTenantSound, CreateTenantSound, CreateRoomSound
<1>3. CASE RestartServer
  <2>1. /\ UNCHANGED <<lobbies, tenants>> /\ \A d \in Sockets : pc'[d] = "idle"
        /\ contested' = contested \cup {t \in SubServers : Provisioning(t) # {}}
    BY <1>3 DEF RestartServer, tables
  <2>2. \A t : Provisioning(t)' = {}
    BY <2>1 DEF Provisioning
  <2> QED
    BY <2>1, <2>2 DEF LobbyInv, TenantSound
<1>4. CASE \/ \E c \in Sockets : SetRegistration(c) \/ Leave(c)
           \/ \E a \in Addrs : WindowPasses(a)
           \/ UNCHANGED loginVars
  <2>1. UNCHANGED <<lobbies, tenants, contested, pc, errand>>
    BY <1>4 DEF SetRegistration, Leave, WindowPasses, loginVars, tables, ghosts
  <2> QED
    BY <2>1, LobbyKept
<1> QED
  BY <1>1, <1>2, <1>3, <1>4 DEF LoginsNext, PlainStep

(* control/auth.rs:80: a tenant that is there, and nobody still makes, has one *)
(* default room, for any number of first logins, unless two of them met, or a  *)
(* call failed or the server stopped in between.                               *)
THEOREM TenantsHaveLobby == LoginsSpec => []OneLobbyPerTenant
<1>1. LobbyInv => OneLobbyPerTenant
  BY DEF LobbyInv, TenantSound, OneLobbyPerTenant
<1> QED
  BY <1>1, LoginsInvInit, LoginsInvStep, LobbyInit, LobbyStep, PTL DEF LoginsSpec

----------------------------------------------------------------------------
(* The throttle *)

InFlight(a) == {d \in Sockets : AddrOf[d] = a /\ pc[d] \in LoginSteps}
Fails(a)    == IF throttle[a] = Nil THEN 0 ELSE throttle[a].count

(* The failures of an address in its window, and the attempts of it that may
   still fail, are together as many as may fail, and one more for each attempt
   that began beside others. *)
ThrottleInv ==
  /\ throttle \in [Addrs -> [count: Nat \ {0}, old: BOOLEAN] \cup {Nil}]
  /\ overlaps \in [Addrs -> Nat]
  /\ \A a \in Addrs :
       throttle[a] = Nil \/ ~throttle[a].old =>
         Fails(a) + Cardinality(InFlight(a)) <= MaxFails + overlaps[a]

LEMMA FlightFinite ==
  ASSUME NEW a PROVE IsFiniteSet(InFlight(a)) /\ Cardinality(InFlight(a)) \in Nat
BY LoginsAssumption, FS_Subset, FS_CardinalityType DEF InFlight

LEMMA ThrottleInit == LoginsInit => ThrottleInv
<1> SUFFICES ASSUME LoginsInit PROVE ThrottleInv
  OBVIOUS
<1>1. \A a : InFlight(a) = {}
  BY DEF LoginsInit, InFlight, LoginSteps
<1>2. Cardinality({}) = 0
  BY FS_EmptySet
<1>3. \A a \in Addrs : Fails(a) = 0 /\ overlaps[a] = 0
  BY DEF LoginsInit, Fails
<1>4. \A a \in Addrs : Fails(a) + Cardinality(InFlight(a)) <= MaxFails + overlaps[a]
  BY <1>1, <1>2, <1>3, LoginsAssumption
<1> QED
  BY <1>4 DEF LoginsInit, ThrottleInv

(* A step that neither begins nor ends an attempt. *)
LEMMA FlightKept ==
  ASSUME ThrottleInv, UNCHANGED <<throttle, overlaps>>,
         \A d \in Sockets : pc'[d] \in LoginSteps <=> pc[d] \in LoginSteps
  PROVE  ThrottleInv'
<1>1. \A a : InFlight(a)' = InFlight(a) /\ Fails(a)' = Fails(a)
  BY DEF InFlight, Fails
<1> QED
  BY <1>1 DEF ThrottleInv

(* A step of c changes what the throttle knows of c's address only. *)
LEMMA OneAddress ==
  ASSUME ThrottleInv, NEW c \in Sockets,
         throttle' \in [Addrs -> [count: Nat \ {0}, old: BOOLEAN] \cup {Nil}],
         overlaps' \in [Addrs -> Nat],
         \A d \in Sockets \ {c} : pc'[d] = pc[d],
         \A a \in Addrs \ {AddrOf[c]} : throttle'[a] = throttle[a] /\ overlaps'[a] = overlaps[a],
         Fails(AddrOf[c])' + Cardinality(InFlight(AddrOf[c])')
           <= MaxFails + overlaps'[AddrOf[c]]
  PROVE  ThrottleInv'
<1>1. \A a \in Addrs \ {AddrOf[c]} : InFlight(a)' = InFlight(a) /\ Fails(a)' = Fails(a)
  BY DEF InFlight, Fails
<1> QED
  BY <1>1 DEF ThrottleInv

LEMMA StartCounted ==
  ASSUME LoginsInv, ThrottleInv, NEW c \in Sockets, AuthLogin(c) PROVE ThrottleInv'
<1> DEFINE a == AddrOf[c]
           others == {d \in Busy : AddrOf[d] = a /\ pc[d] \in LoginSteps}
<1>1. a \in Addrs
  BY DEF Addrs
<1>2. \A d \in Sockets : pc'[d] = pc[d] \/ (d = c /\ pc[d] = "idle" /\ pc'[d] \in LoginSteps)
  BY DEF AuthLogin, Comes, Goto, LoginsInv, AccountTypes, LoginSteps
<1>3. pc[c] = "idle" /\ pc'[c] \in LoginSteps
  BY DEF AuthLogin, Comes, Goto, LoginsInv, AccountTypes, LoginSteps
<1>4. others = InFlight(a)
  BY DEF Busy, InFlight, LoginSteps
<1>5. InFlight(a)' = InFlight(a) \cup {c} /\ c \notin InFlight(a)
  BY <1>2, <1>3 DEF InFlight, LoginSteps
<1>6. PICK n \in Nat : Cardinality(InFlight(a)) = n /\ Cardinality(InFlight(a)') = n + 1
  BY <1>5, FlightFinite, FS_AddElement
<1>7. CASE throttle[a] # Nil /\ throttle[a].old
  <2>1. /\ throttle' = [throttle EXCEPT ![a] = Nil]
        /\ overlaps' = [overlaps EXCEPT ![a] = Cardinality(others)]
    BY <1>7 DEF AuthLogin
  <2>2. /\ throttle' \in [Addrs -> [count: Nat \ {0}, old: BOOLEAN] \cup {Nil}]
        /\ overlaps' \in [Addrs -> Nat] /\ overlaps'[a] = n
        /\ \A b \in Addrs \ {a} : throttle'[b] = throttle[b] /\ overlaps'[b] = overlaps[b]
        /\ Fails(a)' = 0
    BY <1>1, <1>4, <1>6, <2>1 DEF ThrottleInv, Fails
  <2>3. Fails(a)' + Cardinality(InFlight(a)') <= MaxFails + overlaps'[a]
    BY <1>6, <2>2, LoginsAssumption
  <2> QED
    BY <1>2, <2>2, <2>3, OneAddress
<1>8. CASE ~(throttle[a] # Nil /\ throttle[a].old)
  <2>1. /\ throttle' = throttle /\ ~Throttled(a)
        /\ overlaps' = [overlaps EXCEPT ![a] = @ + (IF others = {} THEN 0 ELSE 1)]
    BY <1>8 DEF AuthLogin
  <2>2. /\ overlaps' \in [Addrs -> Nat]
        /\ overlaps'[a] = overlaps[a] + (IF others = {} THEN 0 ELSE 1)
        /\ \A b \in Addrs \ {a} : overlaps'[b] = overlaps[b]
        /\ Fails(a)' = Fails(a)
    BY <1>1, <2>1 DEF ThrottleInv, Fails
  <2>3. Fails(a) \in Nat /\ overlaps[a] \in Nat
    BY <1>1 DEF ThrottleInv, Fails
  <2>4. Fails(a) < MaxFails
    <3>1. CASE throttle[a] = Nil
      BY <3>1, LoginsAssumption DEF Fails
    <3>2. CASE throttle[a] # Nil
      <4>1. throttle[a].count \in Nat /\ ~(throttle[a].count >= MaxFails)
        BY <1>1, <2>1, <3>2 DEF Throttled, ThrottleInv
      <4> QED
        BY <3>2, <4>1, LoginsAssumption DEF Fails
    <3> QED
      BY <3>1, <3>2
  <2>5. Fails(a) + n <= MaxFails + overlaps[a]
    BY <1>1, <1>6, <1>8 DEF ThrottleInv
  <2>6. others = {} => n = 0
    BY <1>4, <1>6, FS_EmptySet
  <2>7. Fails(a)' + Cardinality(InFlight(a)') <= MaxFails + overlaps'[a]
    <3>1. CASE others = {}
      BY <1>6, <2>2, <2>3, <2>4, <2>6, <3>1, LoginsAssumption
    <3>2. CASE others # {}
      BY <1>6, <2>2, <2>3, <2>5, <3>2, LoginsAssumption
    <3> QED
      BY <3>1, <3>2
  <2>8. throttle' \in [Addrs -> [count: Nat \ {0}, old: BOOLEAN] \cup {Nil}]
    BY <2>1 DEF ThrottleInv
  <2> QED
    BY <1>2, <2>1, <2>2, <2>7, <2>8, OneAddress
<1> QED
  BY <1>7, <1>8

\* The attempt of c is over.
LEMMA FlightEnds ==
  ASSUME LoginsInv, NEW c \in Sockets, pc[c] \in LoginSteps, Goto(c, "idle")
  PROVE  /\ InFlight(AddrOf[c])' = InFlight(AddrOf[c]) \ {c}
         /\ Cardinality(InFlight(AddrOf[c])') \in Nat
         /\ Cardinality(InFlight(AddrOf[c])) = Cardinality(InFlight(AddrOf[c])') + 1
         /\ \A d \in Sockets \ {c} : pc'[d] = pc[d]
<1>1. \A d \in Sockets : pc'[d] = IF d = c THEN "idle" ELSE pc[d]
  BY DEF LoginsInv, AccountTypes, Goto
<1>2. InFlight(AddrOf[c])' = InFlight(AddrOf[c]) \ {c} /\ c \in InFlight(AddrOf[c])
  BY <1>1 DEF InFlight, LoginSteps
<1>3. Cardinality(InFlight(AddrOf[c]) \ {c}) = Cardinality(InFlight(AddrOf[c])) - 1
  BY <1>2, FlightFinite, FS_RemoveElement
<1>4. Cardinality(InFlight(AddrOf[c]) \ {c}) \in Nat
  BY FlightFinite, FS_Subset, FS_CardinalityType
<1> QED
  BY <1>1, <1>2, <1>3, <1>4, FlightFinite

LEMMA EnterCounted ==
  ASSUME LoginsInv, ThrottleInv, NEW c \in Sockets, Enter(c) PROVE ThrottleInv'
<1> DEFINE a == AddrOf[c]
<1>1. a \in Addrs /\ pc[c] \in LoginSteps /\ Goto(c, "idle")
  BY DEF Addrs, Enter, LoginSteps
<1>2. /\ throttle' = [throttle EXCEPT ![a] = Nil]
      /\ overlaps' = [overlaps EXCEPT ![a] =
           Cardinality({d \in Busy \ {c} : AddrOf[d] = a /\ pc[d] \in LoginSteps})]
  BY DEF Enter
<1>3. {d \in Busy \ {c} : AddrOf[d] = a /\ pc[d] \in LoginSteps} = InFlight(a)'
  BY <1>1, FlightEnds DEF Busy, InFlight, LoginSteps
<1>4. Cardinality(InFlight(a)') \in Nat
  BY <1>1, FlightEnds
<1>5. /\ throttle' \in [Addrs -> [count: Nat \ {0}, old: BOOLEAN] \cup {Nil}]
      /\ overlaps' \in [Addrs -> Nat] /\ overlaps'[a] = Cardinality(InFlight(a)')
      /\ \A b \in Addrs \ {a} : throttle'[b] = throttle[b] /\ overlaps'[b] = overlaps[b]
      /\ Fails(a)' = 0
  BY <1>1, <1>2, <1>3, <1>4 DEF ThrottleInv, Fails
<1>6. Fails(a)' + Cardinality(InFlight(a)') <= MaxFails + overlaps'[a]
  BY <1>4, <1>5, LoginsAssumption
<1> QED
  BY <1>1, <1>5, <1>6, FlightEnds, OneAddress

LEMMA RejectCounted ==
  ASSUME LoginsInv, ThrottleInv, NEW c \in Sockets, Reject(c) PROVE ThrottleInv'
<1> DEFINE a == AddrOf[c]
           fresh == throttle[a] = Nil \/ throttle[a].old
           left == {d \in Busy \ {c} : AddrOf[d] = a}
<1>1. a \in Addrs /\ pc[c] \in LoginSteps /\ Goto(c, "idle")
  BY DEF Addrs, Reject, LoginSteps
<1>2. throttle' = [throttle EXCEPT ![a] =
        [count |-> (IF fresh THEN 0 ELSE throttle[a].count) + 1, old |-> FALSE]]
  BY DEF Reject
<1>3. overlaps' = IF throttle[a] # Nil /\ throttle[a].old
                  THEN [overlaps EXCEPT ![a] = Cardinality(left)] ELSE overlaps
  BY DEF Reject
<1>4. PICK n \in Nat : Cardinality(InFlight(a)') = n /\ Cardinality(InFlight(a)) = n + 1
  BY <1>1, FlightEnds
<1>5. Cardinality(left) \in Nat /\ n <= Cardinality(left)
  <2>1. IsFiniteSet(left)
    BY LoginsAssumption, FS_Subset DEF Busy
  <2>2. InFlight(a)' \subseteq left
    BY <1>1, FlightEnds DEF InFlight, Busy, LoginSteps
  <2> QED
    BY <1>4, <2>1, <2>2, FS_Subset, FS_CardinalityType
<1>6. throttle[a] # Nil => throttle[a].count \in Nat
  BY <1>1 DEF ThrottleInv
<1>7. /\ throttle' \in [Addrs -> [count: Nat \ {0}, old: BOOLEAN] \cup {Nil}]
      /\ overlaps' \in [Addrs -> Nat]
      /\ \A b \in Addrs \ {a} : throttle'[b] = throttle[b] /\ overlaps'[b] = overlaps[b]
  BY <1>1, <1>2, <1>3, <1>5, <1>6 DEF ThrottleInv
<1>8. Fails(a)' + n <= MaxFails + overlaps'[a]
  <2>1. overlaps[a] \in Nat /\ overlaps'[a] \in Nat
    BY <1>1, <1>7 DEF ThrottleInv
  <2>2. Fails(a)' \in Nat /\ Fails(a)' <= (IF fresh THEN 0 ELSE throttle[a].count) + 1
    BY <1>1, <1>2, <1>6 DEF Fails, ThrottleInv
  <2>3. CASE throttle[a] # Nil /\ throttle[a].old
    <3>1. overlaps'[a] = Cardinality(left)
      BY <1>1, <1>3, <2>3 DEF ThrottleInv
    <3> QED
      BY <1>5, <2>1, <2>2, <2>3, <3>1, LoginsAssumption
  <2>4. CASE ~(throttle[a] # Nil /\ throttle[a].old)
    <3>1. Fails(a) + (n + 1) <= MaxFails + overlaps[a] /\ overlaps'[a] = overlaps[a]
      BY <1>1, <1>3, <1>4, <2>4 DEF ThrottleInv
    <3>2. Fails(a) \in Nat /\ Fails(a)' <= Fails(a) + 1
      BY <1>6, <2>2, <2>4 DEF Fails
    <3> QED
      BY <2>1, <2>2, <3>1, <3>2, LoginsAssumption
  <2> QED
    BY <2>3, <2>4
<1> QED
  BY <1>1, <1>4, <1>7, <1>8, FlightEnds, OneAddress

\* Steps in the middle of a login, and those of a request.
MiddleStep(c) ==
  \/ Authenticate(c) \/ LookWhetherExists(c) \/ LookWhetherOpen(c) \/ FindCentral(c)
  \/ UniqueUsername(c) \/ CreateUser(c) \/ CreateCentral(c) \/ Lookup(c) \/ GetTenant(c)
  \/ CreateTenant(c) \/ CreateDefaultRoom(c) \/ IsUserBanned(c)
RequestStep(c) ==
  \/ AccountRequest(c) \/ AccountCreate(c) \/ AccountDelete(c) \/ AccountSetRole(c)
  \/ AccountSetPassword(c)

LEMMA MiddleSteps ==
  ASSUME LoginsInv, NEW c \in Sockets, MiddleStep(c) \/ RequestStep(c)
  PROVE  /\ UNCHANGED <<throttle, overlaps>>
         /\ \A d \in Sockets : pc'[d] \in LoginSteps <=> pc[d] \in LoginSteps
<1>1. UNCHANGED <<throttle, overlaps>>
  BY DEF MiddleStep, RequestStep, Authenticate, LookWhetherExists, LookWhetherOpen,
         FindCentral, UniqueUsername, CreateUser, CreateCentral, Lookup, GetTenant,
         CreateTenant, CreateDefaultRoom, IsUserBanned, AccountRequest, AccountCreate,
         AccountDelete, AccountSetRole, AccountSetPassword, Insert, Quietly, rest, ghosts
<1>2. \E s : pc' = [pc EXCEPT ![c] = s] /\ (s \in LoginSteps <=> pc[c] \in LoginSteps)
  <2>1. CASE MiddleStep(c)
    <3>1. pc[c] \in LoginSteps
      BY <2>1 DEF MiddleStep, Authenticate, LookWhetherExists, LookWhetherOpen, FindCentral,
                  UniqueUsername, CreateUser, CreateCentral, Lookup, GetTenant, CreateTenant,
                  CreateDefaultRoom, IsUserBanned, LoginSteps
    <3>2. \E s \in LoginSteps : pc' = [pc EXCEPT ![c] = s]
      BY <2>1, <3>1 DEF MiddleStep, Authenticate, LookWhetherExists, LookWhetherOpen,
                  FindCentral, UniqueUsername, CreateUser, CreateCentral, Lookup, GetTenant,
                  CreateTenant, CreateDefaultRoom, IsUserBanned, Insert, NextAfterAccount,
                  Goto, LoginSteps
    <3> QED
      BY <3>1, <3>2
  <2>2. CASE RequestStep(c)
    <3>1. pc[c] \notin LoginSteps
      BY <2>2 DEF RequestStep, AccountRequest, AccountCreate, AccountDelete, AccountSetRole,
                  AccountSetPassword, LoginSteps
    <3>2. \E s \in RequestSteps \cup {"idle"} : pc' = [pc EXCEPT ![c] = s]
      BY <2>2, <3>1 DEF RequestStep, AccountRequest, AccountCreate, AccountDelete,
                  AccountSetRole, AccountSetPassword, Insert, Goto
    <3>3. \A s \in RequestSteps \cup {"idle"} : s \notin LoginSteps
      BY DEF RequestSteps, LoginSteps
    <3> QED
      BY <3>1, <3>2, <3>3
  <2> QED
    BY <2>1, <2>2
<1>3. PICK s : pc' = [pc EXCEPT ![c] = s] /\ (s \in LoginSteps <=> pc[c] \in LoginSteps)
  BY <1>2
<1>4. \A d \in Sockets : pc'[d] = IF d = c THEN s ELSE pc[d]
  BY <1>3 DEF LoginsInv, AccountTypes
<1> QED
  BY <1>1, <1>3, <1>4

LEMMA ThrottleStep == LoginsInv /\ ThrottleInv /\ [LoginsNext]_loginVars => ThrottleInv'
<1> SUFFICES ASSUME LoginsInv, ThrottleInv, [LoginsNext]_loginVars PROVE ThrottleInv'
  OBVIOUS
<1>1. CASE \E c \in Sockets : MiddleStep(c) \/ RequestStep(c)
  BY <1>1, MiddleSteps, FlightKept
<1>2. CASE \E c \in Sockets : AuthLogin(c) \/ Enter(c) \/ Reject(c)
  BY <1>2, StartCounted, EnterCounted, RejectCounted
<1>3. CASE \E a \in Addrs : WindowPasses(a)
  <2>1. PICK a \in Addrs : WindowPasses(a)
    BY <1>3
  <2>2. /\ UNCHANGED <<pc, overlaps>> /\ throttle[a] # Nil /\ ~throttle[a].old
        /\ throttle' = [throttle EXCEPT ![a].old = TRUE]
    BY <2>1 DEF WindowPasses, ghosts
  <2>3. /\ throttle' \in [Addrs -> [count: Nat \ {0}, old: BOOLEAN] \cup {Nil}]
        /\ throttle'[a] = [throttle[a] EXCEPT !.old = TRUE]
        /\ throttle'[a].old /\ Fails(a)' <= Fails(a) /\ Fails(a) \in Nat /\ Fails(a)' \in Nat
        /\ \A b \in Addrs \ {a} : throttle'[b] = throttle[b]
    <3> DEFINE Entry == [count: Nat \ {0}, old: BOOLEAN]
    <3>1. throttle \in [Addrs -> Entry \cup {Nil}]
      BY DEF ThrottleInv
    <3>2. throttle[a] \in Entry
      BY <2>2, <3>1
    <3> DEFINE late == [throttle[a] EXCEPT !.old = TRUE]
    <3>3. late \in Entry /\ late.old
      BY <3>2
    <3>4. late.count = throttle[a].count
      BY <3>2
    <3>5. throttle[a].count \in Nat /\ late.count \in Nat
      BY <3>2, <3>4
    <3>6. throttle' = [throttle EXCEPT ![a] = late]
      BY <2>2
    <3> HIDE DEF late, Entry
    <3>7. throttle' \in [Addrs -> Entry \cup {Nil}] /\ throttle'[a] = late
      BY <3>1, <3>3, <3>6
    <3>8. \A b \in Addrs \ {a} : throttle'[b] = throttle[b]
      BY <3>1, <3>6
    <3>9. Fails(a) = throttle[a].count
      BY <2>2 DEF Fails
    <3>10. Fails(a)' \in {0, late.count}
      BY <3>7 DEF Fails
    <3>11. Fails(a)' \in Nat /\ Fails(a) \in Nat /\ Fails(a)' <= Fails(a)
      BY <3>4, <3>5, <3>9, <3>10
    <3> QED
      BY <3>3, <3>7, <3>8, <3>11 DEF late, Entry
  <2>4. \A b : InFlight(b)' = InFlight(b)
    BY <2>2 DEF InFlight
  <2>5. Fails(a)' + Cardinality(InFlight(a)') <= MaxFails + overlaps'[a]
    <3>1. Fails(a) + Cardinality(InFlight(a)) <= MaxFails + overlaps[a] /\ overlaps[a] \in Nat
      BY <2>2 DEF ThrottleInv
    <3> QED
      BY <2>2, <2>3, <2>4, <3>1, FlightFinite, LoginsAssumption
  <2>6. \A b \in Addrs \ {a} : Fails(b)' = Fails(b)
    BY <2>3 DEF Fails
  <2> QED
    BY <2>2, <2>3, <2>4, <2>5, <2>6 DEF ThrottleInv
<1>4. CASE RestartServer
  <2>1. /\ throttle' = [a \in Addrs |-> Nil] /\ overlaps' = [a \in Addrs |-> 0]
        /\ pc' = [c \in Sockets |-> "idle"]
    BY <1>4 DEF RestartServer
  <2>2. \A a : InFlight(a)' = {}
    BY <2>1 DEF InFlight, LoginSteps
  <2>3. Cardinality({}) = 0
    BY FS_EmptySet
  <2>4. \A a \in Addrs : Fails(a)' = 0 /\ overlaps'[a] = 0
    BY <2>1 DEF Fails
  <2>5. \A a \in Addrs : Fails(a)' + Cardinality(InFlight(a)') <= MaxFails + overlaps'[a]
    BY <2>2, <2>3, <2>4, LoginsAssumption
  <2> QED
    BY <2>1, <2>5 DEF ThrottleInv
<1>5. CASE (\E c \in Sockets : SetRegistration(c) \/ Leave(c)) \/ UNCHANGED loginVars
  <2>1. UNCHANGED <<throttle, overlaps, pc>>
    BY <1>5 DEF SetRegistration, Leave, loginVars, ghosts
  <2> QED
    BY <2>1, FlightKept
<1> QED
  BY <1>1, <1>2, <1>3, <1>4, <1>5 DEF LoginsNext, MiddleStep, RequestStep

(* control/handler.rs:157: an address fails at most LOGIN_MAX_FAILS times in a *)
(* window, and once more for each attempt begun beside others, for any number  *)
(* of connections, addresses and allowed failures.                             *)
THEOREM ThrottleHolds == LoginsSpec => []FailuresUpToOverlap
<1>1. ThrottleInv => FailuresUpToOverlap
  <2> SUFFICES ASSUME ThrottleInv, NEW a \in Addrs, throttle[a] # Nil, ~throttle[a].old
               PROVE  throttle[a].count <= MaxFails + overlaps[a]
    BY DEF FailuresUpToOverlap
  <2>1. throttle[a].count \in Nat /\ overlaps[a] \in Nat
        /\ throttle[a].count + Cardinality(InFlight(a)) <= MaxFails + overlaps[a]
    BY DEF ThrottleInv, Fails
  <2> QED
    BY <2>1, FlightFinite, LoginsAssumption
<1> QED
  BY <1>1, LoginsInvInit, LoginsInvStep, ThrottleInit, ThrottleStep, PTL DEF LoginsSpec

----------------------------------------------------------------------------
(* What a message is added to and taken from *)

LEMMA AppendElements ==
  ASSUME NEW T, NEW s \in Seq(T), NEW m \in T
  PROVE  /\ Append(s, m) \in Seq(T) /\ Len(Append(s, m)) = Len(s) + 1 /\ Len(s) \in Nat
         /\ \A i \in 1..Len(s) : Append(s, m)[i] = s[i]
         /\ Append(s, m)[Len(s) + 1] = m
OBVIOUS

LEMMA TailElements ==
  ASSUME NEW T, NEW s \in Seq(T), s # <<>>
  PROVE  /\ Tail(s) \in Seq(T) /\ Len(Tail(s)) = Len(s) - 1 /\ Len(s) \in Nat \ {0}
         /\ Head(s) \in T /\ Head(s) = s[1]
         /\ \A i \in 1..Len(Tail(s)) : i + 1 \in 1..Len(s) /\ Tail(s)[i] = s[i + 1]
OBVIOUS

----------------------------------------------------------------------------
(* Downloads: what the client has of a file and where the rest of it is      *)

Chunk == [file: Files, block: Nat]

Firsts(n) == [k \in 1..n |-> k]

AskedFor(f) == \E i \in DOMAIN asked : asked[i] = f
Reads(f)    == reading # Nothing /\ reading.file = f

(* The blocks of f the server has sent so far, and all of them when it does not
   read the file any more. *)
Upto(f) == IF Reads(f) THEN reading.block - 1 ELSE Blocks[f]

(* The handler reads within the file or has come to its end. *)
ReaderWithin(f) == Reads(f) => reading.block \in 1..(Blocks[f] + 1)

(* A file nobody is getting, or whose answer has not begun, has no block on
   its way, and the handler has none of it left. *)
NoneComing(f) ==
  target[f] = Nothing \/ AskedFor(f) =>
    /\ \A i \in DOMAIN data : data[i].file # f
    /\ Reads(f) => reading.block > Blocks[f]

(* It is asked for once and the client has the first blocks of it, none as
   long as the message waits. *)
Beginning(f) ==
  /\ \A i, j \in DOMAIN asked : asked[i] = f /\ asked[j] = f => i = j
  /\ AskedFor(f) => target[f] = <<>>
  /\ target[f] # Nothing =>
       /\ target[f] = Firsts(Len(target[f]))
       /\ Len(target[f]) < Blocks[f] \/ Len(target[f]) = 0

(* The blocks that follow the first n are on their way up to the last, in their
   order. *)
RestInOrder(q, f, n, last) ==
  /\ n <= last
  /\ \A i \in DOMAIN q : q[i].file = f => q[i].block \in (n + 1)..last
  /\ \A i, j \in DOMAIN q : i < j /\ q[i].file = f /\ q[j].file = f =>
       q[i].block < q[j].block
  /\ \A k \in (n + 1)..last : \E i \in DOMAIN q : q[i].file = f /\ q[i].block = k

RestComing(f) ==
  target[f] # Nothing /\ ~AskedFor(f) => RestInOrder(data, f, Len(target[f]), Upto(f))

GoesWell(f) ==
  /\ saved[f] \subseteq {Whole(f)}
  /\ ReaderWithin(f) /\ NoneComing(f) /\ Beginning(f) /\ RestComing(f)

DownloadInv == \A f \in Files \ (again \cup failed) : GoesWell(f)

LEMMA EmptyIsSomething == <<>> # Nothing
<1>1. <<>> \in Seq(Nat)
  OBVIOUS
<1> QED
  BY <1>1, DownloadsAssumption

LEMMA DownloadTypesInit == DLInit => DLTypeOK
BY DownloadsAssumption DEF DLInit, DLTypeOK

LEMMA DownloadTypesStep == DLTypeOK /\ [DLNext]_dlVars => DLTypeOK'
<1> SUFFICES ASSUME DLTypeOK, [DLNext]_dlVars PROVE DLTypeOK'
  OBVIOUS
<1> USE DownloadsAssumption
<1>1. ASSUME NEW f \in Files, DownloadFile(f) PROVE DLTypeOK'
  BY <1>1 DEF DLTypeOK, DownloadFile
<1>2. CASE Serve
  <2>1. Head(asked) \in Files /\ Tail(asked) \in Seq(Files)
    BY <1>2 DEF Serve, DLTypeOK
  <2>2. [file |-> Head(asked), block |-> 1] \in [file: Files, block: Nat]
    BY <2>1
  <2> QED
    BY <1>2, <2>1, <2>2 DEF DLTypeOK, Serve
<1>3. CASE ReadBlock
  <2>1. reading \in [file: Files, block: Nat]
    BY <1>3 DEF ReadBlock, DLTypeOK
  <2>2. [reading EXCEPT !.block = @ + 1] \in [file: Files, block: Nat]
    BY <2>1
  <2>3. Append(data, reading) \in Seq([file: Files, block: Nat])
    BY <2>1, AppendElements DEF DLTypeOK
  <2>4. reading.file \in Files
    BY <2>1
  <2> QED
    BY <1>3, <2>1, <2>2, <2>3, <2>4 DEF DLTypeOK, ReadBlock
<1>4. CASE TakeBlock
  <2>1. Head(data) \in [file: Files, block: Nat] /\ Tail(data) \in Seq([file: Files, block: Nat])
    BY <1>4, TailElements DEF TakeBlock, DLTypeOK
  <2>2. CASE target[Head(data).file] = Nothing
    BY <1>4, <2>1, <2>2 DEF DLTypeOK, TakeBlock
  <2>3. CASE target[Head(data).file] # Nothing
    <3> DEFINE buf == Append(target[Head(data).file], Head(data).block)
    <3>1. buf \in Seq(Nat)
      BY <2>1, <2>3 DEF DLTypeOK
    <3>2. Head(data).file \in Files
      BY <2>1
    <3> HIDE DEF buf
    <3>3. \/ /\ target' = [target EXCEPT ![Head(data).file] = Nothing]
             /\ saved' = [saved EXCEPT ![Head(data).file] = @ \cup {buf}]
          \/ target' = [target EXCEPT ![Head(data).file] = buf] /\ UNCHANGED saved
      BY <1>4, <2>3 DEF TakeBlock, buf
    <3>4. target' \in [Files -> Seq(Nat) \cup {Nothing}]
      BY <3>1, <3>3 DEF DLTypeOK
    <3>5. saved' \in [Files -> SUBSET Seq(Nat)]
      <4>1. saved[Head(data).file] \cup {buf} \in SUBSET Seq(Nat)
        BY <3>1, <3>2 DEF DLTypeOK
      <4> QED
        BY <3>2, <3>3, <4>1 DEF DLTypeOK
    <3> QED
      BY <1>4, <2>1, <3>4, <3>5 DEF DLTypeOK, TakeBlock
  <2> QED
    BY <2>2, <2>3
<1>5. CASE Break
  BY <1>5 DEF DLTypeOK, Break
<1>6. CASE UNCHANGED dlVars
  BY <1>6 DEF DLTypeOK, dlVars
<1> QED
  BY <1>1, <1>2, <1>3, <1>4, <1>5, <1>6 DEF DLNext

(* Every variable of the downloads has its type. *)
THEOREM DownloadTypes == DLSpec => []DLTypeOK
BY DownloadTypesInit, DownloadTypesStep, PTL DEF DLSpec

LEMMA FirstsAppended ==
  ASSUME NEW n \in Nat, NEW s \in Seq(Nat), s = Firsts(n), Len(s) = n
  PROVE  Append(s, n + 1) = Firsts(n + 1) /\ Len(Append(s, n + 1)) = n + 1
BY DEF Firsts

LEMMA FirstsHasItsLength ==
  ASSUME NEW n \in Nat
  PROVE  Firsts(n) \in Seq(Nat) /\ Len(Firsts(n)) = n
BY DEF Firsts

LEMMA DownloadInvInit == DLInit => DownloadInv
<1> SUFFICES ASSUME DLInit, NEW f \in Files PROVE GoesWell(f)
  BY DEF DownloadInv
<1>1. DOMAIN asked = {} /\ DOMAIN data = {}
  BY DEF DLInit
<1>2. ~Reads(f) /\ ~AskedFor(f)
  BY <1>1 DEF DLInit, Reads, AskedFor
<1>3. target[f] = Nothing /\ saved[f] = {}
  BY DEF DLInit
<1> QED
  BY <1>1, <1>2, <1>3 DEF GoesWell, ReaderWithin, NoneComing, Beginning, RestComing

(* What GoesWell says of f depends on nothing else. *)
LEMMA GoesOn ==
  ASSUME NEW f \in Files, GoesWell(f),
         target'[f] = target[f], saved'[f] = saved[f], data' = data,
         reading' = reading \/ (~Reads(f) /\ ~Reads(f)'),
         asked' = asked
  PROVE  GoesWell(f)'
<1>1. AskedFor(f)' = AskedFor(f)
  BY DEF AskedFor
<1>2. Reads(f)' = Reads(f) /\ (Reads(f) => reading'.block = reading.block)
  BY DEF Reads
<1>3. Upto(f)' = Upto(f)
  BY <1>2 DEF Upto
<1>4. Whole(f)' = Whole(f)
  BY DEF Whole
<1>5. ReaderWithin(f)' /\ NoneComing(f)' /\ Beginning(f)'
  BY <1>1, <1>2 DEF GoesWell, ReaderWithin, NoneComing, Beginning
<1>6. RestComing(f)'
  BY <1>1, <1>3 DEF GoesWell, RestComing, RestInOrder
<1> QED
  BY <1>4, <1>5, <1>6 DEF GoesWell

LEMMA DownloadFileWell ==
  ASSUME DLTypeOK, NEW f \in Files, GoesWell(f), NEW g \in Files, DownloadFile(g),
         f \notin again'
  PROVE  GoesWell(f)'
<1> DEFINE n == Len(asked)
<1>1. /\ asked' = Append(asked, g) /\ UNCHANGED <<reading, data, saved>>
      /\ target' = [target EXCEPT ![g] = <<>>]
  BY DEF DownloadFile
<1>2. /\ n \in Nat /\ DOMAIN asked = 1..n /\ DOMAIN asked' = 1..(n + 1)
      /\ \A i \in 1..n : asked'[i] = asked[i]
      /\ asked'[n + 1] = g
  BY <1>1, AppendElements DEF DLTypeOK
<1> HIDE DEF n
<1>3. saved'[f] \subseteq {Whole(f)}'
  BY <1>1 DEF GoesWell, Whole
<1>4. Reads(f)' = Reads(f) /\ Upto(f)' = Upto(f)
  BY <1>1 DEF Reads, Upto
<1>5. ReaderWithin(f)'
  BY <1>1, <1>4 DEF GoesWell, ReaderWithin
<1>6. CASE f = g
  <2>1. target[f] = Nothing
    BY <1>6 DEF DownloadFile
  <2>2. target'[f] = <<>>
    BY <1>1, <1>6 DEF DLTypeOK
  <2>3. AskedFor(f)'
    BY <1>2, <1>6 DEF AskedFor
  <2>4. NoneComing(f)'
    BY <1>1, <1>4, <2>1 DEF GoesWell, NoneComing
  <2>5. ~AskedFor(f)
    BY <2>1, EmptyIsSomething DEF GoesWell, Beginning
  <2>6. Beginning(f)'
    <3>1. \A i, j \in DOMAIN asked' : asked'[i] = f /\ asked'[j] = f => i = j
      BY <1>2, <2>5 DEF AskedFor
    <3>2. <<>> = Firsts(Len(<<>>))
      BY FirstsHasItsLength DEF Firsts
    <3> QED
      BY <2>2, <3>1, <3>2 DEF Beginning
  <2>7. RestComing(f)'
    BY <2>3 DEF RestComing
  <2> QED
    BY <1>3, <1>5, <2>4, <2>6, <2>7 DEF GoesWell
<1>7. CASE f # g
  <2>1. target'[f] = target[f]
    BY <1>1, <1>7 DEF DLTypeOK
  <2>2. AskedFor(f)' = AskedFor(f)
    BY <1>2, <1>7 DEF AskedFor
  <2>3. NoneComing(f)'
    BY <1>1, <1>4, <2>1, <2>2 DEF GoesWell, NoneComing
  <2>4. Beginning(f)'
    BY <1>2, <1>7, <2>1, <2>2 DEF GoesWell, Beginning
  <2>5. RestComing(f)'
    BY <1>1, <1>4, <2>1, <2>2 DEF GoesWell, RestComing, RestInOrder
  <2> QED
    BY <1>3, <1>5, <2>3, <2>4, <2>5 DEF GoesWell
<1> QED
  BY <1>6, <1>7

LEMMA ServeWell ==
  ASSUME DLTypeOK, NEW f \in Files, GoesWell(f), Serve, f \notin failed'
  PROVE  GoesWell(f)'
<1> DEFINE n == Len(asked)
           g == Head(asked)
<1>1. /\ asked # <<>> /\ reading = Nothing /\ asked' = Tail(asked)
      /\ UNCHANGED <<data, target, saved>>
  BY DEF Serve
<1>2. /\ n \in Nat \ {0} /\ DOMAIN asked = 1..n /\ DOMAIN asked' = 1..(n - 1)
      /\ \A i \in 1..(n - 1) : asked'[i] = asked[i + 1]
      /\ asked[1] = g
  BY <1>1, TailElements DEF DLTypeOK
<1>3. Whole(f)' = Whole(f) /\ ~Reads(f) /\ Upto(f) = Blocks[f]
  BY <1>1 DEF Whole, Reads, Upto
<1>4. \/ reading' = [file |-> g, block |-> 1]
      \/ reading' = Nothing /\ f # g
  BY <1>1 DEF Serve
<1>5. Reads(f)' => f = g /\ reading'.block = 1
  BY <1>4 DEF Reads
<1> HIDE DEF n, g
<1>6. ReaderWithin(f)'
  BY <1>5, DownloadsAssumption DEF ReaderWithin
<1>7. CASE f = g
  <2>1. AskedFor(f)
    BY <1>2, <1>7 DEF AskedFor
  <2>2. ~AskedFor(f)'
    BY <1>2, <1>7 DEF GoesWell, Beginning, AskedFor
  <2>3. target[f] = <<>> /\ target[f] # Nothing /\ Len(target[f]) = 0
    BY <2>1, EmptyIsSomething DEF GoesWell, Beginning
  <2>4. \A i \in DOMAIN data : data[i].file # f
    BY <2>1 DEF GoesWell, NoneComing
  <2>5. NoneComing(f)'
    BY <1>1, <2>2, <2>3 DEF NoneComing
  <2>6. Beginning(f)'
    BY <1>1, <2>2, <2>3, <1>2 DEF GoesWell, Beginning, AskedFor
  <2>7. Upto(f)' = 0
    <3>1. reading' = [file |-> g, block |-> 1]
      BY <1>4, <1>7
    <3>2. reading' # Nothing
      BY <3>1, <1>7, DownloadsAssumption
    <3> QED
      BY <1>7, <3>1, <3>2 DEF Upto, Reads
  <2>8. RestComing(f)'
    BY <1>1, <2>3, <2>4, <2>7 DEF RestComing, RestInOrder
  <2> QED
    BY <1>1, <1>3, <1>6, <2>5, <2>6, <2>8 DEF GoesWell
<1>8. CASE f # g
  <2>1. AskedFor(f)' = AskedFor(f)
    <3>1. ASSUME NEW i \in 1..n, asked[i] = f PROVE AskedFor(f)'
      <4>1. i - 1 \in 1..(n - 1)
        BY <1>2, <1>8, <3>1
      <4>2. asked'[i - 1] = asked[(i - 1) + 1]
        BY <1>2, <4>1
      <4> QED
        BY <1>2, <3>1, <4>1, <4>2 DEF AskedFor
    <3>2. ASSUME NEW i \in 1..(n - 1), asked'[i] = f PROVE AskedFor(f)
      <4>1. i + 1 \in 1..n
        BY <1>2
      <4> QED
        BY <1>2, <3>2, <4>1 DEF AskedFor
    <3> QED
      BY <1>2, <3>1, <3>2 DEF AskedFor
  <2>2. ~Reads(f)' /\ Upto(f)' = Blocks[f]
    BY <1>5, <1>8 DEF Upto
  <2>3. NoneComing(f)'
    BY <1>1, <2>1, <2>2 DEF GoesWell, NoneComing
  <2>4. Beginning(f)'
    <3>1. ASSUME NEW i \in 1..(n - 1), NEW j \in 1..(n - 1), asked'[i] = f, asked'[j] = f
          PROVE  i = j
      <4>1. asked[i + 1] = f /\ asked[j + 1] = f /\ i + 1 \in 1..n /\ j + 1 \in 1..n
        BY <1>2, <3>1
      <4>2. i + 1 = j + 1
        BY <1>2, <4>1 DEF GoesWell, Beginning
      <4> QED
        BY <4>2
    <3> QED
      BY <1>1, <1>2, <2>1, <3>1 DEF GoesWell, Beginning
  <2>5. RestComing(f)'
    BY <1>1, <1>3, <2>1, <2>2 DEF GoesWell, RestComing, RestInOrder
  <2> QED
    BY <1>1, <1>3, <1>6, <2>3, <2>4, <2>5 DEF GoesWell
<1> QED
  BY <1>7, <1>8

LEMMA ReadBlockWell ==
  ASSUME DLTypeOK, NEW f \in Files, GoesWell(f), ReadBlock, f \notin failed'
  PROVE  GoesWell(f)'
<1>1. /\ reading # Nothing /\ reading \in Chunk
      /\ UNCHANGED <<asked, target, saved>>
  BY DEF ReadBlock, DLTypeOK, Chunk
<1>2. CASE reading.file # f
  <2>1. ~Reads(f) /\ ~Reads(f)'
    <3>1. reading' = Nothing \/ reading'.file = reading.file
      BY <1>1 DEF ReadBlock, Chunk
    <3> QED
      BY <1>2, <3>1 DEF Reads
  <2>2. CASE data' = data
    BY <1>1, <2>1, <2>2, GoesOn
  <2>3. CASE data' = Append(data, reading)
    <3> DEFINE m == Len(data)
    <3>1. /\ m \in Nat /\ DOMAIN data = 1..m /\ DOMAIN data' = 1..(m + 1)
          /\ \A i \in 1..m : data'[i] = data[i]
          /\ data'[m + 1] = reading
      BY <1>1, <2>3, AppendElements DEF DLTypeOK, Chunk
    <3> HIDE DEF m
    <3>2. AskedFor(f)' = AskedFor(f) /\ Upto(f)' = Upto(f) /\ Whole(f)' = Whole(f)
      BY <1>1, <2>1 DEF AskedFor, Upto, Whole
    <3>3. \A i \in 1..(m + 1) : data'[i].file = f => i \in 1..m /\ data[i].file = f
      BY <1>2, <3>1
    <3>4. NoneComing(f)'
      BY <1>1, <2>1, <3>1, <3>2, <3>3 DEF GoesWell, NoneComing
    <3>5. RestComing(f)'
      <4> SUFFICES ASSUME target[f] # Nothing, ~AskedFor(f)
                   PROVE  RestInOrder(data, f, Len(target[f]), Upto(f))'
        BY <1>1, <3>2 DEF RestComing
      <4>1. RestInOrder(data, f, Len(target[f]), Upto(f))
        BY DEF GoesWell, RestComing
      <4> HIDE DEF GoesWell
      <4>2. \A k \in (Len(target[f]) + 1)..Upto(f) :
              \E i \in 1..m : i \in 1..(m + 1) /\ data'[i].file = f /\ data'[i].block = k
        BY <3>1, <4>1 DEF RestInOrder
      <4>3. \A i \in 1..m : data[i].file = f => data[i].block \in (Len(target[f]) + 1)..Upto(f)
        BY <3>1, <4>1 DEF RestInOrder
      <4>4. \A i, j \in 1..m : i < j /\ data[i].file = f /\ data[j].file = f =>
              data[i].block < data[j].block
        BY <3>1, <4>1 DEF RestInOrder
      <4> QED
        BY <1>1, <3>1, <3>2, <3>3, <4>1, <4>2, <4>3, <4>4 DEF RestInOrder
    <3>6. ReaderWithin(f)' /\ Beginning(f)' /\ saved'[f] \subseteq {Whole(f)}'
      BY <1>1, <2>1, <3>2 DEF GoesWell, ReaderWithin, Beginning
    <3> QED
      BY <3>4, <3>5, <3>6 DEF GoesWell
  <2> QED
    BY <2>2, <2>3 DEF ReadBlock
<1>3. CASE reading.file = f
  <2> DEFINE b == reading.block
  <2>1. b \in 1..(Blocks[f] + 1) /\ Reads(f) /\ Upto(f) = b - 1 /\ Blocks[f] \in Nat
    BY <1>1, <1>3, DownloadsAssumption DEF GoesWell, ReaderWithin, Reads, Upto
  <2>2. AskedFor(f)' = AskedFor(f) /\ Whole(f)' = Whole(f)
    BY <1>1 DEF AskedFor, Whole
  <2>3. Beginning(f)' /\ saved'[f] \subseteq {Whole(f)}'
    BY <1>1, <2>2 DEF GoesWell, Beginning
  <2>4. CASE More(reading) /\ data' = Append(data, reading)
             /\ reading' = [reading EXCEPT !.block = @ + 1]
    <3> DEFINE m == Len(data)
    <3>1. /\ m \in Nat /\ DOMAIN data = 1..m /\ DOMAIN data' = 1..(m + 1)
          /\ \A i \in 1..m : data'[i] = data[i]
          /\ data'[m + 1] = reading
      BY <1>1, <2>4, AppendElements DEF DLTypeOK, Chunk
    <3>2. b <= Blocks[f]
      BY <1>3, <2>4 DEF More
    <3>3. reading' \in Chunk /\ reading'.file = f /\ reading'.block = b + 1
      BY <1>1, <1>3, <2>4 DEF Chunk
    <3>4. reading' # Nothing
      BY <3>3, DownloadsAssumption DEF Chunk
    <3>5. Reads(f)' /\ Upto(f)' = b
      BY <2>1, <3>3, <3>4 DEF Reads, Upto
    <3>6. ReaderWithin(f)'
      BY <2>1, <3>2, <3>3, DownloadsAssumption DEF ReaderWithin
    <3>7. ~AskedFor(f) /\ target[f] # Nothing
      BY <2>1, <3>2 DEF GoesWell, NoneComing
    <3>8. NoneComing(f)'
      BY <1>1, <2>2, <3>7 DEF NoneComing
    <3>9. target[f] \in Seq(Nat)
      BY <3>7 DEF DLTypeOK
    <3> DEFINE n == Len(target[f])
    <3>10. RestInOrder(data, f, n, b - 1) /\ n \in Nat
      BY <2>1, <3>7, <3>9 DEF GoesWell, RestComing
    <3> HIDE DEF m, n, b
    <3>11. \A i \in 1..m : data[i].file = f => data[i].block \in (n + 1)..(b - 1)
      BY <3>1, <3>10 DEF RestInOrder
    <3>12. \A i, j \in 1..m : i < j /\ data[i].file = f /\ data[j].file = f =>
              data[i].block < data[j].block
      BY <3>1, <3>10 DEF RestInOrder
    <3>13. \A k \in (n + 1)..(b - 1) : \E i \in 1..m : data[i].file = f /\ data[i].block = k
      BY <3>1, <3>10 DEF RestInOrder
    <3>14. n <= b - 1 /\ b \in Nat
      BY <2>1, <3>10 DEF RestInOrder, b
    <3>15. \A i \in 1..(m + 1) : data'[i].file = f => data'[i].block \in (n + 1)..b
      BY <1>3, <3>1, <3>10, <3>11, <3>14 DEF b
    <3>16. \A i, j \in 1..(m + 1) : i < j /\ data'[i].file = f /\ data'[j].file = f =>
              data'[i].block < data'[j].block
      <4> SUFFICES ASSUME NEW i \in 1..(m + 1), NEW j \in 1..(m + 1), i < j,
                          data'[i].file = f, data'[j].file = f
                   PROVE  data'[i].block < data'[j].block
        OBVIOUS
      <4>1. i \in 1..m /\ data[i].file = f /\ data'[i].block = data[i].block
        BY <3>1
      <4>2. CASE j \in 1..m
        BY <3>1, <3>12, <4>1, <4>2
      <4>3. CASE j = m + 1
        BY <3>1, <3>11, <3>14, <4>1, <4>3, <3>10 DEF b
      <4> QED
        BY <3>1, <4>2, <4>3
    <3>17. \A k \in (n + 1)..b : \E i \in 1..(m + 1) : data'[i].file = f /\ data'[i].block = k
      <4> SUFFICES ASSUME NEW k \in (n + 1)..b
                   PROVE  \E i \in 1..(m + 1) : data'[i].file = f /\ data'[i].block = k
        OBVIOUS
      <4>1. CASE k = b
        BY <1>3, <3>1, <4>1 DEF b
      <4>2. CASE k # b
        <5>1. k \in (n + 1)..(b - 1)
          BY <3>10, <3>14, <4>2
        <5> QED
          BY <3>1, <3>13, <5>1
      <4> QED
        BY <4>1, <4>2
    <3>18. RestInOrder(data, f, Len(target[f]), Upto(f))'
      <4>1. Len(target'[f]) = n /\ Upto(f)' = b
        BY <1>1, <3>5 DEF n
      <4>2. DOMAIN data' = 1..(m + 1)
        BY <3>1
      <4>3. n <= b
        BY <3>10, <3>14
      <4> QED
        BY <3>15, <3>16, <3>17, <4>1, <4>2, <4>3 DEF RestInOrder
    <3>19. RestComing(f)'
      BY <3>18 DEF RestComing
    <3> QED
      BY <2>3, <3>6, <3>8, <3>19 DEF GoesWell
  <2>5. CASE ~More(reading) /\ reading' = Nothing /\ UNCHANGED data
    <3>1. b = Blocks[f] + 1
      BY <1>3, <2>1, <2>5 DEF More
    <3>2. ~Reads(f)' /\ Upto(f)' = Upto(f)
      BY <2>1, <2>5, <3>1 DEF Reads, Upto
    <3>3. ReaderWithin(f)' /\ NoneComing(f)'
      BY <1>1, <2>2, <2>5, <3>2 DEF GoesWell, ReaderWithin, NoneComing
    <3>4. RestComing(f)'
      BY <1>1, <2>2, <2>5, <3>2 DEF GoesWell, RestComing, RestInOrder
    <3> QED
      BY <2>3, <3>3, <3>4 DEF GoesWell
  <2> QED
    BY <1>1, <1>3, <2>4, <2>5 DEF ReadBlock
<1> QED
  BY <1>2, <1>3

(* The first block of the rest is the next one, and what is left after it is the
   rest from there. *)
LEMMA RestWithoutHead ==
  ASSUME NEW q \in Seq(Chunk), q # <<>>, NEW f \in Files, q[1].file = f,
         NEW n \in Nat, NEW last \in Int, RestInOrder(q, f, n, last)
  PROVE  q[1].block = n + 1 /\ n + 1 <= last /\ RestInOrder(Tail(q), f, n + 1, last)
<1> DEFINE m == Len(q)
           t == Tail(q)
<1>1. /\ m \in Nat \ {0} /\ DOMAIN q = 1..m /\ DOMAIN t = 1..(m - 1)
      /\ \A i \in 1..(m - 1) : i + 1 \in 1..m /\ t[i] = q[i + 1]
  BY TailElements, ElementOfSeq
<1>2. \A i \in 1..m : q[i].block \in Nat
  <2>1. \A i \in 1..m : q[i] \in Chunk
    BY ElementOfSeq
  <2> HIDE DEF m
  <2> QED
    BY <2>1 DEF Chunk
<1> HIDE DEF m, t
<1>3. \A i \in 1..m : q[i].file = f => q[i].block \in (n + 1)..last
  BY <1>1 DEF RestInOrder
<1>4. \A i, j \in 1..m : i < j /\ q[i].file = f /\ q[j].file = f =>
        q[i].block < q[j].block
  BY <1>1 DEF RestInOrder
<1>5. \A k \in (n + 1)..last : \E i \in 1..m : q[i].file = f /\ q[i].block = k
  BY <1>1 DEF RestInOrder
<1>6. q[1].block \in (n + 1)..last
  BY <1>1, <1>3
<1>7. q[1].block = n + 1
  <2>1. n + 1 \in (n + 1)..last
    BY <1>6
  <2>2. PICK i \in 1..m : q[i].file = f /\ q[i].block = n + 1
    BY <1>5, <2>1
  <2>3. 1 \in 1..m /\ (1 < i \/ i = 1)
    BY <1>1
  <2> QED
    BY <1>4, <1>6, <2>2, <2>3
<1>8. \A i \in 1..(m - 1) : t[i].file = f => t[i].block \in (n + 2)..last
  <2> SUFFICES ASSUME NEW i \in 1..(m - 1), t[i].file = f
               PROVE  t[i].block \in (n + 2)..last
    OBVIOUS
  <2>1. i + 1 \in 1..m /\ t[i] = q[i + 1] /\ 1 < i + 1 /\ 1 \in 1..m
    BY <1>1
  <2>2. q[1].block < q[i + 1].block
    BY <1>4, <2>1
  <2> QED
    BY <1>2, <1>3, <1>7, <2>1, <2>2
<1>9. \A i, j \in 1..(m - 1) : i < j /\ t[i].file = f /\ t[j].file = f =>
        t[i].block < t[j].block
  <2> SUFFICES ASSUME NEW i \in 1..(m - 1), NEW j \in 1..(m - 1), i < j,
                      t[i].file = f, t[j].file = f
               PROVE  t[i].block < t[j].block
    OBVIOUS
  <2>1. i + 1 \in 1..m /\ j + 1 \in 1..m /\ i + 1 < j + 1
    BY <1>1
  <2>2. t[i] = q[i + 1] /\ t[j] = q[j + 1]
    BY <1>1
  <2> QED
    BY <1>4, <2>1, <2>2
<1>10. \A k \in (n + 2)..last : \E i \in 1..(m - 1) : t[i].file = f /\ t[i].block = k
  <2> SUFFICES ASSUME NEW k \in (n + 2)..last
               PROVE  \E i \in 1..(m - 1) : t[i].file = f /\ t[i].block = k
    OBVIOUS
  <2>1. k \in (n + 1)..last
    OBVIOUS
  <2>2. PICK i \in 1..m : q[i].file = f /\ q[i].block = k
    BY <1>5, <2>1
  <2>3. i # 1
    BY <1>7, <2>2
  <2>4. i - 1 \in 1..(m - 1) /\ (i - 1) + 1 = i
    BY <1>1, <2>3
  <2>5. t[i - 1] = q[(i - 1) + 1]
    BY <1>1, <2>4
  <2> QED
    BY <2>2, <2>4, <2>5
<1>11. n + 1 <= last /\ (n + 1) + 1 = n + 2
  BY <1>6
<1>12. RestInOrder(Tail(q), f, n + 1, last)
  BY <1>1, <1>8, <1>9, <1>10, <1>11 DEF RestInOrder, t
<1> QED
  BY <1>7, <1>11, <1>12

(* The block of another file leaves the rest as it is. *)
LEMMA RestWithoutOther ==
  ASSUME NEW q \in Seq(Chunk), q # <<>>, NEW f \in Files, q[1].file # f,
         NEW n \in Nat, NEW last \in Int, RestInOrder(q, f, n, last)
  PROVE  RestInOrder(Tail(q), f, n, last)
<1> DEFINE m == Len(q)
           t == Tail(q)
<1>1. /\ m \in Nat \ {0} /\ DOMAIN q = 1..m /\ DOMAIN t = 1..(m - 1)
      /\ \A i \in 1..(m - 1) : i + 1 \in 1..m /\ t[i] = q[i + 1]
  BY TailElements, ElementOfSeq
<1> HIDE DEF m, t
<1>3. \A i \in 1..m : q[i].file = f => q[i].block \in (n + 1)..last
  BY <1>1 DEF RestInOrder
<1>4. \A i, j \in 1..m : i < j /\ q[i].file = f /\ q[j].file = f =>
        q[i].block < q[j].block
  BY <1>1 DEF RestInOrder
<1>5. \A k \in (n + 1)..last : \E i \in 1..m : q[i].file = f /\ q[i].block = k
  BY <1>1 DEF RestInOrder
<1>8. \A i \in 1..(m - 1) : t[i].file = f => t[i].block \in (n + 1)..last
  BY <1>1, <1>3
<1>9. \A i, j \in 1..(m - 1) : i < j /\ t[i].file = f /\ t[j].file = f =>
        t[i].block < t[j].block
  <2> SUFFICES ASSUME NEW i \in 1..(m - 1), NEW j \in 1..(m - 1), i < j,
                      t[i].file = f, t[j].file = f
               PROVE  t[i].block < t[j].block
    OBVIOUS
  <2>1. i + 1 \in 1..m /\ j + 1 \in 1..m /\ i + 1 < j + 1
    BY <1>1
  <2>2. t[i] = q[i + 1] /\ t[j] = q[j + 1]
    BY <1>1
  <2> QED
    BY <1>4, <2>1, <2>2
<1>10. \A k \in (n + 1)..last : \E i \in 1..(m - 1) : t[i].file = f /\ t[i].block = k
  <2> SUFFICES ASSUME NEW k \in (n + 1)..last
               PROVE  \E i \in 1..(m - 1) : t[i].file = f /\ t[i].block = k
    OBVIOUS
  <2>2. PICK i \in 1..m : q[i].file = f /\ q[i].block = k
    BY <1>5
  <2>3. i # 1
    BY <2>2
  <2>4. i - 1 \in 1..(m - 1) /\ (i - 1) + 1 = i
    BY <1>1, <2>3
  <2>5. t[i - 1] = q[(i - 1) + 1]
    BY <1>1, <2>4
  <2> QED
    BY <2>2, <2>4, <2>5
<1> QED
  BY <1>1, <1>8, <1>9, <1>10 DEF RestInOrder, t

LEMMA TakeBlockWell ==
  ASSUME DLTypeOK, NEW f \in Files, GoesWell(f), TakeBlock
  PROVE  GoesWell(f)'
<1> DEFINE g == Head(data).file
           m == Len(data)
<1>1. data \in Seq(Chunk) /\ data # <<>> /\ data' = Tail(data) /\ UNCHANGED <<asked, reading>>
  BY DEF TakeBlock, DLTypeOK, Chunk
<1>2. /\ m \in Nat \ {0} /\ DOMAIN data = 1..m /\ DOMAIN data' = 1..(m - 1)
      /\ \A i \in 1..(m - 1) : i + 1 \in 1..m /\ data'[i] = data[i + 1]
      /\ Head(data) = data[1] /\ data[1] \in Chunk
  BY <1>1, TailElements
<1>3. g \in Files /\ Head(data).block \in Nat
  BY <1>2 DEF Chunk
<1> HIDE DEF m
<1>4. /\ AskedFor(f)' = AskedFor(f) /\ Reads(f)' = Reads(f)
      /\ Upto(f)' = Upto(f) /\ Whole(f)' = Whole(f)
  BY <1>1 DEF AskedFor, Reads, Upto, Whole
<1>5. ReaderWithin(f)'
  BY <1>1, <1>4 DEF GoesWell, ReaderWithin
<1>6. Upto(f) \in Int /\ Blocks[f] \in Nat /\ (Upto(f) <= Blocks[f])
  <2>1. CASE Reads(f)
    <3>1. reading.block \in 1..(Blocks[f] + 1)
      BY <2>1 DEF GoesWell, ReaderWithin
    <3> QED
      BY <2>1, <3>1, DownloadsAssumption DEF Upto
  <2> QED
    BY <2>1, DownloadsAssumption DEF Upto
<1>7. \A i \in DOMAIN data' : \E j \in DOMAIN data : data'[i] = data[j]
  BY <1>2
<1>8. CASE f # g
  <2>1. target'[f] = target[f] /\ saved'[f] = saved[f]
    <3> DEFINE buf == Append(target[g], Head(data).block)
    <3> HIDE DEF buf
    <3>1. \/ target' = target /\ saved' = saved
          \/ /\ target' = [target EXCEPT ![g] = Nothing]
             /\ saved' = [saved EXCEPT ![g] = @ \cup {buf}]
          \/ target' = [target EXCEPT ![g] = buf] /\ saved' = saved
      BY DEF TakeBlock, buf
    <3> HIDE DEF g
    <3> QED
      BY <1>3, <1>8, <3>1 DEF DLTypeOK
  <2>2. NoneComing(f)'
    BY <1>1, <1>4, <1>7, <2>1 DEF GoesWell, NoneComing
  <2>3. Beginning(f)'
    BY <1>1, <1>4, <2>1 DEF GoesWell, Beginning
  <2>4. RestComing(f)'
    <3> SUFFICES ASSUME target[f] # Nothing, ~AskedFor(f)
                 PROVE  RestInOrder(data, f, Len(target[f]), Upto(f))'
      BY <1>4, <2>1 DEF RestComing
    <3>1. RestInOrder(data, f, Len(target[f]), Upto(f))
      BY DEF GoesWell, RestComing
    <3>2. Len(target[f]) \in Nat
      BY DEF DLTypeOK
    <3>3. Len(target'[f]) = Len(target[f]) /\ Upto(f)' = Upto(f)
      BY <1>4, <2>1
    <3>4. data[1].file # f
      BY <1>2, <1>8
    <3> DEFINE n == Len(target[f])
               last == Upto(f)
    <3> QED
      BY <1>1, <1>6, <3>1, <3>2, <3>3, <3>4, RestWithoutOther
  <2> QED
    BY <1>4, <1>5, <2>1, <2>2, <2>3, <2>4 DEF GoesWell
<1>9. CASE f = g
  <2> DEFINE n   == Len(target[f])
             buf == Append(target[f], Head(data).block)
  <2>1. data[1].file = f /\ 1 \in DOMAIN data
    BY <1>2, <1>9
  <2>2. target[f] # Nothing /\ ~AskedFor(f)
    BY <2>1 DEF GoesWell, NoneComing
  <2>3. target[f] \in Seq(Nat) /\ n \in Nat
    BY <2>2 DEF DLTypeOK
  <2>4. RestInOrder(data, f, n, Upto(f))
    BY <2>2 DEF GoesWell, RestComing
  <2>5. data[1].block = n + 1 /\ n + 1 <= Upto(f) /\ RestInOrder(Tail(data), f, n + 1, Upto(f))
    BY <1>1, <1>6, <2>1, <2>3, <2>4, RestWithoutHead
  <2>6. buf = Firsts(n + 1) /\ Len(buf) = n + 1 /\ buf \in Seq(Nat)
    <3>1. target[f] = Firsts(n)
      BY <2>2 DEF GoesWell, Beginning
    <3>2. buf = Append(target[f], n + 1)
      BY <1>2, <2>5
    <3>3. Append(target[f], n + 1) = Firsts(n + 1) /\ Len(Append(target[f], n + 1)) = n + 1
      BY <2>3, <3>1, FirstsAppended
    <3>4. Append(target[f], n + 1) \in Seq(Nat)
      BY <2>3, AppendElements
    <3> HIDE DEF n, buf
    <3> QED
      BY <3>2, <3>3, <3>4
  <2>7. buf # Nothing
    BY <2>6, DownloadsAssumption
  <2> HIDE DEF n, buf
  <2>8. CASE n + 1 < Blocks[f]
    <3>1. target' = [target EXCEPT ![f] = buf] /\ saved' = saved
      BY <1>6, <1>9, <2>2, <2>3, <2>6, <2>8 DEF TakeBlock, buf
    <3>2. target'[f] = buf
      BY <3>1 DEF DLTypeOK
    <3>3. NoneComing(f)'
      BY <1>4, <2>2, <2>7, <3>2 DEF NoneComing
    <3>4. Beginning(f)'
      BY <1>1, <1>4, <2>2, <2>6, <2>8, <3>2 DEF GoesWell, Beginning
    <3>5. RestComing(f)'
      <4>1. RestInOrder(data', f, Len(target'[f]), Upto(f)')
        BY <1>1, <1>4, <2>5, <2>6, <3>2
      <4> QED
        BY <4>1 DEF RestComing, RestInOrder
    <3> QED
      BY <1>4, <1>5, <3>1, <3>3, <3>4, <3>5 DEF GoesWell
  <2>9. CASE n + 1 >= Blocks[f]
    <3>1. /\ target' = [target EXCEPT ![f] = Nothing]
          /\ saved' = [saved EXCEPT ![f] = @ \cup {buf}]
      BY <1>6, <1>9, <2>2, <2>3, <2>6, <2>9 DEF TakeBlock, buf
    <3>2. target'[f] = Nothing /\ saved'[f] = saved[f] \cup {buf}
      BY <3>1 DEF DLTypeOK
    <3>3. n + 1 = Blocks[f] /\ Upto(f) = Blocks[f]
      BY <1>6, <2>3, <2>5, <2>9
    <3>4. saved'[f] \subseteq {Whole(f)}
      BY <2>6, <3>2, <3>3 DEF GoesWell, Whole, Firsts
    <3>5. \A i \in DOMAIN data' : data'[i].file # f
      <4> SUFFICES ASSUME NEW i \in DOMAIN data', data'[i].file = f
                   PROVE  FALSE
        OBVIOUS
      <4>1. data'[i].block \in ((n + 1) + 1)..Upto(f)
        BY <1>1, <2>5 DEF RestInOrder
      <4> QED
        BY <2>3, <3>3, <4>1
    <3>6. Reads(f)' => reading'.block > Blocks[f]
      <4> SUFFICES ASSUME Reads(f) PROVE reading.block > Blocks[f]
        BY <1>1, <1>4
      <4>1. reading.block \in 1..(Blocks[f] + 1) /\ Upto(f) = reading.block - 1
        BY DEF GoesWell, ReaderWithin, Upto
      <4> QED
        BY <1>6, <3>3, <4>1
    <3>7. NoneComing(f)'
      BY <3>5, <3>6 DEF NoneComing
    <3>8. Beginning(f)'
      BY <1>1, <1>4, <2>2, <3>2 DEF GoesWell, Beginning
    <3>9. RestComing(f)'
      BY <3>2 DEF RestComing
    <3> QED
      BY <1>4, <1>5, <3>4, <3>7, <3>8, <3>9 DEF GoesWell
  <2> QED
    BY <1>6, <2>3, <2>8, <2>9
<1> QED
  BY <1>8, <1>9

LEMMA BreakWell ==
  ASSUME DLTypeOK, NEW f \in Files, GoesWell(f), Break, f \notin failed'
  PROVE  GoesWell(f)'
<1>1. target'[f] = Nothing /\ saved' = saved /\ Whole(f)' = Whole(f)
  BY DEF Break, Whole
<1>2. DOMAIN asked' = {} /\ DOMAIN data' = {} /\ reading' = Nothing
  BY DEF Break
<1> QED
  BY <1>1, <1>2 DEF GoesWell, ReaderWithin, NoneComing, Beginning, RestComing, Reads, AskedFor

LEMMA DownloadInvStep == DLTypeOK /\ DownloadInv /\ [DLNext]_dlVars => DownloadInv'
<1> SUFFICES ASSUME DLTypeOK, DownloadInv, [DLNext]_dlVars,
                    NEW f \in Files, f \notin again', f \notin failed'
             PROVE  GoesWell(f)'
  BY DEF DownloadInv
<1>1. f \notin again /\ f \notin failed
  BY DEF DLNext, dlVars, DownloadFile, Serve, ReadBlock, TakeBlock, Break
<1>2. GoesWell(f)
  BY <1>1 DEF DownloadInv
<1>3. CASE \E g \in Files : DownloadFile(g)
  BY <1>2, <1>3, DownloadFileWell
<1>4. CASE UNCHANGED dlVars
  BY <1>2, <1>4, GoesOn DEF dlVars
<1> QED
  BY <1>2, <1>3, <1>4, ServeWell, ReadBlockWell, TakeBlockWell, BreakWell DEF DLNext

LEMMA DownloadInvShows == DLTypeOK /\ DownloadInv => DownloadsAreWhole
<1> SUFFICES ASSUME DLTypeOK, DownloadInv, NEW f \in Files \ (again \cup failed)
             PROVE  /\ saved[f] \subseteq {Whole(f)}
                    /\ Quiet /\ Blocks[f] > 0 => target[f] = Nothing
  BY DEF DownloadsAreWhole
<1>1. GoesWell(f)
  BY DEF DownloadInv
<1>2. ASSUME Quiet, Blocks[f] > 0, target[f] # Nothing PROVE FALSE
  <2> DEFINE n == Len(target[f])
  <2>1. ~AskedFor(f) /\ ~Reads(f) /\ DOMAIN data = {}
    BY <1>2 DEF Quiet, AskedFor, Reads
  <2>2. n \in Nat /\ Blocks[f] \in Nat
    BY <1>2, DownloadsAssumption DEF DLTypeOK
  <2>3. RestInOrder(data, f, n, Blocks[f])
    BY <1>1, <1>2, <2>1 DEF GoesWell, RestComing, Upto
  <2>4. n < Blocks[f]
    BY <1>1, <1>2, <2>2 DEF GoesWell, Beginning
  <2>5. n + 1 \in (n + 1)..Blocks[f]
    BY <2>2, <2>4
  <2> QED
    BY <2>1, <2>3, <2>5 DEF RestInOrder
<1> QED
  BY <1>1, <1>2 DEF GoesWell

(* A file that is saved is the file block by block, and one that was asked for
   is saved once nothing is on its way, for any files of any length and any
   number of messages: its blocks come once and in their order (GoesWell). *)
THEOREM DownloadsHold == DLSpec => []DownloadsAreWhole
<1>1. DLInit => DLTypeOK /\ DownloadInv
  BY DownloadTypesInit, DownloadInvInit
<1>2. DLTypeOK /\ DownloadInv /\ [DLNext]_dlVars => (DLTypeOK /\ DownloadInv)'
  BY DownloadTypesStep, DownloadInvStep
<1>3. DLTypeOK /\ DownloadInv => DownloadsAreWhole
  BY DownloadInvShows
<1> QED
  BY <1>1, <1>2, <1>3, PTL DEF DLSpec
----------------------------------------------------------------------------
(* Uploads: types and sizes.  What the limit check has added up (seen) has no *)
(* part in it.                                                               *)

Acknowledgement == [upload: Uploads, success: BOOLEAN]

(* A record of an upload, whatever `seen` is. *)
UploadFields(r) ==
  /\ r = [stage |-> r.stage, conn |-> r.conn, room |-> r.room, size |-> r.size,
          data |-> r.data, seen |-> r.seen, sent |-> r.sent,
          bytes_written |-> r.bytes_written, on_disk |-> r.on_disk]
  /\ r.stage \in UploadStages
  /\ r.size \in Nat /\ r.sent \in Nat /\ r.bytes_written \in Nat /\ r.on_disk \in Int
  /\ r.stage # "none" => r.conn \in Clients

UploadTypes ==
  /\ DOMAIN up = Uploads /\ up = [u \in Uploads |-> up[u]]
  /\ \A u \in Uploads : UploadFields(up[u])
  /\ slot \in [Clients -> Uploads \cup {Nobody}]
  /\ asks \in [Clients -> Seq(Uploads)]
  /\ acks \in [Clients -> Seq(Acknowledgement)]

LEMMA UploadTypesInit == UpInit => UploadTypes
BY DEF UpInit, UploadTypes, UploadFields, UploadStages

(* What is put in the place of an upload's record. *)
LEMMA PutFields ==
  ASSUME UploadTypes, NEW u \in Uploads, NEW r, Put(u, r)
  PROVE  /\ DOMAIN up' = Uploads /\ up' = [v \in Uploads |-> up'[v]]
         /\ up'[u] = r
         /\ \A v \in Uploads \ {u} : up'[v] = up[v]
BY DEF UploadTypes, Put

(* An upload that only moved on: the rest of it is as it was. *)
Rest(q, r) ==
  /\ q.conn = r.conn /\ q.size = r.size /\ q.data = r.data
  /\ q.sent = r.sent /\ q.bytes_written = r.bytes_written

(* The records the client makes, field by field. *)
LEMMA AskedForChanged ==
  ASSUME NEW r, UploadFields(r), NEW c \in Clients, NEW to, NEW n \in Nat,
         NEW q, q = [r EXCEPT !.stage = "sent", !.conn = c, !.room = to, !.size = n]
  PROVE  /\ q.stage = "sent" /\ q.on_disk = r.on_disk /\ q.conn = c /\ q.size = n
         /\ q.data = r.data /\ q.sent = r.sent /\ q.bytes_written = r.bytes_written
         /\ UploadFields(q)
BY DEF UploadFields, UploadStages

LEMMA DataChanged ==
  ASSUME NEW r, UploadFields(r), NEW d, NEW q, q = [r EXCEPT !.data = d]
  PROVE  /\ q.stage = r.stage /\ q.on_disk = r.on_disk /\ q.conn = r.conn /\ q.size = r.size
         /\ q.data = d /\ q.sent = r.sent /\ q.bytes_written = r.bytes_written
         /\ UploadFields(q)
BY DEF UploadFields

LEMMA ChunkWritten ==
  ASSUME NEW r, UploadFields(r),
         NEW q, q = [r EXCEPT !.sent = @ + 1, !.on_disk = @ + 1, !.bytes_written = @ + 1]
  PROVE  /\ q.stage = r.stage /\ q.on_disk = r.on_disk + 1 /\ q.conn = r.conn
         /\ q.size = r.size /\ q.data = r.data /\ q.sent = r.sent + 1
         /\ q.bytes_written = r.bytes_written + 1
         /\ UploadFields(q)
<1> DEFINE k == r.sent + 1
           d == r.on_disk + 1
           w == r.bytes_written + 1
<1>1. k \in Nat /\ d \in Int /\ w \in Nat
  BY DEF UploadFields
<1>2. q = [r EXCEPT !.sent = k, !.on_disk = d, !.bytes_written = w]
  OBVIOUS
<1> HIDE DEF k, d, w
<1>3. /\ q.stage = r.stage /\ q.on_disk = d /\ q.conn = r.conn
      /\ q.size = r.size /\ q.data = r.data /\ q.sent = k /\ q.bytes_written = w
      /\ UploadFields(q)
  BY <1>1, <1>2 DEF UploadFields
<1> QED
  BY <1>3 DEF k, d, w

LEMMA ChunkWrittenInPart ==
  ASSUME NEW r, UploadFields(r), NEW n \in Nat,
         NEW q, q = [r EXCEPT !.sent = @ + 1, !.on_disk = @ + n]
  PROVE  /\ q.stage = r.stage /\ q.on_disk = r.on_disk + n /\ q.conn = r.conn
         /\ q.size = r.size /\ q.data = r.data /\ q.sent = r.sent + 1
         /\ q.bytes_written = r.bytes_written
         /\ UploadFields(q)
<1> DEFINE k == r.sent + 1
           d == r.on_disk + n
           w == r.bytes_written
<1>1. k \in Nat /\ d \in Int /\ w \in Nat
  BY DEF UploadFields
<1>2. q = [r EXCEPT !.sent = k, !.on_disk = d, !.bytes_written = w]
  BY DEF UploadFields
<1> HIDE DEF k, d, w
<1>3. /\ q.stage = r.stage /\ q.on_disk = d /\ q.conn = r.conn
      /\ q.size = r.size /\ q.data = r.data /\ q.sent = k /\ q.bytes_written = w
      /\ UploadFields(q)
  BY <1>1, <1>2 DEF UploadFields
<1> QED
  BY <1>3 DEF k, d, w

(* Upload u is at stage st with n bytes on disk and otherwise as it was, and so is
   every other upload. *)
MovedOn(u, st, n) ==
  /\ DOMAIN up' = Uploads /\ up' = [v \in Uploads |-> up'[v]]
  /\ up'[u].stage = st /\ up'[u].on_disk = n /\ Rest(up'[u], up[u])
  /\ UploadFields(up'[u])
  /\ \A v \in Uploads \ {u} : up'[v] = up[v]

LEMMA UploadMovesOn ==
  ASSUME UploadTypes, NEW u \in Uploads, up[u].stage # "none", NEW st \in UploadStages
  PROVE  /\ Put(u, [up[u] EXCEPT !.stage = st]) => MovedOn(u, st, up[u].on_disk)
         /\ \A n : Put(u, [up[u] EXCEPT !.stage = st, !.seen = n]) =>
              MovedOn(u, st, up[u].on_disk)
         /\ \A n \in Int : Put(u, [up[u] EXCEPT !.stage = st, !.on_disk = n]) =>
              MovedOn(u, st, n)
<1>1. UploadFields(up[u]) /\ up[u].conn \in Clients
  BY DEF UploadTypes, UploadFields
<1>2. ASSUME Put(u, [up[u] EXCEPT !.stage = st]) PROVE MovedOn(u, st, up[u].on_disk)
  <2>1. up'[u] = [up[u] EXCEPT !.stage = st]
    BY <1>2, PutFields
  <2>2. /\ up'[u].stage = st /\ up'[u].on_disk = up[u].on_disk
        /\ Rest(up'[u], up[u]) /\ UploadFields(up'[u])
    BY <1>1, <2>1 DEF UploadFields, Rest
  <2> QED
    BY <1>2, <2>2, PutFields DEF MovedOn
<1>3. ASSUME NEW n, Put(u, [up[u] EXCEPT !.stage = st, !.seen = n])
      PROVE  MovedOn(u, st, up[u].on_disk)
  <2>1. up'[u] = [up[u] EXCEPT !.stage = st, !.seen = n]
    BY <1>3, PutFields
  <2>2. /\ up'[u].stage = st /\ up'[u].on_disk = up[u].on_disk
        /\ Rest(up'[u], up[u]) /\ UploadFields(up'[u])
    BY <1>1, <2>1 DEF UploadFields, Rest
  <2> QED
    BY <1>3, <2>2, PutFields DEF MovedOn
<1>4. ASSUME NEW n \in Int, Put(u, [up[u] EXCEPT !.stage = st, !.on_disk = n])
      PROVE  MovedOn(u, st, n)
  <2>1. up'[u] = [up[u] EXCEPT !.stage = st, !.on_disk = n]
    BY <1>4, PutFields
  <2>2. /\ up'[u].stage = st /\ up'[u].on_disk = n
        /\ Rest(up'[u], up[u]) /\ UploadFields(up'[u])
    BY <1>1, <2>1 DEF UploadFields, Rest
  <2> QED
    BY <1>4, <2>2, PutFields DEF MovedOn
<1> QED
  BY <1>2, <1>3, <1>4

LEMMA FaultsStay ==
  /\ NoFault => faulted \subseteq faulted'
  /\ \A us : Fault(us) => faulted \subseteq faulted' /\ us \subseteq faulted'
BY DEF NoFault, Fault

(* start_upload from one of its awaits to the next: it goes on, or its answer is
   on the way. *)
StartsOn(u, st, n) ==
  /\ up[u].stage \in Starting /\ MovedOn(u, st, n)
  /\ \/ /\ up[u].stage \in {"asked", "summed", "fits"} /\ n = up[u].on_disk
        /\ st \in {"summed", "fits", "refused"}
     \/ up[u].stage = "fits" /\ st = "created" /\ n = 0
     \/ up[u].stage = "created" /\ st = "pending" /\ n = up[u].on_disk
  /\ IF st \in Starting THEN acks' = acks ELSE \E ok \in BOOLEAN : Ack(u, ok)
  /\ UNCHANGED <<slot, asks, crossed>> /\ faulted \subseteq faulted'

LEMMA JudgeEffect ==
  ASSUME UploadTypes, NEW u \in Uploads, up[u].stage \in {"asked", "summed"},
         NEW fits \in BOOLEAN, Judge(u, fits), UNCHANGED <<slot, asks, crossed>>,
         faulted \subseteq faulted'
  PROVE  \E st \in UploadStages : StartsOn(u, st, up[u].on_disk)
<1>1. "fits" \in UploadStages /\ "refused" \in UploadStages
      /\ "fits" \in Starting /\ "refused" \notin Starting
      /\ up[u].stage # "none" /\ up[u].stage \in Starting
  BY DEF UploadStages, Starting
<1>2. CASE fits
  <2>1. Put(u, [up[u] EXCEPT !.stage = "fits"]) /\ UNCHANGED acks
    BY <1>2 DEF Judge
  <2>2. MovedOn(u, "fits", up[u].on_disk)
    BY <1>1, <2>1, UploadMovesOn
  <2> QED
    BY <1>1, <2>1, <2>2 DEF StartsOn
<1>3. CASE ~fits
  <2>1. Put(u, [up[u] EXCEPT !.stage = "refused"]) /\ Ack(u, FALSE)
    BY <1>3 DEF Judge
  <2>2. MovedOn(u, "refused", up[u].on_disk)
    BY <1>1, <2>1, UploadMovesOn
  <2> QED
    BY <1>1, <2>1, <2>2 DEF StartsOn
<1> QED
  BY <1>2, <1>3

LEMMA StartEffect ==
  ASSUME UploadTypes, NEW u \in Uploads,
         SumStored(u) \/ SumPending(u) \/ CreateFile(u) \/ Register(u)
  PROVE  \E st \in UploadStages, n \in Int : StartsOn(u, st, n)
<1>0. up[u].on_disk \in Int /\ 0 \in Int
  BY DEF UploadTypes, UploadFields
<1>1. /\ {"summed", "created", "pending", "refused"} \subseteq UploadStages
      /\ {"summed", "created"} \subseteq Starting
      /\ "refused" \notin Starting /\ "pending" \notin Starting
      /\ {"asked", "summed", "fits", "created"} \subseteq Starting
  BY DEF UploadStages, Starting
<1>2. CASE SumStored(u)
  <2>1. PICK n : /\ IF multi_tenant
                    THEN Judge(u, Fits(u, n))
                    ELSE Put(u, [up[u] EXCEPT !.stage = "summed", !.seen = n]) /\ UNCHANGED acks
                 /\ NoFault \/ Fault({u})
    BY <1>2 DEF SumStored
  <2>2. faulted \subseteq faulted' /\ UNCHANGED <<slot, asks, crossed>> /\ up[u].stage = "asked"
    BY <1>2, <2>1, FaultsStay DEF SumStored
  <2>3. CASE multi_tenant
    <3> DEFINE fits == Fits(u, n)
    <3>1. fits \in BOOLEAN
      BY DEF Fits
    <3>2. Judge(u, fits)
      BY <2>1, <2>3
    <3> HIDE DEF fits
    <3> QED
      BY <1>0, <2>2, <3>1, <3>2, JudgeEffect
  <2>4. CASE ~multi_tenant
    <3>1. MovedOn(u, "summed", up[u].on_disk)
      BY <1>1, <2>1, <2>2, <2>4, UploadMovesOn
    <3> QED
      BY <1>0, <1>1, <2>1, <2>2, <2>4, <3>1 DEF StartsOn
  <2> QED
    BY <2>3, <2>4
<1>3. CASE SumPending(u)
  <2> DEFINE fits == FileLimit = 0 \/ Fits(u, Used(u))
  <2>1. fits \in BOOLEAN
    OBVIOUS
  <2>2. /\ Judge(u, fits) /\ UNCHANGED <<slot, asks, crossed>> /\ up[u].stage = "summed"
        /\ faulted \subseteq faulted'
    BY <1>3, FaultsStay DEF SumPending
  <2> HIDE DEF fits
  <2> QED
    BY <1>0, <2>1, <2>2, JudgeEffect
<1>4. CASE CreateFile(u)
  <2>1. up[u].stage = "fits" /\ UNCHANGED <<slot, asks, crossed>>
    BY <1>4 DEF CreateFile
  <2>2. CASE Put(u, [up[u] EXCEPT !.stage = "created", !.on_disk = 0]) /\ UNCHANGED acks /\ NoFault
    <3>1. MovedOn(u, "created", 0)
      BY <1>0, <1>1, <2>1, <2>2, UploadMovesOn
    <3> QED
      BY <1>0, <1>1, <2>1, <2>2, <3>1, FaultsStay DEF StartsOn
  <2>3. CASE Put(u, [up[u] EXCEPT !.stage = "refused"]) /\ Ack(u, FALSE) /\ Fault({u})
    <3>1. MovedOn(u, "refused", up[u].on_disk)
      BY <1>1, <2>1, <2>3, UploadMovesOn
    <3> QED
      BY <1>0, <1>1, <2>1, <2>3, <3>1, FaultsStay DEF StartsOn
  <2> QED
    BY <1>4, <2>2, <2>3 DEF CreateFile
<1>5. CASE Register(u)
  <2>1. /\ up[u].stage = "created" /\ UNCHANGED <<slot, asks, crossed>>
        /\ Put(u, [up[u] EXCEPT !.stage = "pending"]) /\ Ack(u, TRUE) /\ NoFault
    BY <1>5 DEF Register
  <2>2. MovedOn(u, "pending", up[u].on_disk)
    BY <1>1, <2>1, UploadMovesOn
  <2> QED
    BY <1>0, <1>1, <2>1, <2>2, FaultsStay DEF StartsOn
<1> QED
  BY <1>2, <1>3, <1>4, <1>5

Registered == {"pending", "saving", "row"}
Answered   == {"refused", "dropped"} \cup Registered

(* A registered upload: a chunk, its end, its row. *)
ChunkWas(u, k, w, n) ==
  /\ up'[u].stage = up[u].stage /\ up'[u].conn = up[u].conn /\ up'[u].size = up[u].size
  /\ up'[u].data = up[u].data /\ up'[u].sent = up[u].sent + k
  /\ up'[u].bytes_written = up[u].bytes_written + w /\ up'[u].on_disk = up[u].on_disk + n
  /\ UploadFields(up'[u])
  /\ DOMAIN up' = Uploads /\ up' = [v \in Uploads |-> up'[v]]
  /\ \A v \in Uploads \ {u} : up'[v] = up[v]

LEMMA ChunkEffect ==
  ASSUME UploadTypes, NEW u \in Uploads, FileUploadChunk(u)
  PROVE  /\ up[u].stage = "pending" /\ up[u].data # Nobody
         /\ UNCHANGED line /\ faulted \subseteq faulted'
         /\ \/ MovedOn(u, "dropped", -1)
            \/ /\ ChunkWas(u, 1, 1, 1)
            \/ /\ \E n \in {0, 1} : ChunkWas(u, 1, 0, n)
               /\ u \in faulted'
<1>1. up[u].stage = "pending" /\ up[u].data # Nobody /\ UNCHANGED line
  BY DEF FileUploadChunk, Sending
<1>2. UploadFields(up[u])
  BY DEF UploadTypes
<1>3. CASE Put(u, Drop(u)) /\ NoFault
  <2>1. -1 \in Int /\ "dropped" \in UploadStages
    BY DEF UploadStages
  <2>2. MovedOn(u, "dropped", -1)
    BY <1>1, <1>3, <2>1, UploadMovesOn DEF Drop, Gone
  <2> QED
    BY <1>1, <1>3, <2>2, FaultsStay
<1>4. CASE Put(u, Wrote(u)) /\ NoFault
  <2>1. up'[u] = [up[u] EXCEPT !.sent = @ + 1, !.on_disk = @ + 1, !.bytes_written = @ + 1]
    BY <1>4, PutFields DEF Wrote
  <2> DEFINE k == up[u].sent + 1
             d == up[u].on_disk + 1
             w == up[u].bytes_written + 1
  <2>2. k \in Nat /\ d \in Int /\ w \in Nat
    BY <1>2 DEF UploadFields
  <2>3. up'[u] = [up[u] EXCEPT !.sent = k, !.on_disk = d, !.bytes_written = w]
    BY <2>1
  <2> HIDE DEF k, d, w
  <2>4. /\ up'[u].stage = up[u].stage /\ up'[u].on_disk = d /\ up'[u].conn = up[u].conn
        /\ up'[u].size = up[u].size /\ up'[u].data = up[u].data /\ up'[u].sent = k
        /\ up'[u].bytes_written = w /\ UploadFields(up'[u])
    BY <1>2, <2>2, <2>3 DEF UploadFields
  <2>5. ChunkWas(u, 1, 1, 1)
    BY <1>4, <2>4, PutFields DEF ChunkWas, k, d, w
  <2> QED
    BY <1>1, <1>4, <2>5, FaultsStay
<1>5. CASE \E n \in {0, 1} : Put(u, WroteInPart(u, n)) /\ Fault({u})
  <2>1. PICK n \in {0, 1} : Put(u, WroteInPart(u, n)) /\ Fault({u})
    BY <1>5
  <2> DEFINE k == up[u].sent + 1
             d == up[u].on_disk + n
  <2>2. k \in Nat /\ d \in Int
    BY <1>2 DEF UploadFields
  <2>3. up'[u] = [up[u] EXCEPT !.sent = k, !.on_disk = d]
    BY <2>1, PutFields DEF WroteInPart
  <2> HIDE DEF k, d
  <2>4. /\ up'[u].stage = up[u].stage /\ up'[u].on_disk = d /\ up'[u].conn = up[u].conn
        /\ up'[u].size = up[u].size /\ up'[u].data = up[u].data /\ up'[u].sent = k
        /\ up'[u].bytes_written = up[u].bytes_written /\ UploadFields(up'[u])
    BY <1>2, <2>2, <2>3 DEF UploadFields
  <2>5. up[u].bytes_written + 0 = up[u].bytes_written
    BY <1>2 DEF UploadFields
  <2>6. ChunkWas(u, 1, 0, n)
    BY <2>1, <2>4, <2>5, PutFields DEF ChunkWas, k, d
  <2> QED
    BY <1>1, <2>1, <2>6, FaultsStay
<1> QED
  BY <1>3, <1>4, <1>5 DEF FileUploadChunk

LEMMA CompleteEffect ==
  ASSUME UploadTypes, NEW u \in Uploads, FileUploadComplete(u)
  PROVE  /\ up[u].stage = "pending" /\ MovedOn(u, "saving", up[u].on_disk)
         /\ up[u].data # Nobody /\ up[up[u].data].size - up[u].sent = 0
         /\ UNCHANGED line /\ faulted \subseteq faulted'
<1>1. /\ up[u].stage = "pending" /\ up[u].data # Nobody /\ UNCHANGED line
      /\ up[up[u].data].size - up[u].sent = 0
      /\ Put(u, [up[u] EXCEPT !.stage = "saving"]) /\ NoFault
  BY DEF FileUploadComplete, Sending
<1>2. "saving" \in UploadStages
  BY DEF UploadStages
<1> QED
  BY <1>1, <1>2, UploadMovesOn, FaultsStay

LEMMA SaveEffect ==
  ASSUME UploadTypes, NEW u \in Uploads, SaveRoomFile(u)
  PROVE  /\ up[u].stage = "saving" /\ UNCHANGED line /\ faulted \subseteq faulted'
         /\ \/ MovedOn(u, "row", up[u].on_disk)
            \/ MovedOn(u, "dropped", up[u].on_disk) /\ u \in faulted'
<1>1. up[u].stage = "saving" /\ UNCHANGED line /\ up[u].on_disk \in Int
  BY DEF SaveRoomFile, UploadTypes, UploadFields
<1>2. "row" \in UploadStages /\ "dropped" \in UploadStages
  BY DEF UploadStages
<1>3. CASE Put(u, [up[u] EXCEPT !.stage = "row"]) /\ NoFault
  BY <1>1, <1>2, <1>3, UploadMovesOn, FaultsStay
<1>4. CASE Put(u, Gone(up[u], up[u].on_disk)) /\ faulted' = faulted \cup {u}
  <2>1. MovedOn(u, "dropped", up[u].on_disk)
    BY <1>1, <1>2, <1>4, UploadMovesOn DEF Gone
  <2> QED
    BY <1>1, <1>4, <2>1
<1> QED
  BY <1>3, <1>4 DEF SaveRoomFile, Fault

(* The uploads of a room that is deleted, or those a restart meets. *)
SweptAway(ss) ==
  /\ DOMAIN up' = Uploads /\ up' = [v \in Uploads |-> up'[v]]
  /\ \A v \in Uploads :
       \/ up'[v] = up[v]
       \/ /\ up[v].stage \in ss /\ up'[v].stage = "dropped" /\ up'[v].on_disk = up[v].on_disk
          /\ Rest(up'[v], up[v]) /\ UploadFields(up'[v]) /\ v \in faulted'
  /\ faulted \subseteq faulted'

LEMMA GoneFields ==
  ASSUME NEW r, UploadFields(r), r.stage # "none", NEW q, q = Gone(r, r.on_disk)
  PROVE  q.stage = "dropped" /\ q.on_disk = r.on_disk /\ Rest(q, r) /\ UploadFields(q)
<1>1. r.on_disk \in Int /\ "dropped" \in UploadStages
  BY DEF UploadFields, UploadStages
<1> QED
  BY <1>1 DEF Gone, UploadFields, Rest

LEMMA DeleteRoomEffect ==
  ASSUME UploadTypes, NEW r \in Rooms, DeleteRoom(r)
  PROVE  SweptAway({"row"}) /\ UNCHANGED line
<1> DEFINE of == {u \in Uploads : up[u].stage # "none" /\ up[u].room = r}
<1>1. /\ up' = [u \in Uploads |-> IF u \in of \cap Rows
                                  THEN Gone(up[u], up[u].on_disk) ELSE up[u]]
      /\ Fault(of) /\ UNCHANGED line
  BY DEF DeleteRoom
<1>2. faulted \subseteq faulted' /\ of \subseteq faulted'
  BY <1>1, FaultsStay
<1>3. ASSUME NEW v \in Uploads, v \in of \cap Rows
      PROVE  /\ up[v].stage = "row" /\ up'[v].stage = "dropped"
             /\ up'[v].on_disk = up[v].on_disk
             /\ Rest(up'[v], up[v]) /\ UploadFields(up'[v])
  <2>1. up[v].stage = "row" /\ up'[v] = Gone(up[v], up[v].on_disk) /\ UploadFields(up[v])
    BY <1>1, <1>3 DEF Rows, At, UploadTypes
  <2> QED
    BY <2>1, GoneFields
<1>4. \A v \in Uploads : v \notin of \cap Rows => up'[v] = up[v]
  BY <1>1
<1>5. DOMAIN up' = Uploads /\ up' = [v \in Uploads |-> up'[v]]
  BY <1>1
<1> HIDE DEF of
<1> QED
  BY <1>1, <1>2, <1>3, <1>4, <1>5 DEF SweptAway

LEMMA RestartEffect ==
  ASSUME UploadTypes, Restart
  PROVE  /\ SweptAway(Starting \cup {"pending", "saving"})
         /\ \A v \in Uploads : up'[v].stage \notin Starting
         /\ UNCHANGED <<slot, crossed>>
         /\ \A c \in Clients : asks'[c] = <<>> /\ acks'[c] = <<>>
<1> DEFINE ss == Starting \cup {"pending", "saving"}
<1>1. /\ up' = [u \in Uploads |-> IF u \in At(ss)
                                  THEN Gone(up[u], up[u].on_disk) ELSE up[u]]
      /\ Fault(At(ss)) /\ UNCHANGED <<slot, crossed>>
      /\ \A c \in Clients : asks'[c] = <<>> /\ acks'[c] = <<>>
  BY DEF Restart
<1>2. faulted \subseteq faulted' /\ At(ss) \subseteq faulted'
  BY <1>1, FaultsStay
<1>3. ASSUME NEW v \in Uploads, v \in At(ss)
      PROVE  /\ up[v].stage \in ss /\ up'[v].stage = "dropped"
             /\ up'[v].on_disk = up[v].on_disk
             /\ Rest(up'[v], up[v]) /\ UploadFields(up'[v])
  <2>1. up[v].stage \in ss /\ up'[v] = Gone(up[v], up[v].on_disk) /\ UploadFields(up[v])
    BY <1>1, <1>3 DEF At, UploadTypes
  <2>2. up[v].stage # "none"
    BY <2>1 DEF Starting
  <2> QED
    BY <2>1, <2>2, GoneFields
<1>4. \A v \in Uploads : v \notin At(ss) => up'[v] = up[v] /\ up[v].stage \notin ss
  BY <1>1 DEF At
<1>5. DOMAIN up' = Uploads /\ up' = [v \in Uploads |-> up'[v]]
  BY <1>1
<1>6. "dropped" \notin Starting /\ Starting \subseteq ss
  BY DEF Starting
<1> HIDE DEF ss
<1>7. \A v \in Uploads : up'[v].stage \notin Starting
  BY <1>3, <1>4, <1>6
<1>8. SweptAway(ss)
  BY <1>2, <1>3, <1>4, <1>5 DEF SweptAway
<1> QED
  BY <1>1, <1>7, <1>8 DEF ss

----------------------------------------------------------------------------
(* Messages of uploads: each is on its way once, in the stage that fits it.   *)

Once(s)     == \A i, j \in DOMAIN s : s[i] = s[j] => i = j
Elements(s) == {s[i] : i \in DOMAIN s}

LEMMA OnceAppended ==
  ASSUME NEW T, NEW s \in Seq(T), NEW m \in T
  PROVE  /\ Elements(Append(s, m)) = Elements(s) \cup {m}
         /\ Once(s) /\ m \notin Elements(s) => Once(Append(s, m))
<1> DEFINE a == Append(s, m)
           n == Len(s)
<1>1. /\ n \in Nat /\ DOMAIN s = 1..n /\ DOMAIN a = 1..(n + 1)
      /\ \A i \in 1..n : a[i] = s[i]
      /\ a[n + 1] = m
  BY AppendElements
<1> HIDE DEF a, n
<1>2. Elements(a) = Elements(s) \cup {m}
  <2>1. \A i \in 1..n : i \in 1..(n + 1)
    BY <1>1
  <2>2. n + 1 \in 1..(n + 1) /\ \A i \in 1..(n + 1) : i = n + 1 \/ i \in 1..n
    BY <1>1
  <2> QED
    BY <1>1, <2>1, <2>2 DEF Elements
<1>3. Once(s) /\ m \notin Elements(s) => Once(a)
  <2>1. \A i \in 1..(n + 1) : i = n + 1 \/ i \in 1..n
    BY <1>1
  <2> QED
    BY <1>1, <2>1 DEF Elements, Once
<1> QED
  BY <1>2, <1>3 DEF a

LEMMA OnceTail ==
  ASSUME NEW T, NEW s \in Seq(T), s # <<>>, Once(s)
  PROVE  /\ Head(s) \in Elements(s) /\ Head(s) \in T
         /\ Elements(Tail(s)) = Elements(s) \ {Head(s)}
         /\ Once(Tail(s))
<1> DEFINE t == Tail(s)
           n == Len(s)
<1>1. /\ n \in Nat \ {0} /\ DOMAIN s = 1..n /\ DOMAIN t = 1..(n - 1)
      /\ \A i \in 1..(n - 1) : i + 1 \in 1..n /\ t[i] = s[i + 1]
      /\ Head(s) = s[1] /\ Head(s) \in T
  BY TailElements
<1> HIDE DEF t, n
<1>2. 1 \in 1..n
  BY <1>1
<1>3. \A i \in 1..n : i = 1 \/ (i - 1 \in 1..(n - 1) /\ t[i - 1] = s[i])
  <2> SUFFICES ASSUME NEW i \in 1..n, i # 1 PROVE i - 1 \in 1..(n - 1) /\ t[i - 1] = s[i]
    OBVIOUS
  <2>1. i - 1 \in 1..(n - 1) /\ (i - 1) + 1 = i
    BY <1>1
  <2>2. t[i - 1] = s[(i - 1) + 1]
    BY <1>1, <2>1
  <2> QED
    BY <2>1, <2>2
<1>4. Once(t)
  <2> SUFFICES ASSUME NEW i \in 1..(n - 1), NEW j \in 1..(n - 1), t[i] = t[j] PROVE i = j
    BY <1>1 DEF Once
  <2>1. i + 1 = j + 1
    BY <1>1 DEF Once
  <2> QED
    BY <2>1
<1>5. Elements(t) \subseteq Elements(s) \ {Head(s)}
  <2> SUFFICES ASSUME NEW i \in 1..(n - 1) PROVE t[i] \in Elements(s) /\ t[i] # Head(s)
    BY <1>1 DEF Elements
  <2>1. i + 1 \in 1..n /\ t[i] = s[i + 1] /\ i + 1 # 1
    BY <1>1
  <2> QED
    BY <1>1, <1>2, <2>1 DEF Elements, Once
<1>6. Elements(s) \ {Head(s)} \subseteq Elements(t)
  <2> SUFFICES ASSUME NEW i \in 1..n, s[i] # Head(s) PROVE s[i] \in Elements(t)
    BY <1>1 DEF Elements
  <2>1. i - 1 \in 1..(n - 1) /\ t[i - 1] = s[i]
    BY <1>1, <1>3
  <2> QED
    BY <1>1, <2>1 DEF Elements
<1> QED
  BY <1>1, <1>2, <1>4, <1>5, <1>6 DEF Elements, t

(* Of which uploads the acknowledgements on the way to a client are. *)
UploadsOf(s) == [i \in DOMAIN s |-> s[i].upload]

LEMMA UploadsOfAppend ==
  ASSUME NEW s \in Seq(Acknowledgement), NEW m \in Acknowledgement
  PROVE  /\ UploadsOf(s) \in Seq(Uploads)
         /\ UploadsOf(Append(s, m)) = Append(UploadsOf(s), m.upload)
<1>1. \A i \in 1..Len(s) : s[i] \in Acknowledgement
  BY ElementOfSeq
<1>2. \A i \in 1..Len(s) : s[i].upload \in Uploads
  BY <1>1 DEF Acknowledgement
<1>3. Len(s) \in Nat /\ DOMAIN s = 1..Len(s)
  OBVIOUS
<1>4. UploadsOf(s) \in Seq(Uploads) /\ Len(UploadsOf(s)) = Len(s)
  BY <1>2, <1>3 DEF UploadsOf
<1>5. UploadsOf(Append(s, m)) = Append(UploadsOf(s), m.upload)
  <2> DEFINE a == Append(s, m)
  <2>1. DOMAIN a = 1..(Len(s) + 1) /\ a[Len(s) + 1] = m /\ \A i \in 1..Len(s) : a[i] = s[i]
    BY AppendElements
  <2>2. m.upload \in Uploads
    BY DEF Acknowledgement
  <2>3. Append(UploadsOf(s), m.upload) =
          [i \in 1..(Len(s) + 1) |-> IF i = Len(s) + 1 THEN m.upload ELSE UploadsOf(s)[i]]
    BY <1>4, <2>2
  <2> HIDE DEF a
  <2>4. \A i \in 1..(Len(s) + 1) : i # Len(s) + 1 => i \in 1..Len(s)
    BY <1>3
  <2>5. UploadsOf(a) = [i \in 1..(Len(s) + 1) |-> a[i].upload]
    BY <2>1 DEF UploadsOf
  <2>6. \A i \in 1..(Len(s) + 1) :
          a[i].upload = IF i = Len(s) + 1 THEN m.upload ELSE UploadsOf(s)[i]
    BY <1>3, <2>1, <2>4 DEF UploadsOf
  <2>7. UploadsOf(a) = Append(UploadsOf(s), m.upload)
    BY <2>3, <2>5, <2>6
  <2> QED
    BY <2>7 DEF a
<1> QED
  BY <1>4, <1>5

LEMMA UploadsOfTail ==
  ASSUME NEW s \in Seq(Acknowledgement), s # <<>>
  PROVE  /\ UploadsOf(Tail(s)) = Tail(UploadsOf(s)) /\ Head(s).upload = Head(UploadsOf(s))
         /\ UploadsOf(s) # <<>> /\ UploadsOf(s) \in Seq(Uploads)
         /\ Head(s) \in Acknowledgement
<1>1. \A i \in 1..Len(s) : s[i] \in Acknowledgement
  BY ElementOfSeq
<1>2. \A i \in 1..Len(s) : s[i].upload \in Uploads
  BY <1>1 DEF Acknowledgement
<1>3. Len(s) \in Nat \ {0} /\ DOMAIN s = 1..Len(s) /\ Head(s) = s[1]
  BY TailElements
<1>4. UploadsOf(s) \in Seq(Uploads) /\ Len(UploadsOf(s)) = Len(s)
  BY <1>2, <1>3 DEF UploadsOf
<1>5. UploadsOf(s) # <<>> /\ Head(UploadsOf(s)) = UploadsOf(s)[1] /\ 1 \in 1..Len(s)
  BY <1>3, <1>4
<1>6. UploadsOf(Tail(s)) = Tail(UploadsOf(s))
  <2> DEFINE t == Tail(s)
             n == Len(s) - 1
  <2>1. DOMAIN t = 1..n /\ \A i \in 1..n : t[i] = s[i + 1] /\ i + 1 \in 1..Len(s)
    BY TailElements
  <2>2. Tail(UploadsOf(s)) = [i \in 1..n |-> UploadsOf(s)[i + 1]]
    <3> DEFINE q == UploadsOf(s)
    <3>1. q \in Seq(Uploads) /\ q # <<>> /\ Len(q) - 1 = n
      BY <1>4, <1>5
    <3> HIDE DEF q
    <3>2. /\ Tail(q) \in Seq(Uploads) /\ Len(Tail(q)) = n
          /\ \A i \in 1..n : Tail(q)[i] = q[i + 1]
      BY <3>1, TailElements
    <3>3. Tail(q) \in [1..n -> Uploads]
      BY <3>2, LenProperties
    <3>4. Tail(q) = [i \in 1..n |-> Tail(q)[i]]
      BY <3>3
    <3> QED
      BY <3>2, <3>4 DEF q
  <2> HIDE DEF t, n
  <2>3. UploadsOf(t) = [i \in 1..n |-> t[i].upload]
    BY <2>1 DEF UploadsOf
  <2>4. \A i \in 1..n : t[i].upload = UploadsOf(s)[i + 1]
    BY <1>3, <2>1 DEF UploadsOf
  <2>5. UploadsOf(t) = Tail(UploadsOf(s))
    BY <2>2, <2>3, <2>4
  <2> QED
    BY <2>5 DEF t
<1> QED
  BY <1>1, <1>3, <1>4, <1>5, <1>6 DEF UploadsOf

AckedAt(c)    == Elements(UploadsOf(acks[c]))
StartingAt(c) == {u \in At(Starting) : up[u].conn = c}

LineInv ==
  \A c \in Clients :
    /\ Once(asks[c]) /\ Once(UploadsOf(acks[c]))
    /\ \A u \in Elements(asks[c]) : up[u].stage = "sent" /\ up[u].conn = c
    /\ \A u \in AckedAt(c) : up[u].stage \in Answered /\ up[u].conn = c

(* The file that waits at a client is that of the one upload that waits for its
   acknowledgement, unless two do; then both are crossed. *)
WaitsAlone(c) ==
  /\ \A u \in Awaiting(c) \ crossed : slot[c] = u
  /\ \A u, v \in Awaiting(c) : u # v => u \in crossed

AwaitInv == \A c \in Clients : WaitsAlone(c)

LEMMA AwaitingIs ==
  ASSUME NEW c \in Clients
  PROVE  Awaiting(c) = Elements(asks[c]) \cup StartingAt(c) \cup AckedAt(c)
BY DEF Awaiting, Elements, AckedAt, StartingAt, UploadsOf

LEMMA AwaitingIsNext ==
  ASSUME NEW c \in Clients
  PROVE  Awaiting(c)' = Elements(asks'[c]) \cup StartingAt(c)' \cup AckedAt(c)'
BY DEF Awaiting, Elements, AckedAt, StartingAt, UploadsOf

LEMMA FewerWait ==
  ASSUME NEW c \in Clients, WaitsAlone(c), Awaiting(c)' \subseteq Awaiting(c),
         slot'[c] = slot[c], crossed \subseteq crossed'
  PROVE  WaitsAlone(c)'
BY DEF WaitsAlone

LEMMA LineInit == UpInit => LineInv /\ AwaitInv
<1> SUFFICES ASSUME UpInit, NEW c \in Clients
             PROVE  /\ Once(asks[c]) /\ Once(UploadsOf(acks[c]))
                    /\ Elements(asks[c]) = {} /\ AckedAt(c) = {} /\ Awaiting(c) = {}
  BY DEF LineInv, AwaitInv, WaitsAlone
<1>1. asks[c] = <<>> /\ acks[c] = <<>> /\ At(Starting) = {}
  BY DEF UpInit, At, Starting
<1>2. DOMAIN asks[c] = {} /\ DOMAIN UploadsOf(acks[c]) = {}
  BY <1>1 DEF UploadsOf
<1>3. Elements(asks[c]) = {} /\ AckedAt(c) = {} /\ StartingAt(c) = {}
  BY <1>1, <1>2 DEF Elements, AckedAt, StartingAt
<1> QED
  BY <1>2, <1>3, AwaitingIs DEF Once

LEMMA LineOfUploads ==
  ASSUME UploadTypes, NEW c \in Clients
  PROVE  Elements(asks[c]) \subseteq Uploads /\ AckedAt(c) \subseteq Uploads
<1>1. \A i \in 1..Len(asks[c]) : asks[c][i] \in Uploads
  BY ElementOfSeq DEF UploadTypes
<1>2. \A i \in 1..Len(acks[c]) : acks[c][i] \in Acknowledgement
  BY ElementOfSeq DEF UploadTypes
<1>3. \A i \in 1..Len(acks[c]) : acks[c][i].upload \in Uploads
  BY <1>2 DEF Acknowledgement
<1>4. DOMAIN asks[c] = 1..Len(asks[c]) /\ DOMAIN acks[c] = 1..Len(acks[c])
  BY DEF UploadTypes
<1> QED
  BY <1>1, <1>3, <1>4 DEF Elements, AckedAt, UploadsOf

(* A step that adds no message and lets no upload begin. *)
LEMMA LineShrinks ==
  ASSUME LineInv, AwaitInv, UNCHANGED <<slot, crossed>>,
         \A u \in Uploads : /\ up'[u].stage \in Starting => up[u].stage \in Starting
                            /\ up'[u].conn = up[u].conn \/ up[u].stage = "none",
         \A u \in Uploads : up[u].stage = "sent" => up'[u].stage = "sent",
         \A u \in Uploads : up[u].stage \in Answered => up'[u].stage \in Answered,
         \A c \in Clients : /\ asks'[c] = asks[c] \/ asks'[c] = <<>>
                            /\ acks'[c] = acks[c] \/ acks'[c] = <<>>,
         UploadTypes
  PROVE  LineInv' /\ AwaitInv'
<1>1. SUFFICES ASSUME NEW c \in Clients
               PROVE  /\ Once(asks[c])' /\ Once(UploadsOf(acks[c]))'
                      /\ \A u \in Elements(asks'[c]) : up'[u].stage = "sent" /\ up'[u].conn = c
                      /\ \A u \in AckedAt(c)' : up'[u].stage \in Answered /\ up'[u].conn = c
                      /\ WaitsAlone(c)'
  BY DEF LineInv, AwaitInv
<1>2. Elements(<<>>) = {} /\ UploadsOf(<<>>) = <<>> /\ Once(<<>>)
  <2>1. DOMAIN <<>> = {}
    OBVIOUS
  <2>2. UploadsOf(<<>>) = <<>>
    BY <2>1 DEF UploadsOf
  <2> QED
    BY <2>1, <2>2 DEF Elements, Once
<1>3. Elements(asks'[c]) \subseteq Elements(asks[c]) /\ Once(asks'[c])
  BY <1>2 DEF LineInv
<1>4. AckedAt(c)' \subseteq AckedAt(c) /\ Once(UploadsOf(acks'[c]))
  BY <1>2 DEF LineInv, AckedAt
<1>5. Elements(asks[c]) \subseteq Uploads /\ AckedAt(c) \subseteq Uploads
  BY LineOfUploads
<1>6. "none" \notin Answered /\ "none" \notin Starting
  BY DEF Answered, Registered, Starting
<1>7. \A u \in Elements(asks'[c]) : up'[u].stage = "sent" /\ up'[u].conn = c
  BY <1>3, <1>5 DEF LineInv
<1>8. \A u \in AckedAt(c)' : up'[u].stage \in Answered /\ up'[u].conn = c
  BY <1>4, <1>5, <1>6 DEF LineInv
<1>9. StartingAt(c)' \subseteq StartingAt(c)
  BY <1>6 DEF StartingAt, At
<1>10. Awaiting(c)' \subseteq Awaiting(c)
  BY <1>3, <1>4, <1>9, AwaitingIs, AwaitingIsNext
<1>11. WaitsAlone(c)'
  BY <1>10, FewerWait DEF AwaitInv
<1> QED
  BY <1>3, <1>4, <1>7, <1>8, <1>11

(* start_upload answers. *)
LEMMA LineAnswered ==
  ASSUME UploadTypes, LineInv, AwaitInv, UNCHANGED <<slot, crossed>>,
         NEW u \in Uploads, NEW st, NEW n, MovedOn(u, st, n),
         st \in Answered, up[u].stage \in Starting, UNCHANGED asks,
         NEW ok \in BOOLEAN, Ack(u, ok)
  PROVE  LineInv' /\ AwaitInv'
<1>0. PICK d \in Clients : d = up[u].conn
  BY DEF UploadTypes, UploadFields, Starting
<1> DEFINE m == [upload |-> u, success |-> ok]
<1>1. /\ m \in Acknowledgement /\ m.upload = u
      /\ \A v \in Uploads : up'[v].conn = up[v].conn
      /\ up'[u].stage = st /\ \A v \in Uploads \ {u} : up'[v] = up[v]
  BY DEF UploadTypes, UploadFields, MovedOn, Rest, Acknowledgement, Starting
<1>2. /\ "sent" \notin Starting /\ Starting \cap Answered = {} /\ "none" \notin Answered
      /\ st \notin Starting /\ st # "sent"
  BY DEF Answered, Registered, Starting
<1>3. /\ acks'[d] = Append(acks[d], m)
      /\ \A c \in Clients \ {d} : acks'[c] = acks[c]
  BY <1>0 DEF Ack, UploadTypes
<1> HIDE DEF m
<1>4. u \notin AckedAt(d)
  BY <1>1, <1>2 DEF LineInv
<1>5. /\ AckedAt(d)' = AckedAt(d) \cup {u} /\ Once(UploadsOf(acks'[d]))
      /\ \A c \in Clients \ {d} : AckedAt(c)' = AckedAt(c)
  <2>1. acks[d] \in Seq(Acknowledgement)
    BY <1>1 DEF UploadTypes
  <2>2. UploadsOf(acks[d]) \in Seq(Uploads) /\ UploadsOf(acks'[d]) = Append(UploadsOf(acks[d]), u)
    BY <1>1, <1>3, <2>1, UploadsOfAppend
  <2>3. Once(UploadsOf(acks[d]))
    BY <1>1 DEF LineInv
  <2> QED
    BY <1>3, <1>4, <2>2, <2>3, OnceAppended DEF AckedAt
<1>6. \A c \in Clients : StartingAt(c)' \subseteq StartingAt(c) \ {u}
  BY <1>1, <1>2 DEF StartingAt, At
<1>7. u \in StartingAt(d)
  BY <1>0 DEF StartingAt, At
<1>8. LineInv'
  <2> SUFFICES ASSUME NEW c \in Clients
               PROVE  /\ Once(asks'[c]) /\ Once(UploadsOf(acks'[c]))
                      /\ \A v \in Elements(asks'[c]) : up'[v].stage = "sent" /\ up'[v].conn = c
                      /\ \A v \in AckedAt(c)' : up'[v].stage \in Answered /\ up'[v].conn = c
    BY DEF LineInv
  <2>1. Once(asks'[c]) /\ Once(UploadsOf(acks'[c]))
    BY <1>3, <1>5 DEF LineInv
  <2>2. Elements(asks[c]) \subseteq Uploads /\ AckedAt(c) \subseteq Uploads
    BY LineOfUploads
  <2>3. \A v \in Elements(asks'[c]) : up'[v].stage = "sent" /\ up'[v].conn = c
    BY <1>1, <1>2, <2>2 DEF LineInv
  <2>4. \A v \in AckedAt(c) : up'[v].stage \in Answered /\ up'[v].conn = c
    BY <1>1, <2>2 DEF LineInv
  <2>5. CASE c = d
    BY <1>0, <1>1, <1>5, <2>1, <2>3, <2>4, <2>5
  <2>6. CASE c # d
    BY <1>5, <2>1, <2>3, <2>4, <2>6
  <2> QED
    BY <2>5, <2>6
<1>9. AwaitInv'
  <2> SUFFICES ASSUME NEW c \in Clients PROVE WaitsAlone(c)'
    BY DEF AwaitInv
  <2>1. AckedAt(c)' \subseteq AckedAt(c) \cup StartingAt(c)
    BY <1>5, <1>7
  <2>2. Elements(asks'[c]) = Elements(asks[c]) /\ StartingAt(c)' \subseteq StartingAt(c)
    BY <1>6
  <2>3. Awaiting(c)' \subseteq Awaiting(c)
    BY <2>1, <2>2, AwaitingIs, AwaitingIsNext
  <2> QED
    BY <2>3, FewerWait DEF AwaitInv
<1> QED
  BY <1>8, <1>9

(* file_upload_start takes up the first message of c. *)
TakenUp(c, u) ==
  /\ asks[c] # <<>> /\ u = Head(asks[c])
  /\ up[u].stage = "sent" /\ up[u].conn = c
  /\ asks' = [asks EXCEPT ![c] = Tail(@)]
  /\ \/ MovedOn(u, "asked", up[u].on_disk) /\ acks' = acks
     \/ MovedOn(u, "refused", up[u].on_disk) /\ Ack(u, FALSE)
  /\ UNCHANGED <<slot, crossed, faulted>>

LEMMA TakenUpEffect ==
  ASSUME UploadTypes, LineInv, NEW c \in Clients, FileUploadStart(c)
  PROVE  \E u \in Uploads : TakenUp(c, u)
<1> DEFINE u == Head(asks[c])
<1>1. /\ asks[c] # <<>> /\ asks' = [asks EXCEPT ![c] = Tail(@)]
      /\ \/ Put(u, [up[u] EXCEPT !.stage = "asked"]) /\ acks' = acks
         \/ Put(u, [up[u] EXCEPT !.stage = "refused"]) /\ Ack(u, FALSE)
      /\ UNCHANGED <<slot, crossed, faulted>>
  BY DEF FileUploadStart, NoFault
<1>2. u \in Elements(asks[c]) /\ u \in Uploads
  BY <1>1, OnceTail DEF UploadTypes, LineInv
<1> HIDE DEF u
<1>3. up[u].stage = "sent" /\ up[u].conn = c
  BY <1>2 DEF LineInv
<1>4. "asked" \in UploadStages /\ "refused" \in UploadStages
  BY DEF UploadStages, Starting
<1>5. /\ Put(u, [up[u] EXCEPT !.stage = "asked"]) => MovedOn(u, "asked", up[u].on_disk)
      /\ Put(u, [up[u] EXCEPT !.stage = "refused"]) => MovedOn(u, "refused", up[u].on_disk)
  BY <1>2, <1>3, <1>4, UploadMovesOn
<1>6. \/ MovedOn(u, "asked", up[u].on_disk) /\ acks' = acks
      \/ MovedOn(u, "refused", up[u].on_disk) /\ Ack(u, FALSE)
  BY <1>1, <1>5
<1>7. u = Head(asks[c])
  BY DEF u
<1> QED
  BY <1>1, <1>2, <1>3, <1>6, <1>7 DEF TakenUp

LEMMA LineTakenUp ==
  ASSUME UploadTypes, LineInv, AwaitInv, NEW c \in Clients, NEW u \in Uploads, TakenUp(c, u)
  PROVE  LineInv' /\ AwaitInv'
<1>1. /\ asks[c] # <<>> /\ u = Head(asks[c]) /\ up[u].stage = "sent" /\ up[u].conn = c
      /\ asks'[c] = Tail(asks[c]) /\ \A b \in Clients \ {c} : asks'[b] = asks[b]
      /\ UNCHANGED <<slot, crossed>>
  BY DEF TakenUp, UploadTypes
<1>2. /\ u \in Elements(asks[c]) /\ Once(asks'[c])
      /\ Elements(asks'[c]) = Elements(asks[c]) \ {u}
  BY <1>1, OnceTail DEF UploadTypes, LineInv
<1>3. /\ "sent" \notin Answered /\ "asked" \notin Answered /\ "refused" \in Answered
      /\ "refused" \notin Starting /\ "asked" \in Starting /\ "sent" \notin Starting
      /\ Starting \cap Answered = {}
  BY DEF Answered, Registered, Starting
<1>4. u \notin AckedAt(c)
  BY <1>1, <1>3 DEF LineInv
<1>5. /\ \A v \in Uploads : up'[v].conn = up[v].conn
      /\ \A v \in Uploads \ {u} : up'[v] = up[v]
      /\ up'[u].stage \in {"asked", "refused"}
  BY DEF TakenUp, MovedOn, Rest
<1>6. \A b \in Clients \ {c} : u \notin Elements(asks[b]) /\ u \notin AckedAt(b)
  BY <1>1, <1>3 DEF LineInv
<1>7. \A b \in Clients : Elements(asks[b]) \subseteq Uploads /\ AckedAt(b) \subseteq Uploads
  BY LineOfUploads
<1>8. CASE acks' = acks /\ up'[u].stage = "asked"
  <2>1. LineInv'
    <3> SUFFICES ASSUME NEW b \in Clients
                 PROVE  /\ Once(asks'[b]) /\ Once(UploadsOf(acks'[b]))
                        /\ \A v \in Elements(asks'[b]) : up'[v].stage = "sent" /\ up'[v].conn = b
                        /\ \A v \in AckedAt(b)' : up'[v].stage \in Answered /\ up'[v].conn = b
      BY DEF LineInv
    <3>1. AckedAt(b)' = AckedAt(b) /\ UploadsOf(acks'[b]) = UploadsOf(acks[b])
      BY <1>8 DEF AckedAt
    <3>2. u \notin Elements(asks'[b]) /\ Elements(asks'[b]) \subseteq Elements(asks[b])
      BY <1>1, <1>2, <1>6
    <3>3. Once(asks'[b])
      BY <1>1, <1>2 DEF LineInv
    <3> QED
      BY <1>4, <1>5, <1>6, <1>7, <3>1, <3>2, <3>3 DEF LineInv
  <2>2. ASSUME NEW b \in Clients PROVE WaitsAlone(b)'
    <3>1. AckedAt(b)' = AckedAt(b)
      BY <1>8 DEF AckedAt
    <3>2. StartingAt(b)' \subseteq StartingAt(b) \cup (IF b = c THEN {u} ELSE {})
      BY <1>1, <1>5 DEF StartingAt, At
    <3>3. Elements(asks'[b]) \cup (IF b = c THEN {u} ELSE {}) \subseteq Elements(asks[b])
      BY <1>1, <1>2
    <3>4. Awaiting(b)' \subseteq Awaiting(b)
      BY <3>1, <3>2, <3>3, AwaitingIs, AwaitingIsNext
    <3> QED
      BY <1>1, <3>4, FewerWait DEF AwaitInv
  <2> QED
    BY <2>1, <2>2 DEF AwaitInv
<1>9. CASE Ack(u, FALSE) /\ up'[u].stage = "refused"
  <2> DEFINE m == [upload |-> u, success |-> FALSE]
  <2>1. m \in Acknowledgement /\ m.upload = u
    BY DEF Acknowledgement
  <2>2. acks'[c] = Append(acks[c], m) /\ \A b \in Clients \ {c} : acks'[b] = acks[b]
    BY <1>1, <1>9 DEF Ack, UploadTypes
  <2> HIDE DEF m
  <2>3. UploadsOf(acks[c]) \in Seq(Uploads) /\ UploadsOf(acks'[c]) = Append(UploadsOf(acks[c]), u)
    BY <2>1, <2>2, UploadsOfAppend DEF UploadTypes
  <2>4. AckedAt(c)' = AckedAt(c) \cup {u} /\ Once(UploadsOf(acks'[c]))
    BY <1>4, <2>3, OnceAppended DEF AckedAt, LineInv
  <2>5. \A b \in Clients \ {c} : AckedAt(b)' = AckedAt(b)
    BY <2>2 DEF AckedAt
  <2>6. LineInv'
    <3> SUFFICES ASSUME NEW b \in Clients
                 PROVE  /\ Once(asks'[b]) /\ Once(UploadsOf(acks'[b]))
                        /\ \A v \in Elements(asks'[b]) : up'[v].stage = "sent" /\ up'[v].conn = b
                        /\ \A v \in AckedAt(b)' : up'[v].stage \in Answered /\ up'[v].conn = b
      BY DEF LineInv
    <3>1. u \notin Elements(asks'[b]) /\ Elements(asks'[b]) \subseteq Elements(asks[b])
      BY <1>1, <1>2, <1>6
    <3>2. Once(asks'[b])
      BY <1>1, <1>2 DEF LineInv
    <3>3. Once(UploadsOf(acks'[b]))
      BY <2>2, <2>4 DEF LineInv
    <3>4. \A v \in Elements(asks'[b]) : up'[v].stage = "sent" /\ up'[v].conn = b
      BY <1>5, <1>7, <3>1 DEF LineInv
    <3>5. \A v \in AckedAt(b) : up'[v].stage \in Answered /\ up'[v].conn = b
      BY <1>4, <1>5, <1>6, <1>7 DEF LineInv
    <3>6. CASE b = c
      BY <1>1, <1>3, <1>5, <1>9, <2>4, <3>2, <3>3, <3>4, <3>5, <3>6
    <3>7. CASE b # c
      BY <2>5, <3>2, <3>3, <3>4, <3>5, <3>7
    <3> QED
      BY <3>6, <3>7
  <2>7. ASSUME NEW b \in Clients PROVE WaitsAlone(b)'
    <3>1. AckedAt(b)' \subseteq AckedAt(b) \cup (IF b = c THEN {u} ELSE {})
      BY <2>4, <2>5
    <3>2. StartingAt(b)' \subseteq StartingAt(b)
      BY <1>3, <1>5, <1>9 DEF StartingAt, At
    <3>3. Elements(asks'[b]) \cup (IF b = c THEN {u} ELSE {}) \subseteq Elements(asks[b])
      BY <1>1, <1>2
    <3>4. Awaiting(b)' \subseteq Awaiting(b)
      BY <3>1, <3>2, <3>3, AwaitingIs, AwaitingIsNext
    <3> QED
      BY <1>1, <3>4, FewerWait DEF AwaitInv
  <2> QED
    BY <2>6, <2>7 DEF AwaitInv
<1> QED
  BY <1>8, <1>9 DEF TakenUp, MovedOn

(* What a client does leaves stage and connection of every other upload alone. *)
Untouched(u) ==
  /\ DOMAIN up' = Uploads /\ up' = [v \in Uploads |-> up'[v]]
  /\ UploadFields(up'[u])
  /\ \A v \in Uploads \ {u} : up'[v] = up[v]

LEMMA UploadFileEffect ==
  ASSUME UploadTypes, NEW c \in Clients, NEW u \in Uploads, NEW r \in Rooms, NEW n \in Nat,
         UploadFile(c, u, r, n)
  PROVE  /\ up[u].stage = "none" /\ up'[u].stage = "sent" /\ up'[u].conn = c
         /\ up'[u].data = up[u].data /\ up'[u].on_disk = up[u].on_disk
         /\ up'[u].sent = up[u].sent /\ up'[u].bytes_written = up[u].bytes_written
         /\ Untouched(u) /\ faulted' = faulted /\ acks' = acks
         /\ crossed \subseteq crossed'
<1>1. /\ up[u].stage = "none" /\ faulted' = faulted /\ acks' = acks
      /\ crossed \subseteq crossed'
      /\ Put(u, [up[u] EXCEPT !.stage = "sent", !.conn = c, !.room = r, !.size = n])
  BY DEF UploadFile, NoFault
<1>2. UploadFields(up[u]) /\ "sent" \in UploadStages
  BY DEF UploadTypes, UploadStages
<1>3. up'[u] = [up[u] EXCEPT !.stage = "sent", !.conn = c, !.room = r, !.size = n]
  BY <1>1, PutFields
<1>4. /\ up'[u].stage = "sent" /\ up'[u].conn = c /\ up'[u].data = up[u].data
      /\ up'[u].on_disk = up[u].on_disk /\ up'[u].sent = up[u].sent
      /\ up'[u].bytes_written = up[u].bytes_written /\ UploadFields(up'[u])
  BY <1>2, <1>3 DEF UploadFields
<1> QED
  BY <1>1, <1>4, PutFields DEF Untouched

LEMMA LineOfUploadFile ==
  ASSUME UploadTypes, LineInv, AwaitInv, NEW c \in Clients, NEW u \in Uploads, NEW r \in Rooms,
         NEW n \in Nat, UploadFile(c, u, r, n)
  PROVE  LineInv' /\ AwaitInv'
<1>1. /\ up[u].stage = "none" /\ up'[u].stage = "sent" /\ up'[u].conn = c
      /\ acks' = acks /\ \A v \in Uploads \ {u} : up'[v] = up[v]
  BY UploadFileEffect DEF Untouched
<1>2. /\ asks'[c] = Append(asks[c], u) /\ \A b \in Clients \ {c} : asks'[b] = asks[b]
      /\ slot'[c] = u /\ \A b \in Clients \ {c} : slot'[b] = slot[b]
      /\ crossed' = IF Awaiting(c) = {} THEN crossed ELSE crossed \cup {u} \cup Awaiting(c)
  BY DEF UploadFile, UploadTypes
<1>3. /\ "none" \notin Answered /\ "none" \notin Starting /\ "sent" \notin Starting
  BY DEF Answered, Registered, Starting
<1>4. \A b \in Clients : u \notin Elements(asks[b]) /\ u \notin AckedAt(b)
  BY <1>1, <1>3 DEF LineInv
<1>5. \A b \in Clients : Elements(asks[b]) \subseteq Uploads /\ AckedAt(b) \subseteq Uploads
  BY LineOfUploads
<1>6. Elements(asks'[c]) = Elements(asks[c]) \cup {u} /\ Once(asks'[c])
  BY <1>2, <1>4, OnceAppended DEF UploadTypes, LineInv
<1>7. \A b \in Clients : AckedAt(b)' = AckedAt(b) /\ StartingAt(b)' = StartingAt(b)
  BY <1>1, <1>3 DEF AckedAt, StartingAt, At
<1>8. LineInv'
  <2> SUFFICES ASSUME NEW b \in Clients
               PROVE  /\ Once(asks'[b]) /\ Once(UploadsOf(acks'[b]))
                      /\ \A v \in Elements(asks'[b]) : up'[v].stage = "sent" /\ up'[v].conn = b
                      /\ \A v \in AckedAt(b)' : up'[v].stage \in Answered /\ up'[v].conn = b
    BY DEF LineInv
  <2>1. Once(asks'[b])
    BY <1>2, <1>6 DEF LineInv
  <2>2. Once(UploadsOf(acks'[b]))
    BY <1>1 DEF LineInv
  <2>3. \A v \in Elements(asks[b]) : up'[v].stage = "sent" /\ up'[v].conn = b
    BY <1>1, <1>4, <1>5 DEF LineInv
  <2>4. \A v \in AckedAt(b)' : up'[v].stage \in Answered /\ up'[v].conn = b
    BY <1>1, <1>4, <1>5, <1>7 DEF LineInv
  <2>5. Elements(asks'[b]) \subseteq Elements(asks[b]) \cup {u}
    BY <1>2, <1>6
  <2>6. b # c => Elements(asks'[b]) = Elements(asks[b])
    BY <1>2
  <2>7. \A v \in Elements(asks'[b]) : up'[v].stage = "sent" /\ up'[v].conn = b
    BY <1>1, <2>3, <2>5, <2>6
  <2> QED
    BY <2>1, <2>2, <2>4, <2>7
<1>9. Awaiting(c)' = Awaiting(c) \cup {u}
  BY <1>6, <1>7, AwaitingIs, AwaitingIsNext
<1>10. WaitsAlone(c)'
  <2>1. CASE Awaiting(c) = {}
    BY <1>2, <1>9, <2>1 DEF WaitsAlone
  <2>2. CASE Awaiting(c) # {}
    BY <1>2, <1>9, <2>2 DEF WaitsAlone
  <2> QED
    BY <2>1, <2>2
<1>11. ASSUME NEW b \in Clients \ {c} PROVE WaitsAlone(b)'
  <2>1. Awaiting(b)' = Awaiting(b)
    BY <1>2, <1>7, AwaitingIs, AwaitingIsNext
  <2> QED
    BY <1>2, <2>1, FewerWait DEF AwaitInv
<1> QED
  BY <1>8, <1>10, <1>11 DEF AwaitInv

(* The acknowledgement of u is handled at c. *)
LEMMA HandleAckEffect ==
  ASSUME UploadTypes, LineInv, AwaitInv, NEW c \in Clients, HandleAck(c)
  PROVE  \E u \in Uploads :
           /\ acks[c] # <<>> /\ u = Head(UploadsOf(acks[c])) /\ u \in AckedAt(c)
           /\ acks' = [acks EXCEPT ![c] = Tail(@)] /\ slot' = [slot EXCEPT ![c] = Nobody]
           /\ UNCHANGED <<asks, crossed, faulted>>
           /\ up[u].stage \in Answered
           /\ u \notin crossed => slot[c] = u
           /\ \/ up' = up
              \/ /\ up'[u].stage = up[u].stage /\ up'[u].on_disk = up[u].on_disk
                 /\ up'[u].conn = up[u].conn /\ up'[u].size = up[u].size
                 /\ up'[u].data = slot[c] /\ up'[u].sent = up[u].sent
                 /\ up'[u].bytes_written = up[u].bytes_written
                 /\ Untouched(u)
<1> DEFINE u == Head(acks[c]).upload
<1>1. /\ acks[c] # <<>> /\ acks' = [acks EXCEPT ![c] = Tail(@)]
      /\ slot' = [slot EXCEPT ![c] = Nobody] /\ UNCHANGED <<asks, crossed, faulted>>
      /\ up' = up \/ up' = [up EXCEPT ![u].data = slot[c]]
  BY DEF HandleAck, NoFault
<1>2. /\ u = Head(UploadsOf(acks[c])) /\ UploadsOf(acks[c]) # <<>>
      /\ UploadsOf(acks[c]) \in Seq(Uploads)
  BY <1>1, UploadsOfTail DEF UploadTypes
<1> HIDE DEF u
<1>3. u \in AckedAt(c) /\ u \in Uploads
  BY <1>2, OnceTail DEF LineInv, AckedAt
<1>4. up[u].stage \in Answered
  BY <1>3 DEF LineInv
<1>5. u \notin crossed => slot[c] = u
  <2>1. u \in Awaiting(c)
    BY <1>3, AwaitingIs
  <2> QED
    BY <2>1 DEF AwaitInv, WaitsAlone
<1>6. ASSUME up' = [up EXCEPT ![u].data = slot[c]]
      PROVE  /\ up'[u].stage = up[u].stage /\ up'[u].on_disk = up[u].on_disk
             /\ up'[u].conn = up[u].conn /\ up'[u].size = up[u].size
             /\ up'[u].data = slot[c] /\ up'[u].sent = up[u].sent
             /\ up'[u].bytes_written = up[u].bytes_written
             /\ Untouched(u)
  <2>1. Put(u, [up[u] EXCEPT !.data = slot[c]])
    BY <1>6 DEF Put
  <2>2. up'[u] = [up[u] EXCEPT !.data = slot[c]]
    BY <1>3, <2>1, PutFields
  <2>3. UploadFields(up[u])
    BY <1>3 DEF UploadTypes
  <2>4. /\ up'[u].stage = up[u].stage /\ up'[u].on_disk = up[u].on_disk
        /\ up'[u].conn = up[u].conn /\ up'[u].size = up[u].size
        /\ up'[u].data = slot[c] /\ up'[u].sent = up[u].sent
        /\ up'[u].bytes_written = up[u].bytes_written /\ UploadFields(up'[u])
    BY <2>2, <2>3 DEF UploadFields
  <2> QED
    BY <1>3, <2>1, <2>4, PutFields DEF Untouched
<1> QED
  BY <1>1, <1>2, <1>3, <1>4, <1>5, <1>6

LEMMA LineOfHandleAck ==
  ASSUME UploadTypes, LineInv, AwaitInv, NEW c \in Clients, HandleAck(c)
  PROVE  LineInv' /\ AwaitInv'
<1>1. PICK u \in Uploads :
           /\ acks[c] # <<>> /\ u = Head(UploadsOf(acks[c])) /\ u \in AckedAt(c)
           /\ acks' = [acks EXCEPT ![c] = Tail(@)] /\ slot' = [slot EXCEPT ![c] = Nobody]
           /\ UNCHANGED <<asks, crossed>>
           /\ \/ up' = up
              \/ up'[u].stage = up[u].stage /\ up'[u].conn = up[u].conn /\ Untouched(u)
  <2> HIDE DEF HandleAck
  <2> QED
    BY HandleAckEffect
<1>2. \A v \in Uploads : up'[v].stage = up[v].stage /\ up'[v].conn = up[v].conn
  BY <1>1 DEF Untouched
<1>3. /\ acks'[c] = Tail(acks[c]) /\ \A b \in Clients \ {c} : acks'[b] = acks[b]
      /\ slot'[c] = Nobody /\ \A b \in Clients \ {c} : slot'[b] = slot[b]
  BY <1>1 DEF UploadTypes
<1>4. /\ UploadsOf(acks'[c]) = Tail(UploadsOf(acks[c])) /\ UploadsOf(acks[c]) # <<>>
      /\ UploadsOf(acks[c]) \in Seq(Uploads)
  BY <1>1, <1>3, UploadsOfTail DEF UploadTypes
<1>5. AckedAt(c)' = AckedAt(c) \ {u} /\ Once(UploadsOf(acks'[c]))
  <2> DEFINE q == UploadsOf(acks[c])
  <2>1. q \in Seq(Uploads) /\ q # <<>> /\ Once(q) /\ Head(q) = u
    BY <1>1, <1>4 DEF LineInv
  <2> HIDE DEF q
  <2>2. Elements(Tail(q)) = Elements(q) \ {u} /\ Once(Tail(q))
    BY <2>1, OnceTail
  <2> QED
    BY <1>4, <2>2 DEF AckedAt, q
<1>6. \A b \in Clients : StartingAt(b)' = StartingAt(b)
  BY <1>2 DEF StartingAt, At
<1>7. \A b \in Clients \ {c} : AckedAt(b)' = AckedAt(b)
  BY <1>3 DEF AckedAt
<1>8. LineInv'
  <2> SUFFICES ASSUME NEW b \in Clients
               PROVE  /\ Once(asks'[b]) /\ Once(UploadsOf(acks'[b]))
                      /\ \A v \in Elements(asks'[b]) : up'[v].stage = "sent" /\ up'[v].conn = b
                      /\ \A v \in AckedAt(b)' : up'[v].stage \in Answered /\ up'[v].conn = b
    BY DEF LineInv
  <2>1. Once(asks'[b]) /\ Once(UploadsOf(acks'[b]))
    BY <1>1, <1>3, <1>5 DEF LineInv
  <2>2. asks'[b] = asks[b] /\ AckedAt(b)' \subseteq AckedAt(b)
    BY <1>1, <1>5, <1>7
  <2>3. Elements(asks[b]) \subseteq Uploads /\ AckedAt(b) \subseteq Uploads
    BY LineOfUploads
  <2> QED
    BY <1>2, <2>1, <2>2, <2>3 DEF LineInv
<1>9. Awaiting(c)' \subseteq Awaiting(c) \ {u} /\ u \in Awaiting(c)
  <2>1. "sent" \notin Answered /\ Starting \cap Answered = {}
    BY DEF Answered, Registered, Starting
  <2>2. up[u].stage \in Answered
    BY <1>1 DEF LineInv
  <2>3. u \notin Elements(asks[c]) /\ u \notin StartingAt(c)
    BY <2>1, <2>2 DEF LineInv, StartingAt, At
  <2>4. Elements(asks'[c]) = Elements(asks[c])
    BY <1>1
  <2> QED
    BY <1>1, <1>5, <1>6, <2>3, <2>4, AwaitingIs, AwaitingIsNext
<1>10. WaitsAlone(c)'
  <2>1. \A v \in Awaiting(c)' : v \in crossed
    BY <1>9 DEF AwaitInv, WaitsAlone
  <2> QED
    BY <1>1, <2>1 DEF WaitsAlone
<1>11. ASSUME NEW b \in Clients \ {c} PROVE WaitsAlone(b)'
  <2>1. Awaiting(b)' = Awaiting(b)
    BY <1>1, <1>6, <1>7, AwaitingIs, AwaitingIsNext
  <2> QED
    BY <1>1, <1>3, <2>1, FewerWait DEF AwaitInv
<1> QED
  BY <1>8, <1>10, <1>11 DEF AwaitInv

----------------------------------------------------------------------------
(* Uploads: the disk, the counts and the client's file                        *)

Sound(u) ==
  /\ u \notin crossed => up[u].data \in {Nobody, u}
  /\ up[u].stage \in {"none", "sent"} \cup Starting => up[u].sent = 0 /\ up[u].bytes_written = 0
  /\ u \notin faulted =>
       /\ up[u].on_disk >= 0 <=> up[u].stage \in {"created"} \cup Registered
       /\ up[u].stage = "created" => up[u].on_disk = 0
       /\ up[u].stage = "pending" =>
            up[u].sent = up[u].bytes_written /\ up[u].on_disk = up[u].bytes_written
       /\ up[u].stage \in {"saving", "row"} /\ u \notin crossed =>
            /\ up[u].data = u
            /\ up[u].bytes_written = up[u].size /\ up[u].on_disk = up[u].size

UploadsInv == UploadTypes /\ LineInv /\ AwaitInv /\ \A u \in Uploads : Sound(u)

LEMMA UploadsInvInit == UpInit => UploadsInv
<1> SUFFICES ASSUME UpInit PROVE UploadsInv
  OBVIOUS
<1>1. ASSUME NEW u \in Uploads PROVE Sound(u)
  <2>1. /\ up[u].stage = "none" /\ up[u].data = Nobody /\ up[u].sent = 0
        /\ up[u].bytes_written = 0 /\ up[u].on_disk = -1
    BY DEF UpInit
  <2> QED
    BY <2>1 DEF Sound, Registered
<1> QED
  BY <1>1, UploadTypesInit, LineInit DEF UploadsInv

LEMMA SoundKept ==
  ASSUME NEW u \in Uploads, Sound(u), up'[u] = up[u],
         crossed \subseteq crossed', faulted \subseteq faulted'
  PROVE  Sound(u)'
BY DEF Sound

LEMMA SoundDropped ==
  ASSUME NEW u \in Uploads, Sound(u), Rest(up'[u], up[u]), up'[u].stage = "dropped",
         up'[u].on_disk = -1 \/ u \in faulted', crossed \subseteq crossed'
  PROVE  Sound(u)'
<1>1. "dropped" \notin {"none", "sent", "created", "pending", "saving", "row"} \cup Starting
  BY DEF Starting
<1> QED
  BY <1>1 DEF Sound, Rest, Registered

LEMMA MovedTypes ==
  ASSUME UploadTypes, NEW u \in Uploads, NEW st, NEW n, MovedOn(u, st, n)
  PROVE  /\ DOMAIN up' = Uploads /\ up' = [v \in Uploads |-> up'[v]]
         /\ \A v \in Uploads : UploadFields(up'[v])
BY DEF UploadTypes, MovedOn

LEMMA AckTypes ==
  ASSUME UploadTypes, NEW u \in Uploads, up[u].stage # "none", NEW ok \in BOOLEAN, Ack(u, ok)
  PROVE  acks' \in [Clients -> Seq(Acknowledgement)]
<1>1. PICK d \in Clients : d = up[u].conn
  BY DEF UploadTypes, UploadFields
<1> DEFINE m == [upload |-> u, success |-> ok]
<1>2. m \in Acknowledgement
  BY DEF Acknowledgement
<1>3. acks' = [acks EXCEPT ![d] = Append(@, m)]
  BY <1>1 DEF Ack
<1> HIDE DEF m
<1>4. Append(acks[d], m) \in Seq(Acknowledgement)
  BY <1>2, AppendElements DEF UploadTypes
<1> QED
  BY <1>3, <1>4 DEF UploadTypes

LEMMA StartsOnStep ==
  ASSUME UploadsInv, NEW u \in Uploads, NEW st \in UploadStages, NEW n \in Int,
         StartsOn(u, st, n)
  PROVE  UploadsInv'
<1>1. /\ UploadTypes /\ LineInv /\ AwaitInv /\ Sound(u)
      /\ up[u].stage \in Starting /\ MovedOn(u, st, n)
      /\ UNCHANGED <<slot, asks, crossed>> /\ faulted \subseteq faulted'
  BY DEF UploadsInv, StartsOn
<1>2. /\ up'[u].stage = st /\ up'[u].on_disk = n /\ Rest(up'[u], up[u])
      /\ \A v \in Uploads \ {u} : up'[v] = up[v]
  BY <1>1 DEF MovedOn
<1>3. /\ "none" \notin Starting /\ "sent" \notin Starting /\ Starting \cap Answered = {}
  BY DEF Starting, Answered, Registered
<1>4. Sound(u)'
  <2>1. up'[u].sent = 0 /\ up'[u].bytes_written = 0 /\ up'[u].data = up[u].data
    BY <1>1, <1>2 DEF Sound, Rest
  <2>2. st \in {"summed", "fits", "refused"} => n = up[u].on_disk /\ up[u].stage # "created"
    BY <1>1 DEF StartsOn
  <2>3. st = "created" => n = 0
    BY <1>1 DEF StartsOn
  <2>4. st = "pending" => n = up[u].on_disk /\ up[u].stage = "created"
    BY <1>1 DEF StartsOn
  <2>5. st \in {"summed", "fits", "refused", "created", "pending"}
    BY <1>1 DEF StartsOn
  <2>6. up[u].stage \notin Registered
    BY <1>1, <1>3 DEF Answered
  <2> QED
    BY <1>1, <1>2, <2>1, <2>2, <2>3, <2>4, <2>5, <2>6 DEF Sound, Registered
<1>5. \A v \in Uploads : Sound(v)'
  BY <1>1, <1>2, <1>4, SoundKept DEF UploadsInv
<1>6. UploadTypes'
  <2>1. acks' \in [Clients -> Seq(Acknowledgement)]
    BY <1>1, <1>3, AckTypes DEF StartsOn, UploadTypes
  <2> QED
    BY <1>1, <2>1, MovedTypes DEF UploadTypes
<1>7. LineInv' /\ AwaitInv'
  <2>1. CASE st \in Starting
    <3>1. acks' = acks
      BY <1>1, <2>1 DEF StartsOn
    <3>2. \A v \in Uploads : up'[v].conn = up[v].conn
      BY <1>2 DEF Rest
    <3> QED
      BY <1>1, <1>2, <1>3, <2>1, <3>1, <3>2, LineShrinks
  <2>2. CASE st \notin Starting
    <3>1. PICK ok \in BOOLEAN : Ack(u, ok)
      BY <2>2 DEF StartsOn
    <3>2. st \in Answered
      BY <2>2 DEF StartsOn, Starting, Answered, Registered
    <3> QED
      BY <1>1, <3>1, <3>2, LineAnswered
  <2> QED
    BY <2>1, <2>2
<1> QED
  BY <1>5, <1>6, <1>7 DEF UploadsInv

(* A registered upload moves on, or is over: its line is empty. *)
LEMMA AnsweredStep ==
  ASSUME UploadsInv, NEW u \in Uploads, up[u].stage \in Answered, up'[u].stage \in Answered,
         up'[u].conn = up[u].conn, Untouched(u), UNCHANGED line, Sound(u)',
         faulted \subseteq faulted'
  PROVE  UploadsInv'
<1>1. UploadTypes /\ LineInv /\ AwaitInv
  BY DEF UploadsInv
<1>2. UNCHANGED <<slot, asks, acks, crossed>>
  BY DEF line
<1>3. \A v \in Uploads \ {u} : up'[v] = up[v]
  BY DEF Untouched
<1>4. \A v \in Uploads : Sound(v)'
  BY <1>2, <1>3, SoundKept DEF UploadsInv
<1>5. UploadTypes'
  BY <1>1, <1>2 DEF UploadTypes, Untouched
<1>6. "sent" \notin Answered /\ Starting \cap Answered = {}
  BY DEF Starting, Answered, Registered
<1>7. LineInv' /\ AwaitInv'
  BY <1>1, <1>2, <1>3, <1>6, LineShrinks
<1> QED
  BY <1>4, <1>5, <1>7 DEF UploadsInv

LEMMA MovedIsUntouched ==
  ASSUME NEW u \in Uploads, NEW st, NEW n, MovedOn(u, st, n)
  PROVE  /\ Untouched(u) /\ Rest(up'[u], up[u]) /\ up'[u].conn = up[u].conn
         /\ up'[u].stage = st /\ up'[u].on_disk = n
BY DEF MovedOn, Untouched, Rest

LEMMA ChunkStep ==
  ASSUME UploadsInv, NEW u \in Uploads, FileUploadChunk(u)
  PROVE  UploadsInv'
<1>1. UploadTypes /\ Sound(u) /\ UploadFields(up[u])
  BY DEF UploadsInv, UploadTypes
<1>2. /\ up[u].stage = "pending" /\ UNCHANGED line /\ faulted \subseteq faulted'
      /\ \/ MovedOn(u, "dropped", -1)
         \/ ChunkWas(u, 1, 1, 1)
         \/ (\E n \in {0, 1} : ChunkWas(u, 1, 0, n)) /\ u \in faulted'
  BY <1>1, ChunkEffect
<1>3. crossed' = crossed
  BY <1>2 DEF line
<1>4. "dropped" \in Answered /\ "pending" \in Answered
  BY DEF Answered, Registered
<1>5. CASE MovedOn(u, "dropped", -1)
  <2>1. Sound(u)'
    BY <1>1, <1>3, <1>5, MovedIsUntouched, SoundDropped
  <2> QED
    BY <1>2, <1>4, <1>5, <2>1, MovedIsUntouched, AnsweredStep
<1>6. CASE ChunkWas(u, 1, 1, 1)
  <2>1. /\ up'[u].stage = up[u].stage /\ up'[u].conn = up[u].conn /\ up'[u].size = up[u].size
        /\ up'[u].data = up[u].data /\ up'[u].sent = up[u].sent + 1
        /\ up'[u].bytes_written = up[u].bytes_written + 1
        /\ up'[u].on_disk = up[u].on_disk + 1 /\ Untouched(u)
    BY <1>6 DEF ChunkWas, Untouched
  <2>2. "pending" \notin {"none", "sent"} \cup Starting
    BY DEF Starting
  <2>3. Sound(u)'
    BY <1>1, <1>2, <1>3, <2>1, <2>2 DEF Sound, Registered, UploadFields
  <2> QED
    BY <1>2, <1>4, <2>1, <2>3, AnsweredStep
<1>7. CASE (\E n \in {0, 1} : ChunkWas(u, 1, 0, n)) /\ u \in faulted'
  <2>1. /\ up'[u].stage = up[u].stage /\ up'[u].conn = up[u].conn
        /\ up'[u].data = up[u].data /\ Untouched(u)
    BY <1>7 DEF ChunkWas, Untouched
  <2>2. "pending" \notin {"none", "sent"} \cup Starting
    BY DEF Starting
  <2>3. Sound(u)'
    BY <1>1, <1>2, <1>3, <1>7, <2>1, <2>2 DEF Sound
  <2> QED
    BY <1>2, <1>4, <2>1, <2>3, AnsweredStep
<1> QED
  BY <1>2, <1>5, <1>6, <1>7

LEMMA CompleteStep ==
  ASSUME UploadsInv, NEW u \in Uploads, FileUploadComplete(u)
  PROVE  UploadsInv'
<1>1. UploadTypes /\ Sound(u) /\ UploadFields(up[u])
  BY DEF UploadsInv, UploadTypes
<1>2. /\ up[u].stage = "pending" /\ MovedOn(u, "saving", up[u].on_disk)
      /\ up[u].data # Nobody /\ up[up[u].data].size - up[u].sent = 0
      /\ UNCHANGED line /\ faulted \subseteq faulted'
  BY <1>1, CompleteEffect
<1>3. crossed' = crossed
  BY <1>2 DEF line
<1>4. /\ up'[u].stage = "saving" /\ up'[u].on_disk = up[u].on_disk /\ Rest(up'[u], up[u])
      /\ up'[u].conn = up[u].conn /\ Untouched(u)
  BY <1>2, MovedIsUntouched
<1>5. "saving" \notin {"none", "sent"} \cup Starting /\ "saving" \in Answered
      /\ "pending" \in Answered
  BY DEF Starting, Answered, Registered
<1>6. u \notin crossed /\ u \notin faulted =>
        up[u].data = u /\ up[u].bytes_written = up[u].size /\ up[u].on_disk = up[u].size
  BY <1>1, <1>2 DEF Sound, UploadFields
<1>7. Sound(u)'
  BY <1>1, <1>2, <1>3, <1>4, <1>5, <1>6 DEF Sound, Rest, Registered
<1> QED
  BY <1>2, <1>4, <1>5, <1>7, AnsweredStep

LEMMA SaveStep ==
  ASSUME UploadsInv, NEW u \in Uploads, SaveRoomFile(u)
  PROVE  UploadsInv'
<1>1. UploadTypes /\ Sound(u)
  BY DEF UploadsInv
<1>2. /\ up[u].stage = "saving" /\ UNCHANGED line /\ faulted \subseteq faulted'
      /\ \/ MovedOn(u, "row", up[u].on_disk)
         \/ MovedOn(u, "dropped", up[u].on_disk) /\ u \in faulted'
  BY <1>1, SaveEffect
<1>3. crossed' = crossed
  BY <1>2 DEF line
<1>4. {"saving", "row", "dropped"} \subseteq Answered
      /\ "row" \notin {"none", "sent"} \cup Starting
  BY DEF Starting, Answered, Registered
<1>5. CASE MovedOn(u, "row", up[u].on_disk)
  <2>1. /\ up'[u].stage = "row" /\ up'[u].on_disk = up[u].on_disk /\ Rest(up'[u], up[u])
        /\ up'[u].conn = up[u].conn /\ Untouched(u)
    BY <1>5, MovedIsUntouched
  <2>2. Sound(u)'
    BY <1>1, <1>2, <1>3, <1>4, <2>1 DEF Sound, Rest, Registered
  <2> QED
    BY <1>2, <1>4, <2>1, <2>2, AnsweredStep
<1>6. CASE MovedOn(u, "dropped", up[u].on_disk) /\ u \in faulted'
  <2>1. Sound(u)'
    BY <1>1, <1>3, <1>6, MovedIsUntouched, SoundDropped
  <2> QED
    BY <1>2, <1>4, <1>6, <2>1, MovedIsUntouched, AnsweredStep
<1> QED
  BY <1>2, <1>5, <1>6

LEMMA SweepStep ==
  ASSUME UploadsInv, NEW ss, SweptAway(ss), "none" \notin ss, "sent" \notin ss,
         UNCHANGED <<slot, crossed>>,
         \A c \in Clients : /\ asks'[c] = asks[c] \/ asks'[c] = <<>>
                            /\ acks'[c] = acks[c] \/ acks'[c] = <<>>,
         asks' \in [Clients -> Seq(Uploads)], acks' \in [Clients -> Seq(Acknowledgement)]
  PROVE  UploadsInv'
<1>1. UploadTypes /\ LineInv /\ AwaitInv
  BY DEF UploadsInv
<1>2. "dropped" \in Answered /\ "dropped" \notin Starting
  BY DEF Answered, Starting
<1>3. \A v \in Uploads :
       \/ up'[v] = up[v]
       \/ /\ up[v].stage \in ss /\ up'[v].stage = "dropped" /\ Rest(up'[v], up[v])
          /\ UploadFields(up'[v]) /\ v \in faulted'
  BY DEF SweptAway
<1>4. ASSUME NEW v \in Uploads PROVE Sound(v)'
  <2>1. Sound(v) /\ faulted \subseteq faulted'
    BY DEF UploadsInv, SweptAway
  <2> QED
    BY <1>3, <2>1, SoundKept, SoundDropped
<1>5. UploadTypes'
  BY <1>1, <1>3 DEF UploadTypes, SweptAway
<1>6. \A v \in Uploads : /\ up'[v].stage \in Starting => up[v].stage \in Starting
                         /\ up'[v].conn = up[v].conn
  BY <1>2, <1>3 DEF Rest
<1>7. /\ \A v \in Uploads : up[v].stage = "sent" => up'[v].stage = "sent"
      /\ \A v \in Uploads : up[v].stage \in Answered => up'[v].stage \in Answered
  BY <1>2, <1>3
<1>8. LineInv' /\ AwaitInv'
  BY <1>1, <1>6, <1>7, LineShrinks
<1> QED
  BY <1>4, <1>5, <1>8 DEF UploadsInv

LEMMA ClientStep ==
  ASSUME UploadsInv, NEW c \in Clients,
         \/ Connect(c) \/ Close(c) \/ FileUploadStart(c) \/ HandleAck(c)
         \/ \E u \in Uploads, r \in Rooms, n \in 1..(MaxUpload + 1) : UploadFile(c, u, r, n)
  PROVE  UploadsInv'
<1>1. UploadTypes /\ LineInv /\ AwaitInv
  BY DEF UploadsInv
<1>2. CASE Connect(c) \/ Close(c)
  <2>1. /\ up' = up /\ UNCHANGED <<slot, crossed, faulted>>
        /\ \/ asks' = asks /\ acks' = acks
           \/ asks' = [asks EXCEPT ![c] = <<>>] /\ acks' = [acks EXCEPT ![c] = <<>>]
    BY <1>2 DEF Connect, Close, NoFault, line
  <2>2. SweptAway({})
    BY <1>1, <2>1 DEF SweptAway, UploadTypes
  <2>3. /\ asks' \in [Clients -> Seq(Uploads)] /\ acks' \in [Clients -> Seq(Acknowledgement)]
        /\ \A b \in Clients : /\ asks'[b] = asks[b] \/ asks'[b] = <<>>
                              /\ acks'[b] = acks[b] \/ acks'[b] = <<>>
    <3>1. <<>> \in Seq(Uploads) /\ <<>> \in Seq(Acknowledgement)
      OBVIOUS
    <3>2. CASE asks' = asks /\ acks' = acks
      BY <1>1, <3>2 DEF UploadTypes
    <3>3. CASE asks' = [asks EXCEPT ![c] = <<>>] /\ acks' = [acks EXCEPT ![c] = <<>>]
      BY <1>1, <3>1, <3>3 DEF UploadTypes
    <3> QED
      BY <2>1, <3>2, <3>3
  <2> QED
    BY <2>1, <2>2, <2>3, SweepStep
<1>3. CASE FileUploadStart(c)
  <2>1. PICK u \in Uploads : TakenUp(c, u)
    BY <1>1, <1>3, TakenUpEffect
  <2>2. /\ up[u].stage = "sent" /\ UNCHANGED <<slot, crossed, faulted>>
        /\ \/ MovedOn(u, "asked", up[u].on_disk) /\ acks' = acks
           \/ MovedOn(u, "refused", up[u].on_disk) /\ Ack(u, FALSE)
    BY <2>1 DEF TakenUp
  <2>3. LineInv' /\ AwaitInv'
    BY <1>1, <2>1, LineTakenUp
  <2>4. UploadTypes'
    <3>1. acks' \in [Clients -> Seq(Acknowledgement)]
      BY <1>1, <2>2, AckTypes DEF UploadTypes
    <3>2. asks' \in [Clients -> Seq(Uploads)]
      <4>1. Tail(asks[c]) \in Seq(Uploads) /\ asks' = [asks EXCEPT ![c] = Tail(@)]
        BY <1>1, <2>1, TailElements DEF TakenUp, UploadTypes
      <4> QED
        BY <1>1, <4>1 DEF UploadTypes
    <3> QED
      BY <1>1, <2>2, <3>1, <3>2, MovedTypes DEF UploadTypes
  <2>5. Sound(u)'
    <3>1. /\ Rest(up'[u], up[u]) /\ up'[u].on_disk = up[u].on_disk
          /\ up'[u].stage \in {"asked", "refused"}
      BY <2>2, MovedIsUntouched
    <3>2. Sound(u)
      BY DEF UploadsInv
    <3> QED
      BY <2>2, <3>1, <3>2 DEF Sound, Rest, Registered
  <2>6. \A v \in Uploads : Sound(v)'
    BY <2>2, <2>5, MovedIsUntouched, SoundKept DEF UploadsInv, Untouched
  <2> QED
    BY <2>3, <2>4, <2>6 DEF UploadsInv
<1>4. CASE HandleAck(c)
  <2>1. PICK u \in Uploads :
           /\ acks[c] # <<>>
           /\ acks' = [acks EXCEPT ![c] = Tail(@)] /\ slot' = [slot EXCEPT ![c] = Nobody]
           /\ UNCHANGED <<asks, crossed, faulted>>
           /\ up[u].stage \in Answered
           /\ u \notin crossed => slot[c] = u
           /\ \/ up' = up
              \/ /\ up'[u].stage = up[u].stage /\ up'[u].on_disk = up[u].on_disk
                 /\ up'[u].conn = up[u].conn /\ up'[u].size = up[u].size
                 /\ up'[u].data = slot[c] /\ up'[u].sent = up[u].sent
                 /\ up'[u].bytes_written = up[u].bytes_written
                 /\ Untouched(u)
    <3> HIDE DEF HandleAck
    <3> QED
      BY <1>1, <1>4, HandleAckEffect
  <2>2. LineInv' /\ AwaitInv'
    BY <1>1, <1>4, LineOfHandleAck
  <2>3. UploadTypes'
    <3>1. acks' \in [Clients -> Seq(Acknowledgement)]
      <4>1. Tail(acks[c]) \in Seq(Acknowledgement)
        BY <1>1, <2>1, TailElements DEF UploadTypes
      <4> QED
        BY <1>1, <2>1, <4>1 DEF UploadTypes
    <3>2. slot' \in [Clients -> Uploads \cup {Nobody}]
      BY <1>1, <2>1 DEF UploadTypes
    <3> QED
      BY <1>1, <2>1, <3>1, <3>2 DEF UploadTypes, Untouched
  <2>4. Sound(u)'
    <3>1. Sound(u)
      BY DEF UploadsInv
    <3> QED
      BY <2>1, <3>1 DEF Sound
  <2>5. \A v \in Uploads : Sound(v)'
    BY <2>1, <2>4, SoundKept DEF UploadsInv, Untouched
  <2> QED
    BY <2>2, <2>3, <2>5 DEF UploadsInv
<1>5. ASSUME NEW u \in Uploads, NEW r \in Rooms, NEW n \in 1..(MaxUpload + 1),
             UploadFile(c, u, r, n)
      PROVE  UploadsInv'
  <2>1. n \in Nat
    BY UploadsAssumption
  <2>2. /\ up[u].stage = "none" /\ up'[u].stage = "sent" /\ up'[u].conn = c
        /\ up'[u].data = up[u].data /\ up'[u].on_disk = up[u].on_disk
        /\ up'[u].sent = up[u].sent /\ up'[u].bytes_written = up[u].bytes_written
        /\ Untouched(u) /\ faulted' = faulted /\ acks' = acks
        /\ crossed \subseteq crossed'
    BY <1>1, <1>5, <2>1, UploadFileEffect
  <2>3. LineInv' /\ AwaitInv'
    BY <1>1, <1>5, <2>1, LineOfUploadFile
  <2>4. UploadTypes'
    <3>1. slot' \in [Clients -> Uploads \cup {Nobody}]
      BY <1>1, <1>5 DEF UploadFile, UploadTypes
    <3>2. asks' \in [Clients -> Seq(Uploads)]
      <4>1. Append(asks[c], u) \in Seq(Uploads)
        BY <1>1, AppendElements DEF UploadTypes
      <4> QED
        BY <1>1, <1>5, <4>1 DEF UploadFile, UploadTypes
    <3> QED
      BY <1>1, <2>2, <3>1, <3>2 DEF UploadTypes, Untouched
  <2>5. Sound(u)'
    <3>1. Sound(u)
      BY DEF UploadsInv
    <3>2. {"none", "sent"} \cap ({"created"} \cup Registered) = {}
      BY DEF Registered
    <3> QED
      BY <2>2, <3>1, <3>2 DEF Sound
  <2>6. \A v \in Uploads : Sound(v)'
    BY <2>2, <2>5, SoundKept DEF UploadsInv, Untouched
  <2> QED
    BY <2>3, <2>4, <2>6 DEF UploadsInv
<1> QED
  BY <1>2, <1>3, <1>4, <1>5

LEMMA UploadsInvStep == UploadsInv /\ [UpNext]_upVars => UploadsInv'
<1> SUFFICES ASSUME UploadsInv, [UpNext]_upVars PROVE UploadsInv'
  OBVIOUS
<1>1. UploadTypes
  BY DEF UploadsInv
<1>2. ASSUME NEW u \in Uploads, SumStored(u) \/ SumPending(u) \/ CreateFile(u) \/ Register(u)
      PROVE  UploadsInv'
  BY <1>1, <1>2, StartEffect, StartsOnStep
<1>3. ASSUME NEW r \in Rooms, DeleteRoom(r) PROVE UploadsInv'
  <2>1. SweptAway({"row"}) /\ UNCHANGED line
    BY <1>1, <1>3, DeleteRoomEffect
  <2>2. UNCHANGED <<slot, asks, acks, crossed>>
    BY <2>1 DEF line
  <2> QED
    BY <1>1, <2>1, <2>2, SweepStep DEF UploadTypes
<1>4. CASE Restart
  <2> DEFINE ss == Starting \cup {"pending", "saving"}
  <2>1. /\ SweptAway(ss) /\ UNCHANGED <<slot, crossed>>
        /\ \A c \in Clients : asks'[c] = <<>> /\ acks'[c] = <<>>
    BY <1>1, <1>4, RestartEffect
  <2>2. asks' \in [Clients -> Seq(Uploads)] /\ acks' \in [Clients -> Seq(Acknowledgement)]
    BY <1>4 DEF Restart
  <2>3. "none" \notin ss /\ "sent" \notin ss
    BY DEF Starting
  <2> HIDE DEF ss
  <2> QED
    BY <2>1, <2>2, <2>3, SweepStep
<1>5. CASE UNCHANGED upVars
  <2>1. SweptAway({}) /\ UNCHANGED <<slot, asks, acks, crossed>>
    BY <1>1, <1>5 DEF upVars, line, SweptAway, UploadTypes
  <2> QED
    BY <1>1, <2>1, SweepStep DEF UploadTypes
<1> QED
  BY <1>2, <1>3, <1>4, <1>5, ClientStep, ChunkStep, CompleteStep, SaveStep DEF UpNext

(* A file on disk is that of a registered upload, of a row or of a handler at
   work, for any number of uploads, clients and rooms, unless a fault hit the
   upload (files/handler.rs:167). *)
THEOREM DiskHolds == UpSpec => []DiskIsAccounted
<1>1. UploadsInv => DiskIsAccounted
  <2>1. {"created"} \cup Registered = {"created", "pending", "saving", "row"}
    BY DEF Registered
  <2> QED
    BY <2>1 DEF UploadsInv, Sound, DiskIsAccounted
<1> QED
  BY <1>1, UploadsInvInit, UploadsInvStep, PTL DEF UpSpec

(* A row has all of the file its client chose for it, for any number of uploads
   of any size, whatever other uploads, refusals, closes and restarts come
   between its messages: an upload that is not crossed is the only one that
   waits for its acknowledgement (client/src/actions.rs:2709). *)
THEOREM RowsHold == UpSpec => []RowsAreWhole
<1>1. UploadsInv => RowsAreWhole
  BY DEF UploadsInv, Sound, RowsAreWhole, Rows, At
<1> QED
  BY <1>1, UploadsInvInit, UploadsInvStep, PTL DEF UpSpec

----------------------------------------------------------------------------
(* Sums: one term after another adds up to as many units as all terms have.    *)
(* What a fold computes is shown from its definition: the units of the terms   *)
(* left are such a function of them, and no other is, for of the sets on which *)
(* it differs one is least.                                                    *)

Units(w, S) == UNION {{x} \X (1..w[x]) : x \in S}

LEMMA UnitsSplit ==
  ASSUME NEW S, IsFiniteSet(S), NEW w, \A x \in S : w[x] \in Nat
  PROVE  /\ IsFiniteSet(Units(w, S))
         /\ Cardinality(Units(w, S)) \in Nat
         /\ \A x \in S : Cardinality(Units(w, S)) = w[x] + Cardinality(Units(w, S \ {x}))
<1>1. ASSUME NEW x \in S
      PROVE  IsFiniteSet({x} \X (1..w[x])) /\ Cardinality({x} \X (1..w[x])) = w[x]
  <2>1. w[x] \in Nat
    OBVIOUS
  <2>2. IsFiniteSet(1..w[x]) /\ Cardinality(1..w[x]) = w[x]
    <3>1. PICK n \in Int : n = w[x] /\ n \in Nat
      BY <2>1
    <3>2. 1 \in Int
      OBVIOUS
    <3>3. IsFiniteSet(1..n) /\ Cardinality(1..n) = IF 1 > n THEN 0 ELSE n - 1 + 1
      BY <3>2, FS_Interval
    <3> QED
      BY <3>1, <3>3
  <2>3. IsFiniteSet({x}) /\ Cardinality({x}) = 1
    BY FS_Singleton
  <2> QED
    BY <2>1, <2>2, <2>3, FS_Product
<1>2. ASSUME NEW T \in SUBSET S
      PROVE  IsFiniteSet(Units(w, T)) /\ Cardinality(Units(w, T)) \in Nat
  <2>1. IsFiniteSet({{x} \X (1..w[x]) : x \in T})
    <3> DEFINE g == [x \in T |-> {x} \X (1..w[x])]
               Rectangles == {{x} \X (1..w[x]) : x \in T}
    <3>1. g \in Surjection(T, Rectangles)
      BY DEF Surjection
    <3>2. IsFiniteSet(T)
      BY FS_Subset
    <3> HIDE DEF g, Rectangles
    <3>3. IsFiniteSet(Rectangles)
      BY <3>1, <3>2, FS_Surjection
    <3> QED
      BY <3>3 DEF Rectangles
  <2>2. \A X \in {{x} \X (1..w[x]) : x \in T} : IsFiniteSet(X)
    BY <1>1
  <2>3. IsFiniteSet(Units(w, T))
    BY <2>1, <2>2, FS_UNION DEF Units
  <2> QED
    BY <2>3, FS_CardinalityType
<1>3. ASSUME NEW x \in S
      PROVE  Cardinality(Units(w, S)) = w[x] + Cardinality(Units(w, S \ {x}))
  <2> DEFINE own == {x} \X (1..w[x])
             others == Units(w, S \ {x})
  <2>1. Units(w, S) = own \cup others
    BY DEF Units
  <2>2. own \cap others = {}
    BY DEF Units
  <2>3. IsFiniteSet(own) /\ IsFiniteSet(others) /\ Cardinality(others) \in Nat
    BY <1>1, <1>2, S \ {x} \in SUBSET S
  <2>4. Cardinality(own) = w[x] /\ w[x] \in Nat
    BY <1>1
  <2> HIDE DEF own, others
  <2>5. Cardinality({}) = 0
    BY FS_EmptySet
  <2>6. Cardinality(own \cup others)
          = Cardinality(own) + Cardinality(others) - Cardinality(own \cap others)
    BY <2>3, FS_Union
  <2>7. Cardinality(own \cap others) = 0
    BY <2>2, <2>5
  <2>8. Cardinality(own \cup others) = w[x] + Cardinality(others)
    BY <2>3, <2>4, <2>6, <2>7
  <2> QED
    BY <2>1, <2>8 DEF others
<1> QED
  BY <1>2, <1>3

LEMMA SumIsCount ==
  ASSUME NEW S, IsFiniteSet(S), NEW w, \A x \in S : w[x] \in Nat
  PROVE  SumFunctionOnSet(w, S) = Cardinality(Units(w, S))
<1> DEFINE pick(s) == CHOOSE x \in s : TRUE
           step(f) == [s \in SUBSET S |-> IF s = {} THEN 0 ELSE w[pick(s)] + f[s \ {pick(s)}]]
           tally == [s \in SUBSET S |-> Cardinality(Units(w, s))]
<1>1. SumFunctionOnSet(w, S) = (CHOOSE f : f = step(f))[S]
  BY DEF SumFunctionOnSet, FoldFunctionOnSet, MapThenFoldSet
<1>2. \A s \in SUBSET S : s # {} => pick(s) \in s
  OBVIOUS
<1>3. ASSUME NEW s \in SUBSET S, s # {}
      PROVE  tally[s] = w[pick(s)] + tally[s \ {pick(s)}]
  <2>1. IsFiniteSet(s) /\ \A x \in s : w[x] \in Nat
    BY FS_Subset
  <2>2. pick(s) \in s
    BY <1>2, <1>3
  <2> HIDE DEF pick
  <2>3. Cardinality(Units(w, s)) = w[pick(s)] + Cardinality(Units(w, s \ {pick(s)}))
    BY <2>1, <2>2, UnitsSplit
  <2> QED
    BY <2>3
<1>4. tally[{}] = 0
  <2>1. Units(w, {}) = {}
    BY DEF Units
  <2> QED
    BY <2>1, FS_EmptySet
<1> HIDE DEF pick
<1>5. tally = step(tally)
  <2>1. ASSUME NEW s \in SUBSET S PROVE tally[s] = step(tally)[s]
    BY <1>3, <1>4
  <2> QED
    BY <2>1
<1>6. ASSUME NEW f, f = step(f)
      PROVE  f = tally
  <2> DEFINE Wrong == {s \in SUBSET S : f[s] # tally[s]}
  <2>1. Wrong = {}
    <3>1. SUFFICES ASSUME Wrong # {} PROVE FALSE
      OBVIOUS
    <3>2. Wrong \subseteq FiniteSubsetsOf(S)
      BY FS_Subset DEF FiniteSubsetsOf
    <3>3. PICK s \in Wrong : \A t \in Wrong : ~ (<<t, s>> \in StrictSubsetOrdering(S))
      BY <3>1, <3>2, FS_StrictSubsetOrderingWellFounded, WFMin
    <3>4. s \in SUBSET S /\ f[s] # tally[s]
      OBVIOUS
    <3>5. CASE s = {}
      BY <1>4, <1>6, <3>4, <3>5
    <3>6. CASE s # {}
      <4>1. pick(s) \in s
        BY <1>2, <3>4, <3>6
      <4>2. s \ {pick(s)} \in SUBSET S /\ s \ {pick(s)} # s /\ s \ {pick(s)} \subseteq s
        BY <3>4, <4>1
      <4>3. s \ {pick(s)} \notin Wrong
        BY <3>3, <3>4, <4>2 DEF StrictSubsetOrdering
      <4>4. f[s \ {pick(s)}] = tally[s \ {pick(s)}]
        BY <4>2, <4>3
      <4>5. f[s] = w[pick(s)] + f[s \ {pick(s)}]
        BY <1>6, <3>4, <3>6
      <4>6. tally[s] = w[pick(s)] + tally[s \ {pick(s)}]
        BY <1>3, <3>4, <3>6
      <4> HIDE DEF tally
      <4> QED
        BY <3>4, <4>4, <4>5, <4>6
    <3> QED
      BY <3>5, <3>6
  <2>2. \A s \in SUBSET S : f[s] = tally[s]
    BY <2>1
  <2>3. f = [s \in SUBSET S |-> f[s]]
    BY <1>6
  <2> QED
    BY <2>2, <2>3
<1>7. (CHOOSE f : f = step(f)) = tally
  <2> HIDE DEF step, tally
  <2> QED
    BY <1>5, <1>6
<1> QED
  BY <1>1, <1>7

LEMMA SumNat ==
  ASSUME NEW S, IsFiniteSet(S), NEW w, \A x \in S : w[x] \in Nat
  PROVE  SumFunctionOnSet(w, S) \in Nat
BY SumIsCount, UnitsSplit

(* Fewer terms, and smaller ones, have a smaller sum. *)
LEMMA SumShrinks ==
  ASSUME NEW S, IsFiniteSet(S), NEW w, \A x \in S : w[x] \in Nat,
         NEW T \in SUBSET S, NEW y, \A x \in T : y[x] \in Nat /\ y[x] <= w[x]
  PROVE  SumFunctionOnSet(y, T) <= SumFunctionOnSet(w, S)
<1>1. Units(y, T) \subseteq Units(w, S)
  <2>1. ASSUME NEW x \in T PROVE 1..y[x] \subseteq 1..w[x]
    <3>1. w[x] \in Nat /\ y[x] \in Nat /\ y[x] <= w[x]
      OBVIOUS
    <3> QED
      BY <3>1
  <2> QED
    BY <2>1 DEF Units
<1>2. IsFiniteSet(Units(w, S))
  BY UnitsSplit
<1>3. Cardinality(Units(y, T)) <= Cardinality(Units(w, S))
  BY <1>1, <1>2, FS_Subset
<1>4. IsFiniteSet(T)
  BY FS_Subset
<1> QED
  BY <1>3, <1>4, SumIsCount

(* A sum over two sets is at most that over the one and that over the other. *)
LEMMA SumSplits ==
  ASSUME NEW S, IsFiniteSet(S), NEW T, IsFiniteSet(T),
         NEW w, \A x \in S \cup T : w[x] \in Nat
  PROVE  SumFunctionOnSet(w, S \cup T) <= SumFunctionOnSet(w, S) + SumFunctionOnSet(w, T)
<1>1. Units(w, S \cup T) = Units(w, S) \cup Units(w, T)
  BY DEF Units
<1>2. IsFiniteSet(Units(w, S)) /\ IsFiniteSet(Units(w, T))
  BY UnitsSplit
<1>3. /\ Cardinality(Units(w, S)) \in Nat
      /\ Cardinality(Units(w, T)) \in Nat
      /\ Cardinality(Units(w, S) \cap Units(w, T)) \in Nat
  BY <1>2, FS_CardinalityType, FS_Intersection
<1>4. Cardinality(Units(w, S \cup T)) <= Cardinality(Units(w, S)) + Cardinality(Units(w, T))
  <2>1. Cardinality(Units(w, S) \cup Units(w, T))
          = Cardinality(Units(w, S)) + Cardinality(Units(w, T))
              - Cardinality(Units(w, S) \cap Units(w, T))
    BY <1>2, FS_Union
  <2> DEFINE m == Cardinality(Units(w, S))
             n == Cardinality(Units(w, T))
             k == Cardinality(Units(w, S) \cap Units(w, T))
  <2>2. m \in Nat /\ n \in Nat /\ k \in Nat
    BY <1>3
  <2>3. Cardinality(Units(w, S \cup T)) = m + n - k
    BY <1>1, <2>1
  <2> HIDE DEF m, n, k
  <2>4. Cardinality(Units(w, S \cup T)) <= m + n
    BY <2>2, <2>3
  <2> QED
    BY <2>4 DEF m, n
<1>5. IsFiniteSet(S \cup T)
  BY FS_Union
<1> QED
  BY <1>4, <1>5, SumIsCount

LEMMA SumOfOne ==
  ASSUME NEW x, NEW w, w[x] \in Nat
  PROVE  SumFunctionOnSet(w, {x}) = w[x]
<1>1. IsFiniteSet({x}) /\ {x} \ {x} = {}
  BY FS_Singleton
<1>2. Units(w, {}) = {} /\ Cardinality({}) = 0
  BY FS_EmptySet DEF Units
<1>3. Cardinality(Units(w, {x})) = w[x] + Cardinality(Units(w, {x} \ {x}))
  BY <1>1, UnitsSplit
<1> QED
  BY <1>1, <1>2, <1>3, SumIsCount

----------------------------------------------------------------------------
(* Uploads: types, and that what is written fits what was declared            *)

Sized(r) ==
  /\ r \in Upload
  /\ r.bytes_written <= r.size
  /\ r.stage \in Starting \cup Registered => r.size <= MaxUpload

UploadsSized == UpTypeOK /\ \A u \in Uploads : Sized(up[u])

LEMMA UploadsSizedInit == UpInit => UploadsSized
<1> SUFFICES ASSUME UpInit PROVE UploadsSized
  OBVIOUS
<1>1. 0 \in 0..MaxUpload /\ 0 \in 0..(MaxUpload + 1) /\ 0 \in 0..MaxFaults /\ -1 \in Int /\ 0 <= 0
  BY UploadsAssumption
<1>2. "none" \in UploadStages /\ "none" \notin Starting \cup Registered
  BY DEF UploadStages, Starting, Registered
<1>3. \A u \in Uploads : Sized(up[u])
  BY <1>1, <1>2 DEF UpInit, Sized, Upload
<1>4. up \in [Uploads -> Upload]
  BY <1>1, <1>2 DEF UpInit, Upload
<1>5. /\ slot \in [Clients -> Uploads \cup {Nobody}]
      /\ asks \in [Clients -> Seq(Uploads)]
      /\ acks \in [Clients -> Seq([upload: Uploads, success: BOOLEAN])]
  BY DEF UpInit
<1> QED
  BY <1>1, <1>3, <1>4, <1>5 DEF UpInit, UploadsSized, UpTypeOK

(* The records a step leaves. *)
LEMMA SizedMoves ==
  ASSUME NEW r, Sized(r), NEW st \in UploadStages,
         st \in Starting \cup Registered => r.size <= MaxUpload
  PROVE  /\ Sized([r EXCEPT !.stage = st])
         /\ \A n \in Nat : Sized([r EXCEPT !.stage = st, !.seen = n])
         /\ \A n \in Int : Sized([r EXCEPT !.stage = st, !.on_disk = n])
BY DEF Sized, Upload

LEMMA SizedClient ==
  ASSUME NEW r, Sized(r)
  PROVE  /\ \A d \in Uploads \cup {Nobody} : Sized([r EXCEPT !.data = d])
         /\ \A c \in Clients, to \in Rooms, n \in 1..(MaxUpload + 1) :
              r.bytes_written = 0 =>
                Sized([r EXCEPT !.stage = "sent", !.conn = c, !.room = to, !.size = n])
<1>1. ASSUME NEW d \in Uploads \cup {Nobody} PROVE Sized([r EXCEPT !.data = d])
  BY DEF Sized, Upload
<1>2. ASSUME NEW c \in Clients, NEW to \in Rooms, NEW n \in 1..(MaxUpload + 1),
             r.bytes_written = 0
      PROVE  Sized([r EXCEPT !.stage = "sent", !.conn = c, !.room = to, !.size = n])
  <2>1. "sent" \in UploadStages /\ "sent" \notin Starting \cup Registered
    BY DEF UploadStages, Starting, Registered
  <2>2. n \in 0..(MaxUpload + 1) /\ 0 <= n
    BY UploadsAssumption
  <2> QED
    BY <1>2, <2>1, <2>2 DEF Sized, Upload
<1> QED
  BY <1>1, <1>2

LEMMA SizedChunk ==
  ASSUME NEW r, Sized(r), r.stage = "pending"
  PROVE  /\ ~(r.bytes_written + 1 > r.size) =>
              Sized([r EXCEPT !.sent = @ + 1, !.on_disk = @ + 1, !.bytes_written = @ + 1])
         /\ \A n \in {0, 1} : Sized([r EXCEPT !.sent = @ + 1, !.on_disk = @ + n])
<1> DEFINE k == r.sent + 1
           w == r.bytes_written + 1
<1>1. /\ r \in Upload /\ r.size \in Nat /\ r.size <= MaxUpload /\ r.bytes_written \in Nat
      /\ r.sent \in Nat /\ r.on_disk \in Int
  BY UploadsAssumption DEF Sized, Upload, Registered
<1>2. k \in Nat /\ \A n \in {0, 1} : r.on_disk + n \in Int
  BY <1>1
<1>3. ASSUME ~(w > r.size)
      PROVE  Sized([r EXCEPT !.sent = @ + 1, !.on_disk = @ + 1, !.bytes_written = @ + 1])
  <2>1. w \in 0..MaxUpload /\ w <= r.size
    BY <1>1, <1>3, UploadsAssumption
  <2>2. PICK d \in Int : d = r.on_disk + 1
    BY <1>2
  <2>3. [r EXCEPT !.sent = @ + 1, !.on_disk = @ + 1, !.bytes_written = @ + 1]
          = [r EXCEPT !.sent = k, !.on_disk = d, !.bytes_written = w]
    BY <2>2
  <2> HIDE DEF k, w
  <2>4. Sized([r EXCEPT !.sent = k, !.on_disk = d, !.bytes_written = w])
    BY <1>1, <1>2, <2>1 DEF Sized, Upload
  <2> QED
    BY <2>3, <2>4
<1>4. ASSUME NEW n \in {0, 1} PROVE Sized([r EXCEPT !.sent = @ + 1, !.on_disk = @ + n])
  <2>1. PICK d \in Int : d = r.on_disk + n
    BY <1>2
  <2>2. [r EXCEPT !.sent = @ + 1, !.on_disk = @ + n] = [r EXCEPT !.sent = k, !.on_disk = d]
    BY <2>1
  <2> HIDE DEF k, w
  <2>3. Sized([r EXCEPT !.sent = k, !.on_disk = d])
    BY <1>1, <1>2, <2>1 DEF Sized, Upload
  <2> QED
    BY <2>2, <2>3
<1> QED
  BY <1>3, <1>4

LEMMA SizedPut ==
  ASSUME UploadsSized, NEW u \in Uploads, NEW r, Put(u, r), Sized(r)
  PROVE  up' \in [Uploads -> Upload] /\ \A v \in Uploads : Sized(up'[v])
BY DEF UploadsSized, UpTypeOK, Put, Sized

LEMMA SizedGone ==
  ASSUME NEW r, Sized(r)
  PROVE  Sized(Gone(r, r.on_disk)) /\ Sized(Gone(r, -1))
<1>1. r.on_disk \in Int /\ -1 \in Int
  BY DEF Sized, Upload
<1>2. "dropped" \in UploadStages /\ "dropped" \notin Starting \cup Registered
  BY DEF UploadStages, Starting, Registered
<1> QED
  BY <1>1, <1>2, SizedMoves DEF Gone

LEMMA SizedSwept ==
  ASSUME UploadsSized, NEW us,
         up' = [u \in Uploads |-> IF u \in us THEN Gone(up[u], up[u].on_disk) ELSE up[u]]
  PROVE  up' \in [Uploads -> Upload] /\ \A v \in Uploads : Sized(up'[v])
<1>1. \A v \in Uploads : Sized(up'[v])
  BY SizedGone DEF UploadsSized
<1> QED
  BY <1>1 DEF Sized

LEMMA JudgeSized ==
  ASSUME UploadsSized, NEW u \in Uploads, up[u].stage \in Starting, NEW fits, Judge(u, fits)
  PROVE  up' \in [Uploads -> Upload] /\ \A v \in Uploads : Sized(up'[v])
<1>1. "fits" \in UploadStages /\ "refused" \in UploadStages
      /\ "refused" \notin Starting \cup Registered
  BY DEF UploadStages, Starting, Registered
<1>2. Sized(up[u]) /\ up[u].size <= MaxUpload
  BY DEF UploadsSized, Sized
<1>3. Sized([up[u] EXCEPT !.stage = "fits"]) /\ Sized([up[u] EXCEPT !.stage = "refused"])
  BY <1>1, <1>2, SizedMoves
<1> QED
  BY <1>3, SizedPut DEF Judge

(* The sums over the table and over the registered uploads. *)
LEMMA StoredBytesNat ==
  ASSUME UploadsSized
  PROVE  PendingBytes \in Nat /\ \A tn : StoredBytes(tn) \in Nat
<1>1. \A u \in Uploads : up[u].size \in Nat /\ up[u].bytes_written \in Nat
  BY UploadsAssumption DEF UploadsSized, Sized, Upload
<1> DEFINE written == [u \in Uploads |-> up[u].bytes_written]
           sizes == [u \in Uploads |-> up[u].size]
<1>2. \A u \in Uploads : written[u] \in Nat /\ sizes[u] \in Nat
  BY <1>1
<1> HIDE DEF written, sizes
<1>3. ASSUME NEW us \in SUBSET Uploads
      PROVE  SumFunctionOnSet(written, us) \in Nat /\ SumFunctionOnSet(sizes, us) \in Nat
  <2>1. IsFiniteSet(us)
    BY UploadsAssumption, FS_Subset
  <2> QED
    BY <1>2, <2>1, SumNat
<1>4. Pending \in SUBSET Uploads
      /\ \A tn : {u \in Rows : multi_tenant => TenantOfRoom[up[u].room] = tn} \in SUBSET Uploads
  BY DEF Pending, Rows, At
<1> QED
  BY <1>3, <1>4 DEF PendingBytes, StoredBytes, written, sizes

(* What start_upload leaves. *)
LEMMA SizedStart ==
  ASSUME UploadsSized, NEW u \in Uploads,
         SumStored(u) \/ SumPending(u) \/ CreateFile(u) \/ Register(u)
  PROVE  up' \in [Uploads -> Upload] /\ \A v \in Uploads : Sized(up'[v])
<1>1. /\ {"summed", "created", "pending", "refused"} \subseteq UploadStages
      /\ "refused" \notin Starting \cup Registered
      /\ {"asked", "summed", "fits", "created"} \subseteq Starting
  BY DEF UploadStages, Starting, Registered
<1>2. Sized(up[u]) /\ (up[u].stage \in Starting => up[u].size <= MaxUpload)
  BY DEF UploadsSized, Sized
<1>3. CASE SumStored(u)
  <2>1. PICK n \in {StoredBytes(Tenant(up[u].room)), 0} :
               IF multi_tenant
               THEN Judge(u, Fits(u, n))
               ELSE Put(u, [up[u] EXCEPT !.stage = "summed", !.seen = n])
    BY <1>3 DEF SumStored
  <2>2. n \in Nat /\ up[u].stage = "asked"
    BY <1>3, StoredBytesNat DEF SumStored
  <2>3. CASE multi_tenant
    BY <1>1, <2>1, <2>2, <2>3, JudgeSized
  <2>4. CASE ~multi_tenant
    BY <1>1, <1>2, <2>1, <2>2, <2>4, SizedMoves, SizedPut
  <2> QED
    BY <2>3, <2>4
<1>4. CASE SumPending(u)
  BY <1>1, <1>4, JudgeSized DEF SumPending
<1>5. CASE CreateFile(u)
  <2>1. 0 \in Int /\ up[u].stage = "fits"
    BY <1>5 DEF CreateFile
  <2>2. /\ Sized([up[u] EXCEPT !.stage = "created", !.on_disk = 0])
        /\ Sized([up[u] EXCEPT !.stage = "refused"])
    BY <1>1, <1>2, <2>1, SizedMoves
  <2> QED
    BY <1>5, <2>2, SizedPut DEF CreateFile
<1>6. CASE Register(u)
  <2>1. up[u].stage = "created" /\ Put(u, [up[u] EXCEPT !.stage = "pending"])
    BY <1>6 DEF Register
  <2>2. Sized([up[u] EXCEPT !.stage = "pending"])
    BY <1>1, <1>2, <2>1, SizedMoves
  <2> QED
    BY <2>1, <2>2, SizedPut
<1> QED
  BY <1>3, <1>4, <1>5, <1>6

(* What a chunk, the end of an upload and the saving of it leave. *)
LEMMA SizedTransfer ==
  ASSUME UploadsSized, NEW u \in Uploads,
         FileUploadChunk(u) \/ FileUploadComplete(u) \/ SaveRoomFile(u)
  PROVE  up' \in [Uploads -> Upload] /\ \A v \in Uploads : Sized(up'[v])
<1>1. {"saving", "row"} \subseteq UploadStages /\ {"pending", "saving"} \subseteq Registered
  BY DEF UploadStages, Registered
<1>2. Sized(up[u]) /\ (up[u].stage \in Registered => up[u].size <= MaxUpload)
  BY DEF UploadsSized, Sized
<1>3. CASE FileUploadChunk(u)
  <2>1. /\ up[u].stage = "pending"
        /\ \/ Put(u, Drop(u))
           \/ ~Exceeds(u) /\ Put(u, Wrote(u))
           \/ \E n \in {0, 1} : Put(u, WroteInPart(u, n))
    BY <1>3 DEF FileUploadChunk
  <2>2. Sized(Drop(u))
    BY <1>2, SizedGone DEF Drop
  <2>3. ~Exceeds(u) => Sized(Wrote(u))
    BY <1>2, <2>1, SizedChunk DEF Exceeds, Wrote
  <2>4. \A n \in {0, 1} : Sized(WroteInPart(u, n))
    BY <1>2, <2>1, SizedChunk DEF WroteInPart
  <2> QED
    BY <2>1, <2>2, <2>3, <2>4, SizedPut
<1>4. CASE FileUploadComplete(u)
  <2>1. Put(u, [up[u] EXCEPT !.stage = "saving"]) /\ up[u].stage = "pending"
    BY <1>4 DEF FileUploadComplete
  <2> QED
    BY <1>1, <1>2, <2>1, SizedMoves, SizedPut
<1>5. CASE SaveRoomFile(u)
  <2>1. /\ up[u].stage = "saving"
        /\ \/ Put(u, [up[u] EXCEPT !.stage = "row"])
           \/ Put(u, Gone(up[u], up[u].on_disk))
    BY <1>5 DEF SaveRoomFile
  <2>2. Sized(Gone(up[u], up[u].on_disk)) /\ Sized([up[u] EXCEPT !.stage = "row"])
    BY <1>1, <1>2, <2>1, SizedGone, SizedMoves
  <2> QED
    BY <2>1, <2>2, SizedPut
<1> QED
  BY <1>3, <1>4, <1>5
LEMMA FaultTypes ==
  ASSUME UploadsSized, NEW us \in SUBSET Uploads, NoFault \/ Fault(us)
  PROVE  faulted' \subseteq Uploads /\ faults' \in 0..MaxFaults
BY UploadsAssumption DEF UploadsSized, UpTypeOK, NoFault, Fault

(* What a client's message or its acknowledgement leaves. *)
LEMMA SizedClientStep ==
  ASSUME UploadsInv, UploadsSized, NEW c \in Clients,
         \/ Connect(c) \/ Close(c) \/ FileUploadStart(c) \/ HandleAck(c)
         \/ \E u \in Uploads, r \in Rooms, n \in 1..(MaxUpload + 1) : UploadFile(c, u, r, n)
  PROVE  /\ up' \in [Uploads -> Upload] /\ \A v \in Uploads : Sized(up'[v])
         /\ multi_tenant' = multi_tenant /\ rooms' = rooms /\ open' \subseteq Clients
         /\ crossed' \subseteq Uploads /\ overlapped' \subseteq Uploads /\ NoFault
<1>0. /\ UploadTypes /\ LineInv /\ AwaitInv /\ \A v \in Uploads : Sound(v)
      /\ UpTypeOK /\ \A v \in Uploads : Sized(up[v])
  BY DEF UploadsInv, UploadsSized
<1>1. CASE Connect(c) \/ Close(c)
  BY <1>0, <1>1 DEF Connect, Close, UpTypeOK, line
<1>2. CASE FileUploadStart(c)
  <2> DEFINE u == Head(asks[c])
  <2>1. u \in Uploads /\ up[u].stage = "sent"
    <3>1. PICK v \in Uploads : TakenUp(c, v)
      BY <1>0, <1>2, TakenUpEffect
    <3> QED
      BY <3>1 DEF TakenUp
  <2>2. /\ multi_tenant' = multi_tenant /\ rooms' = rooms /\ open' = open /\ crossed' = crossed
        /\ NoFault
        /\ \/ /\ Put(u, [up[u] EXCEPT !.stage = "asked"]) /\ up[u].size <= MaxUpload
              /\ \/ overlapped' = overlapped
                 \/ overlapped' = overlapped \cup {u} \cup At(Starting)
           \/ /\ Put(u, [up[u] EXCEPT !.stage = "refused"])
              /\ overlapped' = overlapped
    BY <1>2 DEF FileUploadStart
  <2> HIDE DEF u
  <2>3. overlapped' \subseteq Uploads
    BY <1>0, <2>1, <2>2 DEF UpTypeOK, At
  <2>4. /\ {"asked", "refused"} \subseteq UploadStages
        /\ "refused" \notin Starting \cup Registered
    BY DEF UploadStages, Starting, Registered
  <2>5. /\ Sized([up[u] EXCEPT !.stage = "refused"])
        /\ up[u].size <= MaxUpload => Sized([up[u] EXCEPT !.stage = "asked"])
    BY <1>0, <2>1, <2>4, SizedMoves
  <2> QED
    BY <1>0, <2>1, <2>2, <2>3, <2>5, SizedPut DEF UpTypeOK
<1>3. CASE HandleAck(c)
  <2>1. /\ UNCHANGED <<multi_tenant, rooms, open, crossed, overlapped>> /\ NoFault
        /\ \/ up' = up
           \/ up' = [up EXCEPT ![Head(acks[c]).upload].data = slot[c]]
        /\ acks[c] # <<>>
    BY <1>3 DEF HandleAck
  <2>2. Head(acks[c]).upload \in Uploads /\ slot[c] \in Uploads \cup {Nobody}
    <3>1. Head(acks[c]) \in Acknowledgement
      BY <1>0, <2>1, UploadsOfTail DEF UploadTypes
    <3> QED
      BY <1>0, <3>1 DEF Acknowledgement, UploadTypes
  <2>3. CASE up' = up
    BY <1>0, <2>1, <2>3 DEF UpTypeOK
  <2>4. CASE up' # up
    <3>1. PICK u \in Uploads : u = Head(acks[c]).upload
      BY <2>2
    <3>2. Put(u, [up[u] EXCEPT !.data = slot[c]])
      BY <2>1, <2>4, <3>1 DEF Put
    <3>3. Sized([up[u] EXCEPT !.data = slot[c]])
      BY <1>0, <2>2, <3>1, SizedClient
    <3> QED
      BY <1>0, <2>1, <3>2, <3>3, SizedPut DEF UpTypeOK
  <2> QED
    BY <2>3, <2>4
<1>4. ASSUME NEW u \in Uploads, NEW r \in Rooms, NEW n \in 1..(MaxUpload + 1),
             UploadFile(c, u, r, n)
      PROVE  /\ up' \in [Uploads -> Upload] /\ \A v \in Uploads : Sized(up'[v])
             /\ multi_tenant' = multi_tenant /\ rooms' = rooms /\ open' \subseteq Clients
             /\ crossed' \subseteq Uploads /\ overlapped' \subseteq Uploads /\ NoFault
  <2>1. /\ up[u].stage = "none"
        /\ Put(u, [up[u] EXCEPT !.stage = "sent", !.conn = c, !.room = r, !.size = n])
        /\ \/ crossed' = crossed
           \/ crossed' = crossed \cup {u} \cup Awaiting(c)
        /\ UNCHANGED <<multi_tenant, rooms, open, overlapped>> /\ NoFault
    BY <1>4 DEF UploadFile
  <2>2. up[u].bytes_written = 0
    BY <1>0, <2>1 DEF Sound
  <2>3. Sized([up[u] EXCEPT !.stage = "sent", !.conn = c, !.room = r, !.size = n])
    BY <1>0, <2>2, SizedClient
  <2>4. Awaiting(c) \subseteq Uploads
    BY <1>0, AwaitingIs, LineOfUploads DEF StartingAt, At
  <2> QED
    BY <1>0, <2>1, <2>3, <2>4, SizedPut DEF UpTypeOK
<1> QED
  BY <1>1, <1>2, <1>3, <1>4

LEMMA UploadsSizedStep ==
  ASSUME UploadsInv, UploadsSized, [UpNext]_upVars
  PROVE  UploadsSized'
<1>0. UpTypeOK /\ \A v \in Uploads : Sized(up[v])
  BY DEF UploadsSized
<1>1. UploadsInv'
  BY UploadsInvStep
<1>2. /\ slot' \in [Clients -> Uploads \cup {Nobody}]
      /\ asks' \in [Clients -> Seq(Uploads)]
      /\ acks' \in [Clients -> Seq([upload: Uploads, success: BOOLEAN])]
  BY <1>1 DEF UploadsInv, UploadTypes, Acknowledgement
<1> DEFINE Kept == /\ up' \in [Uploads -> Upload] /\ \A v \in Uploads : Sized(up'[v])
                   /\ multi_tenant' = multi_tenant /\ rooms' \subseteq rooms
                   /\ open' \subseteq Clients
                   /\ crossed' \subseteq Uploads /\ overlapped' \subseteq Uploads
                   /\ faulted' \subseteq Uploads /\ faults' \in 0..MaxFaults
<1>3. ASSUME NEW c \in Clients,
             \/ Connect(c) \/ Close(c) \/ FileUploadStart(c) \/ HandleAck(c)
             \/ \E u \in Uploads, r \in Rooms, n \in 1..(MaxUpload + 1) : UploadFile(c, u, r, n)
      PROVE  Kept
  <2>1. /\ up' \in [Uploads -> Upload] /\ \A v \in Uploads : Sized(up'[v])
        /\ multi_tenant' = multi_tenant /\ rooms' = rooms /\ open' \subseteq Clients
        /\ crossed' \subseteq Uploads /\ overlapped' \subseteq Uploads /\ NoFault
    BY <1>3, SizedClientStep
  <2> QED
    BY <2>1, FaultTypes
<1>4. ASSUME NEW u \in Uploads, SumStored(u) \/ SumPending(u) \/ CreateFile(u) \/ Register(u)
      PROVE  Kept
  <2>1. up' \in [Uploads -> Upload] /\ \A v \in Uploads : Sized(up'[v])
    BY <1>4, SizedStart
  <2>2. /\ UNCHANGED <<multi_tenant, rooms, open, crossed, overlapped>>
        /\ NoFault \/ Fault({u})
    BY <1>4 DEF SumStored, SumPending, CreateFile, Register
  <2> QED
    BY <1>0, <2>1, <2>2, FaultTypes DEF UpTypeOK
<1>5. ASSUME NEW u \in Uploads, FileUploadChunk(u) \/ FileUploadComplete(u) \/ SaveRoomFile(u)
      PROVE  Kept
  <2>1. up' \in [Uploads -> Upload] /\ \A v \in Uploads : Sized(up'[v])
    BY <1>5, SizedTransfer
  <2>2. /\ UNCHANGED <<multi_tenant, rooms, open, crossed>>
        /\ overlapped' = overlapped \/ overlapped' = overlapped \cup At(Starting)
        /\ \/ NoFault \/ Fault({u})
           \/ faulted' = faulted \cup {u} /\ UNCHANGED faults
    BY <1>5 DEF FileUploadChunk, FileUploadComplete, SaveRoomFile, line
  <2>3. overlapped' \subseteq Uploads
    BY <1>0, <2>2 DEF UpTypeOK, At
  <2>4. faulted' \subseteq Uploads /\ faults' \in 0..MaxFaults
    BY <1>0, <2>2, FaultTypes DEF UpTypeOK
  <2> QED
    BY <1>0, <2>1, <2>2, <2>3, <2>4 DEF UpTypeOK
<1>6. ASSUME NEW r \in Rooms, DeleteRoom(r) PROVE Kept
  <2> DEFINE of == {u \in Uploads : up[u].stage # "none" /\ up[u].room = r}
  <2>1. /\ up' = [u \in Uploads |-> IF u \in of \cap Rows
                                    THEN Gone(up[u], up[u].on_disk) ELSE up[u]]
        /\ rooms' = rooms \ {r} /\ Fault(of)
        /\ UNCHANGED <<multi_tenant, open, crossed, overlapped>>
    BY <1>6 DEF DeleteRoom, line
  <2>2. of \in SUBSET Uploads
    OBVIOUS
  <2> HIDE DEF of
  <2>3. up' \in [Uploads -> Upload] /\ \A v \in Uploads : Sized(up'[v])
    BY <2>1, SizedSwept
  <2> QED
    BY <1>0, <2>1, <2>2, <2>3, FaultTypes DEF UpTypeOK
<1>7. ASSUME Restart PROVE Kept
  <2> DEFINE us == At(Starting \cup {"pending", "saving"})
  <2>1. /\ up' = [u \in Uploads |-> IF u \in us THEN Gone(up[u], up[u].on_disk) ELSE up[u]]
        /\ open' = {} /\ Fault(us)
        /\ UNCHANGED <<multi_tenant, rooms, crossed, overlapped>>
    BY <1>7 DEF Restart
  <2>2. us \in SUBSET Uploads
    BY DEF At
  <2> HIDE DEF us
  <2>3. up' \in [Uploads -> Upload] /\ \A v \in Uploads : Sized(up'[v])
    BY <2>1, SizedSwept
  <2> QED
    BY <1>0, <2>1, <2>2, <2>3, FaultTypes DEF UpTypeOK
<1>8. ASSUME UNCHANGED upVars PROVE Kept
  BY <1>0, <1>8 DEF upVars, line, UpTypeOK
<1>9. Kept
  BY <1>3, <1>4, <1>5, <1>6, <1>7, <1>8 DEF UpNext
<1> QED
  BY <1>0, <1>2, <1>9 DEF UploadsSized, UpTypeOK
----------------------------------------------------------------------------
(* Uploads: what the limit check of an upload adds up                         *)

Excused == overlapped \cup faulted

(* What counts against the limit of a tenant: rows, and what may become one. *)
Held(tn) ==
  {u \in At(Registered) \ Excused : multi_tenant => Tenant(up[u].room) = tn}
Written == [u \in Uploads |-> up[u].bytes_written]

HeldBytes(tn)   == SumFunctionOnSet(Claim, Held(tn))
WrittenBytes    == SumFunctionOnSet(Written, Rows)
HeldWithinLimit == Limit > 0 => \A tn \in Tenants : HeldBytes(tn) <= Limit

(* An upload in start_upload that no other overlaps meets none on its way. *)
StartsAlone ==
  \A u \in At(Starting) \ overlapped :
    At(Starting) = {u} /\ At({"saving"}) = {} /\ (multi_tenant => Pending = {})

(* What it has seen of the table, and that it fits, stays true until it is
   registered. *)
StoredIsSeen ==
  \A u \in At({"summed"}) \ Excused : ~multi_tenant /\ WrittenBytes <= up[u].seen
RoomIsLeft ==
  Limit > 0 =>
    \A u \in At({"fits", "created"}) \ Excused :
      HeldBytes(Tenant(up[u].room)) + up[u].size <= Limit
RowsHaveRooms == \A u \in Rows : up[u].room \in rooms

LimitInv ==
  /\ UploadsSized
  /\ HeldWithinLimit /\ StartsAlone /\ StoredIsSeen /\ RoomIsLeft /\ RowsHaveRooms

LEMMA LimitNat == UploadsSized => Limit \in Nat
BY UploadsAssumption DEF UploadsSized, UpTypeOK, Limit

LEMMA ClaimsNat ==
  ASSUME UploadsSized
  PROVE  /\ \A u \in Uploads : Claim[u] \in Nat /\ Written[u] \in Nat /\ Claim[u] <= up[u].size
         /\ \A u \in Uploads : up[u].size \in Nat /\ up[u].bytes_written \in Nat
         /\ \A tn : HeldBytes(tn) \in Nat
         /\ \A tn : Held(tn) \in SUBSET Uploads /\ IsFiniteSet(Held(tn))
         /\ WrittenBytes \in Nat /\ Rows \in SUBSET Uploads /\ IsFiniteSet(Rows)
<1>1. \A u \in Uploads : /\ up[u].size \in Nat /\ up[u].bytes_written \in Nat
                         /\ up[u].bytes_written <= up[u].size
  BY UploadsAssumption DEF UploadsSized, Sized, Upload
<1>2. \A u \in Uploads : Claim[u] \in Nat /\ Written[u] \in Nat /\ Claim[u] <= up[u].size
  BY <1>1 DEF Claim, Written
<1>3. /\ \A tn : Held(tn) \in SUBSET Uploads
      /\ Rows \in SUBSET Uploads
  BY DEF Held, Rows, At
<1>4. IsFiniteSet(Rows) /\ \A tn : IsFiniteSet(Held(tn))
  BY <1>3, UploadsAssumption, FS_Subset
<1>5. WrittenBytes \in Nat /\ \A tn : HeldBytes(tn) \in Nat
  BY <1>2, <1>3, <1>4, SumNat DEF HeldBytes, WrittenBytes
<1> QED
  BY <1>1, <1>2, <1>3, <1>4, <1>5

LEMMA ClaimsNatNext ==
  ASSUME UploadsSized'
  PROVE  \A u \in Uploads : Claim'[u] \in Nat /\ Written'[u] \in Nat
<1>1. \A u \in Uploads : up'[u].size \in Nat /\ up'[u].bytes_written \in Nat
  BY UploadsAssumption DEF UploadsSized, Sized, Upload
<1> QED
  BY <1>1 DEF Claim, Written

LEMMA LimitInvInit == UpInit => LimitInv
<1> SUFFICES ASSUME UpInit PROVE LimitInv
  OBVIOUS
<1>1. UploadsSized /\ Limit \in Nat
  BY UploadsSizedInit, LimitNat
<1>2. \A ss : "none" \notin ss => At(ss) = {}
  BY DEF UpInit, At
<1>3. At(Starting) = {} /\ At(Registered) = {} /\ Rows = {} /\ At({"summed"}) = {}
      /\ At({"fits", "created"}) = {}
  BY <1>2 DEF Starting, Registered, Rows
<1>4. \A tn : Held(tn) = {}
  BY <1>3 DEF Held
<1>5. \A tn : HeldBytes(tn) = 0
  <2>1. IsFiniteSet({}) /\ Units(Claim, {}) = {} /\ Cardinality({}) = 0
    BY FS_EmptySet DEF Units
  <2>2. SumFunctionOnSet(Claim, {}) = 0
    BY <2>1, SumIsCount
  <2> QED
    BY <1>4, <2>2 DEF HeldBytes
<1> QED
  BY <1>1, <1>3, <1>5 DEF LimitInv, HeldWithinLimit, StartsAlone, StoredIsSeen, RoomIsLeft,
    RowsHaveRooms

(* Every upload a step leaves registered and unexcused was so before, with no
   smaller claim: no tenant holds more. *)
HoldsLess ==
  \A v \in Uploads \ Excused' :
    up'[v].stage \in Registered =>
      /\ up[v].stage \in Registered /\ v \notin Excused
      /\ up'[v].room = up[v].room /\ Tenant(up[v].room)' = Tenant(up[v].room)
      /\ Claim'[v] <= Claim[v]

LEMMA HeldShrinks ==
  ASSUME UploadsSized, UploadsSized', HoldsLess, multi_tenant' = multi_tenant
  PROVE  \A tn : HeldBytes(tn)' \in Nat /\ HeldBytes(tn)' <= HeldBytes(tn)
<1> TAKE tn
<1>1. Held(tn)' \in SUBSET Held(tn)
  <2>1. ASSUME NEW v \in Held(tn)' PROVE v \in Held(tn)
    <3>1. /\ v \in Uploads \ Excused' /\ up'[v].stage \in Registered
          /\ multi_tenant' => Tenant(up[v].room)' = tn
      BY DEF Held, At
    <3> QED
      BY <3>1 DEF HoldsLess, Held, At
  <2> QED
    BY <2>1
<1>2. \A v \in Held(tn)' : Claim'[v] \in Nat /\ Claim'[v] <= Claim[v]
  <2>1. \A v \in Uploads : Claim'[v] \in Nat
    BY ClaimsNatNext
  <2> HIDE DEF Claim
  <2> QED
    BY <2>1 DEF HoldsLess, Held, At
<1>3. IsFiniteSet(Held(tn)) /\ IsFiniteSet(Held(tn)') /\ \A v \in Held(tn) : Claim[v] \in Nat
  BY <1>1, ClaimsNat, FS_Subset
<1> HIDE DEF Held, Claim
<1>4. /\ SumFunctionOnSet(Claim', Held(tn)') \in Nat
      /\ SumFunctionOnSet(Claim', Held(tn)') <= SumFunctionOnSet(Claim, Held(tn))
  BY <1>1, <1>2, <1>3, SumNat, SumShrinks
<1> QED
  BY <1>4 DEF HeldBytes

LEMMA RowsShrink ==
  ASSUME UploadsSized, UploadsSized',
         \A v \in Uploads : up'[v].stage = "row" =>
           up[v].stage = "row" /\ up'[v].bytes_written = up[v].bytes_written
  PROVE  WrittenBytes' \in Nat /\ WrittenBytes' <= WrittenBytes
<1>1. Rows' \in SUBSET Rows
  BY DEF Rows, At
<1>2. \A v \in Rows' : Written'[v] \in Nat /\ Written'[v] <= Written[v]
  <2>1. \A v \in Rows' : v \in Uploads /\ up'[v].bytes_written = up[v].bytes_written
    BY DEF Rows, At
  <2>2. \A v \in Uploads : Written'[v] \in Nat
    BY ClaimsNatNext
  <2>3. \A v \in Rows' : Written'[v] = Written[v]
    BY <2>1 DEF Written
  <2> HIDE DEF Written
  <2> QED
    BY <2>1, <2>2, <2>3
<1>3. IsFiniteSet(Rows) /\ IsFiniteSet(Rows') /\ \A v \in Rows : Written[v] \in Nat
  BY <1>1, ClaimsNat, FS_Subset
<1> HIDE DEF Rows, Written
<1>4. /\ SumFunctionOnSet(Written', Rows') \in Nat
      /\ SumFunctionOnSet(Written', Rows') <= SumFunctionOnSet(Written, Rows)
  BY <1>1, <1>2, <1>3, SumNat, SumShrinks
<1> QED
  BY <1>4 DEF WrittenBytes

(* An upload on its way that a step leaves alone. *)
StaysOn(v) ==
  /\ up'[v].room = up[v].room /\ up'[v].size = up[v].size
  /\ v \notin faulted' => Tenant(up[v].room)' = Tenant(up[v].room)

(* Most steps let no upload begin, and none be registered. *)
LEMMA LimitCalm ==
  ASSUME LimitInv, UploadsSized', HoldsLess, RowsHaveRooms', multi_tenant' = multi_tenant,
         overlapped \subseteq overlapped', faulted \subseteq faulted',
         \A v \in Uploads : up'[v].stage \in Starting =>
           up'[v].stage = up[v].stage /\ up'[v].seen = up[v].seen /\ StaysOn(v),
         \A v \in Uploads : up'[v].stage = "saving" =>
           up[v].stage = "saving" \/ At(Starting) \subseteq overlapped',
         \A v \in Uploads : up'[v].stage = "pending" => up[v].stage = "pending",
         \A v \in Uploads : up'[v].stage = "row" =>
           /\ up[v].stage \in {"row", "saving"}
           /\ up'[v].bytes_written = up[v].bytes_written
  PROVE  LimitInv'
<1>0. UploadsSized /\ HeldWithinLimit /\ StartsAlone /\ StoredIsSeen /\ RoomIsLeft
  BY DEF LimitInv
<1>1. Limit' = Limit /\ Limit \in Nat
  BY <1>0, LimitNat DEF Limit
<1>2. \A tn : /\ HeldBytes(tn) \in Nat /\ HeldBytes(tn)' \in Nat
              /\ HeldBytes(tn)' <= HeldBytes(tn)
  BY <1>0, HeldShrinks, ClaimsNat
<1>3. HeldWithinLimit'
  <2> SUFFICES ASSUME Limit > 0, NEW tn \in Tenants PROVE HeldBytes(tn)' <= Limit
    BY <1>1 DEF HeldWithinLimit
  <2>1. HeldBytes(tn) <= Limit
    BY <1>0 DEF HeldWithinLimit
  <2> QED
    BY <1>1, <1>2, <2>1
<1>4. StartsAlone'
  <2> SUFFICES ASSUME NEW u \in At(Starting)', u \notin overlapped'
               PROVE  /\ At(Starting)' = {u} /\ At({"saving"})' = {}
                      /\ multi_tenant' => Pending' = {}
    BY DEF StartsAlone
  <2>1. At(Starting)' \subseteq At(Starting)
    BY DEF At
  <2>2. At(Starting) = {u} /\ At({"saving"}) = {} /\ (multi_tenant => Pending = {})
    BY <1>0, <2>1 DEF StartsAlone
  <2>3. At({"saving"})' = {}
    BY <2>2 DEF At
  <2>4. Pending' \subseteq Pending
    BY DEF Pending, At
  <2> QED
    BY <2>1, <2>2, <2>3, <2>4
<1>5. StoredIsSeen'
  <2> SUFFICES ASSUME NEW u \in At({"summed"})', u \notin Excused'
               PROVE  ~multi_tenant' /\ WrittenBytes' <= up'[u].seen
    BY DEF StoredIsSeen
  <2>1. u \in At({"summed"}) /\ u \in At(Starting) /\ up'[u].seen = up[u].seen /\ u \in Uploads
    BY DEF At, Starting
  <2>2. u \notin Excused
    BY DEF Excused
  <2>3. ~multi_tenant /\ WrittenBytes <= up[u].seen
    BY <1>0, <2>1, <2>2 DEF StoredIsSeen
  <2>4. At({"saving"}) = {}
    BY <1>0, <2>1, <2>2 DEF StartsAlone, Excused
  <2>5. \A v \in Uploads : up'[v].stage = "row" =>
          up[v].stage = "row" /\ up'[v].bytes_written = up[v].bytes_written
    BY <2>4 DEF At
  <2>6. WrittenBytes \in Nat /\ WrittenBytes' \in Nat /\ WrittenBytes' <= WrittenBytes
    BY <1>0, <2>5, RowsShrink, ClaimsNat
  <2>7. up[u].seen \in Nat
    BY <1>0, <2>1 DEF UploadsSized, Sized, Upload
  <2> QED
    BY <2>1, <2>3, <2>6, <2>7
<1>6. RoomIsLeft'
  <2> SUFFICES ASSUME Limit > 0, NEW u \in At({"fits", "created"})', u \notin Excused'
               PROVE  HeldBytes(Tenant(up[u].room))' + up'[u].size <= Limit
    BY <1>1 DEF RoomIsLeft
  <2>1. /\ u \in At({"fits", "created"}) /\ u \in Uploads /\ StaysOn(u) /\ u \notin faulted'
    BY DEF At, Starting, Excused
  <2>2. u \notin Excused
    BY DEF Excused
  <2>3. PICK tn : tn = Tenant(up[u].room)
    OBVIOUS
  <2>4. HeldBytes(tn) + up[u].size <= Limit
    <3>1. HeldBytes(Tenant(up[u].room)) + up[u].size <= Limit
      BY <1>0, <2>1, <2>2 DEF RoomIsLeft
    <3> QED
      BY <2>3, <3>1
  <2>5. Tenant(up[u].room)' = tn /\ up'[u].size = up[u].size
    BY <2>1, <2>3 DEF StaysOn
  <2>6. HeldBytes(Tenant(up[u].room))' = HeldBytes(tn)'
    BY <2>5 DEF HeldBytes, Held
  <2>7. up[u].size \in Nat
    BY <1>0, <2>1, ClaimsNat
  <2>8. HeldBytes(tn)' + up'[u].size <= Limit
    BY <1>1, <1>2, <2>4, <2>5, <2>7
  <2> QED
    BY <2>6, <2>8
<1> QED
  BY <1>3, <1>4, <1>5, <1>6 DEF LimitInv

(* An upload begins, or goes on to the next step of start_upload. *)
LEMMA LimitGoesOn ==
  ASSUME LimitInv, UploadsSized', NEW u \in Uploads,
         up[u].stage \notin Registered, up'[u].stage \in Starting,
         up'[u].room = up[u].room, up'[u].size = up[u].size,
         \A v \in Uploads \ {u} : up'[v] = up[v],
         UNCHANGED <<multi_tenant, rooms>>,
         overlapped \subseteq overlapped', faulted \subseteq faulted', StartsAlone',
         up'[u].stage = "summed" /\ u \notin Excused' =>
           ~multi_tenant /\ WrittenBytes <= up'[u].seen,
         up'[u].stage \in {"fits", "created"} /\ u \notin Excused' /\ Limit > 0 =>
           HeldBytes(Tenant(up[u].room)) + up[u].size <= Limit
  PROVE  LimitInv'
<1>0. UploadsSized /\ HeldWithinLimit /\ StoredIsSeen /\ RoomIsLeft /\ RowsHaveRooms
  BY DEF LimitInv
<1>1. Limit' = Limit /\ Limit \in Nat
  BY <1>0, LimitNat DEF Limit
<1>2. /\ Starting \cap Registered = {} /\ "row" \in Registered
      /\ {"fits", "created"} \subseteq Starting
  BY DEF Starting, Registered
<1>3. up'[u].stage \notin Registered /\ u \notin Rows /\ u \notin Rows'
  BY <1>2 DEF Rows, At
<1>4. \A r : Tenant(r)' = Tenant(r)
  BY DEF Tenant
<1>5. HoldsLess
  <2> SUFFICES ASSUME NEW v \in Uploads, v \notin Excused', up'[v].stage \in Registered
               PROVE  /\ up[v].stage \in Registered /\ v \notin Excused
                      /\ up'[v].room = up[v].room /\ Tenant(up[v].room)' = Tenant(up[v].room)
                      /\ Claim'[v] <= Claim[v]
    BY DEF HoldsLess
  <2>1. v # u /\ up'[v] = up[v] /\ v \notin Excused
    BY <1>3 DEF Excused
  <2>2. Claim'[v] = Claim[v] /\ Claim[v] \in Nat
    <3>1. Claim[v] \in Nat
      BY <1>0, ClaimsNat
    <3> QED
      BY <2>1, <3>1 DEF Claim, Rows, At
  <2>3. Tenant(up[v].room)' = Tenant(up[v].room)
    BY <2>1 DEF Tenant
  <2> QED
    BY <2>1, <2>2, <2>3
<1>6. \A tn : /\ HeldBytes(tn) \in Nat /\ HeldBytes(tn)' \in Nat
              /\ HeldBytes(tn)' <= HeldBytes(tn)
  BY <1>0, <1>5, HeldShrinks, ClaimsNat
<1>7. WrittenBytes \in Nat /\ WrittenBytes' \in Nat /\ WrittenBytes' <= WrittenBytes
  <2>1. \A v \in Uploads : up'[v].stage = "row" =>
          up[v].stage = "row" /\ up'[v].bytes_written = up[v].bytes_written
    BY <1>2, <1>3
  <2> QED
    BY <1>0, <2>1, RowsShrink, ClaimsNat
<1>8. HeldWithinLimit'
  <2> SUFFICES ASSUME Limit > 0, NEW tn \in Tenants PROVE HeldBytes(tn)' <= Limit
    BY <1>1 DEF HeldWithinLimit
  <2>1. HeldBytes(tn) <= Limit
    BY <1>0 DEF HeldWithinLimit
  <2> QED
    BY <1>1, <1>6, <2>1
<1>9. StoredIsSeen'
  <2> SUFFICES ASSUME NEW v \in At({"summed"})', v \notin Excused'
               PROVE  ~multi_tenant' /\ WrittenBytes' <= up'[v].seen
    BY DEF StoredIsSeen
  <2>1. v \in Uploads /\ up'[v].stage = "summed" /\ up'[v].seen \in Nat /\ v \notin Excused
    BY DEF At, UploadsSized, Sized, Upload, Excused
  <2>2. ~multi_tenant /\ WrittenBytes <= up'[v].seen
    BY <1>0, <2>1 DEF StoredIsSeen, At
  <2> QED
    BY <1>7, <2>1, <2>2
<1>10. RoomIsLeft'
  <2> SUFFICES ASSUME Limit > 0, NEW v \in At({"fits", "created"})', v \notin Excused'
               PROVE  HeldBytes(Tenant(up[v].room))' + up'[v].size <= Limit
    BY <1>1 DEF RoomIsLeft
  <2>1. /\ v \in Uploads /\ up'[v].stage \in {"fits", "created"} /\ v \notin Excused
        /\ up'[v].room = up[v].room /\ up'[v].size = up[v].size
    BY DEF At, Excused
  <2>2. PICK tn : tn = Tenant(up[v].room)
    OBVIOUS
  <2>3. HeldBytes(tn) + up[v].size <= Limit
    <3>1. HeldBytes(Tenant(up[v].room)) + up[v].size <= Limit
      BY <1>0, <2>1 DEF RoomIsLeft, At
    <3> QED
      BY <2>2, <3>1
  <2>4. Tenant(up[v].room)' = tn
    BY <2>1, <2>2 DEF Tenant
  <2>5. HeldBytes(Tenant(up[v].room))' = HeldBytes(tn)'
    BY <2>4 DEF HeldBytes, Held
  <2>6. up[v].size \in Nat
    BY <1>0, <2>1, ClaimsNat
  <2>7. HeldBytes(tn)' + up'[v].size <= Limit
    BY <1>1, <1>6, <2>1, <2>3, <2>6
  <2> QED
    BY <2>5, <2>7
<1>11. RowsHaveRooms'
  <2>1. \A v \in Rows' : v \in Rows /\ up'[v] = up[v]
    BY <1>3 DEF Rows, At
  <2> QED
    BY <1>0, <2>1 DEF RowsHaveRooms
<1> QED
  BY <1>8, <1>9, <1>10, <1>11 DEF LimitInv

(* An upload is registered: there was room for it. *)
LEMMA LimitRegistered ==
  ASSUME LimitInv, UploadsSized', NEW u \in Uploads,
         up[u].stage = "created", up'[u].stage = "pending",
         up'[u].room = up[u].room, up'[u].size = up[u].size,
         \A v \in Uploads \ {u} : up'[v] = up[v],
         UNCHANGED <<multi_tenant, rooms, overlapped>>, faulted' = faulted
  PROVE  LimitInv'
<1>0. UploadsSized /\ HeldWithinLimit /\ StartsAlone /\ RoomIsLeft /\ RowsHaveRooms
  BY DEF LimitInv
<1>1. Limit' = Limit /\ Limit \in Nat
  BY <1>0, LimitNat DEF Limit
<1>2. {"created", "summed", "fits"} \subseteq Starting /\ "pending" \notin Starting
  BY DEF Starting
<1>3. \A v \in At(Starting)' : v \in overlapped'
  <2> SUFFICES ASSUME NEW v \in At(Starting)', v \notin overlapped PROVE FALSE
    OBVIOUS
  <2>1. v \in At(Starting) /\ v # u /\ u \in At(Starting)
    BY <1>2 DEF At
  <2> QED
    BY <1>0, <2>1 DEF StartsAlone
<1>4. StartsAlone' /\ StoredIsSeen' /\ RoomIsLeft'
  <2>1. StartsAlone'
    BY <1>3 DEF StartsAlone
  <2>2. \A v \in At({"summed"})' \cup At({"fits", "created"})' : v \in Excused'
    BY <1>2, <1>3 DEF At, Excused
  <2> QED
    BY <2>1, <2>2 DEF StoredIsSeen, RoomIsLeft
<1>5. Rows' = Rows /\ RowsHaveRooms'
  <2>1. Rows' = Rows
    BY DEF Rows, At
  <2>2. \A v \in Rows : up'[v] = up[v]
    BY DEF Rows, At
  <2> QED
    BY <1>0, <2>1, <2>2 DEF RowsHaveRooms
<1>6. \A v \in Uploads : Claim'[v] = Claim[v]
  BY <1>5 DEF Claim, Rows, At
<1>7. HeldWithinLimit'
  <2> SUFFICES ASSUME Limit > 0, NEW tn \in Tenants PROVE HeldBytes(tn)' <= Limit
    BY <1>1 DEF HeldWithinLimit
  <2>1. HeldBytes(tn) <= Limit
    BY <1>0 DEF HeldWithinLimit
  <2>2. /\ \A v \in Uploads : Claim[v] \in Nat /\ Claim'[v] \in Nat /\ Claim'[v] <= Claim[v]
        /\ Held(tn) \in SUBSET Uploads /\ IsFiniteSet(Held(tn)) /\ HeldBytes(tn) \in Nat
    <3>1. /\ \A v \in Uploads : Claim[v] \in Nat
          /\ Held(tn) \in SUBSET Uploads /\ IsFiniteSet(Held(tn)) /\ HeldBytes(tn) \in Nat
      BY <1>0, ClaimsNat
    <3> QED
      BY <1>6, <3>1
  <2>3. SumFunctionOnSet(Claim', Held(tn)) <= HeldBytes(tn)
        /\ SumFunctionOnSet(Claim', Held(tn)) \in Nat
    <3> HIDE DEF Claim, Held
    <3>1. Held(tn) \in SUBSET Held(tn)
      OBVIOUS
    <3>2. SumFunctionOnSet(Claim', Held(tn)) <= SumFunctionOnSet(Claim, Held(tn))
      BY <2>2, <3>1, SumShrinks
    <3>3. SumFunctionOnSet(Claim', Held(tn)) \in Nat
      BY <2>2, SumNat
    <3> QED
      BY <3>2, <3>3 DEF HeldBytes
  <2>4. \A r : Tenant(r)' = Tenant(r)
    BY DEF Tenant
  <2>5. CASE u \notin Excused /\ (multi_tenant => Tenant(up[u].room) = tn)
    <3>1. Held(tn)' \subseteq Held(tn) \cup {u}
      <4> SUFFICES ASSUME NEW v \in Held(tn)', v # u PROVE v \in Held(tn)
        OBVIOUS
      <4>1. v \in Uploads /\ up'[v] = up[v] /\ up'[v].stage \in Registered /\ v \notin Excused
            /\ (multi_tenant => Tenant(up[v].room)' = tn)
        BY DEF Held, At, Excused
      <4>2. multi_tenant => Tenant(up[v].room) = tn
        BY <4>1 DEF Tenant
      <4> QED
        BY <4>1, <4>2 DEF Held, At
    <3>2. HeldBytes(Tenant(up[u].room)) + up[u].size <= Limit
      BY <1>0, <2>5 DEF RoomIsLeft, At
    <3>3. HeldBytes(Tenant(up[u].room)) = HeldBytes(tn)
      <4>1. Held(Tenant(up[u].room)) = Held(tn)
        BY <2>5 DEF Held
      <4> QED
        BY <4>1 DEF HeldBytes
    <3>4. Claim'[u] \in Nat /\ Claim'[u] <= up[u].size /\ up[u].size \in Nat
      BY <1>0, <1>6, ClaimsNat
    <3>5. IsFiniteSet({u}) /\ IsFiniteSet(Held(tn) \cup {u})
      BY <2>2, FS_Singleton, FS_Union
    <3> HIDE DEF Claim, Held
    <3>6. SumFunctionOnSet(Claim', {u}) = Claim'[u]
      BY <3>4, SumOfOne
    <3>7. SumFunctionOnSet(Claim', Held(tn) \cup {u})
            <= SumFunctionOnSet(Claim', Held(tn)) + SumFunctionOnSet(Claim', {u})
      BY <2>2, <3>5, SumSplits
    <3>8. SumFunctionOnSet(Claim', Held(tn)') <= SumFunctionOnSet(Claim', Held(tn) \cup {u})
      BY <2>2, <3>1, <3>5, SumShrinks
    <3>9. /\ SumFunctionOnSet(Claim', Held(tn)') \in Nat
          /\ SumFunctionOnSet(Claim', Held(tn) \cup {u}) \in Nat
      <4>1. IsFiniteSet(Held(tn)') /\ Held(tn)' \subseteq Uploads
        BY <2>2, <3>1, <3>5, FS_Subset
      <4> QED
        BY <2>2, <3>5, <4>1, SumNat
    <3>10. HeldBytes(tn)' = SumFunctionOnSet(Claim', Held(tn)')
      BY DEF HeldBytes
    <3> QED
      BY <1>1, <2>2, <2>3, <3>2, <3>3, <3>4, <3>6, <3>7, <3>8, <3>9, <3>10
  <2>6. CASE ~(u \notin Excused /\ (multi_tenant => Tenant(up[u].room) = tn))
    <3>1. Held(tn)' \subseteq Held(tn)
      <4> SUFFICES ASSUME NEW v \in Held(tn)' PROVE v \in Held(tn)
        OBVIOUS
      <4>1. /\ v \in Uploads /\ up'[v].room = up[v].room
            /\ up'[v].stage \in Registered /\ v \notin Excused
            /\ multi_tenant => Tenant(up[v].room)' = tn
        BY DEF Held, At, Excused
      <4>2. multi_tenant => Tenant(up[v].room) = tn
        BY <4>1 DEF Tenant
      <4>3. v # u
        BY <2>6, <4>1, <4>2
      <4> QED
        BY <4>1, <4>2, <4>3 DEF Held, At
    <3>2. IsFiniteSet(Held(tn)')
      BY <2>2, <3>1, FS_Subset
    <3> HIDE DEF Claim, Held
    <3>3. SumFunctionOnSet(Claim', Held(tn)') <= SumFunctionOnSet(Claim, Held(tn))
      BY <2>2, <3>1, SumShrinks
    <3>4. SumFunctionOnSet(Claim', Held(tn)') \in Nat
      BY <2>2, <3>1, <3>2, SumNat
    <3> QED
      BY <1>1, <2>1, <2>2, <3>3, <3>4 DEF HeldBytes
  <2> QED
    BY <2>5, <2>6
<1> QED
  BY <1>4, <1>5, <1>7 DEF LimitInv

(* Upload u is at stage st, and what counts of it is as it was. *)
StageIs(u, st) ==
  /\ up'[u].stage = st /\ up'[u].room = up[u].room /\ up'[u].size = up[u].size
  /\ up'[u].bytes_written = up[u].bytes_written
  /\ \A v \in Uploads \ {u} : up'[v] = up[v]

LEMMA StageMoves ==
  ASSUME UploadsSized, NEW u \in Uploads, NEW st
  PROVE  /\ Put(u, [up[u] EXCEPT !.stage = st]) => StageIs(u, st) /\ up'[u].seen = up[u].seen
         /\ \A n : Put(u, [up[u] EXCEPT !.stage = st, !.seen = n]) =>
                     StageIs(u, st) /\ up'[u].seen = n
         /\ \A n : Put(u, [up[u] EXCEPT !.stage = st, !.on_disk = n]) =>
                     StageIs(u, st) /\ up'[u].seen = up[u].seen
<1>1. up \in [Uploads -> Upload] /\ up[u] \in Upload
  BY DEF UploadsSized, UpTypeOK
<1>2. \A r : Put(u, r) => up'[u] = r /\ \A v \in Uploads \ {u} : up'[v] = up[v]
  BY <1>1 DEF Put
<1>3. ASSUME Put(u, [up[u] EXCEPT !.stage = st])
      PROVE  StageIs(u, st) /\ up'[u].seen = up[u].seen
  <2>1. up'[u] = [up[u] EXCEPT !.stage = st]
    BY <1>2, <1>3
  <2> QED
    BY <1>1, <1>2, <1>3, <2>1 DEF StageIs, Upload
<1>4. ASSUME NEW n, Put(u, [up[u] EXCEPT !.stage = st, !.seen = n])
      PROVE  StageIs(u, st) /\ up'[u].seen = n
  <2>1. up'[u] = [up[u] EXCEPT !.stage = st, !.seen = n]
    BY <1>2, <1>4
  <2> QED
    BY <1>1, <1>2, <1>4, <2>1 DEF StageIs, Upload
<1>5. ASSUME NEW n, Put(u, [up[u] EXCEPT !.stage = st, !.on_disk = n])
      PROVE  StageIs(u, st) /\ up'[u].seen = up[u].seen
  <2>1. up'[u] = [up[u] EXCEPT !.stage = st, !.on_disk = n]
    BY <1>2, <1>5
  <2> QED
    BY <1>1, <1>2, <1>5, <2>1 DEF StageIs, Upload
<1> QED
  BY <1>3, <1>4, <1>5

(* A record of which nothing that counts has changed, or that is over. *)
Alike(v) ==
  /\ up'[v].stage = up[v].stage /\ up'[v].room = up[v].room /\ up'[v].size = up[v].size
  /\ up'[v].seen = up[v].seen
  /\ up[v].stage = "row" => up'[v].bytes_written = up[v].bytes_written

LEMMA LimitQuiet ==
  ASSUME LimitInv, UploadsSized', UNCHANGED <<multi_tenant, rooms, overlapped>>,
         faulted \subseteq faulted',
         \A v \in Uploads : Alike(v) \/ up'[v].stage \notin Starting \cup Registered
  PROVE  LimitInv'
<1>0. UploadsSized /\ RowsHaveRooms
  BY DEF LimitInv
<1>1. Starting \cap Registered = {} /\ {"row", "saving", "pending"} \subseteq Registered
  BY DEF Starting, Registered
<1>2. \A v \in Uploads : up'[v].stage \in Starting \cup Registered => Alike(v)
  OBVIOUS
<1>3. \A r : Tenant(r)' = Tenant(r)
  BY DEF Tenant
<1>4. HoldsLess
  <2> SUFFICES ASSUME NEW v \in Uploads, v \notin Excused', up'[v].stage \in Registered
               PROVE  /\ up[v].stage \in Registered /\ v \notin Excused
                      /\ up'[v].room = up[v].room /\ Tenant(up[v].room)' = Tenant(up[v].room)
                      /\ Claim'[v] <= Claim[v]
    BY DEF HoldsLess
  <2>1. Alike(v) /\ v \notin Excused
    BY <1>2 DEF Excused
  <2>2. Claim'[v] = Claim[v] /\ Claim[v] \in Nat
    <3>1. Claim[v] \in Nat
      BY <1>0, ClaimsNat
    <3> QED
      BY <2>1, <3>1 DEF Claim, Rows, At, Alike
  <2>3. Tenant(up[v].room)' = Tenant(up[v].room)
    BY <2>1 DEF Tenant, Alike
  <2> QED
    BY <2>1, <2>2, <2>3 DEF Alike
<1>5. RowsHaveRooms'
  <2>1. \A v \in Rows' : v \in Rows /\ up'[v].room = up[v].room
    BY <1>1, <1>2 DEF Rows, At, Alike
  <2> QED
    BY <1>0, <2>1 DEF RowsHaveRooms
<1>6. \A v \in Uploads : up'[v].stage \in Starting =>
           up'[v].stage = up[v].stage /\ up'[v].seen = up[v].seen /\ StaysOn(v)
  <2> SUFFICES ASSUME NEW v \in Uploads, up'[v].stage \in Starting
               PROVE  up'[v].stage = up[v].stage /\ up'[v].seen = up[v].seen /\ StaysOn(v)
    OBVIOUS
  <2>1. Alike(v)
    BY <1>2
  <2>2. Tenant(up[v].room)' = Tenant(up[v].room)
    BY <2>1 DEF Tenant, Alike
  <2> QED
    BY <2>1, <2>2 DEF Alike, StaysOn
<1>7. \A v \in Uploads : up'[v].stage \in {"saving", "pending", "row"} =>
        up'[v].stage = up[v].stage /\ (up[v].stage = "row" =>
                                         up'[v].bytes_written = up[v].bytes_written)
  BY <1>1, <1>2 DEF Alike
<1> QED
  BY <1>4, <1>5, <1>6, <1>7, LimitCalm

LEMMA LimitJudged ==
  ASSUME LimitInv, UploadsSized', NEW u \in Uploads, NEW fits, Judge(u, fits),
         up[u].stage \in {"asked", "summed"},
         UNCHANGED <<multi_tenant, rooms, overlapped>>, faulted \subseteq faulted',
         fits /\ u \notin Excused' /\ Limit > 0 =>
           HeldBytes(Tenant(up[u].room)) + up[u].size <= Limit
  PROVE  LimitInv'
<1>0. UploadsSized /\ StartsAlone
  BY DEF LimitInv
<1>1. /\ {"asked", "summed", "fits"} \subseteq Starting /\ Starting \cap Registered = {}
      /\ "refused" \notin Starting \cup Registered
  BY DEF Starting, Registered
<1>2. CASE fits
  <2>1. StageIs(u, "fits")
    BY <1>0, <1>2, StageMoves DEF Judge
  <2>2. At(Starting)' = At(Starting) /\ At({"saving"})' = At({"saving"}) /\ Pending' = Pending
    BY <1>1, <2>1 DEF StageIs, At, Pending
  <2>3. StartsAlone'
    BY <1>0, <2>2 DEF StartsAlone
  <2> QED
    BY <1>1, <1>2, <2>1, <2>3, LimitGoesOn DEF StageIs
<1>3. CASE ~fits
  <2>1. StageIs(u, "refused")
    BY <1>0, <1>3, StageMoves DEF Judge
  <2>2. \A v \in Uploads : Alike(v) \/ up'[v].stage \notin Starting \cup Registered
    BY <1>1, <2>1 DEF StageIs, Alike
  <2> QED
    BY <2>2, LimitQuiet
<1> QED
  BY <1>2, <1>3

(* The sum over the table: of the rows of a tenant, or of all. *)
LEMMA StoredCovers ==
  ASSUME LimitInv, NEW u \in At({"asked"}) \ Excused
  PROVE  /\ multi_tenant => HeldBytes(Tenant(up[u].room)) <= StoredBytes(Tenant(up[u].room))
         /\ ~multi_tenant => WrittenBytes <= StoredBytes(Tenant(up[u].room))
<1> DEFINE tn == Tenant(up[u].room)
           of == {v \in Rows : multi_tenant => TenantOfRoom[up[v].room] = tn}
<1>0. UploadsSized /\ StartsAlone /\ RowsHaveRooms
  BY DEF LimitInv
<1>1. StoredBytes(tn) = SumFunctionOnSet(Written, of)
  BY DEF StoredBytes, Written
<1>2. of \in SUBSET Rows /\ (~multi_tenant => of = Rows)
  OBVIOUS
<1>3. /\ \A v \in Uploads : Written[v] \in Nat /\ Claim[v] \in Nat
      /\ Rows \in SUBSET Uploads /\ IsFiniteSet(Rows) /\ IsFiniteSet(of)
  BY <1>0, <1>2, ClaimsNat, FS_Subset
<1>4. CASE multi_tenant
  <2>1. u \in At(Starting) \ overlapped
    BY DEF At, Starting, Excused
  <2>2. At({"saving"}) = {} /\ Pending = {}
    BY <1>0, <1>4, <2>1 DEF StartsAlone
  <2>3. Held(tn) \in SUBSET of
    <3> SUFFICES ASSUME NEW v \in Held(tn) PROVE v \in of
      OBVIOUS
    <3>1. v \in Uploads /\ up[v].stage \in Registered /\ Tenant(up[v].room) = tn
      BY <1>4 DEF Held, At
    <3>2. up[v].stage = "row"
      BY <2>2, <3>1 DEF At, Pending, Registered
    <3>3. v \in Rows /\ up[v].room \in rooms
      BY <1>0, <3>1, <3>2 DEF Rows, At, RowsHaveRooms
    <3> QED
      BY <3>1, <3>3 DEF Tenant
  <2>4. \A v \in Held(tn) : Claim[v] \in Nat /\ Claim[v] <= Written[v]
    <3>1. \A v \in Held(tn) : v \in Uploads /\ v \in Rows
      BY <1>3, <2>3
    <3>2. \A v \in Held(tn) : Claim[v] = Written[v]
      BY <3>1 DEF Claim, Written
    <3> HIDE DEF Claim, Written
    <3> QED
      BY <1>3, <3>1, <3>2
  <2>5. \A v \in of : Written[v] \in Nat
    BY <1>3
  <2> HIDE DEF of, tn, Claim, Written, Held
  <2>6. SumFunctionOnSet(Claim, Held(tn)) <= SumFunctionOnSet(Written, of)
    BY <1>3, <2>3, <2>4, <2>5, SumShrinks
  <2> QED
    BY <1>1, <1>4, <2>6 DEF HeldBytes, tn
<1>5. CASE ~multi_tenant
  <2>1. StoredBytes(tn) = WrittenBytes
    BY <1>1, <1>2, <1>5 DEF WrittenBytes
  <2>2. WrittenBytes \in Nat
    BY <1>0, ClaimsNat
  <2> QED
    BY <1>5, <2>1, <2>2
<1> QED
  BY <1>4, <1>5

(* ... and that over the registered uploads, on a single server. *)
LEMMA UsedCovers ==
  ASSUME LimitInv, NEW u \in At({"summed"}) \ Excused
  PROVE  HeldBytes(Tenant(up[u].room)) <= Used(u)
<1> DEFINE tn == Tenant(up[u].room)
<1>0. UploadsSized /\ StartsAlone /\ StoredIsSeen
  BY DEF LimitInv
<1>1. u \in Uploads /\ up[u].seen \in Nat /\ WrittenBytes <= up[u].seen
  BY <1>0 DEF At, UploadsSized, Sized, Upload, StoredIsSeen
<1>2. At({"saving"}) = {}
  BY <1>0 DEF StartsAlone, At, Starting, Excused
<1>3. Held(tn) \subseteq Rows \cup Pending
  <2>1. \A v \in At(Registered) : v \in Rows \cup Pending
    BY <1>2 DEF At, Registered, Rows, Pending
  <2> QED
    BY <2>1 DEF Held
<1>4. /\ \A v \in Uploads : Claim[v] \in Nat /\ Written[v] \in Nat
      /\ Rows \in SUBSET Uploads /\ Pending \in SUBSET Uploads
      /\ IsFiniteSet(Rows) /\ WrittenBytes \in Nat /\ HeldBytes(tn) \in Nat
      /\ \A v \in Uploads : up[v].size \in Nat
  BY <1>0, ClaimsNat DEF Pending, At
<1>5. IsFiniteSet(Pending) /\ IsFiniteSet(Rows \cup Pending)
  BY <1>4, UploadsAssumption, FS_Subset, FS_Union
<1>6. SumFunctionOnSet(Claim, Rows) <= WrittenBytes
  <2>1. \A v \in Rows : Claim[v] \in Nat /\ Claim[v] <= Written[v]
    <3>1. \A v \in Rows : v \in Uploads /\ Claim[v] = Written[v]
      BY <1>4 DEF Claim, Written
    <3> HIDE DEF Claim, Written
    <3> QED
      BY <1>4, <3>1
  <2>2. \A v \in Rows : Written[v] \in Nat
    BY <1>4
  <2>3. Rows \in SUBSET Rows
    OBVIOUS
  <2> HIDE DEF Claim, Written, Rows
  <2>4. SumFunctionOnSet(Claim, Rows) <= SumFunctionOnSet(Written, Rows)
    BY <1>4, <2>1, <2>2, <2>3, SumShrinks
  <2> QED
    BY <2>4 DEF WrittenBytes
<1>7. SumFunctionOnSet(Claim, Pending) <= PendingBytes
  <2> DEFINE sizes == [v \in Uploads |-> up[v].size]
  <2>1. \A v \in Pending : Claim[v] \in Nat /\ Claim[v] <= sizes[v] /\ sizes[v] \in Nat
    <3>1. \A v \in Uploads : Claim[v] <= up[v].size
      BY <1>0, ClaimsNat
    <3>2. \A v \in Pending : v \in Uploads /\ sizes[v] = up[v].size
      BY <1>4
    <3> HIDE DEF Claim, sizes, Pending
    <3> QED
      BY <1>4, <3>1, <3>2
  <2>2. PendingBytes = SumFunctionOnSet(sizes, Pending)
    BY DEF PendingBytes
  <2>3. Pending \in SUBSET Pending
    OBVIOUS
  <2> HIDE DEF Claim, sizes, Pending
  <2>4. SumFunctionOnSet(Claim, Pending) <= SumFunctionOnSet(sizes, Pending)
    BY <1>5, <2>1, <2>3, SumShrinks
  <2> QED
    BY <2>2, <2>4
<1>8. SumFunctionOnSet(Claim, Rows) \in Nat /\ SumFunctionOnSet(Claim, Pending) \in Nat
      /\ SumFunctionOnSet(Claim, Rows \cup Pending) \in Nat /\ PendingBytes \in Nat
  <2>1. \A v \in Rows \cup Pending : Claim[v] \in Nat
    BY <1>4
  <2> HIDE DEF Claim, Rows, Pending
  <2> QED
    BY <1>0, <1>4, <1>5, <2>1, SumNat, StoredBytesNat
<1>9. SumFunctionOnSet(Claim, Rows \cup Pending)
        <= SumFunctionOnSet(Claim, Rows) + SumFunctionOnSet(Claim, Pending)
  <2>1. \A v \in Rows \cup Pending : Claim[v] \in Nat
    BY <1>4
  <2> HIDE DEF Claim, Rows, Pending
  <2> QED
    BY <1>4, <1>5, <2>1, SumSplits
<1>10. HeldBytes(tn) <= SumFunctionOnSet(Claim, Rows \cup Pending)
  <2>1. \A v \in Rows \cup Pending : Claim[v] \in Nat
    BY <1>4
  <2>2. \A v \in Held(tn) : Claim[v] \in Nat /\ Claim[v] <= Claim[v]
    BY <1>3, <2>1
  <2> HIDE DEF Claim, Rows, Pending, Held
  <2>3. SumFunctionOnSet(Claim, Held(tn)) <= SumFunctionOnSet(Claim, Rows \cup Pending)
    BY <1>3, <1>5, <2>1, <2>2, SumShrinks
  <2> QED
    BY <2>3 DEF HeldBytes
<1> HIDE DEF tn
<1>11. HeldBytes(tn) <= up[u].seen + PendingBytes
  BY <1>1, <1>4, <1>6, <1>7, <1>8, <1>9, <1>10
<1> QED
  BY <1>11 DEF Used, tn

LEMMA LimitSumStored ==
  ASSUME LimitInv, UploadsSized', NEW u \in Uploads, SumStored(u)
  PROVE  LimitInv'
<1>0. UploadsSized /\ StartsAlone /\ up[u].stage = "asked"
      /\ UNCHANGED <<multi_tenant, rooms, overlapped>>
  BY DEF LimitInv, SumStored
<1> DEFINE total == StoredBytes(Tenant(up[u].room))
<1>1. PICK n \in {total, 0} :
        /\ IF multi_tenant THEN Judge(u, Fits(u, n))
           ELSE Put(u, [up[u] EXCEPT !.stage = "summed", !.seen = n])
        /\ IF n = total THEN NoFault ELSE Fault({u})
  BY DEF SumStored
<1>2. /\ u \in At({"asked"}) /\ faulted \subseteq faulted'
      /\ u \notin Excused' => u \notin Excused /\ n = total
  BY <1>0, <1>1 DEF At, NoFault, Fault, Excused
<1>3. u \notin Excused' =>
        /\ multi_tenant => HeldBytes(Tenant(up[u].room)) <= n
        /\ ~multi_tenant => WrittenBytes <= n
  BY <1>2, StoredCovers
<1>4. n \in Nat /\ HeldBytes(Tenant(up[u].room)) \in Nat /\ up[u].size \in Nat /\ Limit \in Nat
  BY <1>0, StoredBytesNat, ClaimsNat, LimitNat
<1> HIDE DEF total
<1>5. CASE multi_tenant
  <2> DEFINE fits == Fits(u, n)
  <2>1. fits /\ u \notin Excused' /\ Limit > 0 =>
          HeldBytes(Tenant(up[u].room)) + up[u].size <= Limit
    BY <1>3, <1>4, <1>5 DEF Fits
  <2>2. Judge(u, fits)
    BY <1>1, <1>5
  <2> HIDE DEF fits
  <2> QED
    BY <1>0, <1>2, <2>1, <2>2, LimitJudged
<1>6. CASE ~multi_tenant
  <2>1. StageIs(u, "summed") /\ up'[u].seen = n
    BY <1>0, <1>1, <1>6, StageMoves
  <2>2. {"asked", "summed"} \subseteq Starting /\ Starting \cap Registered = {}
    BY DEF Starting, Registered
  <2>3. At(Starting)' = At(Starting) /\ At({"saving"})' = At({"saving"}) /\ Pending' = Pending
    BY <1>0, <2>1, <2>2 DEF StageIs, At, Pending
  <2>4. StartsAlone'
    BY <1>0, <2>3 DEF StartsAlone
  <2> QED
    BY <1>0, <1>2, <1>3, <1>6, <2>1, <2>2, <2>4, LimitGoesOn DEF StageIs
<1> QED
  BY <1>5, <1>6

LEMMA LimitStart ==
  ASSUME LimitInv, UploadsSized', NEW u \in Uploads, SumPending(u) \/ CreateFile(u) \/ Register(u)
  PROVE  LimitInv'
<1>0. UploadsSized /\ StartsAlone /\ UNCHANGED <<multi_tenant, rooms, overlapped>>
  BY DEF LimitInv, SumPending, CreateFile, Register
<1>1. /\ {"asked", "summed", "fits", "created"} \subseteq Starting /\ Starting \cap Registered = {}
      /\ "refused" \notin Starting \cup Registered
  BY DEF Starting, Registered
<1>2. CASE SumPending(u)
  <2> DEFINE fits == FileLimit = 0 \/ Fits(u, Used(u))
  <2>1. up[u].stage = "summed" /\ Judge(u, fits) /\ faulted' = faulted
    BY <1>2 DEF SumPending, NoFault
  <2>2. ASSUME fits, u \notin Excused', Limit > 0
        PROVE  HeldBytes(Tenant(up[u].room)) + up[u].size <= Limit
    <3>1. u \in At({"summed"}) \ Excused
      BY <1>0, <2>1, <2>2 DEF At, Excused
    <3>2. HeldBytes(Tenant(up[u].room)) <= Used(u)
      BY <3>1, StoredCovers, UsedCovers
    <3>3. FileLimit # 0
      <4>1. ~multi_tenant
        BY <3>1 DEF LimitInv, StoredIsSeen
      <4> QED
        BY <2>2, <4>1 DEF Limit
    <3>4. Used(u) + up[u].size <= Limit
      BY <2>2, <3>3 DEF Fits
    <3>5. /\ HeldBytes(Tenant(up[u].room)) \in Nat /\ up[u].size \in Nat /\ Limit \in Nat
          /\ Used(u) \in Nat
      <4>1. up[u].seen \in Nat /\ PendingBytes \in Nat
        BY <1>0, StoredBytesNat DEF UploadsSized, Sized, Upload
      <4> QED
        BY <1>0, <4>1, ClaimsNat, LimitNat DEF Used
    <3> QED
      BY <3>2, <3>4, <3>5
  <2> HIDE DEF fits
  <2> QED
    BY <1>0, <2>1, <2>2, LimitJudged
<1>3. CASE CreateFile(u)
  <2>1. up[u].stage = "fits" /\ faulted \subseteq faulted'
    BY <1>3 DEF CreateFile, NoFault, Fault
  <2>2. CASE Put(u, [up[u] EXCEPT !.stage = "created", !.on_disk = 0])
    <3>1. StageIs(u, "created")
      BY <1>0, <2>2, StageMoves
    <3>2. At(Starting)' = At(Starting) /\ At({"saving"})' = At({"saving"}) /\ Pending' = Pending
      BY <1>1, <2>1, <3>1 DEF StageIs, At, Pending
    <3>3. StartsAlone'
      BY <1>0, <3>2 DEF StartsAlone
    <3>4. u \notin Excused' /\ Limit > 0 => HeldBytes(Tenant(up[u].room)) + up[u].size <= Limit
      BY <1>0, <2>1 DEF LimitInv, RoomIsLeft, At, Excused
    <3> QED
      BY <1>0, <1>1, <2>1, <3>1, <3>3, <3>4, LimitGoesOn DEF StageIs
  <2>3. CASE Put(u, [up[u] EXCEPT !.stage = "refused"])
    <3>1. StageIs(u, "refused")
      BY <1>0, <2>3, StageMoves
    <3>2. \A v \in Uploads : Alike(v) \/ up'[v].stage \notin Starting \cup Registered
      BY <1>1, <3>1 DEF StageIs, Alike
    <3> QED
      BY <1>0, <2>1, <3>2, LimitQuiet
  <2> QED
    BY <1>3, <2>2, <2>3 DEF CreateFile
<1>4. CASE Register(u)
  <2>1. up[u].stage = "created" /\ Put(u, [up[u] EXCEPT !.stage = "pending"]) /\ faulted' = faulted
    BY <1>4 DEF Register, NoFault
  <2>2. StageIs(u, "pending")
    BY <1>0, <2>1, StageMoves
  <2> QED
    BY <1>0, <2>1, <2>2, LimitRegistered DEF StageIs
<1> QED
  BY <1>2, <1>3, <1>4

(* The end of an upload, and the saving of it: what is in start_upload is
   overlapped then. *)
LEMMA LimitTransfer ==
  ASSUME LimitInv, UploadsSized', NEW u \in Uploads,
         FileUploadChunk(u) \/ FileUploadComplete(u) \/ SaveRoomFile(u)
  PROVE  LimitInv'
<1>0. /\ UploadsSized /\ RowsHaveRooms /\ UNCHANGED <<multi_tenant, rooms>>
      /\ faulted \subseteq faulted' /\ overlapped \subseteq overlapped'
  BY DEF LimitInv, FileUploadChunk, FileUploadComplete, SaveRoomFile, NoFault, Fault, line
<1>1. /\ Starting \cap Registered = {} /\ {"pending", "saving", "row"} \subseteq Registered
      /\ "dropped" \notin Starting \cup Registered
  BY DEF Starting, Registered
<1>2. \A r : Tenant(r)' = Tenant(r)
  BY <1>0 DEF Tenant
<1>3. /\ \A v \in Uploads : Claim[v] \in Nat /\ Claim[v] <= up[v].size
      /\ \A v \in Uploads : up[v].bytes_written <= up[v].size
      /\ \A v \in Uploads : up[v].size \in Nat /\ up[v].bytes_written \in Nat
  BY <1>0, ClaimsNat DEF UploadsSized, Sized
<1>4. ASSUME NEW st \in {"saving", "row"}, StageIs(u, st),
             up[u].stage = (IF st = "saving" THEN "pending" ELSE "saving"),
             st = "saving" => At(Starting) \subseteq overlapped',
             st = "row" => up[u].room \in rooms
      PROVE  LimitInv'
  <2>1. \A v \in Uploads \ {u} : up'[v] = up[v]
    BY <1>4 DEF StageIs
  <2>2. Claim'[u] <= Claim[u]
    <3>1. Claim[u] = up[u].size
      BY <1>4 DEF Claim, Rows, At
    <3>2. Claim'[u] = IF st = "row" THEN up[u].bytes_written ELSE up[u].size
      BY <1>4 DEF Claim, Rows, At, StageIs
    <3> QED
      BY <1>3, <3>1, <3>2
  <2>3. \A v \in Uploads \ {u} : Claim'[v] = Claim[v]
    BY <2>1 DEF Claim, Rows, At
  <2>4. HoldsLess
    <3> SUFFICES ASSUME NEW v \in Uploads, v \notin Excused', up'[v].stage \in Registered
                 PROVE  /\ up[v].stage \in Registered /\ v \notin Excused
                        /\ up'[v].room = up[v].room
                        /\ Tenant(up[v].room)' = Tenant(up[v].room)
                        /\ Claim'[v] <= Claim[v]
      BY DEF HoldsLess
    <3>1. /\ up[v].stage \in Registered /\ v \notin Excused /\ up'[v].room = up[v].room
      BY <1>0, <1>1, <1>4, <2>1 DEF StageIs, Excused
    <3>2. Tenant(up[v].room)' = Tenant(up[v].room)
      BY <1>0, <3>1 DEF Tenant
    <3>3. Claim'[v] <= Claim[v]
      <4>1. CASE v = u
        BY <2>2, <4>1
      <4>2. CASE v # u
        <5>1. Claim'[v] = Claim[v] /\ Claim[v] \in Nat
          BY <1>3, <2>3, <4>2
        <5> QED
          BY <5>1
      <4> QED
        BY <4>1, <4>2
    <3> QED
      BY <3>1, <3>2, <3>3
  <2>5. RowsHaveRooms'
    <3>1. \A v \in Rows' : up'[v].room \in rooms
      BY <1>0, <1>4, <2>1 DEF Rows, At, RowsHaveRooms, StageIs
    <3> QED
      BY <1>0, <3>1 DEF RowsHaveRooms
  <2>6. \A v \in Uploads : up'[v].stage \in Starting =>
           up'[v].stage = up[v].stage /\ up'[v].seen = up[v].seen /\ StaysOn(v)
    <3> SUFFICES ASSUME NEW v \in Uploads, up'[v].stage \in Starting
                 PROVE  /\ up'[v].stage = up[v].stage /\ up'[v].seen = up[v].seen
                        /\ StaysOn(v)
      OBVIOUS
    <3>1. v # u /\ up'[v] = up[v]
      BY <1>1, <1>4, <2>1 DEF StageIs
    <3>2. Tenant(up[v].room)' = Tenant(up[v].room)
      BY <1>0, <3>1 DEF Tenant
    <3> QED
      BY <3>1, <3>2 DEF StaysOn
  <2>7. /\ \A v \in Uploads : up'[v].stage = "saving" =>
             up[v].stage = "saving" \/ At(Starting) \subseteq overlapped'
        /\ \A v \in Uploads : up'[v].stage = "pending" => up[v].stage = "pending"
        /\ \A v \in Uploads : up'[v].stage = "row" =>
             /\ up[v].stage \in {"row", "saving"}
             /\ up'[v].bytes_written = up[v].bytes_written
    BY <1>4, <2>1 DEF StageIs
  <2> QED
    BY <1>0, <2>4, <2>5, <2>6, <2>7, LimitCalm
<1>5. ASSUME overlapped' = overlapped, NEW r, Put(u, r),
             \/ /\ r.stage = up[u].stage /\ r.room = up[u].room /\ r.size = up[u].size
                /\ r.seen = up[u].seen /\ up[u].stage = "pending"
             \/ r.stage = "dropped"
      PROVE  LimitInv'
  <2>1. up'[u] = r /\ \A v \in Uploads \ {u} : up'[v] = up[v]
    BY <1>0, <1>5 DEF Put, UploadsSized, UpTypeOK
  <2>2. \A v \in Uploads : Alike(v) \/ up'[v].stage \notin Starting \cup Registered
    BY <1>1, <1>5, <2>1 DEF Alike
  <2> QED
    BY <1>0, <1>5, <2>2, LimitQuiet
<1>6. up[u] \in Upload
  BY <1>0 DEF UploadsSized, UpTypeOK
<1>7. CASE FileUploadChunk(u)
  <2>1. /\ up[u].stage = "pending" /\ overlapped' = overlapped
        /\ \/ Put(u, Drop(u)) \/ Put(u, Wrote(u))
           \/ \E n \in {0, 1} : Put(u, WroteInPart(u, n))
    BY <1>7 DEF FileUploadChunk
  <2>2. Drop(u).stage = "dropped"
    BY <1>6 DEF Drop, Gone, Upload
  <2>3. /\ Wrote(u).stage = up[u].stage /\ Wrote(u).room = up[u].room
        /\ Wrote(u).size = up[u].size /\ Wrote(u).seen = up[u].seen
    BY <1>6 DEF Wrote, Upload
  <2>4. ASSUME NEW n \in {0, 1}
        PROVE  /\ WroteInPart(u, n).stage = up[u].stage /\ WroteInPart(u, n).room = up[u].room
               /\ WroteInPart(u, n).size = up[u].size /\ WroteInPart(u, n).seen = up[u].seen
    BY <1>6 DEF WroteInPart, Upload
  <2> QED
    BY <1>5, <2>1, <2>2, <2>3, <2>4
<1>8. CASE FileUploadComplete(u)
  <2>1. /\ up[u].stage = "pending" /\ Put(u, [up[u] EXCEPT !.stage = "saving"])
        /\ overlapped' = overlapped \cup At(Starting)
    BY <1>8 DEF FileUploadComplete
  <2>2. StageIs(u, "saving")
    BY <1>0, <2>1, StageMoves
  <2> QED
    BY <1>4, <2>1, <2>2
<1>9. CASE SaveRoomFile(u)
  <2>1. /\ up[u].stage = "saving" /\ overlapped' = overlapped
        /\ \/ up[u].room \in rooms /\ Put(u, [up[u] EXCEPT !.stage = "row"])
           \/ Put(u, Gone(up[u], up[u].on_disk))
    BY <1>9 DEF SaveRoomFile
  <2>2. Gone(up[u], up[u].on_disk).stage = "dropped"
    BY <1>6 DEF Gone, Upload
  <2>3. Put(u, [up[u] EXCEPT !.stage = "row"]) => StageIs(u, "row")
    BY <1>0, StageMoves
  <2> QED
    BY <1>4, <1>5, <2>1, <2>2, <2>3
<1> QED
  BY <1>7, <1>8, <1>9

(* file_upload_start: an upload begins alone, or it is overlapped and with it
   every other in start_upload. *)
LEMMA LimitClientStep ==
  ASSUME UploadsInv, LimitInv, UploadsSized', NEW c \in Clients,
         \/ Connect(c) \/ Close(c) \/ FileUploadStart(c) \/ HandleAck(c)
         \/ \E u \in Uploads, r \in Rooms, n \in 1..(MaxUpload + 1) : UploadFile(c, u, r, n)
  PROVE  LimitInv'
<1>0. /\ UploadTypes /\ LineInv /\ UploadsSized /\ StartsAlone
      /\ UNCHANGED <<multi_tenant, rooms, faulted>>
      /\ up \in [Uploads -> Upload]
  BY DEF UploadsInv, LimitInv, UploadsSized, UpTypeOK, Connect, Close, FileUploadStart,
    HandleAck, UploadFile, NoFault
<1>1. /\ "asked" \in Starting /\ Starting \cap Registered = {} /\ "pending" \in Registered
      /\ "saving" \in Registered
      /\ "refused" \notin Starting \cup Registered /\ "sent" \notin Starting \cup Registered
  BY DEF Starting, Registered
<1>2. CASE Connect(c) \/ Close(c)
  <2>1. up' = up /\ overlapped' = overlapped
    BY <1>2 DEF Connect, Close
  <2>2. \A v \in Uploads : Alike(v)
    BY <2>1 DEF Alike
  <2> QED
    BY <1>0, <2>1, <2>2, LimitQuiet
<1>3. CASE FileUploadStart(c)
  <2> DEFINE u == Head(asks[c])
  <2>1. u \in Uploads /\ up[u].stage = "sent"
    <3>1. PICK v \in Uploads : TakenUp(c, v)
      BY <1>0, <1>3, TakenUpEffect
    <3> QED
      BY <3>1 DEF TakenUp
  <2>2. \/ /\ Put(u, [up[u] EXCEPT !.stage = "asked"])
           /\ overlapped' = IF Unseen = {} THEN overlapped
                            ELSE overlapped \cup {u} \cup At(Starting)
        \/ /\ Put(u, [up[u] EXCEPT !.stage = "refused"])
           /\ overlapped' = overlapped
    BY <1>3 DEF FileUploadStart
  <2> HIDE DEF u
  <2>3. CASE Put(u, [up[u] EXCEPT !.stage = "refused"]) /\ overlapped' = overlapped
    <3>1. StageIs(u, "refused")
      BY <1>0, <2>1, <2>3, StageMoves
    <3>2. \A v \in Uploads : Alike(v) \/ up'[v].stage \notin Starting \cup Registered
      BY <1>1, <3>1 DEF StageIs, Alike
    <3> QED
      BY <1>0, <2>3, <3>2, LimitQuiet
  <2>4. CASE /\ Put(u, [up[u] EXCEPT !.stage = "asked"])
             /\ overlapped' = IF Unseen = {} THEN overlapped
                              ELSE overlapped \cup {u} \cup At(Starting)
    <3>1. StageIs(u, "asked")
      BY <1>0, <2>1, <2>4, StageMoves
    <3>2. /\ At(Starting)' = At(Starting) \cup {u}
          /\ At({"saving"})' = At({"saving"}) /\ Pending' = Pending
      BY <1>1, <2>1, <3>1 DEF StageIs, At, Pending
    <3>3. StartsAlone'
      <4>1. CASE Unseen = {}
        <5>1. /\ At(Starting) = {} /\ At({"saving"}) = {}
              /\ multi_tenant => Pending = {}
          BY <4>1 DEF Unseen, At, Pending
        <5> QED
          BY <1>0, <3>2, <5>1 DEF StartsAlone
      <4>2. CASE Unseen # {}
        BY <2>4, <3>2, <4>2 DEF StartsAlone
      <4> QED
        BY <4>1, <4>2
    <3>4. overlapped \subseteq overlapped'
      BY <2>4
    <3> QED
      BY <1>0, <1>1, <2>1, <3>1, <3>3, <3>4, LimitGoesOn DEF StageIs
  <2> QED
    BY <2>2, <2>3, <2>4
<1>4. CASE HandleAck(c)
  <2>1. /\ overlapped' = overlapped
        /\ up' = up \/ up' = [up EXCEPT ![Head(acks[c]).upload].data = slot[c]]
    BY <1>4 DEF HandleAck
  <2>2. ASSUME NEW v \in Uploads PROVE Alike(v)
    <3>1. up'[v] = up[v] \/ up'[v] = [up[v] EXCEPT !.data = slot[c]]
      BY <1>0, <2>1
    <3>2. up[v] \in Upload
      BY <1>0
    <3> QED
      BY <3>1, <3>2 DEF Alike, Upload
  <2> QED
    BY <1>0, <2>1, <2>2, LimitQuiet
<1>5. ASSUME NEW u \in Uploads, NEW r \in Rooms, NEW n \in 1..(MaxUpload + 1),
             UploadFile(c, u, r, n)
      PROVE  LimitInv'
  <2>1. /\ Put(u, [up[u] EXCEPT !.stage = "sent", !.conn = c, !.room = r, !.size = n])
        /\ overlapped' = overlapped
    BY <1>5 DEF UploadFile
  <2>2. up'[u].stage = "sent" /\ \A v \in Uploads \ {u} : up'[v] = up[v]
    <3>1. up[u] \in Upload
      BY <1>0
    <3> QED
      BY <1>0, <2>1, <3>1 DEF Put, Upload
  <2>3. \A v \in Uploads : Alike(v) \/ up'[v].stage \notin Starting \cup Registered
    BY <1>1, <2>2 DEF Alike
  <2> QED
    BY <1>0, <2>1, <2>3, LimitQuiet
<1> QED
  BY <1>2, <1>3, <1>4, <1>5

(* A room that goes takes its uploads out of the sums. *)
LEMMA LimitDeleteRoom ==
  ASSUME LimitInv, UploadsSized', NEW gone \in Rooms, DeleteRoom(gone)
  PROVE  LimitInv'
<1> DEFINE of == {u \in Uploads : up[u].stage # "none" /\ up[u].room = gone}
<1>0. /\ UploadsSized /\ RowsHaveRooms /\ up \in [Uploads -> Upload]
      /\ UNCHANGED <<multi_tenant, overlapped>> /\ rooms' = rooms \ {gone}
      /\ up' = [u \in Uploads |-> IF u \in of \cap Rows
                                  THEN Gone(up[u], up[u].on_disk) ELSE up[u]]
      /\ faulted' = faulted \cup of
  BY DEF LimitInv, UploadsSized, UpTypeOK, DeleteRoom, Fault
<1>1. /\ Starting \cap Registered = {} /\ {"pending", "saving", "row"} \subseteq Registered
      /\ "dropped" \notin Starting \cup Registered /\ "none" \notin Starting \cup Registered
  BY DEF Starting, Registered
<1>2. \A v \in Uploads : up'[v] = up[v] \/ (v \in of \cap Rows /\ up'[v].stage = "dropped")
  BY <1>0 DEF Gone, Upload
<1>3. \A v \in Uploads : up'[v].stage \in Starting \cup Registered => up'[v] = up[v]
  BY <1>1, <1>2
<1>4. ASSUME NEW v \in Uploads, up'[v].stage \in Starting \cup Registered, v \notin faulted'
      PROVE  Tenant(up[v].room)' = Tenant(up[v].room)
  <2>1. up'[v] = up[v] /\ up[v].room # gone
    BY <1>0, <1>1, <1>3, <1>4
  <2> QED
    BY <1>0, <2>1 DEF Tenant
<1>5. HoldsLess
  <2> SUFFICES ASSUME NEW v \in Uploads, v \notin Excused', up'[v].stage \in Registered
               PROVE  /\ up[v].stage \in Registered /\ v \notin Excused
                      /\ up'[v].room = up[v].room
                      /\ Tenant(up[v].room)' = Tenant(up[v].room)
                      /\ Claim'[v] <= Claim[v]
    BY DEF HoldsLess
  <2>1. up'[v] = up[v] /\ v \notin Excused /\ v \notin faulted'
    BY <1>0, <1>3 DEF Excused
  <2>2. Tenant(up[v].room)' = Tenant(up[v].room)
    BY <1>4, <2>1
  <2>3. Claim'[v] = Claim[v] /\ Claim[v] \in Nat
    <3>1. Claim[v] \in Nat
      BY <1>0, ClaimsNat
    <3> QED
      BY <2>1, <3>1 DEF Claim, Rows, At
  <2> QED
    BY <2>1, <2>2, <2>3
<1>6. RowsHaveRooms'
  <2> SUFFICES ASSUME NEW v \in Rows' PROVE up'[v].room \in rooms'
    BY DEF RowsHaveRooms
  <2>1. v \in Uploads /\ up'[v] = up[v] /\ up[v].stage = "row"
    BY <1>1, <1>3 DEF Rows, At
  <2>2. v \in Rows /\ v \notin of
    <3>1. v \in Rows
      BY <2>1 DEF Rows, At
    <3>2. up'[v].stage # "dropped"
      BY <2>1
    <3>3. v \in of => up'[v] = Gone(up[v], up[v].on_disk)
      BY <1>0, <2>1, <3>1
    <3>4. up[v] \in Upload
      BY <1>0, <2>1
    <3> QED
      BY <3>1, <3>2, <3>3, <3>4 DEF Gone, Upload
  <2>3. up[v].room # gone /\ up[v].room \in rooms
    BY <1>0, <2>1, <2>2 DEF RowsHaveRooms
  <2> QED
    BY <1>0, <2>1, <2>3
<1>7. \A v \in Uploads : up'[v].stage \in Starting =>
           up'[v].stage = up[v].stage /\ up'[v].seen = up[v].seen /\ StaysOn(v)
  BY <1>3, <1>4 DEF StaysOn
<1>8. \A v \in Uploads : up'[v].stage \in {"saving", "pending", "row"} => up'[v] = up[v]
  BY <1>1, <1>3
<1>9. overlapped \subseteq overlapped' /\ faulted \subseteq faulted' /\ multi_tenant' = multi_tenant
  BY <1>0
<1> HIDE DEF of
<1> QED
  BY <1>5, <1>6, <1>7, <1>8, <1>9, LimitCalm

LEMMA LimitInvStep == UploadsInv /\ LimitInv /\ [UpNext]_upVars => LimitInv'
<1> SUFFICES ASSUME UploadsInv, LimitInv, [UpNext]_upVars PROVE LimitInv'
  OBVIOUS
<1>1. UploadsSized /\ UploadsSized' /\ up \in [Uploads -> Upload]
  BY UploadsSizedStep DEF LimitInv, UploadsSized, UpTypeOK
<1>2. CASE Restart
  <2>1. /\ UNCHANGED <<multi_tenant, rooms, overlapped>> /\ faulted \subseteq faulted'
        /\ up' = [u \in Uploads |-> IF u \in At(Starting \cup {"pending", "saving"})
                                    THEN Gone(up[u], up[u].on_disk) ELSE up[u]]
    BY <1>2 DEF Restart, Fault
  <2>2. "dropped" \notin Starting \cup Registered
    BY DEF Starting, Registered
  <2>3. \A v \in Uploads : Alike(v) \/ up'[v].stage \notin Starting \cup Registered
    <3>1. \A v \in Uploads : up'[v] = up[v] \/ up'[v] = Gone(up[v], up[v].on_disk)
      BY <2>1
    <3>2. \A v \in Uploads : Gone(up[v], up[v].on_disk).stage = "dropped"
      BY <1>1 DEF Gone, Upload
    <3> QED
      BY <2>2, <3>1, <3>2 DEF Alike
  <2> QED
    BY <1>1, <2>1, <2>3, LimitQuiet
<1>3. CASE UNCHANGED upVars
  <2>1. UNCHANGED <<multi_tenant, rooms, overlapped, faulted, up>>
    BY <1>3 DEF upVars
  <2>2. \A v \in Uploads : Alike(v)
    BY <2>1 DEF Alike
  <2> QED
    BY <1>1, <2>1, <2>2, LimitQuiet
<1> QED
  BY <1>1, <1>2, <1>3, LimitClientStep, LimitSumStored, LimitStart, LimitTransfer,
    LimitDeleteRoom DEF UpNext

(* Every variable of Uploads has its type, and no upload is longer than was
   declared, nor, once it is let in, than max_upload_size. *)
THEOREM UploadsTyped == UpSpec => []UpTypeOK
<1>1. UploadsInv /\ UploadsSized /\ [UpNext]_upVars => UploadsSized'
  BY UploadsSizedStep
<1>2. UploadsSized => UpTypeOK
  BY DEF UploadsSized
<1> QED
  BY <1>1, <1>2, UploadsInvInit, UploadsInvStep, UploadsSizedInit, PTL DEF UpSpec

(* What a tenant, or a single server, has stored and registered stays within the
   limit, for any number of uploads of any size, clients, rooms, tenants and
   deletions, of all uploads the check could see (files/handler.rs:71). *)
THEOREM StorageHolds == UpSpec => []LimitUpToUnseen
<1>1. LimitInv => LimitUpToUnseen
  <2> SUFFICES ASSUME LimitInv, Limit > 0, NEW tn \in Tenants
               PROVE  SumFunctionOnSet(Claim,
                        {u \in (Rows \cup Pending) \ (overlapped \cup faulted) :
                           multi_tenant => Tenant(up[u].room) = tn}) <= Limit
    BY DEF LimitUpToUnseen
  <2> DEFINE seen_by_check == {u \in (Rows \cup Pending) \ (overlapped \cup faulted) :
                                 multi_tenant => Tenant(up[u].room) = tn}
  <2>1. /\ HeldBytes(tn) <= Limit /\ HeldBytes(tn) \in Nat /\ Limit \in Nat
        /\ IsFiniteSet(Held(tn)) /\ \A v \in Held(tn) : Claim[v] \in Nat /\ Claim[v] <= Claim[v]
    <3>1. /\ HeldBytes(tn) <= Limit /\ HeldBytes(tn) \in Nat /\ Limit \in Nat
          /\ IsFiniteSet(Held(tn)) /\ Held(tn) \in SUBSET Uploads
          /\ \A v \in Uploads : Claim[v] \in Nat
      BY ClaimsNat, LimitNat DEF LimitInv, HeldWithinLimit
    <3>2. \A v \in Held(tn) : Claim[v] \in Nat
      BY <3>1
    <3> HIDE DEF Claim
    <3> QED
      BY <3>1, <3>2
  <2>2. seen_by_check \in SUBSET Held(tn)
    BY DEF Held, At, Rows, Pending, Registered, Excused
  <2>3. IsFiniteSet(seen_by_check)
    BY <2>1, <2>2, FS_Subset
  <2> HIDE DEF seen_by_check, Claim, Held
  <2>4. /\ SumFunctionOnSet(Claim, seen_by_check) <= SumFunctionOnSet(Claim, Held(tn))
        /\ SumFunctionOnSet(Claim, seen_by_check) \in Nat
    BY <2>1, <2>2, <2>3, SumShrinks, SumNat
  <2> QED
    BY <2>1, <2>4 DEF seen_by_check, HeldBytes
<1> QED
  BY <1>1, UploadsInvInit, UploadsInvStep, LimitInvInit, LimitInvStep, PTL DEF UpSpec

----------------------------------------------------------------------------
(* Chat: what the tables, tasks and sessions hold between steps               *)

(* Every message anywhere was taken up, and the ids number the messages. *)
Known ==
  /\ IsFiniteSet(taken)
  /\ \A m \in taken : m.id <= Cardinality(taken)
  /\ \A c \in Conns : \A i \in DOMAIN job[c] : job[c][i] \in taken
  /\ \A c \in Conns : \A i \in DOMAIN inbox[c] : inbox[c][i] \in taken
  /\ \A a \in Accounts : \A i \in DOMAIN stored[a] :
       stored[a][i] \in taken /\ stored[a][i].to = a

(* A task holds the newest message of its client, or rows of its account. *)
JobFits(c) ==
  /\ stage[c] \in Posting =>
       /\ Len(job[c]) = 1 /\ job[c][1].via = c
       /\ job[c][1].to = Room <=> stage[c] = "broadcast"
       /\ \A m \in taken : m.via = c /\ m # job[c][1] => m.id < job[c][1].id
  /\ stage[c] = "sending" =>
       job[c] # <<>> /\ \A i \in DOMAIN job[c] : job[c][i].to = AccountOf[c]
  /\ stage[c] \notin Posting \cup {"sending"} => job[c] = <<>>

SessionsFit ==
  \A a \in Accounts : users[a] # None =>
    AccountOf[users[a]] = a /\ stage[users[a]] \notin {"new", "closed"}

ChatFits == OMTypeOK /\ Known /\ (\A c \in Conns : JobFits(c)) /\ SessionsFit

LEMMA ChatFitsInit == OMInit => ChatFits
<1> SUFFICES ASSUME OMInit PROVE ChatFits
  OBVIOUS
<1>1. OMTypeOK
  BY ChatAssumption DEF OMInit, OMTypeOK, ChatStages
<1>2. IsFiniteSet(taken)
  BY FS_EmptySet DEF OMInit
<1>3. Known
  BY <1>2 DEF OMInit, Known
<1>4. \A c \in Conns : JobFits(c)
  BY DEF OMInit, JobFits, Posting
<1> QED
  BY <1>1, <1>3, <1>4 DEF OMInit, ChatFits, SessionsFit

LEMMA GoesTo ==
  ASSUME OMTypeOK, NEW c \in Conns, NEW s \in ChatStages, NEW ms \in Seq(Message), GoTo(c, s, ms)
  PROVE  /\ stage' \in [Conns -> ChatStages] /\ job' \in [Conns -> Seq(Message)]
         /\ stage'[c] = s /\ job'[c] = ms
         /\ \A d \in Conns : d # c => stage'[d] = stage[d] /\ job'[d] = job[d]
BY DEF GoTo, OMTypeOK

LEMMA SendsTo ==
  ASSUME OMTypeOK, NEW a \in Accounts, NEW h \in Message, SendTo(a, h)
  PROVE  /\ inbox' \in [Conns -> Seq(Message)]
         /\ \A d \in Conns :
              inbox'[d] = IF Reaches(a) /\ d = users[a] THEN Append(inbox[d], h) ELSE inbox[d]
<1>1. CASE Reaches(a)
  <2>1. users[a] \in Conns /\ Append(inbox[users[a]], h) \in Seq(Message)
    BY <1>1, AppendElements DEF Reaches, OMTypeOK
  <2>2. inbox' = [inbox EXCEPT ![users[a]] = Append(inbox[users[a]], h)]
    BY <1>1 DEF SendTo
  <2> QED
    BY <1>1, <2>1, <2>2 DEF OMTypeOK
<1>2. CASE ~Reaches(a)
  BY <1>2 DEF SendTo, OMTypeOK
<1> QED
  BY <1>1, <1>2

(* An element of what was appended to is the new one or an old one. *)
LEMMA AppendedElements ==
  ASSUME NEW T, NEW s \in Seq(T), NEW m \in T, NEW i \in DOMAIN Append(s, m)
  PROVE  \/ i = Len(s) + 1 /\ Append(s, m)[i] = m
         \/ i \in DOMAIN s /\ Append(s, m)[i] = s[i]
<1>1. i \in 1..(Len(s) + 1) /\ Len(s) \in Nat
  BY AppendElements
<1>2. CASE i = Len(s) + 1
  BY <1>2, AppendElements
<1>3. CASE i \in 1..Len(s)
  BY <1>3, AppendElements
<1> QED
  BY <1>1, <1>2, <1>3

(* A message of one message, or of none. *)
LEMMA ShortJobs ==
  /\ <<>> \in Seq(Message) /\ DOMAIN <<>> = {}
  /\ \A m \in Message : <<m>> \in Seq(Message) /\ Len(<<m>>) = 1 /\ <<m>>[1] = m
                        /\ DOMAIN <<m>> = {1}
OBVIOUS

(* The message a task posts. *)
LEMMA InHandOne ==
  ASSUME ChatFits, NEW c \in Conns, stage[c] \in Posting
  PROVE  /\ job[c][1] \in taken /\ job[c][1] \in Message /\ DOMAIN job[c] = {1}
         /\ job[c][1].via = c
         /\ job[c][1].to = Room <=> stage[c] = "broadcast"
         /\ stage[c] # "broadcast" => job[c][1].to \in Accounts
<1>1. job[c] \in Seq(Message) /\ Len(job[c]) = 1
  BY DEF ChatFits, OMTypeOK, JobFits
<1>2. DOMAIN job[c] = {1} /\ job[c][1] \in Message
  BY <1>1
<1>3. job[c][1] \in taken
  BY <1>2 DEF ChatFits, Known
<1> QED
  BY <1>2, <1>3 DEF ChatFits, JobFits, Message

(* The rows a task has left to send. *)
LEMMA InHandRows ==
  ASSUME ChatFits, NEW c \in Conns, stage[c] = "sending"
  PROVE  /\ job[c] \in Seq(Message) /\ job[c] # <<>>
         /\ Head(job[c]) = job[c][1] /\ Head(job[c]) \in Message /\ Head(job[c]) \in taken
         /\ Head(job[c]).to = AccountOf[c]
<1>1. job[c] \in Seq(Message) /\ job[c] # <<>>
  BY DEF ChatFits, OMTypeOK, JobFits
<1>2. 1 \in DOMAIN job[c] /\ Head(job[c]) = job[c][1] /\ Head(job[c]) \in Message
  BY <1>1, TailElements
<1> QED
  BY <1>1, <1>2 DEF ChatFits, JobFits, Known

(* What leaves messages and ids alone fits as before when the tasks, the      *)
(* table and what clients have do.                                            *)
LEMMA ChatFitsKept ==
  ASSUME ChatFits, OMTypeOK', taken' = taken,
         \A c \in Conns : \A i \in DOMAIN job'[c] : job'[c][i] \in taken,
         \A c \in Conns : \A i \in DOMAIN inbox'[c] : inbox'[c][i] \in taken,
         \A a \in Accounts : \A i \in DOMAIN stored'[a] :
           stored'[a][i] \in taken /\ stored'[a][i].to = a,
         \A c \in Conns : \/ stage'[c] = stage[c] /\ job'[c] = job[c]
                          \/ JobFits(c)',
         \A a \in Accounts : users'[a] # None =>
           AccountOf[users'[a]] = a /\ stage'[users'[a]] \notin {"new", "closed"}
  PROVE  ChatFits'
<1>1. Known'
  BY DEF ChatFits, Known
<1>2. \A c \in Conns : JobFits(c)'
  BY DEF ChatFits, JobFits
<1> QED
  BY <1>1, <1>2 DEF ChatFits, SessionsFit

LEMMA LoginFits ==
  ASSUME ChatFits, NEW c \in Conns, Login(c)
  PROVE  ChatFits'
<1> DEFINE a == AccountOf[c]
<1>1. a \in Accounts /\ OMTypeOK
  BY ChatAssumption DEF ChatFits
<1>2. /\ stage' \in [Conns -> ChatStages] /\ job' \in [Conns -> Seq(Message)]
      /\ stage'[c] = "listing" /\ job'[c] = <<>>
      /\ \A d \in Conns : d # c => stage'[d] = stage[d] /\ job'[d] = job[d]
  BY <1>1, GoesTo, ShortJobs DEF Login, ChatStages, Delivering
<1>3. Crossed(a) \subseteq taken
  BY DEF Crossed, InHand
<1>4. OMTypeOK'
  BY <1>1, <1>2, <1>3 DEF Login, OMTypeOK
<1>5. JobFits(c)'
  BY <1>2 DEF JobFits, Posting
<1>6. \A b \in Accounts : users'[b] # None =>
        AccountOf[users'[b]] = b /\ stage'[users'[b]] \notin {"new", "closed"}
  BY <1>1, <1>2 DEF Login, ChatFits, OMTypeOK, SessionsFit
<1>7. /\ \A d \in Conns : \A i \in DOMAIN job'[d] : job'[d][i] \in taken
      /\ \A d \in Conns : \A i \in DOMAIN inbox'[d] : inbox'[d][i] \in taken
      /\ \A b \in Accounts : \A i \in DOMAIN stored'[b] :
           stored'[b][i] \in taken /\ stored'[b][i].to = b
  BY <1>2, ShortJobs DEF Login, ChatFits, Known
<1> QED
  BY <1>2, <1>4, <1>5, <1>6, <1>7, ChatFitsKept DEF Login

(* A task that goes on from one stage of a session that is open to another. *)
LEMMA GoesOnFits ==
  ASSUME ChatFits, NEW c \in Conns, NEW s \in ChatStages \ {"new", "closed"},
         NEW ms \in Seq(Message), GoTo(c, s, ms), taken' = taken, users' = users,
         \A i \in DOMAIN ms : ms[i] \in taken /\ (s = "sending" => ms[i].to = AccountOf[c]),
         s \notin Posting, s = "sending" <=> ms # <<>>,
         room' = room, socket' = socket, moves' = moves, failures' \in 0..MaxFailures,
         disturbed' \subseteq taken,
         inbox' \in [Conns -> Seq(Message)], stored' \in [Accounts -> Seq(Message)],
         \A d \in Conns : \A i \in DOMAIN inbox'[d] : inbox'[d][i] \in taken,
         \A a \in Accounts : \A i \in DOMAIN stored'[a] :
           stored'[a][i] \in taken /\ stored'[a][i].to = a
  PROVE  ChatFits'
<1>1. OMTypeOK
  BY DEF ChatFits
<1>2. /\ stage' \in [Conns -> ChatStages] /\ job' \in [Conns -> Seq(Message)]
      /\ stage'[c] = s /\ job'[c] = ms
      /\ \A d \in Conns : d # c => stage'[d] = stage[d] /\ job'[d] = job[d]
  BY <1>1, GoesTo
<1>3. OMTypeOK'
  BY <1>1, <1>2 DEF OMTypeOK
<1>4. JobFits(c)'
  BY <1>2 DEF JobFits
<1>5. \A b \in Accounts : users'[b] # None =>
        AccountOf[users'[b]] = b /\ stage'[users'[b]] \notin {"new", "closed"}
  BY <1>2 DEF ChatFits, OMTypeOK, SessionsFit
<1>6. \A d \in Conns : \A i \in DOMAIN job'[d] : job'[d][i] \in taken
  BY <1>2 DEF ChatFits, Known
<1> QED
  BY <1>2, <1>3, <1>4, <1>5, <1>6, ChatFitsKept

LEMMA InboxKnown ==
  ASSUME ChatFits, NEW a \in Accounts, NEW h \in Message, h \in taken, SendTo(a, h)
  PROVE  /\ inbox' \in [Conns -> Seq(Message)]
         /\ \A d \in Conns : \A i \in DOMAIN inbox'[d] : inbox'[d][i] \in taken
<1>1. OMTypeOK
  BY DEF ChatFits
<1>2. /\ inbox' \in [Conns -> Seq(Message)]
      /\ \A d \in Conns :
           inbox'[d] = IF Reaches(a) /\ d = users[a] THEN Append(inbox[d], h) ELSE inbox[d]
  BY <1>1, SendsTo
<1>3. ASSUME NEW d \in Conns, NEW i \in DOMAIN inbox'[d]
      PROVE  inbox'[d][i] \in taken
  <2>1. inbox[d] \in Seq(Message)
    BY <1>1 DEF OMTypeOK
  <2>2. CASE inbox'[d] = inbox[d]
    BY <2>2, <1>3 DEF ChatFits, Known
  <2>3. CASE inbox'[d] = Append(inbox[d], h)
    <3>1. i \in 1..Len(inbox[d]) \/ i = Len(inbox[d]) + 1
      BY <2>1, <2>3, AppendElements
    <3> QED
      BY <2>1, <2>3, <3>1, AppendElements DEF ChatFits, Known
  <2> QED
    BY <1>2, <2>2, <2>3
<1> QED
  BY <1>2, <1>3

LEMMA ReadStoredFits ==
  ASSUME ChatFits, NEW c \in Conns, ReadStored(c)
  PROVE  ChatFits'
<1> DEFINE batch == GetOfflineMessages(AccountOf[c])
<1>1. AccountOf[c] \in Accounts /\ OMTypeOK
  BY ChatAssumption DEF ChatFits
<1>2. batch \in Seq(Message)
      /\ \A i \in DOMAIN batch : batch[i] \in taken /\ batch[i].to = AccountOf[c]
  BY <1>1 DEF OMTypeOK, ChatFits, Known, GetOfflineMessages
<1>3. /\ \A d \in Conns : \A i \in DOMAIN inbox'[d] : inbox'[d][i] \in taken
      /\ \A a \in Accounts : \A i \in DOMAIN stored'[a] :
           stored'[a][i] \in taken /\ stored'[a][i].to = a
  BY DEF ReadStored, ChatFits, Known
<1>4. failures' \in 0..MaxFailures
  BY <1>1, ChatAssumption DEF ReadStored, Fail, OMTypeOK
<1>5. /\ taken' = taken /\ users' = users /\ room' = room /\ socket' = socket /\ moves' = moves
      /\ disturbed' \subseteq taken
      /\ inbox' \in [Conns -> Seq(Message)] /\ stored' \in [Accounts -> Seq(Message)]
  BY <1>1 DEF ReadStored, OMTypeOK
<1>6. CASE batch # <<>> /\ GoTo(c, "sending", batch)
  <2> DEFINE s == "sending"
  <2>1. s \in ChatStages \ {"new", "closed"} /\ s \notin Posting /\ s = "sending"
    BY DEF ChatStages, Delivering, Posting
  <2>2. \A i \in DOMAIN batch :
          batch[i] \in taken /\ (s = "sending" => batch[i].to = AccountOf[c])
    BY <1>2
  <2>3. GoTo(c, s, batch) /\ (s = "sending" <=> batch # <<>>)
    BY <1>6
  <2> HIDE DEF s, batch
  <2> QED
    BY <1>2, <1>3, <1>4, <1>5, <2>1, <2>2, <2>3, GoesOnFits
<1>7. CASE GoTo(c, "open", <<>>)
  BY <1>3, <1>4, <1>5, <1>7, ShortJobs, GoesOnFits DEF ChatStages, Posting
<1> QED
  BY <1>6, <1>7 DEF ReadStored

LEMMA TailEmpty ==
  ASSUME NEW T, NEW s \in Seq(T), s # <<>>
  PROVE  Tail(s) = <<>> <=> Len(s) = 1
<1>1. /\ Tail(s) \in Seq(T) /\ Len(Tail(s)) = Len(s) - 1 /\ Len(s) \in Nat \ {0}
  BY TailElements
<1>2. Tail(s) = <<>> <=> Len(Tail(s)) = 0
  BY <1>1, EmptySeq
<1> QED
  BY <1>1, <1>2

LEMMA SendStoredFits ==
  ASSUME ChatFits, NEW c \in Conns, SendStored(c)
  PROVE  ChatFits'
<1> DEFINE a == AccountOf[c]
           h == Head(job[c])
<1>1. a \in Accounts /\ OMTypeOK
  BY ChatAssumption DEF ChatFits
<1>2. /\ job[c] \in Seq(Message) /\ job[c] # <<>> /\ h \in Message /\ h \in taken
  BY InHandRows DEF SendStored
<1>3. /\ taken' = taken /\ users' = users /\ room' = room /\ socket' = socket /\ moves' = moves
      /\ disturbed' \subseteq taken /\ stored' \in [Accounts -> Seq(Message)]
      /\ \A b \in Accounts : \A i \in DOMAIN stored'[b] :
           stored'[b][i] \in taken /\ stored'[b][i].to = b
  BY <1>1 DEF SendStored, OMTypeOK, ChatFits, Known
<1>4. failures' \in 0..MaxFailures
  BY <1>1, ChatAssumption DEF SendStored, Fail, OMTypeOK
<1>5. /\ inbox' \in [Conns -> Seq(Message)]
      /\ \A d \in Conns : \A i \in DOMAIN inbox'[d] : inbox'[d][i] \in taken
  <2>1. CASE SendTo(a, h)
    BY <1>1, <1>2, <2>1, InboxKnown
  <2>2. CASE UNCHANGED inbox
    BY <1>1, <2>2 DEF OMTypeOK, ChatFits, Known
  <2> QED
    BY <2>1, <2>2 DEF SendStored
<1>6. CASE GoTo(c, IF Len(job[c]) = 1 THEN "deleting" ELSE "sending", Tail(job[c]))
  <2> DEFINE s == IF Len(job[c]) = 1 THEN "deleting" ELSE "sending"
           left == Tail(job[c])
  <2>1. s \in ChatStages \ {"new", "closed"} /\ s \notin Posting
    BY DEF ChatStages, Delivering, Posting
  <2>2. left \in Seq(Message) /\ (s = "sending" <=> left # <<>>)
    BY <1>2, TailElements, TailEmpty
  <2>3. \A i \in DOMAIN left : left[i] \in taken /\ (s = "sending" => left[i].to = AccountOf[c])
    <3>1. \A i \in DOMAIN job[c] : job[c][i] \in taken /\ job[c][i].to = a
      BY DEF ChatFits, Known, JobFits, SendStored
    <3> QED
      BY <1>2, <3>1, TailElements
  <2>4. GoTo(c, s, left)
    BY <1>6
  <2> HIDE DEF s, left
  <2> QED
    BY <1>3, <1>4, <1>5, <2>1, <2>2, <2>3, <2>4, GoesOnFits
<1>7. CASE GoTo(c, "open", <<>>)
  BY <1>3, <1>4, <1>5, <1>7, ShortJobs, GoesOnFits DEF ChatStages, Posting
<1> QED
  BY <1>6, <1>7 DEF SendStored

LEMMA DeleteStoredFits ==
  ASSUME ChatFits, NEW c \in Conns, DeleteStored(c)
  PROVE  ChatFits'
<1>1. AccountOf[c] \in Accounts /\ OMTypeOK
  BY ChatAssumption DEF ChatFits
<1>2. /\ stored' \in [Accounts -> Seq(Message)]
      /\ \A a \in Accounts : stored'[a] = stored[a] \/ stored'[a] = <<>>
  BY <1>1, ShortJobs DEF DeleteStored, DeleteOfflineMessages, OMTypeOK
<1>3. /\ \A d \in Conns : \A i \in DOMAIN inbox'[d] : inbox'[d][i] \in taken
      /\ \A a \in Accounts : \A i \in DOMAIN stored'[a] :
           stored'[a][i] \in taken /\ stored'[a][i].to = a
  BY <1>2, ShortJobs DEF DeleteStored, ChatFits, Known
<1>4. failures' \in 0..MaxFailures
  BY <1>1, ChatAssumption DEF DeleteStored, Fail, OMTypeOK
<1>5. /\ taken' = taken /\ users' = users /\ room' = room /\ socket' = socket /\ moves' = moves
      /\ disturbed' \subseteq taken /\ inbox' \in [Conns -> Seq(Message)]
      /\ GoTo(c, "open", <<>>)
  BY <1>1 DEF DeleteStored, OMTypeOK
<1> QED
  BY <1>2, <1>3, <1>4, <1>5, ShortJobs, GoesOnFits DEF ChatStages, Posting

(* A message as it is taken up has an id of its own. *)
LEMMA TakesUp ==
  ASSUME ChatFits, NEW c \in Conns, NEW to \in Accounts \cup {Room},
         NEW s \in Posting, to = Room <=> s = "broadcast", TakeUp(c, to, s)
  PROVE  \E m \in Message :
           /\ m \notin taken /\ m.via = c /\ m.to = to /\ taken' = taken \cup {m}
           /\ \A n \in taken : n.id < m.id
           /\ m.id = Cardinality(taken')
           /\ stage' \in [Conns -> ChatStages] /\ job' \in [Conns -> Seq(Message)]
           /\ stage'[c] = s /\ job'[c] = <<m>>
           /\ \A d \in Conns : d # c => stage'[d] = stage[d] /\ job'[d] = job[d]
           /\ disturbed' = disturbed \cup
                (IF \E a \in Accounts : to \in {a, Room} /\ Unsettled(a) THEN {m} ELSE {})
<1> DEFINE m == [id |-> Cardinality(taken) + 1, via |-> c, to |-> to]
<1>1. Cardinality(taken) \in Nat /\ IsFiniteSet(taken)
  BY FS_CardinalityType DEF ChatFits, Known
<1>2. m \in Message
  BY <1>1, ChatAssumption DEF TakeUp, Message
<1>3. m.id = Cardinality(taken) + 1 /\ m.via = c /\ m.to = to
  OBVIOUS
<1>4. \A n \in taken : n.id <= Cardinality(taken) /\ n.id \in Nat
  BY DEF ChatFits, Known, OMTypeOK, Message
<1>5. \A n \in taken : n.id < m.id
  BY <1>1, <1>3, <1>4
<1>6. m \notin taken
  BY <1>5, <1>3, <1>1
<1>7. taken' = taken \cup {m} /\ GoTo(c, s, <<m>>)
  BY DEF TakeUp
<1>8. Cardinality(taken') = Cardinality(taken) + 1
  BY <1>1, <1>6, <1>7, FS_AddElement
<1>9. /\ stage' \in [Conns -> ChatStages] /\ job' \in [Conns -> Seq(Message)]
      /\ stage'[c] = s /\ job'[c] = <<m>>
      /\ \A d \in Conns : d # c => stage'[d] = stage[d] /\ job'[d] = job[d]
  <2>1. s \in ChatStages /\ <<m>> \in Seq(Message) /\ OMTypeOK
    BY <1>2, ShortJobs DEF ChatStages, ChatFits
  <2> HIDE DEF m
  <2> QED
    BY <1>7, <2>1, GoesTo
<1>10. disturbed' = disturbed \cup
         (IF \E a \in Accounts : to \in {a, Room} /\ Unsettled(a) THEN {m} ELSE {})
  BY DEF TakeUp
<1> HIDE DEF m
<1> QED
  BY <1>2, <1>3, <1>5, <1>6, <1>7, <1>8, <1>9, <1>10

LEMMA TakeUpFits ==
  ASSUME ChatFits, NEW c \in Conns, NEW to \in Accounts \cup {Room},
         NEW s \in Posting, to = Room <=> s = "broadcast", TakeUp(c, to, s)
  PROVE  ChatFits'
<1>1. PICK m \in Message :
           /\ m \notin taken /\ m.via = c /\ m.to = to /\ taken' = taken \cup {m}
           /\ \A n \in taken : n.id < m.id
           /\ m.id = Cardinality(taken')
           /\ stage' \in [Conns -> ChatStages] /\ job' \in [Conns -> Seq(Message)]
           /\ stage'[c] = s /\ job'[c] = <<m>>
           /\ \A d \in Conns : d # c => stage'[d] = stage[d] /\ job'[d] = job[d]
           /\ disturbed' = disturbed \cup
                (IF \E a \in Accounts : to \in {a, Room} /\ Unsettled(a) THEN {m} ELSE {})
  BY TakesUp
<1>2. IsFiniteSet(taken') /\ m.id \in Nat /\ (\A n \in taken : n.id \in Nat)
  BY <1>1, FS_AddElement DEF ChatFits, Known, OMTypeOK, Message
<1>3. UNCHANGED <<users, room, socket, stored, inbox, moves, failures>>
  BY DEF TakeUp
<1>4. OMTypeOK'
  BY <1>1, <1>3 DEF ChatFits, OMTypeOK
<1>5. Known'
  <2>1. \A n \in taken' : n.id <= Cardinality(taken')
    <3>1. taken' = taken \cup {m} /\ Cardinality(taken') = m.id /\ m.id \in Nat
          /\ \A n \in taken : n.id < m.id /\ n.id \in Nat
      BY <1>1, <1>2
    <3> QED
      BY <3>1
  <2>2. \A d \in Conns : \A i \in DOMAIN job'[d] : job'[d][i] \in taken'
    BY <1>1, ShortJobs DEF ChatFits, Known
  <2> QED
    BY <1>1, <1>2, <1>3, <2>1, <2>2 DEF ChatFits, Known
<1>6. \A d \in Conns : JobFits(d)'
  <2>1. JobFits(c)'
    <3>1. Len(job'[c]) = 1 /\ job'[c][1] = m
      BY <1>1, ShortJobs
    <3> QED
      BY <1>1, <3>1 DEF JobFits, Posting
  <2>2. ASSUME NEW d \in Conns, d # c PROVE JobFits(d)'
    <3>1. JobFits(d) /\ stage'[d] = stage[d] /\ job'[d] = job[d]
      BY <1>1, <2>2 DEF ChatFits
    <3>2. \A n \in taken' : n.via = d => n \in taken
      BY <1>1, <2>2
    <3> QED
      BY <3>1, <3>2 DEF JobFits
  <2> QED
    BY <2>1, <2>2
<1>7. SessionsFit'
  BY <1>1, <1>3 DEF ChatFits, SessionsFit, OMTypeOK, Posting
<1> QED
  BY <1>4, <1>5, <1>6, <1>7 DEF ChatFits

LEMMA ChatPrivateTakesUp ==
  ASSUME ChatFits, NEW c \in Conns, ChatPrivate(c)
  PROVE  \E to \in Accounts :
           \E s \in {"deliver", "save"} : TakeUp(c, to, s) /\ (s = "deliver" => users[to] # None)
BY DEF ChatPrivate

LEMMA ChatTakesUpFits ==
  ASSUME ChatFits, NEW c \in Conns, ChatPrivate(c) \/ ChatRoom(c)
  PROVE  ChatFits'
<1>1. CASE ChatPrivate(c)
  <2>1. PICK to \in Accounts, s \in {"deliver", "save"} : TakeUp(c, to, s)
    BY <1>1, ChatPrivateTakesUp
  <2>2. s \in Posting /\ s # "broadcast" /\ to # Room
    BY ChatAssumption DEF Posting
  <2> QED
    BY <2>1, <2>2, TakeUpFits
<1>2. CASE ChatRoom(c)
  <2>1. TakeUp(c, Room, "broadcast") /\ "broadcast" \in Posting
    BY <1>2 DEF ChatRoom, Posting
  <2> QED
    BY <2>1, TakeUpFits
<1> QED
  BY <1>1, <1>2

LEMMA DeliverFits ==
  ASSUME ChatFits, NEW c \in Conns, Deliver(c)
  PROVE  ChatFits'
<1> DEFINE h == job[c][1]
<1>1. h \in taken /\ h \in Message /\ h.to \in Accounts
  BY InHandOne DEF Deliver, Posting
<1>2. /\ inbox' \in [Conns -> Seq(Message)]
      /\ \A d \in Conns : \A i \in DOMAIN inbox'[d] : inbox'[d][i] \in taken
  BY <1>1, InboxKnown DEF Deliver
<1>3. UNCHANGED <<users, room, socket, stored, taken, moves, failures, disturbed>>
      /\ GoTo(c, "open", <<>>)
  BY DEF Deliver
<1>4. /\ failures' \in 0..MaxFailures /\ disturbed' \subseteq taken
      /\ stored' \in [Accounts -> Seq(Message)]
  BY <1>3 DEF ChatFits, OMTypeOK
<1>5. \A a \in Accounts : \A i \in DOMAIN stored'[a] :
        stored'[a][i] \in taken /\ stored'[a][i].to = a
  BY <1>3 DEF ChatFits, Known
<1>6. "open" \in ChatStages \ {"new", "closed"} /\ "open" \notin Posting
  BY DEF ChatStages, Posting
<1> QED
  BY <1>2, <1>3, <1>4, <1>5, <1>6, ShortJobs, GoesOnFits

LEMMA SaveFits ==
  ASSUME ChatFits, NEW c \in Conns, Save(c)
  PROVE  ChatFits'
<1> DEFINE h == job[c][1]
<1>1. h \in taken /\ h \in Message /\ h.to \in Accounts
  BY InHandOne DEF Save, Posting
<1>2. /\ stored' \in [Accounts -> Seq(Message)]
      /\ \A a \in Accounts : \A i \in DOMAIN stored'[a] :
           stored'[a][i] \in taken /\ stored'[a][i].to = a
  <2>1. CASE stored' = [stored EXCEPT ![h.to] = Append(@, h)]
    <3>1. stored \in [Accounts -> Seq(Message)] /\ stored[h.to] \in Seq(Message)
      BY <1>1 DEF ChatFits, OMTypeOK
    <3> DEFINE rows == stored[h.to]
    <3>2. rows \in Seq(Message) /\ Append(rows, h) \in Seq(Message)
      BY <1>1, <3>1, AppendElements
    <3>6. ASSUME NEW i \in DOMAIN Append(rows, h)
          PROVE  \/ Append(rows, h)[i] = h
                 \/ i \in DOMAIN rows /\ Append(rows, h)[i] = rows[i]
      <4> HIDE DEF h, rows
      <4> QED
        BY <1>1, <3>2, <3>6, AppendedElements
    <3>3. /\ stored'[h.to] = Append(stored[h.to], h)
          /\ \A a \in Accounts : a # h.to => stored'[a] = stored[a]
          /\ stored' \in [Accounts -> Seq(Message)]
      BY <1>1, <2>1, <3>1, <3>2
    <3>4. \A a \in Accounts : \A i \in DOMAIN stored[a] :
            stored[a][i] \in taken /\ stored[a][i].to = a
      BY DEF ChatFits, Known
    <3> HIDE DEF h
    <3>5. \A i \in DOMAIN stored'[h.to] :
            stored'[h.to][i] \in taken /\ stored'[h.to][i].to = h.to
      BY <1>1, <3>2, <3>3, <3>4, <3>6
    <3> QED
      BY <1>1, <3>3, <3>4, <3>5
  <2>2. CASE UNCHANGED stored
    BY <2>2 DEF ChatFits, OMTypeOK, Known
  <2> QED
    BY <2>1, <2>2 DEF Save
<1>3. UNCHANGED <<users, room, socket, inbox, taken, moves>> /\ GoTo(c, "open", <<>>)
  BY DEF Save
<1>4. failures' \in 0..MaxFailures
  BY ChatAssumption DEF Save, Fail, ChatFits, OMTypeOK
<1>5. disturbed' \subseteq taken
  BY <1>1 DEF Save, ChatFits, OMTypeOK
<1>6. /\ inbox' \in [Conns -> Seq(Message)]
      /\ \A d \in Conns : \A i \in DOMAIN inbox'[d] : inbox'[d][i] \in taken
  BY <1>3 DEF ChatFits, OMTypeOK, Known
<1>7. "open" \in ChatStages \ {"new", "closed"} /\ "open" \notin Posting
  BY DEF ChatStages, Posting
<1> QED
  BY <1>2, <1>3, <1>4, <1>5, <1>6, <1>7, ShortJobs, GoesOnFits

LEMMA BroadcastFits ==
  ASSUME ChatFits, NEW c \in Conns, Broadcast(c)
  PROVE  ChatFits'
<1> DEFINE h == job[c][1]
<1>1. h \in taken /\ h \in Message
  BY InHandOne DEF Broadcast, Posting
<1>2. inbox \in [Conns -> Seq(Message)]
  BY DEF ChatFits, OMTypeOK
<1>3. /\ inbox' \in [Conns -> Seq(Message)]
      /\ \A d \in Conns : inbox'[d] = inbox[d] \/ inbox'[d] = Append(inbox[d], h)
  BY <1>1, <1>2, AppendElements DEF Broadcast, BroadcastToRoom
<1>4. \A d \in Conns : \A i \in DOMAIN inbox'[d] : inbox'[d][i] \in taken
  <2> SUFFICES ASSUME NEW d \in Conns, NEW i \in DOMAIN inbox'[d] PROVE inbox'[d][i] \in taken
    OBVIOUS
  <2>1. inbox[d] \in Seq(Message) /\ \A j \in DOMAIN inbox[d] : inbox[d][j] \in taken
    BY <1>2 DEF ChatFits, Known
  <2>2. CASE inbox'[d] = Append(inbox[d], h)
    BY <1>1, <2>1, <2>2, AppendedElements
  <2>3. CASE inbox'[d] = inbox[d]
    BY <2>1, <2>3
  <2> QED
    BY <1>3, <2>2, <2>3
<1>5. UNCHANGED <<users, room, socket, stored, taken, moves, failures, disturbed>>
      /\ GoTo(c, "open", <<>>)
  BY DEF Broadcast
<1> HIDE DEF h
<1>6. /\ inbox' \in [Conns -> Seq(Message)] /\ stored' \in [Accounts -> Seq(Message)]
      /\ failures' \in 0..MaxFailures /\ disturbed' \subseteq taken
      /\ \A a \in Accounts : \A i \in DOMAIN stored'[a] :
           stored'[a][i] \in taken /\ stored'[a][i].to = a
  BY <1>3, <1>5 DEF ChatFits, OMTypeOK, Known
<1> QED
  BY <1>4, <1>5, <1>6, ShortJobs, GoesOnFits DEF ChatStages, Posting

LEMMA CleanUpFits ==
  ASSUME ChatFits, NEW c \in Conns, CleanUp(c)
  PROVE  ChatFits'
<1> DEFINE a == AccountOf[c]
<1>1. a \in Accounts /\ OMTypeOK
  BY ChatAssumption DEF ChatFits
<1>2. /\ stage' \in [Conns -> ChatStages] /\ job' \in [Conns -> Seq(Message)]
      /\ stage'[c] = "closed" /\ job'[c] = <<>>
      /\ \A d \in Conns : d # c => stage'[d] = stage[d] /\ job'[d] = job[d]
  BY <1>1, GoesTo, ShortJobs DEF CleanUp, ChatStages
<1>3. OMTypeOK'
  BY <1>1, <1>2 DEF CleanUp, OMTypeOK
<1>4. JobFits(c)'
  BY <1>2 DEF JobFits, Posting
<1>5. \A b \in Accounts : users'[b] # None =>
        AccountOf[users'[b]] = b /\ stage'[users'[b]] \notin {"new", "closed"}
  BY <1>1, <1>2 DEF CleanUp, ChatFits, OMTypeOK, SessionsFit
<1>6. \A d \in Conns : \A i \in DOMAIN job'[d] : job'[d][i] \in taken
  BY <1>2, ShortJobs DEF ChatFits, Known
<1> QED
  BY <1>2, <1>3, <1>4, <1>5, <1>6, ChatFitsKept DEF CleanUp, ChatFits, Known

LEMMA ChatFitsStep == ChatFits /\ [OMNext]_omVars => ChatFits'
<1> SUFFICES ASSUME ChatFits, [OMNext]_omVars PROVE ChatFits'
  OBVIOUS
<1>1. ASSUME NEW c \in Conns, Lose(c) PROVE ChatFits'
  <2>1. OMTypeOK'
    BY <1>1, ChatAssumption DEF Lose, ChatFits, OMTypeOK, Crossed, InHand
  <2> QED
    BY <1>1, <2>1, ChatFitsKept DEF Lose, ChatFits, Known, SessionsFit
<1>2. ASSUME NEW a \in Accounts, SetRoom(a) PROVE ChatFits'
  <2>1. OMTypeOK'
    BY <1>2, ChatAssumption DEF SetRoom, ChatFits, OMTypeOK
  <2> QED
    BY <1>2, <2>1, ChatFitsKept DEF SetRoom, ChatFits, Known, SessionsFit
<1>3. CASE UNCHANGED omVars
  BY <1>3 DEF omVars, ChatFits, OMTypeOK, Known, JobFits, SessionsFit
<1> QED
  BY <1>1, <1>2, <1>3, LoginFits, ReadStoredFits, SendStoredFits, DeleteStoredFits,
     ChatTakesUpFits, DeliverFits, SaveFits, BroadcastFits, CleanUpFits DEF OMNext

(* In every reachable state of the chat every variable has its type: a task   *)
(* that posts has a message to post, and the table holds messages only.       *)
THEOREM ChatTypes == OMSpec => []OMTypeOK
<1>1. ChatFits => OMTypeOK
  BY DEF ChatFits
<1> QED
  BY <1>1, ChatFitsInit, ChatFitsStep, PTL DEF OMSpec

----------------------------------------------------------------------------
(* Chat: where a message is that nothing came across                          *)

Spots(s, m) == {i \in DOMAIN s : s[i] = m}
Single(S) == \E i \in Nat : S = {i}

Nowhere(m) == \A c \in Conns : Spots(inbox[c], m) = {}
ReceivedIt(m) ==
  \E c \in Conns : /\ Single(Spots(inbox[c], m))
                   /\ \A d \in Conns : d # c => Spots(inbox[d], m) = {}

Posted(m, c) == stage[c] \in Posting /\ job[c][1] = m

(* While a task posts it, everybody it is for is settled and has nothing of   *)
(* it yet.                                                                     *)
PostedFits(m) ==
  \A c \in Conns : Posted(m, c) =>
    /\ \A a \in Accounts : m.to \in {a, Room} => ~Unsettled(a)
    /\ Nowhere(m)
    /\ m.to # Room => Spots(stored[m.to], m) = {}
    /\ stage[c] = "deliver" => users[m.to] # None

(* Only the connection that has the session, with its socket up, delivers to  *)
(* the recipient.                                                             *)
OneDelivers(m) ==
  \A c \in Conns :
    AccountOf[c] = m.to /\ stage[c] \in Delivering => c \in socket /\ users[m.to] = c

(* The tasks that have read the recipient's rows. *)
Hands(m) == {c \in Conns : AccountOf[c] = m.to /\ stage[c] \in {"sending", "deleting"}}

(* Stored and yet to be sent; stored and sent but not yet deleted; received   *)
(* and not stored.                                                            *)
Stays(m) ==
  /\ Single(Spots(stored[m.to], m)) /\ Nowhere(m)
  /\ \A c \in Hands(m) : Single(Spots(job[c], m))
Sent(m) ==
  /\ Single(Spots(stored[m.to], m)) /\ ReceivedIt(m)
  /\ \E c \in Hands(m) : Spots(job[c], m) = {}
Received(m) ==
  /\ Spots(stored[m.to], m) = {} /\ ReceivedIt(m)
  /\ \A c \in Hands(m) : Spots(job[c], m) = {}

SomewhereOnce(m) ==
  m.to # Room /\ (\A c \in Conns : ~Posted(m, c)) => Stays(m) \/ Sent(m) \/ Received(m)

MessageFits(m) == PostedFits(m) /\ OneDelivers(m) /\ SomewhereOnce(m)
MessagesFit == \A m \in taken \ disturbed : MessageFits(m)

LEMMA AtAppend ==
  ASSUME NEW T, NEW s \in Seq(T), NEW h \in T, NEW m
  PROVE  /\ m # h => Spots(Append(s, h), m) = Spots(s, m)
         /\ Spots(s, h) = {} => Single(Spots(Append(s, h), h))
<1>1. /\ Append(s, h) \in Seq(T) /\ Len(Append(s, h)) = Len(s) + 1 /\ Len(s) \in Nat
      /\ \A i \in 1..Len(s) : Append(s, h)[i] = s[i]
      /\ Append(s, h)[Len(s) + 1] = h
  BY AppendElements
<1>2. DOMAIN Append(s, h) = 1..(Len(s) + 1) /\ DOMAIN s = 1..Len(s)
  BY <1>1
<1> DEFINE t == Append(s, h)
<1> HIDE DEF t
<1>3. /\ DOMAIN t = 1..(Len(s) + 1) /\ Len(s) \in Nat /\ t[Len(s) + 1] = h
      /\ \A i \in 1..Len(s) : t[i] = s[i]
  BY <1>1, <1>2 DEF t
<1>4. m # h => Spots(t, m) = Spots(s, m)
  BY <1>2, <1>3 DEF Spots
<1>5. ASSUME Spots(s, h) = {} PROVE Spots(t, h) = {Len(s) + 1}
  BY <1>2, <1>3, <1>5 DEF Spots
<1> QED
  BY <1>3, <1>4, <1>5 DEF t, Single

LEMMA AtTail ==
  ASSUME NEW T, NEW s \in Seq(T), s # <<>>, NEW m
  PROVE  /\ Spots(s, m) = {} => Spots(Tail(s), m) = {}
         /\ m # Head(s) /\ Single(Spots(s, m)) => Single(Spots(Tail(s), m))
         /\ Spots(s, Head(s)) # {}
         /\ Single(Spots(s, Head(s))) => Spots(Tail(s), Head(s)) = {}
<1> DEFINE t == Tail(s)
           h == Head(s)
<1>1. /\ t \in Seq(T) /\ Len(t) = Len(s) - 1 /\ Len(s) \in Nat \ {0} /\ h = s[1]
      /\ \A i \in 1..Len(t) : i + 1 \in 1..Len(s) /\ t[i] = s[i + 1]
  BY TailElements
<1>2. DOMAIN t = 1..(Len(s) - 1) /\ DOMAIN s = 1..Len(s)
  BY <1>1
<1> HIDE DEF t, h
<1>3. Spots(s, m) = {} => Spots(t, m) = {}
  BY <1>1, <1>2 DEF Spots
<1>4. 1 \in Spots(s, h)
  BY <1>1, <1>2 DEF Spots
<1>5. ASSUME m # h, Single(Spots(s, m)) PROVE Single(Spots(t, m))
  <2>1. PICK k \in Nat : Spots(s, m) = {k}
    BY <1>5 DEF Single
  <2>2. k \in 1..Len(s) /\ s[k] = m /\ k # 1
    BY <1>1, <1>2, <1>5, <2>1 DEF Spots
  <2>3. k - 1 \in 1..Len(t) /\ t[k - 1] = m
    BY <1>1, <2>2
  <2>4. ASSUME NEW i \in Spots(t, m) PROVE i = k - 1
    <3>1. i \in 1..Len(t) /\ t[i] = m
      BY <1>1, <1>2, <2>4 DEF Spots
    <3>2. i + 1 \in Spots(s, m)
      BY <1>1, <1>2, <3>1 DEF Spots
    <3> QED
      BY <2>1, <2>2, <3>1, <3>2
  <2>5. Spots(t, m) = {k - 1}
    BY <1>1, <1>2, <2>3, <2>4 DEF Spots
  <2> QED
    BY <1>1, <2>3, <2>5 DEF Single
<1>6. ASSUME Single(Spots(s, h)) PROVE Spots(t, h) = {}
  <2>1. Spots(s, h) = {1}
    BY <1>4, <1>6 DEF Single
  <2>2. ASSUME NEW i \in Spots(t, h) PROVE FALSE
    <3>1. i \in 1..Len(t) /\ t[i] = h
      BY <1>1, <1>2, <2>2 DEF Spots
    <3>2. i + 1 \in Spots(s, h) /\ i + 1 # 1
      BY <1>1, <1>2, <3>1 DEF Spots
    <3> QED
      BY <2>1, <3>2
  <2> QED
    BY <2>2
<1> QED
  BY <1>3, <1>4, <1>5, <1>6 DEF t, h

LEMMA AtEmpty == \A m : Spots(<<>>, m) = {}
BY DEF Spots

LEMMA MessagesFitInit == OMInit => MessagesFit
BY DEF OMInit, MessagesFit

(* What keeps a message's fate. *)
LEMMA FateKept ==
  ASSUME NEW m, Stays(m) \/ Sent(m) \/ Received(m),
         Spots(stored'[m.to], m) = Spots(stored[m.to], m),
         \A d \in Conns : Spots(inbox'[d], m) = Spots(inbox[d], m),
         \A d \in Conns : AccountOf[d] = m.to =>
           \/ stage'[d] = stage[d] /\ job'[d] = job[d]
           \/ stage[d] \notin {"sending", "deleting"} /\ stage'[d] \notin {"sending", "deleting"}
  PROVE  (Stays(m) \/ Sent(m) \/ Received(m))'
<1>1. Hands(m)' = Hands(m) /\ \A d \in Hands(m) : Spots(job'[d], m) = Spots(job[d], m)
  BY DEF Hands
<1>2. (Nowhere(m) => Nowhere(m)') /\ (ReceivedIt(m) => ReceivedIt(m)')
  BY DEF Nowhere, ReceivedIt, Single
<1> QED
  BY <1>1, <1>2 DEF Stays, Sent, Received, Single

LEMMA SettledKept ==
  ASSUME NEW c \in Conns, \A d \in Conns : d # c => stage'[d] = stage[d], socket' = socket,
         stage[c] \notin {"new", "closed"},
         stage'[c] \in Delivering => stage[c] \in Delivering,
         NEW a, Unsettled(a)'
  PROVE  Unsettled(a)
BY DEF Unsettled

(* A step of the task of c: what others post stays posted, if it changes      *)
(* nothing of where that is.                                                  *)
LEMMA OthersPost ==
  ASSUME NEW m, PostedFits(m), OneDelivers(m), NEW c \in Conns,
         \A d \in Conns : d # c => stage'[d] = stage[d] /\ job'[d] = job[d],
         socket' = socket, users' = users, stage[c] \notin {"new", "closed"},
         stage'[c] \in Delivering => stage[c] \in Delivering, stage'[c] \notin Posting,
         (\E d \in Conns : d # c /\ Posted(m, d)) =>
           /\ \A d \in Conns : Spots(inbox'[d], m) = Spots(inbox[d], m)
           /\ Spots(stored[m.to], m) = {} => Spots(stored'[m.to], m) = {}
  PROVE  PostedFits(m)' /\ OneDelivers(m)'
<1>1. \A d \in Conns : Posted(m, d)' => d # c /\ Posted(m, d) /\ stage'[d] = stage[d]
  BY DEF Posted
<1>2. \A a : Unsettled(a)' => Unsettled(a)
  BY SettledKept
<1>3. PostedFits(m)'
  <2> SUFFICES ASSUME NEW d \in Conns, Posted(m, d)'
               PROVE  /\ \A a \in Accounts : m.to \in {a, Room} => ~Unsettled(a)'
                      /\ Nowhere(m)'
                      /\ m.to # Room => Spots(stored'[m.to], m) = {}
                      /\ stage'[d] = "deliver" => users'[m.to] # None
    BY DEF PostedFits
  <2>1. d # c /\ Posted(m, d) /\ stage'[d] = stage[d]
    BY <1>1
  <2> QED
    BY <1>2, <2>1 DEF PostedFits, Nowhere
<1>4. OneDelivers(m)'
  BY DEF OneDelivers
<1> QED
  BY <1>3, <1>4

(* A step of the task of c that neither posts m nor delivers to its recipient. *)
LEMMA OthersFit ==
  ASSUME NEW m, MessageFits(m), NEW c \in Conns, ~Posted(m, c),
         \A d \in Conns : d # c => stage'[d] = stage[d] /\ job'[d] = job[d],
         socket' = socket, users' = users, stage[c] \notin {"new", "closed"},
         stage'[c] \in Delivering => stage[c] \in Delivering, stage'[c] \notin Posting,
         \A d \in Conns : Spots(inbox'[d], m) = Spots(inbox[d], m),
         m.to # Room => Spots(stored'[m.to], m) = Spots(stored[m.to], m),
         AccountOf[c] = m.to => {stage[c], stage'[c]} \cap {"sending", "deleting"} = {}
  PROVE  MessageFits(m)'
<1>1. PostedFits(m) /\ OneDelivers(m) /\ SomewhereOnce(m)
  BY DEF MessageFits
<1>2. PostedFits(m)' /\ OneDelivers(m)'
  <2>1. CASE m.to # Room
    BY <1>1, <2>1, OthersPost
  <2>2. CASE m.to = Room
    <3>1. \A a : Unsettled(a)' => Unsettled(a)
      BY SettledKept
    <3>2. \A d \in Conns : Posted(m, d)' => d # c /\ Posted(m, d) /\ stage'[d] = stage[d]
      BY DEF Posted
    <3>3. PostedFits(m)'
      BY <1>1, <2>2, <3>1, <3>2 DEF PostedFits, Nowhere
    <3> QED
      BY <1>1, <3>3 DEF OneDelivers
  <2> QED
    BY <2>1, <2>2
<1>3. SomewhereOnce(m)'
  <2> SUFFICES ASSUME m.to # Room, \A d \in Conns : ~Posted(m, d)'
               PROVE  (Stays(m) \/ Sent(m) \/ Received(m))'
    BY DEF SomewhereOnce
  <2>1. \A d \in Conns : ~Posted(m, d)
    BY DEF Posted
  <2>2. Stays(m) \/ Sent(m) \/ Received(m)
    BY <1>1, <2>1 DEF SomewhereOnce
  <2>3. \A d \in Conns : AccountOf[d] = m.to =>
           \/ stage'[d] = stage[d] /\ job'[d] = job[d]
           \/ stage[d] \notin {"sending", "deleting"} /\ stage'[d] \notin {"sending", "deleting"}
    OBVIOUS
  <2> QED
    BY <2>2, <2>3, FateKept
<1> QED
  BY <1>2, <1>3 DEF MessageFits

LEMMA LoginMessages ==
  ASSUME ChatFits, MessagesFit, NEW c \in Conns, Login(c)
  PROVE  MessagesFit'
<1> DEFINE a == AccountOf[c]
<1>1. a \in Accounts /\ OMTypeOK
  BY ChatAssumption DEF ChatFits
<1>2. /\ stage'[c] = "listing" /\ job'[c] = <<>> /\ stage[c] = "new"
      /\ \A d \in Conns : d # c => stage'[d] = stage[d] /\ job'[d] = job[d]
      /\ UNCHANGED <<stored, inbox, taken>>
  BY <1>1, GoesTo, ShortJobs DEF Login, ChatStages, Delivering
<1> SUFFICES ASSUME NEW m \in taken \ disturbed, m \notin Crossed(a) PROVE MessageFits(m)'
  BY <1>2 DEF Login, MessagesFit
<1>3. PostedFits(m) /\ OneDelivers(m) /\ SomewhereOnce(m)
  BY DEF MessagesFit, MessageFits
<1>4. m.to = a => ~Unsettled(a)
  BY DEF Crossed
<1>5. \A d \in Conns : Posted(m, d)' <=> Posted(m, d)
  BY <1>2 DEF Posted, Posting
<1>6. PostedFits(m)'
  <2> SUFFICES ASSUME NEW d \in Conns, Posted(m, d)'
               PROVE  /\ \A b \in Accounts : m.to \in {b, Room} => ~Unsettled(b)'
                      /\ Nowhere(m)'
                      /\ m.to # Room => Spots(stored'[m.to], m) = {}
                      /\ stage'[d] = "deliver" => users'[m.to] # None
    BY DEF PostedFits
  <2>1. Posted(m, d) /\ d # c /\ stage'[d] = stage[d]
    BY <1>2, <1>5 DEF Posted, Posting
  <2>2. m.to \notin {a, Room}
    <3>1. m \in {job[d][i] : i \in DOMAIN job[d]} /\ stage[d] \in Posting
      BY <2>1, InHandOne DEF Posted
    <3>2. m.to \in {a, Room} => m \in InHand(a)
      BY <3>1 DEF InHand
    <3> QED
      BY <3>2 DEF Crossed
  <2>3. \A b \in Accounts : b # a /\ Unsettled(b)' => Unsettled(b)
    BY <1>2 DEF Unsettled, Login
  <2>4. Nowhere(m)' /\ (m.to # Room => Spots(stored'[m.to], m) = {})
    BY <1>2, <1>3, <2>1 DEF PostedFits, Nowhere
  <2>5. stage'[d] = "deliver" => users'[m.to] # None
    <3>1. m.to \in Accounts
      BY <1>1, <2>2 DEF OMTypeOK, Message
    <3>2. users'[m.to] = users[m.to]
      BY <1>1, <2>2, <3>1 DEF Login, OMTypeOK
    <3> QED
      BY <1>3, <2>1, <3>2 DEF PostedFits
  <2> QED
    BY <1>3, <2>1, <2>2, <2>3, <2>4, <2>5 DEF PostedFits
<1>7. OneDelivers(m)'
  <2> SUFFICES ASSUME NEW d \in Conns, AccountOf[d] = m.to, stage'[d] \in Delivering
               PROVE  d \in socket' /\ users'[m.to] = d
    BY DEF OneDelivers
  <2>1. CASE d = c
    BY <1>1, <2>1 DEF Login, OMTypeOK
  <2>2. CASE d # c /\ m.to = a
    BY <1>2, <1>4, <2>2 DEF Unsettled
  <2>3. CASE d # c /\ m.to # a
    BY <1>1, <1>2, <1>3, <2>3 DEF Login, OMTypeOK, OneDelivers
  <2> QED
    BY <2>1, <2>2, <2>3
<1>8. SomewhereOnce(m)'
  <2> SUFFICES ASSUME m.to # Room, \A d \in Conns : ~Posted(m, d)'
               PROVE  (Stays(m) \/ Sent(m) \/ Received(m))'
    BY DEF SomewhereOnce
  <2>1. Stays(m) \/ Sent(m) \/ Received(m)
    BY <1>3, <1>5 DEF SomewhereOnce
  <2>2. \A d \in Conns : AccountOf[d] = m.to =>
           \/ stage'[d] = stage[d] /\ job'[d] = job[d]
           \/ stage[d] \notin {"sending", "deleting"} /\ stage'[d] \notin {"sending", "deleting"}
    BY <1>2
  <2> QED
    BY <1>2, <2>1, <2>2, FateKept
<1> QED
  BY <1>6, <1>7, <1>8 DEF MessageFits

(* Of the recipient of a message only c delivers, so that nobody else has its *)
(* rows in hand.                                                              *)
LEMMA OneHand ==
  ASSUME NEW m, OneDelivers(m), NEW c \in Conns, AccountOf[c] = m.to, stage[c] \in Delivering
  PROVE  /\ c \in socket /\ users[m.to] = c
         /\ Hands(m) = IF stage[c] = "listing" THEN {} ELSE {c}
         /\ Unsettled(m.to)
<1>1. c \in socket /\ users[m.to] = c
  BY DEF OneDelivers
<1>2. \A d \in Hands(m) : d = c
  BY <1>1 DEF Hands, OneDelivers, Delivering
<1>3. c \in Hands(m) <=> stage[c] # "listing"
  BY DEF Hands, Delivering
<1> QED
  BY <1>1, <1>2, <1>3 DEF Unsettled

(* A step of the task of c that delivers to the recipient of m and moves m on. *)
LEMMA OwnFits ==
  ASSUME NEW m, MessageFits(m), NEW c \in Conns, m.to \in Accounts, m.to # Room,
         AccountOf[c] = m.to, stage[c] \in Delivering,
         \A d \in Conns : d # c => stage'[d] = stage[d] /\ job'[d] = job[d],
         socket' = socket, users' = users, stage'[c] \notin Posting,
         Stays(m) \/ Sent(m) \/ Received(m) => (Stays(m) \/ Sent(m) \/ Received(m))'
  PROVE  MessageFits(m)'
<1>1. PostedFits(m) /\ OneDelivers(m) /\ SomewhereOnce(m)
  BY DEF MessageFits
<1>2. \A d \in Conns : ~Posted(m, d)
  BY <1>1, OneHand DEF PostedFits
<1>3. PostedFits(m)' /\ OneDelivers(m)'
  BY <1>1, <1>2, OthersPost DEF Delivering
<1>4. SomewhereOnce(m)'
  BY <1>1, <1>2 DEF SomewhereOnce
<1> QED
  BY <1>3, <1>4 DEF MessageFits

LEMMA ReadStoredMessages ==
  ASSUME ChatFits, MessagesFit, NEW c \in Conns, ReadStored(c)
  PROVE  MessagesFit'
<1> DEFINE a == AccountOf[c]
<1>1. a \in Accounts /\ OMTypeOK /\ a # Room /\ stage[c] = "listing"
  BY ChatAssumption DEF ChatFits, ReadStored
<1>2. /\ UNCHANGED <<users, room, socket, stored, inbox, taken, moves, disturbed>>
      /\ stored[a] \in Seq(Message)
  BY <1>1 DEF ReadStored, OMTypeOK
<1>3. /\ stage'[c] \in {"open", "sending"}
      /\ stage'[c] = "sending" => job'[c] = stored[a]
      /\ \A d \in Conns : d # c => stage'[d] = stage[d] /\ job'[d] = job[d]
  <2>1. CASE GoTo(c, "sending", stored[a])
    BY <1>1, <1>2, <2>1, GoesTo DEF ChatStages, Delivering
  <2>2. CASE GoTo(c, "open", <<>>)
    <3>1. /\ stage'[c] = "open"
          /\ \A d \in Conns : d # c => stage'[d] = stage[d] /\ job'[d] = job[d]
      BY <1>1, <2>2, GoesTo, ShortJobs DEF ChatStages
    <3> QED
      BY <3>1
  <2> QED
    BY <2>1, <2>2 DEF ReadStored, GetOfflineMessages
<1> SUFFICES ASSUME NEW m \in taken \ disturbed PROVE MessageFits(m)'
  BY <1>2 DEF MessagesFit
<1>4. MessageFits(m) /\ ~Posted(m, c)
  BY <1>1 DEF MessagesFit, Posted, Posting
<1>5. CASE m.to # a
  BY <1>1, <1>2, <1>3, <1>4, <1>5, OthersFit DEF Delivering, Posting
<1>6. CASE m.to = a
  <2>1. OneDelivers(m) /\ stage[c] \in Delivering
    BY <1>1, <1>4 DEF MessageFits, Delivering
  <2>2. Hands(m) = {}
    BY <1>1, <1>6, <2>1, OneHand
  <2>3. Hands(m)' \subseteq {c} /\ (c \in Hands(m)' => job'[c] = stored[a])
    BY <1>1, <1>3, <2>2 DEF Hands
  <2>4. (Nowhere(m) => Nowhere(m)') /\ (ReceivedIt(m) => ReceivedIt(m)')
    BY <1>2 DEF Nowhere, ReceivedIt
  <2>5. Stays(m) => Stays(m)'
    BY <1>2, <1>6, <2>3, <2>4 DEF Stays
  <2>6. ~Sent(m)
    BY <2>2 DEF Sent
  <2>7. Received(m) => Received(m)'
    BY <1>2, <1>6, <2>3, <2>4 DEF Received
  <2> QED
    BY <1>1, <1>2, <1>3, <1>4, <1>6, <2>1, <2>5, <2>6, <2>7, OwnFits DEF Posting
<1> QED
  BY <1>5, <1>6

LEMMA SendStoredMessages ==
  ASSUME ChatFits, MessagesFit, NEW c \in Conns, SendStored(c)
  PROVE  MessagesFit'
<1> DEFINE a == AccountOf[c]
           h == Head(job[c])
<1>1. a \in Accounts /\ OMTypeOK /\ a # Room /\ stage[c] = "sending"
  BY ChatAssumption DEF ChatFits, SendStored
<1>2. UNCHANGED <<users, room, socket, stored, taken, moves>>
  BY DEF SendStored
<1>3. /\ job[c] \in Seq(Message) /\ job[c] # <<>> /\ h \in Message /\ h \in taken /\ h.to = a
  BY <1>1, InHandRows
<1>4. Tail(job[c]) \in Seq(Message)
  BY <1>3, TailElements
<1>5. CASE Fail /\ GoTo(c, "open", <<>>) /\ disturbed' = disturbed \cup {m \in taken : m.to = a}
           /\ UNCHANGED inbox
  <2>1. /\ stage'[c] = "open"
        /\ \A d \in Conns : d # c => stage'[d] = stage[d] /\ job'[d] = job[d]
    BY <1>1, <1>5, GoesTo, ShortJobs DEF ChatStages
  <2> SUFFICES ASSUME NEW m \in taken \ disturbed, m.to # a PROVE MessageFits(m)'
    BY <1>2, <1>5 DEF MessagesFit
  <2>2. MessageFits(m) /\ ~Posted(m, c)
    BY <1>1 DEF MessagesFit, Posted, Posting
  <2> QED
    BY <1>1, <1>2, <1>5, <2>1, <2>2, OthersFit DEF Delivering, Posting
<1>6. CASE /\ SendTo(a, h) /\ UNCHANGED disturbed
           /\ GoTo(c, IF Len(job[c]) = 1 THEN "deleting" ELSE "sending", Tail(job[c]))
  <2>1. /\ stage'[c] \in {"deleting", "sending"} /\ job'[c] = Tail(job[c])
        /\ \A d \in Conns : d # c => stage'[d] = stage[d] /\ job'[d] = job[d]
    <3> DEFINE s == IF Len(job[c]) = 1 THEN "deleting" ELSE "sending"
    <3>1. s \in {"deleting", "sending"} /\ s \in ChatStages
      BY DEF ChatStages, Delivering
    <3>2. GoTo(c, s, Tail(job[c]))
      BY <1>6
    <3> HIDE DEF s
    <3> QED
      BY <1>1, <1>4, <3>1, <3>2, GoesTo
  <2>2. \A d \in Conns :
          inbox'[d] = IF Reaches(a) /\ d = users[a] THEN Append(inbox[d], h) ELSE inbox[d]
    BY <1>1, <1>3, <1>6, SendsTo
  <2>3. \A d \in Conns : inbox[d] \in Seq(Message)
    BY <1>1 DEF OMTypeOK
  <2> SUFFICES ASSUME NEW m \in taken \ disturbed PROVE MessageFits(m)'
    BY <1>2, <1>6 DEF MessagesFit
  <2>4. MessageFits(m) /\ ~Posted(m, c)
    BY <1>1 DEF MessagesFit, Posted, Posting
  <2>5. m # h => \A d \in Conns : Spots(inbox'[d], m) = Spots(inbox[d], m)
    <3> HIDE DEF h
    <3> QED
      BY <1>3, <2>2, <2>3, AtAppend
  <2>6. CASE m.to # a
    BY <1>1, <1>2, <1>3, <2>1, <2>4, <2>5, <2>6, OthersFit DEF Delivering, Posting
  <2>7. CASE m.to = a
    <3>1. OneDelivers(m) /\ stage[c] \in Delivering
      BY <1>1, <2>4 DEF MessageFits, Delivering
    <3>2. Hands(m) = {c} /\ c \in socket /\ users[a] = c
      BY <1>1, <2>7, <3>1, OneHand
    <3>3. Hands(m)' = {c}
      BY <1>1, <2>1, <3>2 DEF Hands
    <3>4. CASE m # h
      <4>1. (Nowhere(m) => Nowhere(m)') /\ (ReceivedIt(m) => ReceivedIt(m)')
        BY <2>5, <3>4 DEF Nowhere, ReceivedIt
      <4>2. /\ Spots(job[c], m) = {} => Spots(job'[c], m) = {}
            /\ Single(Spots(job[c], m)) => Single(Spots(job'[c], m))
        BY <1>3, <2>1, <3>4, AtTail
      <4>3. (Stays(m) => Stays(m)') /\ (Sent(m) => Sent(m)') /\ (Received(m) => Received(m)')
        BY <1>2, <3>2, <3>3, <4>1, <4>2 DEF Stays, Sent, Received
      <4> QED
        BY <1>1, <1>2, <2>1, <2>4, <2>7, <3>1, <4>3, OwnFits DEF Posting
    <3>5. CASE m = h
      <4>1. Spots(job[c], m) # {} /\ (Single(Spots(job[c], m)) => Spots(job'[c], m) = {})
        BY <1>3, <2>1, <3>5, AtTail
      <4>2. ~Sent(m) /\ ~Received(m)
        BY <3>2, <4>1 DEF Sent, Received
      <4>3. Stays(m) => ReceivedIt(m)'
        <5> SUFFICES ASSUME Nowhere(m) PROVE ReceivedIt(m)'
          BY DEF Stays
        <5>1. Single(Spots(Append(inbox[c], h), h))
          <6> HIDE DEF h
          <6> QED
            BY <1>3, <2>3, <3>5, AtAppend DEF Nowhere
        <5>2. inbox'[c] = Append(inbox[c], h) /\ \A d \in Conns : d # c => inbox'[d] = inbox[d]
          <6>1. Reaches(a) /\ users[a] = c
            BY <3>2, ChatAssumption DEF Reaches
          <6> HIDE DEF h
          <6> QED
            BY <2>2, <6>1
        <5>3. Single(Spots(inbox'[c], m)) /\ \A d \in Conns : d # c => Spots(inbox'[d], m) = {}
          BY <3>5, <5>1, <5>2 DEF Nowhere
        <5> QED
          BY <5>3 DEF ReceivedIt, Single
      <4>4. Stays(m) => Sent(m)'
        BY <1>2, <3>2, <3>3, <4>1, <4>3 DEF Stays, Sent
      <4> QED
        BY <1>1, <1>2, <2>1, <2>4, <2>7, <3>1, <4>2, <4>4, OwnFits DEF Posting
    <3> QED
      BY <3>4, <3>5
  <2> QED
    BY <2>6, <2>7
<1> QED
  BY <1>5, <1>6 DEF SendStored

LEMMA DeleteStoredMessages ==
  ASSUME ChatFits, MessagesFit, NEW c \in Conns, DeleteStored(c)
  PROVE  MessagesFit'
<1> DEFINE a == AccountOf[c]
<1>1. a \in Accounts /\ OMTypeOK /\ a # Room /\ stage[c] = "deleting"
  BY ChatAssumption DEF ChatFits, DeleteStored
<1>2. UNCHANGED <<users, room, socket, inbox, taken, moves>>
  BY DEF DeleteStored
<1>3. /\ stage'[c] = "open" /\ job[c] = <<>>
      /\ \A d \in Conns : d # c => stage'[d] = stage[d] /\ job'[d] = job[d]
  <2>1. GoTo(c, "open", <<>>)
    BY DEF DeleteStored
  <2>2. /\ stage'[c] = "open"
        /\ \A d \in Conns : d # c => stage'[d] = stage[d] /\ job'[d] = job[d]
    BY <1>1, <2>1, GoesTo, ShortJobs DEF ChatStages
  <2>3. job[c] = <<>>
    BY <1>1 DEF ChatFits, JobFits, Posting
  <2> QED
    BY <2>2, <2>3
<1> SUFFICES ASSUME NEW m \in taken \ disturbed, m.to = a => stored' = DeleteOfflineMessages(a)
             PROVE  MessageFits(m)'
  BY <1>2 DEF MessagesFit, DeleteStored
<1>4. MessageFits(m) /\ ~Posted(m, c)
  BY <1>1 DEF MessagesFit, Posted, Posting
<1>5. CASE m.to # a
  <2>1. m.to # Room => stored'[m.to] = stored[m.to]
    BY <1>1, <1>5 DEF DeleteStored, DeleteOfflineMessages, OMTypeOK, Message
  <2> QED
    BY <1>1, <1>2, <1>3, <1>4, <1>5, <2>1, OthersFit DEF Delivering, Posting
<1>6. CASE m.to = a
  <2>1. OneDelivers(m) /\ stage[c] \in Delivering
    BY <1>1, <1>4 DEF MessageFits, Delivering
  <2>2. Hands(m) = {c}
    BY <1>1, <1>6, <2>1, OneHand
  <2>3. Hands(m)' = {}
    BY <1>1, <1>3, <2>2 DEF Hands
  <2>4. ReceivedIt(m) => ReceivedIt(m)'
    BY <1>2 DEF ReceivedIt
  <2>5. Spots(job[c], m) = {} /\ Spots(stored'[m.to], m) = {}
    BY <1>1, <1>3, <1>6, AtEmpty DEF DeleteOfflineMessages, OMTypeOK
  <2>6. ~Stays(m)
    BY <2>2, <2>5 DEF Stays, Single
  <2>7. Sent(m) \/ Received(m) => Received(m)'
    BY <2>3, <2>4, <2>5 DEF Sent, Received
  <2> QED
    BY <1>1, <1>2, <1>3, <1>4, <1>6, <2>1, <2>6, <2>7, OwnFits DEF Posting
<1> QED
  BY <1>5, <1>6

LEMMA TakeUpMessages ==
  ASSUME ChatFits, MessagesFit, NEW c \in Conns, NEW to \in Accounts \cup {Room},
         NEW s \in Posting, to = Room <=> s = "broadcast", TakeUp(c, to, s),
         s = "deliver" => users[to] # None
  PROVE  MessagesFit'
<1>1. PICK m \in Message :
           /\ m \notin taken /\ m.via = c /\ m.to = to /\ taken' = taken \cup {m}
           /\ \A n \in taken : n.id < m.id
           /\ m.id = Cardinality(taken')
           /\ stage' \in [Conns -> ChatStages] /\ job' \in [Conns -> Seq(Message)]
           /\ stage'[c] = s /\ job'[c] = <<m>>
           /\ \A d \in Conns : d # c => stage'[d] = stage[d] /\ job'[d] = job[d]
           /\ disturbed' = disturbed \cup
                (IF \E a \in Accounts : to \in {a, Room} /\ Unsettled(a) THEN {m} ELSE {})
  BY TakesUp
<1>2. /\ UNCHANGED <<users, room, socket, stored, inbox, moves, failures>>
      /\ stage[c] = "open" /\ c \in socket
  BY DEF TakeUp
<1>3. \A d \in Conns : AccountOf[d] \in Accounts /\ AccountOf[d] # Room
  BY ChatAssumption
<1>4. \A a : Unsettled(a)' => Unsettled(a)
  BY <1>1, <1>2 DEF Unsettled, Delivering, Posting
<1>5. \A n : (Nowhere(n) => Nowhere(n)') /\ (ReceivedIt(n) => ReceivedIt(n)')
  BY <1>2 DEF Nowhere, ReceivedIt
<1>6. ASSUME NEW n \in taken \ disturbed PROVE MessageFits(n)'
  <2>1. PostedFits(n) /\ OneDelivers(n) /\ SomewhereOnce(n) /\ n # m
    BY <1>1, <1>6 DEF MessagesFit, MessageFits
  <2>2. \A d \in Conns : Posted(n, d)' <=> Posted(n, d)
    BY <1>1, <1>2, <2>1, ShortJobs DEF Posted, Posting
  <2>3. \A d \in Conns : Posted(n, d) => d # c /\ stage'[d] = stage[d]
    BY <1>1, <1>2 DEF Posted, Posting
  <2>4. PostedFits(n)'
    BY <1>2, <1>4, <1>5, <2>1, <2>2, <2>3 DEF PostedFits
  <2>5. OneDelivers(n)'
    BY <1>1, <1>2, <2>1 DEF OneDelivers, Delivering, Posting
  <2>6. SomewhereOnce(n)'
    <3> SUFFICES ASSUME n.to # Room, \A d \in Conns : ~Posted(n, d)'
                 PROVE  (Stays(n) \/ Sent(n) \/ Received(n))'
      BY DEF SomewhereOnce
    <3>1. Stays(n) \/ Sent(n) \/ Received(n)
      BY <2>1, <2>2 DEF SomewhereOnce
    <3>2. \A d \in Conns : AccountOf[d] = n.to =>
             \/ stage'[d] = stage[d] /\ job'[d] = job[d]
             \/ stage[d] \notin {"sending", "deleting"} /\ stage'[d] \notin {"sending", "deleting"}
      BY <1>1, <1>2 DEF Posting
    <3> QED
      BY <1>2, <3>1, <3>2, FateKept
  <2> QED
    BY <2>4, <2>5, <2>6 DEF MessageFits
<1>7. ASSUME m \notin disturbed' PROVE MessageFits(m)'
  <2>1. \A a \in Accounts : m.to \in {a, Room} => ~Unsettled(a)
    BY <1>1, <1>7
  <2>2. /\ \A d \in Conns : Spots(inbox[d], m) = {}
        /\ m.to # Room => Spots(stored[m.to], m) = {}
        /\ \A d \in Conns : stage[d] \in Posting => job[d][1] # m
    <3>1. \A d \in Conns : \A i \in DOMAIN inbox[d] : inbox[d][i] # m
      BY <1>1 DEF ChatFits, Known
    <3>2. \A a \in Accounts : \A i \in DOMAIN stored[a] : stored[a][i] # m
      BY <1>1 DEF ChatFits, Known
    <3>3. \A d \in Conns : stage[d] \in Posting => job[d][1] # m
      BY <1>1, InHandOne
    <3> QED
      BY <1>1, <3>1, <3>2, <3>3 DEF Spots
  <2>3. Posted(m, c)' /\ \A d \in Conns : Posted(m, d)' => d = c
    <3>1. Posted(m, c)'
      BY <1>1, ShortJobs DEF Posted
    <3>2. ASSUME NEW d \in Conns, Posted(m, d)', d # c PROVE FALSE
      BY <1>1, <2>2, <3>2 DEF Posted
    <3> QED
      BY <3>1, <3>2
  <2>4. PostedFits(m)'
    <3>1. \A a \in Accounts : m.to \in {a, Room} => ~Unsettled(a)'
      BY <1>4, <2>1
    <3>2. Nowhere(m)' /\ (m.to # Room => Spots(stored'[m.to], m) = {})
      BY <1>2, <2>2 DEF Nowhere
    <3>3. stage'[c] = "deliver" => users'[m.to] # None
      BY <1>1, <1>2
    <3> QED
      BY <2>3, <3>1, <3>2, <3>3 DEF PostedFits
  <2>5. OneDelivers(m)'
    <3> SUFFICES ASSUME NEW d \in Conns, AccountOf[d] = m.to, stage'[d] \in Delivering PROVE FALSE
      BY DEF OneDelivers
    <3>1. stage[d] \in Delivering
      BY <1>1, <1>2 DEF Delivering, Posting
    <3> QED
      BY <1>3, <2>1, <3>1 DEF Unsettled
  <2>6. SomewhereOnce(m)'
    BY <2>3 DEF SomewhereOnce
  <2> QED
    BY <2>4, <2>5, <2>6 DEF MessageFits
<1> QED
  BY <1>1, <1>6, <1>7 DEF MessagesFit

(* Two tasks never post one message. *)
LEMMA PostedOnce ==
  ASSUME ChatFits, NEW m, NEW c \in Conns, Posted(m, c)
  PROVE  m.via = c /\ \A d \in Conns : Posted(m, d) => d = c
BY InHandOne DEF Posted

(* A step of the task of c that is done with the message it posted. *)
LEMMA PosterFits ==
  ASSUME ChatFits, NEW m, MessageFits(m), NEW c \in Conns, Posted(m, c), m.to \in Accounts,
         stage'[c] = "open", socket' = socket, users' = users,
         \A d \in Conns : d # c => stage'[d] = stage[d] /\ job'[d] = job[d],
         Hands(m)' = {} => (Stays(m) \/ Received(m))'
  PROVE  MessageFits(m)'
<1>1. PostedFits(m) /\ OneDelivers(m)
  BY DEF MessageFits
<1>2. ~Unsettled(m.to)
  BY <1>1 DEF PostedFits
<1>3. \A d \in Conns : d # c => ~Posted(m, d)
  BY PostedOnce
<1>4. PostedFits(m)' /\ OneDelivers(m)'
  BY <1>1, <1>3, OthersPost DEF Posted, Posting, Delivering
<1>5. Hands(m)' = {}
  BY <1>2 DEF Hands, Unsettled, Delivering
<1> QED
  BY <1>4, <1>5 DEF MessageFits, SomewhereOnce

LEMMA DeliverMessages ==
  ASSUME ChatFits, MessagesFit, NEW c \in Conns, Deliver(c)
  PROVE  MessagesFit'
<1> DEFINE h == job[c][1]
<1>1. /\ stage[c] = "deliver" /\ OMTypeOK
      /\ h \in Message /\ h.to \in Accounts /\ Posted(h, c)
  BY InHandOne DEF Deliver, Posting, Posted, ChatFits
<1>2. UNCHANGED <<users, room, socket, stored, taken, moves, failures, disturbed>>
  BY DEF Deliver
<1>3. /\ stage'[c] = "open"
      /\ \A d \in Conns : d # c => stage'[d] = stage[d] /\ job'[d] = job[d]
  BY <1>1, GoesTo, ShortJobs DEF Deliver, ChatStages
<1>4. /\ SendTo(h.to, h)
      /\ \A d \in Conns : inbox[d] \in Seq(Message)
  BY <1>1 DEF Deliver, OMTypeOK
<1>5. \A d \in Conns :
        inbox'[d] = IF Reaches(h.to) /\ d = users[h.to] THEN Append(inbox[d], h) ELSE inbox[d]
  BY <1>1, <1>4, SendsTo
<1> SUFFICES ASSUME NEW m \in taken \ disturbed PROVE MessageFits(m)'
  BY <1>2 DEF MessagesFit
<1>6. MessageFits(m)
  BY DEF MessagesFit
<1>7. CASE m # h
  <2>1. \A d \in Conns : Spots(inbox'[d], m) = Spots(inbox[d], m)
    <3> HIDE DEF h
    <3> QED
      BY <1>1, <1>4, <1>5, <1>7, AtAppend
  <2>2. ~Posted(m, c)
    BY <1>7 DEF Posted
  <2> QED
    BY <1>1, <1>2, <1>3, <1>6, <2>1, <2>2, OthersFit DEF Delivering, Posting
<1>8. CASE m = h
  <2>1. /\ ~Unsettled(m.to) /\ Nowhere(m) /\ Spots(stored[m.to], m) = {} /\ users[m.to] # None
    BY <1>1, <1>6, <1>8, ChatAssumption DEF MessageFits, PostedFits
  <2> DEFINE e == users[m.to]
  <2>2. e \in Conns /\ AccountOf[e] = m.to /\ stage[e] \notin {"new", "closed"}
    BY <1>1, <1>8, <2>1 DEF OMTypeOK, ChatFits, SessionsFit
  <2>3. Reaches(m.to)
    BY <2>1, <2>2 DEF Unsettled, Reaches
  <2>4. ReceivedIt(m)'
    <3>1. inbox'[e] = Append(inbox[e], m) /\ \A d \in Conns : d # e => inbox'[d] = inbox[d]
      <4> HIDE DEF h
      <4> QED
        BY <1>5, <1>8, <2>2, <2>3
    <3>2. Single(Spots(inbox'[e], m))
      <4>1. Spots(inbox[e], m) = {} /\ inbox[e] \in Seq(Message) /\ m \in Message
        BY <1>1, <1>4, <1>8, <2>1, <2>2 DEF Nowhere
      <4> HIDE DEF h, e
      <4> QED
        BY <3>1, <4>1, AtAppend
    <3>3. \A d \in Conns : d # e => Spots(inbox'[d], m) = {}
      BY <2>1, <3>1 DEF Nowhere
    <3> HIDE DEF e
    <3> QED
      BY <2>2, <3>2, <3>3 DEF ReceivedIt, Single
  <2>5. Hands(m)' = {} => Received(m)'
    BY <1>2, <2>1, <2>4 DEF Received
  <2> QED
    BY <1>1, <1>2, <1>3, <1>6, <1>8, <2>5, PosterFits
<1> QED
  BY <1>7, <1>8

LEMMA SaveMessages ==
  ASSUME ChatFits, MessagesFit, NEW c \in Conns, Save(c)
  PROVE  MessagesFit'
<1> DEFINE h == job[c][1]
<1>1. /\ stage[c] = "save" /\ OMTypeOK
      /\ h \in Message /\ h.to \in Accounts /\ Posted(h, c)
  BY InHandOne DEF Save, Posting, Posted, ChatFits
<1>2. UNCHANGED <<users, room, socket, inbox, taken, moves>>
  BY DEF Save
<1>3. /\ stage'[c] = "open"
      /\ \A d \in Conns : d # c => stage'[d] = stage[d] /\ job'[d] = job[d]
  BY <1>1, GoesTo, ShortJobs DEF Save, ChatStages
<1>4. stored[h.to] \in Seq(Message)
  BY <1>1 DEF OMTypeOK
<1> SUFFICES ASSUME NEW m \in taken \ disturbed,
                    m = h => stored' = [stored EXCEPT ![h.to] = Append(@, h)]
             PROVE  MessageFits(m)'
  BY <1>2 DEF MessagesFit, Save
<1>5. MessageFits(m)
  BY DEF MessagesFit
<1>6. CASE m # h
  <2>1. m.to # Room => Spots(stored'[m.to], m) = Spots(stored[m.to], m)
    <3>1. stored'[h.to] \in {stored[h.to], Append(stored[h.to], h)}
          /\ \A a \in Accounts : a # h.to => stored'[a] = stored[a]
      BY <1>1 DEF Save, OMTypeOK
    <3>2. m.to # Room => m.to \in Accounts
      BY <1>1 DEF OMTypeOK, Message
    <3>3. Spots(Append(stored[h.to], h), m) = Spots(stored[h.to], m)
      <4> HIDE DEF h
      <4> QED
        BY <1>1, <1>4, <1>6, AtAppend
    <3>4. CASE m.to = h.to
      BY <3>1, <3>3, <3>4
    <3>5. CASE m.to # h.to
      BY <3>1, <3>2, <3>5
    <3> QED
      BY <3>4, <3>5
  <2>2. ~Posted(m, c)
    BY <1>6 DEF Posted
  <2> QED
    BY <1>1, <1>2, <1>3, <1>5, <2>1, <2>2, OthersFit DEF Delivering, Posting
<1>7. CASE m = h
  <2>1. /\ Nowhere(m) /\ Spots(stored[m.to], m) = {}
    BY <1>1, <1>5, <1>7, ChatAssumption DEF MessageFits, PostedFits
  <2>2. stored'[m.to] = Append(stored[m.to], m)
    BY <1>1, <1>7 DEF OMTypeOK
  <2>3. Single(Spots(stored'[m.to], m))
    <3> HIDE DEF h
    <3> QED
      BY <1>1, <1>4, <1>7, <2>1, <2>2, AtAppend
  <2>4. Hands(m)' = {} => Stays(m)'
    BY <1>2, <2>1, <2>3 DEF Stays, Nowhere, Single
  <2> QED
    BY <1>1, <1>2, <1>3, <1>5, <1>7, <2>4, PosterFits
<1> QED
  BY <1>6, <1>7

LEMMA BroadcastMessages ==
  ASSUME ChatFits, MessagesFit, NEW c \in Conns, Broadcast(c)
  PROVE  MessagesFit'
<1> DEFINE h == job[c][1]
<1>1. /\ stage[c] = "broadcast" /\ OMTypeOK /\ h \in Message /\ h.to = Room /\ Posted(h, c)
  BY InHandOne DEF Broadcast, Posting, Posted, ChatFits
<1>2. UNCHANGED <<users, room, socket, stored, taken, moves, failures, disturbed>>
  BY DEF Broadcast
<1>3. /\ stage'[c] = "open"
      /\ \A d \in Conns : d # c => stage'[d] = stage[d] /\ job'[d] = job[d]
  BY <1>1, GoesTo, ShortJobs DEF Broadcast, ChatStages
<1>4. \A d \in Conns : inbox[d] \in Seq(Message)
  BY <1>1 DEF OMTypeOK
<1>5. \A d \in Conns : inbox'[d] = inbox[d] \/ inbox'[d] = Append(inbox[d], h)
  BY DEF Broadcast, BroadcastToRoom
<1> SUFFICES ASSUME NEW m \in taken \ disturbed PROVE MessageFits(m)'
  BY <1>2 DEF MessagesFit
<1>6. MessageFits(m)
  BY DEF MessagesFit
<1>7. CASE m # h
  <2>1. \A d \in Conns : Spots(inbox'[d], m) = Spots(inbox[d], m)
    <3> SUFFICES ASSUME NEW d \in Conns PROVE Spots(inbox'[d], m) = Spots(inbox[d], m)
      OBVIOUS
    <3>1. Spots(Append(inbox[d], h), m) = Spots(inbox[d], m)
      <4>1. inbox[d] \in Seq(Message)
        BY <1>4
      <4> HIDE DEF h
      <4> QED
        BY <1>1, <1>7, <4>1, AtAppend
    <3> QED
      BY <1>5, <3>1
  <2>2. ~Posted(m, c)
    BY <1>7 DEF Posted
  <2> QED
    BY <1>1, <1>2, <1>3, <1>6, <2>1, <2>2, OthersFit DEF Delivering, Posting
<1>8. CASE m = h
  <2>1. \A d \in Conns : d # c => ~Posted(m, d)
    BY <1>1, <1>8, PostedOnce
  <2>2. PostedFits(m)' /\ OneDelivers(m)'
    BY <1>1, <1>2, <1>3, <1>6, <2>1, OthersPost DEF MessageFits, Delivering, Posting
  <2> QED
    BY <1>1, <1>8, <2>2 DEF MessageFits, SomewhereOnce
<1> QED
  BY <1>7, <1>8

LEMMA LoseMessages ==
  ASSUME ChatFits, MessagesFit, NEW c \in Conns, Lose(c)
  PROVE  MessagesFit'
<1> DEFINE a == AccountOf[c]
<1>1. a \in Accounts /\ UNCHANGED <<users, room, stage, job, stored, inbox, taken>>
  BY ChatAssumption DEF Lose
<1> SUFFICES ASSUME NEW m \in taken \ disturbed, m \notin Crossed(a) PROVE MessageFits(m)'
  BY <1>1 DEF Lose, MessagesFit
<1>2. PostedFits(m) /\ OneDelivers(m) /\ SomewhereOnce(m)
  BY DEF MessagesFit, MessageFits
<1>3. PostedFits(m)'
  <2> SUFFICES ASSUME NEW d \in Conns, Posted(m, d)
               PROVE  \A b \in Accounts : m.to \in {b, Room} => ~Unsettled(b)'
    BY <1>1, <1>2 DEF PostedFits, Posted, Nowhere
  <2>1. m \in {job[d][i] : i \in DOMAIN job[d]} /\ stage[d] \in Posting
    BY InHandOne DEF Posted
  <2>2. m.to \in {a, Room} => m \in InHand(a)
    BY <2>1 DEF InHand
  <2>3. m.to \notin {a, Room}
    BY <2>2 DEF Crossed
  <2>4. \A b \in Accounts : b # a /\ Unsettled(b)' => Unsettled(b)
    BY <1>1 DEF Unsettled, Lose
  <2> QED
    BY <1>2, <2>3, <2>4 DEF PostedFits
<1>4. OneDelivers(m)'
  <2> SUFFICES ASSUME NEW d \in Conns, AccountOf[d] = m.to, stage[d] \in Delivering
               PROVE  d \in socket' /\ users'[m.to] = d
    BY <1>1 DEF OneDelivers
  <2>1. d # c
    <3>1. d = c => Unsettled(a) /\ m.to = a
      BY DEF Unsettled
    <3> QED
      BY <3>1 DEF Crossed
  <2> QED
    BY <1>1, <1>2, <2>1 DEF OneDelivers, Lose
<1>5. SomewhereOnce(m)'
  BY <1>1, <1>2
     DEF SomewhereOnce, Posted, Stays, Sent, Received, Nowhere, ReceivedIt, Hands
<1> QED
  BY <1>3, <1>4, <1>5 DEF MessageFits

LEMMA CleanUpMessages ==
  ASSUME ChatFits, MessagesFit, NEW c \in Conns, CleanUp(c)
  PROVE  MessagesFit'
<1> DEFINE a == AccountOf[c]
<1>1. /\ a \in Accounts /\ a # Room /\ OMTypeOK /\ stage[c] = "open" /\ c \notin socket
      /\ UNCHANGED <<socket, stored, inbox, taken, moves, failures, disturbed>>
  BY ChatAssumption DEF ChatFits, CleanUp
<1>2. /\ stage'[c] = "closed"
      /\ \A d \in Conns : d # c => stage'[d] = stage[d] /\ job'[d] = job[d]
  BY <1>1, GoesTo, ShortJobs DEF CleanUp, ChatStages
<1>3. \A b \in Accounts : users'[b] # users[b] => b = a /\ users[b] = c
  BY <1>1 DEF CleanUp, OMTypeOK
<1>4. Unsettled(a)
  BY <1>1 DEF Unsettled
<1>5. \A b : Unsettled(b)' => Unsettled(b)
  BY <1>1, <1>2, SettledKept DEF Delivering
<1> SUFFICES ASSUME NEW m \in taken \ disturbed PROVE MessageFits(m)'
  BY <1>1 DEF MessagesFit
<1>6. PostedFits(m) /\ OneDelivers(m) /\ SomewhereOnce(m) /\ m \in Message
  BY <1>1 DEF MessagesFit, MessageFits, OMTypeOK
<1>7. /\ \A d \in Conns : Posted(m, d)' <=> Posted(m, d)
      /\ \A d \in Conns : Posted(m, d) => d # c /\ stage'[d] = stage[d]
  BY <1>1, <1>2 DEF Posted, Posting
<1>8. PostedFits(m)'
  <2> SUFFICES ASSUME NEW d \in Conns, Posted(m, d)'
               PROVE  /\ \A b \in Accounts : m.to \in {b, Room} => ~Unsettled(b)'
                      /\ Nowhere(m)'
                      /\ m.to # Room => Spots(stored'[m.to], m) = {}
                      /\ stage'[d] = "deliver" => users'[m.to] # None
    BY DEF PostedFits
  <2>1. Posted(m, d) /\ stage'[d] = stage[d]
    BY <1>7
  <2>2. stage[d] = "deliver" => m.to \in Accounts
    BY <2>1, InHandOne DEF Posted
  <2>3. stage[d] = "deliver" => users'[m.to] = users[m.to]
    BY <1>3, <1>4, <1>6, <2>1, <2>2 DEF PostedFits
  <2>4. Nowhere(m)'
    BY <1>1, <1>6, <2>1 DEF PostedFits, Nowhere
  <2> QED
    BY <1>1, <1>5, <1>6, <2>1, <2>3, <2>4 DEF PostedFits
<1>9. OneDelivers(m)'
  <2> SUFFICES ASSUME NEW d \in Conns, AccountOf[d] = m.to, stage'[d] \in Delivering
               PROVE  d \in socket' /\ users'[m.to] = d
    BY DEF OneDelivers
  <2>1. d # c /\ stage[d] \in Delivering /\ m.to \in Accounts
    BY <1>2, ChatAssumption DEF Delivering
  <2> QED
    BY <1>1, <1>3, <1>6, <2>1 DEF OneDelivers
<1>10. SomewhereOnce(m)'
  <2> SUFFICES ASSUME m.to # Room, \A d \in Conns : ~Posted(m, d)'
               PROVE  (Stays(m) \/ Sent(m) \/ Received(m))'
    BY DEF SomewhereOnce
  <2>1. Stays(m) \/ Sent(m) \/ Received(m)
    BY <1>6, <1>7 DEF SomewhereOnce
  <2>2. \A d \in Conns : AccountOf[d] = m.to =>
           \/ stage'[d] = stage[d] /\ job'[d] = job[d]
           \/ stage[d] \notin {"sending", "deleting"} /\ stage'[d] \notin {"sending", "deleting"}
    BY <1>1, <1>2
  <2> QED
    BY <1>1, <2>1, <2>2, FateKept
<1> QED
  BY <1>8, <1>9, <1>10 DEF MessageFits

LEMMA QuietMessages ==
  ASSUME MessagesFit, UNCHANGED <<users, socket, stage, job, stored, inbox, taken, disturbed>>
  PROVE  MessagesFit'
<1>1. \A m : /\ Nowhere(m) <=> Nowhere(m)'
             /\ ReceivedIt(m) <=> ReceivedIt(m)'
             /\ Hands(m) = Hands(m)'
  BY DEF Nowhere, ReceivedIt, Hands
<1>2. \A m, c : Posted(m, c) <=> Posted(m, c)'
  BY DEF Posted
<1>3. \A m : (Stays(m) => Stays(m)') /\ (Sent(m) => Sent(m)') /\ (Received(m) => Received(m)')
  BY <1>1 DEF Stays, Sent, Received
<1>4. \A m : (PostedFits(m) => PostedFits(m)') /\ (OneDelivers(m) => OneDelivers(m)')
  BY <1>1, <1>2 DEF PostedFits, OneDelivers, Unsettled
<1>5. \A m : SomewhereOnce(m) => SomewhereOnce(m)'
  BY <1>2, <1>3 DEF SomewhereOnce
<1> QED
  BY <1>4, <1>5 DEF MessagesFit, MessageFits

LEMMA MessagesFitStep == ChatFits /\ MessagesFit /\ [OMNext]_omVars => MessagesFit'
<1> SUFFICES ASSUME ChatFits, MessagesFit, [OMNext]_omVars PROVE MessagesFit'
  OBVIOUS
<1>1. ASSUME NEW c \in Conns, ChatPrivate(c) PROVE MessagesFit'
  <2>1. PICK to \in Accounts, s \in {"deliver", "save"} :
          TakeUp(c, to, s) /\ (s = "deliver" => users[to] # None)
    BY <1>1, ChatPrivateTakesUp
  <2>2. s \in Posting /\ s # "broadcast" /\ to # Room
    BY ChatAssumption DEF Posting
  <2> QED
    BY <2>1, <2>2, TakeUpMessages
<1>2. ASSUME NEW c \in Conns, ChatRoom(c) PROVE MessagesFit'
  <2>1. TakeUp(c, Room, "broadcast") /\ "broadcast" \in Posting
    BY <1>2 DEF ChatRoom, Posting
  <2> QED
    BY <2>1, TakeUpMessages
<1>3. ASSUME NEW a \in Accounts, SetRoom(a) PROVE MessagesFit'
  BY <1>3, QuietMessages DEF SetRoom
<1>4. CASE UNCHANGED omVars
  BY <1>4, QuietMessages DEF omVars
<1> QED
  BY <1>1, <1>2, <1>3, <1>4, LoginMessages, ReadStoredMessages, SendStoredMessages,
     DeleteStoredMessages, DeliverMessages, SaveMessages, BroadcastMessages, LoseMessages,
     CleanUpMessages DEF OMNext

(* The places where clients received m, and its rows, are as many as one.     *)
LEMMA OnceCounts ==
  ASSUME NEW m, ReceivedIt(m)
  PROVE  Cardinality(Places(m)) = 1
<1>1. PICK c \in Conns : /\ Single(Spots(inbox[c], m))
                         /\ \A d \in Conns : d # c => Spots(inbox[d], m) = {}
  BY DEF ReceivedIt
<1>2. PICK i \in Nat : Spots(inbox[c], m) = {i}
  BY <1>1 DEF Single
<1>3. Places(m) = {<<c, i>>}
  <2>1. Places(m) = UNION {{d} \X Spots(inbox[d], m) : d \in Conns}
    BY DEF Places, Spots
  <2>2. \A p : p \in Places(m) <=> \E d \in Conns : p \in {d} \X Spots(inbox[d], m)
    BY <2>1
  <2>3. {c} \X Spots(inbox[c], m) = {<<c, i>>}
    BY <1>2
  <2>4. \A d \in Conns : d # c => {d} \X Spots(inbox[d], m) = {}
    BY <1>1
  <2> QED
    BY <2>2, <2>3, <2>4
<1> QED
  BY <1>3, FS_Singleton

LEMMA NowhereCounts ==
  ASSUME NEW m, Nowhere(m)
  PROVE  Cardinality(Places(m)) = 0
<1>1. Places(m) = {}
  BY DEF Places, Nowhere, Spots
<1> QED
  BY <1>1, FS_EmptySet

(* A private message that no login, loss or failed database call came across  *)
(* is received exactly once or waits in the table exactly once: a sender that  *)
(* finds the recipient online or not (chat/handler.rs:44) and a login that      *)
(* delivers what was stored (:55) neither lose nor double it.                   *)
THEOREM ReceiptHolds == OMSpec => []ReceivedOnceOrStored
<1>1. ChatFits /\ MessagesFit => ReceivedOnceOrStored
  <2> SUFFICES ASSUME ChatFits, MessagesFit, NEW m \in taken \ disturbed, m.to # Room,
                      m \notin InHand(m.to), ~Unsettled(m.to)
               PROVE  Cardinality(Places(m)) + Cardinality(StoredAt(m)) = 1
    BY DEF ReceivedOnceOrStored
  <2>1. MessageFits(m) /\ m.to \in Accounts
    BY DEF MessagesFit, ChatFits, OMTypeOK, Message
  <2>2. \A c \in Conns : ~Posted(m, c)
    <3> SUFFICES ASSUME NEW c \in Conns, Posted(m, c) PROVE FALSE
      OBVIOUS
    <3>1. stage[c] \in Posting /\ m \in {job[c][i] : i \in DOMAIN job[c]}
      BY InHandOne DEF Posted
    <3> QED
      BY <3>1 DEF InHand
  <2>3. Stays(m) \/ Sent(m) \/ Received(m)
    BY <2>1, <2>2 DEF MessageFits, SomewhereOnce
  <2>4. Hands(m) = {}
    BY DEF Hands, Unsettled, Delivering
  <2>5. StoredAt(m) = Spots(stored[m.to], m)
    BY DEF StoredAt, Spots
  <2>6. CASE Stays(m)
    <3>1. Cardinality(Places(m)) = 0
      BY <2>6, NowhereCounts DEF Stays
    <3>2. Cardinality(StoredAt(m)) = 1
      BY <2>5, <2>6, FS_Singleton DEF Stays, Single
    <3> QED
      BY <3>1, <3>2
  <2>7. CASE Received(m)
    <3>1. Cardinality(Places(m)) = 1
      BY <2>7, OnceCounts DEF Received
    <3>2. Cardinality(StoredAt(m)) = 0
      BY <2>5, <2>7, FS_EmptySet DEF Received
    <3> QED
      BY <3>1, <3>2
  <2> QED
    BY <2>3, <2>4, <2>6, <2>7 DEF Sent
<1> QED
  BY <1>1, ChatFitsInit, ChatFitsStep, MessagesFitInit, MessagesFitStep, PTL DEF OMSpec

----------------------------------------------------------------------------
(* Chat: the order of what one connection sent, but for the messages in D     *)

InOrder(m, n, D) == m.via = n.via /\ {m, n} \cap D = {} => m.id < n.id
Ordered(s, D) == \A i, j \in DOMAIN s : i < j => InOrder(s[i], s[j], D)
Before(s, m, D) == \A i \in DOMAIN s : InOrder(s[i], m, D)

(* A login that lists has received nothing but what it came across, and one   *)
(* that sends has received what comes before the rest.                        *)
InboxFits(c) ==
  /\ stage[c] = "new" => inbox[c] = <<>>
  /\ stage[c] = "listing" => \A i \in DOMAIN inbox[c] : inbox[c][i] \in disturbed
  /\ stage[c] = "sending" =>
       /\ Ordered(job[c], disturbed)
       /\ \A j \in DOMAIN job[c] : Before(inbox[c], job[c][j], disturbed)

OrderInv ==
  /\ \A c \in Conns : Ordered(inbox[c], disturbed) /\ InboxFits(c)
  /\ \A a \in Accounts : Ordered(stored[a], disturbed)

LEMMA OrderInit == OMInit => OrderInv
BY DEF OMInit, OrderInv, Ordered, InboxFits

LEMMA OrderedMore ==
  ASSUME NEW D, NEW E, D \subseteq E
  PROVE  /\ \A s : Ordered(s, D) => Ordered(s, E)
         /\ \A s, m : Before(s, m, D) => Before(s, m, E)
<1>1. \A m, n : InOrder(m, n, D) => InOrder(m, n, E)
  BY DEF InOrder
<1> QED
  BY <1>1 DEF Ordered, Before

LEMMA OrderedAppend ==
  ASSUME NEW T, NEW s \in Seq(T), NEW h \in T, NEW D
  PROVE  /\ Ordered(s, D) /\ Before(s, h, D) => Ordered(Append(s, h), D)
         /\ \A m : Before(s, m, D) /\ InOrder(h, m, D) => Before(Append(s, h), m, D)
<1> DEFINE t == Append(s, h)
<1>1. /\ DOMAIN t = 1..(Len(s) + 1) /\ DOMAIN s = 1..Len(s) /\ Len(s) \in Nat
      /\ t[Len(s) + 1] = h
      /\ \A i \in 1..Len(s) : t[i] = s[i]
  <2>1. t \in Seq(T) /\ Len(t) = Len(s) + 1 /\ Len(s) \in Nat
    BY AppendElements
  <2> QED
    BY <2>1, AppendElements
<1> HIDE DEF t
<1>2. ASSUME Ordered(s, D), Before(s, h, D), NEW i \in DOMAIN t, NEW j \in DOMAIN t, i < j
      PROVE  InOrder(t[i], t[j], D)
  <2>1. i \in 1..Len(s) /\ t[i] = s[i]
    BY <1>1, <1>2
  <2>2. CASE j \in 1..Len(s)
    BY <1>1, <1>2, <2>1, <2>2 DEF Ordered
  <2>3. CASE j = Len(s) + 1
    BY <1>1, <1>2, <2>1, <2>3 DEF Before
  <2> QED
    BY <1>1, <2>2, <2>3
<1>3. ASSUME NEW m, Before(s, m, D), InOrder(h, m, D), NEW i \in DOMAIN t
      PROVE  InOrder(t[i], m, D)
  BY <1>1, <1>3 DEF Before
<1> QED
  BY <1>2, <1>3 DEF t, Ordered, Before

LEMMA OrderedTail ==
  ASSUME NEW T, NEW s \in Seq(T), s # <<>>, NEW D, Ordered(s, D)
  PROVE  /\ Ordered(Tail(s), D)
         /\ \A j \in DOMAIN Tail(s) : InOrder(Head(s), Tail(s)[j], D)
<1> DEFINE t == Tail(s)
           h == Head(s)
<1>1. /\ t \in Seq(T) /\ Len(t) = Len(s) - 1 /\ Len(s) \in Nat \ {0} /\ h = s[1]
      /\ \A i \in 1..Len(t) : i + 1 \in 1..Len(s) /\ t[i] = s[i + 1]
  BY TailElements
<1>2. DOMAIN t = 1..Len(t) /\ DOMAIN s = 1..Len(s)
  BY <1>1
<1> HIDE DEF t, h
<1>3. ASSUME NEW i \in DOMAIN t, NEW j \in DOMAIN t, i < j PROVE InOrder(t[i], t[j], D)
  <2>1. i + 1 \in DOMAIN s /\ j + 1 \in DOMAIN s /\ i + 1 < j + 1
    BY <1>1, <1>2, <1>3
  <2>2. InOrder(s[i + 1], s[j + 1], D)
    BY <2>1 DEF Ordered
  <2> QED
    BY <1>1, <1>2, <2>2
<1>4. ASSUME NEW j \in DOMAIN t PROVE InOrder(h, t[j], D)
  <2>1. 1 \in DOMAIN s /\ j + 1 \in DOMAIN s /\ 1 < j + 1
    BY <1>1, <1>2
  <2>2. InOrder(s[1], s[j + 1], D)
    BY <2>1 DEF Ordered
  <2> QED
    BY <1>1, <1>2, <2>2
<1> QED
  BY <1>3, <1>4 DEF t, h, Ordered

(* What appends to no inbox and stores nothing keeps the order. *)
LEMMA OrderKept ==
  ASSUME OrderInv, disturbed \subseteq disturbed',
         \A a \in Accounts : stored'[a] = stored[a] \/ Ordered(stored'[a], disturbed'),
         \A c \in Conns : inbox'[c] = inbox[c] \/ Ordered(inbox'[c], disturbed'),
         \A c \in Conns :
           \/ stage'[c] = stage[c] /\ job'[c] = job[c] /\ inbox'[c] = inbox[c]
           \/ InboxFits(c)'
  PROVE  OrderInv'
<1>1. \A a \in Accounts : Ordered(stored'[a], disturbed')
  BY OrderedMore DEF OrderInv
<1>2. \A c \in Conns : Ordered(inbox'[c], disturbed')
  BY OrderedMore DEF OrderInv
<1>3. ASSUME NEW c \in Conns, stage'[c] = stage[c], job'[c] = job[c], inbox'[c] = inbox[c]
      PROVE  InboxFits(c)'
  <2>1. InboxFits(c)
    BY DEF OrderInv
  <2>2. /\ Ordered(job[c], disturbed) => Ordered(job[c], disturbed')
        /\ \A j \in DOMAIN job[c] :
             Before(inbox[c], job[c][j], disturbed) => Before(inbox[c], job[c][j], disturbed')
    BY OrderedMore
  <2> QED
    BY <1>3, <2>1, <2>2 DEF InboxFits
<1> QED
  BY <1>1, <1>2, <1>3 DEF OrderInv

(* A step of the task of c after which it lists and sends nothing. *)
LEMMA OrderQuiet ==
  ASSUME OrderInv, NEW c \in Conns, disturbed \subseteq disturbed',
         \A d \in Conns : d # c => stage'[d] = stage[d] /\ job'[d] = job[d],
         stage'[c] \notin {"new", "listing", "sending"}, inbox' = inbox,
         \A a \in Accounts : stored'[a] = stored[a] \/ Ordered(stored'[a], disturbed')
  PROVE  OrderInv'
<1>1. InboxFits(c)'
  BY DEF InboxFits
<1> QED
  BY <1>1, OrderKept

(* What a task posts is the newest of its connection. *)
LEMMA NewestFits ==
  ASSUME ChatFits, NEW c \in Conns, stage[c] \in Posting, NEW s,
         \A i \in DOMAIN s : s[i] \in taken,
         job[c][1] \in disturbed \/ Spots(s, job[c][1]) = {}
  PROVE  Before(s, job[c][1], disturbed)
<1> DEFINE h == job[c][1]
<1>1. h.via = c /\ \A n \in taken : n.via = c /\ n # h => n.id < h.id
  BY DEF ChatFits, JobFits
<1> HIDE DEF h
<1>2. ASSUME NEW i \in DOMAIN s PROVE InOrder(s[i], h, disturbed)
  <2>1. CASE s[i] = h
    BY <2>1 DEF Spots, InOrder, h
  <2>2. CASE s[i] # h
    BY <1>1, <2>2 DEF InOrder
  <2> QED
    BY <2>1, <2>2
<1> QED
  BY <1>2 DEF Before, h

(* An inbox that what is posted is appended to. *)
LEMMA PostedOrder ==
  ASSUME ChatFits, MessagesFit, OrderInv, NEW c \in Conns, stage[c] \in Posting,
         NEW a \in Accounts, job[c][1].to \in {a, Room}, NEW d \in Conns, users[a] = d,
         inbox'[d] = Append(inbox[d], job[c][1]), disturbed' = disturbed
  PROVE  /\ Ordered(inbox'[d], disturbed')
         /\ stage'[d] = stage[d] /\ job'[d] = job[d] => InboxFits(d)'
<1> DEFINE h == job[c][1]
<1>1. h \in taken /\ h \in Message /\ Posted(h, c)
  BY InHandOne DEF Posted
<1>2. h \notin disturbed => ~Unsettled(a) /\ Spots(inbox[d], h) = {}
  BY <1>1 DEF MessagesFit, MessageFits, PostedFits, Nowhere
<1>3. inbox[d] \in Seq(Message) /\ \A i \in DOMAIN inbox[d] : inbox[d][i] \in taken
  BY DEF ChatFits, OMTypeOK, Known
<1>4. Before(inbox[d], h, disturbed)
  BY <1>2, <1>3, NewestFits
<1>5. Ordered(inbox[d], disturbed) /\ InboxFits(d)
  BY DEF OrderInv
<1>6. AccountOf[d] = a /\ stage[d] # "new"
  BY ChatAssumption DEF ChatFits, SessionsFit
<1>7. stage[d] \in Delivering => h \in disturbed
  BY <1>2, <1>6 DEF Unsettled
<1>8. inbox'[d] = Append(inbox[d], h)
  OBVIOUS
<1> HIDE DEF h
<1>9. Ordered(inbox'[d], disturbed)
  BY <1>1, <1>3, <1>4, <1>5, <1>8, OrderedAppend
<1>10. ASSUME stage'[d] = stage[d], job'[d] = job[d] PROVE InboxFits(d)'
  <2>1. stage[d] = "listing" => \A i \in DOMAIN inbox'[d] : inbox'[d][i] \in disturbed
    BY <1>1, <1>3, <1>5, <1>7, <1>8, AppendedElements DEF InboxFits, Delivering
  <2>2. ASSUME stage[d] = "sending", NEW j \in DOMAIN job[d]
        PROVE  Before(inbox'[d], job[d][j], disturbed)
    <3>1. InOrder(h, job[d][j], disturbed)
      BY <1>7, <2>2 DEF InOrder, Delivering
    <3>2. Before(inbox[d], job[d][j], disturbed)
      BY <1>5, <2>2 DEF InboxFits
    <3> QED
      BY <1>1, <1>3, <1>8, <3>1, <3>2, OrderedAppend
  <2> QED
    BY <1>5, <1>6, <1>10, <2>1, <2>2 DEF InboxFits
<1> QED
  BY <1>9, <1>10

LEMMA LoginOrder ==
  ASSUME ChatFits, OrderInv, NEW c \in Conns, Login(c)
  PROVE  OrderInv'
<1>1. /\ stage'[c] = "listing" /\ stage[c] = "new"
      /\ \A d \in Conns : d # c => stage'[d] = stage[d] /\ job'[d] = job[d]
      /\ UNCHANGED <<stored, inbox, taken>> /\ disturbed \subseteq disturbed'
  BY GoesTo, ShortJobs DEF Login, ChatFits, ChatStages, Delivering
<1>2. inbox[c] = <<>>
  BY <1>1 DEF OrderInv, InboxFits
<1>3. InboxFits(c)'
  BY <1>1, <1>2 DEF InboxFits
<1> QED
  BY <1>1, <1>3, OrderKept

LEMMA ReadStoredOrder ==
  ASSUME ChatFits, OrderInv, NEW c \in Conns, ReadStored(c)
  PROVE  OrderInv'
<1> DEFINE a == AccountOf[c]
<1>1. a \in Accounts /\ OMTypeOK /\ stage[c] = "listing" /\ stored[a] \in Seq(Message)
  BY ChatAssumption DEF ChatFits, ReadStored, OMTypeOK
<1>2. UNCHANGED <<stored, inbox, disturbed>>
  BY DEF ReadStored
<1>3. CASE GoTo(c, "sending", stored[a])
  <2>1. /\ stage'[c] = "sending" /\ job'[c] = stored[a]
        /\ \A d \in Conns : d # c => stage'[d] = stage[d] /\ job'[d] = job[d]
    BY <1>1, <1>3, GoesTo DEF ChatStages, Delivering
  <2>2. \A i \in DOMAIN inbox[c] : inbox[c][i] \in disturbed
    BY <1>1 DEF OrderInv, InboxFits
  <2>3. \A m : Before(inbox[c], m, disturbed)
    BY <2>2 DEF Before, InOrder
  <2>4. InboxFits(c)'
    BY <1>1, <1>2, <2>1, <2>3 DEF InboxFits, OrderInv
  <2> QED
    BY <1>2, <2>1, <2>4, OrderKept
<1>4. CASE GoTo(c, "open", <<>>)
  <2>1. /\ stage'[c] = "open"
        /\ \A d \in Conns : d # c => stage'[d] = stage[d] /\ job'[d] = job[d]
    BY <1>1, <1>4, GoesTo, ShortJobs DEF ChatStages
  <2> QED
    BY <1>2, <2>1, OrderQuiet
<1> QED
  BY <1>3, <1>4 DEF ReadStored, GetOfflineMessages

LEMMA SendStoredOrder ==
  ASSUME ChatFits, MessagesFit, OrderInv, NEW c \in Conns, SendStored(c)
  PROVE  OrderInv'
<1> DEFINE a == AccountOf[c]
           h == Head(job[c])
<1>1. a \in Accounts /\ OMTypeOK /\ stage[c] = "sending"
  BY ChatAssumption DEF ChatFits, SendStored
<1>2. UNCHANGED <<users, room, socket, stored, taken, moves>>
  BY DEF SendStored
<1>3. /\ job[c] \in Seq(Message) /\ job[c] # <<>> /\ h \in Message /\ h \in taken /\ h.to = a
      /\ h = job[c][1] /\ 1 \in DOMAIN job[c]
  BY <1>1, InHandRows
<1>4. Tail(job[c]) \in Seq(Message)
  BY <1>3, TailElements
<1>5. CASE Fail /\ GoTo(c, "open", <<>>) /\ disturbed' = disturbed \cup {m \in taken : m.to = a}
           /\ UNCHANGED inbox
  <2>1. /\ stage'[c] = "open"
        /\ \A d \in Conns : d # c => stage'[d] = stage[d] /\ job'[d] = job[d]
    BY <1>1, <1>5, GoesTo, ShortJobs DEF ChatStages
  <2> QED
    BY <1>2, <1>5, <2>1, OrderQuiet
<1>6. CASE /\ SendTo(a, h) /\ UNCHANGED disturbed
           /\ GoTo(c, IF Len(job[c]) = 1 THEN "deleting" ELSE "sending", Tail(job[c]))
  <2>1. /\ stage'[c] \in {"deleting", "sending"} /\ job'[c] = Tail(job[c])
        /\ \A d \in Conns : d # c => stage'[d] = stage[d] /\ job'[d] = job[d]
    <3> DEFINE s == IF Len(job[c]) = 1 THEN "deleting" ELSE "sending"
    <3>1. s \in {"deleting", "sending"} /\ s \in ChatStages
      BY DEF ChatStages, Delivering
    <3>2. GoTo(c, s, Tail(job[c]))
      BY <1>6
    <3> HIDE DEF s
    <3> QED
      BY <1>1, <1>4, <3>1, <3>2, GoesTo
  <2>2. \A d \in Conns :
          inbox'[d] = IF Reaches(a) /\ d = users[a] THEN Append(inbox[d], h) ELSE inbox[d]
    BY <1>1, <1>3, <1>6, SendsTo
  <2>3. /\ Ordered(job[c], disturbed) /\ Before(inbox[c], h, disturbed)
        /\ \A j \in DOMAIN job[c] : Before(inbox[c], job[c][j], disturbed)
    BY <1>1, <1>3 DEF OrderInv, InboxFits
  <2>4. \A j \in DOMAIN Tail(job[c]) :
          /\ InOrder(h, Tail(job[c])[j], disturbed)
          /\ Before(inbox[c], Tail(job[c])[j], disturbed)
    <3>1. \A j \in DOMAIN Tail(job[c]) : InOrder(h, Tail(job[c])[j], disturbed)
      BY <1>3, <2>3, OrderedTail
    <3>2. \A j \in DOMAIN Tail(job[c]) : \E k \in DOMAIN job[c] : Tail(job[c])[j] = job[c][k]
      BY <1>3, TailElements
    <3> QED
      BY <2>3, <3>1, <3>2
  <2>5. Ordered(Tail(job[c]), disturbed)
    BY <1>3, <2>3, OrderedTail
  <2>6. users[a] # c => h \in disturbed
    BY <1>1, <1>3 DEF MessagesFit, MessageFits, OneDelivers, Delivering
  <2> SUFFICES ASSUME NEW d \in Conns PROVE Ordered(inbox'[d], disturbed') /\ InboxFits(d)'
    BY <1>2, <1>6, OrderKept
  <2>7. Ordered(inbox[d], disturbed) /\ InboxFits(d) /\ inbox[d] \in Seq(Message)
    BY <1>1 DEF OrderInv, OMTypeOK
  <2>8. CASE inbox'[d] = inbox[d]
    <3>1. CASE d = c
      BY <1>6, <2>1, <2>4, <2>5, <2>7, <2>8, <3>1 DEF InboxFits
    <3>2. CASE d # c
      BY <1>6, <2>1, <2>7, <2>8, <3>2 DEF InboxFits
    <3> QED
      BY <3>1, <3>2
  <2>9. CASE Reaches(a) /\ d = users[a] /\ inbox'[d] = Append(inbox[d], h)
    <3>1. stage[d] # "new"
      BY <1>1, <2>9 DEF ChatFits, SessionsFit, Reaches
    <3>2. h \in disturbed => \A m : InOrder(h, m, disturbed) /\ InOrder(m, h, disturbed)
      BY DEF InOrder
    <3>3. d # c => Before(inbox[d], h, disturbed)
      BY <2>6, <2>9, <3>2 DEF Before
    <3>4. Ordered(inbox'[d], disturbed)
      <4> HIDE DEF h
      <4> QED
        BY <1>3, <2>3, <2>7, <2>9, <3>3, OrderedAppend
    <3>5. \A m : Before(inbox[d], m, disturbed) /\ InOrder(h, m, disturbed)
                   => Before(inbox'[d], m, disturbed)
      <4> HIDE DEF h
      <4> QED
        BY <1>3, <2>7, <2>9, OrderedAppend
    <3>6. CASE d = c
      BY <1>6, <2>1, <2>4, <2>5, <3>4, <3>5, <3>6 DEF InboxFits
    <3>7. CASE d # c
      <4>1. h \in disturbed /\ stage'[d] = stage[d] /\ job'[d] = job[d]
        BY <2>1, <2>6, <2>9, <3>7
      <4>2. stage[d] = "listing" => \A i \in DOMAIN inbox'[d] : inbox'[d][i] \in disturbed
        <5> HIDE DEF h
        <5> QED
          BY <1>3, <2>7, <2>9, <4>1, AppendedElements DEF InboxFits
      <4>3. stage[d] = "sending" =>
              \A j \in DOMAIN job[d] : Before(inbox'[d], job[d][j], disturbed)
        BY <2>7, <3>2, <3>5, <4>1 DEF InboxFits
      <4> QED
        BY <1>6, <2>7, <3>1, <3>4, <4>1, <4>2, <4>3 DEF InboxFits
    <3> QED
      BY <3>6, <3>7
  <2> QED
    BY <2>2, <2>8, <2>9
<1> QED
  BY <1>5, <1>6 DEF SendStored

LEMMA DeleteStoredOrder ==
  ASSUME ChatFits, OrderInv, NEW c \in Conns, DeleteStored(c)
  PROVE  OrderInv'
<1>1. OMTypeOK /\ GoTo(c, "open", <<>>) /\ inbox' = inbox /\ disturbed \subseteq disturbed'
  BY DEF ChatFits, DeleteStored
<1>2. /\ stage'[c] = "open"
      /\ \A d \in Conns : d # c => stage'[d] = stage[d] /\ job'[d] = job[d]
  BY <1>1, GoesTo, ShortJobs DEF ChatStages
<1>3. \A a \in Accounts : stored'[a] = stored[a] \/ stored'[a] = <<>>
  BY <1>1 DEF DeleteStored, DeleteOfflineMessages, OMTypeOK
<1>4. \A D : Ordered(<<>>, D)
  BY DEF Ordered
<1>5. \A a \in Accounts : stored'[a] = stored[a] \/ Ordered(stored'[a], disturbed')
  BY <1>3, <1>4
<1> QED
  BY <1>1, <1>2, <1>5, OrderQuiet

LEMMA TakeUpOrder ==
  ASSUME ChatFits, OrderInv, NEW c \in Conns, ChatPrivate(c) \/ ChatRoom(c)
  PROVE  OrderInv'
<1>1. PICK to \in Accounts \cup {Room}, s \in Posting : TakeUp(c, to, s)
  BY DEF ChatPrivate, ChatRoom, Posting
<1>2. GoTo(c, s, job'[c]) /\ UNCHANGED <<stored, inbox>> /\ disturbed \subseteq disturbed'
  BY <1>1 DEF TakeUp, GoTo, ChatFits, OMTypeOK
<1>3. /\ stage'[c] = s
      /\ \A d \in Conns : d # c => stage'[d] = stage[d] /\ job'[d] = job[d]
  BY <1>2 DEF GoTo, ChatFits, OMTypeOK
<1> QED
  BY <1>2, <1>3, OrderQuiet DEF Posting

LEMMA DeliverOrder ==
  ASSUME ChatFits, MessagesFit, OrderInv, NEW c \in Conns, Deliver(c)
  PROVE  OrderInv'
<1> DEFINE h == job[c][1]
<1>1. /\ stage[c] = "deliver" /\ stage[c] \in Posting /\ OMTypeOK
      /\ h \in Message /\ h.to \in Accounts
  BY InHandOne DEF Deliver, Posting, ChatFits
<1>2. UNCHANGED <<users, room, socket, stored, taken, moves, failures, disturbed>>
  BY DEF Deliver
<1>3. /\ stage'[c] = "open"
      /\ \A d \in Conns : d # c => stage'[d] = stage[d] /\ job'[d] = job[d]
  BY <1>1, GoesTo, ShortJobs DEF Deliver, ChatStages
<1>4. \A d \in Conns :
        inbox'[d] = IF Reaches(h.to) /\ d = users[h.to] THEN Append(inbox[d], h) ELSE inbox[d]
  BY <1>1, SendsTo DEF Deliver
<1>5. InboxFits(c)'
  BY <1>3 DEF InboxFits
<1>6. ASSUME NEW d \in Conns, inbox'[d] # inbox[d]
      PROVE  /\ Ordered(inbox'[d], disturbed')
             /\ stage'[d] = stage[d] /\ job'[d] = job[d] => InboxFits(d)'
  <2>1. inbox'[d] = Append(inbox[d], h) /\ users[h.to] = d
    BY <1>4, <1>6
  <2> QED
    BY <1>1, <1>2, <2>1, PostedOrder
<1> QED
  BY <1>2, <1>3, <1>5, <1>6, OrderKept

LEMMA SaveOrder ==
  ASSUME ChatFits, MessagesFit, OrderInv, NEW c \in Conns, Save(c)
  PROVE  OrderInv'
<1> DEFINE h == job[c][1]
<1>1. /\ stage[c] = "save" /\ stage[c] \in Posting /\ OMTypeOK
      /\ h \in Message /\ h.to \in Accounts /\ h.to # Room /\ h \in taken /\ Posted(h, c)
  BY InHandOne, ChatAssumption DEF Save, Posting, Posted, ChatFits
<1>2. inbox' = inbox /\ disturbed \subseteq disturbed'
  BY DEF Save
<1>3. /\ stage'[c] = "open"
      /\ \A d \in Conns : d # c => stage'[d] = stage[d] /\ job'[d] = job[d]
  BY <1>1, GoesTo, ShortJobs DEF Save, ChatStages
<1>4. /\ stored[h.to] \in Seq(Message) /\ Ordered(stored[h.to], disturbed)
      /\ \A i \in DOMAIN stored[h.to] : stored[h.to][i] \in taken
  BY <1>1 DEF OMTypeOK, OrderInv, ChatFits, Known
<1>5. h \notin disturbed => Spots(stored[h.to], h) = {}
  BY <1>1 DEF MessagesFit, MessageFits, PostedFits
<1>6. Before(stored[h.to], h, disturbed)
  BY <1>1, <1>4, <1>5, NewestFits
<1>7. Ordered(Append(stored[h.to], h), disturbed')
  <2>1. Ordered(Append(stored[h.to], h), disturbed)
    <3> HIDE DEF h
    <3> QED
      BY <1>1, <1>4, <1>6, OrderedAppend
  <2> QED
    BY <1>2, <2>1, OrderedMore
<1>8. \A a \in Accounts : stored'[a] = stored[a] \/ stored'[a] = Append(stored[h.to], h)
  BY <1>1 DEF Save, OMTypeOK
<1>9. \A a \in Accounts : stored'[a] = stored[a] \/ Ordered(stored'[a], disturbed')
  BY <1>7, <1>8
<1> QED
  BY <1>2, <1>3, <1>9, OrderQuiet

LEMMA BroadcastOrder ==
  ASSUME ChatFits, MessagesFit, OrderInv, NEW c \in Conns, Broadcast(c)
  PROVE  OrderInv'
<1> DEFINE h == job[c][1]
<1>1. /\ stage[c] = "broadcast" /\ stage[c] \in Posting /\ OMTypeOK /\ h.to = Room
  BY InHandOne DEF Broadcast, Posting, ChatFits
<1>2. UNCHANGED <<users, room, socket, stored, taken, moves, failures, disturbed>>
  BY DEF Broadcast
<1>3. /\ stage'[c] = "open"
      /\ \A d \in Conns : d # c => stage'[d] = stage[d] /\ job'[d] = job[d]
  BY <1>1, GoesTo, ShortJobs DEF Broadcast, ChatStages
<1>4. InboxFits(c)'
  BY <1>3 DEF InboxFits
<1>5. ASSUME NEW d \in Conns, inbox'[d] # inbox[d]
      PROVE  /\ Ordered(inbox'[d], disturbed')
             /\ stage'[d] = stage[d] /\ job'[d] = job[d] => InboxFits(d)'
  <2>1. inbox'[d] = Append(inbox[d], h) /\ \E a \in room : users[a] = d
    BY <1>5 DEF Broadcast, BroadcastToRoom
  <2>2. PICK a \in Accounts : users[a] = d
    BY <1>1, <2>1 DEF OMTypeOK
  <2> QED
    BY <1>1, <1>2, <2>1, <2>2, PostedOrder
<1> QED
  BY <1>2, <1>3, <1>4, <1>5, OrderKept

LEMMA OrderStep == ChatFits /\ MessagesFit /\ OrderInv /\ [OMNext]_omVars => OrderInv'
<1> SUFFICES ASSUME ChatFits, MessagesFit, OrderInv, [OMNext]_omVars PROVE OrderInv'
  OBVIOUS
<1>1. ASSUME NEW c \in Conns, Lose(c) PROVE OrderInv'
  BY <1>1, OrderKept DEF Lose
<1>2. ASSUME NEW c \in Conns, CleanUp(c) PROVE OrderInv'
  <2>1. /\ stage'[c] = "closed" /\ inbox' = inbox /\ stored' = stored /\ disturbed' = disturbed
        /\ \A d \in Conns : d # c => stage'[d] = stage[d] /\ job'[d] = job[d]
    BY <1>2, GoesTo, ShortJobs DEF CleanUp, ChatFits, ChatStages
  <2> QED
    BY <2>1, OrderQuiet
<1>3. ASSUME NEW a \in Accounts, SetRoom(a) PROVE OrderInv'
  BY <1>3, OrderKept DEF SetRoom
<1>4. CASE UNCHANGED omVars
  BY <1>4, OrderKept DEF omVars
<1> QED
  BY <1>1, <1>2, <1>3, <1>4, LoginOrder, ReadStoredOrder, SendStoredOrder, DeleteStoredOrder,
     TakeUpOrder, DeliverOrder, SaveOrder, BroadcastOrder DEF OMNext

(* What one connection sent, and no login, loss or failed call came across,   *)
(* every client receives in the order in which it was sent, also when some of  *)
(* it was stored (chat/handler.rs:48) and some sent at once (:45).            *)
THEOREM OrderHolds == OMSpec => []InOrderOfSending
<1>1. OrderInv => InOrderOfSending
  BY DEF OrderInv, Ordered, InOrder, InOrderOfSending
<1> QED
  BY <1>1, ChatFitsInit, ChatFitsStep, MessagesFitInit, MessagesFitStep, OrderInit, OrderStep,
     PTL DEF OMSpec
===============================================================================

------------------------------- MODULE Logins -------------------------------
(***************************************************************************)
(* Who gets in as whom: the login throttle and the account requests of     *)
(* server/src/control/handler.rs, handle_login of control/auth.rs up to    *)
(* add_user, and the tables users and tenants behind them.                 *)
(*                                                                         *)
(* Each database call and each call of the hub is a step, so that logins   *)
(* and account requests of several connections interleave between the look *)
(* at a table and the write.  Limits, bans and the registry of sessions    *)
(* are Sessions'.  Of a password it matters whether an account has one and     *)
(* whether the one given is right; password_change needs one and keeps it.  *)
(***************************************************************************)
EXTENDS Naturals, FiniteSets

CONSTANTS
  Sockets,
  AddrOf,       \* the address a connection comes from
  Names,        \* usernames
  Uids,         \* central identities
  NameOf,       \* the display name a central identity brings
  SubServers,   \* sub-servers of a hub
  OwnerOf,      \* the identity that owns a sub-server
  MaxFails,     \* LOGIN_MAX_FAILS
  MaxRows,      \* bound: accounts ever created
  MaxAttempts,  \* bound: logins
  MaxRequests,  \* bound: account requests
  MaxMishaps,   \* bound: calls that fail, restarts
  Nil

VARIABLES
  mode,          \* "local", "central" (central_login) or "hub" (multi_tenant)
  registration_open,
  users_table,   \* the table users
  next_id,
  tenants,       \* the table tenants
  lobbies,       \* default rooms of each tenant
  throttle,      \* failed logins of each address in its window, or Nil
  pc, errand,    \* where the task of each connection is, and with what
  session,       \* the account and role a connection is logged in with, or Nil
  attempts, requests, mishaps,
  overlaps,      \* attempts of an address that began while others were under
                 \* way, in the same window
  contested      \* tenants provisioned by two at once, or with a failure

loginVars == <<mode, registration_open, users_table, next_id, tenants, lobbies, throttle,
               pc, errand, session, attempts, requests, mishaps, overlaps, contested>>

Addrs == {AddrOf[c] : c \in Sockets}
Row == [id: 1..MaxRows, name: Names, uid: Uids \cup {Nil}, role: {"user", "admin"},
        password: {"none", "set"}]
Errand == [name: Names, uid: Uids \cup {Nil}, tenant: SubServers \cup {Nil},
           id: 0..MaxRows, role: {"user", "admin"}]
LoginSteps   == {"auth", "exists", "registration", "create", "find", "name", "create_central",
                 "lookup", "get_tenant", "create_tenant", "create_lobby", "enter", "reject"}
RequestSteps == {"account_create", "account_delete", "account_set_role",
                 "account_set_password"}

ASSUME LoginsAssumption ==
  /\ NameOf \in [Uids -> Names] /\ OwnerOf \in [SubServers -> Uids]
  /\ IsFiniteSet(Sockets)
  /\ MaxRows \in Nat \ {0} /\ MaxFails \in Nat \ {0}
  /\ Nil \notin Uids \cup SubServers \cup Errand

Named(n)     == {r \in users_table : r.name = n}
WithUid(i)   == {r \in users_table : r.uid = i}
Busy         == {c \in Sockets : pc[c] # "idle"}
Goto(c, s)   == pc' = [pc EXCEPT ![c] = s]
Mishap        == mishaps < MaxMishaps /\ mishaps' = mishaps + 1

tables   == <<users_table, next_id, tenants, lobbies>>
counters == <<attempts, requests, mishaps>>
ghosts   == <<overlaps, contested>>
rest     == <<mode, registration_open, session, throttle>>

----------------------------------------------------------------------------
(* --create-admin or TC_ADMIN_USERNAME make the first account. *)
LoginsInit ==
  /\ mode \in {"local", "central", "hub"}
  /\ registration_open \in BOOLEAN
  /\ \E n \in Names : users_table = {[id |-> 1, name |-> n, uid |-> Nil, role |-> "admin",
                                        password |-> "set"]}
  /\ next_id = 2
  /\ tenants = {}
  /\ lobbies = [t \in SubServers |-> 0]
  /\ throttle = [a \in Addrs |-> Nil]
  /\ pc = [c \in Sockets |-> "idle"]
  /\ errand = [c \in Sockets |-> Nil]
  /\ session = [c \in Sockets |-> Nil]
  /\ attempts = 0 /\ requests = 0 /\ mishaps = 0
  /\ overlaps = [a \in Addrs |-> 0]
  /\ contested = {}

(* A plausible slip: one attempt too many. *)
ThrottledLate(a) == throttle[a] # Nil /\ throttle[a].count > MaxFails

Throttled(a) == throttle[a] # Nil /\ throttle[a].count >= MaxFails

\* The login of c names n, or is of the identity i and for the sub-server t.
Comes(c, n, i, t, s) ==
  /\ errand' = [errand EXCEPT ![c] = [name |-> n, uid |-> i, tenant |-> t,
                                     id |-> 0, role |-> "user"]]
  /\ Goto(c, s)

(* auth_login: an address with too many failures in its window is answered at
   once; one whose window is over (old) starts anew.  A login without a token
   is by name and password, beside a central login as well, but not on a hub;
   one with a token needs central login.  Either is turned away at once when
   the server is full, or the token refused. *)
AuthLogin(c) ==
  LET a      == AddrOf[c]
      over   == throttle[a] # Nil /\ throttle[a].old
      others == {d \in Busy : AddrOf[d] = a /\ pc[d] \in LoginSteps}
  IN  /\ pc[c] = "idle" /\ session[c] = Nil
      /\ attempts < MaxAttempts
      /\ attempts' = attempts + 1
      /\ IF over
         THEN /\ throttle' = [throttle EXCEPT ![a] = Nil]
              /\ overlaps' = [overlaps EXCEPT ![a] = Cardinality(others)]
         ELSE /\ ~Throttled(a)
              /\ overlaps' = [overlaps EXCEPT ![a] = @ + (IF others = {} THEN 0 ELSE 1)]
              /\ UNCHANGED throttle
      /\ \/ mode # "hub" /\ \E n \in Names : Comes(c, n, Nil, Nil, "auth")
         \/ /\ mode # "local"
            /\ \E i \in Uids, t \in IF mode = "hub" THEN SubServers ELSE {Nil} :
                 Comes(c, NameOf[i], i, t, "find")
         \/ \E n \in Names : Comes(c, n, Nil, Nil, "reject")
      /\ UNCHANGED <<mode, registration_open, tables, session, requests, mishaps, contested>>

\* A step of c that changes nothing but where it is and with what.
Quietly == UNCHANGED <<tables, rest, attempts, requests, ghosts>>

(* An account made for a central identity has no password until an admin sets
   one. *)
WithPassword(n) == {r \in Named(n) : r.password = "set"}

(* authenticate_user and what follows when it finds nobody. *)
Authenticate(c) ==
  /\ pc[c] = "auth"
  /\ \/ \E r \in WithPassword(errand[c].name) :
          /\ errand' = [errand EXCEPT ![c].id = r.id, ![c].role = r.role]
          /\ Goto(c, "enter")
     \/ Goto(c, "exists") /\ UNCHANGED errand
  /\ UNCHANGED mishaps /\ Quietly

LookWhetherExists(c) ==
  /\ pc[c] = "exists"
  /\ Goto(c, IF Named(errand[c].name) = {} THEN "registration" ELSE "reject")
  /\ UNCHANGED <<errand, mishaps>> /\ Quietly

(* With central login nobody registers by himself. *)
LookWhetherOpen(c) ==
  /\ pc[c] = "registration"
  /\ Goto(c, IF mode = "local" /\ registration_open THEN "create" ELSE "reject")
  /\ UNCHANGED <<errand, mishaps>> /\ Quietly

(* find_user_by_central_uid. *)
RowOfIdentity(j) == WithUid(j.uid)

(* A plausible slip: the account is looked for by its name. *)
RowOfName(j) == Named(j.name)

FindIdentity(j) == RowOfIdentity(j)

NextAfterAccount == IF mode = "hub" THEN "lookup" ELSE "enter"

FindCentral(c) ==
  /\ pc[c] = "find"
  /\ \/ \E r \in FindIdentity(errand[c]) :
          /\ errand' = [errand EXCEPT ![c].id = r.id, ![c].role = r.role]
          /\ Goto(c, NextAfterAccount)
     \/ FindIdentity(errand[c]) = {} /\ Goto(c, "name") /\ UNCHANGED errand
  /\ UNCHANGED mishaps /\ Quietly

(* The name itself, or one with a number that nobody has. *)
FreeNames(n) == IF Named(n) = {} THEN {n} ELSE {m \in Names : Named(m) = {}}

(* unique_username. *)
UniqueUsername(c) ==
  /\ pc[c] = "name"
  /\ \E n \in FreeNames(errand[c].name) : errand' = [errand EXCEPT ![c].name = n]
  /\ Goto(c, "create_central")
  /\ UNCHANGED mishaps /\ Quietly

(* create_user and create_central_user: usernames and identities are UNIQUE,
   so that the later of two insertions fails. *)
Insert(c, s) ==
  LET j == errand[c]
  IN  /\ next_id <= MaxRows
      /\ IF Named(j.name) = {} /\ (j.uid = Nil \/ WithUid(j.uid) = {})
         THEN /\ users_table' = users_table \cup
                   {[id |-> next_id, name |-> j.name, uid |-> j.uid, role |-> j.role,
                     password |-> IF j.uid = Nil THEN "set" ELSE "none"]}
              /\ next_id' = next_id + 1
              /\ errand' = [errand EXCEPT ![c].id = next_id]
              /\ Goto(c, s)
         ELSE /\ Goto(c, IF pc[c] \in LoginSteps THEN "reject" ELSE "idle")
              /\ UNCHANGED <<users_table, next_id, errand>>
      /\ UNCHANGED <<tenants, lobbies, rest, counters, ghosts>>

CreateUser(c)    == pc[c] = "create" /\ Insert(c, "enter")
CreateCentral(c) == pc[c] = "create_central" /\ Insert(c, NextAfterAccount)

(* hubdir::lookup: the hub names the owner of the sub-server, or refuses. *)
Lookup(c) ==
  /\ pc[c] = "lookup"
  /\ \/ /\ Goto(c, "get_tenant")
        /\ errand' = [errand EXCEPT ![c].role = IF OwnerOf[errand[c].tenant] = errand[c].uid
                                          THEN "admin" ELSE @]
     \/ Goto(c, "reject") /\ UNCHANGED errand
  /\ UNCHANGED mishaps /\ Quietly

Provisioning(t) ==
  {d \in Sockets : pc[d] \in {"create_tenant", "create_lobby"} /\ errand[d].tenant = t}

(* A tenant nobody has entered before is made, and with it its default room.
   A query that fails counts as "no such tenant". *)
GetTenant(c) ==
  LET t == errand[c].tenant
  IN  /\ pc[c] = "get_tenant"
      /\ \/ /\ Goto(c, IF t \in tenants THEN "enter" ELSE "create_tenant")
            /\ contested' = IF t \notin tenants /\ Provisioning(t) # {}
                            THEN contested \cup {t} ELSE contested
            /\ UNCHANGED mishaps
         \/ Goto(c, "create_tenant") /\ contested' = contested \cup {t} /\ Mishap
      /\ UNCHANGED <<errand, tables, rest, attempts, requests, overlaps>>

(* Both insertions may fail unnoticed (let _ =). *)
CreateTenant(c) ==
  LET t == errand[c].tenant
  IN  /\ pc[c] = "create_tenant"
      /\ Goto(c, "create_lobby")
      /\ \/ tenants' = tenants \cup {t} /\ UNCHANGED <<mishaps, contested>>
         \/ Mishap /\ contested' = contested \cup {t} /\ UNCHANGED tenants
      /\ UNCHANGED <<errand, users_table, next_id, lobbies, rest, attempts, requests, overlaps>>

(* A plausible slip: the default room is left to somebody else. *)
NoLobby(t) == lobbies

InsertLobby(t) == [lobbies EXCEPT ![t] = @ + 1]

CreateDefaultRoom(c) ==
  LET t == errand[c].tenant
  IN  /\ pc[c] = "create_lobby"
      /\ Goto(c, "enter")
      /\ \/ lobbies' = InsertLobby(t) /\ UNCHANGED <<mishaps, contested>>
         \/ Mishap /\ contested' = contested \cup {t} /\ UNCHANGED lobbies
      /\ UNCHANGED <<errand, users_table, next_id, tenants, rest, attempts, requests, overlaps>>

(* is_user_banned: the account or the address of c is. *)
IsUserBanned(c) ==
  /\ pc[c] = "enter"
  /\ Goto(c, "reject")
  /\ UNCHANGED <<errand, mishaps>> /\ Quietly

(* The session is made and the failures of the address are forgotten. *)
Enter(c) ==
  /\ pc[c] = "enter"
  /\ Goto(c, "idle")
  /\ session' = [session EXCEPT ![c] = errand[c]]
  /\ throttle' = [throttle EXCEPT ![AddrOf[c]] = Nil]
  /\ overlaps' = [overlaps EXCEPT ![AddrOf[c]] =
       Cardinality({d \in Busy \ {c} : AddrOf[d] = AddrOf[c] /\ pc[d] \in LoginSteps})]
  /\ UNCHANGED <<mode, registration_open, tables, errand, counters, contested>>

(* The failure is counted, in a new window if the old one is over. *)
Reject(c) ==
  LET a     == AddrOf[c]
      fresh == throttle[a] = Nil \/ throttle[a].old
  IN  /\ pc[c] = "reject"
      /\ Goto(c, "idle")
      /\ throttle' = [throttle EXCEPT ![a] =
           [count |-> (IF fresh THEN 0 ELSE throttle[a].count) + 1, old |-> FALSE]]
      /\ overlaps' = IF throttle[a] # Nil /\ throttle[a].old
                     THEN [overlaps EXCEPT ![a] = Cardinality({d \in Busy \ {c} : AddrOf[d] = a})]
                     ELSE overlaps
      /\ UNCHANGED <<mode, registration_open, tables, errand, session, counters, contested>>

(* LOGIN_WINDOW passes. *)
WindowPasses(a) ==
  /\ throttle[a] # Nil /\ ~throttle[a].old
  /\ throttle' = [throttle EXCEPT ![a].old = TRUE]
  /\ UNCHANGED <<mode, registration_open, session, tables, pc, errand, counters, ghosts>>

(* account_create, account_delete, account_set_role, account_set_password: for
   an admin (by the role of the session), not on a hub; the name is looked up,
   then the row found is written, if it still is there. *)
IsAdmin(c) == session[c] # Nil /\ session[c].role = "admin" /\ mode # "hub"

AccountRequest(c) ==
  /\ pc[c] = "idle" /\ IsAdmin(c)
  /\ requests < MaxRequests
  /\ requests' = requests + 1
  /\ \E n \in Names, role \in {"user", "admin"}, s \in RequestSteps :
       LET found == Named(n)
           id    == IF found = {} THEN 0 ELSE (CHOOSE r \in found : TRUE).id
       IN  /\ IF s = "account_create" THEN found = {}
              ELSE found # {} /\ (s = "account_delete" => id # session[c].id)
           /\ errand' = [errand EXCEPT ![c] = [name |-> n, uid |-> Nil, tenant |-> Nil,
                                         id |-> id, role |-> role]]
           /\ s \in {"account_delete", "account_set_password"} => role = "user"  \* not read
           /\ Goto(c, s)
  /\ UNCHANGED <<tables, rest, attempts, mishaps, overlaps, contested>>

AccountCreate(c) == pc[c] = "account_create" /\ Insert(c, "idle")

(* A row that bans, files or messages refer to cannot be deleted. *)
AccountDelete(c) ==
  /\ pc[c] = "account_delete"
  /\ Goto(c, "idle")
  /\ users_table' \in {users_table, {r \in users_table : r.id # errand[c].id}}
  /\ UNCHANGED <<next_id, tenants, lobbies, errand, rest, counters, ghosts>>

AccountSetRole(c) ==
  /\ pc[c] = "account_set_role"
  /\ Goto(c, "idle")
  /\ users_table' = {IF r.id = errand[c].id THEN [r EXCEPT !.role = errand[c].role] ELSE r :
                       r \in users_table}
  /\ UNCHANGED <<next_id, tenants, lobbies, errand, rest, counters, ghosts>>

AccountSetPassword(c) ==
  /\ pc[c] = "account_set_password"
  /\ Goto(c, "idle")
  /\ users_table' = {IF r.id = errand[c].id THEN [r EXCEPT !.password = "set"] ELSE r :
                       r \in users_table}
  /\ UNCHANGED <<next_id, tenants, lobbies, errand, rest, counters, ghosts>>

SetRegistration(c) ==
  /\ pc[c] = "idle" /\ IsAdmin(c)
  /\ requests < MaxRequests
  /\ requests' = requests + 1
  /\ \E open \in BOOLEAN : registration_open' = open
  /\ UNCHANGED <<mode, session, throttle, tables, pc, errand, attempts, mishaps, ghosts>>

(* The connection ends; its task finishes what it is doing first. *)
Leave(c) ==
  /\ pc[c] = "idle" /\ session[c] # Nil
  /\ session' = [session EXCEPT ![c] = Nil]
  /\ UNCHANGED <<mode, registration_open, throttle, tables, pc, errand, counters, ghosts>>

(* The server stops and starts again: the tables stay. *)
RestartServer ==
  /\ Busy # {} /\ Mishap
  /\ throttle' = [a \in Addrs |-> Nil]
  /\ pc' = [c \in Sockets |-> "idle"]
  /\ session' = [c \in Sockets |-> Nil]
  /\ overlaps' = [a \in Addrs |-> 0]
  /\ contested' = contested \cup {t \in SubServers : Provisioning(t) # {}}
  /\ UNCHANGED <<mode, registration_open, tables, errand, attempts, requests>>

LoginsNext ==
  \/ \E c \in Sockets :
       \/ AuthLogin(c) \/ Authenticate(c) \/ LookWhetherExists(c) \/ LookWhetherOpen(c)
       \/ FindCentral(c) \/ UniqueUsername(c) \/ CreateUser(c) \/ CreateCentral(c)
       \/ Lookup(c) \/ GetTenant(c) \/ CreateTenant(c) \/ CreateDefaultRoom(c)
       \/ IsUserBanned(c) \/ Enter(c) \/ Reject(c)
       \/ AccountRequest(c) \/ AccountCreate(c) \/ AccountDelete(c) \/ AccountSetRole(c)
       \/ AccountSetPassword(c) \/ SetRegistration(c) \/ Leave(c)
  \/ \E a \in Addrs : WindowPasses(a)
  \/ RestartServer

LoginsSpec == LoginsInit /\ [][LoginsNext]_loginVars

----------------------------------------------------------------------------
(* Every variable has its type. *)
LoginsTypeOK ==
  /\ mode \in {"local", "central", "hub"}
  /\ registration_open \in BOOLEAN
  /\ users_table \subseteq Row
  /\ next_id \in 1..(MaxRows + 1)
  /\ tenants \subseteq SubServers
  /\ lobbies \in [SubServers -> Nat]
  /\ throttle \in [Addrs -> [count: Nat \ {0}, old: BOOLEAN] \cup {Nil}]
  /\ pc \in [Sockets -> {"idle"} \cup LoginSteps \cup RequestSteps]
  /\ errand \in [Sockets -> Errand \cup {Nil}]
  /\ session \in [Sockets -> Errand \cup {Nil}]
  /\ attempts \in 0..MaxAttempts /\ requests \in 0..MaxRequests /\ mishaps \in 0..MaxMishaps
  /\ overlaps \in [Addrs -> Nat]
  /\ contested \subseteq SubServers

(* Within one window an address fails at most MaxFails times, and once more
   for each attempt it began while another of it was under way: the check and
   the count are apart by the whole login (control/handler.rs:157). *)
FailuresUpToOverlap ==
  \A a \in Addrs :
    throttle[a] # Nil /\ ~throttle[a].old => throttle[a].count <= MaxFails + overlaps[a]

(* A session is of the account its login named, by central identity or by name
   and password, as long as the account exists: no name taken, freed or taken
   again meanwhile lets anybody into the account of somebody else, and nobody
   comes by the name a central identity was given, unless an admin has set a
   password for it (control/auth.rs:49 and 107). *)
EntersOwnAccount ==
  \A c \in Sockets : session[c] # Nil =>
    \A r \in users_table : r.id = session[c].id =>
      IF session[c].uid = Nil THEN r.name = session[c].name /\ r.password = "set"
      ELSE r.uid = session[c].uid

(* Once a tenant is there, and nobody still makes it, it has one default room
   -- unless two first logins overlapped, or a call failed or the server
   stopped in between (control/auth.rs:80). *)
OneLobbyPerTenant ==
  \A t \in SubServers \ contested :
    Provisioning(t) = {} => lobbies[t] = IF t \in tenants THEN 1 ELSE 0
=============================================================================

------------------------------ MODULE Sessions ------------------------------
(***************************************************************************)
(* The life of a connection on the server: login, takeover of a session by *)
(* a second login, kick and ban, and the clean-up when the socket closes.  *)
(* server/src/control/handler.rs (handle_connection), control/auth.rs      *)
(* (handle_login) and admin/handler.rs (handle_kick, handle_ban).          *)
(*                                                                         *)
(* Every connection is one task.  It handles one message at a time, but    *)
(* between two awaits of a handler the tasks of all other connections run, *)
(* so a handler is one action per call it awaits, and pc says which call   *)
(* comes next.  The registry the tasks share is UserManager.               *)
(***************************************************************************)
EXTENDS UserManager

CONSTANTS
  Moderators,   \* <<account, tenant>>: the role there is moderator or admin
  Admins,       \* <<account, tenant>>: the role there is admin
  MaxUsers,     \* config.server.max_users
  RepeatLogin   \* whether clients send auth_login on a connection that is
                \* logged in (the server allows it, no client does it)

ASSUME SessionsAssumption ==
  /\ Admins \subseteq Moderators
  /\ Moderators \subseteq Accounts \X Tenants
  /\ MaxUsers \in Nat
  /\ RepeatLogin \in BOOLEAN
  /\ IsFiniteSet(Conns)

VARIABLES
  pc,        \* what the task of a connection does next
  user_id,   \* user_id[c]: the local of handle_connection
  about,     \* about[c]: the account the handler in progress is about
  tenant,    \* tenant[c]: the sub-server the login or the moderation is for
  notice,    \* notice[c]: what the moderation in progress tells its target
  banned,    \* accounts with a row in bans
  (* History, read by no action: *)
  stale,     \* tasks about to remove a session younger than their last look
  lost,      \* connections whose session such a task removed
  unseen,    \* connections let in past a ban: it was stored after their look at
             \* the bans, or the look failed
  overlap    \* the most logins that were in progress when another one started

locals  == <<pc, user_id, about, tenant, notice>>
history == <<stale, lost, unseen, overlap>>
vars    == <<umVars, locals, banned, history>>

LoginSteps   == {"auth", "admitted", "added"}
CleanupSteps == {"closing", "leaving", "removing"}
ModSteps     == {"find", "store", "notify", "unroom", "expel"}
Steps == {"new", "idle", "done"} \cup LoginSteps \cup CleanupSteps \cup ModSteps

(* The steps after which a task removes the session of about[c] without
   looking at it again. *)
Committed == {"leaving", "removing", "unroom", "expel"}

(* The receive loop of c is running: its client takes itself for connected. *)
Live(c) == pc[c] \notin {"new", "done"} \cup CleanupSteps

(* The account whose session c took last: from add_user on the one it is
   logging in, otherwise the one it is logged in as. *)
Account(c) == IF pc[c] = "added" THEN about[c] ELSE user_id[c]

LoggingIn == {c \in Conns : pc[c] \in {"auth", "admitted"}}

SessionsInit ==
  /\ Init
  /\ pc = [c \in Conns |-> "new"]
  /\ user_id = [c \in Conns |-> None]
  /\ about = [c \in Conns |-> None]
  /\ tenant = [c \in Conns |-> None]
  /\ notice = [c \in Conns |-> None]
  /\ banned = {}
  /\ stale = {} /\ lost = {} /\ unseen = {} /\ overlap = 0

Goto(c, s) == pc' = [pc EXCEPT ![c] = s] /\ UNCHANGED <<about, notice>>

(* The handler in progress is over and its locals with it. *)
End(c, s) ==
  /\ pc' = [pc EXCEPT ![c] = s]
  /\ about' = [about EXCEPT ![c] = None]
  /\ notice' = [notice EXCEPT ![c] = None]

(* The socket is accepted and the receive loop waits for a message. *)
Connect(c) ==
  /\ pc[c] = "new"
  /\ Goto(c, "idle")
  /\ UNCHANGED <<umVars, user_id, tenant, banned, history>>

----------------------------------------------------------------------------
(* auth_login *)

StartLogin(c, u, tn) ==
  /\ pc[c] = "idle"
  /\ user_id[c] = None \/ RepeatLogin
  /\ pc' = [pc EXCEPT ![c] = "auth"]
  /\ about' = [about EXCEPT ![c] = u]
  /\ tenant' = [tenant EXCEPT ![c] = tn]
  /\ overlap' = IF Cardinality(LoggingIn) > overlap THEN Cardinality(LoggingIn)
                ELSE overlap
  /\ UNCHANGED <<umVars, user_id, notice, banned, stale, lost, unseen>>

(* A plausible slip: the comparison is off by one. *)
LoginOneTooMany(c, u, tn) == UserCount <= MaxUsers /\ StartLogin(c, u, tn)

(* handle_login starts by counting the users; a full server rejects the
   login, which changes nothing. *)
Login(c, u, tn) == UserCount < MaxUsers /\ StartLogin(c, u, tn)

(* A plausible slip: the ban is not looked up. *)
CheckPasswordOnly(c) ==
  /\ pc[c] = "auth"
  /\ Goto(c, "admitted") \/ End(c, "idle")
  /\ UNCHANGED <<umVars, user_id, tenant, banned, history>>

(* Password or token, then is_user_banned.  Wrong credentials and bans reject;
   a look at the bans that fails is taken for "not banned". *)
CheckAccount(c) ==
  /\ pc[c] = "auth"
  /\ \/ about[c] \notin banned /\ Goto(c, "admitted") /\ UNCHANGED unseen
     \/ about[c] \in banned /\ Goto(c, "admitted") /\ unseen' = unseen \cup {c}
     \/ End(c, "idle") /\ UNCHANGED unseen
  /\ UNCHANGED <<umVars, user_id, tenant, banned, stale, lost, overlap>>

(* add_user *)
Register(c) ==
  /\ pc[c] = "admitted"
  /\ AddUser(about[c], c, tenant[c])
  /\ Goto(c, "added")
  /\ stale' = stale \cup
       {d \in Conns : pc[d] \in Committed /\ about[d] = about[c]}
  /\ lost' = lost \ {c}
  /\ UNCHANGED <<user_id, tenant, banned, unseen, overlap>>

(* The rest of the handler: the local user_id, the welcome message, the
   stored messages, user_connected and at last auth_response. *)
FinishLogin(c) ==
  /\ pc[c] = "added"
  /\ user_id' = [user_id EXCEPT ![c] = about[c]]
  /\ End(c, "idle")
  /\ UNCHANGED <<umVars, tenant, banned, history>>

----------------------------------------------------------------------------
(* admin_kick and admin_ban *)

(* The acting account is online with the role the command needs; its tenant
   is remembered. *)
BeginModeration(c, u, role, kind) ==
  /\ pc[c] = "idle"
  /\ user_id[c] # None /\ Online(user_id[c])
  /\ <<user_id[c], users[user_id[c]].tenant>> \in role
  /\ pc' = [pc EXCEPT ![c] = "find"]
  /\ about' = [about EXCEPT ![c] = u]
  /\ tenant' = [tenant EXCEPT ![c] = users[user_id[c]].tenant]
  /\ notice' = [notice EXCEPT ![c] = kind]
  /\ UNCHANGED <<umVars, user_id, banned, history>>

Kick(c, u) == BeginModeration(c, u, Moderators, "user_kicked")
Ban(c, u)  == BeginModeration(c, u, Admins, "user_banned")

(* The target must be online in the tenant of the acting account. *)
FindTarget(c) ==
  /\ pc[c] = "find"
  /\ IF Online(about[c]) /\ users[about[c]].tenant = tenant[c]
     THEN Goto(c, IF notice[c] = "user_banned" THEN "store" ELSE "notify")
     ELSE End(c, "idle")
  /\ UNCHANGED <<umVars, user_id, tenant, banned, history>>

(* create_ban; an error ends the handler. *)
StoreBan(c) ==
  /\ pc[c] = "store"
  /\ \/ /\ banned' = banned \cup {about[c]}
        /\ unseen' = unseen \cup
             {d \in Conns : pc[d] = "admitted" /\ about[d] = about[c]}
        /\ Goto(c, "notify")
     \/ UNCHANGED <<banned, unseen>> /\ End(c, "idle")
  /\ UNCHANGED <<umVars, user_id, tenant, stale, lost, overlap>>

(* send_to_user: whoever holds the session by now is told. *)
NotifyTarget(c) ==
  /\ pc[c] = "notify"
  /\ Tell(about[c], notice[c])
  /\ Goto(c, "unroom")
  /\ UNCHANGED <<registry, user_id, tenant, banned, history>>

(* leave_room *)
LeaveRoom(c) ==
  /\ pc[c] = "unroom"
  /\ SetRoom(about[c], None)
  /\ Goto(c, "expel")
  /\ UNCHANGED <<token_map, audio_map, told, user_id, tenant, banned, history>>

(* remove_user by task c, whatever session the account has by now. *)
RemoveSession(c) ==
  /\ RemoveUser(about[c])
  /\ lost' = IF c \in stale THEN lost \cup {d \in Conns : Owns(d, about[c])} ELSE lost
  /\ stale' = stale \ {c}
  /\ UNCHANGED <<told, user_id, tenant, banned, unseen, overlap>>

(* remove_user; the connection itself stays open. *)
Expel(c) ==
  /\ pc[c] = "expel"
  /\ RemoveSession(c)
  /\ End(c, "idle")

----------------------------------------------------------------------------
(* The socket closes *)

(* A plausible slip: the task ends with its receive loop. *)
DisconnectOnly(c) ==
  /\ pc[c] = "idle"
  /\ Goto(c, "done")
  /\ UNCHANGED <<umVars, user_id, tenant, banned, history>>

(* The receive loop ends; a connection that is logged in cleans up. *)
Disconnect(c) ==
  /\ pc[c] = "idle"
  /\ pc' = [pc EXCEPT ![c] = IF user_id[c] = None THEN "done" ELSE "closing"]
  /\ about' = [about EXCEPT ![c] = user_id[c]]
  /\ UNCHANGED <<umVars, user_id, tenant, notice, banned, history>>

(* A plausible slip: the test is the wrong way round. *)
CheckNotOwner(c) ==
  /\ pc[c] = "closing"
  /\ IF Owns(c, about[c]) THEN End(c, "done") ELSE Goto(c, "leaving")
  /\ UNCHANGED <<umVars, user_id, tenant, banned, history>>

(* session_belongs_to: a newer connection's session is left alone. *)
CheckOwner(c) ==
  /\ pc[c] = "closing"
  /\ IF Owns(c, about[c]) THEN Goto(c, "leaving") ELSE End(c, "done")
  /\ UNCHANGED <<umVars, user_id, tenant, banned, history>>

(* room_user_left and user_disconnected go out to the others. *)
AnnounceLeave(c) ==
  /\ pc[c] = "leaving"
  /\ Goto(c, "removing")
  /\ UNCHANGED <<umVars, user_id, tenant, banned, history>>

(* remove_user *)
CleanUp(c) ==
  /\ pc[c] = "removing"
  /\ RemoveSession(c)
  /\ End(c, "done")

----------------------------------------------------------------------------
(* What the client of c decides ... *)
Request(c) ==
  \/ Connect(c)
  \/ \E u \in Accounts, tn \in Tenants : Login(c, u, tn)
  \/ \E u \in Accounts : Kick(c, u) \/ Ban(c, u)
  \/ Disconnect(c)

(* ... and what the server's task for c does about it. *)
Proceed(c) ==
  \/ CheckAccount(c) \/ Register(c) \/ FinishLogin(c)
  \/ FindTarget(c) \/ StoreBan(c) \/ NotifyTarget(c) \/ LeaveRoom(c) \/ Expel(c)
  \/ CheckOwner(c) \/ AnnounceLeave(c) \/ CleanUp(c)

SessionsNext == \E c \in Conns : Request(c) \/ Proceed(c)

SessionsSpec == SessionsInit /\ [][SessionsNext]_vars

(* The runtime keeps polling the task of every connection.  Nothing is
   assumed of the clients. *)
FairSessionsSpec == SessionsSpec /\ \A c \in Conns : WF_vars(Proceed(c))

----------------------------------------------------------------------------
(* Every variable has its type. *)
SessionsTypeOK ==
  /\ TypeOK
  /\ pc \in [Conns -> Steps]
  /\ user_id \in [Conns -> Accounts \cup {None}]
  /\ about \in [Conns -> Accounts \cup {None}]
  /\ tenant \in [Conns -> Tenants \cup {None}]
  /\ notice \in [Conns -> Notices \cup {None}]
  /\ banned \subseteq Accounts
  /\ stale \subseteq Conns /\ lost \subseteq Conns /\ unseen \subseteq Conns
  /\ overlap \in Nat

(* A client that is logged in and has not been told otherwise holds the
   session of its account -- unless a handler that looked at an older session
   of the account removed this one.  (user/manager.rs: "Der alten Verbindung
   wird das GESAGT".) *)
OwnsOrTold ==
  \A c \in Conns :
    Live(c) /\ Account(c) # None =>
      Owns(c, Account(c)) \/ told[c] # {} \/ c \in lost

(* No session outlives its connection: the registry never lists an account
   whose connection has been cleaned up, unless that connection logged in a
   second account, whose clean-up is the only one it gets. *)
NoGhosts ==
  \A u \in Accounts :
    Online(u) /\ pc[users[u].tx] = "done" => user_id[users[u].tx] # u

(* A banned account is online only while a moderator is removing it, or
   through a login whose look at the bans came before the ban was stored, or
   failed. *)
BanKeepsOut ==
  \A u \in banned : Online(u) =>
    \/ users[u].tx \in unseen
    \/ \E c \in Conns : pc[c] \in {"notify", "unroom", "expel"} /\ about[c] = u

(* The limit on users is exceeded by no more than the logins that overlapped:
   one login at a time never exceeds it. *)
CapacityUpToOverlap == UserCount <= MaxUsers + overlap

(* The clean-up of a connection never removes a session that is not its own
   (user/manager.rs 131-134, control/handler.rs 921-923). *)
CleanUpOwnSessionOnly ==
  [][\A c \in Conns : CleanUp(c) /\ Online(about[c]) => Owns(c, about[c])]_vars

(* A connection that closes gives up the session it is logged in with,
   whatever the other connections do meanwhile. *)
ClosedConnectionGivesUpSession ==
  \A c \in Conns : pc[c] = "closing" ~>
    pc[c] = "done" /\ \A u \in Accounts : u = user_id[c] => ~Owns(c, u)
=============================================================================

---------------------------- MODULE RoomManager ----------------------------
(***************************************************************************)
(* Who is in which room, and who is shown in it: the room_* messages of    *)
(* server/src/control/handler.rs, server/src/room/manager.rs, and what     *)
(* admin_move, admin_kick (server/src/admin/handler.rs) and the clean-up   *)
(* of a connection do to rooms.                                            *)
(*                                                                         *)
(* A room is not locked while a handler works on it: the handler asks the  *)
(* database, counts members, moves a session and informs the others in     *)
(* separate awaits, and pc says which of them comes next.  The registry of *)
(* sessions is UserManager; how a login proceeds is in Sessions, here it   *)
(* is its add_user and its room list.                                      *)
(*                                                                         *)
(* A broadcast puts its message on the queues of the receivers in one step *)
(* and every queue is in order, so `listed` is what a client shows that    *)
(* handles its messages in that order.                                     *)
(***************************************************************************)
EXTENDS UserManager

CONSTANTS
  TenantOf,     \* TenantOf[r]: the tenant of room r
  Ancestors,    \* Ancestors[r]: the rooms above r (parent_id, transitively)
  Lobby,        \* Lobby[tn]: the default room of tenant tn
  Limit,        \* Limit[r]: max_users of room r, 0 for no limit
  Locked,       \* rooms with a password
  Initial,      \* the rooms the database starts with
  NoTenant,     \* what user_tenant answers for an account that is not online
  Moderators,   \* <<account, tenant>>: moderator or admin there
  Admins,       \* <<account, tenant>>: admin there
  MaxRequests,    \* bounds of the model: messages handled by all connections
  MaxOverlapping  \* when they come one at a time, and when two overlapped

ASSUME RoomsAssumption ==
  /\ TenantOf \in [Rooms -> Tenants]
  /\ Ancestors \in [Rooms -> SUBSET Rooms]
  /\ Limit \in [Rooms -> Nat]
  /\ Initial \subseteq Rooms /\ Locked \subseteq Rooms
  /\ \A r \in Initial : Ancestors[r] \subseteq Initial
  /\ Lobby \in [Tenants -> Initial]
  /\ \A tn \in Tenants : TenantOf[Lobby[tn]] = tn /\ Ancestors[Lobby[tn]] = {}
  /\ NoTenant \in Tenants
  /\ Admins \subseteq Moderators
  /\ MaxRequests \in Nat /\ MaxOverlapping \in Nat
  /\ None \notin Rooms
  /\ IsFiniteSet(Conns)

VARIABLES
  rooms,       \* the rows of the table rooms
  gone,        \* rows deleted: AUTOINCREMENT never gives their ids again
  user_id,     \* user_id[c]: the local of handle_connection
  pc,          \* what the task of a connection does next
  job,         \* job[c]: the locals of the handler in progress
  listed,      \* listed[c]: the rooms the client of c shows, with their users
  requests,    \* messages handled so far
  (* History, read by no action: *)
  foreign,     \* accounts put into a room of a tenant they have left meanwhile
  contested,   \* rooms somebody was about to enter while they were deleted
  crowd,       \* crowd[r]: most tasks that were entering r when one more
               \* found a place in it
  uncounted,   \* accounts last put into a room by room_delete, which looks at
               \* no limit
  blurred,     \* rooms somebody left without the others being told, or did
               \* not leave though they were told so
  placed,      \* accounts put into their room by another connection than
               \* their session's, which was sent no room list since
  overlapped   \* a message came in while another one was being handled

roomHistory == <<foreign, contested, crowd, uncounted, blurred, placed, overlapped>>
roomVars == <<umVars, rooms, gone, user_id, pc, job, listed, requests, roomHistory>>

Kinds == {"login", "join", "leave", "create", "delete", "move", "kick", "close"}

(* What a client shows: rooms, and the users in each. *)
Lists == UNION {[S -> SUBSET Accounts] : S \in SUBSET Rooms}
EmptyList == [r \in {} |-> {}]

Steps == {"list", "send", "check", "count", "enter", "tell_old", "look", "tell_new",
          "goodbye", "leave", "place", "create", "find", "collect", "empty",
          "target", "announce", "unroom", "expel", "tell_kick",
          "closing", "where", "farewell", "remove"}

(* The locals of a handler: the room, the account and the tenant it is about,
   the room the account was found in, whether the right password came along,
   the users still to be moved and the room list to be sent. *)
Job(kind, r, u, tn, old, key) ==
  [kind |-> kind, room |-> r, user |-> u, tenant |-> tn, old |-> old,
   key |-> key, pending |-> {}, list |-> EmptyList]
JobType ==
  [kind: Kinds \cup {None}, room: Rooms \cup {None}, user: Accounts \cup {None},
   tenant: Tenants \cup {None}, old: Rooms \cup {None}, key: BOOLEAN,
   pending: SUBSET Accounts, list: Lists]
NoJob == Job(None, None, None, None, None, FALSE)

Waiting == {"new", "idle", "done"}

Members(r) == {u \in Accounts : Online(u) /\ users[u].room_id = r}
Counted(r) == Members(r) \ uncounted
RoomOf(u)  == IF Online(u) THEN users[u].room_id ELSE None
TenantOfUser(u) == IF Online(u) THEN users[u].tenant ELSE NoTenant

(* get_room_list *)
RoomList(tn) == [r \in {x \in rooms : TenantOf[x] = tn} |-> Members(r)]

(* broadcast_to_room: the connections of the members of r except those of u. *)
Receivers(r, u) == {users[v].tx : v \in Members(r) \ {u}}

(* What the clients show after room_user_left and room_user_joined about u,
   sent to the members of r except `but`. *)
AfterLeft(r, u, but) ==
  [d \in Conns |->
     IF d \in Receivers(r, but) /\ r \in DOMAIN listed[d]
     THEN [listed[d] EXCEPT ![r] = @ \ {u}] ELSE listed[d]]
AfterJoined(r, u, but) ==
  [d \in Conns |->
     IF d \in Receivers(r, but) /\ r \in DOMAIN listed[d]
     THEN [listed[d] EXCEPT ![r] = @ \cup {u}] ELSE listed[d]]

Entering(r) == {c \in Conns : pc[c] = "enter" /\ job[c].room = r}
Approaching(r) == {c \in Conns : pc[c] \in {"count", "enter"} /\ job[c].room = r}
Emptying(r) == {c \in Conns : pc[c] = "empty" /\ job[c].room = r}

RoomsInit ==
  /\ Init
  /\ rooms = Initial /\ gone = {}
  /\ user_id = [c \in Conns |-> None]
  /\ pc = [c \in Conns |-> "new"]
  /\ job = [c \in Conns |-> NoJob]
  /\ listed = [c \in Conns |-> EmptyList]
  /\ requests = 0
  /\ foreign = {} /\ contested = {} /\ uncounted = {} /\ blurred = {} /\ placed = {}
  /\ crowd = [r \in Rooms |-> 0]
  /\ overlapped = FALSE

----------------------------------------------------------------------------
Goto(c, s) == pc' = [pc EXCEPT ![c] = s]

Keep(c, s) == Goto(c, s) /\ UNCHANGED job

End(c) == Goto(c, "idle") /\ job' = [job EXCEPT ![c] = NoJob]

(* A message arrives for the task of c, which takes up job j at step s. *)
Begin(c, j, s) ==
  /\ Goto(c, s)
  /\ job' = [job EXCEPT ![c] = j]
  /\ overlapped' = (overlapped \/ \E d \in Conns \ {c} : pc[d] \notin Waiting)
  /\ requests < IF overlapped' THEN MaxOverlapping ELSE MaxRequests
  /\ requests' = requests + 1

(* What no message changes by arriving. *)
Unmoved ==
  UNCHANGED <<umVars, rooms, gone, user_id, listed, foreign, contested, crowd, uncounted, placed>>

(* What a step of a handler leaves alone that moves nobody. *)
Rest == UNCHANGED <<umVars, rooms, gone, user_id, requests, foreign, uncounted, overlapped>>
Still == Rest /\ UNCHANGED placed

----------------------------------------------------------------------------
(* auth_login: add_user, then the room list of the tenant. *)
Login(c, u, tn) ==
  /\ pc[c] = "new"
  /\ AddUser(u, c, tn)
  /\ Begin(c, Job("login", None, u, tn, None, FALSE), "list")
  /\ user_id' = [user_id EXCEPT ![c] = u]
  /\ foreign' = foreign \ {u}
  /\ blurred' = blurred \cup ({RoomOf(u)} \ {None})
  /\ UNCHANGED <<rooms, gone, listed, contested, crowd, uncounted, placed>>

(* get_room_list of the job's tenant *)
TakeList(c) ==
  /\ pc[c] = "list"
  /\ job' = [job EXCEPT ![c].list = RoomList(job[c].tenant)]
  /\ Goto(c, "send")
  /\ Still /\ UNCHANGED <<listed, contested, crowd, blurred>>

(* The list goes to the client that logged in or joined ... *)
SendList(c) ==
  /\ pc[c] = "send" /\ job[c].kind \in {"login", "join"}
  /\ listed' = [listed EXCEPT ![c] = job[c].list]
  /\ placed' = IF Owns(c, job[c].user) THEN placed \ {job[c].user} ELSE placed
  /\ End(c)
  /\ Rest /\ UNCHANGED <<contested, crowd, blurred>>

(* ... or, after a change of the rooms, to the whole tenant. *)
BroadcastList(c) ==
  /\ pc[c] = "send" /\ job[c].kind \in {"create", "delete"}
  /\ listed' = [d \in Conns |->
       IF \E u \in Accounts : Owns(d, u) /\ users[u].tenant = job[c].tenant
       THEN job[c].list ELSE listed[d]]
  /\ placed' = {u \in placed : TenantOfUser(u) # job[c].tenant}
  /\ End(c)
  /\ Rest /\ UNCHANGED <<contested, crowd, blurred>>

----------------------------------------------------------------------------
(* room_join *)

RoomJoin(c, r, key) ==
  LET u == user_id[c] IN
  /\ pc[c] = "idle" /\ u # None /\ Online(u)
  /\ Begin(c, Job("join", r, u, users[u].tenant, users[u].room_id, key), "check")
  /\ Unmoved /\ UNCHANGED blurred

(* join_room fails; after admin_move has announced that the user left. *)
Fail(c) ==
  /\ End(c)
  /\ blurred' = IF job[c].kind = "move" THEN blurred \cup ({job[c].old} \ {None})
                ELSE blurred

(* A plausible slip: the room is looked up among the rooms of all tenants. *)
CheckAnyRoom(c) ==
  /\ pc[c] = "check"
  /\ LET r == job[c].room IN
     IF r \in rooms /\ (r \in Locked => job[c].key)
     THEN /\ Keep(c, IF Limit[r] > 0 THEN "count" ELSE "enter")
          /\ contested' = contested \cup {x \in {r} : Emptying(x) # {}}
          /\ UNCHANGED blurred
     ELSE Fail(c) /\ UNCHANGED contested
  /\ Still /\ UNCHANGED <<listed, crowd>>

(* The room is one of the tenant, and the password is right. *)
CheckRoom(c) ==
  /\ pc[c] = "check"
  /\ LET r == job[c].room IN
     IF r \in rooms /\ TenantOf[r] = job[c].tenant /\ (r \in Locked => job[c].key)
     THEN /\ Keep(c, IF Limit[r] > 0 THEN "count" ELSE "enter")
          /\ contested' = contested \cup {x \in {r} : Emptying(x) # {}}
          /\ UNCHANGED blurred
     ELSE Fail(c) /\ UNCHANGED contested
  /\ Still /\ UNCHANGED <<listed, crowd>>

(* A plausible slip: the comparison is off by one. *)
HasPlaceOrOneMore(r) == Cardinality(Members(r)) <= Limit[r]

HasPlace(r) == Cardinality(Members(r)) < Limit[r]

(* The members are counted against the limit. *)
CountRoom(c) ==
  /\ pc[c] = "count"
  /\ LET r == job[c].room IN
     IF HasPlace(r)
     THEN /\ Keep(c, "enter")
          /\ crowd' = [crowd EXCEPT ![r] =
               IF Cardinality(Entering(r)) > @ THEN Cardinality(Entering(r)) ELSE @]
          /\ UNCHANGED blurred
     ELSE Fail(c) /\ UNCHANGED crowd
  /\ Still /\ UNCHANGED <<listed, contested>>

(* set_room: the user is in, without another look at the room. *)
EnterRoom(c) ==
  LET u == job[c].user IN
  /\ pc[c] = "enter"
  /\ SetRoom(u, job[c].room)
  /\ Keep(c, IF job[c].kind = "join" THEN "tell_old" ELSE "look")
  /\ foreign' = IF Online(u) /\ users[u].tenant # job[c].tenant
                THEN foreign \cup {u} ELSE foreign \ {u}
  /\ placed' = IF job[c].kind = "join" /\ Owns(c, u) THEN placed ELSE placed \cup {u}
  /\ uncounted' = uncounted \ {u}
  /\ UNCHANGED <<token_map, audio_map, told, rooms, gone, user_id, listed,
                 requests, contested, crowd, blurred, overlapped>>

(* A plausible slip: the members of the new room are told instead. *)
TellNewRoomOnly(c) ==
  /\ pc[c] = "tell_old"
  /\ listed' = AfterLeft(job[c].room, job[c].user, job[c].user)
  /\ Keep(c, IF job[c].old = job[c].room THEN "list" ELSE "look")
  /\ Still /\ UNCHANGED <<contested, crowd, blurred>>

(* room_user_left to the room the user came from *)
TellOld(c) ==
  /\ pc[c] = "tell_old"
  /\ listed' = IF job[c].old \in {None, job[c].room} THEN listed
               ELSE AfterLeft(job[c].old, job[c].user, job[c].user)
  /\ Keep(c, IF job[c].old = job[c].room THEN "list" ELSE "look")
  /\ Still /\ UNCHANGED <<contested, crowd, blurred>>

(* get_user: room_user_joined carries the user's data ... *)
LookAgain(c) ==
  /\ pc[c] = "look"
  /\ IF Online(job[c].user) THEN Keep(c, "tell_new")
     ELSE IF job[c].kind = "join" THEN Keep(c, "list") ELSE End(c)
  /\ Still /\ UNCHANGED <<listed, contested, crowd, blurred>>

(* ... and goes to the members of the new room. *)
TellNew(c) ==
  /\ pc[c] = "tell_new"
  /\ listed' = AfterJoined(job[c].room, job[c].user, job[c].user)
  /\ IF job[c].kind = "join" THEN Keep(c, "list") ELSE End(c)
  /\ Still /\ UNCHANGED <<contested, crowd, blurred>>

----------------------------------------------------------------------------
(* room_leave: r is what the client takes for its room; nobody checks. *)

RoomLeave(c, r) ==
  LET u == user_id[c] IN
  /\ pc[c] = "idle" /\ u # None
  /\ Begin(c, Job("leave", r, u, None, None, FALSE), "goodbye")
  /\ blurred' = IF RoomOf(u) = r THEN blurred
                ELSE blurred \cup ({r, RoomOf(u)} \ {None})
  /\ Unmoved

SayGoodbye(c) ==
  /\ pc[c] = "goodbye"
  /\ listed' = AfterLeft(job[c].room, job[c].user, job[c].user)
  /\ Keep(c, "leave")
  /\ Still /\ UNCHANGED <<contested, crowd, blurred>>

Leave(c) ==
  /\ pc[c] = "leave"
  /\ SetRoom(job[c].user, None)
  /\ End(c)
  /\ foreign' = foreign \ {job[c].user}
  /\ UNCHANGED <<token_map, audio_map, told, rooms, gone, user_id, listed,
                 requests, contested, crowd, uncounted, blurred, placed, overlapped>>

----------------------------------------------------------------------------
(* room_create and room_delete, by an admin of the tenant *)

ActsAs(c, roles) ==
  /\ pc[c] = "idle" /\ user_id[c] # None /\ Online(user_id[c])
  /\ <<user_id[c], users[user_id[c]].tenant>> \in roles

RoomCreate(c) ==
  /\ ActsAs(c, Admins)
  /\ Begin(c, Job("create", None, user_id[c], None, None, FALSE), "place")
  /\ Unmoved /\ UNCHANGED blurred

(* user_tenant, a second look at the session *)
ChooseTenant(c) ==
  /\ pc[c] = "place"
  /\ job' = [job EXCEPT ![c].tenant = TenantOfUser(job[c].user)]
  /\ Goto(c, "create")
  /\ Still /\ UNCHANGED <<listed, contested, crowd, blurred>>

(* The row is inserted, or the insertion fails (no such parent). *)
InsertRoom(c) ==
  /\ pc[c] = "create"
  /\ \/ /\ \E r \in Rooms \ (rooms \cup gone) :
             /\ TenantOf[r] = job[c].tenant
             /\ Ancestors[r] \subseteq rooms
             /\ rooms' = rooms \cup {r}
        /\ Keep(c, "list")
     \/ End(c) /\ UNCHANGED rooms
  /\ UNCHANGED <<umVars, gone, user_id, listed, requests, roomHistory>>

RoomDelete(c, r) ==
  /\ ActsAs(c, Admins)
  /\ Begin(c, Job("delete", r, user_id[c], users[user_id[c]].tenant, None, FALSE), "find")
  /\ Unmoved /\ UNCHANGED blurred

(* get_room: a room of the own tenant, and not its default room. *)
FindRoom(c) ==
  LET r == job[c].room IN
  /\ pc[c] = "find"
  /\ IF r \in rooms /\ TenantOf[r] = job[c].tenant /\ r # Lobby[job[c].tenant]
     THEN Keep(c, "collect") ELSE End(c)
  /\ Still /\ UNCHANGED <<listed, contested, crowd, blurred>>

(* A plausible slip: the members are not looked for. *)
CollectNobody(c) ==
  /\ pc[c] = "collect"
  /\ Keep(c, "empty")
  /\ contested' = contested \cup {r \in {job[c].room} : Approaching(r) # {}}
  /\ Still /\ UNCHANGED <<listed, crowd, blurred>>

(* get_users_in_room *)
CollectMembers(c) ==
  /\ pc[c] = "collect"
  /\ job' = [job EXCEPT ![c].pending = Members(job[c].room)]
  /\ Goto(c, "empty")
  /\ contested' = contested \cup {r \in {job[c].room} : Approaching(r) # {}}
  /\ Still /\ UNCHANGED <<listed, crowd, blurred>>

(* set_room of the next of them, wherever that user is by now. *)
MoveToLobby(c) ==
  /\ pc[c] = "empty"
  /\ \E u \in job[c].pending :
       /\ SetRoom(u, Lobby[job[c].tenant])
       /\ job' = [job EXCEPT ![c].pending = @ \ {u}]
       /\ foreign' = IF Online(u) /\ users[u].tenant # job[c].tenant
                     THEN foreign \cup {u} ELSE foreign \ {u}
       /\ uncounted' = uncounted \cup {u}
  /\ UNCHANGED <<token_map, audio_map, told, pc, rooms, gone, user_id, listed,
                 requests, contested, crowd, blurred, placed, overlapped>>

(* The row goes, and by ON DELETE CASCADE the rooms below it. *)
DropRoom(c) ==
  /\ pc[c] = "empty" /\ job[c].pending = {}
  /\ LET dropped == {r \in rooms : r = job[c].room \/ job[c].room \in Ancestors[r]} IN
     rooms' = rooms \ dropped /\ gone' = gone \cup dropped
  /\ Keep(c, "list")
  /\ UNCHANGED <<umVars, user_id, listed, requests, roomHistory>>

----------------------------------------------------------------------------
(* admin_move and admin_kick, by a moderator of the tenant *)

AdminMove(c, u, r) ==
  /\ ActsAs(c, Moderators)
  /\ Begin(c, Job("move", r, u, users[user_id[c]].tenant, None, FALSE), "target")
  /\ Unmoved /\ UNCHANGED blurred

AdminKick(c, u) ==
  /\ ActsAs(c, Moderators)
  /\ Begin(c, Job("kick", None, u, users[user_id[c]].tenant, None, FALSE), "target")
  /\ Unmoved /\ UNCHANGED blurred

(* The target is online in the same tenant. *)
FindTarget(c) ==
  LET u == job[c].user IN
  /\ pc[c] = "target"
  /\ IF Online(u) /\ users[u].tenant = job[c].tenant
     THEN /\ job' = [job EXCEPT ![c].old = users[u].room_id]
          /\ Goto(c, IF job[c].kind = "kick" THEN "unroom" ELSE "announce")
     ELSE End(c)
  /\ Still /\ UNCHANGED <<listed, contested, crowd, blurred>>

(* A move is announced to the old room first and tried then. *)
AnnounceMove(c) ==
  /\ pc[c] = "announce"
  /\ listed' = IF job[c].old = None THEN listed
               ELSE AfterLeft(job[c].old, job[c].user, job[c].user)
  /\ Keep(c, "check")
  /\ Still /\ UNCHANGED <<contested, crowd, blurred>>

(* leave_room *)
KickFromRoom(c) ==
  /\ pc[c] = "unroom"
  /\ SetRoom(job[c].user, None)
  /\ Keep(c, "expel")
  /\ foreign' = foreign \ {job[c].user}
  /\ blurred' = blurred \cup ({RoomOf(job[c].user)} \ {None})
  /\ UNCHANGED <<token_map, audio_map, told, rooms, gone, user_id, listed,
                 requests, contested, crowd, uncounted, placed, overlapped>>

(* remove_user; the room of the session removed is the one to be told. *)
Expel(c) ==
  /\ pc[c] = "expel"
  /\ RemoveUser(job[c].user)
  /\ job' = [job EXCEPT ![c].room = RoomOf(job[c].user)]
  /\ Goto(c, "tell_kick")
  /\ foreign' = foreign \ {job[c].user}
  /\ UNCHANGED <<told, rooms, gone, user_id, listed, requests, contested, crowd,
                 uncounted, blurred, placed, overlapped>>

AnnounceKick(c) ==
  /\ pc[c] = "tell_kick"
  /\ listed' = IF job[c].room = None THEN listed
               ELSE AfterLeft(job[c].room, job[c].user, None)
  /\ End(c)
  /\ Still /\ UNCHANGED <<contested, crowd, blurred>>

----------------------------------------------------------------------------
(* The socket closes *)

Disconnect(c) ==
  /\ pc[c] = "idle" /\ user_id[c] # None
  /\ Begin(c, Job("close", None, user_id[c], None, None, FALSE), "closing")
  /\ Unmoved /\ UNCHANGED blurred

(* session_belongs_to, then get_user of the session and its room *)
CheckOwner(c) ==
  /\ pc[c] = "closing"
  /\ Keep(c, IF Owns(c, job[c].user) THEN "where" ELSE "done")
  /\ Still /\ UNCHANGED <<listed, contested, crowd, blurred>>

LookUpRoom(c) ==
  /\ pc[c] = "where"
  /\ job' = [job EXCEPT ![c].old = RoomOf(job[c].user)]
  /\ Goto(c, "farewell")
  /\ Still /\ UNCHANGED <<listed, contested, crowd, blurred>>

Farewell(c) ==
  /\ pc[c] = "farewell"
  /\ listed' = IF job[c].old = None THEN listed
               ELSE AfterLeft(job[c].old, job[c].user, job[c].user)
  /\ Keep(c, "remove")
  /\ Still /\ UNCHANGED <<contested, crowd, blurred>>

Remove(c) ==
  /\ pc[c] = "remove"
  /\ RemoveUser(job[c].user)
  /\ Goto(c, "done") /\ job' = [job EXCEPT ![c] = NoJob]
  /\ foreign' = foreign \ {job[c].user}
  /\ UNCHANGED <<told, rooms, gone, user_id, listed, requests, contested, crowd,
                 uncounted, blurred, placed, overlapped>>

----------------------------------------------------------------------------
Message(c) ==
  \/ \E u \in Accounts, tn \in Tenants : Login(c, u, tn)
  \/ \E r \in Rooms : RoomJoin(c, r, FALSE)
  \/ \E r \in Locked : RoomJoin(c, r, TRUE)
  \/ \E r \in Rooms : RoomLeave(c, r) \/ RoomDelete(c, r)
  \/ RoomCreate(c)
  \/ \E u \in Accounts, r \in Rooms : AdminMove(c, u, r)
  \/ \E u \in Accounts : AdminKick(c, u)
  \/ Disconnect(c)

Proceed(c) ==
  \/ TakeList(c) \/ SendList(c) \/ BroadcastList(c)
  \/ CheckRoom(c) \/ CountRoom(c) \/ EnterRoom(c) \/ TellOld(c) \/ LookAgain(c)
  \/ TellNew(c) \/ SayGoodbye(c) \/ Leave(c)
  \/ ChooseTenant(c) \/ InsertRoom(c)
  \/ FindRoom(c) \/ CollectMembers(c) \/ MoveToLobby(c) \/ DropRoom(c)
  \/ FindTarget(c) \/ AnnounceMove(c) \/ KickFromRoom(c) \/ Expel(c) \/ AnnounceKick(c)
  \/ CheckOwner(c) \/ LookUpRoom(c) \/ Farewell(c) \/ Remove(c)

RoomsNext == \E c \in Conns : Message(c) \/ Proceed(c)

RoomsSpec == RoomsInit /\ [][RoomsNext]_roomVars

----------------------------------------------------------------------------
(* Every variable has its type. *)
RoomsTypeOK ==
  /\ TypeOK
  /\ rooms \subseteq Rooms /\ gone \subseteq Rooms /\ rooms \cap gone = {}
  /\ user_id \in [Conns -> Accounts \cup {None}]
  /\ pc \in [Conns -> Waiting \cup Steps]
  /\ job \in [Conns -> JobType]
  /\ listed \in [Conns -> Lists]
  /\ requests \in Nat /\ overlapped \in BOOLEAN
  /\ foreign \subseteq Accounts /\ contested \subseteq Rooms /\ blurred \subseteq Rooms
  /\ placed \subseteq Accounts /\ uncounted \subseteq Accounts
  /\ crowd \in [Rooms -> Nat]

(* Nobody is in a room of another tenant (room/manager.rs 71), unless the
   session was replaced by one in another tenant after its room was chosen. *)
RoomOfOwnTenant ==
  \A u \in Accounts :
    Online(u) /\ users[u].room_id # None =>
      TenantOf[users[u].room_id] = users[u].tenant \/ u \in foreign

(* Nobody is in a room that was deleted, unless it went with a room above it,
   whose members alone are moved, or was being entered when it was deleted. *)
NobodyInDeletedRoom ==
  \A u \in Accounts :
    RoomOf(u) \in gone =>
      RoomOf(u) \in contested \/ Ancestors[RoomOf(u)] \cap gone # {}

(* The limit of a room is exceeded by no more than the joins that overlapped,
   and the users a deleted room left to it: one join at a time never exceeds
   it, whoever was moved there before. *)
LimitUpToOverlap ==
  \A r \in Rooms : Limit[r] > 0 => Cardinality(Counted(r)) <= Limit[r] + crowd[r]

Quiet == \A c \in Conns : pc[c] \in Waiting

(* As long as the messages come one at a time, whoever is in a room is shown
   exactly the users that are in it, unless somebody was removed from it or was
   announced to leave it and stayed, or somebody else put the user there. *)
ListMatchesRoom ==
  Quiet /\ ~overlapped =>
    \A u \in Accounts \ placed : RoomOf(u) \in rooms \ blurred =>
      /\ RoomOf(u) \in DOMAIN listed[users[u].tx]
      /\ listed[users[u].tx][RoomOf(u)] = Members(RoomOf(u))

(* Once a kick is over, nobody in the room the user was found in is still
   shown that user (admin/handler.rs 41: "Notify room"). *)
KickNotifiesRoom ==
  [][\A c \in Conns : AnnounceKick(c) =>
       \A u \in Accounts :
         Online(u) /\ users[u].room_id = job[c].old /\ job[c].old \in DOMAIN listed[users[u].tx]
           => job[c].user \notin listed'[users[u].tx][job[c].old]]_roomVars
=============================================================================

------------------------------ MODULE RoomView ------------------------------
(***************************************************************************)
(* Who is shown in a room, muted or not: the handlers of the server that   *)
(* change rooms and mute states (server/src/control/handler.rs,            *)
(* admin/handler.rs) and the two threads of the client that apply what the *)
(* handlers tell.  The network task (client/src/net/ws_client.rs) replaces *)
(* the rooms when a room_list comes in, the UI thread (handlers.rs)        *)
(* applies all else later, in order.                                       *)
(*                                                                         *)
(* All users are of one tenant, logged in once, and may do everything; a   *)
(* request of theirs is at the server at once.  Limits, passwords, deleted *)
(* rooms and closed connections are RoomManager's.                         *)
(***************************************************************************)
EXTENDS Naturals, Sequences

CONSTANTS
  Users,
  RoomIds,       \* rooms
  MaxCommands,  \* bound: requests of all users
  Nowhere,      \* no room
  NoJob

VARIABLES
  room_id,      \* of each session: its room,
  muted,        \* what its user last asked for,
  admin_muted,  \* what a moderator last asked for,
  deafened,
  handler,      \* what the task of each connection is doing
  wire,         \* messages on their way to each client
  ui_queue,     \* those the network task has passed to the UI thread
  view,         \* inner.rooms of each client: who is shown where, and how
  current,      \* current_room_id of each client
  commands,
  entangled,    \* two requests were handled at a time since the last began alone
  blurred,      \* clients that may show wrong users until their next list
  strayed       \* clients that may believe to be in another room until they
                \* next choose one

stateOfUsers == <<room_id, muted, admin_muted, deafened>>
excused   == <<entangled, blurred, strayed>>
rvVars    == <<stateOfUsers, handler, wire, ui_queue, view, current, commands, excused>>

Shown == [user : Users, room : RoomIds, muted : BOOLEAN, deafened : BOOLEAN]

Place == RoomIds \cup {Nowhere}

(* What a handler keeps between its calls: of the one that moves a user, of the
   one that told of it, of the lists, and of the one that set a flag. *)
Moving  == [step : {"join", "left", "leave", "notify", "look", "list"}, user : Users, to : Place,
            from : Place, moved : BOOLEAN]
Telling == [step : {"joined"}, user : Users, moved : BOOLEAN, info : Shown]
Listing == [step : {"list"}, user : Users] \cup
           [step : {"lists"}, user : Users, list : SUBSET Shown]
Marking == [step : {"look_state"}, user : Users, told : SUBSET BOOLEAN] \cup
           [step : {"state"}, user : Users, info : Shown]
JobType == Moving \cup Telling \cup Listing \cup Marking

RoomMessage ==
  [kind : {"left"}, user : Users, room : RoomIds] \cup [kind : {"joined", "state"}, info : Shown]
  \cup [kind : {"list"}, list : SUBSET Shown] \cup [kind : {"moved"}, room : RoomIds]

ASSUME RoomViewAssumption ==
  /\ Nowhere \notin RoomIds
  /\ NoJob \notin JobType
  /\ MaxCommands \in Nat

RVInit ==
  /\ room_id = [u \in Users |-> Nowhere]
  /\ muted = [u \in Users |-> FALSE] /\ admin_muted = [u \in Users |-> FALSE]
  /\ deafened = [u \in Users |-> FALSE]
  /\ handler = [u \in Users |-> NoJob]
  /\ wire = [u \in Users |-> <<>>] /\ ui_queue = [u \in Users |-> <<>>]
  /\ view = [u \in Users |-> {}]
  /\ current = [u \in Users |-> Nowhere]
  /\ commands = 0
  /\ entangled = FALSE /\ blurred = {} /\ strayed = {}

(* to_info of the user, as it is shown in room r. *)
Info(u, r) ==
  [user |-> u, room |-> r, muted |-> muted[u] \/ admin_muted[u], deafened |-> deafened[u]]

RoomList == {Info(u, room_id[u]) : u \in {v \in Users : room_id[v] # Nowhere}}

----------------------------------------------------------------------------
(* Handlers: the task of connection c awaits one call after the other. *)

Handling == {c \in Users : handler[c] # NoJob}

Continue(c, h) == handler' = [handler EXCEPT ![c] = h]

Step(c, s) == handler[c] # NoJob /\ handler[c].step = s

(* broadcast_to_room, but for those in Except. *)
ToRoom(r, m, Except) ==
  wire' = [u \in Users |->
             IF room_id[u] = r /\ r # Nowhere /\ u \notin Except
             THEN Append(wire[u], m) ELSE wire[u]]

(* A request that meets another one may leave any view wrong. *)
Begins(c) ==
  /\ handler[c] = NoJob /\ commands < MaxCommands
  /\ commands' = commands + 1
  /\ entangled' = (Handling # {})

(* The user chooses a room while it is being moved. *)
BeingMoved(u) ==
  \/ \E d \in Users : handler[d] # NoJob /\ handler[d].user = u
  \/ \E i \in DOMAIN wire[u] : wire[u][i].kind = "moved"
  \/ \E i \in DOMAIN ui_queue[u] : ui_queue[u][i].kind = "moved"

RoomJoin(c, r) ==
  /\ Begins(c)
  /\ current' = [current EXCEPT ![c] = r]
  /\ Continue(c, [step |-> "join", user |-> c, to |-> r, from |-> room_id[c],
                  moved |-> FALSE])
  /\ blurred' = IF entangled' THEN Users ELSE blurred
  /\ strayed' = IF BeingMoved(c) THEN strayed \cup {c} ELSE strayed \ {c}
  /\ UNCHANGED <<stateOfUsers, wire, ui_queue, view>>

(* The room the client believes to be in is told, whichever the server has. *)
RoomLeave(c) ==
  /\ current[c] # Nowhere
  /\ Begins(c)
  /\ current' = [current EXCEPT ![c] = Nowhere]
  /\ Continue(c, [step |-> "left", user |-> c, to |-> Nowhere, from |-> current[c],
                  moved |-> FALSE])
  /\ blurred' = IF entangled' \/ current[c] # room_id[c] THEN Users ELSE blurred
  /\ strayed' = IF BeingMoved(c) THEN strayed \cup {c} ELSE strayed \ {c}
  /\ UNCHANGED <<stateOfUsers, wire, ui_queue, view>>

(* admin_move: the old room first. *)
AdminMove(c, u, r) ==
  /\ Begins(c)
  /\ Continue(c, [step |-> IF room_id[u] = Nowhere THEN "join" ELSE "left", user |-> u,
                  to |-> r, from |-> room_id[u], moved |-> TRUE])
  /\ blurred' = IF entangled' THEN Users ELSE blurred
  /\ strayed' = IF entangled' THEN strayed \cup {u} ELSE strayed
  /\ UNCHANGED <<stateOfUsers, wire, ui_queue, view, current>>

TellLeft(c) ==
  LET h == handler[c]
  IN  /\ Step(c, "left")
      /\ ToRoom(h.from, [kind |-> "left", user |-> h.user, room |-> h.from], {h.user})
      /\ Continue(c, [h EXCEPT !.step = IF h.moved THEN "join"
                                        ELSE IF h.to = Nowhere THEN "leave" ELSE "look"])
      /\ UNCHANGED <<stateOfUsers, ui_queue, view, current, commands, excused>>

(* leave_room *)
LeaveRoom(c) ==
  /\ Step(c, "leave")
  /\ room_id' = [room_id EXCEPT ![c] = Nowhere]
  /\ Continue(c, NoJob)
  /\ UNCHANGED <<muted, admin_muted, deafened, wire, ui_queue, view, current, commands, excused>>

(* join_room; who is moved is told, but gets no list. *)
EnterRoom(c) ==
  LET h == handler[c]
  IN  /\ Step(c, "join")
      /\ room_id' = [room_id EXCEPT ![h.user] = h.to]
      /\ Continue(c, [h EXCEPT !.step = CASE h.moved -> "notify"
                                           [] ~h.moved /\ h.from = h.to -> "list"
                                           [] ~h.moved /\ h.from = Nowhere -> "look"
                                           [] OTHER -> "left"])
      /\ blurred' = IF h.moved THEN blurred \cup {h.user} ELSE blurred
      /\ UNCHANGED <<muted, admin_muted, deafened, wire, ui_queue, view, current, commands,
                     entangled, strayed>>

NotifyMoved(c) ==
  LET h == handler[c]
  IN  /\ Step(c, "notify")
      /\ wire' = [wire EXCEPT ![h.user] = Append(@, [kind |-> "moved", room |-> h.to])]
      /\ Continue(c, [h EXCEPT !.step = "look"])
      /\ UNCHANGED <<stateOfUsers, ui_queue, view, current, commands, excused>>

LookJoined(c) ==
  LET h == handler[c]
  IN  /\ Step(c, "look")
      /\ Continue(c, [step |-> "joined", user |-> h.user, moved |-> h.moved,
                      info |-> Info(h.user, h.to)])
      /\ UNCHANGED <<stateOfUsers, wire, ui_queue, view, current, commands, excused>>

TellJoined(c) ==
  LET h == handler[c]
  IN  /\ Step(c, "joined")
      /\ ToRoom(h.info.room, [kind |-> "joined", info |-> h.info], {h.user})
      /\ Continue(c, IF h.moved THEN NoJob ELSE [step |-> "list", user |-> c])
      /\ UNCHANGED <<stateOfUsers, ui_queue, view, current, commands, excused>>

(* get_room_list, for the one that joined. *)
SendList(c) ==
  /\ Step(c, "list")
  /\ wire' = [wire EXCEPT ![c] = Append(@, [kind |-> "list", list |-> RoomList])]
  /\ Continue(c, NoJob)
  /\ blurred' = IF entangled THEN blurred ELSE blurred \ {c}
  /\ UNCHANGED <<stateOfUsers, ui_queue, view, current, commands, entangled, strayed>>

(* room_create, room_update: get_room_list, then broadcast_tenant. *)
RoomUpdate(c) ==
  /\ Begins(c)
  /\ Continue(c, [step |-> "lists", user |-> c, list |-> RoomList])
  /\ blurred' = IF entangled' THEN Users ELSE blurred
  /\ UNCHANGED <<stateOfUsers, wire, ui_queue, view, current, strayed>>

BroadcastRoomList(c) ==
  /\ Step(c, "lists")
  /\ wire' = [u \in Users |-> Append(wire[u], [kind |-> "list", list |-> handler[c].list])]
  /\ Continue(c, NoJob)
  /\ blurred' = IF entangled THEN blurred ELSE {}
  /\ UNCHANGED <<stateOfUsers, ui_queue, view, current, commands, entangled, strayed>>

(* audio_mute, audio_deafen, admin_mute: the flag is set first. *)
SetsFlag(c, u, told) ==
  /\ Begins(c)
  /\ Continue(c, [step |-> "look_state", user |-> u, told |-> told])
  /\ blurred' = IF entangled' THEN Users ELSE blurred
  /\ UNCHANGED <<room_id, wire, ui_queue, view, current, strayed>>

(* toggle_mute and toggle_deafen of the client. *)
AudioMute(c) ==
  /\ SetsFlag(c, c, {})
  /\ muted' = [muted EXCEPT ![c] = ~@]
  /\ UNCHANGED <<admin_muted, deafened>>

AudioDeafen(c) ==
  /\ SetsFlag(c, c, {})
  /\ deafened' = [deafened EXCEPT ![c] = ~@]
  /\ UNCHANGED <<muted, admin_muted>>

AdminMute(c, u, b) ==
  /\ SetsFlag(c, u, {b})
  /\ admin_muted' = [admin_muted EXCEPT ![u] = b]
  /\ UNCHANGED <<muted, deafened>>

(* A plausible slip: only what the user itself asked for, or the moderator. *)
OneWish(u, told) == IF told = {} THEN muted[u] ELSE TRUE \in told

(* admin_mute tells what was asked of it, not what the session has by now. *)
Silenced(u, told) == muted[u] \/ IF told = {} THEN admin_muted[u] ELSE TRUE \in told

(* Who is in no room is not told of. *)
LookState(c) ==
  LET h == handler[c]
      u == h.user
  IN  /\ Step(c, "look_state")
      /\ Continue(c, IF room_id[u] = Nowhere THEN NoJob
                     ELSE [step |-> "state", user |-> u,
                           info |-> [Info(u, room_id[u]) EXCEPT !.muted = Silenced(u, h.told)]])
      /\ UNCHANGED <<stateOfUsers, wire, ui_queue, view, current, commands, excused>>

TellState(c) ==
  LET h == handler[c]
  IN  /\ Step(c, "state")
      /\ ToRoom(h.info.room, [kind |-> "state", info |-> h.info], {})
      /\ Continue(c, NoJob)
      /\ UNCHANGED <<stateOfUsers, ui_queue, view, current, commands, excused>>

----------------------------------------------------------------------------
(* The client *)

Changes(m) == m.kind \in {"left", "joined", "state"}

(* pre_handle_message: a list takes effect at once, whatever the UI thread has
   still to apply -- and will then apply to the newer list. *)
NetworkTask(c) ==
  LET m == Head(wire[c])
  IN  /\ wire[c] # <<>>
      /\ wire' = [wire EXCEPT ![c] = Tail(@)]
      /\ ui_queue' = [ui_queue EXCEPT ![c] = Append(@, m)]
      /\ IF m.kind = "list"
         THEN /\ view' = [view EXCEPT ![c] = m.list]
              /\ blurred' = IF \E i \in DOMAIN ui_queue[c] : Changes(ui_queue[c][i])
                            THEN blurred \cup {c} ELSE blurred
         ELSE UNCHANGED <<view, blurred>>
      /\ UNCHANGED <<stateOfUsers, handler, current, commands, entangled, strayed>>

WithNews(known, info) ==
  {s \in known : s.user # info.user \/ s.room # info.room} \cup {info}

Applied(known, m) ==
  CASE m.kind = "left" -> {s \in known : s.user # m.user \/ s.room # m.room}
    [] m.kind = "joined" -> WithNews(known, m.info)
    [] m.kind = "state" ->
         {IF s.user = m.info.user
          THEN [s EXCEPT !.muted = m.info.muted, !.deafened = m.info.deafened] ELSE s : s \in known}
    [] OTHER -> known

HandleMessage(c) ==
  LET m == Head(ui_queue[c])
  IN  /\ ui_queue[c] # <<>>
      /\ ui_queue' = [ui_queue EXCEPT ![c] = Tail(@)]
      /\ view' = [view EXCEPT ![c] = Applied(@, m)]
      /\ current' = IF m.kind = "moved" THEN [current EXCEPT ![c] = m.room] ELSE current
      /\ UNCHANGED <<stateOfUsers, handler, wire, commands, excused>>

RVNext ==
  \E c \in Users :
    \/ RoomLeave(c) \/ RoomUpdate(c)
    \/ \E r \in RoomIds : RoomJoin(c, r) \/ \E u \in Users : AdminMove(c, u, r)
    \/ AudioMute(c) \/ AudioDeafen(c)
    \/ \E u \in Users, b \in BOOLEAN : AdminMute(c, u, b)
    \/ TellLeft(c) \/ LeaveRoom(c) \/ EnterRoom(c) \/ NotifyMoved(c) \/ LookJoined(c)
    \/ TellJoined(c) \/ SendList(c) \/ BroadcastRoomList(c) \/ LookState(c) \/ TellState(c)
    \/ NetworkTask(c) \/ HandleMessage(c)

RVSpec == RVInit /\ [][RVNext]_rvVars

----------------------------------------------------------------------------
(* Every variable has its type. *)
RVTypeOK ==
  /\ room_id \in [Users -> Place] /\ current \in [Users -> Place]
  /\ muted \in [Users -> BOOLEAN] /\ admin_muted \in [Users -> BOOLEAN]
  /\ deafened \in [Users -> BOOLEAN]
  /\ handler \in [Users -> JobType \cup {NoJob}]
  /\ wire \in [Users -> Seq(RoomMessage)] /\ ui_queue \in [Users -> Seq(RoomMessage)]
  /\ view \in [Users -> SUBSET Shown]
  /\ commands \in 0 .. MaxCommands
  /\ entangled \in BOOLEAN /\ blurred \subseteq Users /\ strayed \subseteq Users

NothingUnderWay == Handling = {} /\ \A c \in Users : wire[c] = <<>> /\ ui_queue[c] = <<>>

(* With nothing on its way, who is in a room believes to be in it and is shown
   exactly the users in it, muted and deafened as the server has them, the
   moderator's and their own wish together -- unless requests were handled at
   the same time, a list overtook older news (ws_client.rs:172), a move put the
   user there, or a room was left from where it was not. *)
ViewConverges ==
  NothingUnderWay => \A c \in Users :
    /\ current[c] = room_id[c] \/ c \in strayed
    /\ room_id[c] # Nowhere => c \in blurred \/
         {s \in view[c] : s.room = room_id[c]} = {s \in RoomList : s.room = room_id[c]}
=============================================================================

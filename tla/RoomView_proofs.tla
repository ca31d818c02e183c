--------------------------- MODULE RoomView_proofs ---------------------------
(***************************************************************************)
(* Theorems about RoomView, for any users and rooms and any number of      *)
(* requests: what a client is still to be told leads to the room it has    *)
(* chosen or was moved to, and to a view of the users in it that differs   *)
(* from the truth only by what the one request being handled has still to  *)
(* tell.                                                                   *)
(***************************************************************************)
EXTENDS RoomView, FiniteSetTheorems, WellFoundedInduction, TLAPS

----------------------------------------------------------------------------
(* Types *)

(* What a handler keeps fits its step: rooms are rooms, and only a moderator's *)
(* handler and a mute's are about somebody else.                               *)

Moves(h) == h.step \in {"join", "left", "leave", "notify", "look"}

JobFits(c, h) ==
  /\ Moves(h) => /\ h.moved \/ h.user = c
                 /\ h.moved \/ h.step \in {"join", "notify", "look"} => h.to \in RoomIds
  /\ h.step = "notify" => h.moved
  /\ h.step = "leave" => ~h.moved /\ h.to = Nowhere
  /\ h.step = "left" => h.from \in RoomIds
  /\ h.step = "joined" => h.moved \/ h.user = c
  /\ h.step = "list" => h.user = c

JobsFit == \A c \in Handling : JobFits(c, handler[c])

RVTypes == RVTypeOK /\ JobsFit

LEMMA JobShapes ==
  ASSUME NEW h \in JobType
  PROVE  /\ h # NoJob
         /\ h.user \in Users
         /\ Moves(h) => h \in Moving
         /\ h.step = "joined" => h \in Telling
         /\ h.step = "lists" => h.list \in SUBSET Shown
         /\ h.step = "look_state" => h.told \in SUBSET BOOLEAN
         /\ h.step = "state" => h.info \in Shown
<1>1. CASE h \in Moving
  BY <1>1, RoomViewAssumption DEF Moving, Moves
<1>2. CASE h \in Telling
  BY <1>2, RoomViewAssumption DEF Telling, Moves
<1>3. CASE h \in Listing
  BY <1>3, RoomViewAssumption DEF Listing, Moves
<1>4. CASE h \in Marking
  BY <1>4, RoomViewAssumption DEF Marking, Moves
<1> QED
  BY <1>1, <1>2, <1>3, <1>4 DEF JobType

(* Who is at a step has a job of that kind. *)
LEMMA StepJob ==
  ASSUME RVTypes, NEW c \in Users, NEW s, Step(c, s)
  PROVE  c \in Handling /\ handler[c] \in JobType /\ handler[c].step = s /\ JobFits(c, handler[c])
BY DEF RVTypes, RVTypeOK, JobsFit, Handling, Step

LEMMA ContinueTypes ==
  ASSUME RVTypes, NEW c \in Users, NEW h, Continue(c, h),
         h = NoJob \/ (h \in JobType /\ JobFits(c, h))
  PROVE  handler' \in [Users -> JobType \cup {NoJob}] /\ JobsFit'
<1>1. handler' \in [Users -> JobType \cup {NoJob}]
  BY DEF RVTypes, RVTypeOK, Continue
<1>2. ASSUME NEW d \in Users, handler'[d] # NoJob PROVE JobFits(d, handler'[d])
  <2>1. CASE d = c
    BY <1>2, <2>1 DEF RVTypes, RVTypeOK, Continue
  <2>2. CASE d # c
    BY <1>2, <2>2 DEF RVTypes, RVTypeOK, Continue, JobsFit, Handling
  <2> QED
    BY <2>1, <2>2
<1> QED
  BY <1>1, <1>2 DEF JobsFit, Handling

LEMMA SameHandlers ==
  ASSUME RVTypes, UNCHANGED handler
  PROVE  handler' \in [Users -> JobType \cup {NoJob}] /\ JobsFit'
BY DEF RVTypes, RVTypeOK, JobsFit, Handling

LEMMA BeginsTypes ==
  ASSUME RVTypes, NEW c \in Users, Begins(c)
  PROVE  commands' \in 0 .. MaxCommands /\ entangled' \in BOOLEAN
BY RoomViewAssumption DEF RVTypes, RVTypeOK, Begins

LEMMA ToRoomTypes ==
  ASSUME RVTypes, NEW r, NEW m \in RoomMessage, NEW Except, ToRoom(r, m, Except)
  PROVE  wire' \in [Users -> Seq(RoomMessage)]
BY DEF RVTypes, RVTypeOK, ToRoom

LEMMA InfoTypes ==
  ASSUME RVTypes, NEW u \in Users, NEW r \in RoomIds
  PROVE  Info(u, r) \in Shown
BY DEF RVTypes, RVTypeOK, Info, Shown

LEMMA RoomListTypes ==
  ASSUME RVTypes
  PROVE  RoomList \in SUBSET Shown
<1>1. ASSUME NEW v \in Users, room_id[v] # Nowhere PROVE room_id[v] \in RoomIds
  BY <1>1 DEF RVTypes, RVTypeOK, Place
<1> QED
  BY <1>1, InfoTypes DEF RoomList

LEMMA AppliedTypes ==
  ASSUME NEW V \in SUBSET Shown, NEW m \in RoomMessage
  PROVE  Applied(V, m) \in SUBSET Shown
<1>1. CASE m.kind = "left"
  BY <1>1 DEF Applied
<1>2. CASE m.kind = "joined"
  <2>1. m.info \in Shown
    BY <1>2 DEF RoomMessage
  <2> QED
    BY <1>2, <2>1 DEF Applied, WithNews
<1>3. CASE m.kind = "state"
  <2>1. m.info \in Shown
    BY <1>3 DEF RoomMessage
  <2>2. m.info.muted \in BOOLEAN /\ m.info.deafened \in BOOLEAN
    BY <2>1 DEF Shown
  <2>3. ASSUME NEW s \in V
        PROVE  [s EXCEPT !.muted = m.info.muted, !.deafened = m.info.deafened] \in Shown
    BY <2>2 DEF Shown
  <2> QED
    BY <1>3, <2>3 DEF Applied
<1>4. CASE m.kind \in {"list", "moved"}
  BY <1>4 DEF Applied
<1> QED
  BY <1>1, <1>2, <1>3, <1>4 DEF RoomMessage

LEMMA RVTypesInit == RVInit => RVTypes
<1> SUFFICES ASSUME RVInit PROVE RVTypes
  OBVIOUS
<1>1. <<>> \in Seq(RoomMessage) /\ {} \in SUBSET Shown /\ 0 \in 0 .. MaxCommands
  BY RoomViewAssumption
<1>2. RVTypeOK
  BY <1>1 DEF RVInit, RVTypeOK, Place
<1>3. JobsFit
  BY DEF RVInit, JobsFit, Handling
<1> QED
  BY <1>2, <1>3 DEF RVTypes

LEMMA RequestTypes ==
  ASSUME RVTypes, NEW c \in Users, NEW h \in JobType, JobFits(c, h), Begins(c), Continue(c, h),
         room_id' = room_id, muted' \in [Users -> BOOLEAN], admin_muted' \in [Users -> BOOLEAN],
         deafened' \in [Users -> BOOLEAN], UNCHANGED <<wire, ui_queue, view>>,
         current' \in [Users -> Place], blurred' \in {Users, blurred}, strayed' \subseteq Users
  PROVE  RVTypes'
<1>1. handler' \in [Users -> JobType \cup {NoJob}] /\ JobsFit'
  BY ContinueTypes
<1>2. commands' \in 0 .. MaxCommands /\ entangled' \in BOOLEAN
  BY BeginsTypes
<1> QED
  BY <1>1, <1>2 DEF RVTypes, RVTypeOK

LEMMA RoomJoinTypes ==
  ASSUME RVTypes, NEW c \in Users, NEW r \in RoomIds, RoomJoin(c, r)
  PROVE  RVTypes'
<1> DEFINE h == [step |-> "join", user |-> c, to |-> r, from |-> room_id[c], moved |-> FALSE]
<1>1. h \in JobType /\ JobFits(c, h)
  BY DEF RVTypes, RVTypeOK, JobType, Moving, Place, JobFits, Moves
<1>2. /\ current' \in [Users -> Place] /\ strayed' \subseteq Users /\ blurred' \in {Users, blurred}
      /\ Begins(c) /\ Continue(c, h)
      /\ UNCHANGED <<stateOfUsers, wire, ui_queue, view>>
  BY DEF RoomJoin, RVTypes, RVTypeOK, Place
<1> HIDE DEF h
<1> QED
  BY <1>1, <1>2, RequestTypes DEF stateOfUsers, RVTypes, RVTypeOK

LEMMA RoomLeaveTypes ==
  ASSUME RVTypes, NEW c \in Users, RoomLeave(c)
  PROVE  RVTypes'
<1> DEFINE h == [step |-> "left", user |-> c, to |-> Nowhere, from |-> current[c],
                 moved |-> FALSE]
<1>1. h \in JobType /\ JobFits(c, h)
  BY DEF RoomLeave, RVTypes, RVTypeOK, JobType, Moving, Place, JobFits, Moves
<1>2. /\ current' \in [Users -> Place] /\ strayed' \subseteq Users /\ blurred' \in {Users, blurred}
      /\ Begins(c) /\ Continue(c, h)
      /\ UNCHANGED <<stateOfUsers, wire, ui_queue, view>>
  BY DEF RoomLeave, RVTypes, RVTypeOK, Place
<1> HIDE DEF h
<1> QED
  BY <1>1, <1>2, RequestTypes DEF stateOfUsers, RVTypes, RVTypeOK

LEMMA AdminMoveTypes ==
  ASSUME RVTypes, NEW c \in Users, NEW u \in Users, NEW r \in RoomIds, AdminMove(c, u, r)
  PROVE  RVTypes'
<1> DEFINE h == [step |-> IF room_id[u] = Nowhere THEN "join" ELSE "left", user |-> u,
                 to |-> r, from |-> room_id[u], moved |-> TRUE]
<1>1. h \in JobType /\ JobFits(c, h)
  BY DEF RVTypes, RVTypeOK, JobType, Moving, Place, JobFits, Moves
<1>2. /\ strayed' \subseteq Users /\ blurred' \in {Users, blurred}
      /\ Begins(c) /\ Continue(c, h)
      /\ UNCHANGED <<stateOfUsers, wire, ui_queue, view, current>>
  BY DEF AdminMove, RVTypes, RVTypeOK
<1> HIDE DEF h
<1> QED
  BY <1>1, <1>2, RequestTypes DEF stateOfUsers, RVTypes, RVTypeOK

LEMMA RoomUpdateTypes ==
  ASSUME RVTypes, NEW c \in Users, RoomUpdate(c)
  PROVE  RVTypes'
<1> DEFINE h == [step |-> "lists", user |-> c, list |-> RoomList]
<1>1. h \in JobType /\ JobFits(c, h)
  BY RoomListTypes DEF JobType, Listing, JobFits, Moves
<1>2. /\ blurred' \in {Users, blurred} /\ Begins(c) /\ Continue(c, h)
      /\ UNCHANGED <<stateOfUsers, wire, ui_queue, view, current, strayed>>
  BY DEF RoomUpdate
<1> HIDE DEF h
<1> QED
  BY <1>1, <1>2, RequestTypes DEF stateOfUsers, RVTypes, RVTypeOK

LEMMA SetsFlagTypes ==
  ASSUME RVTypes, NEW c \in Users, NEW u \in Users, NEW told \in SUBSET BOOLEAN,
         SetsFlag(c, u, told), muted' \in [Users -> BOOLEAN],
         admin_muted' \in [Users -> BOOLEAN], deafened' \in [Users -> BOOLEAN]
  PROVE  RVTypes'
<1> DEFINE h == [step |-> "look_state", user |-> u, told |-> told]
<1>1. h \in JobType /\ JobFits(c, h)
  BY DEF JobType, Marking, JobFits, Moves
<1>2. /\ blurred' \in {Users, blurred} /\ Begins(c) /\ Continue(c, h)
      /\ UNCHANGED <<room_id, wire, ui_queue, view, current, strayed>>
  BY DEF SetsFlag
<1> HIDE DEF h
<1> QED
  BY <1>1, <1>2, RequestTypes DEF stateOfUsers, RVTypes, RVTypeOK

LEMMA FlagTypes ==
  ASSUME RVTypes, NEW c \in Users,
         \/ AudioMute(c) \/ AudioDeafen(c) \/ \E u \in Users, b \in BOOLEAN : AdminMute(c, u, b)
  PROVE  RVTypes'
<1>1. CASE AudioMute(c)
  <2>1. SetsFlag(c, c, {}) /\ {} \in SUBSET BOOLEAN
    BY <1>1 DEF AudioMute
  <2>2. /\ muted' \in [Users -> BOOLEAN] /\ admin_muted' \in [Users -> BOOLEAN]
        /\ deafened' \in [Users -> BOOLEAN]
    BY <1>1 DEF AudioMute, RVTypes, RVTypeOK
  <2> QED
    BY <2>1, <2>2, SetsFlagTypes
<1>2. CASE AudioDeafen(c)
  <2>1. SetsFlag(c, c, {}) /\ {} \in SUBSET BOOLEAN
    BY <1>2 DEF AudioDeafen
  <2>2. /\ muted' \in [Users -> BOOLEAN] /\ admin_muted' \in [Users -> BOOLEAN]
        /\ deafened' \in [Users -> BOOLEAN]
    BY <1>2 DEF AudioDeafen, RVTypes, RVTypeOK
  <2> QED
    BY <2>1, <2>2, SetsFlagTypes
<1>3. CASE \E u \in Users, b \in BOOLEAN : AdminMute(c, u, b)
  <2>1. PICK u \in Users, b \in BOOLEAN : AdminMute(c, u, b)
    BY <1>3
  <2>2. SetsFlag(c, u, {b}) /\ {b} \in SUBSET BOOLEAN
    BY <2>1 DEF AdminMute
  <2>3. /\ muted' \in [Users -> BOOLEAN] /\ admin_muted' \in [Users -> BOOLEAN]
        /\ deafened' \in [Users -> BOOLEAN]
    BY <2>1 DEF AdminMute, RVTypes, RVTypeOK
  <2> QED
    BY <2>2, <2>3, SetsFlagTypes
<1> QED
  BY <1>1, <1>2, <1>3

(* A step of a handler: the next job, what it sends and the room it changes. *)
LEMMA HandlerStepTypes ==
  ASSUME RVTypes, NEW c \in Users, NEW h, Continue(c, h),
         h = NoJob \/ (h \in JobType /\ JobFits(c, h)),
         room_id' \in [Users -> Place], wire' \in [Users -> Seq(RoomMessage)],
         blurred' \subseteq Users,
         UNCHANGED <<muted, admin_muted, deafened, ui_queue, view, current, commands, entangled,
                     strayed>>
  PROVE  RVTypes'
<1>1. handler' \in [Users -> JobType \cup {NoJob}] /\ JobsFit'
  BY ContinueTypes
<1> QED
  BY <1>1 DEF RVTypes, RVTypeOK

LEMMA TellLeftTypes ==
  ASSUME RVTypes, NEW c \in Users, TellLeft(c)
  PROVE  RVTypes'
<1> DEFINE h == handler[c]
           m == [kind |-> "left", user |-> h.user, room |-> h.from]
           g == [h EXCEPT !.step = IF h.moved THEN "join"
                                   ELSE IF h.to = Nowhere THEN "leave" ELSE "look"]
<1>1. h \in JobType /\ h.step = "left" /\ JobFits(c, h)
  BY StepJob DEF TellLeft
<1>2. h \in Moving
  BY <1>1, JobShapes DEF Moves
<1>3. g \in JobType /\ JobFits(c, g)
  BY <1>1, <1>2 DEF JobType, Moving, JobFits, Moves, Place
<1>4. m \in RoomMessage
  BY <1>1, <1>2 DEF RoomMessage, JobFits, Moving
<1>5. wire' \in [Users -> Seq(RoomMessage)]
  BY <1>4, ToRoomTypes DEF TellLeft
<1>6. Continue(c, g) /\ UNCHANGED <<stateOfUsers, ui_queue, view, current, commands, excused>>
  BY DEF TellLeft
<1> HIDE DEF g
<1> QED
  BY <1>3, <1>5, <1>6, HandlerStepTypes DEF stateOfUsers, excused, RVTypes, RVTypeOK

LEMMA LeaveRoomTypes ==
  ASSUME RVTypes, NEW c \in Users, LeaveRoom(c)
  PROVE  RVTypes'
<1>1. room_id' \in [Users -> Place]
  BY DEF LeaveRoom, RVTypes, RVTypeOK, Place
<1> QED
  BY <1>1, HandlerStepTypes DEF LeaveRoom, excused, RVTypes, RVTypeOK

LEMMA EnterRoomTypes ==
  ASSUME RVTypes, NEW c \in Users, EnterRoom(c)
  PROVE  RVTypes'
<1> DEFINE h == handler[c]
           g == [h EXCEPT !.step = CASE h.moved -> "notify"
                                     [] ~h.moved /\ h.from = h.to -> "list"
                                     [] ~h.moved /\ h.from = Nowhere -> "look"
                                     [] OTHER -> "left"]
<1>1. h \in JobType /\ h.step = "join" /\ JobFits(c, h)
  BY StepJob DEF EnterRoom
<1>2. h \in Moving
  BY <1>1, JobShapes DEF Moves
<1>3. g.step = IF h.moved THEN "notify" ELSE IF h.from = h.to THEN "list"
               ELSE IF h.from = Nowhere THEN "look" ELSE "left"
  <2>1. h.moved \in BOOLEAN /\ g.step = CASE h.moved -> "notify"
                                           [] ~h.moved /\ h.from = h.to -> "list"
                                           [] ~h.moved /\ h.from = Nowhere -> "look"
                                           [] OTHER -> "left"
    BY <1>2 DEF Moving
  <2>2. h.from = h.to => h.from # Nowhere
    BY <1>1, RoomViewAssumption DEF JobFits, Moves
  <2> HIDE DEF h, g
  <2> QED
    BY <2>1, <2>2
<1>4. /\ g.user = h.user /\ g.to = h.to /\ g.from = h.from /\ g.moved = h.moved
      /\ g \in Moving
  BY <1>2, <1>3 DEF Moving
<1>5. g \in JobType /\ JobFits(c, g)
  <2> HIDE DEF g
  <2> QED
    BY <1>1, <1>2, <1>3, <1>4 DEF JobType, Moving, JobFits, Moves, Place
<1>6. room_id' \in [Users -> Place] /\ blurred' \subseteq Users
  BY <1>2 DEF EnterRoom, RVTypes, RVTypeOK, Moving
<1>7. /\ Continue(c, g)
      /\ UNCHANGED <<muted, admin_muted, deafened, wire, ui_queue, view, current, commands,
                     entangled, strayed>>
  BY DEF EnterRoom
<1> HIDE DEF g
<1> QED
  BY <1>5, <1>6, <1>7, HandlerStepTypes DEF RVTypes, RVTypeOK

LEMMA NotifyMovedTypes ==
  ASSUME RVTypes, NEW c \in Users, NotifyMoved(c)
  PROVE  RVTypes'
<1> DEFINE h == handler[c]
           g == [h EXCEPT !.step = "look"]
<1>1. h \in JobType /\ h.step = "notify" /\ JobFits(c, h)
  BY StepJob DEF NotifyMoved
<1>2. h \in Moving /\ h.to \in RoomIds
  BY <1>1, JobShapes DEF Moves, JobFits
<1>3. g \in JobType /\ JobFits(c, g)
  BY <1>1, <1>2 DEF JobType, Moving, JobFits, Moves
<1>4. [kind |-> "moved", room |-> h.to] \in RoomMessage
  BY <1>2 DEF RoomMessage
<1>5. wire' \in [Users -> Seq(RoomMessage)]
  <2>1. wire \in [Users -> Seq(RoomMessage)] /\ h.user \in Users
    BY <1>2 DEF RVTypes, RVTypeOK, Moving
  <2>2. Append(wire[h.user], [kind |-> "moved", room |-> h.to]) \in Seq(RoomMessage)
    BY <1>4, <2>1
  <2> QED
    BY <2>1, <2>2 DEF NotifyMoved
<1>6. Continue(c, g) /\ UNCHANGED <<stateOfUsers, ui_queue, view, current, commands, excused>>
  BY DEF NotifyMoved
<1> HIDE DEF g
<1> QED
  BY <1>3, <1>5, <1>6, HandlerStepTypes DEF stateOfUsers, excused, RVTypes, RVTypeOK

LEMMA LookJoinedTypes ==
  ASSUME RVTypes, NEW c \in Users, LookJoined(c)
  PROVE  RVTypes'
<1> DEFINE h == handler[c]
           g == [step |-> "joined", user |-> h.user, moved |-> h.moved,
                 info |-> Info(h.user, h.to)]
<1>1. h \in JobType /\ h.step = "look" /\ JobFits(c, h)
  BY StepJob DEF LookJoined
<1>2. h \in Moving /\ h.to \in RoomIds
  BY <1>1, JobShapes DEF Moves, JobFits
<1>3. h.user \in Users /\ h.moved \in BOOLEAN
  BY <1>2 DEF Moving
<1>4. Info(h.user, h.to) \in Shown
  BY <1>2, <1>3, InfoTypes
<1>5. g \in JobType /\ JobFits(c, g)
  BY <1>1, <1>3, <1>4 DEF JobType, Telling, JobFits, Moves
<1>6. Continue(c, g) /\ UNCHANGED <<stateOfUsers, wire, ui_queue, view, current, commands, excused>>
  BY DEF LookJoined
<1> HIDE DEF g
<1> QED
  BY <1>5, <1>6, HandlerStepTypes DEF stateOfUsers, excused, RVTypes, RVTypeOK

LEMMA TellJoinedTypes ==
  ASSUME RVTypes, NEW c \in Users, TellJoined(c)
  PROVE  RVTypes'
<1> DEFINE h == handler[c]
           g == IF h.moved THEN NoJob ELSE [step |-> "list", user |-> c]
<1>1. h \in JobType /\ h.step = "joined" /\ JobFits(c, h)
  BY StepJob DEF TellJoined
<1>2. h.info \in Shown
  BY <1>1, JobShapes DEF Telling
<1>3. g = NoJob \/ (g \in JobType /\ JobFits(c, g))
  BY DEF JobType, Listing, JobFits, Moves
<1>4. [kind |-> "joined", info |-> h.info] \in RoomMessage
  BY <1>2 DEF RoomMessage
<1>5. wire' \in [Users -> Seq(RoomMessage)]
  BY <1>4, ToRoomTypes DEF TellJoined
<1>6. Continue(c, g) /\ UNCHANGED <<stateOfUsers, ui_queue, view, current, commands, excused>>
  BY DEF TellJoined
<1> HIDE DEF g
<1> QED
  BY <1>3, <1>5, <1>6, HandlerStepTypes DEF stateOfUsers, excused, RVTypes, RVTypeOK

LEMMA SendListTypes ==
  ASSUME RVTypes, NEW c \in Users, SendList(c)
  PROVE  RVTypes'
<1>1. [kind |-> "list", list |-> RoomList] \in RoomMessage
  BY RoomListTypes DEF RoomMessage
<1>2. wire' \in [Users -> Seq(RoomMessage)] /\ blurred' \subseteq Users
  BY <1>1 DEF SendList, RVTypes, RVTypeOK
<1> QED
  BY <1>2, HandlerStepTypes DEF SendList, stateOfUsers, RVTypes, RVTypeOK

LEMMA BroadcastRoomListTypes ==
  ASSUME RVTypes, NEW c \in Users, BroadcastRoomList(c)
  PROVE  RVTypes'
<1>1. handler[c].list \in SUBSET Shown
  BY StepJob, JobShapes DEF BroadcastRoomList
<1>2. [kind |-> "list", list |-> handler[c].list] \in RoomMessage
  BY <1>1 DEF RoomMessage
<1>3. wire' \in [Users -> Seq(RoomMessage)] /\ blurred' \subseteq Users
  BY <1>2 DEF BroadcastRoomList, RVTypes, RVTypeOK
<1> QED
  BY <1>3, HandlerStepTypes DEF BroadcastRoomList, stateOfUsers, RVTypes, RVTypeOK

LEMMA LookStateTypes ==
  ASSUME RVTypes, NEW c \in Users, LookState(c)
  PROVE  RVTypes'
<1> DEFINE h == handler[c]
           u == h.user
           x == [Info(u, room_id[u]) EXCEPT !.muted = Silenced(u, h.told)]
           g == IF room_id[u] = Nowhere THEN NoJob ELSE [step |-> "state", user |-> u, info |-> x]
<1>1. h \in JobType /\ h.step = "look_state" /\ JobFits(c, h)
  BY StepJob DEF LookState
<1>2. u \in Users /\ h.told \in SUBSET BOOLEAN
  BY <1>1, JobShapes
<1>3. Silenced(u, h.told) \in BOOLEAN
  BY <1>2 DEF Silenced, RVTypes, RVTypeOK
<1>4. room_id[u] # Nowhere => Info(u, room_id[u]) \in Shown
  BY <1>2, InfoTypes DEF RVTypes, RVTypeOK, Place
<1>5. room_id[u] # Nowhere => x \in Shown
  BY <1>3, <1>4 DEF Shown
<1>6. g = NoJob \/ (g \in JobType /\ JobFits(c, g))
  <2> HIDE DEF x
  <2> QED
    BY <1>2, <1>5 DEF JobType, Marking, JobFits, Moves
<1>7. Continue(c, g) /\ UNCHANGED <<stateOfUsers, wire, ui_queue, view, current, commands, excused>>
  BY DEF LookState
<1> HIDE DEF g
<1> QED
  BY <1>6, <1>7, HandlerStepTypes DEF stateOfUsers, excused, RVTypes, RVTypeOK

LEMMA TellStateTypes ==
  ASSUME RVTypes, NEW c \in Users, TellState(c)
  PROVE  RVTypes'
<1>1. handler[c].info \in Shown
  BY StepJob, JobShapes DEF TellState
<1>2. [kind |-> "state", info |-> handler[c].info] \in RoomMessage
  BY <1>1 DEF RoomMessage
<1>3. wire' \in [Users -> Seq(RoomMessage)]
  BY <1>2, ToRoomTypes DEF TellState
<1> QED
  BY <1>3, HandlerStepTypes DEF TellState, stateOfUsers, excused, RVTypes, RVTypeOK

LEMMA NetworkTaskTypes ==
  ASSUME RVTypes, NEW c \in Users, NetworkTask(c)
  PROVE  RVTypes'
<1> DEFINE m == Head(wire[c])
<1>1. wire[c] \in Seq(RoomMessage) /\ ui_queue[c] \in Seq(RoomMessage) /\ wire[c] # <<>>
  BY DEF RVTypes, RVTypeOK, NetworkTask
<1>2. m \in RoomMessage /\ Tail(wire[c]) \in Seq(RoomMessage)
  BY <1>1
<1>3. Append(ui_queue[c], m) \in Seq(RoomMessage)
  BY <1>1, <1>2
<1>4. m.kind = "list" => m.list \in SUBSET Shown
  BY <1>2 DEF RoomMessage
<1>5. wire' \in [Users -> Seq(RoomMessage)] /\ ui_queue' \in [Users -> Seq(RoomMessage)]
  BY <1>2, <1>3 DEF NetworkTask, RVTypes, RVTypeOK
<1>6. view' \in [Users -> SUBSET Shown] /\ blurred' \subseteq Users
  BY <1>4 DEF NetworkTask, RVTypes, RVTypeOK
<1>7. handler' \in [Users -> JobType \cup {NoJob}] /\ JobsFit'
  BY SameHandlers DEF NetworkTask
<1> QED
  BY <1>5, <1>6, <1>7 DEF NetworkTask, stateOfUsers, RVTypes, RVTypeOK

LEMMA HandleMessageTypes ==
  ASSUME RVTypes, NEW c \in Users, HandleMessage(c)
  PROVE  RVTypes'
<1> DEFINE m == Head(ui_queue[c])
<1>1. ui_queue[c] \in Seq(RoomMessage) /\ ui_queue[c] # <<>> /\ view[c] \in SUBSET Shown
  BY DEF RVTypes, RVTypeOK, HandleMessage
<1>2. m \in RoomMessage /\ Tail(ui_queue[c]) \in Seq(RoomMessage)
  BY <1>1
<1>3. Applied(view[c], m) \in SUBSET Shown
  BY <1>1, <1>2, AppliedTypes
<1>4. m.kind = "moved" => m.room \in Place
  BY <1>2 DEF RoomMessage, Place
<1>5. ui_queue' \in [Users -> Seq(RoomMessage)] /\ view' \in [Users -> SUBSET Shown]
  BY <1>2, <1>3 DEF HandleMessage, RVTypes, RVTypeOK
<1>6. current' \in [Users -> Place]
  BY <1>4 DEF HandleMessage, RVTypes, RVTypeOK
<1>7. handler' \in [Users -> JobType \cup {NoJob}] /\ JobsFit'
  BY SameHandlers DEF HandleMessage
<1> QED
  BY <1>5, <1>6, <1>7 DEF HandleMessage, stateOfUsers, excused, RVTypes, RVTypeOK

LEMMA RVTypesStep == RVTypes /\ [RVNext]_rvVars => RVTypes'
<1> SUFFICES ASSUME RVTypes, [RVNext]_rvVars PROVE RVTypes'
  OBVIOUS
<1>1. CASE UNCHANGED rvVars
  BY <1>1 DEF rvVars, stateOfUsers, excused, RVTypes, RVTypeOK, JobsFit, Handling
<1>2. CASE RVNext
  <2>1. PICK c \in Users :
          \/ RoomLeave(c) \/ RoomUpdate(c)
          \/ \E r \in RoomIds : RoomJoin(c, r) \/ \E u \in Users : AdminMove(c, u, r)
          \/ AudioMute(c) \/ AudioDeafen(c)
          \/ \E u \in Users, b \in BOOLEAN : AdminMute(c, u, b)
          \/ TellLeft(c) \/ LeaveRoom(c) \/ EnterRoom(c) \/ NotifyMoved(c) \/ LookJoined(c)
          \/ TellJoined(c) \/ SendList(c) \/ BroadcastRoomList(c) \/ LookState(c) \/ TellState(c)
          \/ NetworkTask(c) \/ HandleMessage(c)
    BY <1>2 DEF RVNext
  <2> QED
    BY <2>1, RoomLeaveTypes, RoomUpdateTypes, RoomJoinTypes, AdminMoveTypes, FlagTypes,
       TellLeftTypes, LeaveRoomTypes, EnterRoomTypes, NotifyMovedTypes, LookJoinedTypes,
       TellJoinedTypes, SendListTypes, BroadcastRoomListTypes, LookStateTypes, TellStateTypes,
       NetworkTaskTypes, HandleMessageTypes
<1> QED
  BY <1>1, <1>2

(* Every variable has its type, the jobs of the handlers and the messages on   *)
(* their way included, for any users and rooms and any number of requests.     *)
THEOREM RoomViewTypes == RVSpec => []RVTypeOK
<1>1. RVTypes => RVTypeOK
  BY DEF RVTypes
<1> QED
  BY <1>1, RVTypesInit, RVTypesStep, PTL DEF RVSpec

----------------------------------------------------------------------------
(* The room a client believes to be in *)

NoneMoved(q) == \A i \in DOMAIN q : q[i].kind # "moved"

LastMoved(q, r) ==
  \E i \in DOMAIN q : /\ q[i].kind = "moved" /\ q[i].room = r
                      /\ \A j \in DOMAIN q : j > i => q[j].kind # "moved"

(* Who is in x and is then told all of q ends in r. *)
EndsIn(q, x, r) == LastMoved(q, r) \/ (NoneMoved(q) /\ x = r)

(* With all it is still to be told, c will believe to be in r. *)
Believes(c, r) ==
  \E x \in Place : EndsIn(ui_queue[c], current[c], x) /\ EndsIn(wire[c], x, r)

(* The handlers about to change the room of c or to tell c of it. *)
RoomJobs(c) ==
  {d \in Handling : handler[d].user = c /\ handler[d].step \in {"join", "left", "leave", "notify"}}

(* The one job h of c's room: c knows already where a request of its own will  *)
(* lead, and has still to hear of a move.                                      *)
Heads(c, h) ==
  /\ ~h.moved => /\ Believes(c, h.to)
                 /\ h.step = "left" /\ h.to # Nowhere => room_id[c] = h.to
  /\ h.moved /\ h.step = "notify" => room_id[c] = h.to /\ \E r \in Place : Believes(c, r)
  /\ h.moved /\ h.step # "notify" => Believes(c, room_id[c])

Agrees(c) ==
  /\ \A d, e \in RoomJobs(c) : d = e
  /\ \A d \in RoomJobs(c) : Heads(c, handler[d])
  /\ RoomJobs(c) = {} => Believes(c, room_id[c])

RoomsAgree == \A c \in Users \ strayed : Agrees(c)

LEMMA AppendedIndex ==
  ASSUME NEW T, NEW q \in Seq(T), NEW m \in T
  PROVE  /\ Append(q, m) \in Seq(T)
         /\ DOMAIN Append(q, m) = DOMAIN q \cup {Len(q) + 1}
         /\ DOMAIN q = 1..Len(q) /\ Len(q) \in Nat
         /\ \A i \in DOMAIN q : Append(q, m)[i] = q[i]
         /\ Append(q, m)[Len(q) + 1] = m
OBVIOUS

LEMMA TailIndex ==
  ASSUME NEW T, NEW q \in Seq(T), q # <<>>
  PROVE  /\ Tail(q) \in Seq(T) /\ Head(q) \in T /\ Head(q) = q[1]
         /\ DOMAIN q = 1..Len(q) /\ Len(q) \in Nat \ {0}
         /\ DOMAIN Tail(q) = 1..(Len(q) - 1)
         /\ \A i \in DOMAIN Tail(q) : i + 1 \in DOMAIN q /\ Tail(q)[i] = q[i + 1]
OBVIOUS

LEMMA EndsInAppend ==
  ASSUME NEW q \in Seq(RoomMessage), NEW m \in RoomMessage, NEW x, NEW r
  PROVE  /\ m.kind = "moved" => EndsIn(Append(q, m), x, m.room)
         /\ m.kind # "moved" /\ EndsIn(q, x, r) => EndsIn(Append(q, m), x, r)
<1> DEFINE p == Append(q, m)
           n == Len(q) + 1
<1>1. /\ DOMAIN p = DOMAIN q \cup {n} /\ DOMAIN q = 1..Len(q) /\ Len(q) \in Nat
      /\ \A i \in DOMAIN q : p[i] = q[i]
      /\ p[n] = m
  BY AppendedIndex
<1> HIDE DEF p
<1>2. ASSUME m.kind = "moved" PROVE LastMoved(p, m.room)
  <2>1. n \in DOMAIN p /\ \A j \in DOMAIN p : ~(j > n)
    BY <1>1
  <2> QED
    BY <1>1, <1>2, <2>1 DEF LastMoved
<1>3. ASSUME m.kind # "moved", LastMoved(q, r) PROVE LastMoved(p, r)
  <2>1. PICK i \in DOMAIN q : /\ q[i].kind = "moved" /\ q[i].room = r
                              /\ \A j \in DOMAIN q : j > i => q[j].kind # "moved"
    BY <1>3 DEF LastMoved
  <2>2. p[i].kind = "moved" /\ p[i].room = r /\ i \in DOMAIN p
    BY <1>1, <2>1
  <2>3. ASSUME NEW j \in DOMAIN p, j > i PROVE p[j].kind # "moved"
    BY <1>1, <1>3, <2>1, <2>3
  <2> QED
    BY <2>2, <2>3 DEF LastMoved
<1>4. ASSUME m.kind # "moved", NoneMoved(q) PROVE NoneMoved(p)
  BY <1>1, <1>4 DEF NoneMoved
<1> QED
  BY <1>2, <1>3, <1>4 DEF EndsIn, p

LEMMA EndsInTail ==
  ASSUME NEW q \in Seq(RoomMessage), q # <<>>, NEW x, NEW r, EndsIn(q, x, r)
  PROVE  /\ Head(q).kind = "moved" => EndsIn(Tail(q), Head(q).room, r)
         /\ Head(q).kind # "moved" => EndsIn(Tail(q), x, r)
<1> DEFINE t == Tail(q)
           m == Head(q)
<1>1. /\ m = q[1] /\ DOMAIN q = 1..Len(q) /\ Len(q) \in Nat \ {0}
      /\ DOMAIN t = 1..(Len(q) - 1)
      /\ \A i \in DOMAIN t : i + 1 \in DOMAIN q /\ t[i] = q[i + 1]
  BY TailIndex
<1>2. 1 \in DOMAIN q
  BY <1>1
<1> HIDE DEF t, m
<1>3. CASE NoneMoved(q) /\ x = r
  <2>1. m.kind # "moved" /\ NoneMoved(t)
    BY <1>1, <1>2, <1>3 DEF NoneMoved
  <2> QED
    BY <1>3, <2>1 DEF EndsIn, t, m
<1>4. CASE LastMoved(q, r)
  <2>1. PICK i \in DOMAIN q : /\ q[i].kind = "moved" /\ q[i].room = r
                              /\ \A j \in DOMAIN q : j > i => q[j].kind # "moved"
    BY <1>4 DEF LastMoved
  <2>2. CASE i = 1
    <3>1. m.kind = "moved" /\ m.room = r
      BY <1>1, <2>1, <2>2
    <3>2. ASSUME NEW j \in DOMAIN t PROVE t[j].kind # "moved"
      <4>1. j + 1 \in DOMAIN q /\ j + 1 > i /\ t[j] = q[j + 1]
        BY <1>1, <2>2
      <4> QED
        BY <2>1, <4>1
    <3> QED
      BY <3>1, <3>2 DEF EndsIn, NoneMoved, t, m
  <2>3. CASE i # 1
    <3>1. i - 1 \in DOMAIN t /\ t[i - 1] = q[i]
      BY <1>1, <2>3
    <3>2. ASSUME NEW j \in DOMAIN t, j > i - 1 PROVE t[j].kind # "moved"
      <4>1. j + 1 \in DOMAIN q /\ j + 1 > i /\ t[j] = q[j + 1]
        BY <1>1, <3>2
      <4> QED
        BY <2>1, <4>1
    <3>3. LastMoved(t, r)
      BY <2>1, <3>1, <3>2 DEF LastMoved
    <3> QED
      BY <3>3 DEF EndsIn, t, m
  <2> QED
    BY <2>2, <2>3
<1> QED
  BY <1>3, <1>4 DEF EndsIn

(* Nothing that is told but a move changes where a client will be. *)
LEMMA BelievesTold ==
  ASSUME RVTypes, NEW o \in Users, NEW m \in RoomMessage, m.kind # "moved",
         wire'[o] \in {wire[o], Append(wire[o], m)}, UNCHANGED <<ui_queue, current>>
  PROVE  \A r \in Place : Believes(o, r) => Believes(o, r)'
<1> SUFFICES ASSUME NEW r \in Place, Believes(o, r) PROVE Believes(o, r)'
  OBVIOUS
<1>1. PICK x \in Place : EndsIn(ui_queue[o], current[o], x) /\ EndsIn(wire[o], x, r)
  BY DEF Believes
<1>2. wire[o] \in Seq(RoomMessage)
  BY DEF RVTypes, RVTypeOK
<1>3. EndsIn(wire'[o], x, r)
  BY <1>1, <1>2, EndsInAppend
<1>4. EndsIn(ui_queue'[o], current'[o], x)
  BY <1>1
<1> QED
  BY <1>3, <1>4 DEF Believes, EndsIn, LastMoved, NoneMoved

LEMMA BelievesSame ==
  ASSUME NEW o \in Users, wire'[o] = wire[o], ui_queue'[o] = ui_queue[o],
         current'[o] = current[o]
  PROVE  \A r \in Place : Believes(o, r) => Believes(o, r)'
<1> SUFFICES ASSUME NEW r \in Place, Believes(o, r) PROVE Believes(o, r)'
  OBVIOUS
<1>1. PICK x \in Place : EndsIn(ui_queue[o], current[o], x) /\ EndsIn(wire[o], x, r)
  BY DEF Believes
<1>2. EndsIn(ui_queue'[o], current'[o], x) /\ EndsIn(wire'[o], x, r)
  BY <1>1
<1> QED
  BY <1>2 DEF Believes, EndsIn, LastMoved, NoneMoved

LEMMA BelievesMoved ==
  ASSUME RVTypes, NEW o \in Users, NEW m \in RoomMessage, m.kind = "moved",
         wire'[o] = Append(wire[o], m), UNCHANGED <<ui_queue, current>>,
         \E r \in Place : Believes(o, r)
  PROVE  \A r \in Place : r = m.room => Believes(o, r)'
<1> SUFFICES ASSUME NEW r \in Place, r = m.room PROVE Believes(o, r)'
  OBVIOUS
<1>1. PICK x \in Place : EndsIn(ui_queue[o], current[o], x)
  BY DEF Believes
<1>2. wire[o] \in Seq(RoomMessage)
  BY DEF RVTypes, RVTypeOK
<1>3. EndsIn(wire'[o], x, r)
  BY <1>2, EndsInAppend
<1>4. EndsIn(ui_queue'[o], current'[o], x)
  BY <1>1
<1> QED
  BY <1>3, <1>4 DEF Believes, EndsIn, LastMoved, NoneMoved

LEMMA BelievesNetworkTask ==
  ASSUME RVTypes, NEW c \in Users, NetworkTask(c), NEW o \in Users, NEW r \in Place,
         Believes(o, r)
  PROVE  Believes(o, r)'
<1>1. CASE o # c
  <2>1. wire'[o] = wire[o] /\ ui_queue'[o] = ui_queue[o] /\ current'[o] = current[o]
    BY <1>1 DEF NetworkTask, RVTypes, RVTypeOK
  <2> QED
    BY <2>1, BelievesSame
<1>2. CASE o = c
  <2> DEFINE m == Head(wire[c])
  <2>1. wire[c] \in Seq(RoomMessage) /\ wire[c] # <<>> /\ ui_queue[c] \in Seq(RoomMessage)
    BY DEF NetworkTask, RVTypes, RVTypeOK
  <2>2. m \in RoomMessage
    BY <2>1
  <2>3. PICK x \in Place : EndsIn(ui_queue[c], current[c], x) /\ EndsIn(wire[c], x, r)
    BY <1>2 DEF Believes
  <2>4. /\ wire'[c] = Tail(wire[c]) /\ ui_queue'[c] = Append(ui_queue[c], m)
        /\ current'[c] = current[c]
    BY DEF NetworkTask, RVTypes, RVTypeOK
  <2>5. m.kind = "moved" => m.room \in Place
    BY <2>2 DEF RoomMessage, Place
  <2> HIDE DEF m
  <2>6. PICK y \in Place : y = IF m.kind = "moved" THEN m.room ELSE x
    BY <2>5
  <2>7. EndsIn(ui_queue'[c], current'[c], y)
    BY <2>1, <2>2, <2>3, <2>4, <2>6, EndsInAppend
  <2>8. EndsIn(wire'[c], y, r)
    BY <2>1, <2>3, <2>4, <2>6, EndsInTail DEF m
  <2> QED
    BY <1>2, <2>7, <2>8 DEF Believes, EndsIn, LastMoved, NoneMoved
<1> QED
  BY <1>1, <1>2

LEMMA BelievesHandleMessage ==
  ASSUME RVTypes, NEW c \in Users, HandleMessage(c), NEW o \in Users, NEW r \in Place,
         Believes(o, r)
  PROVE  Believes(o, r)'
<1>1. CASE o # c
  <2>1. wire'[o] = wire[o] /\ ui_queue'[o] = ui_queue[o] /\ current'[o] = current[o]
    BY <1>1 DEF HandleMessage, RVTypes, RVTypeOK
  <2> QED
    BY <2>1, BelievesSame
<1>2. CASE o = c
  <2> DEFINE m == Head(ui_queue[c])
  <2>1. ui_queue[c] \in Seq(RoomMessage) /\ ui_queue[c] # <<>>
    BY DEF HandleMessage, RVTypes, RVTypeOK
  <2>2. PICK x \in Place : EndsIn(ui_queue[c], current[c], x) /\ EndsIn(wire[c], x, r)
    BY <1>2 DEF Believes
  <2>3. /\ wire'[c] = wire[c] /\ ui_queue'[c] = Tail(ui_queue[c])
        /\ current'[c] = IF m.kind = "moved" THEN m.room ELSE current[c]
    BY DEF HandleMessage, RVTypes, RVTypeOK
  <2> HIDE DEF m
  <2>4. EndsIn(ui_queue'[c], current'[c], x)
    BY <2>1, <2>2, <2>3, EndsInTail DEF m
  <2>5. EndsIn(wire'[c], x, r)
    BY <2>2, <2>3
  <2> QED
    BY <1>2, <2>4, <2>5 DEF Believes, EndsIn, LastMoved, NoneMoved
<1> QED
  BY <1>1, <1>2

----------------------------------------------------------------------------
(* Which handlers are about whose room *)

AboutRoom(h, o) == h.user = o /\ h.step \in {"join", "left", "leave", "notify"}

(* What handler c does next adds or takes away c only. *)
LEMMA RoomJobsAfter ==
  ASSUME RVTypes, NEW c \in Users, NEW h, Continue(c, h), NEW o \in Users
  PROVE  /\ h # NoJob /\ AboutRoom(h, o) => RoomJobs(o)' = RoomJobs(o) \cup {c}
         /\ h = NoJob \/ ~AboutRoom(h, o) => RoomJobs(o)' = RoomJobs(o) \ {c}
         /\ handler'[c] = h
         /\ \A d \in Users \ {c} : handler'[d] = handler[d]
<1>1. handler'[c] = h /\ \A d \in Users \ {c} : handler'[d] = handler[d]
  BY DEF Continue, RVTypes, RVTypeOK
<1>2. RoomJobs(o)' = {d \in Users : handler'[d] # NoJob /\ AboutRoom(handler'[d], o)}
  BY DEF RoomJobs, Handling, AboutRoom
<1>3. RoomJobs(o) = {d \in Users : handler[d] # NoJob /\ AboutRoom(handler[d], o)}
  BY DEF RoomJobs, Handling, AboutRoom
<1> QED
  BY <1>1, <1>2, <1>3

(* A job that goes on the same way, though rooms and beliefs have changed. *)
LEMMA HeadsSame ==
  ASSUME RVTypes, NEW o \in Users, NEW h \in Moving, Heads(o, h),
         room_id'[o] = room_id[o], \A r \in Place : Believes(o, r) => Believes(o, r)'
  PROVE  Heads(o, h)'
<1>1. room_id[o] \in Place /\ h.to \in Place
  BY DEF RVTypes, RVTypeOK, Moving
<1>2. ~h.moved => Believes(o, h.to)' /\ (h.step = "left" /\ h.to # Nowhere => room_id'[o] = h.to)
  BY <1>1 DEF Heads
<1>3. h.moved /\ h.step = "notify" => room_id'[o] = h.to /\ \E r \in Place : Believes(o, r)'
  <2> SUFFICES ASSUME h.moved, h.step = "notify"
               PROVE  room_id'[o] = h.to /\ \E r \in Place : Believes(o, r)'
    OBVIOUS
  <2>1. PICK r \in Place : Believes(o, r)
    BY DEF Heads
  <2>2. Believes(o, r)'
    BY <2>1
  <2>3. room_id'[o] = h.to
    BY DEF Heads
  <2> QED
    BY <2>2, <2>3
<1>4. ASSUME h.moved, h.step # "notify" PROVE Believes(o, room_id[o])'
  <2>1. PICK r \in Place : r = room_id[o]
    BY <1>1
  <2>2. Believes(o, r)
    BY <1>4, <2>1 DEF Heads
  <2>3. Believes(o, r)' /\ r = room_id'[o]
    BY <2>1, <2>2
  <2> QED
    BY <2>3 DEF Believes
<1> QED
  BY <1>2, <1>3, <1>4 DEF Heads

LEMMA RoomJobsTypes ==
  ASSUME RVTypes, NEW o \in Users, NEW d \in RoomJobs(o)
  PROVE  d \in Users /\ handler[d] \in Moving /\ handler[d] # NoJob /\ handler[d].user = o
BY JobShapes DEF RVTypes, RVTypeOK, RoomJobs, Handling, Moves

(* A handler that neither was nor is about the room of o leaves it in peace. *)
LEMMA AgreesElsewhere ==
  ASSUME RVTypes, NEW o \in Users, Agrees(o), NEW c \in Users, NEW h, Continue(c, h),
         c \notin RoomJobs(o), h = NoJob \/ ~AboutRoom(h, o), room_id'[o] = room_id[o],
         \A r \in Place : Believes(o, r) => Believes(o, r)'
  PROVE  Agrees(o)'
<1>1. RoomJobs(o)' = RoomJobs(o) /\ \A d \in Users \ {c} : handler'[d] = handler[d]
  BY RoomJobsAfter
<1>2. \A d, e \in RoomJobs(o)' : d = e
  BY <1>1 DEF Agrees
<1>3. ASSUME NEW d \in RoomJobs(o) PROVE Heads(o, handler[d])'
  <2>1. d \in Users /\ handler[d] \in Moving /\ handler'[d] = handler[d]
    BY <1>1, RoomJobsTypes
  <2>2. PICK g : g = handler[d]
    OBVIOUS
  <2>3. g \in Moving /\ Heads(o, g)
    BY <2>1, <2>2 DEF Agrees
  <2>4. Heads(o, g)'
    BY <2>3, HeadsSame
  <2> QED
    BY <2>1, <2>2, <2>4
<1>4. ASSUME RoomJobs(o) = {} PROVE Believes(o, room_id[o])'
  <2>1. PICK r \in Place : r = room_id[o]
    BY DEF RVTypes, RVTypeOK
  <2>2. Believes(o, r)'
    BY <1>4, <2>1 DEF Agrees
  <2> QED
    BY <2>1, <2>2
<1> QED
  BY <1>1, <1>2, <1>3, <1>4 DEF Agrees

(* The one handler about the room of o takes its next step. *)
LEMMA AgreesOwn ==
  ASSUME RVTypes, NEW o \in Users, NEW c \in Users, NEW h, Continue(c, h),
         RoomJobs(o) \subseteq {c},
         h # NoJob /\ AboutRoom(h, o) => Heads(o, h)',
         h = NoJob \/ ~AboutRoom(h, o) => Believes(o, room_id[o])'
  PROVE  Agrees(o)'
<1>1. /\ h # NoJob /\ AboutRoom(h, o) => RoomJobs(o)' = {c}
      /\ h = NoJob \/ ~AboutRoom(h, o) => RoomJobs(o)' = {}
      /\ handler'[c] = h
  BY RoomJobsAfter
<1> QED
  BY <1>1 DEF Agrees

(* A client that takes a message believes at last what it would have. *)
LEMMA AgreesClient ==
  ASSUME RVTypes, NEW o \in Users, Agrees(o), UNCHANGED <<handler, room_id>>,
         \A r \in Place : Believes(o, r) => Believes(o, r)'
  PROVE  Agrees(o)'
<1>1. RoomJobs(o)' = RoomJobs(o)
  BY DEF RoomJobs, Handling
<1>2. ASSUME NEW d \in RoomJobs(o) PROVE Heads(o, handler[d])'
  <2>1. handler[d] \in Moving
    BY RoomJobsTypes
  <2>2. PICK g : g = handler[d]
    OBVIOUS
  <2>3. Heads(o, g)'
    BY <2>1, <2>2, HeadsSame DEF Agrees
  <2> QED
    BY <2>2, <2>3
<1>3. ASSUME RoomJobs(o) = {} PROVE Believes(o, room_id[o])'
  <2>1. PICK r \in Place : r = room_id[o]
    BY DEF RVTypes, RVTypeOK
  <2>2. Believes(o, r)'
    BY <1>3, <2>1 DEF Agrees
  <2> QED
    BY <2>1, <2>2
<1> QED
  BY <1>1, <1>2, <1>3 DEF Agrees

(* Who is in no room and at no message of a move has been told all. *)
LEMMA BelievesAtOnce ==
  ASSUME NEW c \in Users, NEW r \in Place, current'[c] = r, UNCHANGED <<wire, ui_queue>>,
         \A i \in DOMAIN wire[c] : wire[c][i].kind # "moved",
         \A i \in DOMAIN ui_queue[c] : ui_queue[c][i].kind # "moved"
  PROVE  Believes(c, r)'
<1>1. EndsIn(wire'[c], r, r) /\ EndsIn(ui_queue'[c], current'[c], r)
  BY DEF EndsIn, NoneMoved
<1> QED
  BY <1>1 DEF Believes, EndsIn, LastMoved, NoneMoved

(* What is no step of the room of o, with or without a message. *)
LEMMA AgreesTold ==
  ASSUME RVTypes, NEW o \in Users, Agrees(o), NEW c \in Users, NEW h, Continue(c, h),
         c \notin RoomJobs(o), h = NoJob \/ ~AboutRoom(h, o), room_id'[o] = room_id[o],
         NEW m \in RoomMessage, m.kind # "moved", wire'[o] \in {wire[o], Append(wire[o], m)},
         UNCHANGED <<ui_queue, current>>
  PROVE  Agrees(o)'
<1>1. \A r \in Place : Believes(o, r) => Believes(o, r)'
  BY BelievesTold
<1> QED
  BY <1>1, AgreesElsewhere

LEMMA ToRoomTells ==
  ASSUME RVTypes, NEW r, NEW m, NEW Except, ToRoom(r, m, Except), NEW o \in Users
  PROVE  wire'[o] = IF room_id[o] = r /\ r # Nowhere /\ o \notin Except
                    THEN Append(wire[o], m) ELSE wire[o]
BY DEF ToRoom

LEMMA NoRoomJob ==
  ASSUME NEW c, NEW o, c \notin Handling \/ ~AboutRoom(handler[c], o)
  PROVE  c \notin RoomJobs(o)
BY DEF RoomJobs, AboutRoom

----------------------------------------------------------------------------
(* Step by step *)

LEMMA AgreesRoomJoin ==
  ASSUME RVTypes, RoomsAgree, NEW c \in Users, NEW r \in RoomIds, RoomJoin(c, r)
  PROVE  RoomsAgree'
<1> SUFFICES ASSUME NEW o \in Users, o \notin strayed' PROVE Agrees(o)'
  BY DEF RoomsAgree
<1>1. PICK h : h = [step |-> "join", user |-> c, to |-> r, from |-> room_id[c], moved |-> FALSE]
  OBVIOUS
<1>2. Continue(c, h) /\ handler[c] = NoJob /\ UNCHANGED <<room_id, wire, ui_queue>>
  BY <1>1 DEF RoomJoin, Begins, stateOfUsers
<1>3. CASE o # c
  <2>1. o \notin strayed /\ current'[o] = current[o]
    BY <1>3 DEF RoomJoin, RVTypes, RVTypeOK
  <2>2. Agrees(o) /\ ~AboutRoom(h, o)
    BY <1>1, <1>3, <2>1 DEF RoomsAgree, AboutRoom
  <2>3. c \notin RoomJobs(o)
    BY <1>2, NoRoomJob DEF Handling
  <2>4. \A x \in Place : Believes(o, x) => Believes(o, x)'
    BY <1>2, <2>1, BelievesSame
  <2> QED
    BY <1>2, <2>2, <2>3, <2>4, AgreesElsewhere
<1>4. CASE o = c
  <2>1. ~BeingMoved(c)
    BY <1>4 DEF RoomJoin
  <2>2. RoomJobs(c) = {}
    BY <2>1 DEF BeingMoved, RoomJobs, Handling
  <2>3. r \in Place /\ current'[c] = r
    BY DEF RoomJoin, RVTypes, RVTypeOK, Place
  <2>4. Believes(c, r)'
    BY <1>2, <2>1, <2>3, BelievesAtOnce DEF BeingMoved
  <2>5. h # NoJob /\ AboutRoom(h, c) /\ h.to = r /\ ~h.moved /\ h.step = "join"
    <3>1. h \in JobType
      BY <1>1, <2>3 DEF RVTypes, RVTypeOK, JobType, Moving, Place
    <3> QED
      BY <1>1, <3>1, RoomViewAssumption DEF AboutRoom
  <2>6. Heads(c, h)'
    BY <2>4, <2>5 DEF Heads
  <2> QED
    BY <1>2, <1>4, <2>2, <2>5, <2>6, AgreesOwn
<1> QED
  BY <1>3, <1>4

LEMMA AgreesRoomLeave ==
  ASSUME RVTypes, RoomsAgree, NEW c \in Users, RoomLeave(c)
  PROVE  RoomsAgree'
<1> SUFFICES ASSUME NEW o \in Users, o \notin strayed' PROVE Agrees(o)'
  BY DEF RoomsAgree
<1>1. PICK h : h = [step |-> "left", user |-> c, to |-> Nowhere, from |-> current[c],
                    moved |-> FALSE]
  OBVIOUS
<1>2. Continue(c, h) /\ handler[c] = NoJob /\ UNCHANGED <<room_id, wire, ui_queue>>
  BY <1>1 DEF RoomLeave, Begins, stateOfUsers
<1>3. CASE o # c
  <2>1. o \notin strayed /\ current'[o] = current[o]
    BY <1>3 DEF RoomLeave, RVTypes, RVTypeOK
  <2>2. Agrees(o) /\ ~AboutRoom(h, o)
    BY <1>1, <1>3, <2>1 DEF RoomsAgree, AboutRoom
  <2>3. c \notin RoomJobs(o)
    BY <1>2, NoRoomJob DEF Handling
  <2>4. \A x \in Place : Believes(o, x) => Believes(o, x)'
    BY <1>2, <2>1, BelievesSame
  <2> QED
    BY <1>2, <2>2, <2>3, <2>4, AgreesElsewhere
<1>4. CASE o = c
  <2>1. ~BeingMoved(c)
    BY <1>4 DEF RoomLeave
  <2>2. RoomJobs(c) = {}
    BY <2>1 DEF BeingMoved, RoomJobs, Handling
  <2>3. Nowhere \in Place /\ current'[c] = Nowhere
    BY DEF RoomLeave, RVTypes, RVTypeOK, Place
  <2>4. Believes(c, Nowhere)'
    BY <1>2, <2>1, <2>3, BelievesAtOnce DEF BeingMoved
  <2>5. h # NoJob /\ AboutRoom(h, c) /\ h.to = Nowhere /\ ~h.moved
    <3>1. h \in JobType
      BY <1>1, <2>3 DEF RVTypes, RVTypeOK, JobType, Moving, Place
    <3> QED
      BY <1>1, <3>1, RoomViewAssumption DEF AboutRoom
  <2>6. Heads(c, h)'
    BY <2>4, <2>5 DEF Heads
  <2> QED
    BY <1>2, <1>4, <2>2, <2>5, <2>6, AgreesOwn
<1> QED
  BY <1>3, <1>4

LEMMA AgreesAdminMove ==
  ASSUME RVTypes, RoomsAgree, NEW c \in Users, NEW u \in Users, NEW r \in RoomIds,
         AdminMove(c, u, r)
  PROVE  RoomsAgree'
<1> SUFFICES ASSUME NEW o \in Users, o \notin strayed' PROVE Agrees(o)'
  BY DEF RoomsAgree
<1>1. PICK h : h = [step |-> IF room_id[u] = Nowhere THEN "join" ELSE "left", user |-> u,
                    to |-> r, from |-> room_id[u], moved |-> TRUE]
  OBVIOUS
<1>2. Continue(c, h) /\ handler[c] = NoJob /\ UNCHANGED <<room_id, wire, ui_queue, current>>
  BY <1>1 DEF AdminMove, Begins, stateOfUsers
<1>3. o \notin strayed /\ Agrees(o)
  BY DEF AdminMove, RoomsAgree
<1>4. c \notin RoomJobs(o)
  BY <1>2, NoRoomJob DEF Handling
<1>5. \A x \in Place : Believes(o, x) => Believes(o, x)'
  BY <1>2, BelievesSame
<1>6. CASE o # u
  <2>1. ~AboutRoom(h, o)
    BY <1>1, <1>6 DEF AboutRoom
  <2> QED
    BY <1>2, <1>3, <1>4, <1>5, <2>1, AgreesElsewhere
<1>7. CASE o = u
  <2>1. Handling = {}
    BY <1>7 DEF AdminMove, Begins
  <2>2. RoomJobs(u) = {}
    BY <2>1 DEF RoomJobs
  <2>3. PICK x \in Place : x = room_id[u]
    BY DEF RVTypes, RVTypeOK
  <2>4. Believes(u, x)'
    BY <1>3, <1>5, <1>7, <2>2, <2>3 DEF Agrees
  <2>5. h \in JobType
    BY <1>1 DEF RVTypes, RVTypeOK, JobType, Moving, Place
  <2>6. h # NoJob /\ AboutRoom(h, u) /\ h.moved /\ h.step # "notify"
    BY <1>1, <2>5, RoomViewAssumption DEF AboutRoom
  <2>7. Heads(u, h)'
    BY <1>2, <2>3, <2>4, <2>6 DEF Heads
  <2> QED
    BY <1>2, <1>7, <2>2, <2>6, <2>7, AgreesOwn
<1> QED
  BY <1>6, <1>7

(* A handler that is not about a room, before or after, sends nothing. *)
LEMMA AgreesSilent ==
  ASSUME RVTypes, RoomsAgree, NEW c \in Users, NEW h, Continue(c, h),
         c \notin Handling \/ ~AboutRoom(handler[c], handler[c].user),
         h = NoJob \/ h.step \notin {"join", "left", "leave", "notify"},
         UNCHANGED <<room_id, wire, ui_queue, current, strayed>>
  PROVE  RoomsAgree'
<1> SUFFICES ASSUME NEW o \in Users, o \notin strayed PROVE Agrees(o)'
  BY DEF RoomsAgree
<1>1. Agrees(o) /\ c \notin RoomJobs(o) /\ (h = NoJob \/ ~AboutRoom(h, o))
  BY DEF RoomsAgree, RoomJobs, AboutRoom
<1>2. \A r \in Place : Believes(o, r) => Believes(o, r)'
  BY BelievesSame
<1> QED
  BY <1>1, <1>2, AgreesElsewhere

LEMMA AgreesSpeaking ==
  ASSUME RVTypes, RoomsAgree, NEW c \in Users, NEW h, Continue(c, h),
         ~AboutRoom(handler[c], handler[c].user),
         h = NoJob \/ h.step \notin {"join", "left", "leave", "notify"},
         NEW m \in RoomMessage, m.kind # "moved",
         \A o \in Users : wire'[o] \in {wire[o], Append(wire[o], m)},
         UNCHANGED <<room_id, ui_queue, current, strayed>>
  PROVE  RoomsAgree'
<1> SUFFICES ASSUME NEW o \in Users, o \notin strayed PROVE Agrees(o)'
  BY DEF RoomsAgree
<1>1. Agrees(o) /\ c \notin RoomJobs(o) /\ (h = NoJob \/ ~AboutRoom(h, o))
  BY DEF RoomsAgree, RoomJobs, AboutRoom
<1> QED
  BY <1>1, AgreesTold

LEMMA AgreesRequests ==
  ASSUME RVTypes, RoomsAgree, NEW c \in Users,
         \/ RoomUpdate(c) \/ AudioMute(c) \/ AudioDeafen(c)
         \/ \E u \in Users, b \in BOOLEAN : AdminMute(c, u, b)
  PROVE  RoomsAgree'
<1>1. CASE RoomUpdate(c)
  <2>1. PICK h : h = [step |-> "lists", user |-> c, list |-> RoomList]
    OBVIOUS
  <2>2. /\ Continue(c, h) /\ c \notin Handling /\ h.step = "lists"
        /\ UNCHANGED <<room_id, wire, ui_queue, current, strayed>>
    BY <1>1, <2>1 DEF RoomUpdate, Begins, Handling, stateOfUsers
  <2> QED
    BY <2>2, AgreesSilent
<1>2. CASE \E u \in Users, told \in SUBSET BOOLEAN : SetsFlag(c, u, told)
  <2>1. PICK u \in Users, told \in SUBSET BOOLEAN : SetsFlag(c, u, told)
    BY <1>2
  <2>2. PICK h : h = [step |-> "look_state", user |-> u, told |-> told]
    OBVIOUS
  <2>3. /\ Continue(c, h) /\ c \notin Handling /\ h.step = "look_state"
        /\ UNCHANGED <<room_id, wire, ui_queue, current, strayed>>
    BY <2>1, <2>2 DEF SetsFlag, Begins, Handling
  <2> QED
    BY <2>3, AgreesSilent
<1>3. /\ AudioMute(c) \/ AudioDeafen(c) => SetsFlag(c, c, {})
      /\ \A u \in Users, b \in BOOLEAN : AdminMute(c, u, b) => SetsFlag(c, u, {b})
  BY DEF AudioMute, AudioDeafen, AdminMute
<1>4. {} \in SUBSET BOOLEAN /\ \A b \in BOOLEAN : {b} \in SUBSET BOOLEAN
  OBVIOUS
<1> QED
  BY <1>1, <1>2, <1>3, <1>4

(* The one handler about u's room. *)
LEMMA OneRoomJob ==
  ASSUME RVTypes, RoomsAgree, NEW c \in Users, NEW h, h = handler[c], h # NoJob,
         h.step \in {"join", "left", "leave", "notify"}
  PROVE  /\ h.user \in Users /\ h \in Moving /\ h.to \in Place /\ JobFits(c, h)
         /\ AboutRoom(h, h.user)
         /\ \A o \in Users : o # h.user => c \notin RoomJobs(o)
         /\ h.user \notin strayed => /\ Agrees(h.user) /\ RoomJobs(h.user) \subseteq {c}
                                     /\ Heads(h.user, h)
<1>1. h \in JobType /\ c \in Handling /\ JobFits(c, h)
  BY DEF RVTypes, RVTypeOK, Handling, JobsFit
<1>2. h \in Moving /\ h.user \in Users /\ AboutRoom(h, h.user)
  BY <1>1, JobShapes DEF AboutRoom, Moves
<1>3. h.to \in Place
  BY <1>2 DEF Moving
<1>4. c \in RoomJobs(h.user) /\ \A o \in Users : o # h.user => c \notin RoomJobs(o)
  BY <1>1, <1>2 DEF RoomJobs
<1> QED
  BY <1>1, <1>2, <1>3, <1>4 DEF RoomsAgree, Agrees

LEMMA AgreesTellLeft ==
  ASSUME RVTypes, RoomsAgree, NEW c \in Users, TellLeft(c)
  PROVE  RoomsAgree'
<1> SUFFICES ASSUME NEW o \in Users, o \notin strayed PROVE Agrees(o)'
  BY DEF RoomsAgree, TellLeft, excused
<1>1. PICK h : h = handler[c]
  OBVIOUS
<1>2. PICK g : g = [h EXCEPT !.step = IF h.moved THEN "join"
                                      ELSE IF h.to = Nowhere THEN "leave" ELSE "look"]
  OBVIOUS
<1>3. PICK m : m = [kind |-> "left", user |-> h.user, room |-> h.from]
  OBVIOUS
<1>4. h.step = "left" /\ h # NoJob
  BY <1>1 DEF TellLeft, Step
<1>5. /\ h.user \in Users /\ h \in Moving /\ h.to \in Place /\ JobFits(c, h)
      /\ \A v \in Users : v # h.user => c \notin RoomJobs(v)
      /\ h.user \notin strayed => RoomJobs(h.user) \subseteq {c} /\ Heads(h.user, h)
  BY <1>1, <1>4, OneRoomJob
<1>6. /\ g.user = h.user /\ g.to = h.to /\ g.moved = h.moved
      /\ g.step = IF h.moved THEN "join" ELSE IF h.to = Nowhere THEN "leave" ELSE "look"
      /\ g \in JobType /\ g # NoJob
  BY <1>2, <1>5, RoomViewAssumption DEF Moving, JobType
<1>7. m \in RoomMessage /\ m.kind # "moved"
  BY <1>3, <1>4, <1>5 DEF RoomMessage, JobFits
<1>8. /\ Continue(c, g) /\ ToRoom(h.from, m, {h.user})
      /\ UNCHANGED <<room_id, ui_queue, current>>
  BY <1>1, <1>2, <1>3 DEF TellLeft, stateOfUsers
<1>9. wire'[o] \in {wire[o], Append(wire[o], m)}
  BY <1>8, ToRoomTells
<1>10. CASE o # h.user
  <2>1. Agrees(o) /\ c \notin RoomJobs(o) /\ ~AboutRoom(g, o) /\ room_id'[o] = room_id[o]
    BY <1>5, <1>6, <1>8, <1>10 DEF AboutRoom, RoomsAgree
  <2> QED
    BY <1>7, <1>8, <1>9, <2>1, AgreesTold
<1>11. CASE o = h.user
  <2>1. \A r \in Place : Believes(o, r) => Believes(o, r)'
    BY <1>7, <1>8, <1>9, BelievesTold
  <2>2. Heads(o, h) /\ RoomJobs(o) \subseteq {c}
    BY <1>5, <1>11
  <2>3. PICK x \in Place : x = room_id[o] /\ x = room_id'[o]
    BY <1>8 DEF RVTypes, RVTypeOK
  <2>4. CASE h.moved
    <3>1. Believes(o, x)'
      BY <1>4, <2>1, <2>2, <2>3, <2>4 DEF Heads
    <3>2. g.moved /\ g.step = "join"
      BY <1>6, <2>4
    <3>3. Heads(o, g)' /\ AboutRoom(g, o)
      BY <1>6, <1>11, <2>3, <3>1, <3>2 DEF Heads, AboutRoom
    <3> QED
      BY <1>8, <2>2, <2>3, <3>1, <3>3, AgreesOwn
  <2>5. CASE ~h.moved /\ h.to = Nowhere
    <3>1. Believes(o, h.to)'
      BY <1>5, <2>1, <2>2, <2>5 DEF Heads
    <3>2. ~g.moved /\ g.step = "leave" /\ g.to = h.to
      BY <1>6, <2>5
    <3>3. Heads(o, g)' /\ AboutRoom(g, o)
      BY <1>6, <1>11, <3>1, <3>2 DEF Heads, AboutRoom
    <3> QED
      BY <1>6, <1>8, <2>2, <3>3, AgreesOwn
  <2>6. CASE ~h.moved /\ h.to # Nowhere
    <3>1. Believes(o, h.to)' /\ h.to = x
      BY <1>4, <1>5, <2>1, <2>2, <2>3, <2>6 DEF Heads
    <3>2. ~AboutRoom(g, o)
      BY <1>6, <2>6 DEF AboutRoom
    <3> QED
      BY <1>8, <2>2, <2>3, <3>1, <3>2, AgreesOwn
  <2> QED
    BY <2>4, <2>5, <2>6
<1> QED
  BY <1>10, <1>11

LEMMA AgreesLeaveRoom ==
  ASSUME RVTypes, RoomsAgree, NEW c \in Users, LeaveRoom(c)
  PROVE  RoomsAgree'
<1> SUFFICES ASSUME NEW o \in Users, o \notin strayed PROVE Agrees(o)'
  BY DEF RoomsAgree, LeaveRoom, excused
<1>1. PICK h : h = handler[c]
  OBVIOUS
<1>2. h.step = "leave" /\ h # NoJob
  BY <1>1 DEF LeaveRoom, Step
<1>3. /\ h.to \in Place /\ JobFits(c, h)
      /\ \A v \in Users : v # h.user => c \notin RoomJobs(v)
      /\ h.user \notin strayed => RoomJobs(h.user) \subseteq {c} /\ Heads(h.user, h)
  BY <1>1, <1>2, OneRoomJob
<1>4. h.user = c /\ ~h.moved /\ h.to = Nowhere
  BY <1>2, <1>3 DEF JobFits, Moves
<1>5. Continue(c, NoJob) /\ UNCHANGED <<wire, ui_queue, current>>
  BY DEF LeaveRoom
<1>6. \A r \in Place : Believes(o, r) => Believes(o, r)'
  BY <1>5, BelievesSame
<1>7. CASE o # c
  <2>1. Agrees(o) /\ c \notin RoomJobs(o) /\ room_id'[o] = room_id[o]
    BY <1>3, <1>4, <1>7 DEF RoomsAgree, LeaveRoom, RVTypes, RVTypeOK
  <2> QED
    BY <1>5, <1>6, <2>1, AgreesElsewhere
<1>8. CASE o = c
  <2>1. Believes(o, h.to)' /\ h.to = room_id'[o]
    BY <1>3, <1>4, <1>6, <1>8 DEF Heads, LeaveRoom, RVTypes, RVTypeOK
  <2>2. Believes(o, room_id[o])' /\ RoomJobs(o) \subseteq {c}
    BY <1>3, <1>4, <1>8, <2>1 DEF Believes
  <2> QED
    BY <1>5, <2>2, AgreesOwn
<1> QED
  BY <1>7, <1>8

LEMMA AgreesEnterRoom ==
  ASSUME RVTypes, RoomsAgree, NEW c \in Users, EnterRoom(c)
  PROVE  RoomsAgree'
<1> SUFFICES ASSUME NEW o \in Users, o \notin strayed PROVE Agrees(o)'
  BY DEF RoomsAgree, EnterRoom
<1>1. PICK h : h = handler[c]
  OBVIOUS
<1>2. h.step = "join" /\ h # NoJob
  BY <1>1 DEF EnterRoom, Step
<1>3. /\ h.user \in Users /\ h \in Moving /\ h.to \in Place /\ JobFits(c, h)
      /\ \A v \in Users : v # h.user => c \notin RoomJobs(v)
      /\ h.user \notin strayed => RoomJobs(h.user) \subseteq {c} /\ Heads(h.user, h)
  BY <1>1, <1>2, OneRoomJob
<1>4. PICK g : g = [h EXCEPT !.step = CASE h.moved -> "notify"
                                        [] ~h.moved /\ h.from = h.to -> "list"
                                        [] ~h.moved /\ h.from = Nowhere -> "look"
                                        [] OTHER -> "left"]
  OBVIOUS
<1>5. Continue(c, g) /\ UNCHANGED <<wire, ui_queue, current>>
  BY <1>1, <1>4 DEF EnterRoom
<1>6. /\ g.user = h.user /\ g.to = h.to /\ g.moved = h.moved /\ h.moved \in BOOLEAN
      /\ h.moved => g.step = "notify"
      /\ ~h.moved => g.step \in {"list", "look", "left"}
  BY <1>3, <1>4 DEF Moving
<1>7. g # NoJob
  BY <1>3, <1>4, RoomViewAssumption DEF Moving, JobType
<1>8. \A r \in Place : Believes(o, r) => Believes(o, r)'
  BY <1>5, BelievesSame
<1>9. CASE o # h.user
  <2>1. Agrees(o) /\ c \notin RoomJobs(o) /\ ~AboutRoom(g, o) /\ room_id'[o] = room_id[o]
    BY <1>1, <1>3, <1>6, <1>9 DEF AboutRoom, RoomsAgree, EnterRoom, RVTypes, RVTypeOK
  <2> QED
    BY <1>5, <1>8, <2>1, AgreesElsewhere
<1>10. CASE o = h.user
  <2>1. Heads(o, h) /\ RoomJobs(o) \subseteq {c}
    BY <1>3, <1>10
  <2>2. room_id'[o] = h.to
    BY <1>1, <1>10 DEF EnterRoom, RVTypes, RVTypeOK
  <2>3. CASE h.moved
    <3>1. PICK x \in Place : x = room_id[o]
      BY DEF RVTypes, RVTypeOK
    <3>2. Believes(o, x)'
      BY <1>2, <1>8, <2>1, <2>3, <3>1 DEF Heads
    <3>3. g.moved /\ g.step = "notify" /\ AboutRoom(g, o)
      BY <1>6, <1>10, <2>3 DEF AboutRoom
    <3>4. Heads(o, g)'
      BY <1>6, <2>2, <3>2, <3>3 DEF Heads
    <3> QED
      BY <1>5, <1>7, <2>1, <3>3, <3>4, AgreesOwn
  <2>4. CASE ~h.moved
    <3>1. Believes(o, h.to)'
      BY <1>3, <1>8, <2>1, <2>4 DEF Heads
    <3>2. Believes(o, room_id[o])'
      BY <2>2, <3>1 DEF Believes
    <3>3. ~g.moved /\ g.to = h.to
      BY <1>6, <2>4
    <3>4. Heads(o, g)'
      BY <2>2, <3>1, <3>3 DEF Heads
    <3> QED
      BY <1>5, <2>1, <3>2, <3>4, AgreesOwn
  <2> QED
    BY <2>3, <2>4
<1> QED
  BY <1>9, <1>10

LEMMA AgreesNotifyMoved ==
  ASSUME RVTypes, RoomsAgree, NEW c \in Users, NotifyMoved(c)
  PROVE  RoomsAgree'
<1> SUFFICES ASSUME NEW o \in Users, o \notin strayed PROVE Agrees(o)'
  BY DEF RoomsAgree, NotifyMoved, excused
<1>1. PICK h : h = handler[c]
  OBVIOUS
<1>2. h.step = "notify" /\ h # NoJob
  BY <1>1 DEF NotifyMoved, Step
<1>3. /\ h.user \in Users /\ h \in Moving /\ h.to \in Place /\ JobFits(c, h)
      /\ \A v \in Users : v # h.user => c \notin RoomJobs(v)
      /\ h.user \notin strayed => RoomJobs(h.user) \subseteq {c} /\ Heads(h.user, h)
  BY <1>1, <1>2, OneRoomJob
<1>4. PICK g : g = [h EXCEPT !.step = "look"]
  OBVIOUS
<1>5. PICK m : m = [kind |-> "moved", room |-> h.to]
  OBVIOUS
<1>6. /\ Continue(c, g) /\ UNCHANGED <<room_id, ui_queue, current>>
      /\ wire' = [wire EXCEPT ![h.user] = Append(@, m)]
  BY <1>1, <1>4, <1>5 DEF NotifyMoved, stateOfUsers
<1>7. g.user = h.user /\ ~AboutRoom(g, o)
  BY <1>3, <1>4 DEF AboutRoom, Moving
<1>8. CASE o # h.user
  <2>1. Agrees(o) /\ c \notin RoomJobs(o) /\ room_id'[o] = room_id[o] /\ wire'[o] = wire[o]
    BY <1>3, <1>6, <1>8 DEF RoomsAgree, RVTypes, RVTypeOK
  <2>2. \A r \in Place : Believes(o, r) => Believes(o, r)'
    BY <1>6, <2>1, BelievesSame
  <2> QED
    BY <1>6, <1>7, <2>1, <2>2, AgreesElsewhere
<1>9. CASE o = h.user
  <2>1. Heads(o, h) /\ RoomJobs(o) \subseteq {c}
    BY <1>3, <1>9
  <2>2. h.moved /\ h.to \in RoomIds
    BY <1>2, <1>3 DEF JobFits, Moves
  <2>3. m \in RoomMessage /\ m.kind = "moved" /\ m.room = h.to
    BY <1>5, <2>2 DEF RoomMessage
  <2>4. wire'[o] = Append(wire[o], m)
    BY <1>6, <1>9 DEF RVTypes, RVTypeOK
  <2>5. room_id[o] = h.to /\ \E r \in Place : Believes(o, r)
    BY <1>2, <2>1, <2>2 DEF Heads
  <2>6. PICK x \in Place : x = h.to
    BY <1>3
  <2>7. Believes(o, x)'
    BY <1>6, <2>3, <2>4, <2>5, <2>6, BelievesMoved
  <2>8. room_id'[o] = x
    BY <1>6, <2>5, <2>6
  <2>9. Believes(o, room_id[o])'
    BY <2>7, <2>8 DEF Believes
  <2> QED
    BY <1>6, <1>7, <2>1, <2>9, AgreesOwn
<1> QED
  BY <1>8, <1>9

LEMMA AgreesLook ==
  ASSUME RVTypes, RoomsAgree, NEW c \in Users, LookJoined(c) \/ LookState(c)
  PROVE  RoomsAgree'
<1>1. PICK h : handler' = [handler EXCEPT ![c] = h] /\ h = handler'[c]
  BY DEF LookJoined, LookState, Continue, RVTypes, RVTypeOK
<1>2. /\ Continue(c, h) /\ UNCHANGED <<room_id, wire, ui_queue, current, strayed>>
      /\ handler[c].step \in {"look", "look_state"}
      /\ h = NoJob \/ h.step \in {"joined", "state"}
  BY <1>1 DEF LookJoined, LookState, Continue, Step, stateOfUsers, excused, RVTypes, RVTypeOK
<1> QED
  BY <1>2, AgreesSilent DEF AboutRoom

LEMMA AgreesTellJoined ==
  ASSUME RVTypes, RoomsAgree, NEW c \in Users, TellJoined(c)
  PROVE  RoomsAgree'
<1>1. PICK h : h = IF handler[c].moved THEN NoJob ELSE [step |-> "list", user |-> c]
  OBVIOUS
<1>2. PICK m : m = [kind |-> "joined", info |-> handler[c].info]
  OBVIOUS
<1>3. handler[c].info \in Shown
  BY StepJob, JobShapes DEF TellJoined, Telling
<1>4. m \in RoomMessage /\ m.kind # "moved"
  BY <1>2, <1>3 DEF RoomMessage
<1>5. /\ Continue(c, h) /\ UNCHANGED <<room_id, ui_queue, current, strayed>>
      /\ handler[c].step = "joined" /\ (h = NoJob \/ h.step = "list")
  BY <1>1 DEF TellJoined, Step, stateOfUsers, excused
<1>6. \A o \in Users : wire'[o] \in {wire[o], Append(wire[o], m)}
  <2>1. PICK r, X : r = handler[c].info.room /\ X = {handler[c].user}
    OBVIOUS
  <2>2. ToRoom(r, m, X)
    BY <1>2, <2>1 DEF TellJoined
  <2> QED
    BY <2>2, ToRoomTells
<1> QED
  BY <1>4, <1>5, <1>6, AgreesSpeaking DEF AboutRoom

LEMMA AgreesTellState ==
  ASSUME RVTypes, RoomsAgree, NEW c \in Users, TellState(c)
  PROVE  RoomsAgree'
<1>1. PICK m : m = [kind |-> "state", info |-> handler[c].info]
  OBVIOUS
<1>2. handler[c].info \in Shown
  BY StepJob, JobShapes DEF TellState
<1>3. m \in RoomMessage /\ m.kind # "moved"
  BY <1>1, <1>2 DEF RoomMessage
<1>4. /\ Continue(c, NoJob) /\ UNCHANGED <<room_id, ui_queue, current, strayed>>
      /\ handler[c].step = "state"
  BY DEF TellState, Step, stateOfUsers, excused
<1>5. \A o \in Users : wire'[o] \in {wire[o], Append(wire[o], m)}
  <2>1. PICK r : r = handler[c].info.room
    OBVIOUS
  <2>2. ToRoom(r, m, {})
    BY <1>1, <2>1 DEF TellState
  <2> QED
    BY <2>2, ToRoomTells
<1> QED
  BY <1>3, <1>4, <1>5, AgreesSpeaking DEF AboutRoom

LEMMA AgreesLists ==
  ASSUME RVTypes, RoomsAgree, NEW c \in Users, SendList(c) \/ BroadcastRoomList(c)
  PROVE  RoomsAgree'
<1>1. CASE SendList(c)
  <2>1. PICK m : m = [kind |-> "list", list |-> RoomList]
    OBVIOUS
  <2>2. m \in RoomMessage /\ m.kind # "moved"
    BY <2>1, RoomListTypes DEF RoomMessage
  <2>3. /\ Continue(c, NoJob) /\ UNCHANGED <<room_id, ui_queue, current, strayed>>
        /\ handler[c].step = "list"
    BY <1>1 DEF SendList, Step, stateOfUsers
  <2>4. \A o \in Users : wire'[o] \in {wire[o], Append(wire[o], m)}
    BY <1>1, <2>1 DEF SendList, RVTypes, RVTypeOK
  <2> QED
    BY <2>2, <2>3, <2>4, AgreesSpeaking DEF AboutRoom
<1>2. CASE BroadcastRoomList(c)
  <2>1. PICK m : m = [kind |-> "list", list |-> handler[c].list]
    OBVIOUS
  <2>2. handler[c].list \in SUBSET Shown
    BY <1>2, StepJob, JobShapes DEF BroadcastRoomList
  <2>3. m \in RoomMessage /\ m.kind # "moved"
    BY <2>1, <2>2 DEF RoomMessage
  <2>4. /\ Continue(c, NoJob) /\ UNCHANGED <<room_id, ui_queue, current, strayed>>
        /\ handler[c].step = "lists"
    BY <1>2 DEF BroadcastRoomList, Step, stateOfUsers
  <2>5. \A o \in Users : wire'[o] \in {wire[o], Append(wire[o], m)}
    BY <1>2, <2>1 DEF BroadcastRoomList
  <2> QED
    BY <2>3, <2>4, <2>5, AgreesSpeaking DEF AboutRoom
<1> QED
  BY <1>1, <1>2

LEMMA AgreesClients ==
  ASSUME RVTypes, RoomsAgree, NEW c \in Users, NetworkTask(c) \/ HandleMessage(c)
  PROVE  RoomsAgree'
<1> SUFFICES ASSUME NEW o \in Users, o \notin strayed PROVE Agrees(o)'
  BY DEF RoomsAgree, NetworkTask, HandleMessage, excused
<1>1. \A r \in Place : Believes(o, r) => Believes(o, r)'
  BY BelievesNetworkTask, BelievesHandleMessage
<1>2. UNCHANGED <<handler, room_id>>
  BY DEF NetworkTask, HandleMessage, stateOfUsers
<1> QED
  BY <1>1, <1>2, AgreesClient DEF RoomsAgree

LEMMA RoomsAgreeInit == RVInit => RoomsAgree
<1> SUFFICES ASSUME RVInit, NEW c \in Users PROVE Agrees(c)
  BY DEF RoomsAgree
<1>1. RoomJobs(c) = {}
  BY DEF RVInit, RoomJobs, Handling
<1>2. EndsIn(wire[c], Nowhere, Nowhere) /\ EndsIn(ui_queue[c], current[c], Nowhere)
  BY DEF RVInit, EndsIn, NoneMoved
<1>3. Believes(c, room_id[c])
  BY <1>2 DEF Believes, RVInit, Place
<1> QED
  BY <1>1, <1>3 DEF Agrees

LEMMA RoomsAgreeStep == RVTypes /\ RoomsAgree /\ [RVNext]_rvVars => RoomsAgree'
<1> SUFFICES ASSUME RVTypes, RoomsAgree, [RVNext]_rvVars PROVE RoomsAgree'
  OBVIOUS
<1>1. CASE UNCHANGED rvVars
  BY <1>1 DEF rvVars, stateOfUsers, excused, RoomsAgree, Agrees, RoomJobs, Handling, Heads,
     Believes, EndsIn, LastMoved, NoneMoved
<1>2. CASE RVNext
  <2>1. PICK c \in Users :
          \/ RoomLeave(c) \/ RoomUpdate(c)
          \/ \E r \in RoomIds : RoomJoin(c, r) \/ \E u \in Users : AdminMove(c, u, r)
          \/ AudioMute(c) \/ AudioDeafen(c)
          \/ \E u \in Users, b \in BOOLEAN : AdminMute(c, u, b)
          \/ TellLeft(c) \/ LeaveRoom(c) \/ EnterRoom(c) \/ NotifyMoved(c) \/ LookJoined(c)
          \/ TellJoined(c) \/ SendList(c) \/ BroadcastRoomList(c) \/ LookState(c) \/ TellState(c)
          \/ NetworkTask(c) \/ HandleMessage(c)
    BY <1>2 DEF RVNext
  <2> QED
    BY <2>1, AgreesRoomLeave, AgreesRequests, AgreesRoomJoin, AgreesAdminMove, AgreesTellLeft,
       AgreesLeaveRoom, AgreesEnterRoom, AgreesNotifyMoved, AgreesLook, AgreesTellJoined,
       AgreesTellState, AgreesLists, AgreesClients
<1> QED
  BY <1>1, <1>2

----------------------------------------------------------------------------
(* What a client will show at last *)

(* A message applied to a view: those of the kinds b replace it, all others    *)
(* change it.  For the UI thread none replaces it, of those on the wire a list *)
(* does, which the network task applies.                                       *)
After(b, V, m) == IF m.kind \in b THEN m.list ELSE Applied(V, m)

UiThread == {}
Wire     == {"list"}

(* The messages of q, one after the other, make W of V: K are the views between. *)
Leads(b, V, q, W) ==
  \E K \in [0..Len(q) -> SUBSET Shown] :
    /\ K[0] = V /\ K[Len(q)] = W
    /\ \A i \in 1..Len(q) : K[i] = After(b, K[i - 1], q[i])

(* What o may show once all of its messages are applied. *)
Prospects(o) ==
  {W \in SUBSET Shown : \E M \in SUBSET Shown : /\ Leads(UiThread, view[o], ui_queue[o], M)
                                                /\ Leads(Wire, M, wire[o], W)}

LEMMA LeastOf ==
  ASSUME NEW n \in Nat, NEW B \in SUBSET (0..n), B # {}
  PROVE  \E i \in B : \A j \in B : ~(j < i)
<1> DEFINE T == {0..i : i \in B}
<1>1. T \subseteq FiniteSubsetsOf(0..n) /\ T # {}
  <2>1. ASSUME NEW i \in B PROVE 0..i \in FiniteSubsetsOf(0..n)
    <3>1. 0..i \subseteq 0..n /\ i \in Int
      OBVIOUS
    <3>2. IsFiniteSet(0..i)
      BY <3>1, FS_Interval
    <3> QED
      BY <3>1, <3>2 DEF FiniteSubsetsOf
  <2> QED
    BY <2>1
<1>2. PICK t \in T : \A s \in T : ~(<<s, t>> \in StrictSubsetOrdering(0..n))
  BY <1>1, FS_StrictSubsetOrderingWellFounded, WFMin
<1>3. PICK i \in B : t = 0..i
  OBVIOUS
<1>4. ASSUME NEW j \in B, j < i PROVE FALSE
  <2>1. 0..j \in SUBSET (0..n) /\ 0..i \in SUBSET (0..n) /\ 0..j \subseteq 0..i
    BY <1>4
  <2>2. i \in 0..i /\ i \notin 0..j
    BY <1>4
  <2>3. 0..j # 0..i
    BY <2>2
  <2>4. <<0..j, 0..i>> \in StrictSubsetOrdering(0..n)
    BY <2>1, <2>3 DEF StrictSubsetOrdering
  <2>5. 0..j \in T
    OBVIOUS
  <2> QED
    BY <1>2, <1>3, <2>4, <2>5
<1> QED
  BY <1>4

LEMMA LeadsNothing ==
  ASSUME NEW b, NEW V \in SUBSET Shown, NEW W
  PROVE  Leads(b, V, <<>>, W) <=> W = V
<1>1. ASSUME Leads(b, V, <<>>, W) PROVE W = V
  BY <1>1 DEF Leads
<1>2. ASSUME W = V PROVE Leads(b, V, <<>>, W)
  <2> DEFINE K == [i \in 0..Len(<<>>) |-> V]
  <2>1. K \in [0..Len(<<>>) -> SUBSET Shown] /\ K[0] = V /\ K[Len(<<>>)] = W
    BY <1>2
  <2>2. \A i \in 1..Len(<<>>) : K[i] = After(b, K[i - 1], <<>>[i])
    OBVIOUS
  <2> QED
    BY <2>1, <2>2 DEF Leads
<1> QED
  BY <1>1, <1>2

IsAppended(p, q, m) == q \in Seq(RoomMessage) /\ m \in RoomMessage /\ p = Append(q, m)

LEMMA LeadsAppend ==
  ASSUME NEW b, NEW V, NEW q, NEW m, NEW p, NEW W, IsAppended(p, q, m), Leads(b, V, p, W)
  PROVE  \E X \in SUBSET Shown : Leads(b, V, q, X) /\ W = After(b, X, m)
<1> DEFINE n == Len(q)
<1>1. /\ Len(p) = n + 1 /\ n \in Nat
      /\ \A i \in 1..n : p[i] = q[i]
      /\ p[n + 1] = m
  BY DEF IsAppended
<1>2. PICK K \in [0..Len(p) -> SUBSET Shown] :
        /\ K[0] = V /\ K[Len(p)] = W
        /\ \A i \in 1..Len(p) : K[i] = After(b, K[i - 1], p[i])
  BY DEF Leads
<1> DEFINE L == [i \in 0..n |-> K[i]]
<1>3. L \in [0..n -> SUBSET Shown]
  BY <1>1
<1>4. L[0] = V /\ L[n] = K[n]
  BY <1>1, <1>2
<1>5. ASSUME NEW i \in 1..n PROVE L[i] = After(b, L[i - 1], q[i])
  <2>1. i \in 1..Len(p) /\ i \in 0..n /\ i - 1 \in 0..n
    BY <1>1
  <2> QED
    BY <1>1, <1>2, <2>1
<1>6. Leads(b, V, q, K[n])
  <2> HIDE DEF L
  <2> QED
    BY <1>3, <1>4, <1>5 DEF Leads
<1>7. W = After(b, K[n], m)
  <2>1. n + 1 \in 1..Len(p) /\ (n + 1) - 1 = n
    BY <1>1
  <2> QED
    BY <1>1, <1>2, <2>1
<1>8. K[n] \in SUBSET Shown
  BY <1>1
<1> QED
  BY <1>6, <1>7, <1>8

LEMMA LeadsCons ==
  ASSUME NEW b, NEW V \in SUBSET Shown, NEW q \in Seq(RoomMessage), q # <<>>, NEW W,
         Leads(b, After(b, V, Head(q)), Tail(q), W)
  PROVE  Leads(b, V, q, W)
<1> DEFINE t == Tail(q)
           n == Len(q)
<1>1. /\ Len(t) = n - 1 /\ n \in Nat \ {0}
      /\ \A i \in 1..(n - 1) : t[i] = q[i + 1]
      /\ Head(q) = q[1]
  OBVIOUS
<1>2. PICK K \in [0..Len(t) -> SUBSET Shown] :
        /\ K[0] = After(b, V, q[1]) /\ K[Len(t)] = W
        /\ \A i \in 1..Len(t) : K[i] = After(b, K[i - 1], t[i])
  BY <1>1 DEF Leads
<1> HIDE DEF t
<1> DEFINE L == [i \in 0..n |-> IF i = 0 THEN V ELSE K[i - 1]]
<1>3. L \in [0..n -> SUBSET Shown]
  <2>1. \A i \in 0..n : i # 0 => i - 1 \in 0..Len(t)
    BY <1>1
  <2> QED
    BY <2>1
<1>4. L[0] = V /\ L[n] = W
  BY <1>1, <1>2
<1>5. ASSUME NEW i \in 1..n PROVE L[i] = After(b, L[i - 1], q[i])
  <2>1. i \in 0..n /\ i - 1 \in 0..n /\ L[i] = K[i - 1]
    BY <1>1
  <2>2. CASE i = 1
    BY <1>1, <1>2, <2>1, <2>2
  <2>3. CASE i # 1
    <3>1. i - 1 \in 1..Len(t) /\ i - 1 \in 1..(n - 1) /\ (i - 1) + 1 = i /\ i - 1 # 0
      BY <1>1, <2>3
    <3>2. K[i - 1] = After(b, K[(i - 1) - 1], t[i - 1])
      BY <1>2, <3>1
    <3>3. t[i - 1] = q[i]
      BY <1>1, <3>1
    <3>4. L[i - 1] = K[(i - 1) - 1]
      BY <2>1, <3>1
    <3> QED
      BY <2>1, <3>2, <3>3, <3>4
  <2> QED
    BY <2>2, <2>3
<1> HIDE DEF L
<1> QED
  BY <1>3, <1>4, <1>5 DEF Leads

(* Messages that change no room leave a view as it is. *)
LEMMA LeadsQuiet ==
  ASSUME NEW V \in SUBSET Shown, NEW q \in Seq(RoomMessage),
         \A i \in DOMAIN q : ~Changes(q[i]), NEW W
  PROVE  Leads(UiThread, V, q, W) <=> W = V
<1> DEFINE n == Len(q)
<1>1. n \in Nat /\ DOMAIN q = 1..n
  OBVIOUS
<1>2. ASSUME NEW X, NEW i \in 1..n PROVE After(UiThread, X, q[i]) = X
  BY <1>1 DEF After, UiThread, Applied, Changes
<1>3. ASSUME Leads(UiThread, V, q, W) PROVE W = V
  <2>1. PICK K \in [0..n -> SUBSET Shown] :
          /\ K[0] = V /\ K[n] = W
          /\ \A i \in 1..n : K[i] = After(UiThread, K[i - 1], q[i])
    BY <1>3 DEF Leads
  <2> DEFINE B == {i \in 0..n : K[i] # V}
  <2>2. SUFFICES ASSUME B # {} PROVE FALSE
    BY <1>1, <2>1
  <2>3. B \in SUBSET (0..n)
    OBVIOUS
  <2>4. PICK i \in B : \A j \in B : ~(j < i)
    <3> HIDE DEF B
    <3> QED
      BY <1>1, <2>2, <2>3, LeastOf
  <2>5. i \in 1..n /\ i - 1 \in 0..n /\ i - 1 < i
    BY <1>1, <2>1
  <2>6. K[i - 1] = V
    BY <2>4, <2>5
  <2>7. K[i] = V
    BY <1>2, <2>1, <2>5, <2>6
  <2> QED
    BY <2>7
<1>4. ASSUME W = V PROVE Leads(UiThread, V, q, W)
  <2> DEFINE K == [i \in 0..n |-> V]
  <2>1. K \in [0..n -> SUBSET Shown] /\ K[0] = V /\ K[n] = W
    BY <1>1, <1>4
  <2>2. ASSUME NEW i \in 1..n PROVE K[i] = After(UiThread, K[i - 1], q[i])
    <3>1. i \in 0..n /\ i - 1 \in 0..n
      BY <1>1
    <3> QED
      BY <1>2, <3>1
  <2> HIDE DEF K
  <2> QED
    BY <2>1, <2>2 DEF Leads
<1> QED
  BY <1>3, <1>4

LEMMA AfterTypes ==
  ASSUME NEW b \in {UiThread, Wire}, NEW V \in SUBSET Shown, NEW m \in RoomMessage
  PROVE  After(b, V, m) \in SUBSET Shown
<1>1. m.kind = "list" => m.list \in SUBSET Shown
  BY DEF RoomMessage
<1> QED
  BY <1>1, AppliedTypes DEF After, UiThread, Wire

LEMMA ProspectsAppend ==
  ASSUME RVTypes, NEW o \in Users, NEW m \in RoomMessage, wire'[o] = Append(wire[o], m),
         view'[o] = view[o], ui_queue'[o] = ui_queue[o], NEW W \in Prospects(o)'
  PROVE  \E X \in Prospects(o) : W = After(Wire, X, m)
<1>1. PICK M \in SUBSET Shown : /\ Leads(UiThread, view'[o], ui_queue'[o], M)
                                /\ Leads(Wire, M, wire'[o], W)
  BY DEF Prospects
<1>2. wire[o] \in Seq(RoomMessage)
  BY DEF RVTypes, RVTypeOK
<1>3. PICK X \in SUBSET Shown : Leads(Wire, M, wire[o], X) /\ W = After(Wire, X, m)
  <2>1. PICK q, p : q = wire[o] /\ p = wire'[o]
    OBVIOUS
  <2>2. IsAppended(p, q, m)
    BY <1>2, <2>1 DEF IsAppended
  <2> QED
    BY <1>1, <2>1, <2>2, LeadsAppend
<1>4. Leads(UiThread, view[o], ui_queue[o], M)
  BY <1>1
<1> QED
  BY <1>3, <1>4 DEF Prospects

LEMMA ProspectsSame ==
  ASSUME NEW o \in Users, wire'[o] = wire[o], view'[o] = view[o], ui_queue'[o] = ui_queue[o]
  PROVE  Prospects(o)' = Prospects(o)
BY DEF Prospects

LEMMA ProspectsHandle ==
  ASSUME RVTypes, NEW c \in Users, HandleMessage(c), NEW o \in Users
  PROVE  Prospects(o)' \subseteq Prospects(o)
<1>1. CASE o # c
  <2>1. wire'[o] = wire[o] /\ view'[o] = view[o] /\ ui_queue'[o] = ui_queue[o]
    BY <1>1 DEF HandleMessage, RVTypes, RVTypeOK
  <2> QED
    BY <2>1, ProspectsSame
<1>2. CASE o = c
  <2>1. /\ view[c] \in SUBSET Shown /\ ui_queue[c] \in Seq(RoomMessage) /\ ui_queue[c] # <<>>
        /\ wire'[c] = wire[c] /\ ui_queue'[c] = Tail(ui_queue[c])
        /\ view'[c] = Applied(view[c], Head(ui_queue[c]))
    BY DEF HandleMessage, RVTypes, RVTypeOK
  <2> SUFFICES ASSUME NEW W \in Prospects(c)' PROVE W \in Prospects(c)
    BY <1>2
  <2>2. PICK M \in SUBSET Shown : /\ Leads(UiThread, view'[c], ui_queue'[c], M)
                                  /\ Leads(Wire, M, wire'[c], W)
    BY DEF Prospects
  <2>3. view'[c] = After(UiThread, view[c], Head(ui_queue[c]))
    BY <2>1 DEF After, UiThread, Wire
  <2>4. Leads(UiThread, view[c], ui_queue[c], M)
    BY <2>1, <2>2, <2>3, LeadsCons
  <2>5. Leads(Wire, M, wire[c], W)
    BY <2>1, <2>2
  <2> QED
    BY <2>4, <2>5 DEF Prospects
<1> QED
  BY <1>1, <1>2

(* A list that overtakes no news changes nothing of what will be shown. *)
LEMMA ProspectsNetwork ==
  ASSUME RVTypes, NEW c \in Users, NetworkTask(c), NEW o \in Users, o \notin blurred'
  PROVE  Prospects(o)' \subseteq Prospects(o)
<1>1. CASE o # c
  <2>1. wire'[o] = wire[o] /\ view'[o] = view[o] /\ ui_queue'[o] = ui_queue[o]
    BY <1>1 DEF NetworkTask, RVTypes, RVTypeOK
  <2> QED
    BY <2>1, ProspectsSame
<1>2. CASE o = c
  <2> DEFINE m == Head(wire[c])
  <2>1. /\ view[c] \in SUBSET Shown /\ ui_queue[c] \in Seq(RoomMessage)
        /\ wire[c] \in Seq(RoomMessage) /\ wire[c] # <<>>
        /\ wire'[c] = Tail(wire[c]) /\ ui_queue'[c] = Append(ui_queue[c], m)
        /\ view'[c] = IF m.kind = "list" THEN m.list ELSE view[c]
    BY DEF NetworkTask, RVTypes, RVTypeOK
  <2>2. m \in RoomMessage
    BY <2>1
  <2>3. m.kind = "list" => \A i \in DOMAIN ui_queue[c] : ~Changes(ui_queue[c][i])
    BY <1>2 DEF NetworkTask
  <2>4. m.kind = "list" => m.list \in SUBSET Shown
    BY <2>2 DEF RoomMessage
  <2> SUFFICES ASSUME NEW W \in Prospects(c)' PROVE W \in Prospects(c)
    BY <1>2
  <2>5. PICK M \in SUBSET Shown : /\ Leads(UiThread, view'[c], ui_queue'[c], M)
                                  /\ Leads(Wire, M, wire'[c], W)
    BY DEF Prospects
  <2> HIDE DEF m
  <2>6. CASE m.kind = "list"
    <3> DEFINE q == Append(ui_queue[c], m)
    <3>1. q \in Seq(RoomMessage)
      BY <2>1, <2>2
    <3>2. ASSUME NEW i \in DOMAIN q PROVE ~Changes(q[i])
      <4>1. CASE i \in DOMAIN ui_queue[c]
        BY <2>1, <2>2, <2>3, <2>6, <4>1, AppendedIndex
      <4>2. CASE i = Len(ui_queue[c]) + 1
        BY <2>1, <2>2, <2>6, <4>2, AppendedIndex DEF Changes
      <4>3. DOMAIN q = DOMAIN ui_queue[c] \cup {Len(ui_queue[c]) + 1}
        BY <2>1, <2>2, AppendedIndex
      <4> QED
        BY <4>1, <4>2, <4>3
    <3>3. Leads(UiThread, m.list, q, M)
      BY <2>1, <2>5, <2>6
    <3> HIDE DEF q
    <3>4. M = m.list
      BY <2>4, <2>6, <3>1, <3>2, <3>3, LeadsQuiet
    <3>5. Leads(UiThread, view[c], ui_queue[c], view[c])
      BY <2>1, <2>3, <2>6, LeadsQuiet
    <3>6. M = After(Wire, view[c], m)
      BY <2>6, <3>4 DEF After, UiThread, Wire
    <3>7. Leads(Wire, view[c], wire[c], W)
      BY <2>1, <2>5, <3>6, LeadsCons DEF m
    <3> QED
      BY <2>1, <3>5, <3>7 DEF Prospects
  <2>7. CASE m.kind # "list"
    <3>1. Leads(UiThread, view[c], Append(ui_queue[c], m), M)
      BY <2>1, <2>5, <2>7
    <3>2. PICK X \in SUBSET Shown : /\ Leads(UiThread, view[c], ui_queue[c], X)
                                    /\ M = After(UiThread, X, m)
      <4>1. PICK q, p : q = ui_queue[c] /\ p = Append(ui_queue[c], m)
        OBVIOUS
      <4>2. IsAppended(p, q, m)
        BY <2>1, <2>2, <4>1 DEF IsAppended
      <4> QED
        BY <3>1, <4>1, <4>2, LeadsAppend
    <3>3. M = After(Wire, X, m)
      BY <2>7, <3>2 DEF After, UiThread, Wire
    <3>4. Leads(Wire, X, wire[c], W)
      BY <2>1, <2>5, <3>3, LeadsCons DEF m
    <3> QED
      BY <3>2, <3>4 DEF Prospects
  <2> QED
    BY <2>6, <2>7
<1> QED
  BY <1>1, <1>2

----------------------------------------------------------------------------
(* A request that is handled alone *)

(* Whoever joins has entered the room, and the old one has not been told. *)
Entered(h) == h.step = "left" /\ ~h.moved /\ h.to # Nowhere

(* What a handler alone has looked at is still so. *)
Fresh(h) ==
  /\ h.step = "lists" => h.list = RoomList
  /\ h.step \in {"joined", "state"} => h.info = Info(h.user, room_id[h.user])
  /\ h.step \in {"notify", "look"} \/ Entered(h) => room_id[h.user] = h.to
  /\ Entered(h) => h.from # h.to
  /\ h.step = "join" \/ (h.step = "left" /\ h.moved) => room_id[h.user] = h.from
  /\ h.step = "left" /\ ~h.moved /\ h.to = Nowhere =>
       room_id[h.user] = h.from \/ blurred = Users
  /\ h.step = "look_state" => h.told = {} \/ h.told = {admin_muted[h.user]}
  /\ h.step \in {"notify", "look", "joined"} /\ h.moved => h.user \in blurred

Alone ==
  /\ ~entangled => \A c, d \in Handling : c = d
  /\ entangled => blurred = Users
  /\ ~entangled => \A c \in Handling : Fresh(handler[c])

(* The one request being handled, when it is alone. *)
TheJob == IF Handling = {} THEN NoJob ELSE handler[CHOOSE c \in Handling : TRUE]

LEMMA HandlingAfter ==
  ASSUME RVTypes, NEW c \in Users, NEW h, Continue(c, h)
  PROVE  /\ h = NoJob => Handling' = Handling \ {c}
         /\ h # NoJob => Handling' = Handling \cup {c}
         /\ handler'[c] = h
         /\ Handling \subseteq Users
<1>1. handler'[c] = h /\ \A d \in Users \ {c} : handler'[d] = handler[d]
  BY DEF Continue, RVTypes, RVTypeOK
<1> QED
  BY <1>1 DEF Handling

LEMMA AloneBegins ==
  ASSUME RVTypes, Alone, NEW c \in Users, NEW h, Begins(c), Continue(c, h), h # NoJob,
         entangled' => blurred' = Users, ~entangled' => Fresh(h)'
  PROVE  Alone'
<1>1. Handling' = Handling \cup {c} /\ handler'[c] = h
  BY HandlingAfter
<1>2. ~entangled' => Handling = {}
  BY DEF Begins
<1> QED
  BY <1>1, <1>2 DEF Alone

LEMMA AloneGoesOn ==
  ASSUME RVTypes, Alone, NEW c \in Users, NEW h, c \in Handling, Continue(c, h),
         UNCHANGED entangled, entangled => blurred' = Users,
         ~entangled /\ h # NoJob => Fresh(h)'
  PROVE  Alone'
<1>1. /\ Handling' \subseteq Handling /\ handler'[c] = h
      /\ h = NoJob => Handling' = Handling \ {c}
  BY HandlingAfter
<1>2. ~entangled => Handling = {c}
  BY DEF Alone
<1> QED
  BY <1>1, <1>2 DEF Alone

LEMMA TheJobBegins ==
  ASSUME RVTypes, NEW c \in Users, NEW h, Begins(c), Continue(c, h), h # NoJob, ~entangled'
  PROVE  TheJob = NoJob /\ TheJob' = h
<1>1. Handling' = Handling \cup {c} /\ handler'[c] = h
  BY HandlingAfter
<1>2. Handling = {}
  BY DEF Begins
<1>3. Handling' = {c}
  BY <1>1, <1>2
<1> QED
  BY <1>1, <1>2, <1>3 DEF TheJob

LEMMA TheJobGoesOn ==
  ASSUME RVTypes, Alone, NEW c \in Users, NEW h, c \in Handling, Continue(c, h), ~entangled
  PROVE  TheJob = handler[c] /\ TheJob' = h
<1>1. /\ h = NoJob => Handling' = Handling \ {c}
      /\ h # NoJob => Handling' = Handling \cup {c}
      /\ handler'[c] = h
  BY HandlingAfter
<1>2. Handling = {c}
  BY DEF Alone
<1>3. h = NoJob => Handling' = {}
  BY <1>1, <1>2
<1>4. h # NoJob => Handling' = {c}
  BY <1>1, <1>2
<1> QED
  BY <1>1, <1>2, <1>3, <1>4 DEF TheJob

LEMMA TheJobFresh ==
  ASSUME RVTypes, Alone, ~entangled, TheJob # NoJob
  PROVE  TheJob \in JobType /\ Fresh(TheJob)
<1>1. Handling # {}
  BY DEF TheJob
<1>2. PICK c \in Handling : TheJob = handler[c]
  BY <1>1 DEF TheJob
<1>3. handler[c] \in JobType
  BY <1>2 DEF Handling, RVTypes, RVTypeOK
<1>4. Fresh(handler[c])
  BY <1>2 DEF Alone
<1> QED
  BY <1>2, <1>3, <1>4 DEF Fresh, Entered

LEMMA SameSight ==
  ASSUME UNCHANGED stateOfUsers
  PROVE  RoomList' = RoomList /\ \A u \in Users : \A r : Info(u, r)' = Info(u, r)
BY DEF stateOfUsers, RoomList, Info

LEMMA AloneRoomJoin ==
  ASSUME RVTypes, Alone, NEW c \in Users, NEW r \in RoomIds, RoomJoin(c, r)
  PROVE  Alone'
<1>1. PICK h : h = [step |-> "join", user |-> c, to |-> r, from |-> room_id[c], moved |-> FALSE]
  OBVIOUS
<1>2. h \in JobType /\ h # NoJob
  <2>1. h \in JobType
    BY <1>1 DEF RVTypes, RVTypeOK, JobType, Moving, Place
  <2> QED
    BY <2>1, JobShapes
<1>3. /\ Begins(c) /\ Continue(c, h) /\ (entangled' => blurred' = Users)
      /\ UNCHANGED stateOfUsers
  BY <1>1 DEF RoomJoin
<1>4. Fresh(h)'
  BY <1>1, <1>3 DEF Fresh, Entered, stateOfUsers
<1> QED
  BY <1>2, <1>3, <1>4, AloneBegins

LEMMA AloneRoomLeave ==
  ASSUME RVTypes, Alone, NEW c \in Users, RoomLeave(c)
  PROVE  Alone'
<1>1. PICK h : h = [step |-> "left", user |-> c, to |-> Nowhere, from |-> current[c],
                    moved |-> FALSE]
  OBVIOUS
<1>2. h \in JobType /\ h # NoJob
  <2>1. h \in JobType
    BY <1>1 DEF RVTypes, RVTypeOK, JobType, Moving, Place
  <2> QED
    BY <2>1, JobShapes
<1>3. /\ Begins(c) /\ Continue(c, h) /\ (entangled' => blurred' = Users)
      /\ UNCHANGED stateOfUsers
      /\ room_id[c] = current[c] \/ blurred' = Users
  BY <1>1 DEF RoomLeave
<1>4. Fresh(h)'
  BY <1>1, <1>3 DEF Fresh, Entered, stateOfUsers
<1> QED
  BY <1>2, <1>3, <1>4, AloneBegins

LEMMA AloneAdminMove ==
  ASSUME RVTypes, Alone, NEW c \in Users, NEW u \in Users, NEW r \in RoomIds, AdminMove(c, u, r)
  PROVE  Alone'
<1>1. PICK h : h = [step |-> IF room_id[u] = Nowhere THEN "join" ELSE "left", user |-> u,
                    to |-> r, from |-> room_id[u], moved |-> TRUE]
  OBVIOUS
<1>2. h \in JobType /\ h # NoJob
  <2>1. h \in JobType
    BY <1>1 DEF RVTypes, RVTypeOK, JobType, Moving, Place
  <2> QED
    BY <2>1, JobShapes
<1>3. /\ Begins(c) /\ Continue(c, h) /\ (entangled' => blurred' = Users)
      /\ UNCHANGED stateOfUsers
  BY <1>1 DEF AdminMove
<1>4. Fresh(h)'
  BY <1>1, <1>3 DEF Fresh, Entered, stateOfUsers
<1> QED
  BY <1>2, <1>3, <1>4, AloneBegins

LEMMA AloneRoomUpdate ==
  ASSUME RVTypes, Alone, NEW c \in Users, RoomUpdate(c)
  PROVE  Alone'
<1>1. PICK h : h = [step |-> "lists", user |-> c, list |-> RoomList]
  OBVIOUS
<1>2. h \in JobType /\ h # NoJob
  BY <1>1, RoomListTypes, RoomViewAssumption DEF JobType, Listing
<1>3. /\ Begins(c) /\ Continue(c, h) /\ (entangled' => blurred' = Users)
      /\ UNCHANGED stateOfUsers
  BY <1>1 DEF RoomUpdate
<1>4. Fresh(h)'
  BY <1>1, <1>3, SameSight DEF Fresh, Entered
<1> QED
  BY <1>2, <1>3, <1>4, AloneBegins

LEMMA AloneSetsFlag ==
  ASSUME RVTypes, Alone, NEW c \in Users, NEW u \in Users, NEW told \in SUBSET BOOLEAN,
         SetsFlag(c, u, told), told = {} \/ told = {admin_muted'[u]}
  PROVE  Alone'
<1>1. PICK h : h = [step |-> "look_state", user |-> u, told |-> told]
  OBVIOUS
<1>2. h \in JobType /\ h # NoJob
  BY <1>1, RoomViewAssumption DEF JobType, Marking
<1>3. Begins(c) /\ Continue(c, h) /\ (entangled' => blurred' = Users)
  BY <1>1 DEF SetsFlag
<1>4. Fresh(h)'
  BY <1>1 DEF Fresh, Entered
<1> QED
  BY <1>2, <1>3, <1>4, AloneBegins

LEMMA AloneFlags ==
  ASSUME RVTypes, Alone, NEW c \in Users,
         \/ AudioMute(c) \/ AudioDeafen(c) \/ \E u \in Users, b \in BOOLEAN : AdminMute(c, u, b)
  PROVE  Alone'
<1>1. CASE AudioMute(c) \/ AudioDeafen(c)
  <2>1. PICK told \in SUBSET BOOLEAN : told = {}
    OBVIOUS
  <2>2. SetsFlag(c, c, told)
    BY <1>1, <2>1 DEF AudioMute, AudioDeafen
  <2> QED
    BY <2>1, <2>2, AloneSetsFlag
<1>2. CASE \E u \in Users, b \in BOOLEAN : AdminMute(c, u, b)
  <2>1. PICK u \in Users, b \in BOOLEAN : AdminMute(c, u, b)
    BY <1>2
  <2>2. PICK told \in SUBSET BOOLEAN : told = {b}
    OBVIOUS
  <2>3. SetsFlag(c, u, told) /\ admin_muted'[u] = b
    BY <2>1, <2>2 DEF AdminMute, RVTypes, RVTypeOK
  <2> QED
    BY <2>2, <2>3, AloneSetsFlag
<1> QED
  BY <1>1, <1>2

(* The step of a handler: its job h and what is so if it is alone. *)
LEMMA AtStep ==
  ASSUME RVTypes, Alone, NEW c \in Users, NEW s, Step(c, s), NEW h, h = handler[c]
  PROVE  /\ c \in Handling /\ h \in JobType /\ h.step = s /\ JobFits(c, h)
         /\ h.user \in Users /\ (Moves(h) => h \in Moving)
         /\ ~entangled => Fresh(h)
<1>1. c \in Handling /\ h \in JobType /\ h.step = s /\ JobFits(c, h)
  BY StepJob
<1>2. h.user \in Users /\ (Moves(h) => h \in Moving)
  BY <1>1, JobShapes
<1>3. ~entangled => Fresh(h)
  BY <1>1 DEF Alone
<1> QED
  BY <1>1, <1>2, <1>3

LEMMA AloneTellLeft ==
  ASSUME RVTypes, Alone, NEW c \in Users, TellLeft(c)
  PROVE  Alone'
<1>1. PICK h : h = handler[c]
  OBVIOUS
<1>2. PICK g : g = [h EXCEPT !.step = IF h.moved THEN "join"
                                      ELSE IF h.to = Nowhere THEN "leave" ELSE "look"]
  OBVIOUS
<1>3. /\ c \in Handling /\ h.step = "left" /\ h \in Moving /\ (~entangled => Fresh(h))
  BY <1>1, AtStep DEF TellLeft, Moves
<1>4. /\ g.user = h.user /\ g.to = h.to /\ g.from = h.from /\ g.moved = h.moved
      /\ h.moved \in BOOLEAN
      /\ h.moved => g.step = "join"
      /\ ~h.moved => g.step = IF h.to = Nowhere THEN "leave" ELSE "look"
  BY <1>2, <1>3 DEF Moving
<1>5. /\ Continue(c, g) /\ UNCHANGED <<stateOfUsers, entangled, blurred>>
  BY <1>1, <1>2 DEF TellLeft, excused
<1>6. ASSUME ~entangled PROVE Fresh(g)'
  <2>1. Fresh(h)
    BY <1>3, <1>6
  <2>2. h.moved => room_id'[g.user] = g.from
    BY <1>3, <1>4, <1>5, <2>1 DEF Fresh, stateOfUsers
  <2>3. ~h.moved /\ h.to # Nowhere => room_id'[g.user] = g.to
    BY <1>3, <1>4, <1>5, <2>1 DEF Fresh, Entered, stateOfUsers
  <2> QED
    BY <1>4, <2>2, <2>3 DEF Fresh, Entered
<1> QED
  BY <1>3, <1>5, <1>6, AloneGoesOn DEF Alone

LEMMA AloneLeaveRoom ==
  ASSUME RVTypes, Alone, NEW c \in Users, LeaveRoom(c)
  PROVE  Alone'
<1>1. /\ c \in Handling /\ Continue(c, NoJob) /\ UNCHANGED <<entangled, blurred>>
  BY DEF LeaveRoom, Step, Handling, excused
<1> QED
  BY <1>1, AloneGoesOn DEF Alone

LEMMA AloneEnterRoom ==
  ASSUME RVTypes, Alone, NEW c \in Users, EnterRoom(c)
  PROVE  Alone'
<1>1. PICK h : h = handler[c]
  OBVIOUS
<1>2. PICK g : g = [h EXCEPT !.step = CASE h.moved -> "notify"
                                        [] ~h.moved /\ h.from = h.to -> "list"
                                        [] ~h.moved /\ h.from = Nowhere -> "look"
                                        [] OTHER -> "left"]
  OBVIOUS
<1>3. /\ c \in Handling /\ h.step = "join" /\ h \in Moving /\ (~entangled => Fresh(h))
      /\ h.user \in Users /\ JobFits(c, h)
  BY <1>1, AtStep DEF EnterRoom, Moves
<1>4. /\ g.user = h.user /\ g.to = h.to /\ g.from = h.from /\ g.moved = h.moved
      /\ h.moved \in BOOLEAN /\ h.to # Nowhere
      /\ h.moved => g.step = "notify"
      /\ ~h.moved => g.step \in {"list", "look", "left"}
      /\ ~h.moved /\ g.step = "left" => h.from # h.to
  BY <1>2, <1>3, RoomViewAssumption DEF Moving, JobFits, Moves
<1>5. /\ Continue(c, g) /\ UNCHANGED entangled
      /\ room_id'[h.user] = h.to
      /\ blurred' = IF h.moved THEN blurred \cup {h.user} ELSE blurred
  BY <1>1, <1>2, <1>3 DEF EnterRoom, RVTypes, RVTypeOK
<1>6. ASSUME ~entangled PROVE Fresh(g)'
  BY <1>4, <1>5 DEF Fresh, Entered
<1>7. entangled => blurred' = Users
  BY <1>3, <1>5 DEF Alone
<1> QED
  BY <1>3, <1>5, <1>6, <1>7, AloneGoesOn

LEMMA AloneNotifyMoved ==
  ASSUME RVTypes, Alone, NEW c \in Users, NotifyMoved(c)
  PROVE  Alone'
<1>1. PICK h : h = handler[c]
  OBVIOUS
<1>2. PICK g : g = [h EXCEPT !.step = "look"]
  OBVIOUS
<1>3. /\ c \in Handling /\ h.step = "notify" /\ h \in Moving /\ (~entangled => Fresh(h))
  BY <1>1, AtStep DEF NotifyMoved, Moves
<1>4. /\ g.user = h.user /\ g.to = h.to /\ g.from = h.from /\ g.moved = h.moved
      /\ g.step = "look"
  BY <1>2, <1>3 DEF Moving
<1>5. Continue(c, g) /\ UNCHANGED <<stateOfUsers, entangled, blurred>>
  BY <1>1, <1>2 DEF NotifyMoved, excused
<1>6. ASSUME ~entangled PROVE Fresh(g)'
  <2>1. room_id'[g.user] = g.to /\ (g.moved => g.user \in blurred')
    BY <1>3, <1>4, <1>5, <1>6 DEF Fresh, stateOfUsers
  <2> QED
    BY <1>4, <2>1 DEF Fresh, Entered
<1> QED
  BY <1>3, <1>5, <1>6, AloneGoesOn DEF Alone

LEMMA AloneLookJoined ==
  ASSUME RVTypes, Alone, NEW c \in Users, LookJoined(c)
  PROVE  Alone'
<1>1. PICK h : h = handler[c]
  OBVIOUS
<1>2. PICK g : g = [step |-> "joined", user |-> h.user, moved |-> h.moved,
                    info |-> Info(h.user, h.to)]
  OBVIOUS
<1>3. /\ c \in Handling /\ h.step = "look" /\ h \in Moving /\ (~entangled => Fresh(h))
      /\ h.user \in Users
  BY <1>1, AtStep DEF LookJoined, Moves
<1>4. Continue(c, g) /\ UNCHANGED <<stateOfUsers, entangled, blurred>>
  BY <1>1, <1>2 DEF LookJoined, excused
<1>5. ASSUME ~entangled PROVE Fresh(g)'
  <2>1. room_id[h.user] = h.to /\ (h.moved => h.user \in blurred)
    BY <1>3, <1>5 DEF Fresh
  <2>2. g.info = Info(g.user, room_id[g.user])
    BY <1>2, <2>1
  <2>3. g.info = Info(g.user, room_id[g.user])'
    BY <1>4, <2>2 DEF Info, stateOfUsers
  <2> QED
    BY <1>2, <1>4, <2>1, <2>3 DEF Fresh, Entered
<1> QED
  BY <1>3, <1>4, <1>5, AloneGoesOn DEF Alone

LEMMA AloneTellJoined ==
  ASSUME RVTypes, Alone, NEW c \in Users, TellJoined(c)
  PROVE  Alone'
<1>1. PICK g : g = IF handler[c].moved THEN NoJob ELSE [step |-> "list", user |-> c]
  OBVIOUS
<1>2. c \in Handling /\ Continue(c, g) /\ UNCHANGED <<entangled, blurred>>
  BY <1>1 DEF TellJoined, Step, Handling, excused
<1>3. g # NoJob => Fresh(g)'
  BY <1>1 DEF Fresh, Entered
<1> QED
  BY <1>2, <1>3, AloneGoesOn DEF Alone

LEMMA AloneLists ==
  ASSUME RVTypes, Alone, NEW c \in Users, SendList(c) \/ BroadcastRoomList(c) \/ TellState(c)
  PROVE  Alone'
<1>1. /\ c \in Handling /\ Continue(c, NoJob) /\ UNCHANGED entangled
      /\ entangled => blurred' = blurred
  BY DEF SendList, BroadcastRoomList, TellState, Step, Handling, excused
<1> QED
  BY <1>1, AloneGoesOn DEF Alone

LEMMA AloneLookState ==
  ASSUME RVTypes, Alone, NEW c \in Users, LookState(c)
  PROVE  Alone'
<1>1. PICK h : h = handler[c]
  OBVIOUS
<1>2. PICK u : u = h.user
  OBVIOUS
<1>3. PICK x : x = [Info(u, room_id[u]) EXCEPT !.muted = Silenced(u, h.told)]
  OBVIOUS
<1>4. PICK g : g = IF room_id[u] = Nowhere THEN NoJob
                   ELSE [step |-> "state", user |-> u, info |-> x]
  OBVIOUS
<1>5. /\ c \in Handling /\ h.step = "look_state" /\ (~entangled => Fresh(h)) /\ u \in Users
  BY <1>1, <1>2, AtStep DEF LookState
<1>6. Continue(c, g) /\ UNCHANGED <<stateOfUsers, entangled, blurred>>
  BY <1>1, <1>2, <1>3, <1>4 DEF LookState, excused
<1>7. ASSUME ~entangled, g # NoJob PROVE Fresh(g)'
  <2>1. h.told = {} \/ h.told = {admin_muted[u]}
    BY <1>2, <1>5, <1>7 DEF Fresh
  <2>2. Silenced(u, h.told) = (muted[u] \/ admin_muted[u])
    <3>1. muted[u] \in BOOLEAN /\ admin_muted[u] \in BOOLEAN
      BY <1>5 DEF RVTypes, RVTypeOK
    <3> QED
      BY <2>1, <3>1 DEF Silenced
  <2>3. x = Info(u, room_id[u])
    BY <1>3, <2>2 DEF Info
  <2>4. x = Info(u, room_id[u])'
    BY <1>6, <2>3 DEF Info, stateOfUsers
  <2>5. g.step = "state" /\ g.user = u /\ g.info = x
    BY <1>4, <1>7
  <2> QED
    BY <2>4, <2>5 DEF Fresh, Entered
<1> QED
  BY <1>5, <1>6, <1>7, AloneGoesOn DEF Alone

LEMMA AloneClients ==
  ASSUME RVTypes, Alone, NEW c \in Users, NetworkTask(c) \/ HandleMessage(c)
  PROVE  Alone'
<1>1. UNCHANGED <<stateOfUsers, handler, entangled>> /\ blurred \subseteq blurred'
  BY DEF NetworkTask, HandleMessage, excused
<1>2. blurred' \subseteq Users
  BY NetworkTaskTypes, HandleMessageTypes DEF RVTypes, RVTypeOK
<1>3. Handling' = Handling
  BY <1>1 DEF Handling
<1>4. ASSUME ~entangled, NEW d \in Handling PROVE Fresh(handler[d])'
  <2>1. PICK h : h = handler[d]
    OBVIOUS
  <2>2. Fresh(h) /\ h \in JobType
    BY <1>4, <2>1 DEF Alone, RVTypes, RVTypeOK, Handling
  <2>3. h.user \in Users
    BY <2>2, JobShapes
  <2>4. \A r : Info(h.user, r)' = Info(h.user, r)
    BY <1>1, <2>3, SameSight
  <2>5. RoomList' = RoomList /\ room_id' = room_id /\ admin_muted' = admin_muted
    BY <1>1, SameSight DEF stateOfUsers
  <2>6. Info(h.user, room_id[h.user])' = Info(h.user, room_id[h.user])
    BY <1>1 DEF Info, stateOfUsers
  <2>7. Fresh(h)'
    BY <1>1, <1>2, <2>2, <2>5, <2>6 DEF Fresh, Entered
  <2> QED
    BY <1>1, <2>1, <2>7
<1>5. (entangled => blurred = Users) /\ (~entangled => \A d, e \in Handling : d = e)
  BY DEF Alone
<1> QED
  BY <1>1, <1>2, <1>3, <1>4, <1>5 DEF Alone

----------------------------------------------------------------------------
(* Who is shown in the end *)

Entries(W, v, r) == {s \in W : s.user = v /\ s.room = r}

Truth(v, r) == IF room_id[v] = r THEN {Info(v, r)} ELSE {}

(* What the rooms have still to be told of the user of h: that it left, or     *)
(* that it came.                                                               *)
Untold(h) == h.step \in {"leave", "notify", "look", "joined"} \/ (h.step = "join" /\ h.moved)

Marks(h) == h.step \in {"look_state", "state"}

(* Whose own room is being changed gets a list later, or is told of none. *)
Waits(o, h) == h # NoJob /\ h.user = o /\ h.step \notin {"look_state", "state", "lists"}

(* What o will show of v in its own room, beside a handler with the job h. *)
Shows(o, v, E, h) ==
  /\ h = NoJob \/ h.user # v => E = Truth(v, room_id[o])
  /\ h # NoJob /\ h.user = v =>
       /\ Untold(h) => E = {}
       /\ Entered(h) /\ room_id[o] # h.from => E = {}
       /\ Marks(h) => /\ room_id[v] = room_id[o] => \E s \in Shown : E = {s}
                      /\ room_id[v] # room_id[o] => E = {}
       /\ ~Untold(h) /\ ~Entered(h) /\ ~Marks(h) => E = Truth(v, room_id[o])

Fits(o, W, h) ==
  room_id[o] # Nowhere /\ ~Waits(o, h) =>
    \A v \in Users : Shows(o, v, Entries(W, v, room_id[o]), h)

ViewsFit == \A o \in Users \ blurred : \A W \in Prospects(o) : Fits(o, W, TheJob)

LEMMA EntriesLeft ==
  ASSUME NEW X \in SUBSET Shown, NEW m, m.kind = "left", NEW v, NEW r
  PROVE  Entries(After(Wire, X, m), v, r) =
           IF m.user = v /\ m.room = r THEN {} ELSE Entries(X, v, r)
<1>1. After(Wire, X, m) = {s \in X : s.user # m.user \/ s.room # m.room}
  BY DEF After, Wire, Applied
<1> QED
  BY <1>1 DEF Entries

LEMMA EntriesJoined ==
  ASSUME NEW X \in SUBSET Shown, NEW m, m.kind = "joined", NEW v, NEW r
  PROVE  Entries(After(Wire, X, m), v, r) =
           IF m.info.user = v /\ m.info.room = r THEN {m.info} ELSE Entries(X, v, r)
<1>1. After(Wire, X, m) =
        {s \in X : s.user # m.info.user \/ s.room # m.info.room} \cup {m.info}
  BY DEF After, Wire, Applied, WithNews
<1> QED
  BY <1>1 DEF Entries

LEMMA EntriesState ==
  ASSUME NEW X \in SUBSET Shown, NEW m, m.kind = "state", m.info \in Shown, NEW v, NEW r
  PROVE  /\ m.info.user # v => Entries(After(Wire, X, m), v, r) = Entries(X, v, r)
         /\ Entries(X, v, r) = {} => Entries(After(Wire, X, m), v, r) = {}
         /\ (\E s \in Shown : Entries(X, v, r) = {s}) /\ m.info.user = v /\ m.info.room = r =>
              Entries(After(Wire, X, m), v, r) = {m.info}
<1> DEFINE f(s) == IF s.user = m.info.user
                   THEN [s EXCEPT !.muted = m.info.muted, !.deafened = m.info.deafened] ELSE s
<1>1. After(Wire, X, m) = {f(s) : s \in X}
  BY DEF After, Wire, Applied
<1>2. ASSUME NEW s \in X
      PROVE  /\ f(s).user = s.user /\ f(s).room = s.room
             /\ s.user # m.info.user => f(s) = s
             /\ s.user = m.info.user /\ s.room = m.info.room => f(s) = m.info
  BY DEF Shown
<1> HIDE DEF f
<1>3. Entries(After(Wire, X, m), v, r) = {f(s) : s \in Entries(X, v, r)}
  BY <1>1, <1>2 DEF Entries
<1>4. ASSUME m.info.user # v PROVE {f(s) : s \in Entries(X, v, r)} = Entries(X, v, r)
  BY <1>2, <1>4 DEF Entries
<1>5. ASSUME NEW s \in Shown, Entries(X, v, r) = {s}, m.info.user = v, m.info.room = r
      PROVE  {f(x) : x \in Entries(X, v, r)} = {m.info}
  <2>1. s \in X /\ s.user = v /\ s.room = r
    BY <1>5 DEF Entries
  <2>2. f(s) = m.info
    BY <1>2, <1>5, <2>1
  <2> QED
    BY <1>5, <2>2
<1> QED
  BY <1>3, <1>4, <1>5

LEMMA EntriesMoved ==
  ASSUME NEW X, NEW m, m.kind = "moved"
  PROVE  After(Wire, X, m) = X
BY DEF After, Wire, Applied

LEMMA EntriesOfList ==
  ASSUME NEW v \in Users, NEW r, r # Nowhere
  PROVE  Entries(RoomList, v, r) = Truth(v, r)
BY DEF Entries, RoomList, Truth, Info

LEMMA TruthSame ==
  ASSUME NEW v \in Users, room_id'[v] = room_id[v], muted'[v] = muted[v],
         admin_muted'[v] = admin_muted[v], deafened'[v] = deafened[v]
  PROVE  \A r : Truth(v, r)' = Truth(v, r)
BY DEF Truth, Info

LEMMA FitsNow ==
  ASSUME RVTypes, Alone, ViewsFit, NEW c \in Handling, ~entangled, NEW o \in Users,
         o \notin blurred, NEW X \in Prospects(o), NEW h, h = handler[c]
  PROVE  Fits(o, X, h)
<1>1. Handling = {c}
  BY DEF Alone
<1>2. TheJob = h
  BY <1>1 DEF TheJob
<1> QED
  BY <1>2 DEF ViewsFit

LEMMA FitsNext ==
  ASSUME RVTypes, Alone, NEW c \in Handling, NEW g, Continue(c, g), UNCHANGED entangled,
         entangled => blurred' = Users,
         ~entangled => \A o \in Users \ blurred' : \A W \in Prospects(o)' : Fits(o, W, g)'
  PROVE  ViewsFit'
<1>1. ASSUME NEW o \in Users, o \notin blurred', NEW W \in Prospects(o)'
      PROVE  Fits(o, W, TheJob)'
  <2>1. ~entangled /\ c \in Users
    BY <1>1 DEF Handling
  <2>2. TheJob' = g
    BY <2>1, TheJobGoesOn
  <2>3. Fits(o, W, g)'
    BY <1>1, <2>1
  <2> QED
    BY <2>2, <2>3
<1> QED
  BY <1>1 DEF ViewsFit

LEMMA FitsBegins ==
  ASSUME RVTypes, Alone, ViewsFit, NEW c \in Users, NEW h \in JobType, Begins(c),
         Continue(c, h), blurred' \in {Users, blurred}, entangled' => blurred' = Users,
         UNCHANGED <<room_id, wire, ui_queue, view>>,
         \A o, v \in Users : \A E :
           /\ room_id[o] # Nowhere /\ ~Waits(o, h) /\ o \notin blurred'
           /\ E = Truth(v, room_id[o])
           => Shows(o, v, E, h)'
  PROVE  ViewsFit'
<1>1. h # NoJob
  BY JobShapes
<1> SUFFICES ASSUME NEW o \in Users, o \notin blurred', NEW W \in Prospects(o)'
             PROVE  Fits(o, W, TheJob)'
  BY DEF ViewsFit
<1>2. ~entangled' /\ o \notin blurred
  OBVIOUS
<1>3. TheJob = NoJob /\ TheJob' = h
  BY <1>1, <1>2, TheJobBegins
<1>4. W \in Prospects(o)
  BY ProspectsSame
<1>5. Fits(o, W, NoJob)
  BY <1>2, <1>3, <1>4 DEF ViewsFit
<1>6. ASSUME room_id'[o] # Nowhere, ~Waits(o, h), NEW v \in Users
      PROVE  Shows(o, v, Entries(W, v, room_id[o]), h)'
  <2>1. PICK E : E = Entries(W, v, room_id[o])
    OBVIOUS
  <2>2. room_id[o] # Nowhere /\ ~Waits(o, NoJob)
    BY <1>6 DEF Waits
  <2>3. E = Truth(v, room_id[o])
    BY <1>5, <2>1, <2>2 DEF Fits, Shows
  <2>4. Shows(o, v, E, h)'
    BY <1>2, <1>6, <2>2, <2>3
  <2>5. E = Entries(W, v, room_id[o])'
    BY <2>1 DEF Entries
  <2> QED
    BY <2>4, <2>5
<1>7. Fits(o, W, h)'
  BY <1>6 DEF Fits, Waits
<1> QED
  BY <1>3, <1>7

LEMMA AloneInit == RVInit => Alone
<1> SUFFICES ASSUME RVInit PROVE Alone
  OBVIOUS
<1>1. Handling = {} /\ ~entangled
  BY DEF RVInit, Handling
<1> QED
  BY <1>1 DEF Alone

LEMMA AloneStep == RVTypes /\ Alone /\ [RVNext]_rvVars => Alone'
<1> SUFFICES ASSUME RVTypes, Alone, [RVNext]_rvVars PROVE Alone'
  OBVIOUS
<1>1. CASE UNCHANGED rvVars
  <2>1. /\ UNCHANGED <<handler, entangled, blurred, stateOfUsers, room_id, muted, admin_muted,
                       deafened>>
    BY <1>1 DEF rvVars, stateOfUsers, excused
  <2> QED
    BY <2>1 DEF Alone, Handling, Fresh, Entered, RoomList, Info
<1>2. CASE RVNext
  <2>1. PICK c \in Users :
          \/ RoomLeave(c) \/ RoomUpdate(c)
          \/ \E r \in RoomIds : RoomJoin(c, r) \/ \E u \in Users : AdminMove(c, u, r)
          \/ AudioMute(c) \/ AudioDeafen(c)
          \/ \E u \in Users, b \in BOOLEAN : AdminMute(c, u, b)
          \/ TellLeft(c) \/ LeaveRoom(c) \/ EnterRoom(c) \/ NotifyMoved(c) \/ LookJoined(c)
          \/ TellJoined(c) \/ SendList(c) \/ BroadcastRoomList(c) \/ LookState(c) \/ TellState(c)
          \/ NetworkTask(c) \/ HandleMessage(c)
    BY <1>2 DEF RVNext
  <2> QED
    BY <2>1, AloneRoomLeave, AloneRoomUpdate, AloneRoomJoin, AloneAdminMove, AloneFlags,
       AloneTellLeft, AloneLeaveRoom, AloneEnterRoom, AloneNotifyMoved, AloneLookJoined,
       AloneTellJoined, AloneLists, AloneLookState, AloneClients
<1> QED
  BY <1>1, <1>2

(* A request that changes no user yet: what is shown is as it was. *)
LEMMA FitsAsks ==
  ASSUME RVTypes, Alone, ViewsFit, NEW c \in Users, NEW h \in JobType, Begins(c),
         Continue(c, h), blurred' \in {Users, blurred}, entangled' => blurred' = Users,
         UNCHANGED <<stateOfUsers, wire, ui_queue, view>>,
         ~Marks(h), ~Entered(h), Untold(h) => room_id[h.user] = Nowhere
  PROVE  ViewsFit'
<1>1. /\ room_id' = room_id /\ UNCHANGED <<room_id, wire, ui_queue, view>>
      /\ \A v \in Users : \A r : Truth(v, r)' = Truth(v, r)
  BY TruthSame DEF stateOfUsers
<1>2. ASSUME NEW o \in Users, NEW v \in Users, NEW E, room_id[o] # Nowhere, ~Waits(o, h),
             E = Truth(v, room_id[o])
      PROVE  Shows(o, v, E, h)'
  <2>1. PICK r : r = room_id[o]
    OBVIOUS
  <2>2. E = Truth(v, r)' /\ room_id'[o] = r
    BY <1>1, <1>2, <2>1
  <2>3. h.user = v /\ Untold(h) => E = {}
    BY <1>2 DEF Truth
  <2> QED
    BY <2>2, <2>3 DEF Shows
<1> QED
  BY <1>1, <1>2, FitsBegins

LEMMA FitsRequests ==
  ASSUME RVTypes, Alone, ViewsFit, NEW c \in Users,
         \/ RoomLeave(c) \/ RoomUpdate(c)
         \/ \E r \in RoomIds : RoomJoin(c, r) \/ \E u \in Users : AdminMove(c, u, r)
  PROVE  ViewsFit'
<1>1. CASE RoomLeave(c)
  <2>1. PICK h : h = [step |-> "left", user |-> c, to |-> Nowhere, from |-> current[c],
                      moved |-> FALSE]
    OBVIOUS
  <2>2. h \in JobType
    BY <2>1 DEF RVTypes, RVTypeOK, JobType, Moving, Place
  <2>3. /\ Begins(c) /\ Continue(c, h) /\ (entangled' => blurred' = Users)
        /\ UNCHANGED <<stateOfUsers, wire, ui_queue, view>> /\ blurred' \in {Users, blurred}
    BY <1>1, <2>1 DEF RoomLeave
  <2>4. ~Marks(h) /\ ~Entered(h) /\ ~Untold(h)
    BY <2>1 DEF Marks, Entered, Untold
  <2> QED
    BY <2>2, <2>3, <2>4, FitsAsks
<1>2. CASE RoomUpdate(c)
  <2>1. PICK h : h = [step |-> "lists", user |-> c, list |-> RoomList]
    OBVIOUS
  <2>2. h \in JobType
    BY <2>1, RoomListTypes DEF JobType, Listing
  <2>3. /\ Begins(c) /\ Continue(c, h) /\ (entangled' => blurred' = Users)
        /\ UNCHANGED <<stateOfUsers, wire, ui_queue, view>> /\ blurred' \in {Users, blurred}
    BY <1>2, <2>1 DEF RoomUpdate
  <2>4. ~Marks(h) /\ ~Entered(h) /\ ~Untold(h)
    BY <2>1 DEF Marks, Entered, Untold
  <2> QED
    BY <2>2, <2>3, <2>4, FitsAsks
<1>3. ASSUME NEW r \in RoomIds, RoomJoin(c, r) PROVE ViewsFit'
  <2>1. PICK h : h = [step |-> "join", user |-> c, to |-> r, from |-> room_id[c],
                      moved |-> FALSE]
    OBVIOUS
  <2>2. h \in JobType
    BY <2>1 DEF RVTypes, RVTypeOK, JobType, Moving, Place
  <2>3. /\ Begins(c) /\ Continue(c, h) /\ (entangled' => blurred' = Users)
        /\ UNCHANGED <<stateOfUsers, wire, ui_queue, view>> /\ blurred' \in {Users, blurred}
    BY <1>3, <2>1 DEF RoomJoin
  <2>4. ~Marks(h) /\ ~Entered(h) /\ ~Untold(h)
    BY <2>1 DEF Marks, Entered, Untold
  <2> QED
    BY <2>2, <2>3, <2>4, FitsAsks
<1>4. ASSUME NEW r \in RoomIds, NEW u \in Users, AdminMove(c, u, r) PROVE ViewsFit'
  <2>1. PICK h : h = [step |-> IF room_id[u] = Nowhere THEN "join" ELSE "left", user |-> u,
                      to |-> r, from |-> room_id[u], moved |-> TRUE]
    OBVIOUS
  <2>2. h \in JobType
    BY <2>1 DEF RVTypes, RVTypeOK, JobType, Moving, Place
  <2>3. /\ Begins(c) /\ Continue(c, h) /\ (entangled' => blurred' = Users)
        /\ UNCHANGED <<stateOfUsers, wire, ui_queue, view>> /\ blurred' \in {Users, blurred}
    BY <1>4, <2>1 DEF AdminMove
  <2>4. ~Marks(h) /\ ~Entered(h) /\ (Untold(h) => room_id[h.user] = Nowhere)
    BY <2>1 DEF Marks, Entered, Untold
  <2> QED
    BY <2>2, <2>3, <2>4, FitsAsks
<1> QED
  BY <1>1, <1>2, <1>3, <1>4

(* A flag is set: of its user no more is sure than where it is. *)
LEMMA FitsSetsFlag ==
  ASSUME RVTypes, Alone, ViewsFit, NEW c \in Users, NEW u \in Users,
         NEW told \in SUBSET BOOLEAN, SetsFlag(c, u, told),
         \A v \in Users \ {u} : /\ muted'[v] = muted[v] /\ admin_muted'[v] = admin_muted[v]
                                /\ deafened'[v] = deafened[v]
  PROVE  ViewsFit'
<1>1. PICK h : h = [step |-> "look_state", user |-> u, told |-> told]
  OBVIOUS
<1>2. h \in JobType
  BY <1>1 DEF JobType, Marking
<1>3. /\ Begins(c) /\ Continue(c, h) /\ (entangled' => blurred' = Users)
      /\ UNCHANGED <<room_id, wire, ui_queue, view>> /\ blurred' \in {Users, blurred}
  BY <1>1 DEF SetsFlag
<1>4. Marks(h) /\ ~Entered(h) /\ ~Untold(h) /\ h.user = u /\ h # NoJob
  BY <1>1, <1>2, JobShapes DEF Marks, Entered, Untold
<1>5. ASSUME NEW o \in Users, NEW v \in Users, NEW E, room_id[o] # Nowhere, ~Waits(o, h),
             E = Truth(v, room_id[o])
      PROVE  Shows(o, v, E, h)'
  <2>1. PICK r : r = room_id[o]
    OBVIOUS
  <2>2. room_id'[o] = r /\ room_id'[v] = room_id[v] /\ r \in RoomIds
    BY <1>3, <1>5, <2>1 DEF RVTypes, RVTypeOK, Place
  <2>3. CASE v = u
    <3>1. room_id[v] = r => \E s \in Shown : E = {s}
      BY <1>5, <2>1, <2>2, InfoTypes DEF Truth
    <3>2. room_id[v] # r => E = {}
      BY <1>5, <2>1 DEF Truth
    <3> QED
      BY <1>4, <2>2, <2>3, <3>1, <3>2 DEF Shows
  <2>4. CASE v # u
    <3>1. E = Truth(v, r)'
      BY <1>3, <1>5, <2>1, <2>2, <2>4, TruthSame
    <3> QED
      BY <1>4, <2>2, <2>4, <3>1 DEF Shows
  <2> QED
    BY <2>3, <2>4
<1> QED
  BY <1>2, <1>3, <1>5, FitsBegins

LEMMA FitsFlags ==
  ASSUME RVTypes, Alone, ViewsFit, NEW c \in Users,
         \/ AudioMute(c) \/ AudioDeafen(c) \/ \E u \in Users, b \in BOOLEAN : AdminMute(c, u, b)
  PROVE  ViewsFit'
<1>1. CASE AudioMute(c) \/ AudioDeafen(c)
  <2>1. PICK told \in SUBSET BOOLEAN : told = {}
    OBVIOUS
  <2>2. SetsFlag(c, c, told)
    BY <1>1, <2>1 DEF AudioMute, AudioDeafen
  <2>3. \A v \in Users \ {c} : /\ muted'[v] = muted[v] /\ admin_muted'[v] = admin_muted[v]
                               /\ deafened'[v] = deafened[v]
    BY <1>1 DEF AudioMute, AudioDeafen, RVTypes, RVTypeOK
  <2> QED
    BY <2>2, <2>3, FitsSetsFlag
<1>2. CASE \E u \in Users, b \in BOOLEAN : AdminMute(c, u, b)
  <2>1. PICK u \in Users, b \in BOOLEAN : AdminMute(c, u, b)
    BY <1>2
  <2>2. PICK told \in SUBSET BOOLEAN : told = {b}
    OBVIOUS
  <2>3. SetsFlag(c, u, told)
    BY <2>1, <2>2 DEF AdminMute
  <2>4. \A v \in Users \ {u} : /\ muted'[v] = muted[v] /\ admin_muted'[v] = admin_muted[v]
                               /\ deafened'[v] = deafened[v]
    BY <2>1 DEF AdminMute, RVTypes, RVTypeOK
  <2> QED
    BY <2>3, <2>4, FitsSetsFlag
<1> QED
  BY <1>1, <1>2

(* A message to the room r: it comes after all else that o is still to be told. *)
LEMMA ProspectsTold ==
  ASSUME RVTypes, NEW r, NEW m \in RoomMessage, NEW Except, ToRoom(r, m, Except),
         UNCHANGED <<ui_queue, view>>, NEW o \in Users, NEW W \in Prospects(o)'
  PROVE  \E X \in Prospects(o) :
           W = IF room_id[o] = r /\ r # Nowhere /\ o \notin Except THEN After(Wire, X, m) ELSE X
<1>1. view'[o] = view[o] /\ ui_queue'[o] = ui_queue[o]
  OBVIOUS
<1>2. CASE room_id[o] = r /\ r # Nowhere /\ o \notin Except
  <2>1. wire'[o] = Append(wire[o], m)
    BY <1>2 DEF ToRoom
  <2> QED
    BY <1>1, <1>2, <2>1, ProspectsAppend
<1>3. CASE ~(room_id[o] = r /\ r # Nowhere /\ o \notin Except)
  <2>1. wire'[o] = wire[o]
    BY <1>3 DEF ToRoom
  <2>2. W \in Prospects(o)
    BY <1>1, <2>1, ProspectsSame
  <2> QED
    BY <1>3, <2>2
<1> QED
  BY <1>2, <1>3

(* Of whom no request is about, nothing changes. *)
LEMMA ShowsOthers ==
  ASSUME NEW o \in Users, NEW v \in Users, NEW E, NEW h, NEW g, Shows(o, v, E, h),
         h = NoJob \/ h.user # v, g = NoJob \/ g.user # v,
         room_id'[o] = room_id[o], \A r : Truth(v, r)' = Truth(v, r)
  PROVE  Shows(o, v, E, g)'
<1>1. PICK r : r = room_id[o]
  OBVIOUS
<1>2. E = Truth(v, r)' /\ room_id'[o] = r
  BY <1>1 DEF Shows
<1> QED
  BY <1>2 DEF Shows

(* A user that is shown nowhere and is still to be told of. *)
LEMMA ShowsNone ==
  ASSUME NEW o \in Users, NEW v \in Users, NEW g \in JobType, Untold(g), g.user = v
  PROVE  Shows(o, v, {}, g)'
<1>1. g # NoJob /\ ~Marks(g)
  BY JobShapes DEF Marks, Untold
<1> QED
  BY <1>1 DEF Shows

LEMMA FitsTellLeft ==
  ASSUME RVTypes, Alone, ViewsFit, NEW c \in Users, TellLeft(c)
  PROVE  ViewsFit'
<1>1. PICK h : h = handler[c]
  OBVIOUS
<1>2. PICK g : g = [h EXCEPT !.step = IF h.moved THEN "join"
                                      ELSE IF h.to = Nowhere THEN "leave" ELSE "look"]
  OBVIOUS
<1>3. PICK m : m = [kind |-> "left", user |-> h.user, room |-> h.from]
  OBVIOUS
<1>4. /\ c \in Handling /\ h.step = "left" /\ h \in Moving /\ (~entangled => Fresh(h))
      /\ h.user \in Users /\ JobFits(c, h) /\ h.from \in RoomIds /\ h.from # Nowhere
  BY <1>1, AtStep, RoomViewAssumption DEF TellLeft, Moves, JobFits
<1>5. /\ g.user = h.user /\ g.to = h.to /\ g.from = h.from /\ g.moved = h.moved
      /\ h.moved \in BOOLEAN
      /\ h.moved => g.step = "join"
      /\ ~h.moved => g.step = IF h.to = Nowhere THEN "leave" ELSE "look"
      /\ g \in Moving
  BY <1>2, <1>4 DEF Moving
<1>6. g \in JobType /\ g # NoJob /\ Untold(g)
  <2>1. g \in JobType
    BY <1>5 DEF JobType
  <2> QED
    BY <1>5, <2>1, JobShapes DEF Untold
<1>7. PICK X, q : X = {h.user} /\ q = h.from
  OBVIOUS
<1>8. /\ Continue(c, g) /\ ToRoom(q, m, X)
      /\ UNCHANGED <<stateOfUsers, ui_queue, view, entangled, blurred, room_id>>
  BY <1>1, <1>2, <1>3, <1>7 DEF TellLeft, excused, stateOfUsers
<1>9. m \in RoomMessage /\ m.kind = "left" /\ m.user = h.user /\ m.room = h.from
  BY <1>3, <1>4 DEF RoomMessage
<1>10. \A v \in Users : \A r : Truth(v, r)' = Truth(v, r)
  BY <1>8, TruthSame DEF stateOfUsers
<1>11. ASSUME ~entangled, NEW o \in Users, o \notin blurred', NEW W \in Prospects(o)',
              room_id[o] # Nowhere, ~Waits(o, g), NEW v \in Users
       PROVE  Shows(o, v, Entries(W, v, room_id[o]), g)'
  <2>1. PICK r : r = room_id[o]
    OBVIOUS
  <2>2. o # h.user /\ ~Waits(o, h) /\ o \notin blurred /\ Fresh(h)
    BY <1>4, <1>5, <1>6, <1>8, <1>11 DEF Waits, Untold
  <2>3. PICK Y \in Prospects(o) :
          W = IF room_id[o] = q /\ q # Nowhere /\ o \notin X THEN After(Wire, Y, m) ELSE Y
    <3>1. m \in RoomMessage
      BY <1>9
    <3>2. ToRoom(q, m, X)
      BY <1>8
    <3>3. UNCHANGED <<ui_queue, view>>
      BY <1>8
    <3> QED
      BY <3>1, <3>2, <3>3, ProspectsTold
  <2>4. W = IF r = h.from THEN After(Wire, Y, m) ELSE Y
    BY <1>4, <1>7, <2>1, <2>2, <2>3
  <2>5. Fits(o, Y, h)
    BY <1>1, <1>4, <1>11, <2>2, FitsNow
  <2>6. Shows(o, v, Entries(Y, v, r), h)
    BY <1>11, <2>1, <2>2, <2>5 DEF Fits
  <2>7. Entries(W, v, r) = IF r = h.from /\ v = h.user THEN {} ELSE Entries(Y, v, r)
    BY <1>9, <2>4, EntriesLeft DEF Prospects
  <2>8. room_id'[o] = r
    BY <1>8, <2>1
  <2>9. CASE v # h.user
    <3>1. Shows(o, v, Entries(W, v, r), h)
      BY <2>6, <2>7, <2>9
    <3>2. Shows(o, v, Entries(W, v, r), g)'
      BY <1>5, <1>10, <2>1, <2>8, <2>9, <3>1, ShowsOthers
    <3>3. Entries(W, v, r) = Entries(W, v, room_id[o])'
      BY <2>8 DEF Entries
    <3> QED
      BY <3>2, <3>3
  <2>10. CASE v = h.user
    <3>1. Entries(W, v, r) = {}
      <4>1. CASE r = h.from
        BY <2>7, <2>10, <4>1
      <4>2. CASE r # h.from /\ Entered(h)
        BY <1>4, <2>1, <2>6, <2>7, <2>10, <4>2, JobShapes DEF Shows, JobType
      <4>3. CASE r # h.from /\ ~Entered(h)
        <5>1. room_id[h.user] = h.from
          BY <1>4, <1>5, <2>2, <4>3, <1>11 DEF Fresh, Entered
        <5>2. h # NoJob /\ ~Untold(h) /\ ~Marks(h)
          BY <1>4, JobShapes DEF JobType, Untold, Marks
        <5>3. Entries(Y, v, r) = Truth(v, r)
          BY <2>1, <2>6, <2>10, <4>3, <5>2 DEF Shows
        <5> QED
          BY <2>7, <2>10, <4>3, <5>1, <5>3 DEF Truth
      <4> QED
        BY <4>1, <4>2, <4>3
    <3>2. Entries(W, v, r) = Entries(W, v, room_id[o])'
      BY <2>8 DEF Entries
    <3>3. Shows(o, v, {}, g)'
      BY <1>5, <1>6, <2>10, ShowsNone
    <3> QED
      BY <3>1, <3>2, <3>3
  <2> QED
    BY <2>9, <2>10
<1>12. ~entangled => \A o \in Users \ blurred' : \A W \in Prospects(o)' : Fits(o, W, g)'
  BY <1>8, <1>11 DEF Fits, Waits
<1> QED
  BY <1>4, <1>8, <1>12, FitsNext DEF Alone

(* What o shows of v is the same after a step that leaves the room of o. *)
LEMMA EntriesKept ==
  ASSUME NEW o \in Users, NEW W, NEW v, NEW r, r = room_id[o], room_id'[o] = r
  PROVE  Entries(W, v, room_id[o])' = Entries(W, v, r)
BY DEF Entries

(* A handler that tells nobody but the user it is about, nor changes any. *)
LEMMA FitsSilent ==
  ASSUME RVTypes, Alone, ViewsFit, NEW c \in Handling, NEW h, h = handler[c], NEW g,
         Continue(c, g), UNCHANGED <<stateOfUsers, ui_queue, view, entangled, blurred>>,
         g # NoJob => g \in JobType /\ g.user = h.user,
         \A o \in Users : ~Waits(o, g) => wire'[o] = wire[o] /\ ~Waits(o, h),
         \A o \in Users : \A E :
           /\ room_id[o] # Nowhere /\ ~Waits(o, g) /\ ~entangled
           /\ Shows(o, h.user, E, h)
           => Shows(o, h.user, E, g)'
  PROVE  ViewsFit'
<1>1. \A v \in Users : \A r : Truth(v, r)' = Truth(v, r)
  BY TruthSame DEF stateOfUsers
<1>2. ASSUME ~entangled, NEW o \in Users, o \notin blurred', NEW W \in Prospects(o)',
             room_id[o] # Nowhere, ~Waits(o, g), NEW v \in Users
      PROVE  Shows(o, v, Entries(W, v, room_id[o]), g)'
  <2>1. PICK r, E : r = room_id[o] /\ E = Entries(W, v, r)
    OBVIOUS
  <2>2. room_id'[o] = r
    BY <2>1 DEF stateOfUsers
  <2>3. W \in Prospects(o)
    BY <1>2, ProspectsSame
  <2>4. Fits(o, W, h)
    BY <1>2, <2>3, FitsNow
  <2>5. Shows(o, v, E, h)
    BY <1>2, <2>1, <2>4 DEF Fits
  <2>6. Shows(o, v, E, g)'
    <3>1. CASE v = h.user
      BY <1>2, <2>5, <3>1
    <3>2. CASE v # h.user
      BY <1>1, <2>1, <2>2, <2>5, <3>2, ShowsOthers
    <3> QED
      BY <3>1, <3>2
  <2> QED
    BY <2>1, <2>2, <2>6, EntriesKept
<1>3. ~entangled => \A o \in Users \ blurred' : \A W \in Prospects(o)' : Fits(o, W, g)'
  BY <1>2 DEF Fits, Waits, stateOfUsers
<1> QED
  BY <1>3, FitsNext DEF Alone

LEMMA FitsNotifyMoved ==
  ASSUME RVTypes, Alone, ViewsFit, NEW c \in Users, NotifyMoved(c)
  PROVE  ViewsFit'
<1>1. PICK h : h = handler[c]
  OBVIOUS
<1>2. PICK g : g = [h EXCEPT !.step = "look"]
  OBVIOUS
<1>3. c \in Handling /\ h.step = "notify" /\ h \in Moving /\ h \in JobType
  BY <1>1, AtStep DEF NotifyMoved, Moves
<1>4. g.user = h.user /\ g.step = "look" /\ g \in JobType
  BY <1>2, <1>3 DEF Moving, JobType
<1>5. h # NoJob /\ g # NoJob /\ Untold(h) /\ Untold(g)
  BY <1>3, <1>4, JobShapes DEF Untold
<1>6. /\ Continue(c, g) /\ UNCHANGED <<stateOfUsers, ui_queue, view, entangled, blurred>>
      /\ \A o \in Users \ {h.user} : wire'[o] = wire[o]
  BY <1>1, <1>2 DEF NotifyMoved, excused, RVTypes, RVTypeOK
<1>7. \A o \in Users : ~Waits(o, g) => wire'[o] = wire[o] /\ ~Waits(o, h)
  BY <1>4, <1>5, <1>6 DEF Waits
<1>8. ASSUME NEW o \in Users, NEW E, Shows(o, h.user, E, h) PROVE Shows(o, h.user, E, g)'
  <2>1. E = {}
    BY <1>5, <1>8 DEF Shows
  <2>2. h.user \in Users
    BY <1>3, JobShapes
  <2> QED
    BY <1>4, <1>5, <2>1, <2>2, ShowsNone
<1> QED
  BY <1>1, <1>3, <1>4, <1>6, <1>7, <1>8, FitsSilent

LEMMA FitsLookJoined ==
  ASSUME RVTypes, Alone, ViewsFit, NEW c \in Users, LookJoined(c)
  PROVE  ViewsFit'
<1>1. PICK h : h = handler[c]
  OBVIOUS
<1>2. PICK g : g = [step |-> "joined", user |-> h.user, moved |-> h.moved,
                    info |-> Info(h.user, h.to)]
  OBVIOUS
<1>3. /\ c \in Handling /\ h.step = "look" /\ h \in Moving /\ h \in JobType /\ h.to \in RoomIds
      /\ h.user \in Users
  <2>1. c \in Handling /\ h.step = "look" /\ h \in Moving /\ h \in JobType /\ JobFits(c, h)
        /\ h.user \in Users
    BY <1>1, AtStep DEF LookJoined, Moves
  <2> QED
    BY <2>1 DEF JobFits, Moves, Moving
<1>4. g.user = h.user /\ g.step = "joined" /\ g \in JobType
  <2>1. Info(h.user, h.to) \in Shown /\ h.moved \in BOOLEAN
    BY <1>3, InfoTypes DEF Moving
  <2> QED
    BY <1>2, <1>3, <2>1 DEF Telling, JobType
<1>5. h # NoJob /\ g # NoJob /\ Untold(h) /\ Untold(g)
  BY <1>3, <1>4, JobShapes DEF Untold
<1>6. Continue(c, g) /\ UNCHANGED <<stateOfUsers, wire, ui_queue, view, entangled, blurred>>
  BY <1>1, <1>2 DEF LookJoined, excused
<1>7. \A o \in Users : ~Waits(o, g) => wire'[o] = wire[o] /\ ~Waits(o, h)
  BY <1>4, <1>5, <1>6 DEF Waits
<1>8. ASSUME NEW o \in Users, NEW E, Shows(o, h.user, E, h) PROVE Shows(o, h.user, E, g)'
  <2>1. E = {}
    BY <1>5, <1>8 DEF Shows
  <2> QED
    BY <1>3, <1>4, <1>5, <2>1, ShowsNone
<1> QED
  BY <1>1, <1>3, <1>4, <1>6, <1>7, <1>8, FitsSilent

LEMMA FitsLookState ==
  ASSUME RVTypes, Alone, ViewsFit, NEW c \in Users, LookState(c)
  PROVE  ViewsFit'
<1>1. PICK h : h = handler[c]
  OBVIOUS
<1>2. PICK u : u = h.user
  OBVIOUS
<1>3. PICK x : x = [Info(u, room_id[u]) EXCEPT !.muted = Silenced(u, h.told)]
  OBVIOUS
<1>4. PICK g : g = IF room_id[u] = Nowhere THEN NoJob
                   ELSE [step |-> "state", user |-> u, info |-> x]
  OBVIOUS
<1>5. c \in Handling /\ h.step = "look_state" /\ h \in JobType /\ u \in Users
  BY <1>1, <1>2, AtStep DEF LookState
<1>6. h # NoJob /\ Marks(h) /\ h.user = u
  BY <1>2, <1>5, JobShapes DEF Marks
<1>7. room_id[u] # Nowhere => x \in Shown
  <2>1. ASSUME room_id[u] # Nowhere PROVE Info(u, room_id[u]) \in Shown
    BY <1>5, <2>1, InfoTypes DEF RVTypes, RVTypeOK, Place
  <2>2. muted[u] \in BOOLEAN /\ admin_muted[u] \in BOOLEAN /\ h.told \in SUBSET BOOLEAN
    BY <1>5, JobShapes DEF RVTypes, RVTypeOK
  <2>3. Silenced(u, h.told) \in BOOLEAN
    BY <2>2 DEF Silenced
  <2> QED
    BY <1>3, <2>1, <2>3 DEF Shown
<1>8. /\ room_id[u] # Nowhere => g \in JobType /\ g.user = u /\ g.step = "state" /\ g # NoJob
      /\ room_id[u] = Nowhere => g = NoJob
  <2>1. room_id[u] # Nowhere => g \in JobType /\ g.user = u /\ g.step = "state"
    BY <1>4, <1>5, <1>7 DEF JobType, Marking
  <2> QED
    BY <1>4, <2>1, JobShapes
<1>9. Continue(c, g) /\ UNCHANGED <<stateOfUsers, wire, ui_queue, view, entangled, blurred>>
  BY <1>1, <1>2, <1>3, <1>4 DEF LookState, excused
<1>10. \A o \in Users : ~Waits(o, g) => wire'[o] = wire[o] /\ ~Waits(o, h)
  BY <1>5, <1>9 DEF Waits
<1>11. ASSUME NEW o \in Users, NEW E, room_id[o] # Nowhere, Shows(o, u, E, h)
       PROVE  Shows(o, u, E, g)'
  <2>1. PICK r : r = room_id[o]
    OBVIOUS
  <2>2. /\ room_id[u] = r => \E s \in Shown : E = {s}
        /\ room_id[u] # r => E = {}
    BY <1>6, <1>11, <2>1 DEF Shows
  <2>3. room_id'[o] = r /\ room_id'[u] = room_id[u]
    BY <1>9, <2>1 DEF stateOfUsers
  <2>4. CASE g = NoJob
    <3>1. E = {} /\ room_id'[u] # r
      BY <1>8, <1>11, <2>1, <2>2, <2>3, <2>4
    <3>2. E = Truth(u, r)'
      BY <3>1 DEF Truth
    <3> QED
      BY <2>3, <2>4, <3>2 DEF Shows
  <2>5. CASE g # NoJob
    <3>1. Marks(g) /\ ~Untold(g) /\ ~Entered(g) /\ g.user = u
      BY <1>8, <2>5 DEF Marks, Untold, Entered
    <3> QED
      BY <2>2, <2>3, <2>5, <3>1 DEF Shows
  <2> QED
    BY <2>4, <2>5
<1> QED
  BY <1>1, <1>2, <1>5, <1>8, <1>9, <1>10, <1>11, FitsSilent

LEMMA FitsTellJoined ==
  ASSUME RVTypes, Alone, ViewsFit, NEW c \in Users, TellJoined(c)
  PROVE  ViewsFit'
<1>1. PICK h, x, u : h = handler[c] /\ x = h.info /\ u = h.user
  OBVIOUS
<1>2. PICK g : g = IF h.moved THEN NoJob ELSE [step |-> "list", user |-> c]
  OBVIOUS
<1>3. PICK m, X, q : m = [kind |-> "joined", info |-> x] /\ X = {u} /\ q = x.room
  OBVIOUS
<1>4. /\ c \in Handling /\ h.step = "joined" /\ h \in JobType /\ (~entangled => Fresh(h))
      /\ JobFits(c, h) /\ u \in Users
  BY <1>1, AtStep DEF TellJoined
<1>5. /\ h # NoJob /\ Untold(h) /\ x \in Shown /\ q \in RoomIds /\ q # Nowhere
      /\ h.moved \/ u = c
  <2>1. x \in Shown
    BY <1>1, <1>4, JobShapes DEF Telling
  <2>2. q \in RoomIds /\ q # Nowhere
    BY <1>3, <2>1, RoomViewAssumption DEF Shown
  <2> QED
    BY <1>1, <1>4, <2>1, <2>2, JobShapes DEF Untold, JobFits
<1>6. g = NoJob \/ (~h.moved /\ g.user = u /\ g.step = "list" /\ g # NoJob)
  <2>1. ~h.moved => g \in JobType
    BY <1>2, <1>5, <1>4 DEF JobType, Listing, Handling
  <2> QED
    BY <1>2, <1>5, <2>1, JobShapes
<1>7. /\ Continue(c, g) /\ ToRoom(q, m, X)
      /\ UNCHANGED <<stateOfUsers, ui_queue, view, entangled, blurred>>
  BY <1>1, <1>2, <1>3 DEF TellJoined, excused
<1>8. m \in RoomMessage /\ m.kind = "joined" /\ m.info = x
  BY <1>3, <1>5 DEF RoomMessage
<1>9. \A v \in Users : \A r : Truth(v, r)' = Truth(v, r)
  BY <1>7, TruthSame DEF stateOfUsers
<1>10. ASSUME ~entangled, NEW o \in Users, o \notin blurred', NEW W \in Prospects(o)',
              room_id[o] # Nowhere, ~Waits(o, g), NEW v \in Users
       PROVE  Shows(o, v, Entries(W, v, room_id[o]), g)'
  <2>1. PICK r, E : r = room_id[o] /\ E = Entries(W, v, r)
    OBVIOUS
  <2>2. Fresh(h)
    BY <1>4, <1>10
  <2>3. o # u
    <3>1. CASE h.moved
      BY <1>1, <1>4, <1>7, <1>10, <2>2, <3>1 DEF Fresh
    <3>2. CASE ~h.moved
      <4>1. g.user = u /\ g.step = "list" /\ g # NoJob
        BY <1>2, <1>4, <1>5, <3>2, JobShapes DEF JobType, Listing, Handling
      <4> QED
        BY <1>10, <4>1 DEF Waits
    <3> QED
      BY <3>1, <3>2
  <2>4. x = Info(u, room_id[u]) /\ x.user = u /\ x.room = q /\ q = room_id[u]
    BY <1>1, <1>3, <1>4, <2>2 DEF Fresh, Info
  <2>5. PICK Y \in Prospects(o) :
          W = IF room_id[o] = q /\ q # Nowhere /\ o \notin X THEN After(Wire, Y, m) ELSE Y
    <3>1. m \in RoomMessage
      BY <1>8
    <3>2. ToRoom(q, m, X)
      BY <1>7
    <3>3. UNCHANGED <<ui_queue, view>>
      BY <1>7
    <3> QED
      BY <3>1, <3>2, <3>3, ProspectsTold
  <2>6. W = IF r = q THEN After(Wire, Y, m) ELSE Y
    BY <1>3, <1>5, <2>1, <2>3, <2>5
  <2>7. Fits(o, Y, h)
    BY <1>1, <1>4, <1>7, <1>10, FitsNow
  <2>8. Shows(o, v, Entries(Y, v, r), h)
    BY <1>1, <1>10, <2>1, <2>3, <2>7 DEF Fits, Waits
  <2>9. E = IF v = u /\ r = q THEN {x} ELSE Entries(Y, v, r)
    BY <1>8, <2>1, <2>4, <2>6, EntriesJoined DEF Prospects
  <2>10. room_id'[o] = r
    BY <1>7, <2>1 DEF stateOfUsers
  <2>11. CASE v # u
    <3>1. Shows(o, v, E, h)
      BY <2>8, <2>9, <2>11
    <3>2. Shows(o, v, E, g)'
      BY <1>1, <1>6, <1>9, <2>1, <2>10, <2>11, <3>1, ShowsOthers
    <3> QED
      BY <2>1, <2>10, <3>2, EntriesKept
  <2>12. CASE v = u
    <3>1. E = Truth(u, r)
      <4>1. CASE r = q
        BY <2>4, <2>9, <2>12, <4>1 DEF Truth
      <4>2. CASE r # q
        BY <1>1, <1>5, <2>4, <2>8, <2>9, <2>12, <4>2 DEF Truth, Shows
      <4> QED
        BY <4>1, <4>2
    <3>2. E = Truth(u, r)'
      BY <1>4, <1>9, <3>1
    <3>3. g = NoJob \/ (~Untold(g) /\ ~Entered(g) /\ ~Marks(g))
      BY <1>6 DEF Untold, Entered, Marks
    <3>4. Shows(o, v, E, g)'
      BY <2>10, <2>12, <3>2, <3>3 DEF Shows
    <3> QED
      BY <2>1, <2>10, <3>4, EntriesKept
  <2> QED
    BY <2>11, <2>12
<1>11. ~entangled => \A o \in Users \ blurred' : \A W \in Prospects(o)' : Fits(o, W, g)'
  BY <1>7, <1>10 DEF Fits, Waits, stateOfUsers
<1> QED
  BY <1>4, <1>7, <1>11, FitsNext DEF Alone

LEMMA FitsTellState ==
  ASSUME RVTypes, Alone, ViewsFit, NEW c \in Users, TellState(c)
  PROVE  ViewsFit'
<1>1. PICK h, x, u : h = handler[c] /\ x = h.info /\ u = h.user
  OBVIOUS
<1>2. PICK m, X, q : m = [kind |-> "state", info |-> x] /\ X = {} /\ q = x.room
  OBVIOUS
<1>3. /\ c \in Handling /\ h.step = "state" /\ h \in JobType /\ (~entangled => Fresh(h))
      /\ u \in Users
  BY <1>1, AtStep DEF TellState
<1>4. h # NoJob /\ Marks(h) /\ x \in Shown /\ q \in RoomIds /\ q # Nowhere
  <2>1. x \in Shown
    BY <1>1, <1>3, JobShapes
  <2>2. q \in RoomIds /\ q # Nowhere
    BY <1>2, <2>1, RoomViewAssumption DEF Shown
  <2> QED
    BY <1>3, <2>1, <2>2, JobShapes DEF Marks
<1>5. /\ Continue(c, NoJob) /\ ToRoom(q, m, X)
      /\ UNCHANGED <<stateOfUsers, ui_queue, view, entangled, blurred>>
  BY <1>1, <1>2 DEF TellState, excused
<1>6. m \in RoomMessage /\ m.kind = "state" /\ m.info = x
  BY <1>2, <1>4 DEF RoomMessage
<1>7. \A v \in Users : \A r : Truth(v, r)' = Truth(v, r)
  BY <1>5, TruthSame DEF stateOfUsers
<1>8. ASSUME ~entangled, NEW o \in Users, o \notin blurred', NEW W \in Prospects(o)',
             room_id[o] # Nowhere, NEW v \in Users
      PROVE  Shows(o, v, Entries(W, v, room_id[o]), NoJob)'
  <2>1. PICK r, E : r = room_id[o] /\ E = Entries(W, v, r)
    OBVIOUS
  <2>2. x = Info(u, room_id[u]) /\ x.user = u /\ x.room = q /\ q = room_id[u]
    BY <1>1, <1>2, <1>3, <1>8 DEF Fresh, Info
  <2>3. PICK Y \in Prospects(o) :
          W = IF room_id[o] = q /\ q # Nowhere /\ o \notin X THEN After(Wire, Y, m) ELSE Y
    <3>1. m \in RoomMessage
      BY <1>6
    <3>2. ToRoom(q, m, X)
      BY <1>5
    <3>3. UNCHANGED <<ui_queue, view>>
      BY <1>5
    <3> QED
      BY <3>1, <3>2, <3>3, ProspectsTold
  <2>4. W = IF r = q THEN After(Wire, Y, m) ELSE Y
    BY <1>2, <1>4, <2>1, <2>3
  <2>5. Fits(o, Y, h)
    BY <1>1, <1>3, <1>5, <1>8, FitsNow
  <2>6. Shows(o, v, Entries(Y, v, r), h)
    BY <1>3, <1>8, <2>1, <2>5 DEF Fits, Waits
  <2>7. room_id'[o] = r
    BY <1>5, <2>1 DEF stateOfUsers
  <2>8. CASE v # u
    <3>1. E = Entries(Y, v, r)
      BY <1>4, <1>6, <2>1, <2>2, <2>4, <2>8, EntriesState DEF Prospects
    <3>2. Shows(o, v, E, NoJob)'
      BY <1>1, <1>7, <2>1, <2>6, <2>7, <2>8, <3>1, ShowsOthers
    <3> QED
      BY <2>1, <2>7, <3>2, EntriesKept
  <2>9. CASE v = u
    <3>1. /\ q = r => \E s \in Shown : Entries(Y, v, r) = {s}
          /\ q # r => Entries(Y, v, r) = {}
      BY <1>1, <1>4, <2>1, <2>2, <2>6, <2>9 DEF Shows
    <3>2. E = Truth(u, r)
      <4>1. CASE r = q
        <5>1. E = {x}
          BY <1>4, <1>6, <2>1, <2>2, <2>4, <2>9, <3>1, <4>1, EntriesState DEF Prospects
        <5> QED
          BY <2>2, <4>1, <5>1 DEF Truth
      <4>2. CASE r # q
        BY <2>1, <2>2, <2>4, <2>9, <3>1, <4>2 DEF Truth
      <4> QED
        BY <4>1, <4>2
    <3>3. E = Truth(u, r)'
      BY <1>3, <1>7, <3>2
    <3>4. Shows(o, v, E, NoJob)'
      BY <2>7, <2>9, <3>3 DEF Shows
    <3> QED
      BY <2>1, <2>7, <3>4, EntriesKept
  <2> QED
    BY <2>8, <2>9
<1>9. PICK g : g = NoJob
  OBVIOUS
<1>10. ~entangled => \A o \in Users \ blurred' : \A W \in Prospects(o)' : Fits(o, W, g)'
  BY <1>5, <1>8, <1>9 DEF Fits, stateOfUsers
<1> QED
  BY <1>3, <1>5, <1>9, <1>10, FitsNext DEF Alone

(* Nobody is at work any more, and o shows of v what is so. *)
LEMMA ShowsTruth ==
  ASSUME NEW o \in Users, NEW v \in Users, NEW E, NEW r, NEW h,
         E = Truth(v, r)', room_id'[o] = r,
         h = NoJob \/ (~Untold(h) /\ ~Entered(h) /\ ~Marks(h))
  PROVE  Shows(o, v, E, h)'
BY DEF Shows

LEMMA FitsSendList ==
  ASSUME RVTypes, Alone, ViewsFit, NEW c \in Users, SendList(c)
  PROVE  ViewsFit'
<1>1. PICK h, g : h = handler[c] /\ g = NoJob
  OBVIOUS
<1>2. PICK m : m = [kind |-> "list", list |-> RoomList]
  OBVIOUS
<1>3. c \in Handling /\ h.step = "list" /\ h \in JobType /\ h.user = c
  <2>1. c \in Handling /\ h.step = "list" /\ h \in JobType /\ JobFits(c, h)
    BY <1>1, AtStep DEF SendList
  <2> QED
    BY <2>1 DEF JobFits
<1>4. h # NoJob /\ ~Untold(h) /\ ~Entered(h) /\ ~Marks(h)
  BY <1>3, JobShapes DEF Untold, Entered, Marks
<1>5. m \in RoomMessage /\ m.kind = "list" /\ m.list = RoomList
  BY <1>2, RoomListTypes DEF RoomMessage
<1>6. /\ Continue(c, g) /\ UNCHANGED <<stateOfUsers, ui_queue, view, entangled>>
      /\ wire'[c] = Append(wire[c], m)
      /\ \A o \in Users \ {c} : wire'[o] = wire[o] /\ (o \notin blurred' => o \notin blurred)
      /\ entangled => blurred' = blurred
  BY <1>1, <1>2 DEF SendList, RVTypes, RVTypeOK
<1>7. \A v \in Users : \A r : Truth(v, r)' = Truth(v, r)
  BY <1>6, TruthSame DEF stateOfUsers
<1>8. ASSUME ~entangled, NEW o \in Users, o \notin blurred', NEW W \in Prospects(o)',
             room_id[o] # Nowhere, NEW v \in Users
      PROVE  Shows(o, v, Entries(W, v, room_id[o]), g)'
  <2>1. PICK r, E : r = room_id[o] /\ E = Entries(W, v, r)
    OBVIOUS
  <2>2. E = Truth(v, r)
    <3>1. CASE o = c
      <4>1. \E X \in Prospects(o) : W = After(Wire, X, m)
        BY <1>5, <1>6, <3>1, ProspectsAppend
      <4>2. W = RoomList
        BY <1>5, <4>1 DEF After, Wire
      <4> QED
        BY <1>8, <2>1, <4>2, EntriesOfList
    <3>2. CASE o # c
      <4>1. W \in Prospects(o)
        BY <1>6, <3>2, ProspectsSame
      <4>2. Fits(o, W, h)
        BY <1>1, <1>3, <1>6, <1>8, <3>2, <4>1, FitsNow
      <4>3. Shows(o, v, E, h)
        BY <1>3, <1>8, <2>1, <3>2, <4>2 DEF Fits, Waits
      <4> QED
        BY <1>4, <2>1, <4>3 DEF Shows
    <3> QED
      BY <3>1, <3>2
  <2>3. room_id'[o] = r /\ E = Truth(v, r)'
    BY <1>6, <1>7, <2>1, <2>2 DEF stateOfUsers
  <2>4. Shows(o, v, E, g)'
    BY <1>1, <2>3, ShowsTruth
  <2> QED
    BY <2>1, <2>3, <2>4, EntriesKept
<1>9. ~entangled => \A o \in Users \ blurred' : \A W \in Prospects(o)' : Fits(o, W, g)'
  BY <1>6, <1>8 DEF Fits, stateOfUsers
<1> QED
  BY <1>3, <1>6, <1>9, FitsNext DEF Alone

LEMMA FitsBroadcastRoomList ==
  ASSUME RVTypes, Alone, ViewsFit, NEW c \in Users, BroadcastRoomList(c)
  PROVE  ViewsFit'
<1>1. PICK h, g : h = handler[c] /\ g = NoJob
  OBVIOUS
<1>2. PICK m : m = [kind |-> "list", list |-> h.list]
  OBVIOUS
<1>3. c \in Handling /\ h.step = "lists" /\ h \in JobType /\ (~entangled => Fresh(h))
  BY <1>1, AtStep DEF BroadcastRoomList
<1>4. m \in RoomMessage /\ m.kind = "list" /\ m.list = h.list
  BY <1>2, <1>3, JobShapes DEF RoomMessage
<1>5. /\ Continue(c, g) /\ UNCHANGED <<stateOfUsers, ui_queue, view, entangled>>
      /\ \A o \in Users : wire'[o] = Append(wire[o], m)
      /\ entangled => blurred' = blurred
  BY <1>1, <1>2 DEF BroadcastRoomList
<1>6. \A v \in Users : \A r : Truth(v, r)' = Truth(v, r)
  BY <1>5, TruthSame DEF stateOfUsers
<1>7. ASSUME ~entangled, NEW o \in Users, NEW W \in Prospects(o)', room_id[o] # Nowhere,
             NEW v \in Users
      PROVE  Shows(o, v, Entries(W, v, room_id[o]), g)'
  <2>1. PICK r, E : r = room_id[o] /\ E = Entries(W, v, r)
    OBVIOUS
  <2>2. \E X \in Prospects(o) : W = After(Wire, X, m)
    BY <1>4, <1>5, ProspectsAppend
  <2>3. W = RoomList
    BY <1>3, <1>4, <1>7, <2>2 DEF After, Wire, Fresh
  <2>4. room_id'[o] = r /\ E = Truth(v, r)'
    BY <1>5, <1>6, <1>7, <2>1, <2>3, EntriesOfList DEF stateOfUsers
  <2>5. Shows(o, v, E, g)'
    BY <1>1, <2>4, ShowsTruth
  <2> QED
    BY <2>1, <2>4, <2>5, EntriesKept
<1>8. ~entangled => \A o \in Users \ blurred' : \A W \in Prospects(o)' : Fits(o, W, g)'
  BY <1>5, <1>7 DEF Fits, stateOfUsers
<1> QED
  BY <1>3, <1>5, <1>8, FitsNext DEF Alone

LEMMA FitsLeaveRoom ==
  ASSUME RVTypes, Alone, ViewsFit, NEW c \in Users, LeaveRoom(c)
  PROVE  ViewsFit'
<1>1. PICK h, g : h = handler[c] /\ g = NoJob
  OBVIOUS
<1>2. c \in Handling /\ h.step = "leave" /\ h \in JobType /\ h.user = c
  <2>1. c \in Handling /\ h.step = "leave" /\ h \in JobType /\ JobFits(c, h)
    BY <1>1, AtStep DEF LeaveRoom
  <2> QED
    BY <2>1 DEF JobFits, Moves
<1>3. h # NoJob /\ Untold(h)
  BY <1>2, JobShapes DEF Untold
<1>4. /\ Continue(c, g) /\ room_id' = [room_id EXCEPT ![c] = Nowhere]
      /\ UNCHANGED <<muted, admin_muted, deafened, wire, ui_queue, view, entangled, blurred>>
  BY <1>1 DEF LeaveRoom, excused
<1>5. room_id'[c] = Nowhere /\ \A o \in Users \ {c} : room_id'[o] = room_id[o]
  BY <1>4 DEF RVTypes, RVTypeOK
<1>6. ASSUME ~entangled, NEW o \in Users, o \notin blurred', NEW W \in Prospects(o)',
             room_id'[o] # Nowhere, NEW v \in Users
      PROVE  Shows(o, v, Entries(W, v, room_id[o]), g)'
  <2>1. PICK r, E : r = room_id[o] /\ E = Entries(W, v, r)
    OBVIOUS
  <2>2. o # c /\ room_id'[o] = r /\ r # Nowhere
    BY <1>5, <1>6, <2>1
  <2>3. W \in Prospects(o)
    BY <1>4, ProspectsSame
  <2>4. Fits(o, W, h)
    BY <1>1, <1>2, <1>4, <1>6, <2>3, FitsNow
  <2>5. Shows(o, v, E, h)
    BY <1>2, <2>1, <2>2, <2>4 DEF Fits, Waits
  <2>6. E = Truth(v, r)'
    <3>1. CASE v = c
      <4>1. E = {}
        BY <1>2, <1>3, <2>5, <3>1 DEF Shows
      <4> QED
        BY <1>5, <2>2, <3>1, <4>1 DEF Truth
    <3>2. CASE v # c
      <4>1. E = Truth(v, r)
        BY <1>2, <2>1, <2>5, <3>2 DEF Shows
      <4> QED
        BY <1>4, <1>5, <3>2, <4>1, TruthSame
    <3> QED
      BY <3>1, <3>2
  <2>7. Shows(o, v, E, g)'
    BY <1>1, <2>2, <2>6, ShowsTruth
  <2> QED
    BY <2>1, <2>2, <2>7, EntriesKept
<1>7. ~entangled => \A o \in Users \ blurred' : \A W \in Prospects(o)' : Fits(o, W, g)'
  BY <1>6 DEF Fits
<1> QED
  BY <1>2, <1>4, <1>7, FitsNext DEF Alone

LEMMA FitsEnterRoom ==
  ASSUME RVTypes, Alone, ViewsFit, NEW c \in Users, EnterRoom(c)
  PROVE  ViewsFit'
<1>1. PICK h, u : h = handler[c] /\ u = h.user
  OBVIOUS
<1>2. PICK g : g = [h EXCEPT !.step = CASE h.moved -> "notify"
                                        [] ~h.moved /\ h.from = h.to -> "list"
                                        [] ~h.moved /\ h.from = Nowhere -> "look"
                                        [] OTHER -> "left"]
  OBVIOUS
<1>3. /\ c \in Handling /\ h.step = "join" /\ h \in Moving /\ (~entangled => Fresh(h))
      /\ u \in Users /\ h.to # Nowhere
  <2>1. /\ c \in Handling /\ h.step = "join" /\ h \in Moving /\ (~entangled => Fresh(h))
        /\ u \in Users /\ JobFits(c, h)
    BY <1>1, AtStep DEF EnterRoom, Moves
  <2> QED
    BY <2>1, RoomViewAssumption DEF JobFits, Moves
<1>4. /\ g.user = u /\ g.to = h.to /\ g.from = h.from /\ g.moved = h.moved
      /\ h.moved \in BOOLEAN /\ g \in JobType
      /\ h.moved => g.step = "notify"
      /\ ~h.moved => \/ g.step = "list" /\ h.from = h.to
                     \/ g.step = "look" /\ h.from = Nowhere
                     \/ g.step = "left"
  BY <1>1, <1>2, <1>3 DEF Moving, JobType
<1>5. h # NoJob /\ g # NoJob
  BY <1>3, <1>4, JobShapes DEF JobType
<1>6. /\ Continue(c, g) /\ room_id' = [room_id EXCEPT ![u] = h.to]
      /\ UNCHANGED <<muted, admin_muted, deafened, wire, ui_queue, view, entangled>>
      /\ blurred \subseteq blurred' /\ (entangled => blurred' = Users)
  <2>1. u \in Users /\ (entangled => blurred = Users)
    BY <1>3 DEF Alone
  <2>2. blurred' = IF h.moved THEN blurred \cup {u} ELSE blurred
    BY <1>1 DEF EnterRoom
  <2>3. blurred \subseteq blurred' /\ (entangled => blurred' = Users)
    BY <2>1, <2>2
  <2> QED
    BY <1>1, <1>2, <2>3 DEF EnterRoom
<1>7. room_id'[u] = h.to /\ \A o \in Users \ {u} : room_id'[o] = room_id[o]
  BY <1>3, <1>6 DEF RVTypes, RVTypeOK
<1>8. ASSUME ~entangled, NEW o \in Users, o \notin blurred', NEW W \in Prospects(o)',
             room_id'[o] # Nowhere, ~Waits(o, g), NEW v \in Users
      PROVE  Shows(o, v, Entries(W, v, room_id[o]), g)'
  <2>1. PICK r, E : r = room_id[o] /\ E = Entries(W, v, r)
    OBVIOUS
  <2>2. o # u
    BY <1>4, <1>5, <1>8 DEF Waits
  <2>3. room_id'[o] = r /\ r # Nowhere /\ ~Waits(o, h)
    BY <1>1, <1>7, <1>8, <2>1, <2>2 DEF Waits
  <2>4. W \in Prospects(o)
    BY <1>6, ProspectsSame
  <2>5. Fits(o, W, h)
    BY <1>1, <1>3, <1>6, <1>8, <2>4, FitsNow
  <2>6. Shows(o, v, E, h)
    BY <2>1, <2>3, <2>5 DEF Fits
  <2>7. CASE v # u
    <3>1. E = Truth(v, r)
      BY <1>1, <2>1, <2>6, <2>7 DEF Shows
    <3>2. E = Truth(v, r)'
      BY <1>6, <1>7, <2>7, <3>1, TruthSame
    <3>3. Shows(o, v, E, g)'
      BY <1>4, <2>3, <2>7, <3>2 DEF Shows
    <3> QED
      BY <2>1, <2>3, <3>3, EntriesKept
  <2>8. CASE v = u /\ h.moved
    <3>1. E = {} /\ Untold(g)
      BY <1>1, <1>3, <1>4, <1>5, <2>6, <2>8 DEF Shows, Untold
    <3>2. Shows(o, v, E, g)'
      BY <1>4, <2>8, <3>1, ShowsNone
    <3> QED
      BY <2>1, <2>3, <3>2, EntriesKept
  <2>9. CASE v = u /\ ~h.moved
    <3>1. ~Untold(h) /\ ~Entered(h) /\ ~Marks(h)
      BY <1>3, <2>9 DEF Untold, Entered, Marks
    <3>2. E = Truth(v, r) /\ room_id[u] = h.from
      BY <1>1, <1>3, <1>5, <1>8, <2>1, <2>6, <2>9, <3>1 DEF Shows, Fresh
    <3>3. Shows(o, v, E, g)'
      <4>1. CASE g.step = "list" /\ h.from = h.to
        <5>1. E = Truth(v, r)'
          BY <1>6, <1>7, <2>9, <3>2, <4>1, TruthSame
        <5>2. ~Untold(g) /\ ~Entered(g) /\ ~Marks(g)
          BY <4>1 DEF Untold, Entered, Marks
        <5> QED
          BY <2>3, <5>1, <5>2, ShowsTruth
      <4>2. CASE g.step = "look" /\ h.from = Nowhere
        <5>1. E = {} /\ Untold(g)
          BY <2>3, <2>9, <3>2, <4>2 DEF Truth, Untold
        <5> QED
          BY <1>4, <2>9, <5>1, ShowsNone
      <4>3. CASE g.step = "left"
        <5>1. Entered(g) /\ ~Untold(g) /\ ~Marks(g)
          BY <1>3, <1>4, <2>9, <4>3 DEF Entered, Untold, Marks
        <5>2. r # h.from => E = {}
          BY <2>9, <3>2 DEF Truth
        <5> QED
          BY <1>4, <1>5, <2>3, <2>9, <5>1, <5>2 DEF Shows
      <4> QED
        BY <1>4, <2>9, <4>1, <4>2, <4>3
    <3> QED
      BY <2>1, <2>3, <3>3, EntriesKept
  <2> QED
    BY <2>7, <2>8, <2>9
<1>9. ~entangled => \A o \in Users \ blurred' : \A W \in Prospects(o)' : Fits(o, W, g)'
  BY <1>8 DEF Fits, Waits
<1> QED
  BY <1>3, <1>6, <1>9, FitsNext

(* Neither users nor handlers change, and no client may show anything new. *)
LEMMA FitsKept ==
  ASSUME ViewsFit, UNCHANGED <<room_id, muted, admin_muted, deafened, handler>>,
         blurred \subseteq blurred',
         \A o \in Users \ blurred' : Prospects(o)' \subseteq Prospects(o)
  PROVE  ViewsFit'
<1>1. ASSUME NEW o \in Users, o \notin blurred', NEW W \in Prospects(o)'
      PROVE  Fits(o, W, TheJob)'
  <2>1. PICK h : h = TheJob
    OBVIOUS
  <2>2. Fits(o, W, h)
    BY <1>1, <2>1 DEF ViewsFit
  <2>3. TheJob' = h
    BY <2>1 DEF TheJob, Handling
  <2>4. Fits(o, W, h)'
    BY <2>2 DEF Fits, Waits, Shows, Truth, Info, Entries
  <2> QED
    BY <2>3, <2>4
<1> QED
  BY <1>1 DEF ViewsFit

LEMMA FitsClients ==
  ASSUME RVTypes, ViewsFit, NEW c \in Users, NetworkTask(c) \/ HandleMessage(c)
  PROVE  ViewsFit'
<1>1. /\ UNCHANGED <<room_id, muted, admin_muted, deafened, handler>>
      /\ blurred \subseteq blurred'
  BY DEF NetworkTask, HandleMessage, excused, stateOfUsers
<1>2. \A o \in Users \ blurred' : Prospects(o)' \subseteq Prospects(o)
  BY ProspectsNetwork, ProspectsHandle
<1> QED
  BY <1>1, <1>2, FitsKept

LEMMA ViewsFitInit == RVInit => ViewsFit
BY DEF RVInit, ViewsFit, Fits

LEMMA ViewsFitStep == RVTypes /\ Alone /\ ViewsFit /\ [RVNext]_rvVars => ViewsFit'
<1> SUFFICES ASSUME RVTypes, Alone, ViewsFit, [RVNext]_rvVars PROVE ViewsFit'
  OBVIOUS
<1>1. CASE UNCHANGED rvVars
  <2>1. UNCHANGED <<room_id, muted, admin_muted, deafened, handler, blurred, wire, ui_queue, view>>
    BY <1>1 DEF rvVars, stateOfUsers, excused
  <2>2. \A o \in Users : Prospects(o)' \subseteq Prospects(o)
    BY <2>1, ProspectsSame
  <2> QED
    BY <2>1, <2>2, FitsKept
<1>2. CASE RVNext
  <2>1. PICK c \in Users :
          \/ RoomLeave(c) \/ RoomUpdate(c)
          \/ \E r \in RoomIds : RoomJoin(c, r) \/ \E u \in Users : AdminMove(c, u, r)
          \/ AudioMute(c) \/ AudioDeafen(c)
          \/ \E u \in Users, b \in BOOLEAN : AdminMute(c, u, b)
          \/ TellLeft(c) \/ LeaveRoom(c) \/ EnterRoom(c) \/ NotifyMoved(c) \/ LookJoined(c)
          \/ TellJoined(c) \/ SendList(c) \/ BroadcastRoomList(c) \/ LookState(c) \/ TellState(c)
          \/ NetworkTask(c) \/ HandleMessage(c)
    BY <1>2 DEF RVNext
  <2> QED
    BY <2>1, FitsRequests, FitsFlags, FitsTellLeft, FitsLeaveRoom, FitsEnterRoom,
       FitsNotifyMoved, FitsLookJoined, FitsTellJoined, FitsSendList, FitsBroadcastRoomList,
       FitsLookState, FitsTellState, FitsClients
<1> QED
  BY <1>1, <1>2

(* With no message left, what is believed and what is shown in the end are what *)
(* is believed and shown now.                                                   *)
LEMMA QuietView ==
  ASSUME RVTypes, RoomsAgree, ViewsFit
  PROVE  ViewConverges
<1> SUFFICES ASSUME NothingUnderWay, NEW c \in Users
             PROVE  /\ current[c] = room_id[c] \/ c \in strayed
                    /\ room_id[c] # Nowhere => c \in blurred \/
                         {s \in view[c] : s.room = room_id[c]} =
                           {s \in RoomList : s.room = room_id[c]}
  BY DEF ViewConverges
<1>1. /\ Handling = {} /\ wire[c] = <<>> /\ ui_queue[c] = <<>> /\ TheJob = NoJob
      /\ view[c] \in SUBSET Shown
  BY DEF NothingUnderWay, TheJob, RVTypes, RVTypeOK
<1>2. ASSUME c \notin strayed PROVE current[c] = room_id[c]
  <2>1. RoomJobs(c) = {}
    BY <1>1 DEF RoomJobs
  <2>2. Believes(c, room_id[c])
    BY <1>2, <2>1 DEF RoomsAgree, Agrees
  <2>3. PICK x \in Place : EndsIn(ui_queue[c], current[c], x) /\ EndsIn(wire[c], x, room_id[c])
    BY <2>2 DEF Believes
  <2>4. DOMAIN wire[c] = {} /\ DOMAIN ui_queue[c] = {}
    BY <1>1
  <2> QED
    BY <2>3, <2>4 DEF EndsIn, LastMoved
<1>3. ASSUME room_id[c] # Nowhere, c \notin blurred
      PROVE  {s \in view[c] : s.room = room_id[c]} = {s \in RoomList : s.room = room_id[c]}
  <2>1. PICK r, V, L : r = room_id[c] /\ V = view[c] /\ L = RoomList
    OBVIOUS
  <2>2. V \in Prospects(c)
    <3>1. Leads(UiThread, V, <<>>, V) /\ Leads(Wire, V, <<>>, V)
      BY <1>1, <2>1, LeadsNothing
    <3> QED
      BY <1>1, <2>1, <3>1 DEF Prospects
  <2>3. Fits(c, V, NoJob)
    BY <1>1, <1>3, <2>2 DEF ViewsFit
  <2>4. ASSUME NEW v \in Users PROVE Entries(V, v, r) = Entries(L, v, r)
    <3>1. Shows(c, v, Entries(V, v, r), NoJob)
      BY <1>3, <2>1, <2>3 DEF Fits, Waits
    <3>2. Entries(V, v, r) = Truth(v, r)
      BY <2>1, <3>1 DEF Shows
    <3> QED
      BY <1>3, <2>1, <3>2, EntriesOfList
  <2>5. V \in SUBSET Shown /\ L \in SUBSET Shown
    BY <1>1, <2>1, RoomListTypes
  <2>6. \A s \in Shown : s.user \in Users
    BY DEF Shown
  <2>7. ASSUME NEW s \in Shown, s.room = r PROVE s \in V <=> s \in L
    <3>1. Entries(V, s.user, r) = Entries(L, s.user, r)
      BY <2>4, <2>6
    <3> QED
      BY <2>7, <3>1 DEF Entries
  <2>8. {s \in V : s.room = r} = {s \in L : s.room = r}
    BY <2>5, <2>7
  <2> QED
    BY <2>1, <2>8
<1> QED
  BY <1>2, <1>3

(* When nothing is on its way, every user that is in a room believes to be in   *)
(* it, and its client shows exactly the users of that room, muted and deafened  *)
(* as the server has them: but for those a request of another meanwhile, a list *)
(* overtaking older news or a move has left with more or less.                  *)
THEOREM ViewsConverge == RVSpec => []ViewConverges
<1>1. RVInit => RVTypes /\ RoomsAgree /\ Alone /\ ViewsFit
  BY RVTypesInit, RoomsAgreeInit, AloneInit, ViewsFitInit
<1>2. RVTypes /\ RoomsAgree /\ Alone /\ ViewsFit /\ [RVNext]_rvVars
        => (RVTypes /\ RoomsAgree /\ Alone /\ ViewsFit)'
  BY RVTypesStep, RoomsAgreeStep, AloneStep, ViewsFitStep
<1>3. RVTypes /\ RoomsAgree /\ Alone /\ ViewsFit => ViewConverges
  BY QuietView
<1> QED
  BY <1>1, <1>2, <1>3, PTL DEF RVSpec
=============================================================================

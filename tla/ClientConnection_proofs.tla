----------------------- MODULE ClientConnection_proofs -----------------------
(* Theorems about ClientConnection, for any number of attempts and sockets at  *)
(* a time and any number of acts of the user.                                  *)
EXTENDS ClientConnection, TLAPS

(* ws_tx is a sender of a socket with both its tasks: each clears it before it
   ends. *)
SenderOpen ==
  ws_tx # None => sock[ws_tx] # None /\ sock[ws_tx].send /\ sock[ws_tx].recv

TypeInv == TypeOK /\ SenderOpen

LEMMA TypeInit == Init => TypeInv
<1> SUFFICES ASSUME Init PROVE TypeInv
  OBVIOUS
<1>1. events \in Seq(Event)
  BY DEF Init
<1>2. task \in [Tasks -> Attempts \cup {None}] /\ sock \in [Sockets -> OpenSocket \cup {None}]
  BY DEF Init
<1>3. acts \in 0 .. MaxActs /\ connect_gen \in Nat
  BY ConnectionAssumption DEF Init
<1>4. SenderOpen
  BY DEF Init, SenderOpen
<1>5. TypeOK
  BY <1>1, <1>2, <1>3 DEF Init, TypeOK
<1> QED
  BY <1>4, <1>5 DEF TypeInv

(* Spawn starts an attempt of generation g and touches no other. *)
LEMMA SpawnTypes ==
  ASSUME TypeOK, NEW g \in Nat, Spawn(g)
  PROVE  task' \in [Tasks -> Attempts \cup {None}]
<1> DEFINE a == CHOOSE x \in FreeTasks : TRUE
<1>1. a \in Tasks
  BY DEF Spawn, FreeTasks
<1> QED
  BY <1>1 DEF Spawn, TypeOK, Attempts

LEMMA PostTypes ==
  ASSUME TypeOK, NEW g \in Nat, NEW k \in {"welcome", "refusal", "lost", "failed"},
         Post(k, g)
  PROVE  events' \in Seq(Event)
<1>1. [kind |-> k, gen |-> g] \in Event
  BY DEF Event
<1> QED
  BY <1>1 DEF Post, TypeOK

LEMMA HandleTypes ==
  ASSUME TypeOK, NEW k, Handle(k)
  PROVE  /\ events' \in Seq(Event) /\ stale' \in BOOLEAN /\ acts' = acts
         /\ Head(events) \in Event
<1>1. events \in Seq(Event) /\ events # <<>>
  BY DEF Handle, TypeOK
<1>2. Head(events) \in Event /\ Tail(events) \in Seq(Event)
  BY <1>1
<1>3. stale' \in BOOLEAN
  BY DEF Handle, Acting, TypeOK
<1> QED
  BY <1>2, <1>3 DEF Handle

(* Sending a room command changes what the server will do, not the socket. *)
LEMMA SendRoomTypes ==
  ASSUME TypeInv, NEW r \in Rooms \cup {None}, ws_tx # None, SendRoom(r)
  PROVE  /\ sock' \in [Sockets -> OpenSocket \cup {None}]
         /\ sock'[ws_tx] # None /\ sock'[ws_tx].send /\ sock'[ws_tx].recv
<1>1. ws_tx \in Sockets /\ sock[ws_tx] \in OpenSocket
  BY DEF TypeInv, TypeOK, SenderOpen
<1>2. \E x \in Rooms \cup {None} : sock' = [sock EXCEPT ![ws_tx].room = x]
  BY <1>1 DEF SendRoom, OpenSocket
<1>3. PICK x \in Rooms \cup {None} : sock' = [sock EXCEPT ![ws_tx].room = x]
  BY <1>2
<1>4. sock'[ws_tx] = [sock[ws_tx] EXCEPT !.room = x]
  BY <1>1, <1>3 DEF TypeInv, TypeOK
<1>5. sock'[ws_tx] \in OpenSocket
  BY <1>1, <1>4 DEF OpenSocket
<1> QED
  BY <1>1, <1>3, <1>4, <1>5, NoneAssumption DEF TypeInv, TypeOK, SenderOpen, OpenSocket

LEMMA JoinTypes ==
  ASSUME TypeInv, NEW r \in Rooms \cup {None}, Join(r), ws_tx' = ws_tx
  PROVE  /\ sock' \in [Sockets -> OpenSocket \cup {None}] /\ SenderOpen'
         /\ room' \in Rooms \cup {None}
<1>1. CASE ws_tx = None
  BY <1>1 DEF Join, TypeInv, TypeOK, SenderOpen
<1>2. CASE ws_tx # None
  BY <1>2, SendRoomTypes DEF Join, SenderOpen
<1> QED
  BY <1>1, <1>2

(* An attempt keeps its generation to its end. *)
LEMMA GotoTypes ==
  ASSUME TypeOK, NEW a \in Tasks, NEW pc \in {"start", "open", "login"},
         task[a] # None, Goto(a, pc)
  PROVE  task' \in [Tasks -> Attempts \cup {None}]
<1>1. task[a] \in Attempts
  BY DEF TypeOK
<1> QED
  BY <1>1 DEF Goto, TypeOK, Attempts

LEMMA FinishTypes ==
  ASSUME TypeOK, NEW a \in Tasks, Finish(a)
  PROVE  task' \in [Tasks -> Attempts \cup {None}]
BY DEF Finish, TypeOK

(* What a task of a socket does to another one's ws_tx is to clear it. *)
LEMMA LeftTypes ==
  ASSUME TypeInv, NEW s \in Sockets, NEW half \in {"send", "recv"},
         sock[s] # None, Left(s, half)
  PROVE  sock' \in [Sockets -> OpenSocket \cup {None}]
<1>1. sock[s] \in OpenSocket
  BY DEF TypeInv, TypeOK
<1>2. [sock[s] EXCEPT ![half] = FALSE] \in OpenSocket
  BY <1>1 DEF OpenSocket
<1> QED
  BY <1>1, <1>2 DEF Left, TypeInv, TypeOK

LEMMA AnswerTypes ==
  ASSUME TypeInv, NEW s \in Sockets, NEW k \in {"welcome", "refusal"}, Answer(s, k)
  PROVE  /\ sock' \in [Sockets -> OpenSocket \cup {None}] /\ SenderOpen'
         /\ events' \in Seq(Event)
<1>1. sock[s] \in OpenSocket
  BY DEF Answer, TypeInv, TypeOK
<1>2. sock'[s] = [sock[s] EXCEPT !.asked = @ - 1, !.user = @ \/ k = "welcome",
                    !.room = IF k = "welcome" \/ sock[s].user THEN @ ELSE None]
  BY <1>1 DEF Answer, TypeInv, TypeOK
<1>3. sock'[s] \in OpenSocket
  <2>1. sock[s].asked - 1 \in Nat
    BY <1>1 DEF Answer, OpenSocket
  <2>2. (sock[s].user \/ k = "welcome") \in BOOLEAN
    OBVIOUS
  <2>3. (IF k = "welcome" \/ sock[s].user THEN sock[s].room ELSE None) \in Rooms \cup {None}
    BY <1>1 DEF OpenSocket
  <2> QED
    BY <1>1, <1>2, <2>1, <2>2, <2>3 DEF OpenSocket
<1>4. \A x \in Sockets \ {s} : sock'[x] = sock[x]
  BY DEF Answer, TypeInv, TypeOK
<1>5. sock' \in [Sockets -> OpenSocket \cup {None}]
  BY <1>3 DEF Answer, TypeInv, TypeOK
<1>6. sock'[s].send = sock[s].send /\ sock'[s].recv = sock[s].recv
  BY <1>1, <1>2 DEF OpenSocket
<1>7. SenderOpen'
  BY <1>3, <1>4, <1>6, NoneAssumption DEF SenderOpen, Answer, TypeInv, TypeOK
<1>8. events' \in Seq(Event)
  BY <1>1, PostTypes DEF Answer, TypeInv, OpenSocket
<1> QED
  BY <1>5, <1>7, <1>8


LEMMA ForgetTypes ==
  ASSUME TypeOK, Forget
  PROVE  /\ session' \in BOOLEAN /\ main' \in BOOLEAN /\ authenticated' \in BOOLEAN
         /\ reconnect' \in Reconnection \cup {None} /\ room' \in Rooms \cup {None}
         /\ ws_tx' \in Sockets \cup {None} /\ connect_gen' \in Nat /\ SenderOpen'
<1>1. session' \in BOOLEAN /\ main' \in BOOLEAN /\ authenticated' \in BOOLEAN
  BY DEF Forget
<1>2. reconnect' = None /\ room' = None /\ ws_tx' = None /\ connect_gen' \in Nat
  BY DEF Forget, TypeOK
<1> QED
  BY <1>1, <1>2 DEF SenderOpen

LEMMA ScheduleTypes ==
  ASSUME TypeInv, NEW rc \in Reconnection, NEW tx \in {ws_tx, None},
         NEW auth \in BOOLEAN, Schedule(rc, tx, auth), UNCHANGED sock
  PROVE  /\ session' \in BOOLEAN /\ main' \in BOOLEAN /\ authenticated' \in BOOLEAN
         /\ reconnect' \in Reconnection \cup {None} /\ room' \in Rooms \cup {None}
         /\ ws_tx' \in Sockets \cup {None} /\ connect_gen' \in Nat /\ SenderOpen'
         /\ task' \in [Tasks -> Attempts \cup {None}]
<1>1. CASE rc.attempt < MaxAttempts
  <2>1. [rc EXCEPT !.attempt = @ + 1] \in Reconnection
    BY <1>1, ConnectionAssumption DEF Reconnection
  <2>2. task' \in [Tasks -> Attempts \cup {None}]
    BY <1>1, SpawnTypes DEF Schedule, TypeInv, TypeOK
  <2> QED
    BY <1>1, <2>1, <2>2 DEF Schedule, TypeInv, TypeOK, SenderOpen
<1>2. CASE ~(rc.attempt < MaxAttempts)
  BY <1>2, ForgetTypes DEF Schedule, TypeInv, TypeOK
<1> QED
  BY <1>1, <1>2

(* The steps of the user. *)
LEMMA UserTypes ==
  ASSUME TypeInv, User
  PROVE  TypeInv'
<1>1. acts' \in 0 .. MaxActs
  BY ConnectionAssumption DEF User, DoConnect, DoDisconnect, JoinRoom, LeaveRoom,
       UserActs, TypeInv, TypeOK
<1>2. CASE DoConnect
  <2>1. task' \in [Tasks -> Attempts \cup {None}]
    BY <1>2, SpawnTypes DEF DoConnect, TypeInv, TypeOK
  <2> QED
    BY <1>1, <1>2, <2>1 DEF DoConnect, TypeInv, TypeOK, SenderOpen
<1>3. CASE DoDisconnect
  BY <1>1, <1>3, ForgetTypes DEF DoDisconnect, TypeInv, TypeOK
<1>4. CASE LeaveRoom
  <2>1. early' \in BOOLEAN
    BY <1>4 DEF LeaveRoom
  <2> QED
    BY <1>1, <1>4, <2>1, SendRoomTypes DEF LeaveRoom, sharedVars, TypeInv, TypeOK, SenderOpen
<1>5. ASSUME NEW r \in Rooms, JoinRoom(r)
      PROVE  TypeInv'
  <2>1. early' \in BOOLEAN
    BY <1>5 DEF JoinRoom
  <2> QED
    BY <1>1, <1>5, <2>1, JoinTypes DEF JoinRoom, sharedVars, TypeInv, TypeOK
<1> QED
  BY <1>2, <1>3, <1>4, <1>5 DEF User

(* The steps of a connection attempt. *)
LEMMA AttemptTypes ==
  ASSUME TypeInv, NEW a \in Tasks, Attempt(a)
  PROVE  TypeInv'
<1>1. task' \in [Tasks -> Attempts \cup {None}] /\ task[a] \in Attempts
  BY GotoTypes, FinishTypes
     DEF Attempt, Start, OpenFails, OpenSucceeds, Login, At, TypeInv, TypeOK
<1>2. task[a].gen \in Nat
  BY <1>1 DEF Attempts
<1>3. CASE Start(a)
  BY <1>1, <1>3 DEF Start, uiVars, sharedVars, TypeInv, TypeOK, SenderOpen
<1>4. CASE OpenFails(a)
  BY <1>1, <1>2, <1>4, PostTypes DEF OpenFails, uiVars, TypeInv, TypeOK, SenderOpen
<1>5. CASE OpenSucceeds(a)
  <2> DEFINE s == CHOOSE x \in FreeSockets : TRUE
             new == [send |-> TRUE, recv |-> TRUE, link |-> TRUE, asked |-> 0,
                     user |-> FALSE, room |-> None,
                     gen |-> task[a].gen, by |-> a]
  <2>1. s \in Sockets
    BY <1>5 DEF OpenSucceeds, FreeSockets
  <2>2. ws_tx' = s /\ sock' = [sock EXCEPT ![s] = new]
    BY <1>5 DEF OpenSucceeds
  <2>3. new \in OpenSocket /\ new.send /\ new.recv
    BY <1>2 DEF OpenSocket
  <2>4. sock' \in [Sockets -> OpenSocket \cup {None}] /\ sock'[s] = new
    BY <2>1, <2>2, <2>3 DEF TypeInv, TypeOK
  <2>5. SenderOpen'
    BY <2>2, <2>3, <2>4, NoneAssumption DEF SenderOpen
  <2>6. stale' \in BOOLEAN
    BY <1>5 DEF OpenSucceeds, Acting
  <2> QED
    BY <1>1, <1>5, <2>1, <2>2, <2>4, <2>5, <2>6 DEF OpenSucceeds, uiVars, TypeInv, TypeOK
<1>6. CASE Login(a)
  <2>1. CASE ws_tx = None
    BY <1>1, <1>6, <2>1 DEF Login, uiVars, sharedVars, TypeInv, TypeOK, SenderOpen
  <2>2. CASE ws_tx # None
    <3>1. ws_tx \in Sockets /\ sock[ws_tx] \in OpenSocket
      BY <2>2 DEF TypeInv, TypeOK, SenderOpen
    <3>2. sock' = [sock EXCEPT ![ws_tx].asked = @ + 1]
      BY <1>6, <2>2 DEF Login
    <3>3. sock'[ws_tx] = [sock[ws_tx] EXCEPT !.asked = @ + 1]
      BY <3>1, <3>2 DEF TypeInv, TypeOK
    <3>4. sock'[ws_tx] \in OpenSocket /\ sock'[ws_tx].send /\ sock'[ws_tx].recv
      BY <2>2, <3>1, <3>3 DEF OpenSocket, TypeInv, SenderOpen
    <3>5. sock' \in [Sockets -> OpenSocket \cup {None}]
      BY <3>1, <3>2, <3>3, <3>4 DEF TypeInv, TypeOK
    <3>6. stale' \in BOOLEAN
      BY <1>6, <2>2 DEF Login
    <3>7. SenderOpen'
      BY <1>6, <3>4, NoneAssumption DEF Login, sharedVars, SenderOpen
    <3> QED
      BY <1>1, <1>6, <3>5, <3>6, <3>7 DEF Login, uiVars, sharedVars, TypeInv, TypeOK
  <2> QED
    BY <2>1, <2>2
<1> QED
  BY <1>3, <1>4, <1>5, <1>6 DEF Attempt


(* The steps of the two tasks of a socket, and of its link. *)
LEMMA SocketTypes ==
  ASSUME TypeInv, NEW s \in Sockets,
         Receiver(s) \/ SenderEnds(s) \/ LinkBreaks(s)
  PROVE  TypeInv'
<1>1. sock[s] # None /\ sock[s] \in OpenSocket
  BY DEF Receiver, Welcomed, Refused, Answer, ReceiverEnds, SenderEnds, LinkBreaks,
         TypeInv, TypeOK
<1>2. sock[s].gen \in Nat
  BY <1>1 DEF OpenSocket
<1>3. CASE Welcomed(s)
  <2>1. authenticated' \in BOOLEAN /\ stale' \in BOOLEAN
    BY <1>3 DEF Welcomed, Acting
  <2> QED
    BY <1>3, <2>1, AnswerTypes DEF Welcomed, Answer, uiVars, TypeInv, TypeOK
<1>4. CASE Refused(s)
  BY <1>4, AnswerTypes DEF Refused, Answer, uiVars, TypeInv, TypeOK
<1>5. ASSUME NEW half \in {"send", "recv"}, Left(s, half), Clears(s)
      PROVE  sock' \in [Sockets -> OpenSocket \cup {None}] /\ SenderOpen'
             /\ ws_tx' = None /\ stale' \in BOOLEAN
  <2>1. sock' \in [Sockets -> OpenSocket \cup {None}]
    BY <1>1, <1>5, LeftTypes
  <2>2. ws_tx' = None /\ stale' \in BOOLEAN
    BY <1>5 DEF Clears
  <2> QED
    BY <2>1, <2>2 DEF SenderOpen
<1>6. CASE ReceiverEnds(s)
  <2>1. events' \in Seq(Event)
    BY <1>2, <1>6, PostTypes DEF ReceiverEnds, TypeInv
  <2>2. authenticated' \in BOOLEAN
    BY <1>6 DEF ReceiverEnds
  <2> QED
    BY <1>5, <1>6, <2>1, <2>2 DEF ReceiverEnds, uiVars, TypeInv, TypeOK
<1>7. CASE SenderEnds(s)
  BY <1>5, <1>7 DEF SenderEnds, uiVars, TypeInv, TypeOK
<1>8. CASE LinkBreaks(s)
  <2>1. sock' = [sock EXCEPT ![s].link = FALSE]
    BY <1>8 DEF LinkBreaks
  <2>2. sock'[s] = [sock[s] EXCEPT !.link = FALSE]
    BY <1>1, <2>1 DEF TypeInv, TypeOK
  <2>3. sock'[s] \in OpenSocket /\ sock'[s].send = sock[s].send /\ sock'[s].recv = sock[s].recv
    BY <1>1, <2>2 DEF OpenSocket
  <2>4. sock' \in [Sockets -> OpenSocket \cup {None}]
    BY <2>1, <2>2, <2>3 DEF TypeInv, TypeOK
  <2>5. \A x \in Sockets \ {s} : sock'[x] = sock[x]
    BY <2>1 DEF TypeInv, TypeOK
  <2>6. ws_tx' = ws_tx
    BY <1>8 DEF LinkBreaks, sharedVars
  <2>7. SenderOpen'
    BY <2>3, <2>5, <2>6, NoneAssumption DEF SenderOpen, TypeInv, TypeOK
  <2> QED
    BY <1>8, <2>4, <2>7 DEF LinkBreaks, uiVars, sharedVars, TypeInv, TypeOK
<1> QED
  BY <1>3, <1>4, <1>6, <1>7, <1>8 DEF Receiver

(* The steps of the UI thread that handle an event. *)
LEMMA EventTypes ==
  ASSUME TypeInv, HandleEvent
  PROVE  TypeInv'
<1>1. /\ events' \in Seq(Event) /\ stale' \in BOOLEAN /\ acts' = acts
  BY HandleTypes DEF HandleEvent, HandleWelcome, HandleRefusal, HandleLost, HandleFailed,
                     TypeInv
<1>2. CASE HandleWelcome
  <2>1. /\ main' \in BOOLEAN /\ reconnect' = None
        /\ UNCHANGED <<session, ws_tx, authenticated, connect_gen, task>>
    BY <1>2 DEF HandleWelcome
  <2>2. CASE reconnect # None /\ reconnect.room # None
    <3>1. reconnect.room \in Rooms
      BY <2>2 DEF TypeInv, TypeOK, Reconnection
    <3>2. Join(reconnect.room) /\ early' \in BOOLEAN
      BY <1>2, <2>2 DEF HandleWelcome
    <3> QED
      BY <1>1, <2>1, <3>1, <3>2, JoinTypes DEF TypeInv, TypeOK
  <2>3. CASE ~(reconnect # None /\ reconnect.room # None)
    BY <1>1, <1>2, <2>1, <2>3 DEF HandleWelcome, TypeInv, TypeOK, SenderOpen
  <2> QED
    BY <2>2, <2>3
<1>3. CASE HandleRefusal
  BY <1>1, <1>3, ForgetTypes DEF HandleRefusal, TypeInv, TypeOK
<1>4. CASE HandleLost
  <2>1. CASE session
    <3> DEFINE rc == IF reconnect = None THEN [attempt |-> 0, room |-> room] ELSE reconnect
    <3>1. rc \in Reconnection
      BY ConnectionAssumption DEF TypeInv, TypeOK, Reconnection
    <3>2. Schedule(rc, None, FALSE) /\ UNCHANGED <<sock, early>>
      BY <1>4, <2>1 DEF HandleLost
    <3> HIDE DEF rc
    <3> QED
      BY <1>1, <3>1, <3>2, ScheduleTypes DEF TypeInv, TypeOK
  <2>2. CASE ~session
    BY <1>1, <1>4, <2>2 DEF HandleLost, uiVars, TypeInv, TypeOK, SenderOpen
  <2> QED
    BY <2>1, <2>2
<1>5. CASE HandleFailed
  <2>1. CASE reconnect # None
    <3>1. reconnect \in Reconnection /\ authenticated \in BOOLEAN
      BY <2>1 DEF TypeInv, TypeOK
    <3>2. Schedule(reconnect, ws_tx, authenticated) /\ UNCHANGED <<sock, early>>
      BY <1>5, <2>1 DEF HandleFailed
    <3> QED
      BY <1>1, <3>1, <3>2, ScheduleTypes DEF TypeInv, TypeOK
  <2>2. CASE reconnect = None
    BY <1>1, <1>5, <2>2, ForgetTypes DEF HandleFailed, TypeInv, TypeOK
  <2> QED
    BY <2>1, <2>2
<1> QED
  BY <1>2, <1>3, <1>4, <1>5 DEF HandleEvent

LEMMA TypeStep == TypeInv /\ [Next]_vars => TypeInv'
<1> SUFFICES ASSUME TypeInv, [Next]_vars PROVE TypeInv'
  OBVIOUS
<1>1. CASE UNCHANGED vars
  BY <1>1 DEF vars, uiVars, sharedVars, TypeInv, TypeOK, SenderOpen
<1> QED
  BY <1>1, UserTypes, AttemptTypes, SocketTypes, EventTypes DEF Next

(* The types hold in every behaviour, and ws_tx always belongs to a socket
   whose two tasks run (ws_client.rs: connect). *)
THEOREM ConnectionTypes == Spec => []TypeOK
<1>1. Spec => []TypeInv
  BY TypeInit, TypeStep, PTL DEF Spec
<1> QED
  BY <1>1, PTL DEF TypeInv


----------------------------------------------------------------------------
(* Nothing that is left over is of a generation above b. *)
TasksUpTo(b)   == \A a \in Tasks : task[a] # None => task[a].gen <= b
SocketsUpTo(b) == \A s \in Sockets : sock[s] # None => sock[s].gen <= b
EventsUpTo(b)  == \A i \in 1 .. Len(events) : events[i].gen <= b
GensUpTo(b)    == TasksUpTo(b) /\ SocketsUpTo(b) /\ EventsUpTo(b)

Disconnected ==
  ws_tx = None /\ ~authenticated /\ ~main /\ room = None /\ reconnect = None

(* After a disconnect everything left over is of an older generation. *)
Orphaned ==
  stale \/ session \/ (Disconnected /\ GensUpTo(connect_gen - 1))

DisconnectInv == GensUpTo(connect_gen) /\ Orphaned

LEMMA DisconnectInit == Init => DisconnectInv
BY ConnectionAssumption DEF Init, DisconnectInv, Orphaned, Disconnected, GensUpTo,
   TasksUpTo, SocketsUpTo, EventsUpTo

LEMMA PostKeeps ==
  ASSUME TypeInv, NEW b \in Int, EventsUpTo(b), NEW k, NEW g \in Nat, g <= b, Post(k, g)
  PROVE  EventsUpTo(b)'
<1> DEFINE e == [kind |-> k, gen |-> g]
<1>1. events' = Append(events, e) /\ e.gen <= b
  BY DEF Post
<1>2. events \in Seq(Event)
  BY DEF TypeInv, TypeOK
<1> HIDE DEF e
<1>3. \A i \in 1 .. Len(events') : events'[i] = IF i <= Len(events) THEN events[i] ELSE e
  BY <1>1, <1>2
<1>4. Len(events') = Len(events) + 1 /\ Len(events) \in Nat
  BY <1>1, <1>2
<1> QED
  BY <1>1, <1>3, <1>4 DEF EventsUpTo

LEMMA TailKeeps ==
  ASSUME TypeInv, NEW b \in Int, EventsUpTo(b), NEW k, Handle(k)
  PROVE  EventsUpTo(b)' /\ Head(events).gen <= b
<1>1. events \in Seq(Event) /\ events # <<>> /\ events' = Tail(events)
  BY DEF TypeInv, TypeOK, Handle
<1>2. Len(events) >= 1 /\ Head(events) = events[1] /\ Len(events) \in Nat
  BY <1>1
<1>3. Len(events') = Len(events) - 1
      /\ \A i \in 1 .. Len(events') : events'[i] = events[i + 1]
  BY <1>1
<1> QED
  BY <1>2, <1>3 DEF EventsUpTo

LEMMA SpawnKeeps ==
  ASSUME TypeInv, NEW b \in Int, TasksUpTo(b), NEW g \in Nat, g <= b, Spawn(g)
  PROVE  TasksUpTo(b)'
<1> DEFINE a == CHOOSE x \in FreeTasks : TRUE
<1>1. a \in Tasks /\ task' = [task EXCEPT ![a] = [pc |-> "start", gen |-> g]]
  BY DEF Spawn, FreeTasks
<1> HIDE DEF a
<1> QED
  BY <1>1 DEF TasksUpTo, TypeInv, TypeOK

(* A room command and the end of one half of a socket keep its generation. *)
LEMMA SendRoomKeeps ==
  ASSUME TypeInv, NEW b \in Int, SocketsUpTo(b), NEW r, ws_tx # None, SendRoom(r)
  PROVE  SocketsUpTo(b)'
<1>1. ws_tx \in Sockets /\ sock[ws_tx] \in OpenSocket /\ sock[ws_tx] # None
  BY DEF TypeInv, TypeOK, SenderOpen
<1>2. sock'[ws_tx].gen = sock[ws_tx].gen
  BY <1>1 DEF SendRoom, TypeInv, TypeOK, OpenSocket
<1>3. \A s \in Sockets \ {ws_tx} : sock'[s] = sock[s]
  BY DEF SendRoom, TypeInv, TypeOK
<1> QED
  BY <1>1, <1>2, <1>3 DEF SocketsUpTo

LEMMA JoinKeeps ==
  ASSUME TypeInv, NEW b \in Int, SocketsUpTo(b), NEW r, Join(r)
  PROVE  SocketsUpTo(b)'
<1>1. CASE ws_tx = None
  BY <1>1 DEF Join, SocketsUpTo
<1> QED
  BY <1>1, SendRoomKeeps DEF Join

LEMMA LeftKeeps ==
  ASSUME TypeInv, NEW b \in Int, SocketsUpTo(b), NEW s \in Sockets,
         NEW half \in {"send", "recv"}, sock[s] # None, Left(s, half)
  PROVE  SocketsUpTo(b)'
<1>1. sock[s] \in OpenSocket
  BY DEF TypeInv, TypeOK
<1>2. [sock[s] EXCEPT ![half] = FALSE].gen = sock[s].gen
  BY <1>1 DEF OpenSocket
<1> QED
  BY <1>2 DEF Left, SocketsUpTo, TypeInv, TypeOK

(* An attempt and a socket hand on the generation they have. *)
LEMMA AttemptKeeps ==
  ASSUME TypeInv, NEW b \in Int, GensUpTo(b), NEW a \in Tasks, Attempt(a)
  PROVE  GensUpTo(b)' /\ task[a].gen <= b
<1>1. task[a] # None /\ task[a] \in Attempts
  BY DEF Attempt, Start, OpenFails, OpenSucceeds, Login, At, TypeInv, TypeOK
<1>2. task[a].gen \in Nat /\ task[a].gen <= b
  BY <1>1 DEF Attempts, GensUpTo, TasksUpTo
<1>3. TasksUpTo(b)'
  <2>1. ASSUME NEW pc, Goto(a, pc)
        PROVE  TasksUpTo(b)'
    <3>1. task' = [task EXCEPT ![a] = [task[a] EXCEPT !.pc = pc]]
      BY <1>1, <2>1 DEF Goto, TypeInv, TypeOK
    <3>2. [task[a] EXCEPT !.pc = pc].gen = task[a].gen
      BY <1>1 DEF Attempts
    <3> QED
      BY <1>2, <3>1, <3>2 DEF GensUpTo, TasksUpTo, TypeInv, TypeOK
  <2>2. ASSUME Finish(a)
        PROVE  TasksUpTo(b)'
    BY <2>2 DEF Finish, GensUpTo, TasksUpTo, TypeInv, TypeOK
  <2> QED
    BY <2>1, <2>2 DEF Attempt, Start, OpenFails, OpenSucceeds, Login
<1>4. EventsUpTo(b)'
  BY <1>2, PostKeeps DEF GensUpTo, EventsUpTo, Attempt, Start, OpenFails, OpenSucceeds,
                         Login, sharedVars
<1>5. SocketsUpTo(b)'
  <2>1. CASE OpenSucceeds(a)
    <3> DEFINE s == CHOOSE x \in FreeSockets : TRUE
               new == [send |-> TRUE, recv |-> TRUE, link |-> TRUE, asked |-> 0,
                       user |-> FALSE, room |-> None,
                       gen |-> task[a].gen, by |-> a]
    <3>1. sock' = [sock EXCEPT ![s] = new] /\ new.gen = task[a].gen
      BY <2>1 DEF OpenSucceeds
    <3> HIDE DEF s, new
    <3> QED
      BY <1>2, <3>1 DEF GensUpTo, SocketsUpTo, TypeInv, TypeOK
  <2>2. CASE Login(a) /\ ws_tx # None
    <3>1. ws_tx \in Sockets /\ sock[ws_tx] # None /\ sock[ws_tx] \in OpenSocket
      BY <2>2 DEF TypeInv, TypeOK, SenderOpen
    <3>2. sock' = [sock EXCEPT ![ws_tx] = [sock[ws_tx] EXCEPT !.asked = @ + 1]]
      BY <2>2, <3>1 DEF Login, TypeInv, TypeOK
    <3>3. [sock[ws_tx] EXCEPT !.asked = @ + 1].gen = sock[ws_tx].gen
      BY <3>1 DEF OpenSocket
    <3> QED
      BY <3>1, <3>2, <3>3 DEF GensUpTo, SocketsUpTo, TypeInv, TypeOK
  <2>3. CASE sock' = sock
    BY <2>3 DEF GensUpTo, SocketsUpTo
  <2> QED
    BY <2>1, <2>2, <2>3 DEF Attempt, Start, OpenFails, Login
<1> QED
  BY <1>2, <1>3, <1>4, <1>5 DEF GensUpTo


LEMMA SocketKeeps ==
  ASSUME TypeInv, NEW b \in Int, GensUpTo(b), NEW s \in Sockets,
         Receiver(s) \/ SenderEnds(s) \/ LinkBreaks(s)
  PROVE  GensUpTo(b)' /\ sock[s].gen <= b
<1>1. sock[s] # None /\ sock[s] \in OpenSocket
  BY DEF Receiver, Welcomed, Refused, Answer, ReceiverEnds, SenderEnds, LinkBreaks,
         TypeInv, TypeOK
<1>2. sock[s].gen \in Nat /\ sock[s].gen <= b
  BY <1>1 DEF OpenSocket, GensUpTo, SocketsUpTo
<1>3. TasksUpTo(b)'
  BY DEF Receiver, Welcomed, Refused, Answer, ReceiverEnds, SenderEnds, LinkBreaks,
         GensUpTo, TasksUpTo
<1>4. EventsUpTo(b)'
  BY <1>2, PostKeeps DEF Receiver, Welcomed, Refused, Answer, ReceiverEnds, SenderEnds,
     LinkBreaks, sharedVars, GensUpTo, EventsUpTo
<1>5. SocketsUpTo(b)'
  <2>1. CASE ReceiverEnds(s) \/ SenderEnds(s)
    BY <1>1, <2>1, LeftKeeps DEF ReceiverEnds, SenderEnds, GensUpTo
  <2>2. CASE LinkBreaks(s)
    <3>1. sock' = [sock EXCEPT ![s] = [sock[s] EXCEPT !.link = FALSE]]
      BY <1>1, <2>2 DEF LinkBreaks, TypeInv, TypeOK
    <3>2. [sock[s] EXCEPT !.link = FALSE].gen = sock[s].gen
      BY <1>1 DEF OpenSocket
    <3> QED
      BY <1>2, <3>1, <3>2 DEF GensUpTo, SocketsUpTo, TypeInv, TypeOK
  <2>3. ASSUME NEW k, Answer(s, k)
        PROVE  SocketsUpTo(b)'
    <3> DEFINE r == [sock[s] EXCEPT !.asked = @ - 1, !.user = @ \/ k = "welcome",
                       !.room = IF k = "welcome" \/ sock[s].user THEN @ ELSE None]
    <3>1. sock' = [sock EXCEPT ![s] = r]
      BY <1>1, <2>3 DEF Answer, TypeInv, TypeOK
    <3>2. r.gen = sock[s].gen
      BY <1>1 DEF OpenSocket
    <3> HIDE DEF r
    <3> QED
      BY <1>2, <3>1, <3>2 DEF GensUpTo, SocketsUpTo, TypeInv, TypeOK
  <2> QED
    BY <2>1, <2>2, <2>3 DEF Receiver, Welcomed, Refused
<1> QED
  BY <1>2, <1>3, <1>4, <1>5 DEF GensUpTo

LEMMA GensWiden ==
  ASSUME TypeInv, NEW b \in Int, NEW d \in Int, b <= d, GensUpTo(b)
  PROVE  GensUpTo(d)
<1>1. \A a \in Tasks : task[a] # None => task[a].gen \in Nat
  BY DEF TypeInv, TypeOK, Attempts
<1>2. \A s \in Sockets : sock[s] # None => sock[s].gen \in Nat
  BY DEF TypeInv, TypeOK, OpenSocket
<1>3. \A i \in 1 .. Len(events) : events[i].gen \in Nat
  <2>1. events \in Seq(Event) /\ \A e \in Event : e.gen \in Nat
    BY DEF TypeInv, TypeOK, Event
  <2> QED
    BY <2>1
<1> QED
  BY <1>1, <1>2, <1>3 DEF GensUpTo, TasksUpTo, SocketsUpTo, EventsUpTo

(* The UI hands on no generation; an attempt it starts has the current one. *)
LEMMA UIKeeps ==
  ASSUME TypeInv, NEW b \in Int, GensUpTo(b), User \/ HandleEvent,
         connect_gen' <= b \/ UNCHANGED task
  PROVE  GensUpTo(b)'
<1>1. connect_gen \in Nat
  BY DEF TypeInv, TypeOK
<1>2. SocketsUpTo(b)'
  BY JoinKeeps, SendRoomKeeps DEF User, DoConnect, DoDisconnect, JoinRoom, LeaveRoom,
     HandleEvent, HandleWelcome, HandleRefusal, HandleLost, HandleFailed, GensUpTo, SocketsUpTo
<1>3. EventsUpTo(b)'
  BY TailKeeps DEF User, DoConnect, DoDisconnect, JoinRoom, LeaveRoom, sharedVars,
     HandleEvent, HandleWelcome, HandleRefusal, HandleLost, HandleFailed, GensUpTo, EventsUpTo
<1>4. TasksUpTo(b)'
  <2>1. CASE UNCHANGED task
    BY <2>1 DEF GensUpTo, TasksUpTo
  <2>2. ASSUME NEW g \in Nat, Spawn(g), g = connect_gen', connect_gen' <= b
        PROVE  TasksUpTo(b)'
    BY <2>2, SpawnKeeps DEF GensUpTo
  <2>3. CASE DoConnect
    BY <1>1, <2>1, <2>2, <2>3 DEF DoConnect
  <2>4. ASSUME NEW rc, NEW tx, NEW auth, Schedule(rc, tx, auth)
        PROVE  TasksUpTo(b)'
    BY <1>1, <2>1, <2>2, <2>4 DEF Schedule
  <2> QED
    BY <2>1, <2>3, <2>4 DEF User, DoDisconnect, JoinRoom, LeaveRoom,
       HandleEvent, HandleWelcome, HandleRefusal, HandleLost, HandleFailed, uiVars
<1> QED
  BY <1>2, <1>3, <1>4 DEF GensUpTo

(* A session ends by do_disconnect only, which leaves the tasks alone. *)
LEMMA SessionEnds ==
  ASSUME session, ~session', Next
  PROVE  Forget /\ UNCHANGED task /\ (User \/ HandleEvent)
BY DEF Next, User, DoConnect, DoDisconnect, JoinRoom, LeaveRoom,
   HandleEvent, HandleWelcome, HandleRefusal, HandleLost, HandleFailed, Schedule,
   Attempt, Start, OpenFails, OpenSucceeds, Login,
   Receiver, Welcomed, Refused, Answer, ReceiverEnds, SenderEnds, LinkBreaks, uiVars

LEMMA GensStep == TypeInv /\ GensUpTo(connect_gen) /\ [Next]_vars => GensUpTo(connect_gen)'
<1> SUFFICES ASSUME TypeInv, GensUpTo(connect_gen), [Next]_vars
             PROVE  GensUpTo(connect_gen)'
  OBVIOUS
<1>1. connect_gen \in Nat /\ connect_gen' \in Nat
  BY TypeStep DEF TypeInv, TypeOK
<1>2. connect_gen <= connect_gen'
  <2>1. ASSUME NEW rc, NEW tx, NEW auth, Schedule(rc, tx, auth)
        PROVE  connect_gen' \in {connect_gen, connect_gen + 1}
    BY <2>1 DEF Schedule, Forget
  <2>2. CASE HandleEvent
    <3>1. CASE HandleWelcome \/ HandleRefusal
      BY <1>1, <3>1 DEF HandleWelcome, HandleRefusal, Forget
    <3>2. CASE HandleLost
      <4>1. CASE session
        <5>1. PICK rc : Schedule(rc, None, FALSE)
          BY <3>2, <4>1 DEF HandleLost
        <5>2. connect_gen' \in {connect_gen, connect_gen + 1}
          BY <2>1, <5>1
        <5> QED
          BY <1>1, <5>2
      <4>2. CASE ~session
        BY <1>1, <3>2, <4>2 DEF HandleLost
      <4> QED
        BY <4>1, <4>2
    <3>3. CASE HandleFailed
      BY <1>1, <2>1, <3>3 DEF HandleFailed, Forget
    <3> QED
      BY <2>2, <3>1, <3>2, <3>3 DEF HandleEvent
  <2>3. CASE User
    BY <1>1, <2>3 DEF User, DoConnect, DoDisconnect, JoinRoom, LeaveRoom, Forget, sharedVars
  <2>4. ASSUME NEW a \in Tasks, Attempt(a)
        PROVE  connect_gen' = connect_gen
    BY <2>4 DEF Attempt, Start, OpenFails, OpenSucceeds, Login, sharedVars
  <2>5. ASSUME NEW s \in Sockets, Receiver(s) \/ SenderEnds(s) \/ LinkBreaks(s)
        PROVE  connect_gen' = connect_gen
    BY <2>5 DEF Receiver, Welcomed, Refused, Answer, ReceiverEnds, SenderEnds, LinkBreaks,
       sharedVars
  <2> QED
    BY <1>1, <2>2, <2>3, <2>4, <2>5 DEF Next, vars, sharedVars
<1>3. PICK b \in Nat : b = connect_gen'
  BY <1>1
<1>4. GensUpTo(b)
  BY <1>1, <1>2, <1>3, GensWiden
<1>5. GensUpTo(b)'
  <2>1. CASE User \/ HandleEvent
    BY <1>3, <1>4, <2>1, UIKeeps
  <2>2. CASE UNCHANGED vars
    BY <1>4, <2>2 DEF vars, sharedVars, GensUpTo, TasksUpTo, SocketsUpTo, EventsUpTo
  <2> QED
    BY <1>4, <2>1, <2>2, AttemptKeeps, SocketKeeps DEF Next
<1> QED
  BY <1>3, <1>5 DEF GensUpTo, TasksUpTo, SocketsUpTo, EventsUpTo

LEMMA Predecessor == \A b \in Int, g \in Nat : b < g => g - 1 \in Int /\ b <= g - 1
  OBVIOUS

LEMMA OrphanedStep ==
  TypeInv /\ DisconnectInv /\ [Next]_vars => Orphaned'
<1> SUFFICES ASSUME TypeInv, DisconnectInv, [Next]_vars, ~stale', ~session'
             PROVE  Disconnected' /\ GensUpTo(connect_gen - 1)'
  BY DEF Orphaned
<1>1. connect_gen \in Nat
  BY DEF TypeInv, TypeOK
<1>2. ~stale
  BY DEF vars, Next, User, DoConnect, DoDisconnect, JoinRoom, LeaveRoom, HandleEvent,
     HandleWelcome, HandleRefusal, HandleLost, HandleFailed, Handle, Acting, Clears,
     Attempt, Start, OpenFails, OpenSucceeds, Login,
     Receiver, Welcomed, Refused, Answer, ReceiverEnds, SenderEnds, LinkBreaks
<1>3. ASSUME NEW b \in Int, b < connect_gen', GensUpTo(b)'
      PROVE  GensUpTo(connect_gen - 1)'
  <2>1. TypeInv'
    BY TypeStep
  <2>2. connect_gen' \in Nat
    BY <2>1 DEF TypeInv, TypeOK
  <2>3. PICK g : g = connect_gen' /\ g \in Nat /\ b < g
    BY <1>3, <2>2
  <2>4. PICK d : d = g - 1 /\ d \in Int /\ b <= d
    BY <1>3, <2>3, Predecessor
  <2>5. GensUpTo(d)'
    <3>1. \A a \in Tasks : task'[a] # None => task'[a].gen \in Nat
      BY <2>1 DEF TypeInv, TypeOK, Attempts
    <3>2. \A s \in Sockets : sock'[s] # None => sock'[s].gen \in Nat
      BY <2>1 DEF TypeInv, TypeOK, OpenSocket
    <3>3. \A i \in 1 .. Len(events') : events'[i].gen \in Nat
      <4>1. events' \in Seq(Event) /\ \A e \in Event : e.gen \in Nat
        BY <2>1 DEF TypeInv, TypeOK, Event
      <4> QED
        BY <4>1
    <3> QED
      BY <1>3, <2>4, <3>1, <3>2, <3>3 DEF GensUpTo, TasksUpTo, SocketsUpTo, EventsUpTo
  <2> QED
    BY <2>3, <2>4, <2>5 DEF GensUpTo, TasksUpTo, SocketsUpTo, EventsUpTo
<1>4. CASE session
  <2>1. Forget /\ UNCHANGED task /\ (User \/ HandleEvent)
    BY <1>4, SessionEnds DEF vars, uiVars
  <2>2. PICK b \in Int : b = connect_gen
    BY <1>1
  <2>3. GensUpTo(b)'
    BY <2>1, <2>2, UIKeeps DEF DisconnectInv
  <2>4. b < connect_gen'
    BY <1>1, <2>1, <2>2 DEF Forget
  <2> QED
    BY <1>3, <2>1, <2>3, <2>4 DEF Forget, Disconnected
<1>5. CASE ~session
  <2>1. Disconnected
    BY <1>2, <1>5 DEF DisconnectInv, Orphaned
  <2>2. PICK b \in Int : b = connect_gen - 1
    BY <1>1
  <2>3. GensUpTo(b)
    BY <1>2, <1>5, <2>2 DEF DisconnectInv, Orphaned
  <2>4. CASE User
    <3>1. DoDisconnect
      BY <2>1, <2>4 DEF User, DoConnect, JoinRoom, LeaveRoom, Disconnected
    <3>2. GensUpTo(b)'
      BY <2>3, <2>4, <3>1, UIKeeps DEF DoDisconnect
    <3>3. b < connect_gen'
      BY <1>1, <2>2, <3>1 DEF DoDisconnect, Forget
    <3> QED
      BY <1>3, <3>1, <3>2, <3>3 DEF DoDisconnect, Forget, Disconnected
  <2>5. CASE HandleEvent
    <3>1. PICK k : Handle(k)
      BY <2>5 DEF HandleEvent, HandleWelcome, HandleRefusal, HandleLost, HandleFailed
    <3>2. Head(events).gen <= b
      BY <2>3, <3>1, TailKeeps DEF GensUpTo
    <3>3. Head(events).gen \in Nat
      BY <3>1, HandleTypes DEF TypeInv, Event
    <3>4. Head(events).gen # connect_gen
      BY <1>1, <2>2, <3>2, <3>3
    <3> QED
      BY <3>1, <3>4 DEF Handle, Acting
  <2>6. ASSUME NEW a \in Tasks, Attempt(a)
        PROVE  Disconnected' /\ GensUpTo(connect_gen - 1)'
    <3>1. GensUpTo(b)' /\ task[a].gen <= b /\ connect_gen' = connect_gen
      BY <2>3, <2>6, AttemptKeeps DEF Attempt, Start, OpenFails, OpenSucceeds, Login, sharedVars
    <3>2. task[a].gen \in Nat
      BY <2>6 DEF Attempt, Start, OpenFails, OpenSucceeds, Login, At, TypeInv, TypeOK, Attempts
    <3>3. task[a].gen # connect_gen
      BY <1>1, <2>2, <3>1, <3>2
    <3>4. ~OpenSucceeds(a)
      BY <3>3 DEF OpenSucceeds, Acting
    <3>5. Disconnected'
      BY <2>1, <2>6, <3>4 DEF Attempt, Start, OpenFails, Login, Disconnected, uiVars, sharedVars
    <3> QED
      BY <1>1, <1>3, <2>2, <3>1, <3>5
  <2>7. ASSUME NEW s \in Sockets, Receiver(s) \/ SenderEnds(s) \/ LinkBreaks(s)
        PROVE  Disconnected' /\ GensUpTo(connect_gen - 1)'
    <3>1. GensUpTo(b)' /\ sock[s].gen <= b /\ connect_gen' = connect_gen
      BY <2>3, <2>7, SocketKeeps DEF Receiver, Welcomed, Refused, Answer, ReceiverEnds,
         SenderEnds, LinkBreaks, sharedVars
    <3>2. sock[s].gen \in Nat
      BY <2>7 DEF Receiver, Welcomed, Refused, Answer, ReceiverEnds, SenderEnds, LinkBreaks,
         TypeInv, TypeOK, OpenSocket
    <3>3. sock[s].gen # connect_gen
      BY <1>1, <2>2, <3>1, <3>2
    <3>4. ~Welcomed(s)
      BY <3>3 DEF Welcomed, Acting
    <3>5. Disconnected'
      BY <2>1, <2>7, <3>4 DEF Receiver, Refused, Answer, ReceiverEnds, SenderEnds, LinkBreaks,
         Clears, Disconnected, uiVars, sharedVars
    <3> QED
      BY <1>1, <1>3, <2>2, <3>1, <3>5
  <2>8. CASE UNCHANGED vars
    <3>1. GensUpTo(b)' /\ connect_gen' = connect_gen
      BY <2>3, <2>8 DEF vars, sharedVars, GensUpTo, TasksUpTo, SocketsUpTo, EventsUpTo
    <3>2. Disconnected'
      BY <2>1, <2>8 DEF vars, uiVars, sharedVars, Disconnected
    <3> QED
      BY <1>1, <1>3, <2>2, <3>1, <3>2
  <2> QED
    BY <2>4, <2>5, <2>6, <2>7, <2>8 DEF Next
<1> QED
  BY <1>4, <1>5

(* After a disconnect the client stays disconnected until something that had
   passed the look at connect_gen before acts (establish_session,
   do_disconnect). *)
THEOREM DisconnectHolds == Spec => []DisconnectIsFinal
<1>1. TypeInv /\ DisconnectInv /\ [Next]_vars => (TypeInv /\ DisconnectInv)'
  <2> SUFFICES ASSUME TypeInv, DisconnectInv, [Next]_vars
               PROVE  TypeInv' /\ DisconnectInv'
    OBVIOUS
  <2>1. GensUpTo(connect_gen)' /\ Orphaned'
    BY GensStep, OrphanedStep DEF DisconnectInv
  <2> QED
    BY <2>1, TypeStep DEF DisconnectInv
<1>2. DisconnectInv => DisconnectIsFinal
  BY DEF DisconnectInv, Orphaned, Disconnected, DisconnectIsFinal
<1> QED
  BY <1>1, <1>2, TypeInit, DisconnectInit, PTL DEF Spec

----------------------------------------------------------------------------
(* What keeps a wanted session going, by kind. *)
Att == {a \in Tasks : (At(a, "start") \/ At(a, "open")) /\ task[a].gen = connect_gen}
Soc == {s \in Sockets : sock[s] # None /\ sock[s].recv /\ sock[s].gen = connect_gen}
Evt == {i \in 1 .. Len(events) :
          events[i].kind \in {"lost", "failed"} /\ events[i].gen = connect_gen}

Single ==
  \/ (\E a \in Tasks : Att = {a}) /\ Soc = {} /\ Evt = {}
  \/ Att = {} /\ (\E s \in Sockets : Soc = {s}) /\ Evt = {}
  \/ Att = {} /\ Soc = {} /\ (\E i \in 1 .. Len(events) : Evt = {i})

(* The socket in use is of the connection the user wants. *)
UsedInv == ws_tx # None => sock[ws_tx].gen = connect_gen

(* Its end is the last that is heard of a connection, and an attempt has
   nothing older of its generation before it. *)
HeardInv ==
  /\ \A i \in Evt, j \in 1 .. Len(events) : i < j => events[j].gen # connect_gen
  /\ Att # {} => /\ \A i \in 1 .. Len(events) : events[i].gen # connect_gen
                 /\ reconnect = None => ~main

(* What the UI takes for a login is one. *)
WelcomeInv ==
  /\ \A i \in 1 .. Len(events) :
       events[i].gen = connect_gen /\ events[i].kind = "welcome" /\ ws_tx # None =>
         sock[ws_tx].user
  /\ main /\ reconnect = None /\ ws_tx # None => sock[ws_tx].user

(* Without a room command in the middle of a reconnection, the reconnection
   knows the room and the server knows none; after it they agree. *)
RoomInv ==
  ~early =>
    /\ reconnect # None => /\ room = reconnect.room
                           /\ ws_tx # None => sock[ws_tx].room = None
    /\ reconnect = None /\ ws_tx # None => sock[ws_tx].room = room

SessionFacts == Single /\ UsedInv /\ HeardInv /\ WelcomeInv /\ RoomInv

FormInv    == ~main => room = None
SessionInv == FormInv /\ (~stale /\ session => SessionFacts)

(* The socket in use is the one thing that keeps the session going. *)
LEMMA UsedOnly ==
  ASSUME TypeInv, SessionFacts, ws_tx # None
  PROVE  Att = {} /\ Soc = {ws_tx} /\ Evt = {}
<1>1. ws_tx \in Soc
  BY DEF TypeInv, TypeOK, SenderOpen, SessionFacts, UsedInv, Soc
<1>2. QED
  BY <1>1 DEF SessionFacts, Single

(* Queueing an event. *)
LEMMA PostEvt ==
  ASSUME TypeInv, NEW k, NEW g, Post(k, g), connect_gen' = connect_gen
  PROVE  /\ Len(events) \in Nat /\ Len(events') = Len(events) + 1
         /\ \A i \in 1 .. Len(events) : events'[i] = events[i]
         /\ events'[Len(events) + 1].kind = k /\ events'[Len(events) + 1].gen = g
         /\ Evt' = IF k \in {"lost", "failed"} /\ g = connect_gen
                   THEN Evt \cup {Len(events) + 1} ELSE Evt
<1> DEFINE e == [kind |-> k, gen |-> g]
<1>1. events' = Append(events, e) /\ e.kind = k /\ e.gen = g
  BY DEF Post
<1> HIDE DEF e
<1>2. events \in Seq(Event)
  BY DEF TypeInv, TypeOK
<1>3. /\ Len(events) \in Nat /\ Len(events') = Len(events) + 1
      /\ \A i \in 1 .. Len(events) : events'[i] = events[i]
      /\ events'[Len(events) + 1] = e
  BY <1>1, <1>2
<1>4. 1 .. Len(events') = (1 .. Len(events)) \cup {Len(events) + 1}
  BY <1>3
<1>5. QED
  BY <1>1, <1>3, <1>4 DEF Evt

(* Handling an event of the current connection. *)
LEMMA HandleEvt ==
  ASSUME TypeInv, NEW k, Handle(k), ~stale', connect_gen' = connect_gen
  PROVE  /\ Len(events) \in Nat /\ Len(events) >= 1 /\ Len(events') = Len(events) - 1
         /\ \A i \in 1 .. Len(events') :
              i + 1 \in 1 .. Len(events) /\ events'[i] = events[i + 1]
         /\ events[1].kind = k /\ events[1].gen = connect_gen
         /\ 1 \in Evt <=> k \in {"lost", "failed"}
         /\ Evt' = {i \in 1 .. Len(events') : i + 1 \in Evt}
<1>1. events \in Seq(Event) /\ events # <<>> /\ events' = Tail(events)
  BY DEF TypeInv, TypeOK, Handle
<1>2. /\ Len(events) \in Nat /\ Len(events) >= 1 /\ Head(events) = events[1]
      /\ Len(events') = Len(events) - 1
      /\ \A i \in 1 .. Len(events') : events'[i] = events[i + 1]
  BY <1>1
<1>3. \A i \in 1 .. Len(events') : i + 1 \in 1 .. Len(events)
  BY <1>2
<1>4. events[1].kind = k /\ events[1].gen = connect_gen
  BY <1>2 DEF Handle, Acting
<1>5. 1 \in Evt <=> k \in {"lost", "failed"}
  BY <1>2, <1>4 DEF Evt
<1>6. Evt' = {i \in 1 .. Len(events') : i + 1 \in Evt}
  BY <1>2, <1>3 DEF Evt
<1>7. QED
  BY <1>2, <1>3, <1>4, <1>5, <1>6

(* A room command changes the user's room at the server and nothing else. *)
LEMMA SendRoomEffect ==
  ASSUME TypeInv, NEW r \in Rooms \cup {None}, ws_tx # None, SendRoom(r),
         UNCHANGED <<ws_tx, connect_gen>>
  PROVE  /\ Soc' = Soc
         /\ sock'[ws_tx].gen = sock[ws_tx].gen
         /\ sock'[ws_tx].user = sock[ws_tx].user
         /\ sock[ws_tx].user => sock'[ws_tx].room = r
<1>1. ws_tx \in Sockets /\ sock[ws_tx] \in OpenSocket /\ sock[ws_tx] # None
  BY DEF TypeInv, TypeOK, SenderOpen
<1> DEFINE x == IF sock[ws_tx].user \/ sock[ws_tx].asked > 0 THEN r ELSE sock[ws_tx].room
           n == [sock[ws_tx] EXCEPT !.room = x]
<1>2. sock' = [sock EXCEPT ![ws_tx] = n]
  BY <1>1 DEF SendRoom, TypeInv, TypeOK
<1>3. sock'[ws_tx] = n /\ \A s \in Sockets : s # ws_tx => sock'[s] = sock[s]
  BY <1>1, <1>2 DEF TypeInv, TypeOK
<1>4. n.gen = sock[ws_tx].gen /\ n.user = sock[ws_tx].user /\ n.recv = sock[ws_tx].recv
      /\ n.room = x /\ (sock[ws_tx].user => x = r)
  BY <1>1 DEF OpenSocket
<1>5. n # None
  <2>1. x \in Rooms \cup {None}
    BY <1>1 DEF OpenSocket
  <2>2. n \in OpenSocket
    BY <1>1, <2>1 DEF OpenSocket
  <2>3. QED
    BY <2>2, NoneAssumption
<1> HIDE DEF n, x
<1>6. Soc' = Soc
  <2>1. \A s \in Sockets :
          (sock'[s] # None /\ sock'[s].recv /\ sock'[s].gen = connect_gen)
          <=> (sock[s] # None /\ sock[s].recv /\ sock[s].gen = connect_gen)
    BY <1>1, <1>3, <1>4, <1>5
  <2>2. QED
    BY <2>1 DEF Soc
<1>7. QED
  BY <1>3, <1>4, <1>6

(* Steps that leave the session as it is. *)
LEMMA SameFacts ==
  ASSUME SessionFacts, Att' = Att, Soc' = Soc,
         UNCHANGED <<reconnect, main, room, ws_tx, connect_gen, events, early>>,
         ws_tx # None => /\ sock'[ws_tx].gen = sock[ws_tx].gen
                         /\ sock'[ws_tx].user = sock[ws_tx].user
                         /\ sock'[ws_tx].room = sock[ws_tx].room
  PROVE  SessionFacts'
<1>1. Evt' = Evt
  BY DEF Evt
<1>2. Single'
  BY <1>1 DEF SessionFacts, Single
<1>3. UsedInv'
  BY DEF SessionFacts, UsedInv
<1>4. HeardInv'
  BY <1>1 DEF SessionFacts, HeardInv
<1>5. WelcomeInv'
  BY DEF SessionFacts, WelcomeInv
<1>6. RoomInv'
  BY DEF SessionFacts, RoomInv
<1>7. QED
  BY <1>2, <1>3, <1>4, <1>5, <1>6 DEF SessionFacts

(* A new attempt is the first thing of its generation. *)
LEMMA ConnectFacts ==
  ASSUME TypeInv, FormInv, GensUpTo(connect_gen), DoConnect
  PROVE  SessionFacts'
<1>1. PICK g \in Nat : g = connect_gen
  BY DEF TypeInv, TypeOK
<1>2. /\ ~main /\ main' = main /\ room' = room /\ ws_tx = None /\ ws_tx' = None
      /\ reconnect' = None /\ connect_gen' = g + 1 /\ Spawn(g + 1)
      /\ events' = events /\ sock' = sock /\ early' = early
  BY <1>1 DEF DoConnect
<1>3. /\ \A x \in Tasks : task[x] # None => task[x].gen # g + 1
      /\ \A s \in Sockets : sock[s] # None => sock[s].gen # g + 1
      /\ \A i \in 1 .. Len(events) : events[i].gen # g + 1
  <2>1. \A n \in Nat : n <= g => n # g + 1
    BY <1>1
  <2>2. \A x \in Tasks : task[x] # None => task[x].gen \in Nat
    BY DEF TypeInv, TypeOK, Attempts
  <2>3. \A s \in Sockets : sock[s] # None => sock[s].gen \in Nat
    BY DEF TypeInv, TypeOK, OpenSocket
  <2>4. \A i \in 1 .. Len(events) : events[i].gen \in Nat
    <3>1. events \in Seq(Event) /\ \A e \in Event : e.gen \in Nat
      BY DEF TypeInv, TypeOK, Event
    <3>2. QED
      BY <3>1
  <2>5. QED
    BY <1>1, <2>1, <2>2, <2>3, <2>4 DEF GensUpTo, TasksUpTo, SocketsUpTo, EventsUpTo
<1>4. PICK a \in Tasks : task[a] = None
           /\ task' = [task EXCEPT ![a] = [pc |-> "start", gen |-> g + 1]]
  BY <1>2 DEF Spawn, FreeTasks
<1>5. /\ task'[a] # None /\ task'[a].pc = "start" /\ task'[a].gen = g + 1
      /\ \A x \in Tasks : x # a => task'[x] = task[x]
  <2>1. task'[a] = [pc |-> "start", gen |-> g + 1]
    BY <1>4 DEF TypeInv, TypeOK
  <2>2. [pc |-> "start", gen |-> g + 1] \in Attempts
    BY DEF Attempts
  <2>3. QED
    BY <1>4, <2>1, <2>2, NoneAssumption DEF TypeInv, TypeOK
<1>6. Att' = {a}
  BY <1>2, <1>3, <1>5 DEF Att, At
<1>7. Soc' = {} /\ Evt' = {}
  BY <1>2, <1>3 DEF Soc, Evt
<1>8. Single' /\ UsedInv' /\ WelcomeInv' /\ RoomInv'
  BY <1>2, <1>6, <1>7 DEF Single, UsedInv, WelcomeInv, RoomInv
<1>9. HeardInv'
  BY <1>2, <1>3, <1>7 DEF HeardInv
<1>10. QED
  BY <1>8, <1>9 DEF SessionFacts

(* The steps of an attempt. *)
LEMMA StartFacts ==
  ASSUME TypeInv, SessionFacts, NEW a \in Tasks, Start(a)
  PROVE  SessionFacts'
<1>1. task[a] # None /\ task[a].pc = "start" /\ task[a] \in Attempts
  BY DEF Start, At, TypeInv, TypeOK
<1>2. UNCHANGED <<reconnect, main, room, ws_tx, connect_gen, events, early, sock>>
  BY DEF Start, uiVars, sharedVars
<1>3. CASE task[a].gen = connect_gen
  <2>1. task' = [task EXCEPT ![a] = [task[a] EXCEPT !.pc = "open"]]
    BY <1>1, <1>3 DEF Start, Goto, TypeInv, TypeOK
  <2>2. [task[a] EXCEPT !.pc = "open"] \in Attempts
    BY <1>1 DEF Attempts
  <2>3. /\ task'[a] # None /\ task'[a].pc = "open" /\ task'[a].gen = task[a].gen
        /\ \A x \in Tasks : x # a => task'[x] = task[x]
    BY <1>1, <2>1, <2>2, NoneAssumption DEF TypeInv, TypeOK, Attempts
  <2>4. Att' = Att
    BY <1>1, <1>2, <2>3 DEF Att, At
  <2>5. QED
    BY <1>2, <2>4, SameFacts DEF Soc
<1>4. CASE task[a].gen # connect_gen
  <2>1. task'[a] = None /\ \A x \in Tasks : x # a => task'[x] = task[x]
    BY <1>4 DEF Start, Finish, TypeInv, TypeOK
  <2>2. Att' = Att
    BY <1>2, <1>4, <2>1 DEF Att, At
  <2>3. QED
    BY <1>2, <2>2, SameFacts DEF Soc
<1>5. QED
  BY <1>3, <1>4

LEMMA OpenFailsFacts ==
  ASSUME TypeInv, SessionFacts, NEW a \in Tasks, OpenFails(a)
  PROVE  SessionFacts'
<1>1. task[a] # None /\ task[a].pc = "open"
  BY DEF OpenFails, At
<1>2. UNCHANGED <<reconnect, main, room, ws_tx, connect_gen, early, sock>>
  BY DEF OpenFails, uiVars
<1>3. task'[a] = None /\ \A x \in Tasks : x # a => task'[x] = task[x]
  BY DEF OpenFails, Finish, TypeInv, TypeOK
<1>4. Att' = Att \ {a} /\ Soc' = Soc
  BY <1>1, <1>2, <1>3 DEF Att, At, Soc
<1>5. PICK n : n = Len(events) + 1
  OBVIOUS
<1>6. /\ Len(events) \in Nat /\ Len(events') = n
      /\ \A i \in 1 .. Len(events) : events'[i] = events[i]
      /\ events'[n].kind = "failed" /\ events'[n].gen = task[a].gen
      /\ Evt' = IF task[a].gen = connect_gen THEN Evt \cup {n} ELSE Evt
  BY <1>2, <1>5, PostEvt DEF OpenFails
<1>7. 1 .. Len(events') = (1 .. Len(events)) \cup {n}
  BY <1>5, <1>6
<1>8. CASE task[a].gen = connect_gen
  <2>1. a \in Att
    BY <1>1, <1>8 DEF Att, At
  <2>2. Att = {a} /\ Soc = {} /\ Evt = {}
    BY <2>1 DEF SessionFacts, Single
  <2>3. ws_tx = None
    BY <2>1, UsedOnly
  <2>4. Att' = {} /\ Soc' = {} /\ Evt' = {n} /\ n \in 1 .. Len(events')
    BY <1>4, <1>6, <1>7, <1>8, <2>2
  <2>5. Single' /\ UsedInv' /\ WelcomeInv'
    BY <1>2, <2>3, <2>4 DEF Single, UsedInv, WelcomeInv
  <2>6. HeardInv'
    BY <1>6, <1>7, <2>4 DEF HeardInv
  <2>7. RoomInv'
    BY <1>2, <2>3 DEF SessionFacts, RoomInv
  <2>8. QED
    BY <2>5, <2>6, <2>7 DEF SessionFacts
<1>9. CASE task[a].gen # connect_gen
  <2>1. Att' = Att /\ Soc' = Soc /\ Evt' = Evt
    BY <1>4, <1>6, <1>9 DEF Att
  <2>2. Single'
    BY <1>7, <2>1 DEF SessionFacts, Single
  <2>3. UsedInv' /\ RoomInv'
    BY <1>2 DEF SessionFacts, UsedInv, RoomInv
  <2>4. HeardInv'
    BY <1>2, <1>6, <1>7, <1>9, <2>1 DEF SessionFacts, HeardInv, Evt
  <2>5. WelcomeInv'
    BY <1>2, <1>6, <1>7, <1>9 DEF SessionFacts, WelcomeInv
  <2>6. QED
    BY <2>2, <2>3, <2>4, <2>5 DEF SessionFacts
<1>10. QED
  BY <1>8, <1>9

LEMMA OpenSucceedsFacts ==
  ASSUME TypeInv, FormInv, SessionFacts, NEW a \in Tasks, OpenSucceeds(a), ~stale'
  PROVE  SessionFacts'
<1>1. task[a] # None /\ task[a].pc = "open" /\ task[a] \in Attempts
      /\ task[a].gen = connect_gen
  BY DEF OpenSucceeds, Acting, At, TypeInv, TypeOK
<1>2. UNCHANGED <<reconnect, main, room, connect_gen, events, early>>
  BY DEF OpenSucceeds, uiVars
<1> DEFINE new == [send |-> TRUE, recv |-> TRUE, link |-> TRUE, asked |-> 0,
                   user |-> FALSE, room |-> None,
                   gen |-> task[a].gen, by |-> a]
<1>3. PICK s \in Sockets : sock[s] = None /\ ws_tx' = s /\ sock' = [sock EXCEPT ![s] = new]
  BY DEF OpenSucceeds, FreeSockets
<1>4. new \in OpenSocket /\ new.recv /\ new.gen = connect_gen /\ new.room = None
  BY <1>1 DEF OpenSocket, Attempts
<1> HIDE DEF new
<1>5. /\ sock'[s] = new /\ new # None
      /\ \A x \in Sockets : x # s => sock'[x] = sock[x]
  BY <1>3, <1>4, NoneAssumption DEF TypeInv, TypeOK
<1>6. task' = [task EXCEPT ![a] = [task[a] EXCEPT !.pc = "login"]]
  BY <1>1 DEF OpenSucceeds, Goto, TypeInv, TypeOK
<1>7. task'[a].pc = "login" /\ \A x \in Tasks : x # a => task'[x] = task[x]
  BY <1>1, <1>6 DEF TypeInv, TypeOK, Attempts
<1>8. a \in Att
  BY <1>1 DEF Att, At
<1>9. Att = {a} /\ Soc = {} /\ Evt = {}
  BY <1>8 DEF SessionFacts, Single
<1>10. Att' = {}
  BY <1>2, <1>7, <1>9 DEF Att, At
<1>11. Soc' = {s}
  BY <1>2, <1>4, <1>5, <1>9 DEF Soc
<1>12. Evt' = {}
  BY <1>2, <1>9 DEF Evt
<1>13. \A i \in 1 .. Len(events) : events[i].gen # connect_gen
  BY <1>9 DEF SessionFacts, HeardInv
<1>14. reconnect = None => ~main /\ room = None
  BY <1>9 DEF SessionFacts, HeardInv, FormInv
<1>15. Single'
  BY <1>10, <1>11, <1>12 DEF Single
<1>16. UsedInv'
  BY <1>2, <1>3, <1>4, <1>5 DEF UsedInv
<1>17. HeardInv'
  BY <1>10, <1>12 DEF HeardInv
<1>18. WelcomeInv'
  BY <1>2, <1>13, <1>14 DEF WelcomeInv
<1>19. RoomInv'
  BY <1>2, <1>3, <1>4, <1>5, <1>14 DEF SessionFacts, RoomInv
<1>20. QED
  BY <1>15, <1>16, <1>17, <1>18, <1>19 DEF SessionFacts

LEMMA LoginFacts ==
  ASSUME TypeInv, SessionFacts, NEW a \in Tasks, Login(a)
  PROVE  SessionFacts'
<1>1. task[a] # None /\ task[a].pc = "login"
  BY DEF Login, At
<1>2. UNCHANGED <<reconnect, main, room, ws_tx, connect_gen, events, early>>
  BY DEF Login, uiVars, sharedVars
<1>3. task'[a] = None /\ \A x \in Tasks : x # a => task'[x] = task[x]
  BY DEF Login, Finish, TypeInv, TypeOK
<1>4. Att' = Att
  BY <1>1, <1>2, <1>3 DEF Att, At
<1>5. CASE ws_tx = None
  BY <1>2, <1>4, <1>5, SameFacts DEF Login, Soc
<1>6. CASE ws_tx # None
  <2> DEFINE n == [sock[ws_tx] EXCEPT !.asked = @ + 1]
  <2>1. ws_tx \in Sockets /\ sock[ws_tx] \in OpenSocket /\ sock[ws_tx] # None
    BY <1>6 DEF TypeInv, TypeOK, SenderOpen
  <2>2. sock' = [sock EXCEPT ![ws_tx] = n]
    BY <1>6, <2>1 DEF Login, TypeInv, TypeOK
  <2>3. n \in OpenSocket /\ n.recv = sock[ws_tx].recv /\ n.gen = sock[ws_tx].gen
        /\ n.user = sock[ws_tx].user /\ n.room = sock[ws_tx].room
    BY <2>1 DEF OpenSocket
  <2> HIDE DEF n
  <2>4. sock'[ws_tx] = n /\ n # None /\ \A s \in Sockets : s # ws_tx => sock'[s] = sock[s]
    BY <2>1, <2>2, <2>3, NoneAssumption DEF TypeInv, TypeOK
  <2>5. Soc' = Soc
    BY <1>2, <2>1, <2>3, <2>4 DEF Soc
  <2>6. QED
    BY <1>2, <1>4, <2>3, <2>4, <2>5, SameFacts
<1>7. QED
  BY <1>5, <1>6

(* The steps of a socket. *)
LEMMA LinkBreaksFacts ==
  ASSUME TypeInv, SessionFacts, NEW s \in Sockets, LinkBreaks(s)
  PROVE  SessionFacts'
<1> DEFINE n == [sock[s] EXCEPT !.link = FALSE]
<1>1. UNCHANGED <<reconnect, main, room, ws_tx, connect_gen, events, early, task>>
  BY DEF LinkBreaks, uiVars, sharedVars
<1>2. sock[s] # None /\ sock[s] \in OpenSocket
  BY DEF LinkBreaks, TypeInv, TypeOK
<1>3. sock' = [sock EXCEPT ![s] = n]
  BY <1>2 DEF LinkBreaks, TypeInv, TypeOK
<1>4. n \in OpenSocket /\ n.recv = sock[s].recv /\ n.gen = sock[s].gen
      /\ n.user = sock[s].user /\ n.room = sock[s].room
  BY <1>2 DEF OpenSocket
<1> HIDE DEF n
<1>5. sock'[s] = n /\ n # None /\ \A x \in Sockets : x # s => sock'[x] = sock[x]
  BY <1>3, <1>4, NoneAssumption DEF TypeInv, TypeOK
<1>6. Soc' = Soc
  BY <1>1, <1>2, <1>4, <1>5 DEF Soc
<1>7. Att' = Att
  BY <1>1 DEF Att, At
<1>8. ws_tx # None => ws_tx \in Sockets
  BY DEF TypeInv, TypeOK
<1>9. QED
  BY <1>1, <1>4, <1>5, <1>6, <1>7, <1>8, SameFacts

(* An answer to a login. *)
LEMMA AnswerFacts ==
  ASSUME TypeInv, FormInv, SessionFacts, NEW s \in Sockets,
         NEW k \in {"welcome", "refusal"}, Answer(s, k),
         k = "welcome" => sock[s].gen = connect_gen
  PROVE  SessionFacts'
<1>1. UNCHANGED <<reconnect, main, room, ws_tx, connect_gen, early, task>>
  BY DEF Answer, uiVars
<1>2. sock[s] # None /\ sock[s].recv /\ sock[s] \in OpenSocket
  BY DEF Answer, TypeInv, TypeOK
<1> DEFINE r == IF k = "welcome" \/ sock[s].user THEN sock[s].room ELSE None
           n == [sock[s] EXCEPT !.asked = @ - 1, !.user = @ \/ k = "welcome", !.room = r]
<1>3. sock' = [sock EXCEPT ![s] = n]
  BY <1>2 DEF Answer, TypeInv, TypeOK
<1>4. n.recv /\ n.gen = sock[s].gen /\ n.room = r /\ n.user = (sock[s].user \/ k = "welcome")
  BY <1>2 DEF OpenSocket
<1>5. n \in OpenSocket
  <2>1. sock[s].asked - 1 \in Nat
    BY <1>2 DEF Answer, OpenSocket
  <2>2. (sock[s].user \/ k = "welcome") \in BOOLEAN
    OBVIOUS
  <2>3. r \in Rooms \cup {None}
    BY <1>2 DEF OpenSocket
  <2>4. QED
    BY <1>2, <2>1, <2>2, <2>3 DEF OpenSocket
<1>6. /\ r \in {sock[s].room, None}
      /\ sock[s].user => r = sock[s].room
      /\ k = "welcome" => r = sock[s].room
  OBVIOUS
<1> HIDE DEF n, r
<1>7. sock'[s] = n /\ n # None /\ \A x \in Sockets : x # s => sock'[x] = sock[x]
  BY <1>3, <1>5, NoneAssumption DEF TypeInv, TypeOK
<1>8. Soc' = Soc /\ Att' = Att
  BY <1>1, <1>2, <1>4, <1>7 DEF Soc, Att, At
<1>9. /\ Len(events) \in Nat /\ Len(events') = Len(events) + 1
      /\ \A i \in 1 .. Len(events) : events'[i] = events[i]
      /\ events'[Len(events) + 1].kind = k
      /\ events'[Len(events) + 1].gen = sock[s].gen
      /\ Evt' = Evt
  BY <1>1, PostEvt DEF Answer
<1>10. 1 .. Len(events') = (1 .. Len(events)) \cup {Len(events) + 1}
  BY <1>9
<1>11. sock[s].gen = connect_gen => s \in Soc /\ Att = {} /\ Evt = {} /\ Soc = {s}
  <2>1. sock[s].gen = connect_gen => s \in Soc
    BY <1>2 DEF Soc
  <2>2. QED
    BY <2>1 DEF SessionFacts, Single
<1>12. ws_tx # None => ws_tx \in Sockets /\ Soc = {ws_tx}
  BY UsedOnly DEF TypeInv, TypeOK
<1>13. Single'
  BY <1>8, <1>9, <1>10 DEF SessionFacts, Single
<1>14. UsedInv'
  BY <1>1, <1>4, <1>7, <1>12 DEF SessionFacts, UsedInv
<1>15. HeardInv'
  BY <1>1, <1>8, <1>9, <1>10, <1>11 DEF SessionFacts, HeardInv, Evt
<1>16. ws_tx # None => (sock'[ws_tx].user <=> sock[ws_tx].user \/ (ws_tx = s /\ k = "welcome"))
  BY <1>4, <1>7, <1>12
<1>17. WelcomeInv'
  <2>1. k = "welcome" /\ ws_tx # None => ws_tx = s
    BY <1>11, <1>12
  <2>2. \A i \in 1 .. Len(events) :
          events[i].gen = connect_gen /\ events[i].kind = "welcome" /\ ws_tx # None =>
            sock'[ws_tx].user
    BY <1>16 DEF SessionFacts, WelcomeInv
  <2>3. main /\ reconnect = None /\ ws_tx # None => sock'[ws_tx].user
    BY <1>16 DEF SessionFacts, WelcomeInv
  <2>4. k = "welcome" /\ ws_tx # None => sock'[ws_tx].user
    BY <1>16, <2>1
  <2>5. QED
    BY <1>1, <1>9, <1>10, <2>2, <2>3, <2>4 DEF WelcomeInv
<1>18. RoomInv'
  <2>1. reconnect = None /\ ws_tx = s /\ ~sock[s].user => room = None
    BY ConnectionAssumption DEF SessionFacts, WelcomeInv, FormInv
  <2>2. QED
    BY <1>1, <1>4, <1>6, <1>7, <1>12, <2>1 DEF SessionFacts, RoomInv
<1>19. QED
  BY <1>13, <1>14, <1>15, <1>17, <1>18 DEF SessionFacts

(* Half of a socket ends; the sender is cleared in either case. *)
LEMMA LeftEffect ==
  ASSUME TypeInv, NEW s \in Sockets, NEW half \in {"send", "recv"},
         sock[s] # None, Left(s, half), connect_gen' = connect_gen
  PROVE  IF half = "recv" THEN Soc' = Soc \ {s} ELSE Soc' = Soc
<1> DEFINE rest == [sock[s] EXCEPT ![half] = FALSE]
<1>1. sock[s] \in OpenSocket
  BY DEF TypeInv, TypeOK
<1>2. /\ rest \in OpenSocket /\ rest.gen = sock[s].gen
      /\ half = "recv" => ~rest.recv
      /\ half = "send" => rest.recv = sock[s].recv
  BY <1>1 DEF OpenSocket
<1>3. rest # None
  BY <1>2, NoneAssumption
<1>4. sock' = [sock EXCEPT ![s] = IF rest.send \/ rest.recv THEN rest ELSE None]
  BY DEF Left
<1> HIDE DEF rest
<1>5. /\ sock'[s] = IF rest.send \/ rest.recv THEN rest ELSE None
      /\ \A x \in Sockets : x # s => sock'[x] = sock[x]
  BY <1>4 DEF TypeInv, TypeOK
<1>6. CASE half = "recv"
  BY <1>2, <1>5, <1>6 DEF Soc
<1>7. CASE half = "send"
  <2>1. s \in Soc' <=> s \in Soc
    BY <1>2, <1>3, <1>5, <1>7 DEF Soc
  <2>2. \A x \in Sockets : x # s => (x \in Soc' <=> x \in Soc)
    BY <1>5 DEF Soc
  <2>3. Soc \subseteq Sockets /\ Soc' \subseteq Sockets
    BY DEF Soc
  <2>4. QED
    BY <1>7, <2>1, <2>2, <2>3
<1>8. QED
  BY <1>6, <1>7

LEMMA SenderEndsFacts ==
  ASSUME TypeInv, SessionFacts, NEW s \in Sockets, SenderEnds(s)
  PROVE  SessionFacts'
<1>1. UNCHANGED <<reconnect, main, room, connect_gen, events, early, task>> /\ ws_tx' = None
  BY DEF SenderEnds, Clears, uiVars
<1>2. Soc' = Soc
  BY <1>1, LeftEffect DEF SenderEnds
<1>3. Att' = Att /\ Evt' = Evt
  BY <1>1 DEF Att, At, Evt
<1>4. Single' /\ UsedInv' /\ HeardInv'
  BY <1>1, <1>2, <1>3 DEF SessionFacts, Single, UsedInv, HeardInv
<1>5. WelcomeInv' /\ RoomInv'
  BY <1>1 DEF SessionFacts, WelcomeInv, RoomInv
<1>6. QED
  BY <1>4, <1>5 DEF SessionFacts

LEMMA ReceiverEndsFacts ==
  ASSUME TypeInv, SessionFacts, NEW s \in Sockets, ReceiverEnds(s)
  PROVE  SessionFacts'
<1>1. UNCHANGED <<reconnect, main, room, connect_gen, early, task>> /\ ws_tx' = None
  BY DEF ReceiverEnds, Clears, uiVars
<1>2. Soc' = Soc \ {s}
  BY <1>1, LeftEffect DEF ReceiverEnds
<1>3. Att' = Att
  BY <1>1 DEF Att, At
<1>4. PICK n : n = Len(events) + 1
  OBVIOUS
<1>5. /\ Len(events) \in Nat /\ Len(events') = n
      /\ \A i \in 1 .. Len(events) : events'[i] = events[i]
      /\ events'[n].kind = "lost" /\ events'[n].gen = sock[s].gen
      /\ Evt' = IF sock[s].gen = connect_gen THEN Evt \cup {n} ELSE Evt
  BY <1>1, <1>4, PostEvt DEF ReceiverEnds
<1>6. 1 .. Len(events') = (1 .. Len(events)) \cup {n}
  BY <1>4, <1>5
<1>7. UsedInv' /\ RoomInv' /\ WelcomeInv'
  BY <1>1 DEF SessionFacts, UsedInv, RoomInv, WelcomeInv
<1>8. CASE sock[s].gen = connect_gen
  <2>1. s \in Soc
    BY <1>8 DEF ReceiverEnds, Soc
  <2>2. Att = {} /\ Soc = {s} /\ Evt = {}
    BY <2>1 DEF SessionFacts, Single
  <2>3. Att' = {} /\ Soc' = {} /\ Evt' = {n} /\ n \in 1 .. Len(events')
    BY <1>2, <1>3, <1>5, <1>6, <1>8, <2>2
  <2>4. Single'
    BY <2>3 DEF Single
  <2>5. HeardInv'
    BY <1>5, <1>6, <2>3 DEF HeardInv
  <2>6. QED
    BY <1>7, <2>4, <2>5 DEF SessionFacts
<1>9. CASE sock[s].gen # connect_gen
  <2>1. Soc' = Soc /\ Evt' = Evt
    BY <1>2, <1>5, <1>9 DEF Soc
  <2>2. Single'
    BY <1>3, <1>6, <2>1 DEF SessionFacts, Single
  <2>3. HeardInv'
    BY <1>1, <1>3, <1>5, <1>6, <1>9, <2>1 DEF SessionFacts, HeardInv, Evt
  <2>4. QED
    BY <1>7, <2>2, <2>3 DEF SessionFacts
<1>10. QED
  BY <1>8, <1>9

(* The user's room commands. *)
LEMMA RoomCommandFacts ==
  ASSUME TypeInv, SessionFacts, NEW r \in Rooms \cup {None}, main, ws_tx # None,
         SendRoom(r), room' = r, early' = (reconnect # None),
         UNCHANGED <<reconnect, main, ws_tx, connect_gen, events, task>>
  PROVE  SessionFacts'
<1>1. /\ Soc' = Soc
      /\ sock'[ws_tx].gen = sock[ws_tx].gen
      /\ sock'[ws_tx].user = sock[ws_tx].user
      /\ sock[ws_tx].user => sock'[ws_tx].room = r
  BY SendRoomEffect
<1>2. Att' = Att /\ Evt' = Evt
  BY DEF Att, At, Evt
<1>3. Single' /\ UsedInv' /\ HeardInv' /\ WelcomeInv'
  BY <1>1, <1>2 DEF SessionFacts, Single, UsedInv, HeardInv, WelcomeInv
<1>4. RoomInv'
  <2>1. reconnect = None => sock[ws_tx].user
    BY DEF SessionFacts, WelcomeInv
  <2>2. QED
    BY <1>1, <2>1 DEF RoomInv
<1>5. QED
  BY <1>3, <1>4 DEF SessionFacts

(* The UI handles the answer to a login. *)
LEMMA HandleWelcomeFacts ==
  ASSUME TypeInv, SessionFacts, HandleWelcome, ~stale'
  PROVE  SessionFacts'
<1>1. /\ Handle("welcome") /\ main' = TRUE /\ reconnect' = None
      /\ UNCHANGED <<ws_tx, connect_gen, task>>
  BY DEF HandleWelcome
<1>2. /\ Len(events) \in Nat /\ Len(events) >= 1 /\ Len(events') = Len(events) - 1
      /\ \A i \in 1 .. Len(events') :
           i + 1 \in 1 .. Len(events) /\ events'[i] = events[i + 1]
      /\ events[1].kind = "welcome" /\ events[1].gen = connect_gen
      /\ 1 \notin Evt
      /\ Evt' = {i \in 1 .. Len(events') : i + 1 \in Evt}
  BY <1>1, HandleEvt
<1>3. 1 \in 1 .. Len(events)
  BY <1>2
<1>4. Att = {}
  BY <1>2, <1>3 DEF SessionFacts, HeardInv
<1>5. Att' = {}
  BY <1>1, <1>4 DEF Att, At
<1>6. ws_tx # None => sock[ws_tx].user
  BY <1>2, <1>3 DEF SessionFacts, WelcomeInv
<1>7. /\ Soc' = Soc
      /\ ws_tx # None => /\ sock'[ws_tx].gen = sock[ws_tx].gen
                         /\ sock'[ws_tx].user = sock[ws_tx].user
      /\ ~early' /\ ws_tx # None => sock'[ws_tx].room = room'
  <2>1. CASE reconnect # None /\ reconnect.room # None
    <3>1. Join(reconnect.room) /\ reconnect.room \in Rooms \cup {None}
      BY <2>1 DEF HandleWelcome, TypeInv, TypeOK, Reconnection
    <3>2. CASE ws_tx = None
      BY <1>1, <3>1, <3>2 DEF Join, Soc
    <3>3. CASE ws_tx # None
      BY <1>1, <1>6, <3>1, <3>3, SendRoomEffect DEF Join
    <3>4. QED
      BY <3>2, <3>3
  <2>2. CASE ~(reconnect # None /\ reconnect.room # None)
    <3>1. UNCHANGED <<room, sock, early>>
      BY <2>2 DEF HandleWelcome
    <3>2. Soc' = Soc
      BY <1>1, <3>1 DEF Soc
    <3>3. ~early /\ ws_tx # None => sock[ws_tx].room = room
      BY <2>2 DEF SessionFacts, RoomInv
    <3>4. QED
      BY <1>1, <3>1, <3>2, <3>3
  <2>3. QED
    BY <2>1, <2>2
<1>8. Single'
  <2>1. CASE (\E s \in Sockets : Soc = {s}) /\ Evt = {}
    BY <1>2, <1>5, <1>7, <2>1 DEF Single
  <2>2. CASE Soc = {} /\ (\E i \in 1 .. Len(events) : Evt = {i})
    <3>1. PICK i \in 1 .. Len(events) : Evt = {i}
      BY <2>2
    <3>2. i - 1 \in 1 .. Len(events') /\ \A j \in 1 .. Len(events') : j + 1 = i <=> j = i - 1
      BY <1>2, <3>1
    <3>3. Evt' = {i - 1}
      BY <1>2, <3>1, <3>2
    <3>4. QED
      BY <1>5, <1>7, <2>2, <3>2, <3>3 DEF Single
  <2>3. QED
    BY <1>4, <2>1, <2>2 DEF SessionFacts, Single
<1>9. UsedInv'
  BY <1>1, <1>7 DEF SessionFacts, UsedInv
<1>10. HeardInv'
  <2>1. ASSUME NEW i \in Evt', NEW j \in 1 .. Len(events'), i < j
        PROVE  events'[j].gen # connect_gen
    <3>1. i \in 1 .. Len(events') /\ i + 1 \in Evt
      BY <1>2, <2>1
    <3>2. i + 1 < j + 1 /\ j + 1 \in 1 .. Len(events) /\ events'[j] = events[j + 1]
      BY <1>2, <2>1, <3>1
    <3>3. QED
      BY <3>1, <3>2 DEF SessionFacts, HeardInv
  <2>2. QED
    BY <1>1, <1>5, <2>1 DEF HeardInv
<1>11. WelcomeInv'
  BY <1>1, <1>6, <1>7 DEF WelcomeInv
<1>12. RoomInv'
  BY <1>1, <1>7 DEF RoomInv
<1>13. QED
  BY <1>8, <1>9, <1>10, <1>11, <1>12 DEF SessionFacts

(* The UI hears of the end of the connection, or of an attempt, and starts
   the next one. *)
LEMMA ScheduleFacts ==
  ASSUME TypeInv, SessionFacts, NEW k \in {"lost", "failed"}, Handle(k), ~stale',
         NEW rc \in Reconnection, NEW tx, NEW auth, Schedule(rc, tx, auth),
         tx \in {ws_tx, None}, UNCHANGED <<sock, early>>,
         ~early => room = rc.room, session'
  PROVE  SessionFacts'
<1>1. /\ reconnect' = [rc EXCEPT !.attempt = @ + 1] /\ Spawn(connect_gen) /\ ws_tx' = tx
      /\ UNCHANGED <<main, room, connect_gen>>
  BY DEF Schedule, Forget
<1>2. /\ Len(events) \in Nat /\ Len(events) >= 1 /\ Len(events') = Len(events) - 1
      /\ \A i \in 1 .. Len(events') :
           i + 1 \in 1 .. Len(events) /\ events'[i] = events[i + 1]
      /\ 1 \in Evt
      /\ Evt' = {i \in 1 .. Len(events') : i + 1 \in Evt}
  BY <1>1, HandleEvt
<1>3. Att = {} /\ Soc = {} /\ Evt = {1}
  BY <1>2 DEF SessionFacts, Single
<1>4. ws_tx' = None
  BY <1>1, <1>2, UsedOnly
<1>5. PICK g \in Nat : g = connect_gen
  BY DEF TypeInv, TypeOK
<1>6. PICK a \in Tasks : task[a] = None /\ task' = [task EXCEPT ![a] = [pc |-> "start", gen |-> g]]
  BY <1>1, <1>5 DEF Spawn, FreeTasks
<1>7. /\ task'[a] # None /\ task'[a].pc = "start" /\ task'[a].gen = g
      /\ \A x \in Tasks : x # a => task'[x] = task[x]
  <2>1. task'[a] = [pc |-> "start", gen |-> g]
    BY <1>6 DEF TypeInv, TypeOK
  <2>2. [pc |-> "start", gen |-> g] \in Attempts
    BY DEF Attempts
  <2>3. QED
    BY <1>6, <2>1, <2>2, NoneAssumption DEF TypeInv, TypeOK
<1>8. Att' = {a}
  BY <1>1, <1>3, <1>5, <1>7 DEF Att, At
<1>9. Soc' = {}
  BY <1>1, <1>3 DEF Soc
<1>10. \A i \in 1 .. Len(events') : i + 1 # 1 /\ 1 < i + 1
  BY <1>2
<1>11. Evt' = {}
  BY <1>2, <1>3, <1>10
<1>12. [rc EXCEPT !.attempt = @ + 1].room = rc.room
  BY DEF Reconnection
<1>13. reconnect' # None
  <2>1. rc.attempt < MaxAttempts
    BY DEF Schedule, Forget
  <2>2. [rc EXCEPT !.attempt = @ + 1] \in Reconnection
    BY <2>1, ConnectionAssumption DEF Reconnection
  <2>3. QED
    BY <1>1, <2>2, NoneAssumption
<1>14. Single' /\ UsedInv'
  BY <1>4, <1>8, <1>9, <1>11 DEF Single, UsedInv
<1>15. HeardInv'
  <2>1. \A i \in 1 .. Len(events') : events'[i].gen # connect_gen
    BY <1>2, <1>3, <1>10 DEF SessionFacts, HeardInv
  <2>2. QED
    BY <1>1, <1>11, <1>13, <2>1 DEF HeardInv
<1>16. WelcomeInv' /\ RoomInv'
  BY <1>1, <1>4, <1>12, <1>13 DEF WelcomeInv, RoomInv
<1>17. QED
  BY <1>14, <1>15, <1>16 DEF SessionFacts

(* A step of a session that goes on. *)
LEMMA SessionStep ==
  ASSUME TypeInv, FormInv, GensUpTo(connect_gen), ~stale /\ session => SessionFacts,
         [Next]_vars, ~stale', session'
  PROVE  SessionFacts'
<1>1. ~stale
  BY DEF vars, Next, User, DoConnect, DoDisconnect, JoinRoom, LeaveRoom, HandleEvent,
     HandleWelcome, HandleRefusal, HandleLost, HandleFailed, Handle, Acting, Clears,
     Attempt, Start, OpenFails, OpenSucceeds, Login,
     Receiver, Welcomed, Refused, Answer, ReceiverEnds, SenderEnds, LinkBreaks
<1>2. CASE DoConnect
  BY <1>2, ConnectFacts
<1>3. CASE ~DoConnect
  <2>1. session
    BY <1>3 DEF vars, uiVars, Next, User, DoDisconnect, JoinRoom, LeaveRoom, HandleEvent,
       HandleWelcome, HandleRefusal, HandleLost, HandleFailed, Schedule, Forget,
       Attempt, Start, OpenFails, OpenSucceeds, Login,
       Receiver, Welcomed, Refused, Answer, ReceiverEnds, SenderEnds, LinkBreaks
  <2>2. SessionFacts
    BY <1>1, <2>1
  <2>3. CASE User
    <3>1. ~DoDisconnect
      BY DEF DoDisconnect, Forget
    <3>2. CASE LeaveRoom
      BY <2>2, <3>2, RoomCommandFacts DEF LeaveRoom, sharedVars
    <3>3. ASSUME NEW r \in Rooms, JoinRoom(r) PROVE SessionFacts'
      BY <2>2, <3>3, RoomCommandFacts DEF JoinRoom, Join, sharedVars
    <3>4. QED
      BY <1>3, <2>3, <3>1, <3>2, <3>3 DEF User
  <2>4. CASE HandleEvent
    <3>1. CASE HandleWelcome
      BY <2>2, <3>1, HandleWelcomeFacts
    <3>2. CASE HandleRefusal
      BY <3>2 DEF HandleRefusal, Forget
    <3>3. CASE HandleLost
      <4> DEFINE rc == IF reconnect = None THEN [attempt |-> 0, room |-> room]
                       ELSE reconnect
      <4>1. rc \in Reconnection
        BY ConnectionAssumption DEF TypeInv, TypeOK, Reconnection
      <4>2. ~early => room = rc.room
        BY <2>2 DEF SessionFacts, RoomInv
      <4>3. Handle("lost") /\ Schedule(rc, None, FALSE) /\ UNCHANGED <<sock, early>>
        BY <2>1, <3>3 DEF HandleLost
      <4> HIDE DEF rc
      <4>4. QED
        BY <2>2, <4>1, <4>2, <4>3, ScheduleFacts
    <3>4. CASE HandleFailed
      <4>1. /\ Handle("failed") /\ UNCHANGED <<sock, early>> /\ reconnect # None
            /\ Schedule(reconnect, ws_tx, authenticated)
        BY <3>4 DEF HandleFailed, Forget
      <4>2. reconnect \in Reconnection /\ (~early => room = reconnect.room)
        BY <2>2, <4>1 DEF TypeInv, TypeOK, SessionFacts, RoomInv
      <4>3. QED
        BY <2>2, <4>1, <4>2, ScheduleFacts
    <3>5. QED
      BY <2>4, <3>1, <3>2, <3>3, <3>4 DEF HandleEvent
  <2>5. ASSUME NEW a \in Tasks, Attempt(a) PROVE SessionFacts'
    BY <2>2, <2>5, StartFacts, OpenFailsFacts, OpenSucceedsFacts, LoginFacts DEF Attempt
  <2>6. ASSUME NEW s \in Sockets, Welcomed(s) PROVE SessionFacts'
    <3>1. Answer(s, "welcome") /\ sock[s].gen = connect_gen
      BY <2>6 DEF Welcomed, Acting
    <3>2. QED
      BY <2>2, <3>1, AnswerFacts
  <2>7. ASSUME NEW s \in Sockets, Refused(s) PROVE SessionFacts'
    <3>1. Answer(s, "refusal")
      BY <2>7 DEF Refused
    <3>2. QED
      BY <2>2, <3>1, AnswerFacts
  <2>8. ASSUME NEW s \in Sockets, ReceiverEnds(s) \/ SenderEnds(s) \/ LinkBreaks(s)
        PROVE  SessionFacts'
    BY <2>2, <2>8, ReceiverEndsFacts, SenderEndsFacts, LinkBreaksFacts
  <2>9. CASE UNCHANGED vars
    <3>1. UNCHANGED <<reconnect, main, room, ws_tx, connect_gen, events, early, task, sock>>
      BY <2>9 DEF vars, uiVars, sharedVars
    <3>2. Att' = Att /\ Soc' = Soc
      BY <3>1 DEF Att, At, Soc
    <3>3. QED
      BY <2>2, <3>1, <3>2, SameFacts
  <2>10. QED
    BY <1>3, <2>3, <2>4, <2>5, <2>6, <2>7, <2>8, <2>9 DEF Next, Receiver
<1>4. QED
  BY <1>2, <1>3

(* The connect form is shown without a room. *)
LEMMA FormStep ==
  ASSUME FormInv, [Next]_vars
  PROVE  FormInv'
<1>1. ASSUME NEW rc, NEW tx, NEW auth, Schedule(rc, tx, auth)
      PROVE  FormInv'
  BY <1>1 DEF FormInv, Schedule, Forget
<1>2. CASE User
  BY <1>2 DEF FormInv, User, DoConnect, DoDisconnect, JoinRoom, LeaveRoom, Forget
<1>3. CASE HandleEvent
  <2>1. CASE HandleWelcome \/ HandleRefusal
    BY <2>1 DEF FormInv, HandleWelcome, HandleRefusal, Forget
  <2>2. CASE HandleLost
    BY <1>1, <2>2 DEF FormInv, HandleLost, uiVars
  <2>3. CASE HandleFailed
    BY <1>1, <2>3 DEF FormInv, HandleFailed, Forget
  <2>4. QED
    BY <1>3, <2>1, <2>2, <2>3 DEF HandleEvent
<1>4. CASE UNCHANGED <<main, room>>
  BY <1>4 DEF FormInv
<1>5. QED
  BY <1>2, <1>3, <1>4 DEF vars, uiVars, Next,
     Attempt, Start, OpenFails, OpenSucceeds, Login,
     Receiver, Welcomed, Refused, Answer, ReceiverEnds, SenderEnds, LinkBreaks

LEMMA SessionInductive == Spec => [](TypeInv /\ DisconnectInv /\ SessionInv)
<1>1. Init => SessionInv
  BY DEF Init, SessionInv, FormInv
<1>2. TypeInv /\ DisconnectInv /\ SessionInv /\ [Next]_vars
        => (TypeInv /\ DisconnectInv /\ SessionInv)'
  <2> SUFFICES ASSUME TypeInv, DisconnectInv, SessionInv, [Next]_vars
               PROVE  TypeInv' /\ DisconnectInv' /\ SessionInv'
    OBVIOUS
  <2>1. TypeInv' /\ DisconnectInv'
    BY TypeStep, GensStep, OrphanedStep DEF DisconnectInv
  <2>2. FormInv'
    BY FormStep DEF SessionInv
  <2>3. ~stale' /\ session' => SessionFacts'
    BY SessionStep DEF SessionInv, DisconnectInv
  <2>4. QED
    BY <2>1, <2>2, <2>3 DEF SessionInv
<1>3. QED
  BY <1>1, <1>2, TypeInit, DisconnectInit, PTL DEF Spec

(* As long as a session is wanted exactly one attempt, socket or unhandled
   failure keeps it going, and none does after a disconnect, until something
   left over from an older connection acts (establish_session,
   schedule_reconnect, do_disconnect). *)
THEOREM LifelineHolds == Spec => []OneLifeline
<1>1. TypeInv /\ DisconnectInv /\ SessionInv => OneLifeline
  <2> SUFFICES ASSUME TypeInv, DisconnectInv, SessionInv, ~stale
               PROVE  IF session THEN \E x \in Lifelines : Lifelines = {x}
                      ELSE Lifelines = {}
    BY DEF OneLifeline
  <2>1. Lifelines = {<<"attempt", a>> : a \in Att} \cup {<<"socket", s>> : s \in Soc}
                    \cup {<<"event", i>> : i \in Evt}
    <3>1. DOMAIN events = 1 .. Len(events)
      BY DEF TypeInv, TypeOK
    <3>2. QED
      BY <3>1 DEF Lifelines, Att, Soc, Evt
  <2>2. CASE session
    <3>1. Single
      BY <2>2 DEF SessionInv, SessionFacts
    <3>2. CASE (\E a \in Tasks : Att = {a}) /\ Soc = {} /\ Evt = {}
      <4>1. PICK a : Att = {a}
        BY <3>2
      <4>2. Lifelines = {<<"attempt", a>>}
        BY <2>1, <3>2, <4>1
      <4>3. QED
        BY <2>2, <4>2
    <3>3. CASE Att = {} /\ (\E s \in Sockets : Soc = {s}) /\ Evt = {}
      <4>1. PICK s : Soc = {s}
        BY <3>3
      <4>2. Lifelines = {<<"socket", s>>}
        BY <2>1, <3>3, <4>1
      <4>3. QED
        BY <2>2, <4>2
    <3>4. CASE Att = {} /\ Soc = {} /\ (\E i \in 1 .. Len(events) : Evt = {i})
      <4>1. PICK i : Evt = {i}
        BY <3>4
      <4>2. Lifelines = {<<"event", i>>}
        BY <2>1, <3>4, <4>1
      <4>3. QED
        BY <2>2, <4>2
    <3>5. QED
      BY <3>1, <3>2, <3>3, <3>4 DEF Single
  <2>3. CASE ~session
    <3>1. PICK g \in Nat : g = connect_gen
      BY DEF TypeInv, TypeOK
    <3>2. GensUpTo(g - 1)
      BY <2>3, <3>1 DEF DisconnectInv, Orphaned
    <3>3. \A n \in Nat : n <= g - 1 => n # g
      BY <3>1
    <3>4. Att = {}
      BY <3>1, <3>2, <3>3 DEF Att, At, GensUpTo, TasksUpTo, TypeInv, TypeOK, Attempts
    <3>5. Soc = {}
      BY <3>1, <3>2, <3>3 DEF Soc, GensUpTo, SocketsUpTo, TypeInv, TypeOK, OpenSocket
    <3>6. Evt = {}
      <4>1. events \in Seq(Event) /\ \A e \in Event : e.gen \in Nat
        BY DEF TypeInv, TypeOK, Event
      <4>2. \A i \in 1 .. Len(events) : events[i].gen \in Nat
        BY <4>1
      <4>3. QED
        BY <3>1, <3>2, <3>3, <4>2 DEF Evt, GensUpTo, EventsUpTo
    <3>7. QED
      BY <2>1, <2>3, <3>4, <3>5, <3>6
  <2>4. QED
    BY <2>2, <2>3
<1>2. QED
  BY <1>1, SessionInductive, PTL

(* Once a reconnection is over the server has the user in the room the client
   shows, unless the user chose a room in the middle of it (rejoin_room in
   actions.rs, handlers.rs). *)
THEOREM RoomHolds == Spec => []RoomKept
<1>1. SessionInv => RoomKept
  BY DEF SessionInv, SessionFacts, RoomInv, RoomKept
<1>2. QED
  BY <1>1, SessionInductive, PTL

=============================================================================

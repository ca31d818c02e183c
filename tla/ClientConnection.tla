-------------------------- MODULE ClientConnection --------------------------
(***************************************************************************)
(* The client's connection to a server: connect, disconnect, automatic     *)
(* reconnection and the room that is entered again after it.               *)
(* client/src/actions.rs (do_connect, establish_session, begin_reconnect,  *)
(* schedule_reconnect, do_disconnect, join_room, leave_room),              *)
(* net/ws_client.rs (connect) and handlers.rs (handle).                    *)
(*                                                                         *)
(* Three kinds of actors share the state: the UI thread, which acts for    *)
(* the user and handles the events of the other two one after the other;   *)
(* one task per connection attempt; and two tasks per open socket, one     *)
(* that sends what ws_tx hands it and one that receives.  No one waits for *)
(* the tasks of an old connection to end: connect_gen is what tells them   *)
(* apart, and only an attempt looks at it, once.                           *)
(***************************************************************************)
EXTENDS Integers, Sequences, FiniteSets

CONSTANTS
  Rooms,
  Tasks,        \* how many attempts may exist at a time (bound)
  Sockets,      \* how many sockets may exist at a time (bound)
  MaxAttempts,  \* max_attempts of a reconnection (8 in the code)
  MaxActs,      \* how often the user acts (bound)
  None

ASSUME ConnectionAssumption ==
  /\ None \notin Rooms \cup Sockets
  /\ IsFiniteSet(Tasks) /\ IsFiniteSet(Sockets)
  /\ MaxAttempts \in Nat \ {0}
  /\ MaxActs \in Nat

VARIABLES
  (* of the UI thread *)
  session,        \* a session is wanted: st.session is some
  reconnect,      \* st.reconnect: the attempt and the room to enter again
  main,           \* the main view is shown, not the connect form
  room,           \* inner.current_room_id
  (* shared *)
  ws_tx,          \* the socket inner.ws_tx sends to; connected is ws_tx # None
  authenticated,
  connect_gen,
  events,         \* what the tasks have queued for the UI thread
  (* of the tasks *)
  task,           \* task[a]: where the attempt a is, and its generation
  sock,           \* sock[s]: an open socket, its two tasks and its server side
  (* the bound, and history that no action reads *)
  acts,
  early,          \* the last room command came in the middle of a reconnection
  stale           \* something left over from an older connection has acted on
                  \* the shared state of a newer one, or of none

uiVars     == <<session, reconnect, main, room>>
sharedVars == <<ws_tx, authenticated, connect_gen, events>>
vars == <<uiVars, sharedVars, task, sock, acts, early, stale>>

(* by, and the generation of a socket and of an event, name the attempt they go
   back to; the code does not keep them and no action depends on them.  asked
   counts the auth_login messages the server has not answered, room is the room
   it has put the user in. *)
Attempts   == [pc : {"start", "open", "login"}, gen : Nat]
OpenSocket == [send : BOOLEAN, recv : BOOLEAN, link : BOOLEAN, asked : Nat,
               user : BOOLEAN, room : Rooms \cup {None},
               gen : Nat, by : Tasks]
Reconnection == [attempt : 0 .. MaxAttempts, room : Rooms \cup {None}]
Event      == [kind : {"welcome", "refusal", "lost", "failed"}, gen : Nat]

ASSUME NoneAssumption == None \notin Attempts \cup OpenSocket \cup Reconnection

(* Every variable has its type. *)
TypeOK ==
  /\ session \in BOOLEAN /\ main \in BOOLEAN /\ authenticated \in BOOLEAN
  /\ reconnect \in Reconnection \cup {None}
  /\ room \in Rooms \cup {None}
  /\ ws_tx \in Sockets \cup {None}
  /\ connect_gen \in Nat
  /\ events \in Seq(Event)
  /\ task \in [Tasks -> Attempts \cup {None}]
  /\ sock \in [Sockets -> OpenSocket \cup {None}]
  /\ acts \in 0 .. MaxActs
  /\ early \in BOOLEAN /\ stale \in BOOLEAN

Init ==
  /\ session = FALSE /\ reconnect = None /\ main = FALSE /\ room = None
  /\ ws_tx = None /\ authenticated = FALSE /\ connect_gen = 0 /\ events = <<>>
  /\ task = [a \in Tasks |-> None]
  /\ sock = [s \in Sockets |-> None]
  /\ acts = 0 /\ early = FALSE /\ stale = FALSE

FreeTasks   == {a \in Tasks : task[a] = None}
FreeSockets == {s \in Sockets : sock[s] = None}

(* Spawns establish_session for the generation g. *)
Spawn(g) ==
  /\ FreeTasks # {}
  /\ task' = [task EXCEPT ![CHOOSE a \in FreeTasks : TRUE] =
                             [pc |-> "start", gen |-> g]]

Post(kind, g) == events' = Append(events, [kind |-> kind, gen |-> g])

(* Something of the generation g acts on the shared state. *)
Acting(g) == stale' = (stale \/ g # connect_gen)

UserActs == acts < MaxActs /\ acts' = acts + 1

----------------------------------------------------------------------------
(* The user, on the UI thread *)

DoConnect ==
  /\ UserActs
  /\ ~main
  /\ ws_tx = None
  /\ session' = TRUE
  /\ reconnect' = None
  /\ connect_gen' = connect_gen + 1
  /\ Spawn(connect_gen + 1)
  /\ UNCHANGED <<main, room, ws_tx, authenticated, events, sock, early, stale>>

(* A plausible slip: connect_gen is left alone, since no session is wanted. *)
ForgetSession ==
  /\ session' = FALSE /\ reconnect' = None /\ main' = FALSE /\ room' = None
  /\ ws_tx' = None /\ authenticated' = FALSE
  /\ UNCHANGED connect_gen

(* do_disconnect, which the UI also calls when it gives up. It drops the
   sender of the socket; the tasks it leaves alone. *)
Forget ==
  /\ session' = FALSE
  /\ reconnect' = None
  /\ main' = FALSE
  /\ room' = None
  /\ ws_tx' = None
  /\ authenticated' = FALSE
  /\ connect_gen' = connect_gen + 1

DoDisconnect ==
  /\ UserActs
  /\ Forget
  /\ UNCHANGED <<events, task, sock, early, stale>>

(* send_ws of a room command: the server obeys it if it comes after a login,
   also one that is not answered yet, and ignores it otherwise. *)
SendRoom(r) ==
  LET heard == sock[ws_tx].user \/ sock[ws_tx].asked > 0
  IN  sock' = [sock EXCEPT ![ws_tx].room = IF heard THEN r ELSE @]

(* join_room: without a connection nothing happens. A server that rejects
   the room is left out: the client would not take its room back. *)
Join(r) ==
  IF ws_tx = None
  THEN UNCHANGED <<room, sock>>
  ELSE SendRoom(r) /\ room' = r

JoinRoom(r) ==
  /\ UserActs
  /\ main
  /\ ws_tx # None
  /\ Join(r)
  /\ early' = (reconnect # None)
  /\ UNCHANGED <<session, reconnect, main, sharedVars, task, stale>>

LeaveRoom ==
  /\ UserActs
  /\ main
  /\ ws_tx # None
  /\ room # None
  /\ SendRoom(None)
  /\ room' = None
  /\ early' = (reconnect # None)
  /\ UNCHANGED <<session, reconnect, main, sharedVars, task, stale>>

----------------------------------------------------------------------------
(* A connection attempt: establish_session *)

Goto(a, pc) == task' = [task EXCEPT ![a].pc = pc]
Finish(a)   == task' = [task EXCEPT ![a] = None]
At(a, pc)   == task[a] # None /\ task[a].pc = pc

(* After the delay: an attempt of an older generation stops here. *)
Start(a) ==
  /\ At(a, "start")
  /\ IF task[a].gen = connect_gen THEN Goto(a, "open") ELSE Finish(a)
  /\ UNCHANGED <<uiVars, sharedVars, sock, acts, early, stale>>

(* No token, no route, a timeout. *)
OpenFails(a) ==
  /\ At(a, "open")
  /\ Post("failed", task[a].gen)
  /\ Finish(a)
  /\ UNCHANGED <<uiVars, ws_tx, authenticated, connect_gen, sock, acts, early, stale>>

(* ws_client::connect: the sender becomes ws_tx and the two tasks start. *)
OpenSucceeds(a) ==
  /\ At(a, "open")
  /\ FreeSockets # {}
  /\ LET s == CHOOSE s \in FreeSockets : TRUE
     IN  /\ ws_tx' = s
         /\ sock' = [sock EXCEPT ![s] =
              [send |-> TRUE, recv |-> TRUE, link |-> TRUE, asked |-> 0,
               user |-> FALSE, room |-> None,
               gen |-> task[a].gen, by |-> a]]
  /\ Goto(a, "login")
  /\ Acting(task[a].gen)
  /\ UNCHANGED <<uiVars, authenticated, connect_gen, events, acts, early>>

(* The login goes to whatever socket ws_tx is by now, if there is one. *)
Login(a) ==
  /\ At(a, "login")
  /\ IF ws_tx = None
     THEN UNCHANGED <<sock, stale>>
     ELSE /\ sock' = [sock EXCEPT ![ws_tx].asked = @ + 1]
          /\ stale' = (stale \/ sock[ws_tx].by # a)
  /\ Finish(a)
  /\ UNCHANGED <<uiVars, sharedVars, acts, early>>

----------------------------------------------------------------------------
(* The tasks of a socket *)

(* A socket is gone when both of its tasks are. *)
Left(s, half) ==
  LET rest == [sock[s] EXCEPT ![half] = FALSE]
  IN  sock' = [sock EXCEPT ![s] = IF rest.send \/ rest.recv THEN rest ELSE None]

(* The server answers a login; the receive task notes a success itself and
   hands every answer to the UI. *)
Answer(s, kind) ==
  /\ sock[s] # None /\ sock[s].recv /\ sock[s].link
  /\ sock[s].asked > 0
  /\ sock' = [sock EXCEPT
       ![s].asked = @ - 1,
       ![s].user = @ \/ kind = "welcome",
       ![s].room = IF kind = "welcome" \/ sock[s].user THEN @ ELSE None]
  /\ Post(kind, sock[s].gen)
  /\ UNCHANGED <<uiVars, ws_tx, connect_gen, task, acts, early>>

Welcomed(s) ==
  /\ Answer(s, "welcome")
  /\ authenticated' = TRUE
  /\ Acting(sock[s].gen)

Refused(s) == Answer(s, "refusal") /\ UNCHANGED <<authenticated, stale>>

LinkBreaks(s) ==
  /\ sock[s] # None /\ sock[s].link
  /\ sock' = [sock EXCEPT ![s].link = FALSE]
  /\ UNCHANGED <<uiVars, sharedVars, task, acts, early, stale>>

(* Whose sender, or receiver, of s clears ws_tx: it may be that of another
   socket by now. *)
Clears(s) == stale' = (stale \/ ws_tx \notin {None, s}) /\ ws_tx' = None

(* A plausible slip: the send task reports the loss as well. *)
SenderReports(s) ==
  /\ sock[s] # None /\ sock[s].send
  /\ ws_tx # s \/ ~sock[s].link
  /\ Left(s, "send")
  /\ Clears(s)
  /\ Post("lost", sock[s].gen)
  /\ UNCHANGED <<uiVars, authenticated, connect_gen, task, acts, early>>

(* The send task ends when its channel is closed or sending fails. *)
SenderEnds(s) ==
  /\ sock[s] # None /\ sock[s].send
  /\ ws_tx # s \/ ~sock[s].link
  /\ Left(s, "send")
  /\ Clears(s)
  /\ UNCHANGED <<uiVars, authenticated, connect_gen, events, task, acts, early>>

ReceiverEnds(s) ==
  /\ sock[s] # None /\ sock[s].recv
  /\ ~sock[s].link
  /\ Left(s, "recv")
  /\ Clears(s)
  /\ authenticated' = FALSE
  /\ Post("lost", sock[s].gen)
  /\ UNCHANGED <<uiVars, connect_gen, task, acts, early>>

----------------------------------------------------------------------------
(* The UI thread handles the next event *)

Handle(kind) ==
  /\ events # <<>> /\ Head(events).kind = kind
  /\ events' = Tail(events)
  /\ Acting(Head(events).gen)
  /\ UNCHANGED acts

(* A plausible slip: the reconnection ends without entering the room. *)
HandleWelcomeOnly ==
  /\ Handle("welcome")
  /\ main' = TRUE
  /\ reconnect' = None
  /\ UNCHANGED <<session, room, ws_tx, authenticated, connect_gen, task, sock, early>>

(* auth_response, success: a reconnection is over and its room is entered
   again. *)
HandleWelcome ==
  /\ Handle("welcome")
  /\ main' = TRUE
  /\ reconnect' = None
  /\ IF reconnect # None /\ reconnect.room # None
     THEN Join(reconnect.room) /\ early' = FALSE
     ELSE UNCHANGED <<room, sock, early>>
  /\ UNCHANGED <<session, ws_tx, authenticated, connect_gen, task>>

HandleRefusal ==
  /\ Handle("refusal")
  /\ Forget
  /\ UNCHANGED <<task, sock, early>>

(* Plausible slips: one attempt too many, and attempts that are not counted. *)
ScheduleOneMore(rc, tx, auth) ==
  IF rc.attempt <= MaxAttempts
  THEN /\ reconnect' = [rc EXCEPT !.attempt = @ + 1]
       /\ Spawn(connect_gen)
       /\ ws_tx' = tx /\ authenticated' = auth
       /\ UNCHANGED <<session, main, room, connect_gen>>
  ELSE Forget /\ UNCHANGED task

ScheduleForEver(rc, tx, auth) ==
  /\ reconnect' = rc
  /\ Spawn(connect_gen)
  /\ ws_tx' = tx /\ authenticated' = auth
  /\ UNCHANGED <<session, main, room, connect_gen>>

(* schedule_reconnect for the reconnection rc: the next attempt, or none is
   left. The connection is meanwhile as the caller leaves it. *)
Schedule(rc, tx, auth) ==
  IF rc.attempt < MaxAttempts
  THEN /\ reconnect' = [rc EXCEPT !.attempt = @ + 1]
       /\ Spawn(connect_gen)
       /\ ws_tx' = tx
       /\ authenticated' = auth
       /\ UNCHANGED <<session, main, room, connect_gen>>
  ELSE Forget /\ UNCHANGED task

(* begin_reconnect: a loss in the middle of a reconnection continues it. *)
HandleLost ==
  /\ Handle("lost")
  /\ IF session
     THEN Schedule(IF reconnect = None THEN [attempt |-> 0, room |-> room]
                   ELSE reconnect, None, FALSE)
     ELSE UNCHANGED <<uiVars, ws_tx, authenticated, connect_gen, task>>
  /\ UNCHANGED <<sock, early>>

HandleFailed ==
  /\ Handle("failed")
  /\ IF reconnect # None
     THEN Schedule(reconnect, ws_tx, authenticated)
     ELSE Forget /\ UNCHANGED task
  /\ UNCHANGED <<sock, early>>

----------------------------------------------------------------------------

User == DoConnect \/ DoDisconnect \/ LeaveRoom \/ \E r \in Rooms : JoinRoom(r)

HandleEvent == HandleWelcome \/ HandleRefusal \/ HandleLost \/ HandleFailed

Attempt(a) == Start(a) \/ OpenFails(a) \/ OpenSucceeds(a) \/ Login(a)

Receiver(s) == Welcomed(s) \/ Refused(s) \/ ReceiverEnds(s)

Next ==
  \/ User
  \/ HandleEvent
  \/ \E a \in Tasks : Attempt(a)
  \/ \E s \in Sockets : Receiver(s) \/ SenderEnds(s) \/ LinkBreaks(s)

Spec == Init /\ [][Next]_vars

(* The runtime polls its tasks and the UI timer comes every 30 ms; opening a
   socket has a timeout; a server whose link is up answers a login. Nothing
   is assumed of the user and of the link. *)
Fairness ==
  /\ WF_vars(HandleEvent)
  /\ \A a \in Tasks : WF_vars(Attempt(a))
  /\ \A s \in Sockets : WF_vars(Receiver(s)) /\ WF_vars(SenderEnds(s))

FairSpec == Spec /\ Fairness

----------------------------------------------------------------------------
(* Properties *)

(* What keeps the wanted session going: an attempt that has not opened its
   socket, a socket that would report its loss, or a failure the UI has not
   handled yet, each of the current generation. *)
Lifelines ==
  {<<"attempt", a>> : a \in {b \in Tasks :
      (At(b, "start") \/ At(b, "open")) /\ task[b].gen = connect_gen}}
  \cup {<<"socket", s>> : s \in {x \in Sockets :
      sock[x] # None /\ sock[x].recv /\ sock[x].gen = connect_gen}}
  \cup {<<"event", i>> : i \in {j \in DOMAIN events :
      events[j].kind \in {"lost", "failed"} /\ events[j].gen = connect_gen}}

(* As long as the user wants a session exactly one thing keeps it going, so
   that it neither dies silently nor is opened twice; after a disconnect
   nothing does. Until something left over from an older connection acts. *)
OneLifeline ==
  stale \/ IF session THEN \E x \in Lifelines : Lifelines = {x} ELSE Lifelines = {}

(* After a disconnect, by the user or because the client gave up, the client
   stays disconnected, although the tasks of the connection live on. Until
   something left over acts: an attempt that had looked at connect_gen before
   (actions.rs:266) still opens its socket. *)
DisconnectIsFinal ==
  stale \/ session
  \/ (ws_tx = None /\ ~authenticated /\ ~main /\ room = None /\ reconnect = None)

(* Once a reconnection is over the server has the user in the room the client
   shows, whatever broke in between (rejoin_room). Excused is a room chosen in
   the middle of a reconnection: the client enters the one it left, and none if
   it was in none. *)
RoomKept ==
  \/ stale \/ early \/ ~session \/ ws_tx = None
  \/ reconnect # None \/ events # <<>>
  \/ ~sock[ws_tx].link \/ ~sock[ws_tx].user
  \/ sock[ws_tx].room = room

(* A reconnection ends: the session is restored or given up (the attempts are
   counted over losses in between, begin_reconnect). *)
ReconnectEnds == reconnect # None ~> (reconnect = None \/ stale)

(* The server has the user of s logged in and can reach it. *)
Online(s) == sock[s] # None /\ sock[s].user /\ sock[s].link

(* Who disconnects does not stay online: the connection is closed ("Disconnect
   from the server", client/locales/en.yml:364; "der Empfangs-Task endet, sobald
   der Server die Verbindung schließt", lib/src/ffi.rs:520). *)
DisconnectReachesServer ==
  \A s \in Sockets : (Online(s) /\ ~session) ~> (~Online(s) \/ session)
=============================================================================

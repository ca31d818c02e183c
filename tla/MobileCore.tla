----------------------------- MODULE MobileCore -----------------------------
(***************************************************************************)
(* The library under the mobile apps (lib/src/ffi.rs): one host thread     *)
(* calls tc_connect, tc_join_room and so on, which never wait; the tasks   *)
(* of the connection (net/ws_client.rs) and the task that takes its events *)
(* (forward_events) go on by themselves.  Both sides write the room the    *)
(* client believes to be in.  A call or a handler that locks the state     *)
(* twice is two steps here: everybody else may act in between.             *)
(*                                                                         *)
(* room_join_group and its answer room_joined belong to a server that is   *)
(* not in this repository; what it does is modelled from how ffi.rs uses   *)
(* it.  File streams and uploads are those of the desktop client           *)
(* (FileStreams, Uploads), the microphone's thread is AudioDevices'.       *)
(***************************************************************************)
EXTENDS Naturals, Sequences, SequencesExt

CONSTANTS
  Connections,   \* connections, 1..n: those of tc_connect so far are 1..latest
  Rooms,
  MaxRoomCalls,  \* room calls of the host, kicks and moves by the server (bound)
  NoRoom,        \* None of current_room_id
  NoLink

ASSUME MobileAssumption ==
  /\ MaxRoomCalls \in Nat
  /\ NoRoom \notin Rooms
  /\ Connections \subseteq Nat \ {0} /\ NoLink \notin Connections

VARIABLES
  latest, held,             \* the last connection, and whether the host has it still
  host, entering,           \* what is left of the host's call; the room it will store
  establishing,             \* where establish is, for each connection
  ws_tx, ws_connected,
  send_task, receive_task,  \* the two tasks of each connection
  forward,                  \* forward_events of each: waiting, working on an event,
                            \* doing what is left of one, or gone
  cut,                      \* those aborted while they ran
  joining,                  \* of each: the room of the room_joined it is handling
  current_room, group_join_pending, microphone_open,
  requests, answers,        \* on their way to the server, and to forward_events
  session, place,           \* the server's: logged in, and in which room
  room_calls,
  astray,                   \* the two rooms may differ until the host enters a room
                            \* with nothing on its way; see Astray
  reopened                  \* a room was left while the microphone was being asked for,
                            \* or entered while one was being left

mcVars == <<latest, held, host, entering, establishing, ws_tx, ws_connected, send_task,
            receive_task, forward, cut, joining, current_room, group_join_pending, microphone_open,
            requests, answers, session, place, room_calls, astray, reopened>>

call   == <<host, entering>>
client == <<current_room, group_join_pending, microphone_open>>
tasks  == <<send_task, receive_task>>
events == <<forward, cut, joining>>
at_server == <<session, place>>
excuses == <<astray, reopened>>

Request == [kind : {"login", "config"}] \cup [kind : {"leave"}]
             \cup [kind : {"join", "group"}, room : Rooms]
Answer  == [kind : {"ack", "kicked", "lost"}] \cup [kind : {"joined", "moved"}, room : Rooms]

MCInit ==
  /\ latest = 0 /\ held = FALSE /\ host = "idle" /\ entering = NoRoom
  /\ establishing = [k \in Connections |-> "none"]
  /\ ws_tx = NoLink /\ ws_connected = FALSE
  /\ send_task = [k \in Connections |-> FALSE] /\ receive_task = [k \in Connections |-> FALSE]
  /\ forward = [k \in Connections |-> "none"] /\ cut = {}
  /\ joining = [k \in Connections |-> NoRoom]
  /\ current_room = NoRoom /\ group_join_pending = FALSE /\ microphone_open = FALSE
  /\ requests = [k \in Connections |-> <<>>] /\ answers = [k \in Connections |-> <<>>]
  /\ session = [k \in Connections |-> FALSE] /\ place = [k \in Connections |-> NoRoom]
  /\ room_calls = 0 /\ astray = FALSE /\ reopened = FALSE

RoomCommand(m) == m.kind \in {"join", "group", "leave"}
Decision(m)    == m.kind \in {"moved", "kicked"}
OnItsWay(msgs, P(_)) == \E k \in Connections : \E i \in DOMAIN msgs[k] : P(msgs[k][i])

Asked(m)    == m.kind = "config"
Answered(m) == m.kind = "ack"
MicrophoneAskedFor == OnItsWay(requests, Asked) \/ OnItsWay(answers, Answered)

(* Somebody has stored a room and asks for its microphone, or is about to. *)
Asking == MicrophoneAskedFor \/ host = "asking" \/ \E k \in Connections : forward[k] = "asking"

(* Somebody has left the room and stops the capture next; or the other way round. *)
Stopping == host = "stopping" \/ \E k \in Connections : forward[k] = "stopping"
Clearing == host \in {"clearing", "connecting"} \/ \E k \in Connections : forward[k] = "clearing"

AllQuiet ==
  /\ held /\ ws_tx = latest /\ host = "idle"
  /\ requests[latest] = <<>> /\ answers[latest] = <<>>
  /\ \A k \in Connections : forward[k] # "working" /\ k \notin cut

(* state.send_ws, of one message or of several. *)
SendWs(msgs) == requests' = [requests EXCEPT ![ws_tx] = @ \o msgs]

(* send_audio_config: if there is no connection by now nobody hears it. *)
Configured ==
  IF ws_tx = NoLink THEN requests ELSE [requests EXCEPT ![ws_tx] = Append(@, [kind |-> "config"])]

StopCaptureAndStream ==
  /\ microphone_open' = FALSE
  /\ reopened' = Asking

(* current_room_id = Some(r), with audio_config to follow; current_room_id = None,
   with the capture to be stopped. *)
RoomStored(r) ==
  /\ current_room' = r
  /\ reopened' = (reopened \/ Clearing)

RoomLeft ==
  /\ current_room' = NoRoom
  /\ reopened' = (reopened \/ Asking)

----------------------------------------------------------------------------
(* The host's calls: it makes one at a time *)

(* A task that has ended leaves its events behind: nobody takes them. *)
Ends(k) ==
  /\ forward' = [forward EXCEPT ![k] = "gone"]
  /\ joining' = [joining EXCEPT ![k] = NoRoom]

(* The abort of forward_events: a task that waits ends, one that runs goes on
   until it waits. *)
Aborted ==
  \/ forward[latest] = "waiting" /\ Ends(latest) /\ UNCHANGED cut
  \/ /\ forward[latest] # "waiting" \/ answers[latest] # <<>>
     /\ cut' = cut \cup {latest}
     /\ UNCHANGED <<forward, joining>>

(* tc_disconnect: it stops the capture; then it clears the state and aborts
   forward_events.  tc_connect does the same, then starts a connection. *)
StopsFirst(next) ==
  /\ host = "idle" /\ host' = next
  /\ StopCaptureAndStream
  /\ UNCHANGED <<latest, held, entering, establishing, ws_tx, ws_connected, tasks, events,
                 current_room, group_join_pending, requests, answers, at_server, room_calls,
                 astray>>

TcDisconnect == held /\ StopsFirst("clearing")

TcConnect == ~held /\ latest + 1 \in Connections /\ StopsFirst("connecting")

Cleared ==
  /\ host' = "idle"
  /\ ws_tx' = NoLink /\ ws_connected' = FALSE
  /\ current_room' = NoRoom /\ group_join_pending' = FALSE

DisconnectClears ==
  /\ host = "clearing"
  /\ held' = FALSE
  /\ Cleared /\ Aborted
  /\ UNCHANGED <<latest, entering, establishing, tasks, microphone_open, requests, answers,
                 at_server, room_calls, excuses>>

ConnectStarts ==
  /\ host = "connecting"
  /\ latest' = latest + 1 /\ held' = TRUE
  /\ Cleared
  /\ establishing' = [establishing EXCEPT ![latest'] = "opening"]
  /\ forward' = [forward EXCEPT ![latest'] = "waiting"]
  /\ astray' = FALSE
  /\ UNCHANGED <<entering, tasks, cut, joining, microphone_open, requests, answers, at_server,
                 room_calls, reopened>>

Counted == room_calls < MaxRoomCalls /\ room_calls' = room_calls + 1

ToBeTaken(P(_)) ==
  \E k \in Connections : forward[k] # "gone" /\ \E i \in DOMAIN answers[k] : P(answers[k][i])

(* Why the two rooms may differ after a command of the host: it meets a
   decision of the server or a room_joined that is being handled, or it goes to
   a connection that the host has given up. *)
Astray ==
  \/ ToBeTaken(Decision)
  \/ \E k \in Connections : forward[k] = "working"
  \/ ws_tx # latest

(* A plausible slip: the answer to an earlier group join is taken for one
   still wanted. *)
StillPending == group_join_pending

NoLongerPending == FALSE

(* tc_join_room sends room_join, stores the room, asks for the microphone. *)
TcJoinRoom(r) ==
  /\ host = "idle" /\ Counted
  /\ ws_tx # NoLink
  /\ SendWs(<<[kind |-> "join", room |-> r]>>)
  /\ host' = "storing" /\ entering' = r
  /\ astray' = (Astray \/ (astray /\ ~AllQuiet))
  /\ UNCHANGED <<latest, held, establishing, ws_tx, ws_connected, tasks, events, client, answers,
                 at_server, reopened>>

JoinStores ==
  /\ host = "storing"
  /\ group_join_pending' = NoLongerPending
  /\ RoomStored(entering)
  /\ host' = "asking" /\ entering' = NoRoom
  /\ UNCHANGED <<latest, held, establishing, ws_tx, ws_connected, tasks, events, microphone_open,
                 requests, answers, at_server, room_calls, astray>>

JoinAsks ==
  /\ host = "asking" /\ host' = "idle"
  /\ requests' = Configured
  /\ UNCHANGED <<latest, held, entering, establishing, ws_tx, ws_connected, tasks, events, client,
                 answers, at_server, room_calls, excuses>>

GroupJoin(m) == m.kind \in {"group", "joined"}

(* The late answer to an earlier group join is taken for this one's. *)
TcJoinGroupRoom(r) ==
  /\ host = "idle" /\ Counted
  /\ ws_tx # NoLink
  /\ group_join_pending' = TRUE
  /\ SendWs(<<[kind |-> "group", room |-> r]>>)
  /\ astray' = (astray \/ Astray \/ OnItsWay(requests, GroupJoin) \/ ToBeTaken(GroupJoin))
  /\ UNCHANGED <<latest, held, call, establishing, ws_tx, ws_connected, tasks, events, current_room,
                 microphone_open, answers, at_server, reopened>>

(* With no room yet, as before room_joined, nothing is sent: the server puts the
   user into a room the host has left. *)
TcLeaveRoom ==
  /\ host = "idle" /\ Counted
  /\ \/ /\ current_room # NoRoom /\ ws_tx # NoLink
        /\ SendWs(<<[kind |-> "leave"]>>)
        /\ astray' = (astray \/ Astray)
     \/ /\ current_room = NoRoom \/ ws_tx = NoLink
        /\ astray' = (astray \/ Astray \/ group_join_pending)
        /\ UNCHANGED requests
  /\ host' = "leaving"
  /\ UNCHANGED <<latest, held, entering, establishing, ws_tx, ws_connected, tasks, events, client,
                 answers, at_server, reopened>>

LeaveClears ==
  /\ host = "leaving" /\ host' = "stopping"
  /\ group_join_pending' = FALSE
  /\ RoomLeft
  /\ UNCHANGED <<latest, held, entering, establishing, ws_tx, ws_connected, tasks, events,
                 microphone_open, requests, answers, at_server, room_calls, astray>>

LeaveStops ==
  /\ host = "stopping" /\ host' = "idle"
  /\ StopCaptureAndStream
  /\ UNCHANGED <<latest, held, entering, establishing, ws_tx, ws_connected, tasks, events,
                 current_room, group_join_pending, requests, answers, at_server, room_calls,
                 astray>>

----------------------------------------------------------------------------
(* establish and the tasks of a connection *)

(* Nobody compares generations here: a connection that comes up after its
   tc_disconnect takes the place of whatever there is. *)
ConnectionOpens(k) ==
  /\ establishing[k] = "opening"
  /\ establishing' = [establishing EXCEPT ![k] = "open"]
  /\ ws_tx' = k /\ ws_connected' = TRUE
  /\ send_task' = [send_task EXCEPT ![k] = TRUE]
  /\ receive_task' = [receive_task EXCEPT ![k] = TRUE]
  /\ astray' = (astray \/ k # latest \/ ~held \/ current_room # NoRoom)
  /\ UNCHANGED <<latest, held, call, events, client, requests, answers, at_server, room_calls,
                 reopened>>

ConnectFails(k) ==
  /\ establishing[k] = "opening"
  /\ establishing' = [establishing EXCEPT ![k] = "done"]
  /\ UNCHANGED <<latest, held, call, ws_tx, ws_connected, tasks, events, client, requests, answers,
                 at_server, room_calls, excuses>>

SendLogin(k) ==
  /\ establishing[k] = "open"
  /\ establishing' = [establishing EXCEPT ![k] = "done"]
  /\ IF ws_tx = NoLink THEN UNCHANGED requests ELSE SendWs(<<[kind |-> "login"]>>)
  /\ UNCHANGED <<latest, held, call, ws_tx, ws_connected, tasks, events, client, answers, at_server,
                 room_calls, excuses>>

(* The receive task passes m on, if there is still someone to take it. *)
Send(k, m) ==
  answers' = IF forward[k] = "gone" /\ m.kind # "ack"
             THEN answers ELSE [answers EXCEPT ![k] = Append(@, m)]

(* The channel of a connection that is not ws_tx any more is closed. *)
SenderEnds(k) ==
  /\ send_task[k] /\ ws_tx # k
  /\ send_task' = [send_task EXCEPT ![k] = FALSE]
  /\ ws_connected' = FALSE /\ ws_tx' = NoLink
  /\ UNCHANGED <<latest, held, call, establishing, receive_task, events, client, requests, answers,
                 at_server, room_calls, excuses>>

(* The socket breaks, or the server closes it. *)
ConnectionLost(k) ==
  /\ receive_task[k]
  /\ receive_task' = [receive_task EXCEPT ![k] = FALSE]
  /\ ws_connected' = FALSE /\ ws_tx' = NoLink
  /\ requests' = [requests EXCEPT ![k] = <<>>]
  /\ Send(k, [kind |-> "lost"])
  /\ session' = [session EXCEPT ![k] = FALSE] /\ place' = [place EXCEPT ![k] = NoRoom]
  /\ UNCHANGED <<latest, held, call, establishing, send_task, events, client, room_calls, excuses>>

(* audio_config_ack: handled by the receive task, which does not wait for what
   forward_events has still to handle. *)
AckArrives(k) ==
  \E i \in DOMAIN answers[k] :
    /\ answers[k][i].kind = "ack"
    /\ \A j \in 1 .. i - 1 : answers[k][j].kind # "ack"
    /\ answers' = [answers EXCEPT ![k] = RemoveAt(@, i)]
    /\ microphone_open' = TRUE
    /\ UNCHANGED <<latest, held, call, establishing, ws_tx, ws_connected, tasks, events,
                   current_room, group_join_pending, requests, at_server, room_calls, excuses>>

----------------------------------------------------------------------------
(* forward_events *)

(* It takes the next event.  room_joined: the swap of group_join_pending; what
   follows comes later. *)
TakeEvent(k) ==
  /\ forward[k] = "waiting" /\ answers[k] # <<>>
  /\ Head(answers[k]).kind # "ack"
  /\ forward' = [forward EXCEPT ![k] = "working"]
  /\ LET wanted == Head(answers[k]).kind = "joined" /\ group_join_pending
     IN  /\ joining' = [joining EXCEPT ![k] = IF wanted THEN Head(answers[k]).room ELSE NoRoom]
         /\ group_join_pending' = (group_join_pending /\ ~wanted)
         /\ astray' = (astray \/ (wanted /\ host # "idle"))
  /\ UNCHANGED <<latest, held, call, establishing, ws_tx, ws_connected, tasks, cut, current_room,
                 microphone_open, requests, answers, at_server, room_calls, reopened>>

(* It acts for a connection the host has given up. *)
Late(k) == k # latest \/ k \in cut

(* The event is done with, but for a step of its own, "then". *)
Handled(k, then) ==
  /\ answers' = [answers EXCEPT ![k] = Tail(@)]
  /\ forward' = [forward EXCEPT ![k] = then]

RoomJoined(k) ==
  /\ forward[k] = "working" /\ Head(answers[k]).kind = "joined"
  /\ \/ joining[k] = NoRoom /\ Handled(k, "waiting") /\ UNCHANGED <<current_room, excuses>>
     \/ /\ joining[k] # NoRoom
        /\ RoomStored(joining[k])
        /\ Handled(k, "asking")
        /\ astray' = (astray \/ Late(k))
  /\ joining' = [joining EXCEPT ![k] = NoRoom]
  /\ UNCHANGED <<latest, held, call, establishing, ws_tx, ws_connected, tasks, cut,
                 group_join_pending, microphone_open, requests, at_server, room_calls>>

UserMoved(k) ==
  /\ forward[k] = "working" /\ Head(answers[k]).kind = "moved"
  /\ RoomStored(Head(answers[k]).room)
  /\ Handled(k, "asking")
  /\ astray' = (astray \/ Late(k))
  /\ UNCHANGED <<latest, held, call, establishing, ws_tx, ws_connected, tasks, cut, joining,
                 group_join_pending, microphone_open, requests, at_server, room_calls>>

(* The lock is free between the room and its audio_config. *)
ForwardAsks(k) ==
  /\ forward[k] = "asking" /\ forward' = [forward EXCEPT ![k] = "waiting"]
  /\ requests' = Configured
  /\ UNCHANGED <<latest, held, call, establishing, ws_tx, ws_connected, tasks, cut, joining, client,
                 answers, at_server, room_calls, excuses>>

(* A plausible slip: the room is left, the microphone stays open. *)
LeaveCapturing == UNCHANGED <<microphone_open, reopened>>

CloseMicrophone == StopCaptureAndStream

(* user_kicked, user_banned and the like: the room, then the capture. *)
PutOut(k) ==
  /\ forward[k] = "working" /\ Head(answers[k]).kind = "kicked"
  /\ RoomLeft
  /\ Handled(k, "stopping")
  /\ astray' = (astray \/ Late(k))
  /\ UNCHANGED <<latest, held, call, establishing, ws_tx, ws_connected, tasks, cut, joining,
                 group_join_pending, microphone_open, requests, at_server, room_calls>>

ForwardStops(k) ==
  /\ forward[k] = "stopping" /\ forward' = [forward EXCEPT ![k] = "waiting"]
  /\ CloseMicrophone
  /\ UNCHANGED <<latest, held, call, establishing, ws_tx, ws_connected, tasks, cut, joining,
                 current_room, group_join_pending, requests, answers, at_server, room_calls,
                 astray>>

(* connection_lost: the capture, then the room. *)
LossStops(k) ==
  /\ forward[k] = "working" /\ Head(answers[k]).kind = "lost"
  /\ CloseMicrophone
  /\ Handled(k, "clearing")
  /\ UNCHANGED <<latest, held, call, establishing, ws_tx, ws_connected, tasks, cut, joining,
                 current_room, group_join_pending, requests, at_server, room_calls, astray>>

LossClears(k) ==
  /\ forward[k] = "clearing" /\ forward' = [forward EXCEPT ![k] = "waiting"]
  /\ current_room' = NoRoom
  /\ astray' = (astray \/ Late(k))
  /\ UNCHANGED <<latest, held, call, establishing, ws_tx, ws_connected, tasks, cut, joining,
                 group_join_pending, microphone_open, requests, answers, at_server, room_calls,
                 reopened>>

(* An aborted task ends when it waits next; with an event there, it need not. *)
ForwardEnds(k) ==
  /\ k \in cut /\ forward[k] = "waiting"
  /\ Ends(k)
  /\ cut' = cut \ {k}
  /\ UNCHANGED <<latest, held, call, establishing, ws_tx, ws_connected, tasks, client, requests,
                 answers, at_server, room_calls, excuses>>

----------------------------------------------------------------------------
(* The server.  A user logged in gets an answer to room_join only if it is
   refused; a user that is not is ignored. *)

Received(k, kind) ==
  /\ receive_task[k] /\ requests[k] # <<>>
  /\ Head(requests[k]).kind = kind
  /\ requests' = [requests EXCEPT ![k] = Tail(@)]
  /\ UNCHANGED <<latest, held, call, establishing, ws_tx, ws_connected, tasks, events, client,
                 room_calls, reopened>>

ServerLogin(k) ==
  /\ Received(k, "login")
  /\ session' = [session EXCEPT ![k] = TRUE]
  /\ UNCHANGED <<place, answers, astray>>

ServerJoin(k) ==
  /\ Received(k, "join")
  /\ \/ /\ session[k]
        /\ place' = [place EXCEPT ![k] = Head(requests[k]).room]
        /\ UNCHANGED astray
     \/ astray' = TRUE /\ UNCHANGED place
  /\ UNCHANGED <<session, answers>>

ServerJoinGroup(k) ==
  /\ Received(k, "group")
  /\ \/ /\ session[k]
        /\ place' = [place EXCEPT ![k] = Head(requests[k]).room]
        /\ Send(k, [kind |-> "joined", room |-> Head(requests[k]).room])
     \/ UNCHANGED <<place, answers>>
  /\ UNCHANGED <<session, astray>>

ServerLeave(k) ==
  /\ Received(k, "leave")
  /\ place' = [place EXCEPT ![k] = NoRoom]
  /\ UNCHANGED <<session, answers, astray>>

ServerConfig(k) ==
  /\ Received(k, "config")
  /\ IF session[k] THEN Send(k, [kind |-> "ack"]) ELSE UNCHANGED answers
  /\ UNCHANGED <<at_server, astray>>

(* A moderator moves the user, or kicks it, which ends the session.  The user of
   a connection nobody listens to any more is left alone. *)
Decides(k) ==
  /\ Counted
  /\ receive_task[k] /\ session[k] /\ forward[k] # "gone"
  /\ \/ \E r \in Rooms : /\ place' = [place EXCEPT ![k] = r]
                         /\ Send(k, [kind |-> "moved", room |-> r])
                         /\ UNCHANGED session
     \/ /\ session' = [session EXCEPT ![k] = FALSE]
        /\ place' = [place EXCEPT ![k] = NoRoom]
        /\ Send(k, [kind |-> "kicked"])
  /\ astray' = (astray \/ group_join_pending \/ OnItsWay(requests, RoomCommand) \/ host # "idle")
  /\ UNCHANGED <<latest, held, call, establishing, ws_tx, ws_connected, tasks, events, client,
                 requests, reopened>>

MCNext ==
  \/ TcConnect \/ ConnectStarts \/ TcDisconnect \/ DisconnectClears
  \/ JoinStores \/ JoinAsks \/ TcLeaveRoom \/ LeaveClears \/ LeaveStops
  \/ \E r \in Rooms : TcJoinRoom(r) \/ TcJoinGroupRoom(r)
  \/ \E k \in Connections :
       \/ ConnectionOpens(k) \/ ConnectFails(k) \/ SendLogin(k)
       \/ SenderEnds(k) \/ ConnectionLost(k) \/ AckArrives(k)
       \/ TakeEvent(k) \/ RoomJoined(k) \/ UserMoved(k) \/ ForwardAsks(k)
       \/ PutOut(k) \/ ForwardStops(k) \/ LossStops(k) \/ LossClears(k) \/ ForwardEnds(k)
       \/ ServerLogin(k) \/ ServerJoin(k) \/ ServerJoinGroup(k) \/ ServerLeave(k)
       \/ ServerConfig(k) \/ Decides(k)

MCSpec == MCInit /\ [][MCNext]_mcVars

----------------------------------------------------------------------------
(* Every variable has its type. *)
MCTypeOK ==
  /\ latest \in Connections \cup {0} /\ held \in BOOLEAN /\ ws_connected \in BOOLEAN
  /\ host \in {"idle", "storing", "asking", "leaving", "stopping", "clearing", "connecting"}
  /\ entering \in Rooms \cup {NoRoom}
  /\ establishing \in [Connections -> {"none", "opening", "open", "done"}]
  /\ ws_tx \in Connections \cup {NoLink}
  /\ send_task \in [Connections -> BOOLEAN] /\ receive_task \in [Connections -> BOOLEAN]
  /\ forward \in [Connections -> {"none", "waiting", "working", "asking", "stopping", "clearing",
                                  "gone"}]
  /\ cut \subseteq Connections
  /\ joining \in [Connections -> Rooms \cup {NoRoom}]
  /\ current_room \in Rooms \cup {NoRoom}
  /\ group_join_pending \in BOOLEAN /\ microphone_open \in BOOLEAN
  /\ \A k \in Connections : requests[k] \in Seq(Request) /\ answers[k] \in Seq(Answer)
  /\ session \in [Connections -> BOOLEAN] /\ place \in [Connections -> Rooms \cup {NoRoom}]
  /\ room_calls \in 0 .. MaxRoomCalls
  /\ astray \in BOOLEAN /\ reopened \in BOOLEAN

(* ffi.rs:618-688, 335-357: with nothing on its way, the room tc_current_room
   reports is the one the server has the user in, whatever joins, group joins,
   moves, kicks and connections went before -- unless one of them was refused or
   met another, since the last room entered in quiet. *)
RoomAgreed == AllQuiet => current_room = place[latest] \/ astray

(* ffi.rs:272-288, ws_client.rs:231-268: who is in no room has the microphone
   closed as soon as nobody is about to stop it -- unless a room was left while
   its microphone was being asked for (tc_leave_room between the two locks of
   ffi.rs:338-339 or 354-355, or before the answer), or one was entered while
   another was being left (between those of tc_disconnect, ffi.rs:514-530, or of
   connection_lost, ffi.rs:437-439). *)
MicrophoneInRoom == microphone_open => current_room # NoRoom \/ reopened \/ Stopping
=============================================================================

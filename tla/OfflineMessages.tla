--------------------------- MODULE OfflineMessages ---------------------------
(***************************************************************************)
(* Chat and offline messages: server/src/chat/handler.rs, with the part of *)
(* the login in control/handler.rs that delivers what was stored.          *)
(*                                                                         *)
(* A connection's task handles one message at a time and is interrupted at *)
(* every await: after it has looked whether the recipient is online, after *)
(* every stored message it sends, before it deletes what it has sent.  The *)
(* text of a message is left out; its number is the order in which the     *)
(* messages were taken up.  A message on its way to a socket that goes     *)
(* down counts as sent to a dead socket.                                   *)
(***************************************************************************)
EXTENDS Naturals, Sequences, FiniteSets

CONSTANTS
  Accounts,     \* rows of the table users
  Conns,        \* connections; each logs in once
  AccountOf,    \* the account a connection logs in to
  MaxMessages,  \* bound: messages the clients send
  MaxMoves,     \* bound: changes of a room
  MaxFailures,  \* bound: database calls that fail
  None,
  Room          \* the recipient of a room message

ASSUME ChatAssumption ==
  /\ AccountOf \in [Conns -> Accounts]
  /\ None \notin Conns /\ Room \notin Accounts
  /\ MaxMessages \in Nat /\ MaxMoves \in Nat /\ MaxFailures \in Nat

VARIABLES
  users,     \* the connection that holds the session of each account, or None
  room,      \* the accounts in the one room
  socket,    \* the connections whose socket is up
  stage,     \* what the task of each connection does next
  job,       \* the messages it does it with
  stored,    \* the table offline_messages: the rows for each account, oldest first
  inbox,     \* what each client has received, in order
  taken,     \* the messages taken up so far
  moves,     \* changes of a room so far
  failures,  \* failed database calls so far
  disturbed  \* messages whose handling met a login, a loss or a failure
             \* of the recipient's side

omVars == <<users, room, socket, stage, job, stored, inbox, taken, moves,
            failures, disturbed>>

Message == [id: 1..MaxMessages, via: Conns, to: Accounts \cup {Room}]

Delivering == {"listing", "sending", "deleting"}
Posting    == {"deliver", "save", "broadcast"}
ChatStages     == {"new", "open", "closed"} \cup Delivering \cup Posting

Reaches(a)   == users[a] # None /\ users[a] \in socket

(* The session of a is in between: a login still delivers, or its socket is
   down and the server does not know yet. *)
Unsettled(a) ==
  \E c \in Conns : /\ AccountOf[c] = a
                   /\ \/ stage[c] \in Delivering
                      \/ c \notin socket /\ stage[c] \notin {"new", "closed"}

(* The messages tasks have taken up for a and not let go of. *)
InHand(a) ==
  {m \in taken : \E c \in Conns : /\ stage[c] \in Posting \cup Delivering
                                  /\ m \in {job[c][i] : i \in DOMAIN job[c]}
                                  /\ m.to \in {a, Room}}

(* What a login or a loss of a comes across: the messages in hand, and while
   a delivery is under way all that was ever sent to a. *)
Crossed(a) ==
  InHand(a) \cup (IF Unsettled(a) THEN {m \in taken : m.to = a} ELSE {})

(* send_to_user: the session's channel takes the message whether or not its
   socket still is there. *)
SendTo(a, m) ==
  inbox' = IF Reaches(a) THEN [inbox EXCEPT ![users[a]] = Append(@, m)] ELSE inbox

(* broadcast_to_room, under one read lock. *)
BroadcastToRoom(m) ==
  inbox' = [c \in Conns |->
              IF \E a \in room : users[a] = c /\ Reaches(a)
              THEN Append(inbox[c], m) ELSE inbox[c]]

Fail ==
  /\ failures < MaxFailures
  /\ failures' = failures + 1

GoTo(c, s, ms) ==
  /\ stage' = [stage EXCEPT ![c] = s]
  /\ job' = [job EXCEPT ![c] = ms]

----------------------------------------------------------------------------
OMInit ==
  /\ users = [a \in Accounts |-> None]
  /\ room = {}
  /\ socket = {}
  /\ stage = [c \in Conns |-> "new"]
  /\ job = [c \in Conns |-> <<>>]
  /\ stored = [a \in Accounts |-> <<>>]
  /\ inbox = [c \in Conns |-> <<>>]
  /\ taken = {}
  /\ moves = 0
  /\ failures = 0
  /\ disturbed = {}

(* add_user of a login that succeeds; an older session of the account is
   replaced, and with it goes its room. *)
Login(c) ==
  LET a == AccountOf[c]
  IN  /\ stage[c] = "new"
      /\ users' = [users EXCEPT ![a] = c]
      /\ room' = room \ {a}
      /\ socket' = socket \cup {c}
      /\ GoTo(c, "listing", <<>>)
      /\ disturbed' = disturbed \cup Crossed(a)
      /\ UNCHANGED <<stored, inbox, taken, moves, failures>>

(* A plausible slip: ORDER BY created_at DESC. *)
NewestFirst(a) ==
  [i \in DOMAIN stored[a] |-> stored[a][Len(stored[a]) + 1 - i]]

(* get_offline_messages: every row for the account, oldest first. *)
GetOfflineMessages(a) == stored[a]

(* Nothing stored, or a table that cannot be read: the delivery is over. *)
ReadStored(c) ==
  LET batch == GetOfflineMessages(AccountOf[c])
  IN  /\ stage[c] = "listing"
      /\ \/ GoTo(c, IF batch = <<>> THEN "open" ELSE "sending", batch)
            /\ UNCHANGED failures
         \/ GoTo(c, "open", <<>>) /\ Fail
      /\ UNCHANGED <<users, room, socket, stored, inbox, taken, moves, disturbed>>

(* The next stored message goes to whoever has the session by now.  When the
   sender's row cannot be read the delivery ends and deletes nothing. *)
SendStored(c) ==
  LET a == AccountOf[c]
  IN  /\ stage[c] = "sending"
      /\ \/ /\ SendTo(a, Head(job[c]))
            /\ GoTo(c, IF Len(job[c]) = 1 THEN "deleting" ELSE "sending",
                       Tail(job[c]))
            /\ UNCHANGED <<failures, disturbed>>
         \/ /\ Fail
            /\ GoTo(c, "open", <<>>)
            /\ disturbed' = disturbed \cup {m \in taken : m.to = a}
            /\ UNCHANGED inbox
      /\ UNCHANGED <<users, room, socket, stored, taken, moves>>

(* A plausible slip: what was delivered stays in the table. *)
KeepDelivered(a) == stored

(* delete_offline_messages: all rows of the account, also those stored since
   they were read. *)
DeleteOfflineMessages(a) == [stored EXCEPT ![a] = <<>>]

DeleteStored(c) ==
  LET a == AccountOf[c]
  IN  /\ stage[c] = "deleting"
      /\ GoTo(c, "open", <<>>)
      /\ \/ stored' = DeleteOfflineMessages(a) /\ UNCHANGED <<failures, disturbed>>
         \/ /\ Fail
            /\ disturbed' = disturbed \cup {m \in taken : m.to = a}
            /\ UNCHANGED stored
      /\ UNCHANGED <<users, room, socket, inbox, taken, moves>>

(* A new message of the client of c.  The handlers act for the account, also
   when another connection has its session by now. *)
TakeUp(c, to, s) ==
  LET m == [id |-> Cardinality(taken) + 1, via |-> c, to |-> to]
  IN  /\ Cardinality(taken) < MaxMessages
      /\ stage[c] = "open"
      /\ c \in socket
      /\ users[AccountOf[c]] # None
      /\ taken' = taken \cup {m}
      /\ GoTo(c, s, <<m>>)
      /\ disturbed' = disturbed \cup
           (IF \E a \in Accounts : to \in {a, Room} /\ Unsettled(a) THEN {m} ELSE {})
      /\ UNCHANGED <<users, room, socket, stored, inbox, moves, failures>>

(* chat_private: the recipient is looked up, then served. *)
ChatPrivate(c) ==
  \E to \in Accounts : TakeUp(c, to, IF users[to] # None THEN "deliver" ELSE "save")

(* chat_room: of a room the sender is in. *)
ChatRoom(c) == AccountOf[c] \in room /\ TakeUp(c, Room, "broadcast")

Deliver(c) ==
  /\ stage[c] = "deliver"
  /\ SendTo(job[c][1].to, job[c][1])
  /\ GoTo(c, "open", <<>>)
  /\ UNCHANGED <<users, room, socket, stored, taken, moves, failures, disturbed>>

(* save_offline_message: the sender is not told of a failure. *)
Save(c) ==
  /\ stage[c] = "save"
  /\ GoTo(c, "open", <<>>)
  /\ \/ /\ stored' = [stored EXCEPT ![job[c][1].to] = Append(@, job[c][1])]
        /\ UNCHANGED <<failures, disturbed>>
     \/ Fail /\ disturbed' = disturbed \cup {job[c][1]} /\ UNCHANGED stored
  /\ UNCHANGED <<users, room, socket, inbox, taken, moves>>

Broadcast(c) ==
  /\ stage[c] = "broadcast"
  /\ BroadcastToRoom(job[c][1])
  /\ GoTo(c, "open", <<>>)
  /\ UNCHANGED <<users, room, socket, stored, taken, moves, failures, disturbed>>

(* set_room for an account that is online. *)
SetRoom(a) ==
  /\ moves < MaxMoves
  /\ users[a] # None
  /\ room' = IF a \in room THEN room \ {a} ELSE room \cup {a}
  /\ moves' = moves + 1
  /\ UNCHANGED <<users, socket, stage, job, stored, inbox, taken, failures, disturbed>>

(* The socket goes down; the task finishes what it is doing first. *)
Lose(c) ==
  /\ c \in socket
  /\ socket' = socket \ {c}
  /\ disturbed' = disturbed \cup Crossed(AccountOf[c])
  /\ UNCHANGED <<users, room, stage, job, stored, inbox, taken, moves, failures>>

(* cleanup_connection of the owner of the session (Sessions takes its steps
   apart). *)
CleanUp(c) ==
  LET a == AccountOf[c]
  IN  /\ stage[c] = "open" /\ c \notin socket
      /\ users' = IF users[a] = c THEN [users EXCEPT ![a] = None] ELSE users
      /\ room' = IF users[a] = c THEN room \ {a} ELSE room
      /\ GoTo(c, "closed", <<>>)
      /\ UNCHANGED <<socket, stored, inbox, taken, moves, failures, disturbed>>

OMNext ==
  \/ \E c \in Conns :
       \/ Login(c) \/ ReadStored(c) \/ SendStored(c) \/ DeleteStored(c)
       \/ ChatPrivate(c) \/ ChatRoom(c) \/ Deliver(c) \/ Save(c) \/ Broadcast(c)
       \/ Lose(c) \/ CleanUp(c)
  \/ \E a \in Accounts : SetRoom(a)

OMSpec == OMInit /\ [][OMNext]_omVars

----------------------------------------------------------------------------
(* Every variable has its type. *)
OMTypeOK ==
  /\ users \in [Accounts -> Conns \cup {None}]
  /\ room \subseteq Accounts
  /\ socket \subseteq Conns
  /\ stage \in [Conns -> ChatStages]
  /\ job \in [Conns -> Seq(Message)]
  /\ stored \in [Accounts -> Seq(Message)]
  /\ inbox \in [Conns -> Seq(Message)]
  /\ taken \subseteq Message
  /\ moves \in 0..MaxMoves
  /\ failures \in 0..MaxFailures
  /\ disturbed \subseteq taken

Places(m) ==
  UNION {{c} \X {i \in DOMAIN inbox[c] : inbox[c][i] = m} : c \in Conns}
StoredAt(m) == {i \in DOMAIN stored[m.to] : stored[m.to][i] = m}

(* A private message nothing came across (no login, loss or database failure
   of the recipient while a task worked on it) is received once or waits in
   the table, never both, never neither: chat/handler.rs:44 and :83. *)
ReceivedOnceOrStored ==
  \A m \in taken \ disturbed :
    m.to # Room /\ m \notin InHand(m.to) /\ ~Unsettled(m.to) =>
      Cardinality(Places(m)) + Cardinality(StoredAt(m)) = 1

(* What one connection sent arrives in the order it was sent, the messages
   stored in between included: a client never sees an answer before its
   question. *)
InOrderOfSending ==
  \A c \in Conns : \A i, j \in DOMAIN inbox[c] :
    /\ i < j
    /\ inbox[c][i].via = inbox[c][j].via
    /\ {inbox[c][i], inbox[c][j]} \cap disturbed = {}
    => inbox[c][i].id < inbox[c][j].id
=============================================================================

----------------------------- MODULE UserLocks -----------------------------
(***************************************************************************)
(* The operations of UserManager taken apart into their lock acquisitions  *)
(* (server/src/user/manager.rs).                                           *)
(*                                                                         *)
(* The registry is guarded by three tokio RwLocks, one per map.  add_user  *)
(* and remove_user take all three for writing, in the order users,         *)
(* token_map, audio_map.  get_user_by_token, called by the UDP receive     *)
(* loop for every packet, takes token_map and, with that guard still held, *)
(* users.  Everything else takes users alone.  Many connection tasks and   *)
(* the UDP task run at once on a multi-threaded runtime.                   *)
(*                                                                         *)
(* A tokio RwLock is fair: waiters queue in the order they asked, a reader *)
(* behind a waiting writer waits for it too.                               *)
(***************************************************************************)
EXTENDS UserManager, Sequences

CONSTANTS
  Workers,   \* connection tasks
  UdpTasks   \* the UDP receive loop, or no task when UDP is off

ASSUME TaskAssumption == None \notin Workers \cup UdpTasks

VARIABLES
  queue,   \* queue[l]: the tasks waiting for lock l, first come first served
  holds,   \* holds[p]: the locks task p has acquired, as its guards hold them
  op,      \* op[p]: the operation task p is executing
  pc,      \* "idle", "waiting" for a lock, "in" with all locks, "mid" add_user
  old      \* old[p]: the session add_user removed before it inserts the new one

lockVars == <<queue, holds, op, pc, old>>
vars     == <<umVars, lockVars>>

Tasks == Workers \cup UdpTasks
Locks == {"users", "token_map", "audio_map"}
NoOp  == [kind |-> "none"]

(* What a connection task calls: UserManager's exclusive operations, a
   setter and a reader.  set_muted stands for every setter and user_count
   for every reader: they take the same single lock. *)
WorkerOps ==
  [kind: {"add"}, u: Accounts, c: Conns, tn: Tenants]
  \cup [kind: {"remove"}, u: Accounts]
  \cup [kind: {"set"}, u: Accounts, b: BOOLEAN]
  \cup {[kind |-> "read"]}

(* What the receive loop calls per packet: the lookup (uid is what token_map
   said), set_udp_addr and the readers of the relay. *)
UdpOps ==
  [kind: {"lookup"}, t: Ids, uid: {None}]
  \cup [kind: {"set"}, u: Accounts, b: BOOLEAN]
  \cup {[kind |-> "read"]}

OpsOf(p) == IF p \in UdpTasks THEN UdpOps ELSE WorkerOps
IsWriter(p) == op[p].kind \in {"add", "remove", "set"}

(* A plausible slip: remove_user takes the locks in the opposite order. *)
PlanRemoveReversed(k) ==
  CASE k = "add"    -> <<"users", "token_map", "audio_map">>
    [] k = "remove" -> <<"audio_map", "token_map", "users">>
    [] k = "lookup" -> <<"token_map", "users">>
    [] OTHER        -> <<"users">>

(* The locks an operation takes, in this order. *)
Plan(k) ==
  CASE k \in {"add", "remove"} -> <<"users", "token_map", "audio_map">>
    [] k = "lookup"            -> <<"token_map", "users">>
    [] OTHER                   -> <<"users">>

(* The lock task p waits for, and the one its operation takes after l. *)
WantedLock(p) == CHOOSE l \in Locks : \E i \in 1 .. Len(queue[l]) : queue[l][i] = p
LockAfter(k, l) == Plan(k)[1 + CHOOSE i \in 1 .. Len(Plan(k)) : Plan(k)[i] = l]

(* A plausible slip: a guard is dropped as soon as the next lock is taken. *)
HandOverHand(p, l) == {l}

(* The guards p holds once it has l: all of them live until the call returns. *)
Held(p, l) == holds[p] \cup {l}

(* p is first in line for l and compatible with the guards alive on it. *)
CanEnter(p, l) ==
  /\ Head(queue[l]) = p
  /\ \A q \in Tasks : l \in holds[q] => ~IsWriter(p) /\ ~IsWriter(q)

----------------------------------------------------------------------------
LocksInit ==
  /\ Init
  /\ queue = [l \in Locks |-> <<>>]
  /\ holds = [p \in Tasks |-> {}]
  /\ op = [p \in Tasks |-> NoOp]
  /\ pc = [p \in Tasks |-> "idle"]
  /\ old = [p \in Tasks |-> None]

(* A call starts by queueing for its first lock. *)
Begin(p) ==
  /\ pc[p] = "idle"
  /\ \E o \in OpsOf(p) :
       /\ op' = [op EXCEPT ![p] = o]
       /\ queue' = [queue EXCEPT ![Plan(o.kind)[1]] = Append(@, p)]
  /\ pc' = [pc EXCEPT ![p] = "waiting"]
  /\ UNCHANGED <<umVars, holds, old>>

(* The account the packet's token stands for, read under token_map. *)
LookedUp(p, l) ==
  IF op[p].kind = "lookup" /\ l = "token_map"
  THEN [op[p] EXCEPT !.uid = token_map[op[p].t]]
  ELSE op[p]

(* l is the last lock of the operation; get_user_by_token does not go on to
   users for an unknown token. *)
IsLast(o, l) ==
  \/ l = Plan(o.kind)[Len(Plan(o.kind))]
  \/ o.kind = "lookup" /\ o.uid = None

(* The guard of the awaited lock is handed out, and the call queues for the
   next lock or has what it needs. *)
Acquire(p) ==
  /\ pc[p] = "waiting"
  /\ LET l == WantedLock(p)
         o == LookedUp(p, l)
     IN /\ CanEnter(p, l)
        /\ holds' = [holds EXCEPT ![p] = Held(p, l)]
        /\ op' = [op EXCEPT ![p] = o]
        /\ IF IsLast(o, l)
           THEN /\ queue' = [queue EXCEPT ![l] = Tail(@)]
                /\ pc' = [pc EXCEPT ![p] = "in"]
           ELSE /\ queue' = [queue EXCEPT ![l] = Tail(@),
                                          ![LockAfter(o.kind, l)] = Append(@, p)]
                /\ UNCHANGED pc
  /\ UNCHANGED <<umVars, old>>

(* The guards are dropped when the call returns. *)
Return(p) ==
  /\ holds' = [holds EXCEPT ![p] = {}]
  /\ op' = [op EXCEPT ![p] = NoOp]
  /\ pc' = [pc EXCEPT ![p] = "idle"]
  /\ UNCHANGED queue

(* add_user, first half: the old session and its identifiers go. *)
AddDrop(p) ==
  /\ pc[p] = "in" /\ op[p].kind = "add"
  /\ LET u == op[p].u
     IN /\ RemoveUser(u)
        /\ old' = [old EXCEPT ![p] = users[u]]
  /\ pc' = [pc EXCEPT ![p] = "mid"]
  /\ UNCHANGED <<told, queue, holds, op>>

(* A plausible slip: the connection of the old session hears nothing. *)
ToldOnlyNew(p) == [told EXCEPT ![op[p].c] = {}]

(* The queues once add_user has told the connection of the old session. *)
ToldOld(p) ==
  [d \in Conns |->
     IF d = op[p].c THEN {}
     ELSE IF old[p] # None /\ old[p].tx = d
          THEN told[d] \cup {"session_replaced"}
     ELSE told[d]]

(* add_user, second half: fresh identifiers, the new session. *)
AddInsert(p) ==
  /\ pc[p] = "mid"
  /\ \E t, a \in Ids :
       /\ token_map[t] = None /\ audio_map[a] = None
       /\ users' = [users EXCEPT ![op[p].u] =
                      FreshSession(op[p].c, op[p].tn, t, a)]
       /\ token_map' = [token_map EXCEPT ![t] = op[p].u]
       /\ audio_map' = [audio_map EXCEPT ![a] = op[p].u]
  /\ told' = ToldOld(p)
  /\ old' = [old EXCEPT ![p] = None]
  /\ Return(p)

Remove(p) ==
  /\ pc[p] = "in" /\ op[p].kind = "remove"
  /\ RemoveUser(op[p].u)
  /\ Return(p)
  /\ UNCHANGED <<told, old>>

SetOne(p) ==
  /\ pc[p] = "in" /\ op[p].kind = "set"
  /\ SetMuted(op[p].u, op[p].b)
  /\ Return(p)
  /\ UNCHANGED <<token_map, audio_map, told, old>>

(* A reader, or a lookup, returns a copy of what it read. *)
Answer(p) ==
  /\ pc[p] = "in" /\ op[p].kind \in {"read", "lookup"}
  /\ Return(p)
  /\ UNCHANGED <<umVars, old>>

Proceed(p) ==
  Acquire(p) \/ AddDrop(p) \/ AddInsert(p) \/ Remove(p) \/ SetOne(p) \/ Answer(p)

LocksNext == \E p \in Tasks : Begin(p) \/ Proceed(p)

LocksSpec == LocksInit /\ [][LocksNext]_vars

(* The runtime polls every task that is ready: a waiter whose lock is handed
   to it runs on, and no operation awaits anything while it holds its guards
   but the next lock. *)
FairLocksSpec == LocksSpec /\ \A p \in Tasks : WF_vars(Proceed(p))

----------------------------------------------------------------------------
OpType ==
  {NoOp} \cup WorkerOps
  \cup [kind: {"lookup"}, t: Ids, uid: Accounts \cup {None}]

(* Every variable has its type. *)
LocksTypeOK ==
  /\ TypeOK
  /\ queue \in [Locks -> Seq(Tasks)]
  /\ holds \in [Tasks -> SUBSET Locks]
  /\ op \in [Tasks -> OpType]
  /\ pc \in [Tasks -> {"idle", "waiting", "in", "mid"}]
  /\ old \in [Tasks -> Session \cup {None}]

(* get_user_by_token answers with the session that holds the token it was
   asked for, never with a session the account took in the meantime and
   never with nothing for a token it found: the guard on token_map is held
   until users has been read. *)
LookupConsistent ==
  \A p \in UdpTasks :
    pc[p] = "in" /\ op[p].kind = "lookup" /\ op[p].uid # None =>
      /\ users[op[p].uid] # None
      /\ users[op[p].uid].session_token = op[p].t

(* What the other tasks may assume of the registry: while add_user is between
   its two halves the old session still counts. *)
Mid == {p \in Tasks : pc[p] = "mid"}
Undo(map, field, p) ==
  IF old[p] = None THEN map ELSE [map EXCEPT ![old[p][field]] = op[p].u]

seenUsers ==
  IF Mid = {} THEN users
  ELSE LET p == CHOOSE q \in Mid : TRUE IN [users EXCEPT ![op[p].u] = old[p]]
seenTokens ==
  IF Mid = {} THEN token_map ELSE Undo(token_map, "session_token", CHOOSE q \in Mid : TRUE)
seenAudio ==
  IF Mid = {} THEN audio_map ELSE Undo(audio_map, "audio_id", CHOOSE q \in Mid : TRUE)

Atomic == INSTANCE UserManager
            WITH users <- seenUsers, token_map <- seenTokens, audio_map <- seenAudio

(* The locks make every operation atomic: add_user, remove_user and the
   setters, however they interleave, do to the registry what the steps of
   UserManager do. *)
ImplementsUserManager == Atomic!Spec

(* The three maps agree whenever a task can see them. *)
SeenMapsConsistent == Atomic!MapsConsistent

(* The one circle the lock order allows: a lookup that holds token_map waits
   for users, which a writer holds that waits for token_map. *)
LookupCycle ==
  \E p \in UdpTasks, q \in Workers :
    /\ pc[p] = "waiting" /\ op[p].kind = "lookup" /\ "token_map" \in holds[p]
    /\ pc[q] = "waiting" /\ op[q].kind \in {"add", "remove"} /\ "users" \in holds[q]

(* Every call returns, unless a lookup and a writer of the registry wait for
   each other: no other order of the calls blocks, and nobody starves in a
   queue. *)
CallsReturnOrCycle ==
  \A p \in Tasks : pc[p] = "waiting" ~> pc[p] = "idle" \/ LookupCycle

(* A login, once it registers its session, gets to send its auth_response
   (docs/protocol.md: auth_login is answered by auth_response). *)
LoginAnswered ==
  \A p \in Workers : pc[p] = "waiting" /\ op[p].kind = "add" ~> pc[p] = "idle"
=============================================================================

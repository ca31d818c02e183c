------------------------- MODULE UserLocks_proofs -------------------------
(***************************************************************************)
(* The locks of UserManager make its operations atomic: the invariant of   *)
(* the three lock queues and of the guards, and from it that the detailed  *)
(* operations implement the steps of UserManager.                          *)
(***************************************************************************)
EXTENDS UserLocks, UserManager_proofs, SequenceTheorems

----------------------------------------------------------------------------
(* Queues. *)

In(q, s) == \E i \in 1 .. Len(s) : s[i] = q
Once(s)  == \A i, j \in 1 .. Len(s) : s[i] = s[j] => i = j

(* Queueing at the end, and being served at the head. *)
LEMMA AppendQueue ==
  ASSUME NEW S, NEW s \in Seq(S), NEW p \in S
  PROVE  /\ Append(s, p) \in Seq(S)
         /\ \A q : In(q, Append(s, p)) <=> In(q, s) \/ q = p
         /\ Once(s) /\ ~In(p, s) => Once(Append(s, p))
<1>1. /\ Append(s, p) \in Seq(S)
      /\ Len(Append(s, p)) = Len(s) + 1
      /\ \A i \in 1 .. Len(s) : Append(s, p)[i] = s[i]
      /\ Append(s, p)[Len(s) + 1] = p
      /\ Len(s) \in Nat
  BY AppendProperties, LenProperties
<1>2. 1 .. Len(Append(s, p)) = (1 .. Len(s)) \cup {Len(s) + 1}
  BY <1>1
<1>3. \A q : In(q, Append(s, p)) <=> In(q, s) \/ q = p
  BY <1>1, <1>2 DEF In
<1>4. ASSUME Once(s), ~In(p, s)
      PROVE  Once(Append(s, p))
  <2> SUFFICES ASSUME NEW i \in 1 .. Len(Append(s, p)), NEW j \in 1 .. Len(Append(s, p)),
                      Append(s, p)[i] = Append(s, p)[j]
               PROVE  i = j
    BY DEF Once
  <2>1. CASE i \in 1 .. Len(s) /\ j \in 1 .. Len(s)
    BY <2>1, <1>1, <1>4 DEF Once
  <2>2. CASE i = Len(s) + 1 /\ j \in 1 .. Len(s)
    BY <2>2, <1>1, <1>4 DEF In
  <2>3. CASE i \in 1 .. Len(s) /\ j = Len(s) + 1
    BY <2>3, <1>1, <1>4 DEF In
  <2>4. CASE i = Len(s) + 1 /\ j = Len(s) + 1
    BY <2>4
  <2>5. QED
    BY <1>2, <2>1, <2>2, <2>3, <2>4
<1>5. QED
  BY <1>1, <1>3, <1>4

LEMMA TailQueue ==
  ASSUME NEW S, NEW s \in Seq(S), s # <<>>, Once(s)
  PROVE  /\ Tail(s) \in Seq(S)
         /\ \A q : In(q, Tail(s)) <=> In(q, s) /\ q # Head(s)
         /\ Once(Tail(s))
<1>1. /\ Tail(s) \in Seq(S)
      /\ Len(Tail(s)) = Len(s) - 1
      /\ \A i \in 1 .. Len(Tail(s)) : Tail(s)[i] = s[i + 1]
      /\ Head(s) = s[1]
      /\ Len(s) \in Nat /\ Len(s) # 0
  BY HeadTailProperties, EmptySeq, LenProperties
<1>2. \A i \in 1 .. Len(Tail(s)) : i + 1 \in 1 .. Len(s)
  BY <1>1
<1>3. Once(Tail(s))
  <2> SUFFICES ASSUME NEW i \in 1 .. Len(Tail(s)), NEW j \in 1 .. Len(Tail(s)),
                      Tail(s)[i] = Tail(s)[j]
               PROVE  i = j
    BY DEF Once
  <2>1. s[i + 1] = s[j + 1] /\ i + 1 \in 1 .. Len(s) /\ j + 1 \in 1 .. Len(s)
    BY <1>1, <1>2
  <2>2. i + 1 = j + 1
    BY <2>1 DEF Once
  <2>3. QED
    BY <2>2
<1>4. ASSUME NEW q, In(q, Tail(s))
      PROVE  In(q, s) /\ q # Head(s)
  <2>1. PICK i \in 1 .. Len(Tail(s)) : Tail(s)[i] = q
    BY <1>4 DEF In
  <2>2. s[i + 1] = q /\ i + 1 \in 1 .. Len(s)
    BY <2>1, <1>1, <1>2
  <2>3. In(q, s)
    BY <2>2 DEF In
  <2>4. 1 \in 1 .. Len(s) /\ i + 1 # 1
    BY <1>1
  <2>5. s[i + 1] # s[1]
    BY <2>2, <2>4 DEF Once
  <2>6. QED
    BY <2>2, <2>3, <2>5, <1>1
<1>5. ASSUME NEW q, In(q, s), q # Head(s)
      PROVE  In(q, Tail(s))
  <2>1. PICK i \in 1 .. Len(s) : s[i] = q
    BY <1>5 DEF In
  <2>2. i # 1
    BY <2>1, <1>5, <1>1
  <2>3. i - 1 \in 1 .. Len(Tail(s)) /\ (i - 1) + 1 = i
    BY <2>2, <1>1
  <2>4. Tail(s)[i - 1] = q
    BY <2>1, <2>3, <1>1
  <2>5. QED
    BY <2>3, <2>4 DEF In
<1>6. QED
  BY <1>1, <1>3, <1>4, <1>5

----------------------------------------------------------------------------
(* Plans and operations. *)

Kinds == {"add", "remove", "set", "read", "lookup"}

(* What an operation holds while it waits for l, and once it goes on. *)
Before(k, l) ==
  CASE l = "users"     -> IF k = "lookup" THEN {"token_map"} ELSE {}
    [] l = "token_map" -> IF k = "lookup" THEN {} ELSE {"users"}
    [] OTHER           -> {"users", "token_map"}
Needed(k) ==
  CASE k \in {"add", "remove"} -> Locks
    [] k = "lookup"            -> {"token_map", "users"}
    [] OTHER                   -> {"users"}

LEMMA PlanSteps ==
  ASSUME NEW k \in Kinds
  PROVE  /\ Plan(k)[1] \in Needed(k)
         /\ Before(k, Plan(k)[1]) = {}
         /\ Needed(k) \subseteq Locks
         /\ \A l \in Needed(k) :
              /\ l \notin Before(k, l)
              /\ Before(k, l) \cup {l} \subseteq Needed(k)
              /\ l = Plan(k)[Len(Plan(k))] => Before(k, l) \cup {l} = Needed(k)
              /\ l # Plan(k)[Len(Plan(k))] =>
                   /\ LockAfter(k, l) \in Needed(k)
                   /\ LockAfter(k, l) # l
                   /\ Before(k, LockAfter(k, l)) = Before(k, l) \cup {l}
         /\ \A l, m \in Needed(k) : Before(k, l) = Before(k, m) => l = m
<1>1. CASE k \in {"add", "remove"}
  <2>1. Plan(k) = <<"users", "token_map", "audio_map">> /\ Needed(k) = Locks
    BY <1>1 DEF Plan, Needed
  <2>2. LockAfter(k, "users") = "token_map"
    <3>1. (CHOOSE i \in 1 .. Len(Plan(k)) : Plan(k)[i] = "users") = 1
      BY <2>1
    <3>2. QED
      BY <2>1, <3>1 DEF LockAfter
  <2>3. LockAfter(k, "token_map") = "audio_map"
    <3>1. (CHOOSE i \in 1 .. Len(Plan(k)) : Plan(k)[i] = "token_map") = 2
      BY <2>1
    <3>2. QED
      BY <2>1, <3>1 DEF LockAfter
  <2>4. /\ Before(k, "users") = {}
        /\ Before(k, "token_map") = {"users"}
        /\ Before(k, "audio_map") = {"users", "token_map"}
    BY <1>1 DEF Before
  <2>5. QED
    BY <2>1, <2>2, <2>3, <2>4 DEF Locks
<1>2. CASE k = "lookup"
  <2>1. Plan(k) = <<"token_map", "users">> /\ Needed(k) = {"token_map", "users"}
    BY <1>2 DEF Plan, Needed
  <2>2. LockAfter(k, "token_map") = "users"
    <3>1. (CHOOSE i \in 1 .. Len(Plan(k)) : Plan(k)[i] = "token_map") = 1
      BY <2>1
    <3>2. QED
      BY <2>1, <3>1 DEF LockAfter
  <2>3. Before(k, "users") = {"token_map"} /\ Before(k, "token_map") = {}
    BY <1>2 DEF Before
  <2>4. QED
    BY <2>1, <2>2, <2>3 DEF Locks
<1>3. CASE k \in {"set", "read"}
  <2>1. /\ Plan(k) = <<"users">>
        /\ Needed(k) = {"users"}
        /\ Before(k, "users") = {}
    BY <1>3 DEF Plan, Needed, Before
  <2>2. QED
    BY <2>1 DEF Locks
<1>4. QED
  BY <1>1, <1>2, <1>3 DEF Kinds

(* The fields of an operation, by its kind. *)
LEMMA OpFields ==
  ASSUME NEW o \in OpType
  PROVE  /\ o.kind \in Kinds \cup {"none"}
         /\ o.kind = "none" => o = NoOp
         /\ o.kind = "add" => o.u \in Accounts /\ o.c \in Conns /\ o.tn \in Tenants
         /\ o.kind = "remove" => o.u \in Accounts
         /\ o.kind = "set" => o.u \in Accounts /\ o.b \in BOOLEAN
         /\ o.kind = "lookup" => o.t \in Ids /\ o.uid \in Accounts \cup {None}
<1>1. CASE o = NoOp
  BY <1>1 DEF NoOp, Kinds
<1>2. CASE o \in [kind: {"add"}, u: Accounts, c: Conns, tn: Tenants]
  BY <1>2 DEF Kinds
<1>3. CASE o \in [kind: {"remove"}, u: Accounts]
  BY <1>3 DEF Kinds
<1>4. CASE o \in [kind: {"set"}, u: Accounts, b: BOOLEAN]
  BY <1>4 DEF Kinds
<1>5. CASE o = [kind |-> "read"]
  BY <1>5 DEF Kinds
<1>6. CASE o \in [kind: {"lookup"}, t: Ids, uid: Accounts \cup {None}]
  BY <1>6 DEF Kinds
<1>7. QED
  BY <1>1, <1>2, <1>3, <1>4, <1>5, <1>6 DEF OpType, WorkerOps

(* What a task may begin is an operation, a lookup with nothing found yet. *)
LEMMA BegunOps ==
  ASSUME NEW p \in Tasks, NEW o \in OpsOf(p)
  PROVE  /\ o \in OpType
         /\ o.kind \in Kinds
         /\ o.kind = "lookup" => o.uid = None
<1>1. CASE o \in WorkerOps
  BY <1>1 DEF WorkerOps, OpType, Kinds
<1>2. CASE o \in [kind: {"lookup"}, t: Ids, uid: {None}]
  BY <1>2 DEF OpType, Kinds
<1>3. CASE o \in [kind: {"set"}, u: Accounts, b: BOOLEAN] \/ o = [kind |-> "read"]
  BY <1>3 DEF WorkerOps, OpType, Kinds
<1>4. QED
  BY <1>1, <1>2, <1>3 DEF OpsOf, UdpOps

----------------------------------------------------------------------------
(* The invariant. *)

(* A waiting task is in one queue, and holds what its plan puts before it. *)
QueuesInv ==
  /\ \A l \in Locks : Once(queue[l])
  /\ \A p \in Tasks, l \in Locks :
       In(p, queue[l]) => /\ pc[p] = "waiting"
                          /\ l \in Needed(op[p].kind)
                          /\ holds[p] = Before(op[p].kind, l)
  /\ \A p \in Tasks : pc[p] = "waiting" => \E l \in Locks : In(p, queue[l])

(* A task that goes on holds all its operation needs, an idle one nothing. *)
GuardsInv ==
  \A p \in Tasks :
    /\ pc[p] = "idle" <=> op[p].kind = "none"
    /\ pc[p] = "idle" => holds[p] = {}
    /\ pc[p] \in {"in", "mid"} =>
         holds[p] = IF op[p].kind = "lookup" /\ op[p].uid = None
                    THEN {"token_map"} ELSE Needed(op[p].kind)
    /\ pc[p] = "mid" => op[p].kind = "add"

(* Who shares a lock with another task is a reader. *)
Exclusion ==
  \A p, q \in Tasks : p # q /\ holds[p] \cap holds[q] # {} => ~IsWriter(p)

(* What a lookup found stays what token_map says while it has the guard. *)
FoundInv ==
  \A p \in Tasks : op[p].kind = "lookup" =>
    /\ "token_map" \in holds[p] => op[p].uid = token_map[op[p].t]
    /\ pc[p] = "waiting" /\ holds[p] # {} => op[p].uid # None

(* Between its halves add_user has left nothing of the old session. *)
HalfwayInv ==
  \A p \in Tasks : pc[p] = "mid" =>
    /\ users[op[p].u] = None
    /\ old[p] # None => /\ token_map[old[p].session_token] = None
                        /\ audio_map[old[p].audio_id] = None

LockingInv == QueuesInv /\ GuardsInv /\ Exclusion
LocksInv   == LocksTypeOK /\ MapsConsistent /\ LockingInv /\ FoundInv /\ HalfwayInv

LEMMA InitLocks == LocksInit => LocksInv
<1> SUFFICES ASSUME LocksInit PROVE LocksInv
  OBVIOUS
<1>1. TypeOK /\ MapsConsistent
  BY InitRegistry DEF LocksInit, RegistryOK
<1>2. LocksTypeOK
  BY <1>1, EmptySeq DEF LocksInit, LocksTypeOK, OpType
<1>3. QueuesInv
  BY EmptySeq DEF LocksInit, QueuesInv, In, Once
<1>4. GuardsInv /\ FoundInv /\ HalfwayInv
  BY DEF LocksInit, GuardsInv, FoundInv, HalfwayInv, NoOp
<1>5. Exclusion
  BY DEF LocksInit, Exclusion
<1>6. QED
  BY <1>1, <1>2, <1>3, <1>4, <1>5 DEF LocksInv, LockingInv

(* A waiting task waits for one lock. *)
LEMMA Awaited ==
  ASSUME LocksTypeOK, QueuesInv, NEW p \in Tasks, pc[p] = "waiting"
  PROVE  WantedLock(p) \in Locks /\ In(p, queue[WantedLock(p)])
BY DEF QueuesInv, WantedLock, In

(* ... and no other. *)
LEMMA OneQueue ==
  ASSUME LocksTypeOK, QueuesInv, NEW p \in Tasks, op[p].kind \in Kinds,
         NEW l \in Locks, NEW m \in Locks, In(p, queue[l]), In(p, queue[m])
  PROVE  l = m
<1>1. l \in Needed(op[p].kind) /\ m \in Needed(op[p].kind)
  BY DEF QueuesInv
<1>2. Before(op[p].kind, l) = Before(op[p].kind, m)
  BY DEF QueuesInv
<1>3. QED
  BY <1>1, <1>2, PlanSteps

(* While a writer is at work no other task holds a lock of its own. *)
LEMMA WriterAlone ==
  ASSUME LocksTypeOK, GuardsInv, Exclusion, NEW p \in Tasks, NEW q \in Tasks, p # q,
         pc[p] \in {"in", "mid"}, op[p].kind \in {"add", "remove", "set"}
  PROVE  /\ "users" \notin holds[q]
         /\ pc[q] # "mid"
         /\ op[p].kind # "set" => holds[q] = {}
<1>1. holds[p] = Needed(op[p].kind)
  BY DEF GuardsInv
<1>2. holds[q] \cap holds[p] = {}
  BY DEF Exclusion, IsWriter
<1>3. "users" \notin holds[q]
  BY <1>1, <1>2 DEF Needed, Locks
<1>4. pc[q] # "mid"
  <2> SUFFICES ASSUME pc[q] = "mid" PROVE FALSE
    OBVIOUS
  <2>1. holds[q] = Locks
    BY DEF GuardsInv, Needed
  <2>2. QED
    BY <2>1, <1>3 DEF Locks
<1>5. op[p].kind # "set" => holds[q] = {}
  BY <1>1, <1>2 DEF Needed, LocksTypeOK
<1>6. QED
  BY <1>3, <1>4, <1>5

----------------------------------------------------------------------------
(* The steps of one call. *)

(* A call returns: its guards are gone. *)
LEMMA ReturnLocking ==
  ASSUME LocksTypeOK, LockingInv, NEW p \in Tasks, pc[p] \in {"in", "mid"}, Return(p)
  PROVE  /\ LockingInv'
         /\ queue' \in [Locks -> Seq(Tasks)]
         /\ holds' \in [Tasks -> SUBSET Locks]
         /\ op' \in [Tasks -> OpType]
         /\ pc' \in [Tasks -> {"idle", "waiting", "in", "mid"}]
         /\ op'[p].kind = "none" /\ pc'[p] = "idle"
         /\ \A q \in Tasks : q # p =>
              pc'[q] = pc[q] /\ op'[q] = op[q] /\ holds'[q] = holds[q]
<1>1. /\ queue' = queue
      /\ pc'[p] = "idle" /\ holds'[p] = {} /\ op'[p] = NoOp
      /\ \A q \in Tasks : q # p =>
           pc'[q] = pc[q] /\ op'[q] = op[q] /\ holds'[q] = holds[q]
  BY DEF Return, LocksTypeOK
<1>2. NoOp.kind = "none"
  BY DEF NoOp
<1>3. QueuesInv'
  BY <1>1 DEF LockingInv, QueuesInv
<1>4. GuardsInv'
  BY <1>1, <1>2 DEF LockingInv, GuardsInv
<1>5. Exclusion'
  BY <1>1 DEF LockingInv, Exclusion, IsWriter
<1>6. /\ holds' \in [Tasks -> SUBSET Locks]
      /\ pc' \in [Tasks -> {"idle", "waiting", "in", "mid"}]
  BY DEF Return, LocksTypeOK
<1>7. op' \in [Tasks -> OpType]
  BY DEF Return, LocksTypeOK, OpType
<1>8. QED
  BY <1>1, <1>2, <1>3, <1>4, <1>5, <1>6, <1>7 DEF LockingInv, LocksTypeOK

(* A call begins: it waits for the first lock of its plan. *)
LEMMA BeginKeeps ==
  ASSUME LocksInv, NEW p \in Tasks, Begin(p)
  PROVE  LocksInv'
<1>1. LocksTypeOK /\ MapsConsistent /\ QueuesInv /\ GuardsInv /\ Exclusion /\ FoundInv
      /\ HalfwayInv
  BY DEF LocksInv, LockingInv
<1>2. PICK o \in OpsOf(p) :
        /\ op' = [op EXCEPT ![p] = o]
        /\ queue' = [queue EXCEPT ![Plan(o.kind)[1]] = Append(@, p)]
  BY DEF Begin
<1> DEFINE l == Plan(o.kind)[1]
<1>3. /\ o \in OpType /\ o.kind \in Kinds
      /\ o.kind = "lookup" => o.uid = None
  BY BegunOps
<1>4. l \in Needed(o.kind) /\ l \in Locks /\ Before(o.kind, l) = {}
  BY <1>3, PlanSteps
<1> HIDE DEF l
<1>5. /\ pc[p] = "idle" /\ pc' = [pc EXCEPT ![p] = "waiting"]
      /\ UNCHANGED <<umVars, holds, old>>
  BY DEF Begin
<1>6. holds[p] = {} /\ \A m \in Locks : ~In(p, queue[m])
  BY <1>1, <1>5 DEF GuardsInv, QueuesInv
<1>7. /\ pc'[p] = "waiting" /\ op'[p] = o
      /\ \A q \in Tasks : q # p => pc'[q] = pc[q] /\ op'[q] = op[q]
      /\ holds' = holds
  BY <1>1, <1>2, <1>5 DEF LocksTypeOK
<1>8. /\ queue[l] \in Seq(Tasks)
      /\ queue'[l] = Append(queue[l], p)
      /\ \A m \in Locks : m # l => queue'[m] = queue[m]
  BY <1>1, <1>2, <1>4 DEF LocksTypeOK, l
<1>9. /\ queue'[l] \in Seq(Tasks)
      /\ \A q : In(q, queue'[l]) <=> In(q, queue[l]) \/ q = p
      /\ Once(queue'[l])
  BY <1>1, <1>4, <1>6, <1>8, AppendQueue DEF QueuesInv
<1>10. LocksTypeOK'
  <2>1. TypeOK'
    BY <1>1, <1>5 DEF LocksTypeOK, TypeOK, umVars
  <2>2. queue' \in [Locks -> Seq(Tasks)]
    BY <1>1, <1>2, <1>4, <1>8, <1>9 DEF LocksTypeOK, l
  <2>3. op' \in [Tasks -> OpType] /\ pc' \in [Tasks -> {"idle", "waiting", "in", "mid"}]
    BY <1>1, <1>2, <1>3, <1>5 DEF LocksTypeOK
  <2>4. QED
    BY <1>1, <1>5, <2>1, <2>2, <2>3 DEF LocksTypeOK
<1>11. QueuesInv'
  <2>1. \A m \in Locks : Once(queue'[m])
    BY <1>1, <1>8, <1>9 DEF QueuesInv
  <2>2. ASSUME NEW q \in Tasks, NEW m \in Locks, In(q, queue'[m])
        PROVE  /\ pc'[q] = "waiting"
               /\ m \in Needed(op'[q].kind)
               /\ holds'[q] = Before(op'[q].kind, m)
    <3>1. CASE q = p
      <4>1. m = l
        BY <2>2, <3>1, <1>6, <1>8
      <4>2. QED
        BY <3>1, <4>1, <1>4, <1>6, <1>7
    <3>2. CASE q # p
      <4>1. In(q, queue[m])
        BY <2>2, <3>2, <1>8, <1>9
      <4>2. QED
        BY <3>2, <4>1, <1>1, <1>7 DEF QueuesInv
    <3>3. QED
      BY <3>1, <3>2
  <2>3. ASSUME NEW q \in Tasks, pc'[q] = "waiting"
        PROVE  \E m \in Locks : In(q, queue'[m])
    <3>1. CASE q = p
      BY <3>1, <1>4, <1>9
    <3>2. CASE q # p
      <4>1. PICK m \in Locks : In(q, queue[m])
        BY <2>3, <3>2, <1>1, <1>7 DEF QueuesInv
      <4>2. In(q, queue'[m])
        BY <4>1, <1>8, <1>9
      <4>3. QED
        BY <4>2
    <3>3. QED
      BY <3>1, <3>2
  <2>4. QED
    BY <2>1, <2>2, <2>3 DEF QueuesInv
<1>12. GuardsInv'
  BY <1>1, <1>3, <1>7 DEF GuardsInv, Kinds
<1>13. Exclusion'
  BY <1>1, <1>6, <1>7 DEF Exclusion, IsWriter
<1>14. FoundInv'
  BY <1>1, <1>3, <1>5, <1>6, <1>7 DEF FoundInv, umVars
<1>15. HalfwayInv'
  BY <1>1, <1>5, <1>7 DEF HalfwayInv, umVars
<1>16. MapsConsistent'
  BY <1>1, <1>5 DEF MapsConsistent, TokensReachSessions, NoStaleIds, Online, umVars
<1>17. QED
  BY <1>10, <1>11, <1>12, <1>13, <1>14, <1>15, <1>16 DEF LocksInv, LockingInv

(* A call is handed the lock it waits for. *)
LEMMA AcquireKeeps ==
  ASSUME LocksInv, NEW p \in Tasks, Acquire(p)
  PROVE  LocksInv'
<1>1. LocksTypeOK /\ MapsConsistent /\ QueuesInv /\ GuardsInv /\ Exclusion /\ FoundInv
      /\ HalfwayInv
  BY DEF LocksInv, LockingInv
<1>2. PICK l : l = WantedLock(p)
  OBVIOUS
<1>3. PICK o : o = LookedUp(p, l)
  OBVIOUS
<1> DEFINE k == op[p].kind
<1>4. /\ pc[p] = "waiting"
      /\ CanEnter(p, l)
      /\ holds' = [holds EXCEPT ![p] = holds[p] \cup {l}]
      /\ op' = [op EXCEPT ![p] = o]
      /\ UNCHANGED <<umVars, old>>
  BY <1>2, <1>3 DEF Acquire, Held
<1>5. /\ l \in Locks /\ In(p, queue[l])
      /\ l \in Needed(k)
      /\ holds[p] = Before(k, l)
  BY <1>1, <1>2, <1>4, Awaited DEF QueuesInv
<1>6. op[p] \in OpType /\ k \in Kinds
  BY <1>1, <1>4, OpFields DEF LocksTypeOK, GuardsInv
<1>7. /\ o \in OpType
      /\ o.kind = k
      /\ ~(k = "lookup" /\ l = "token_map") => o = op[p]
      /\ k = "lookup" /\ l = "token_map" =>
           o.t = op[p].t /\ o.uid = token_map[op[p].t]
  <2>1. CASE k = "lookup" /\ l = "token_map"
    <3>1. op[p] \in [kind: {"lookup"}, t: Ids, uid: Accounts \cup {None}]
      BY <2>1, <1>6 DEF OpType, WorkerOps, NoOp
    <3>2. token_map[op[p].t] \in Accounts \cup {None}
      BY <3>1, <1>1 DEF LocksTypeOK, TypeOK
    <3>3. o = [op[p] EXCEPT !.uid = token_map[op[p].t]]
      BY <2>1, <1>3 DEF LookedUp
    <3>4. o \in [kind: {"lookup"}, t: Ids, uid: Accounts \cup {None}]
      BY <3>1, <3>2, <3>3
    <3>5. o.t = op[p].t /\ o.uid = token_map[op[p].t]
      BY <3>1, <3>3
    <3>6. o \in OpType /\ o.kind = k
      BY <2>1, <3>4 DEF OpType
    <3>7. QED
      BY <2>1, <3>5, <3>6
  <2>2. CASE ~(k = "lookup" /\ l = "token_map")
    BY <2>2, <1>3, <1>6 DEF LookedUp
  <2>3. QED
    BY <2>1, <2>2
<1> DEFINE m == LockAfter(k, l)
<1>8. IF IsLast(o, l)
      THEN /\ queue' = [queue EXCEPT ![l] = Tail(@)]
           /\ pc' = [pc EXCEPT ![p] = "in"]
      ELSE /\ queue' = [queue EXCEPT ![l] = Tail(@), ![m] = Append(@, p)]
           /\ pc' = pc
  BY <1>2, <1>3, <1>7 DEF Acquire
<1>9. /\ l \notin Before(k, l)
      /\ l = Plan(k)[Len(Plan(k))] => Before(k, l) \cup {l} = Needed(k)
      /\ l # Plan(k)[Len(Plan(k))] =>
           /\ m \in Needed(k) /\ m \in Locks /\ m # l
           /\ Before(k, m) = Before(k, l) \cup {l}
  BY <1>5, <1>6, PlanSteps
<1> HIDE DEF m
<1>10. /\ queue[l] \in Seq(Tasks) /\ queue[l] # <<>>
       /\ Head(queue[l]) = p /\ Once(queue[l])
  BY <1>1, <1>4, <1>5, EmptySeq DEF LocksTypeOK, CanEnter, QueuesInv, In
<1>11. /\ Tail(queue[l]) \in Seq(Tasks)
       /\ \A q : In(q, Tail(queue[l])) <=> In(q, queue[l]) /\ q # p
       /\ Once(Tail(queue[l]))
  BY <1>10, TailQueue
<1>12. \A n \in Locks : n # l => ~In(p, queue[n])
  BY <1>1, <1>5, <1>6, OneQueue
<1>13. /\ holds'[p] = Before(k, l) \cup {l} /\ op'[p] = o
       /\ \A q \in Tasks : q # p => holds'[q] = holds[q] /\ op'[q] = op[q]
       /\ \A q \in Tasks : q # p => pc'[q] = pc[q]
       /\ IF IsLast(o, l) THEN pc'[p] = "in" ELSE pc'[p] = "waiting"
  BY <1>1, <1>4, <1>5, <1>8 DEF LocksTypeOK
<1>14. /\ queue' \in [Locks -> Seq(Tasks)]
       /\ \A n \in Locks : Once(queue'[n])
       /\ \A q \in Tasks, n \in Locks : q # p => (In(q, queue'[n]) <=> In(q, queue[n]))
       /\ \A n \in Locks : In(p, queue'[n]) <=> ~IsLast(o, l) /\ n = m
       /\ ~IsLast(o, l) => m \in Locks
  <2>1. CASE IsLast(o, l)
    <3>1. /\ queue'[l] = Tail(queue[l])
          /\ \A n \in Locks : n # l => queue'[n] = queue[n]
      BY <2>1, <1>1, <1>5, <1>8 DEF LocksTypeOK
    <3>2. queue' \in [Locks -> Seq(Tasks)]
      BY <2>1, <1>1, <1>8, <1>11 DEF LocksTypeOK
    <3>3. QED
      BY <2>1, <3>1, <3>2, <1>1, <1>11, <1>12 DEF QueuesInv
  <2>2. CASE ~IsLast(o, l)
    <3>1. m \in Needed(k) /\ m \in Locks /\ m # l
      BY <2>2, <1>7, <1>9 DEF IsLast
    <3>2. /\ queue'[l] = Tail(queue[l])
          /\ queue'[m] = Append(queue[m], p)
          /\ \A n \in Locks : n # l /\ n # m => queue'[n] = queue[n]
      BY <2>2, <3>1, <1>1, <1>5, <1>8 DEF LocksTypeOK
    <3>3. queue[m] \in Seq(Tasks) /\ Once(queue[m]) /\ ~In(p, queue[m])
      BY <3>1, <1>1, <1>12 DEF LocksTypeOK, QueuesInv
    <3>4. /\ queue'[m] \in Seq(Tasks)
          /\ \A q : In(q, queue'[m]) <=> In(q, queue[m]) \/ q = p
          /\ Once(queue'[m])
      BY <3>2, <3>3, AppendQueue
    <3>5. queue' \in [Locks -> Seq(Tasks)]
      <4>1. queue' = [[queue EXCEPT ![l] = Tail(queue[l])] EXCEPT ![m] = Append(queue[m], p)]
        BY <2>2, <3>1, <1>1, <1>8 DEF LocksTypeOK
      <4>2. Append(queue[m], p) \in Seq(Tasks)
        BY <3>2, <3>4
      <4>3. QED
        BY <4>1, <4>2, <1>1, <1>11 DEF LocksTypeOK
    <3>6. QED
      BY <2>2, <3>1, <3>2, <3>4, <3>5, <1>1, <1>11, <1>12 DEF QueuesInv
  <2>3. QED
    BY <2>1, <2>2
<1>15. LocksTypeOK'
  <2>1. TypeOK'
    BY <1>1, <1>4 DEF LocksTypeOK, TypeOK, umVars
  <2>2. holds' \in [Tasks -> SUBSET Locks] /\ op' \in [Tasks -> OpType]
    BY <1>1, <1>4, <1>5, <1>7 DEF LocksTypeOK
  <2>3. pc' \in [Tasks -> {"idle", "waiting", "in", "mid"}]
    BY <1>1, <1>8 DEF LocksTypeOK
  <2>4. QED
    BY <1>1, <1>4, <1>14, <2>1, <2>2, <2>3 DEF LocksTypeOK
<1>16. QueuesInv'
  <2>1. ASSUME NEW q \in Tasks, NEW n \in Locks, In(q, queue'[n])
        PROVE  /\ pc'[q] = "waiting"
               /\ n \in Needed(op'[q].kind)
               /\ holds'[q] = Before(op'[q].kind, n)
    <3>1. CASE q = p
      <4>1. ~IsLast(o, l) /\ n = m
        BY <2>1, <3>1, <1>14
      <4>2. l # Plan(k)[Len(Plan(k))]
        BY <4>1, <1>7 DEF IsLast
      <4>3. QED
        BY <3>1, <4>1, <4>2, <1>7, <1>9, <1>13
    <3>2. CASE q # p
      <4>1. In(q, queue[n])
        BY <2>1, <3>2, <1>14
      <4>2. QED
        BY <3>2, <4>1, <1>1, <1>13 DEF QueuesInv
    <3>3. QED
      BY <3>1, <3>2
  <2>2. ASSUME NEW q \in Tasks, pc'[q] = "waiting"
        PROVE  \E n \in Locks : In(q, queue'[n])
    <3>1. CASE q = p
      <4>1. ~IsLast(o, l)
        BY <2>2, <3>1, <1>13
      <4>2. QED
        BY <3>1, <4>1, <1>14
    <3>2. CASE q # p
      BY <2>2, <3>2, <1>1, <1>13, <1>14 DEF QueuesInv
    <3>3. QED
      BY <3>1, <3>2
  <2>3. QED
    BY <2>1, <2>2, <1>14 DEF QueuesInv
<1>17. GuardsInv'
  <2>1. ASSUME pc'[p] = "in"
        PROVE  holds'[p] = IF o.kind = "lookup" /\ o.uid = None
                           THEN {"token_map"} ELSE Needed(o.kind)
    <3>1. IsLast(o, l)
      BY <2>1, <1>13
    <3>2. CASE l = Plan(k)[Len(Plan(k))]
      <4>1. holds'[p] = Needed(k)
        BY <3>2, <1>9, <1>13
      <4>2. ~(k = "lookup" /\ o.uid = None)
        <5> SUFFICES ASSUME k = "lookup", o.uid = None PROVE FALSE
          OBVIOUS
        <5>1. l = "users"
          BY <3>2 DEF Plan
        <5>2. holds[p] # {} /\ o = op[p]
          BY <5>1, <1>5, <1>7 DEF Before
        <5>3. QED
          BY <5>2, <1>1, <1>4 DEF FoundInv
      <4>3. QED
        BY <4>1, <4>2, <1>7
    <3>3. CASE l # Plan(k)[Len(Plan(k))]
      <4>1. k = "lookup" /\ o.uid = None
        BY <3>1, <3>3, <1>7 DEF IsLast
      <4>2. l = "token_map"
        BY <4>1, <3>3, <1>5 DEF Plan, Needed
      <4>3. holds'[p] = {"token_map"}
        BY <4>1, <4>2, <1>13 DEF Before
      <4>4. QED
        BY <4>1, <4>3, <1>7
    <3>4. QED
      BY <3>2, <3>3
  <2>2. pc'[p] \in {"in", "waiting"} /\ o.kind # "none"
    BY <1>6, <1>7, <1>13 DEF Kinds
  <2>3. ASSUME NEW q \in Tasks
        PROVE  /\ pc'[q] = "idle" <=> op'[q].kind = "none"
               /\ pc'[q] = "idle" => holds'[q] = {}
               /\ pc'[q] \in {"in", "mid"} =>
                    holds'[q] = IF op'[q].kind = "lookup" /\ op'[q].uid = None
                                THEN {"token_map"} ELSE Needed(op'[q].kind)
               /\ pc'[q] = "mid" => op'[q].kind = "add"
    <3>1. CASE q = p
      BY <3>1, <2>1, <2>2, <1>13
    <3>2. CASE q # p
      BY <3>2, <1>1, <1>13 DEF GuardsInv
    <3>3. QED
      BY <3>1, <3>2
  <2>4. QED
    BY <2>3 DEF GuardsInv
<1>18. Exclusion'
  <2>1. \A q \in Tasks : IsWriter(q)' <=> IsWriter(q)
    BY <1>7, <1>13 DEF IsWriter
  <2>2. \A q \in Tasks : l \in holds[q] => ~IsWriter(p) /\ ~IsWriter(q)
    BY <1>4 DEF CanEnter
  <2>3. ASSUME NEW q \in Tasks, NEW r \in Tasks, q # r, holds'[q] \cap holds'[r] # {}
        PROVE  ~IsWriter(q)
    <3>1. PICK n : n \in holds'[q] /\ n \in holds'[r]
      BY <2>3
    <3>2. CASE n \in holds[q] /\ n \in holds[r]
      BY <2>3, <3>2, <1>1 DEF Exclusion
    <3>3. CASE n \notin holds[q]
      BY <2>2, <2>3, <3>1, <3>3, <1>5, <1>13
    <3>4. CASE n \notin holds[r]
      BY <2>2, <2>3, <3>1, <3>4, <1>5, <1>13
    <3>5. QED
      BY <3>2, <3>3, <3>4
  <2>4. QED
    BY <2>1, <2>3 DEF Exclusion
<1>19. FoundInv'
  <2>1. token_map' = token_map
    BY <1>4 DEF umVars
  <2>2. ASSUME NEW q \in Tasks, op'[q].kind = "lookup"
        PROVE  /\ "token_map" \in holds'[q] => op'[q].uid = token_map'[op'[q].t]
               /\ pc'[q] = "waiting" /\ holds'[q] # {} => op'[q].uid # None
    <3>1. CASE q = p /\ l = "token_map"
      BY <2>1, <2>2, <3>1, <1>7, <1>13 DEF IsLast
    <3>2. CASE q = p /\ l # "token_map"
      <4>1. o = op[p] /\ k = "lookup" /\ l = "users" /\ holds[p] = {"token_map"}
        BY <2>2, <3>2, <1>5, <1>7, <1>13 DEF Needed, Before
      <4>2. QED
        BY <2>1, <3>2, <4>1, <1>1, <1>4, <1>13 DEF FoundInv
    <3>3. CASE q # p
      BY <2>1, <2>2, <3>3, <1>1, <1>13 DEF FoundInv
    <3>4. QED
      BY <3>1, <3>2, <3>3
  <2>3. QED
    BY <2>2 DEF FoundInv
<1>20. HalfwayInv'
  <2>1. pc'[p] # "mid"
    BY <1>13
  <2>2. UNCHANGED <<users, token_map, audio_map, old>>
    BY <1>4 DEF umVars
  <2>3. QED
    BY <2>1, <2>2, <1>1, <1>13 DEF HalfwayInv
<1>21. MapsConsistent'
  BY <1>1, <1>4 DEF MapsConsistent, TokensReachSessions, NoStaleIds, Online, umVars
<1>22. QED
  BY <1>15, <1>16, <1>17, <1>18, <1>19, <1>20, <1>21 DEF LocksInv, LockingInv

(* add_user takes the old session out. *)
LEMMA AddDropKeeps ==
  ASSUME LocksInv, NEW p \in Tasks, AddDrop(p)
  PROVE  LocksInv'
<1>1. LocksTypeOK /\ MapsConsistent /\ QueuesInv /\ GuardsInv /\ Exclusion /\ FoundInv
      /\ HalfwayInv
  BY DEF LocksInv, LockingInv
<1>2. PICK u : u = op[p].u
  OBVIOUS
<1>3. /\ pc[p] = "in" /\ op[p].kind = "add"
      /\ RemoveUser(u)
      /\ old' = [old EXCEPT ![p] = users[u]]
      /\ pc' = [pc EXCEPT ![p] = "mid"]
      /\ UNCHANGED <<told, queue, holds, op>>
  BY <1>2 DEF AddDrop
<1>4. u \in Accounts
  BY <1>1, <1>2, <1>3, OpFields DEF LocksTypeOK
<1>5. TypeOK' /\ MapsConsistent'
  <2>1. RegistryOK /\ told' \in [Conns -> SUBSET Notices]
    BY <1>1, <1>3 DEF RegistryOK, LocksTypeOK, TypeOK
  <2>2. QED
    BY <2>1, <1>3, <1>4, RemoveUserRegistry DEF RegistryOK
<1>6. /\ pc'[p] = "mid" /\ old'[p] = users[u]
      /\ \A q \in Tasks : q # p => pc'[q] = pc[q]
  BY <1>1, <1>3 DEF LocksTypeOK
<1>7. \A q \in Tasks : q # p => holds[q] = {} /\ pc[q] # "mid"
  BY <1>1, <1>3, WriterAlone
<1>8. LocksTypeOK'
  BY <1>1, <1>3, <1>4, <1>5 DEF LocksTypeOK, TypeOK
<1>9. QueuesInv'
  <2>1. \A l \in Locks : ~In(p, queue[l])
    BY <1>1, <1>3 DEF QueuesInv
  <2>2. QED
    BY <2>1, <1>1, <1>3, <1>6 DEF QueuesInv
<1>10. GuardsInv'
  BY <1>1, <1>3, <1>6 DEF GuardsInv
<1>11. Exclusion'
  BY <1>1, <1>3 DEF Exclusion, IsWriter
<1>12. FoundInv'
  BY <1>1, <1>3, <1>6, <1>7 DEF FoundInv
<1>13. HalfwayInv'
  <2>1. users'[u] = None
    BY <1>1, <1>3, <1>4 DEF RemoveUser, LocksTypeOK, TypeOK
  <2>2. ASSUME users[u] # None
        PROVE  /\ token_map'[users[u].session_token] = None
               /\ audio_map'[users[u].audio_id] = None
    <3>1. users[u].session_token \in Ids /\ users[u].audio_id \in Ids
      BY <2>2, <1>1, <1>4, OnlineSession DEF LocksTypeOK, Online
    <3>2. /\ token_map' = [token_map EXCEPT ![users[u].session_token] = None]
          /\ audio_map' = [audio_map EXCEPT ![users[u].audio_id] = None]
      BY <2>2, <1>3 DEF RemoveUser, TokensWithout, AudioWithout, Online
    <3>3. QED
      BY <3>1, <3>2, <1>1 DEF LocksTypeOK, TypeOK
  <2>3. QED
    BY <2>1, <2>2, <1>2, <1>3, <1>6, <1>7 DEF HalfwayInv
<1>14. QED
  BY <1>5, <1>8, <1>9, <1>10, <1>11, <1>12, <1>13 DEF LocksInv, LockingInv

(* add_user puts the new session in. *)
LEMMA AddInsertKeeps ==
  ASSUME LocksInv, NEW p \in Tasks, AddInsert(p)
  PROVE  LocksInv'
<1>1. LocksTypeOK /\ MapsConsistent /\ LockingInv /\ FoundInv /\ HalfwayInv
      /\ GuardsInv /\ Exclusion
  BY DEF LocksInv, LockingInv
<1>2. PICK o : o = op[p]
  OBVIOUS
<1>3. PICK t \in Ids, a \in Ids :
        /\ token_map[t] = None /\ audio_map[a] = None
        /\ users' = [users EXCEPT ![o.u] = FreshSession(o.c, o.tn, t, a)]
        /\ token_map' = [token_map EXCEPT ![t] = o.u]
        /\ audio_map' = [audio_map EXCEPT ![a] = o.u]
  BY <1>2 DEF AddInsert
<1>4. /\ pc[p] = "mid"
      /\ told' = ToldOld(p)
      /\ old' = [old EXCEPT ![p] = None]
      /\ Return(p)
  BY DEF AddInsert
<1>5. o.kind = "add" /\ o.u \in Accounts /\ o.c \in Conns /\ o.tn \in Tenants
  BY <1>1, <1>2, <1>4, OpFields DEF LocksTypeOK, GuardsInv
<1>6. told' \in [Conns -> SUBSET Notices]
  BY <1>1, <1>4 DEF ToldOld, LocksTypeOK, TypeOK, Notices
<1>7. TypeOK' /\ MapsConsistent'
  <2>1. RegistryOK
    BY <1>1 DEF RegistryOK, LocksTypeOK
  <2>2. TokensWithout(o.u) = token_map /\ AudioWithout(o.u) = audio_map
    BY <1>1, <1>2, <1>4 DEF HalfwayInv, TokensWithout, AudioWithout, Online
  <2>3. RegistryOK'
    BY <2>1, <2>2, <1>3, <1>5, <1>6, NewSessionRegistry
  <2>4. QED
    BY <2>3 DEF RegistryOK
<1>8. /\ LockingInv'
      /\ queue' \in [Locks -> Seq(Tasks)]
      /\ holds' \in [Tasks -> SUBSET Locks]
      /\ op' \in [Tasks -> OpType]
      /\ pc' \in [Tasks -> {"idle", "waiting", "in", "mid"}]
      /\ op'[p].kind = "none" /\ pc'[p] = "idle"
      /\ \A q \in Tasks : q # p =>
           pc'[q] = pc[q] /\ op'[q] = op[q] /\ holds'[q] = holds[q]
  BY <1>1, <1>4, ReturnLocking
<1>9. \A q \in Tasks : q # p => holds[q] = {} /\ pc[q] # "mid"
  BY <1>1, <1>2, <1>4, <1>5, WriterAlone
<1>10. old' \in [Tasks -> Session \cup {None}]
  BY <1>1, <1>4 DEF LocksTypeOK
<1>11. LocksTypeOK'
  BY <1>7, <1>8, <1>10 DEF LocksTypeOK
<1>12. FoundInv'
  BY <1>8, <1>9 DEF FoundInv
<1>13. HalfwayInv'
  BY <1>8, <1>9 DEF HalfwayInv
<1>14. QED
  BY <1>7, <1>8, <1>11, <1>12, <1>13 DEF LocksInv

(* remove_user. *)
LEMMA RemoveKeeps ==
  ASSUME LocksInv, NEW p \in Tasks, Remove(p)
  PROVE  LocksInv'
<1>1. LocksTypeOK /\ MapsConsistent /\ LockingInv /\ FoundInv /\ HalfwayInv
      /\ GuardsInv /\ Exclusion
  BY DEF LocksInv, LockingInv
<1>2. PICK u : u = op[p].u
  OBVIOUS
<1>3. /\ pc[p] = "in" /\ op[p].kind = "remove"
      /\ RemoveUser(u)
      /\ Return(p)
      /\ UNCHANGED <<told, old>>
  BY <1>2 DEF Remove
<1>4. u \in Accounts
  BY <1>1, <1>2, <1>3, OpFields DEF LocksTypeOK
<1>5. TypeOK' /\ MapsConsistent'
  <2>1. RegistryOK /\ told' \in [Conns -> SUBSET Notices]
    BY <1>1, <1>3 DEF RegistryOK, LocksTypeOK, TypeOK
  <2>2. QED
    BY <2>1, <1>3, <1>4, RemoveUserRegistry DEF RegistryOK
<1>6. /\ LockingInv'
      /\ queue' \in [Locks -> Seq(Tasks)]
      /\ holds' \in [Tasks -> SUBSET Locks]
      /\ op' \in [Tasks -> OpType]
      /\ pc' \in [Tasks -> {"idle", "waiting", "in", "mid"}]
      /\ op'[p].kind = "none" /\ pc'[p] = "idle"
      /\ \A q \in Tasks : q # p =>
           pc'[q] = pc[q] /\ op'[q] = op[q] /\ holds'[q] = holds[q]
  BY <1>1, <1>3, ReturnLocking
<1>7. \A q \in Tasks : q # p => holds[q] = {} /\ pc[q] # "mid"
  BY <1>1, <1>3, WriterAlone
<1>8. LocksTypeOK'
  BY <1>1, <1>3, <1>5, <1>6 DEF LocksTypeOK
<1>9. FoundInv' /\ HalfwayInv'
  BY <1>6, <1>7 DEF FoundInv, HalfwayInv
<1>10. QED
  BY <1>5, <1>6, <1>8, <1>9 DEF LocksInv

(* A setter. *)
LEMMA SetOneKeeps ==
  ASSUME LocksInv, NEW p \in Tasks, SetOne(p)
  PROVE  LocksInv'
<1>1. LocksTypeOK /\ MapsConsistent /\ LockingInv /\ FoundInv /\ HalfwayInv
      /\ GuardsInv /\ Exclusion
  BY DEF LocksInv, LockingInv
<1>2. PICK o : o = op[p]
  OBVIOUS
<1>3. /\ pc[p] = "in" /\ o.kind = "set"
      /\ SetMuted(o.u, o.b)
      /\ Return(p)
      /\ UNCHANGED <<token_map, audio_map, told, old>>
  BY <1>2 DEF SetOne
<1>4. o.u \in Accounts /\ o.b \in BOOLEAN
  BY <1>1, <1>2, <1>3, OpFields DEF LocksTypeOK
<1>5. TypeOK' /\ MapsConsistent'
  <2>1. RegistryOK
    BY <1>1 DEF RegistryOK, LocksTypeOK
  <2>2. RegistryOK'
    BY <2>1, <1>3, <1>4, SetMutedRegistry
  <2>3. QED
    BY <2>2 DEF RegistryOK
<1>6. /\ LockingInv'
      /\ queue' \in [Locks -> Seq(Tasks)]
      /\ holds' \in [Tasks -> SUBSET Locks]
      /\ op' \in [Tasks -> OpType]
      /\ pc' \in [Tasks -> {"idle", "waiting", "in", "mid"}]
      /\ op'[p].kind = "none" /\ pc'[p] = "idle"
      /\ \A q \in Tasks : q # p =>
           pc'[q] = pc[q] /\ op'[q] = op[q] /\ holds'[q] = holds[q]
  BY <1>1, <1>3, ReturnLocking
<1>7. \A q \in Tasks : q # p => pc[q] # "mid"
  BY <1>1, <1>2, <1>3, WriterAlone
<1>8. LocksTypeOK'
  BY <1>1, <1>3, <1>5, <1>6 DEF LocksTypeOK
<1>9. FoundInv'
  BY <1>1, <1>3, <1>6 DEF FoundInv
<1>10. HalfwayInv'
  BY <1>6, <1>7 DEF HalfwayInv
<1>11. QED
  BY <1>5, <1>6, <1>8, <1>9, <1>10 DEF LocksInv

(* A reader. *)
LEMMA AnswerKeeps ==
  ASSUME LocksInv, NEW p \in Tasks, Answer(p)
  PROVE  LocksInv'
<1>1. LocksTypeOK /\ MapsConsistent /\ LockingInv /\ FoundInv /\ HalfwayInv
  BY DEF LocksInv
<1>2. pc[p] = "in" /\ Return(p) /\ UNCHANGED <<users, token_map, audio_map, told, old>>
  BY DEF Answer, umVars
<1>3. /\ LockingInv'
      /\ queue' \in [Locks -> Seq(Tasks)]
      /\ holds' \in [Tasks -> SUBSET Locks]
      /\ op' \in [Tasks -> OpType]
      /\ pc' \in [Tasks -> {"idle", "waiting", "in", "mid"}]
      /\ op'[p].kind = "none" /\ pc'[p] = "idle"
      /\ \A q \in Tasks : q # p =>
           pc'[q] = pc[q] /\ op'[q] = op[q] /\ holds'[q] = holds[q]
  BY <1>1, <1>2, ReturnLocking
<1>4. LocksTypeOK'
  BY <1>1, <1>2, <1>3 DEF LocksTypeOK, TypeOK
<1>5. FoundInv' /\ HalfwayInv'
  BY <1>1, <1>2, <1>3 DEF FoundInv, HalfwayInv
<1>6. MapsConsistent'
  BY <1>1, <1>2 DEF MapsConsistent, TokensReachSessions, NoStaleIds, Online
<1>7. QED
  BY <1>3, <1>4, <1>5, <1>6 DEF LocksInv

LEMMA StutterKeeps == LocksInv /\ UNCHANGED vars => LocksInv'
<1> SUFFICES ASSUME LocksInv, UNCHANGED vars PROVE LocksInv'
  OBVIOUS
<1>1. /\ UNCHANGED <<users, token_map, audio_map, told>>
      /\ UNCHANGED <<queue, holds, op, pc, old>>
  BY DEF vars, umVars, lockVars
<1>2. LocksTypeOK' /\ MapsConsistent'
  BY <1>1 DEF LocksInv, LocksTypeOK, TypeOK, MapsConsistent, TokensReachSessions,
              NoStaleIds, Online
<1>3. LockingInv'
  BY <1>1 DEF LocksInv, LockingInv, QueuesInv, GuardsInv, Exclusion, IsWriter
<1>4. FoundInv' /\ HalfwayInv'
  BY <1>1 DEF LocksInv, FoundInv, HalfwayInv
<1>5. QED
  BY <1>2, <1>3, <1>4 DEF LocksInv

LEMMA LocksInductive == LocksSpec => []LocksInv
<1>1. LocksInit => LocksInv
  BY InitLocks
<1>2. LocksInv /\ [LocksNext]_vars => LocksInv'
  <2> SUFFICES ASSUME LocksInv, [LocksNext]_vars PROVE LocksInv'
    OBVIOUS
  <2>1. ASSUME NEW p \in Tasks, Begin(p) PROVE LocksInv'
    BY <2>1, BeginKeeps
  <2>2. ASSUME NEW p \in Tasks, Proceed(p) PROVE LocksInv'
    BY <2>2, AcquireKeeps, AddDropKeeps, AddInsertKeeps, RemoveKeeps, SetOneKeeps,
       AnswerKeeps DEF Proceed
  <2>3. CASE UNCHANGED vars
    BY <2>3, StutterKeeps
  <2>4. QED
    BY <2>1, <2>2, <2>3 DEF LocksNext
<1>3. QED
  BY <1>1, <1>2, PTL DEF LocksSpec

----------------------------------------------------------------------------
(* What the guards give a lookup. *)

(* get_user_by_token answers with the session that holds the token it was
   asked for, whatever the other tasks do between its two locks. *)
THEOREM LookupHolds == LocksSpec => []LookupConsistent
<1>1. LocksInv => LookupConsistent
  <2> SUFFICES ASSUME LocksInv,
                      NEW p \in UdpTasks, pc[p] = "in", op[p].kind = "lookup",
                      op[p].uid # None
               PROVE  /\ users[op[p].uid] # None
                      /\ users[op[p].uid].session_token = op[p].t
    BY DEF LookupConsistent
  <2>1. p \in Tasks
    BY DEF Tasks
  <2>2. holds[p] = {"token_map", "users"}
    BY <2>1 DEF LocksInv, LockingInv, GuardsInv, Needed
  <2>3. op[p].uid = token_map[op[p].t]
    BY <2>1, <2>2 DEF LocksInv, FoundInv
  <2>4. op[p].t \in Ids
    BY <2>1, OpFields DEF LocksInv, LocksTypeOK
  <2>5. QED
    BY <2>3, <2>4 DEF LocksInv, MapsConsistent, NoStaleIds, Online
<1>2. QED
  BY <1>1, LocksInductive, PTL

----------------------------------------------------------------------------
(* The registry as the other tasks see it. *)

LEMMA NobodyHalfway ==
  ASSUME Mid = {}
  PROVE  seenUsers = users /\ seenTokens = token_map /\ seenAudio = audio_map
BY DEF seenUsers, seenTokens, seenAudio

(* One add_user at most is between its halves, ... *)
LEMMA OneHalfway ==
  ASSUME LocksInv, NEW p \in Tasks, pc[p] = "mid"
  PROVE  Mid = {p} /\ (CHOOSE q \in Mid : TRUE) = p
<1>1. op[p].kind = "add"
  BY DEF LocksInv, LockingInv, GuardsInv
<1>2. \A q \in Tasks : q # p => pc[q] # "mid"
  BY <1>1, WriterAlone DEF LocksInv, LockingInv
<1>3. Mid = {p}
  BY <1>2 DEF Mid
<1>4. QED
  BY <1>3

(* ... and what it took out is put back in what the others see. *)
LEMMA SeenHalfway ==
  ASSUME LocksInv, NEW p \in Tasks, pc[p] = "mid"
  PROVE  /\ seenUsers = [users EXCEPT ![op[p].u] = old[p]]
         /\ seenTokens = IF old[p] = None THEN token_map
                         ELSE [token_map EXCEPT ![old[p].session_token] = op[p].u]
         /\ seenAudio = IF old[p] = None THEN audio_map
                        ELSE [audio_map EXCEPT ![old[p].audio_id] = op[p].u]
<1>1. Mid = {p} /\ (CHOOSE q \in Mid : TRUE) = p
  BY OneHalfway
<1>2. Mid # {}
  BY <1>1
<1>3. seenUsers = [users EXCEPT ![op[p].u] = old[p]]
  BY <1>1, <1>2 DEF seenUsers
<1>4. seenTokens = Undo(token_map, "session_token", p)
  BY <1>1, <1>2 DEF seenTokens
<1>5. seenAudio = Undo(audio_map, "audio_id", p)
  BY <1>1, <1>2 DEF seenAudio
<1>6. QED
  BY <1>3, <1>4, <1>5 DEF Undo

(* While an add_user is between its halves, the maps the others see agree. *)
LEMMA SeenAgree == LocksInv => SeenMapsConsistent
<1> SUFFICES ASSUME LocksInv
             PROVE  /\ \A u \in Accounts : seenUsers[u] # None =>
                         /\ seenTokens[seenUsers[u].session_token] = u
                         /\ seenAudio[seenUsers[u].audio_id] = u
                    /\ \A t \in Ids : seenTokens[t] # None =>
                         /\ seenUsers[seenTokens[t]] # None
                         /\ seenUsers[seenTokens[t]].session_token = t
                    /\ \A a \in Ids : seenAudio[a] # None =>
                         /\ seenUsers[seenAudio[a]] # None
                         /\ seenUsers[seenAudio[a]].audio_id = a
  BY DEF SeenMapsConsistent, Atomic!MapsConsistent, Atomic!TokensReachSessions,
         Atomic!NoStaleIds, Atomic!Online
<1>1. LocksTypeOK /\ MapsConsistent
  BY DEF LocksInv
<1>2. /\ \A u \in Accounts : users[u] # None =>
           token_map[users[u].session_token] = u /\ audio_map[users[u].audio_id] = u
      /\ \A t \in Ids : token_map[t] # None =>
           users[token_map[t]] # None /\ users[token_map[t]].session_token = t
      /\ \A a \in Ids : audio_map[a] # None =>
           users[audio_map[a]] # None /\ users[audio_map[a]].audio_id = a
  BY <1>1 DEF MapsConsistent, TokensReachSessions, NoStaleIds, Online
<1>3. CASE Mid = {}
  BY <1>2, <1>3, NobodyHalfway
<1>4. CASE Mid # {}
  <2>1. PICK p \in Tasks : pc[p] = "mid"
    BY <1>4 DEF Mid
  <2>2. PICK u : u = op[p].u
    OBVIOUS
  <2>3. PICK s : s = old[p]
    OBVIOUS
  <2>4. u \in Accounts /\ s \in Session \cup {None}
    <3>1. op[p].kind = "add"
      BY <2>1 DEF LocksInv, LockingInv, GuardsInv
    <3>2. QED
      BY <3>1, <2>2, <2>3, <1>1, OpFields DEF LocksTypeOK
  <2>5. /\ users[u] = None
        /\ s # None => token_map[s.session_token] = None /\ audio_map[s.audio_id] = None
    BY <2>1, <2>2, <2>3 DEF LocksInv, HalfwayInv
  <2>6. /\ seenUsers = [users EXCEPT ![u] = s]
        /\ seenTokens = IF s = None THEN token_map
                        ELSE [token_map EXCEPT ![s.session_token] = u]
        /\ seenAudio = IF s = None THEN audio_map
                       ELSE [audio_map EXCEPT ![s.audio_id] = u]
    BY <2>1, <2>2, <2>3, SeenHalfway
  <2>7. seenUsers[u] = s /\ \A v \in Accounts : v # u => seenUsers[v] = users[v]
    BY <2>4, <2>6, <1>1 DEF LocksTypeOK, TypeOK
  <2>8. CASE s = None
    <3>1. seenUsers = users
      BY <2>4, <2>5, <2>6, <2>8, <1>1 DEF LocksTypeOK, TypeOK
    <3>2. QED
      BY <3>1, <2>6, <2>8, <1>2
  <2>9. CASE s # None
    <3>1. s.session_token \in Ids /\ s.audio_id \in Ids /\ u # None
      BY <2>4, <2>9, NoneAssumption DEF Session
    <3>2. /\ seenTokens[s.session_token] = u
          /\ \A t \in Ids : t # s.session_token => seenTokens[t] = token_map[t]
          /\ seenAudio[s.audio_id] = u
          /\ \A a \in Ids : a # s.audio_id => seenAudio[a] = audio_map[a]
      BY <2>6, <2>9, <3>1, <1>1 DEF LocksTypeOK, TypeOK
    <3>3. ASSUME NEW v \in Accounts, seenUsers[v] # None
          PROVE  /\ seenTokens[seenUsers[v].session_token] = v
                 /\ seenAudio[seenUsers[v].audio_id] = v
      <4>1. CASE v = u
        BY <4>1, <2>7, <3>2
      <4>2. CASE v # u
        <5>1. seenUsers[v] = users[v] /\ Online(v)
          BY <4>2, <3>3, <2>7 DEF Online
        <5>2. users[v].session_token \in Ids /\ users[v].audio_id \in Ids
          BY <5>1, <1>1, OnlineSession DEF LocksTypeOK
        <5>3. token_map[users[v].session_token] = v /\ audio_map[users[v].audio_id] = v
          BY <5>1, <1>2 DEF Online
        <5>4. users[v].session_token # s.session_token /\ users[v].audio_id # s.audio_id
          BY <5>3, <2>5, <2>9, NoneAssumption
        <5>5. QED
          BY <5>1, <5>2, <5>3, <5>4, <3>2
      <4>3. QED
        BY <4>1, <4>2
    <3>4. ASSUME NEW t \in Ids, seenTokens[t] # None
          PROVE  /\ seenUsers[seenTokens[t]] # None
                 /\ seenUsers[seenTokens[t]].session_token = t
      <4>1. CASE t = s.session_token
        BY <4>1, <2>7, <2>9, <3>2
      <4>2. CASE t # s.session_token
        <5>1. seenTokens[t] = token_map[t] /\ token_map[t] \in Accounts
          BY <4>2, <3>2, <3>4, <1>1 DEF LocksTypeOK, TypeOK
        <5>2. users[token_map[t]] # None /\ users[token_map[t]].session_token = t
          BY <5>1, <3>4, <1>2
        <5>3. QED
          BY <5>1, <5>2, <2>5, <2>7
      <4>3. QED
        BY <4>1, <4>2
    <3>5. ASSUME NEW a \in Ids, seenAudio[a] # None
          PROVE  /\ seenUsers[seenAudio[a]] # None
                 /\ seenUsers[seenAudio[a]].audio_id = a
      <4>1. CASE a = s.audio_id
        BY <4>1, <2>7, <2>9, <3>2
      <4>2. CASE a # s.audio_id
        <5>1. seenAudio[a] = audio_map[a] /\ audio_map[a] \in Accounts
          BY <4>2, <3>2, <3>5, <1>1 DEF LocksTypeOK, TypeOK
        <5>2. users[audio_map[a]] # None /\ users[audio_map[a]].audio_id = a
          BY <5>1, <3>5, <1>2
        <5>3. QED
          BY <5>1, <5>2, <2>5, <2>7
      <4>3. QED
        BY <4>1, <4>2
    <3>6. QED
      BY <3>3, <3>4, <3>5
  <2>10. QED
    BY <2>8, <2>9
<1>5. QED
  BY <1>3, <1>4

(* The three maps agree whenever a task can see them, between the two halves
   of add_user as well. *)
THEOREM SeenMapsHold == LocksSpec => []SeenMapsConsistent
BY LocksInductive, SeenAgree, PTL

----------------------------------------------------------------------------
(* The operations implement the steps of UserManager. *)

seenRegistry == <<seenUsers, seenTokens, seenAudio>>

(* A step that leaves the registry, and every add_user that is under way,
   alone changes nothing that the others see. *)
LEMMA SeenSame ==
  ASSUME LocksInv, UNCHANGED <<umVars, old>>, Mid' = Mid,
         \A q \in Mid : op'[q] = op[q]
  PROVE  UNCHANGED <<seenRegistry, told>>
<1>1. UNCHANGED <<users, token_map, audio_map, told, old>>
  BY DEF umVars
<1>2. CASE Mid = {}
  BY <1>1, <1>2 DEF seenRegistry, seenUsers, seenTokens, seenAudio
<1>3. CASE Mid # {}
  <2>1. PICK p \in Mid : p = CHOOSE q \in Mid : TRUE
    BY <1>3
  <2>2. op'[p] = op[p]
    BY <2>1
  <2>3. seenUsers' = seenUsers
    BY <1>1, <1>3, <2>1, <2>2 DEF seenUsers
  <2>4. seenTokens' = seenTokens
    BY <1>1, <1>3, <2>1, <2>2 DEF seenTokens, Undo
  <2>5. seenAudio' = seenAudio
    BY <1>1, <1>3, <2>1, <2>2 DEF seenAudio, Undo
  <2>6. QED
    BY <1>1, <2>3, <2>4, <2>5 DEF seenRegistry
<1>4. QED
  BY <1>2, <1>3

LEMMA BeginStutters ==
  ASSUME LocksInv, NEW p \in Tasks, Begin(p)
  PROVE  UNCHANGED <<seenRegistry, told>>
<1>1. /\ pc[p] = "idle" /\ UNCHANGED <<umVars, old>>
      /\ pc' = [pc EXCEPT ![p] = "waiting"]
      /\ \E o : op' = [op EXCEPT ![p] = o]
  BY DEF Begin
<1>2. /\ pc'[p] = "waiting"
      /\ \A q \in Tasks : q # p => pc'[q] = pc[q] /\ op'[q] = op[q]
  BY <1>1 DEF LocksInv, LocksTypeOK
<1>3. Mid' = Mid /\ \A q \in Mid : op'[q] = op[q]
  BY <1>1, <1>2 DEF Mid
<1>4. QED
  BY <1>1, <1>3, SeenSame

LEMMA AcquireStutters ==
  ASSUME LocksInv, NEW p \in Tasks, Acquire(p)
  PROVE  UNCHANGED <<seenRegistry, told>>
<1>1. /\ pc[p] = "waiting" /\ UNCHANGED <<umVars, old>>
      /\ pc' = [pc EXCEPT ![p] = "in"] \/ pc' = pc
      /\ \E o : op' = [op EXCEPT ![p] = o]
  BY DEF Acquire
<1>2. /\ pc'[p] # "mid"
      /\ \A q \in Tasks : q # p => pc'[q] = pc[q] /\ op'[q] = op[q]
  BY <1>1 DEF LocksInv, LocksTypeOK
<1>3. Mid' = Mid /\ \A q \in Mid : op'[q] = op[q]
  BY <1>1, <1>2 DEF Mid
<1>4. QED
  BY <1>1, <1>3, SeenSame

LEMMA AnswerStutters ==
  ASSUME LocksInv, NEW p \in Tasks, Answer(p)
  PROVE  UNCHANGED <<seenRegistry, told>>
<1>1. pc[p] = "in" /\ Return(p) /\ UNCHANGED <<umVars, old>>
  BY DEF Answer
<1>2. /\ pc'[p] = "idle"
      /\ \A q \in Tasks : q # p => pc'[q] = pc[q] /\ op'[q] = op[q]
  BY <1>1 DEF LocksInv, LocksTypeOK, Return
<1>3. Mid' = Mid /\ \A q \in Mid : op'[q] = op[q]
  BY <1>1, <1>2 DEF Mid
<1>4. QED
  BY <1>1, <1>3, SeenSame

(* While a writer holds its guards nobody else is between two halves. *)
LEMMA WriterAloneMid ==
  ASSUME LocksInv, NEW p \in Tasks, pc[p] = "in",
         op[p].kind \in {"add", "remove", "set"}
  PROVE  Mid = {}
<1>1. \A q \in Tasks : q # p => pc[q] # "mid"
  BY WriterAlone DEF LocksInv, LockingInv
<1>2. QED
  BY <1>1 DEF Mid

(* The first half of add_user shows nobody anything: the others still see the
   old session. *)
LEMMA AddDropStutters ==
  ASSUME LocksInv, NEW p \in Tasks, AddDrop(p)
  PROVE  UNCHANGED <<seenRegistry, told>>
<1>1. LocksInv' /\ LocksTypeOK /\ MapsConsistent
  BY AddDropKeeps DEF LocksInv
<1>2. PICK u : u = op[p].u
  OBVIOUS
<1>3. PICK s : s = users[u]
  OBVIOUS
<1>4. /\ pc[p] = "in" /\ op[p].kind = "add"
      /\ users' = [users EXCEPT ![u] = None]
      /\ token_map' = TokensWithout(u)
      /\ audio_map' = AudioWithout(u)
      /\ old' = [old EXCEPT ![p] = s]
      /\ pc' = [pc EXCEPT ![p] = "mid"]
      /\ op' = op /\ told' = told
  BY <1>2, <1>3 DEF AddDrop, RemoveUser
<1>5. u \in Accounts /\ s \in Session \cup {None}
  BY <1>1, <1>2, <1>3, <1>4, OpFields DEF LocksTypeOK, TypeOK
<1>6. pc'[p] = "mid" /\ old'[p] = s /\ op'[p].u = u
  BY <1>1, <1>2, <1>4 DEF LocksTypeOK
<1>7. seenUsers = users /\ seenTokens = token_map /\ seenAudio = audio_map
  BY <1>4, WriterAloneMid, NobodyHalfway
<1>8. /\ seenUsers' = [users' EXCEPT ![op'[p].u] = old'[p]]
      /\ seenTokens' = IF old'[p] = None THEN token_map'
                       ELSE [token_map' EXCEPT ![old'[p].session_token] = op'[p].u]
      /\ seenAudio' = IF old'[p] = None THEN audio_map'
                      ELSE [audio_map' EXCEPT ![old'[p].audio_id] = op'[p].u]
  <2>1. Mid' = {p}
    BY <1>4, <1>6, <1>1, WriterAlone DEF Mid, LocksInv, LockingInv, LocksTypeOK
  <2>2. Mid' # {} /\ (CHOOSE q \in Mid' : TRUE) = p
    BY <2>1
  <2>3. seenUsers' = [users' EXCEPT ![op'[p].u] = old'[p]]
    BY <2>2 DEF seenUsers
  <2>4. seenTokens' = Undo(token_map, "session_token", p)'
    BY <2>2 DEF seenTokens, Undo
  <2>5. seenAudio' = Undo(audio_map, "audio_id", p)'
    BY <2>2 DEF seenAudio, Undo
  <2>6. QED
    BY <2>3, <2>4, <2>5 DEF Undo
<1>9. seenUsers' = users
  BY <1>1, <1>3, <1>4, <1>5, <1>6, <1>8 DEF LocksTypeOK, TypeOK
<1>10. seenTokens' = token_map /\ seenAudio' = audio_map
  <2>1. CASE s = None
    BY <2>1, <1>3, <1>4, <1>6, <1>8 DEF TokensWithout, AudioWithout, Online
  <2>2. CASE s # None
    <3>1. s.session_token \in Ids /\ s.audio_id \in Ids
      BY <2>2, <1>5 DEF Session
    <3>2. token_map[s.session_token] = u /\ audio_map[s.audio_id] = u
      BY <2>2, <1>1, <1>3, <1>5 DEF MapsConsistent, TokensReachSessions, Online
    <3>3. /\ token_map' = [token_map EXCEPT ![s.session_token] = None]
          /\ audio_map' = [audio_map EXCEPT ![s.audio_id] = None]
      BY <2>2, <1>3, <1>4 DEF TokensWithout, AudioWithout, Online
    <3>4. /\ seenTokens' = [token_map' EXCEPT ![s.session_token] = u]
          /\ seenAudio' = [audio_map' EXCEPT ![s.audio_id] = u]
      BY <2>2, <1>6, <1>8
    <3>5. token_map \in [Ids -> Accounts \cup {None}] /\ audio_map \in [Ids -> Accounts \cup {None}]
      BY <1>1 DEF LocksTypeOK, TypeOK
    <3>6. QED
      BY <3>1, <3>2, <3>3, <3>4, <3>5
  <2>3. QED
    BY <2>1, <2>2
<1>11. QED
  BY <1>4, <1>7, <1>9, <1>10 DEF seenRegistry

(* The second half is the whole of add_user. *)
LEMMA AddInsertImplements ==
  ASSUME LocksInv, NEW p \in Tasks, AddInsert(p)
  PROVE  \E u \in Accounts, c \in Conns, tn \in Tenants : Atomic!AddUser(u, c, tn)
<1>1. LocksTypeOK /\ HalfwayInv /\ GuardsInv /\ LockingInv
  BY DEF LocksInv, LockingInv
<1>2. PICK o : o = op[p]
  OBVIOUS
<1>3. PICK s : s = old[p]
  OBVIOUS
<1>4. PICK t \in Ids, a \in Ids :
        /\ token_map[t] = None /\ audio_map[a] = None
        /\ users' = [users EXCEPT ![o.u] = FreshSession(o.c, o.tn, t, a)]
        /\ token_map' = [token_map EXCEPT ![t] = o.u]
        /\ audio_map' = [audio_map EXCEPT ![a] = o.u]
  BY <1>2 DEF AddInsert
<1>5. pc[p] = "mid" /\ Return(p) /\ told' = ToldOld(p)
  BY DEF AddInsert
<1>6. PICK u \in Accounts, c \in Conns, tn \in Tenants : u = o.u /\ c = o.c /\ tn = o.tn
  BY <1>1, <1>2, <1>5, OpFields DEF LocksTypeOK, GuardsInv
<1>7. /\ users[u] = None
      /\ s # None => token_map[s.session_token] = None /\ audio_map[s.audio_id] = None
      /\ s \in Session \cup {None}
  BY <1>1, <1>2, <1>3, <1>5, <1>6 DEF HalfwayInv, LocksTypeOK
<1>8. /\ seenUsers = [users EXCEPT ![u] = s]
      /\ seenTokens = IF s = None THEN token_map
                      ELSE [token_map EXCEPT ![s.session_token] = u]
      /\ seenAudio = IF s = None THEN audio_map
                     ELSE [audio_map EXCEPT ![s.audio_id] = u]
  BY <1>2, <1>3, <1>5, <1>6, SeenHalfway
<1>9. seenUsers' = users' /\ seenTokens' = token_map' /\ seenAudio' = audio_map'
  <2>1. Mid = {p}
    BY <1>5, OneHalfway
  <2>2. pc'[p] = "idle" /\ \A q \in Tasks : q # p => pc'[q] = pc[q]
    BY <1>1, <1>5 DEF Return, LocksTypeOK
  <2>3. Mid' = {}
    BY <2>1, <2>2 DEF Mid
  <2>4. QED
    BY <2>3 DEF seenUsers, seenTokens, seenAudio
<1>10. /\ users \in [Accounts -> Session \cup {None}]
       /\ token_map \in [Ids -> Accounts \cup {None}]
       /\ audio_map \in [Ids -> Accounts \cup {None}]
  BY <1>1 DEF LocksTypeOK, TypeOK
<1>11. seenUsers[u] = s
  BY <1>8, <1>10
<1>12. Atomic!TokensWithout(u) = token_map /\ Atomic!AudioWithout(u) = audio_map
  <2>1. CASE s = None
    BY <2>1, <1>8, <1>11 DEF Atomic!TokensWithout, Atomic!AudioWithout, Atomic!Online
  <2>2. CASE s # None
    <3>1. s.session_token \in Ids /\ s.audio_id \in Ids
      BY <2>2, <1>7 DEF Session
    <3>2. /\ Atomic!TokensWithout(u) = [seenTokens EXCEPT ![s.session_token] = None]
          /\ Atomic!AudioWithout(u) = [seenAudio EXCEPT ![s.audio_id] = None]
      BY <2>2, <1>11 DEF Atomic!TokensWithout, Atomic!AudioWithout, Atomic!Online
    <3>3. QED
      BY <2>2, <3>1, <3>2, <1>7, <1>8, <1>10
  <2>3. QED
    BY <2>1, <2>2
<1>13. seenUsers' = [seenUsers EXCEPT ![u] = Atomic!FreshSession(c, tn, t, a)]
  <2>1. Atomic!FreshSession(c, tn, t, a) = FreshSession(c, tn, t, a)
    BY DEF Atomic!FreshSession, FreshSession
  <2>2. users' = [users EXCEPT ![u] = FreshSession(c, tn, t, a)]
    BY <1>4, <1>6
  <2>3. QED
    BY <2>1, <2>2, <1>8, <1>9, <1>10
<1>14. /\ seenTokens' = [Atomic!TokensWithout(u) EXCEPT ![t] = u]
       /\ seenAudio' = [Atomic!AudioWithout(u) EXCEPT ![a] = u]
  BY <1>4, <1>6, <1>9, <1>12
<1>15. told' = Atomic!ToldOfTakeover(c, u)
  <2>1. \A d \in Conns : Atomic!Owns(d, u) <=> s # None /\ s.tx = d
    BY <1>11 DEF Atomic!Owns, Atomic!Online
  <2>2. QED
    BY <2>1, <1>2, <1>3, <1>5, <1>6 DEF ToldOld, Atomic!ToldOfTakeover
<1>16. Atomic!AddUser(u, c, tn)
  BY <1>4, <1>12, <1>13, <1>14, <1>15 DEF Atomic!AddUser
<1>17. QED
  BY <1>16

(* remove_user and the setters are steps of UserManager as they stand. *)
LEMMA ReturnSeen ==
  ASSUME LocksInv, NEW p \in Tasks, pc[p] = "in", Return(p),
         op[p].kind \in {"add", "remove", "set"}
  PROVE  /\ seenUsers = users /\ seenTokens = token_map /\ seenAudio = audio_map
         /\ seenUsers' = users' /\ seenTokens' = token_map' /\ seenAudio' = audio_map'
<1>1. Mid = {}
  BY WriterAloneMid
<1>2. pc'[p] = "idle" /\ \A q \in Tasks : q # p => pc'[q] = pc[q]
  BY DEF LocksInv, Return, LocksTypeOK
<1>3. Mid' = {}
  BY <1>1, <1>2 DEF Mid
<1>4. QED
  BY <1>1, <1>3 DEF seenUsers, seenTokens, seenAudio

LEMMA RemoveImplements ==
  ASSUME LocksInv, NEW p \in Tasks, Remove(p)
  PROVE  \E u \in Accounts : Atomic!RemoveUser(u) /\ UNCHANGED told
<1>1. PICK u : u = op[p].u
  OBVIOUS
<1>2. /\ pc[p] = "in" /\ op[p].kind = "remove" /\ Return(p)
      /\ RemoveUser(u) /\ UNCHANGED told
  BY <1>1 DEF Remove
<1>3. u \in Accounts
  BY <1>1, <1>2, OpFields DEF LocksInv, LocksTypeOK
<1>4. /\ seenUsers = users /\ seenTokens = token_map /\ seenAudio = audio_map
      /\ seenUsers' = users' /\ seenTokens' = token_map' /\ seenAudio' = audio_map'
  BY <1>2, ReturnSeen
<1>5. Atomic!RemoveUser(u)
  BY <1>2, <1>4 DEF RemoveUser, TokensWithout, AudioWithout, Online,
     Atomic!RemoveUser, Atomic!TokensWithout, Atomic!AudioWithout, Atomic!Online
<1>6. QED
  BY <1>2, <1>3, <1>5

LEMMA SetOneImplements ==
  ASSUME LocksInv, NEW p \in Tasks, SetOne(p)
  PROVE  \E u \in Accounts : Atomic!Set(u)
<1>1. PICK o : o = op[p]
  OBVIOUS
<1>2. /\ pc[p] = "in" /\ o.kind = "set" /\ Return(p)
      /\ SetMuted(o.u, o.b) /\ UNCHANGED <<token_map, audio_map, told>>
  BY <1>1 DEF SetOne
<1>3. o.u \in Accounts /\ o.b \in BOOLEAN
  BY <1>1, <1>2, OpFields DEF LocksInv, LocksTypeOK
<1>4. /\ seenUsers = users /\ seenTokens = token_map /\ seenAudio = audio_map
      /\ seenUsers' = users' /\ seenTokens' = token_map' /\ seenAudio' = audio_map'
  BY <1>1, <1>2, ReturnSeen
<1>5. Atomic!SetMuted(o.u, o.b)
  BY <1>2, <1>4 DEF SetMuted, Online, Atomic!SetMuted, Atomic!Online
<1>6. Atomic!Set(o.u)
  BY <1>2, <1>3, <1>4, <1>5 DEF Atomic!Set
<1>7. QED
  BY <1>3, <1>6

LEMMA InitImplements == LocksInit => Atomic!Init
<1> SUFFICES ASSUME LocksInit PROVE Atomic!Init
  OBVIOUS
<1>1. Mid = {}
  BY DEF LocksInit, Mid
<1>2. seenUsers = users /\ seenTokens = token_map /\ seenAudio = audio_map
  BY <1>1, NobodyHalfway
<1>3. QED
  BY <1>2 DEF LocksInit, Init, Atomic!Init

LEMMA StepImplements ==
  ASSUME LocksInv, [LocksNext]_vars
  PROVE  [Atomic!Next]_(Atomic!umVars)
<1>1. ASSUME NEW p \in Tasks, Begin(p) \/ Acquire(p) \/ Answer(p) \/ AddDrop(p)
      PROVE  UNCHANGED Atomic!umVars
  BY <1>1, BeginStutters, AcquireStutters, AnswerStutters, AddDropStutters
     DEF Atomic!umVars, seenRegistry
<1>2. ASSUME NEW p \in Tasks, AddInsert(p) PROVE Atomic!Next
  BY <1>2, AddInsertImplements DEF Atomic!Next
<1>3. ASSUME NEW p \in Tasks, Remove(p) PROVE Atomic!Next
  BY <1>3, RemoveImplements DEF Atomic!Next
<1>4. ASSUME NEW p \in Tasks, SetOne(p) PROVE Atomic!Next
  BY <1>4, SetOneImplements DEF Atomic!Next
<1>5. CASE UNCHANGED vars
  <2>1. UNCHANGED <<umVars, old>> /\ Mid' = Mid /\ op' = op
    BY <1>5 DEF vars, lockVars, Mid
  <2>2. UNCHANGED <<seenRegistry, told>>
    BY <2>1, SeenSame
  <2>3. QED
    BY <2>2 DEF Atomic!umVars, seenRegistry
<1>6. QED
  BY <1>1, <1>2, <1>3, <1>4, <1>5 DEF LocksNext, Proceed

(* Whatever the interleaving of any number of calls, add_user, remove_user
   and the setters do to the registry what the atomic steps of UserManager
   do: what is proved of UserManager holds of the code's three locks. *)
THEOREM LocksMakeAtomic == LocksSpec => ImplementsUserManager
<1>1. LocksInit => Atomic!Init
  BY InitImplements
<1>2. LocksInv /\ [LocksNext]_vars => [Atomic!Next]_(Atomic!umVars)
  BY StepImplements
<1>3. QED
  BY <1>1, <1>2, LocksInductive, PTL DEF LocksSpec, ImplementsUserManager, Atomic!Spec

=============================================================================

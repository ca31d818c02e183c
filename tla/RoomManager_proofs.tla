------------------------ MODULE RoomManager_proofs ------------------------
(***************************************************************************)
(* What the server guarantees about rooms, for any number of accounts,     *)
(* connections, rooms and tenants: the types of RoomManager with the       *)
(* agreement of the registry's maps; that nobody is in a room of another   *)
(* tenant, in a deleted room or in a full one; and that the lists shown    *)
(* are the rooms as they are; each but for the cases its property names.   *)
(***************************************************************************)
EXTENDS RoomManager, UserManager_proofs, FiniteSetTheorems

(* What a handler in progress has in its locals: an account, and from its
   check on a room of its own tenant. *)
RoomsChosen ==
  \A c \in Conns :
    /\ pc[c] \in Steps => job[c].user \in Accounts
    /\ pc[c] \in {"count", "enter"} =>
         job[c].room \in Rooms /\ TenantOf[job[c].room] = job[c].tenant
    /\ pc[c] \in {"collect", "empty"} => job[c].tenant \in Tenants

RoomsInv == RoomsTypeOK /\ MapsConsistent /\ RoomsChosen

----------------------------------------------------------------------------
(* The pieces the steps are made of *)

LEMMA EmptyListType == EmptyList \in Lists
<1>1. EmptyList \in [{} -> SUBSET Accounts]
  BY DEF EmptyList
<1>2. QED
  BY <1>1 DEF Lists

LEMMA NewJobType ==
  ASSUME NEW kind \in Kinds \cup {None}, NEW r \in Rooms \cup {None},
         NEW u \in Accounts \cup {None}, NEW tn \in Tenants \cup {None},
         NEW old \in Rooms \cup {None}, NEW key \in BOOLEAN
  PROVE  Job(kind, r, u, tn, old, key) \in JobType
BY EmptyListType DEF Job, JobType

LEMMA NoJobType == NoJob \in JobType
BY EmptyListType DEF NoJob, Job, JobType

LEMMA RoomOfType ==
  ASSUME TypeOK, NEW u \in Accounts
  PROVE  RoomOf(u) \in Rooms \cup {None}
BY OnlineSession DEF RoomOf, Session

LEMMA RoomListType ==
  ASSUME TypeOK, rooms \subseteq Rooms, NEW tn
  PROVE  RoomList(tn) \in Lists
<1> DEFINE S == {x \in rooms : TenantOf[x] = tn}
<1>1. RoomList(tn) \in [S -> SUBSET Accounts]
  BY DEF RoomList, Members
<1>2. S \in SUBSET Rooms
  OBVIOUS
<1>3. QED
  BY <1>1, <1>2 DEF Lists

(* A list keeps its rooms when the users of one of them change. *)
LEMMA ListUpdateType ==
  ASSUME NEW l \in Lists, NEW r \in DOMAIN l, NEW S \in SUBSET Accounts
  PROVE  [l EXCEPT ![r] = S] \in Lists
<1>1. PICK D \in SUBSET Rooms : l \in [D -> SUBSET Accounts]
  BY DEF Lists
<1>2. [l EXCEPT ![r] = S] \in [D -> SUBSET Accounts]
  BY <1>1
<1>3. QED
  BY <1>2 DEF Lists

LEMMA ListedRoomType ==
  ASSUME NEW l \in Lists, NEW r \in DOMAIN l
  PROVE  l[r] \in SUBSET Accounts
BY DEF Lists

LEMMA AfterLeftType ==
  ASSUME listed \in [Conns -> Lists], NEW r, NEW u, NEW but
  PROVE  AfterLeft(r, u, but) \in [Conns -> Lists]
<1>1. ASSUME NEW d \in Conns, r \in DOMAIN listed[d]
      PROVE  [listed[d] EXCEPT ![r] = @ \ {u}] \in Lists
  <2>1. listed[d] \in Lists
    OBVIOUS
  <2>2. listed[d][r] \ {u} \in SUBSET Accounts
    BY <1>1, <2>1, ListedRoomType
  <2>3. QED
    BY <1>1, <2>1, <2>2, ListUpdateType
<1>2. QED
  BY <1>1 DEF AfterLeft

LEMMA AfterJoinedType ==
  ASSUME listed \in [Conns -> Lists], NEW r, NEW u \in Accounts, NEW but
  PROVE  AfterJoined(r, u, but) \in [Conns -> Lists]
<1>1. ASSUME NEW d \in Conns, r \in DOMAIN listed[d]
      PROVE  [listed[d] EXCEPT ![r] = @ \cup {u}] \in Lists
  <2>1. listed[d] \in Lists
    OBVIOUS
  <2>2. listed[d][r] \cup {u} \in SUBSET Accounts
    BY <1>1, <2>1, ListedRoomType
  <2>3. QED
    BY <1>1, <2>1, <2>2, ListUpdateType
<1>2. QED
  BY <1>1 DEF AfterJoined

----------------------------------------------------------------------------
(* Every step gives one connection a next step s and locals j; the rest of a
   step is the registry and the variables that stand for themselves. *)
LEMMA LocalsStep ==
  ASSUME RoomsInv, NEW c \in Conns, NEW s \in Waiting \cup Steps, NEW j \in JobType,
         pc' = [pc EXCEPT ![c] = s], job' = [job EXCEPT ![c] = j],
         s \in Steps => j.user \in Accounts,
         s \in {"count", "enter"} => j.room \in Rooms /\ TenantOf[j.room] = j.tenant,
         s \in {"collect", "empty"} => j.tenant \in Tenants
  PROVE  /\ pc' \in [Conns -> Waiting \cup Steps]
         /\ job' \in [Conns -> JobType]
         /\ RoomsChosen'
<1>1. pc \in [Conns -> Waiting \cup Steps] /\ job \in [Conns -> JobType] /\ RoomsChosen
  BY DEF RoomsInv, RoomsTypeOK
<1>2. pc' \in [Conns -> Waiting \cup Steps] /\ job' \in [Conns -> JobType]
  BY <1>1
<1>3. pc'[c] = s /\ job'[c] = j
  BY <1>1
<1>4. \A d \in Conns : d # c => pc'[d] = pc[d] /\ job'[d] = job[d]
  BY <1>1
<1>5. RoomsChosen'
  BY <1>1, <1>3, <1>4 DEF RoomsChosen
<1>6. QED
  BY <1>2, <1>5

(* The variables a step treats by type alone. *)
PlainOK ==
  /\ rooms \subseteq Rooms /\ gone \subseteq Rooms /\ rooms \cap gone = {}
  /\ user_id \in [Conns -> Accounts \cup {None}]
  /\ listed \in [Conns -> Lists]
  /\ requests \in Nat /\ overlapped \in BOOLEAN
  /\ foreign \subseteq Accounts /\ contested \subseteq Rooms /\ blurred \subseteq Rooms
  /\ placed \subseteq Accounts /\ uncounted \subseteq Accounts
  /\ crowd \in [Rooms -> Nat]

LEMMA InvFromParts ==
  ASSUME RegistryOK', PlainOK', pc' \in [Conns -> Waiting \cup Steps],
         job' \in [Conns -> JobType], RoomsChosen'
  PROVE  RoomsInv'
BY DEF RoomsInv, RoomsTypeOK, RegistryOK, PlainOK

LEMMA PartsOfInv == RoomsInv => RegistryOK /\ PlainOK /\ job \in [Conns -> JobType]
BY DEF RoomsInv, RoomsTypeOK, RegistryOK, PlainOK

LEMMA RegistryKept ==
  ASSUME RegistryOK, UNCHANGED umVars
  PROVE  RegistryOK'
BY DEF RegistryOK, umVars, TypeOK, MapsConsistent, TokensReachSessions, NoStaleIds, Online

(* A message that arrives: the job is well formed and starts with an account. *)
LEMMA BeginType ==
  ASSUME RoomsInv, NEW c \in Conns, NEW j \in JobType,
         NEW s \in Steps \ {"count", "enter", "collect", "empty"},
         j.user \in Accounts, Begin(c, j, s)
  PROVE  /\ pc' \in [Conns -> Waiting \cup Steps] /\ job' \in [Conns -> JobType]
         /\ RoomsChosen' /\ requests' \in Nat /\ overlapped' \in BOOLEAN
<1>1. pc' = [pc EXCEPT ![c] = s] /\ job' = [job EXCEPT ![c] = j]
  BY DEF Begin, Goto
<1>2. pc' \in [Conns -> Waiting \cup Steps] /\ job' \in [Conns -> JobType] /\ RoomsChosen'
  BY <1>1, LocalsStep
<1>3. requests' \in Nat
  BY DEF Begin, RoomsInv, RoomsTypeOK
<1>4. overlapped' \in BOOLEAN
  BY Zenon DEF Begin, RoomsInv, RoomsTypeOK
<1>5. QED
  BY <1>2, <1>3, <1>4

LEMMA MessageType ==
  ASSUME RoomsInv, NEW c \in Conns, Message(c)
  PROVE  RoomsInv'
<1>0. RegistryOK /\ PlainOK /\ job \in [Conns -> JobType]
  BY PartsOfInv
<1>1. ASSUME NEW u \in Accounts, NEW tn \in Tenants, Login(c, u, tn) PROVE RoomsInv'
  <2>1. Job("login", None, u, tn, None, FALSE) \in JobType
    BY NewJobType DEF Kinds
  <2>2. RegistryOK'
    BY <1>0, <1>1, AddUserRegistry DEF Login
  <2>3. Begin(c, Job("login", None, u, tn, None, FALSE), "list")
    BY <1>1 DEF Login
  <2>4. RoomOf(u) \in Rooms \cup {None}
    BY <1>0, RoomOfType DEF RegistryOK
  <2>5. Job("login", None, u, tn, None, FALSE).user = u
    BY DEF Job
  <2>6. /\ pc' \in [Conns -> Waiting \cup Steps] /\ job' \in [Conns -> JobType]
        /\ RoomsChosen' /\ requests' \in Nat /\ overlapped' \in BOOLEAN
    BY <2>1, <2>3, <2>5, BeginType DEF Steps
  <2>7. PlainOK'
    BY <1>0, <1>1, <2>4, <2>6 DEF Login, PlainOK
  <2>8. QED
    BY <2>2, <2>6, <2>7, InvFromParts
(* All other messages leave the registry and the rooms alone. *)
<1>2. ASSUME NEW j \in JobType, NEW s \in Steps \ {"count", "enter", "collect", "empty"},
             j.user \in Accounts, Begin(c, j, s), Unmoved, blurred' \subseteq Rooms
      PROVE  RoomsInv'
  <2>1. RegistryOK'
    BY <1>0, <1>2, RegistryKept DEF Unmoved
  <2>2. /\ pc' \in [Conns -> Waiting \cup Steps] /\ job' \in [Conns -> JobType]
        /\ RoomsChosen' /\ requests' \in Nat /\ overlapped' \in BOOLEAN
    BY <1>2, BeginType
  <2>3. PlainOK'
    BY <1>0, <1>2, <2>2 DEF Unmoved, PlainOK
  <2>4. QED
    BY <2>1, <2>2, <2>3, InvFromParts
<1>3. blurred \subseteq Rooms
  BY <1>0 DEF PlainOK
<1>4. user_id[c] # None => user_id[c] \in Accounts
  BY <1>0 DEF PlainOK
<1>5. ASSUME NEW u \in Accounts, Online(u)
      PROVE  users[u].tenant \in Tenants /\ users[u].room_id \in Rooms \cup {None}
  BY <1>0, <1>5, OnlineSession DEF RegistryOK, Session
<1>6. ASSUME NEW r \in Rooms, NEW key \in BOOLEAN, RoomJoin(c, r, key) PROVE RoomsInv'
  <2> DEFINE u == user_id[c]
             j == Job("join", r, u, users[u].tenant, users[u].room_id, key)
  <2>1. u \in Accounts /\ Online(u)
    BY <1>4, <1>6 DEF RoomJoin
  <2>2. j \in JobType
    BY <1>5, <2>1, NewJobType DEF Kinds
  <2>3. j.user \in Accounts
    BY <2>1 DEF Job
  <2>4. Begin(c, j, "check") /\ Unmoved /\ blurred' \subseteq Rooms
    BY <1>3, <1>6 DEF RoomJoin
  <2> HIDE DEF j
  <2>5. QED
    BY <1>2, <2>2, <2>3, <2>4 DEF Steps
<1>7. ASSUME NEW r \in Rooms, RoomLeave(c, r) PROVE RoomsInv'
  <2> DEFINE u == user_id[c]
             j == Job("leave", r, u, None, None, FALSE)
  <2>1. u \in Accounts
    BY <1>4, <1>7 DEF RoomLeave
  <2>2. j \in JobType
    BY <2>1, NewJobType DEF Kinds
  <2>3. j.user \in Accounts
    BY <2>1 DEF Job
  <2>4. RoomOf(u) \in Rooms \cup {None}
    BY <1>0, <2>1, RoomOfType DEF RegistryOK
  <2>5. Begin(c, j, "goodbye") /\ Unmoved /\ blurred' \subseteq Rooms
    BY <1>3, <1>7, <2>4 DEF RoomLeave
  <2> HIDE DEF j
  <2>6. QED
    BY <1>2, <2>2, <2>3, <2>5 DEF Steps
(* What a moderator or an admin asks for *)
<1>8. ASSUME NEW kind \in Kinds, NEW r \in Rooms \cup {None}, NEW u \in Accounts,
             NEW tn \in Tenants \cup {None},
             NEW s \in Steps \ {"count", "enter", "collect", "empty"},
             Begin(c, Job(kind, r, u, tn, None, FALSE), s), Unmoved, UNCHANGED blurred
      PROVE  RoomsInv'
  <2>1. Job(kind, r, u, tn, None, FALSE) \in JobType
    BY NewJobType
  <2>2. Job(kind, r, u, tn, None, FALSE).user \in Accounts
    BY DEF Job
  <2>3. QED
    BY <1>2, <1>3, <1>8, <2>1, <2>2
<1>9. ASSUME NEW r \in Rooms, RoomDelete(c, r) PROVE RoomsInv'
  BY <1>4, <1>5, <1>8, <1>9 DEF RoomDelete, ActsAs, Kinds, Steps
<1>10. CASE RoomCreate(c)
  BY <1>4, <1>8, <1>10 DEF RoomCreate, ActsAs, Kinds, Steps
<1>11. ASSUME NEW u \in Accounts, NEW r \in Rooms, AdminMove(c, u, r) PROVE RoomsInv'
  BY <1>4, <1>5, <1>8, <1>11 DEF AdminMove, ActsAs, Kinds, Steps
<1>12. ASSUME NEW u \in Accounts, AdminKick(c, u) PROVE RoomsInv'
  BY <1>4, <1>5, <1>8, <1>12 DEF AdminKick, ActsAs, Kinds, Steps
<1>13. CASE Disconnect(c)
  BY <1>4, <1>8, <1>13 DEF Disconnect, Kinds, Steps
<1>14. QED
  BY <1>1, <1>6, <1>7, <1>9, <1>10, <1>11, <1>12, <1>13, RoomsAssumption DEF Message

----------------------------------------------------------------------------
(* The steps of a handler *)

LEMMA KeepType ==
  ASSUME RoomsInv, NEW c \in Conns, NEW s \in Waiting \cup Steps, Keep(c, s),
         pc[c] \in Steps \/ s \notin Steps,
         s \in {"count", "enter"} =>
           job[c].room \in Rooms /\ TenantOf[job[c].room] = job[c].tenant,
         s \in {"collect", "empty"} => job[c].tenant \in Tenants
  PROVE  /\ pc' \in [Conns -> Waiting \cup Steps] /\ job' \in [Conns -> JobType]
         /\ RoomsChosen'
<1>1. job \in [Conns -> JobType] /\ (pc[c] \in Steps => job[c].user \in Accounts)
  BY DEF RoomsInv, RoomsTypeOK, RoomsChosen
<1>2. job' = [job EXCEPT ![c] = job[c]]
  BY <1>1 DEF Keep
<1>3. pc' = [pc EXCEPT ![c] = s] /\ job[c] \in JobType
  BY <1>1 DEF Keep, Goto
<1>4. s \in Steps => job[c].user \in Accounts
  BY <1>1
<1>5. QED
  BY <1>2, <1>3, <1>4, LocalsStep

LEMMA EndType ==
  ASSUME RoomsInv, NEW c \in Conns, NEW s \in Waiting,
         pc' = [pc EXCEPT ![c] = s], job' = [job EXCEPT ![c] = NoJob]
  PROVE  /\ pc' \in [Conns -> Waiting \cup Steps] /\ job' \in [Conns -> JobType]
         /\ RoomsChosen'
<1>1. s \notin Steps
  BY DEF Waiting, Steps
<1>2. QED
  BY <1>1, NoJobType, LocalsStep DEF Steps

LEMMA FieldTypes ==
  ASSUME NEW l \in JobType
  PROVE  /\ \A tn \in Tenants : [l EXCEPT !.tenant = tn] \in JobType
         /\ \A r \in Rooms \cup {None} : /\ [l EXCEPT !.room = r] \in JobType
                                         /\ [l EXCEPT !.old = r] \in JobType
         /\ \A S \in SUBSET Accounts : [l EXCEPT !.pending = S] \in JobType
         /\ \A x \in Lists : [l EXCEPT !.list = x] \in JobType
BY DEF JobType

(* A step that moves nobody keeps the registry and what Still names. *)
LEMMA StillType ==
  ASSUME RoomsInv, Rest, placed' \subseteq Accounts, listed' \in [Conns -> Lists],
         contested' \subseteq Rooms, crowd' \in [Rooms -> Nat], blurred' \subseteq Rooms,
         pc' \in [Conns -> Waiting \cup Steps], job' \in [Conns -> JobType], RoomsChosen'
  PROVE  RoomsInv'
<1>1. RegistryOK /\ PlainOK
  BY PartsOfInv
<1>2. RegistryOK'
  BY <1>1, RegistryKept DEF Rest
<1>3. PlainOK'
  BY <1>1 DEF PlainOK, Rest
<1>4. QED
  BY <1>2, <1>3, InvFromParts

(* What any job about to take a step looks like. *)
LEMMA JobAtStep ==
  ASSUME RoomsInv, NEW c \in Conns
  PROVE  /\ job[c] \in JobType
         /\ job[c].room \in Rooms \cup {None} /\ job[c].old \in Rooms \cup {None}
         /\ job[c].tenant \in Tenants \cup {None}
         /\ job[c].pending \in SUBSET Accounts /\ job[c].list \in Lists
         /\ pc[c] \in Steps => job[c].user \in Accounts
BY DEF RoomsInv, RoomsTypeOK, RoomsChosen, JobType

LEMMA FailType ==
  ASSUME RoomsInv, NEW c \in Conns, Fail(c)
  PROVE  /\ pc' \in [Conns -> Waiting \cup Steps] /\ job' \in [Conns -> JobType]
         /\ RoomsChosen' /\ blurred' \subseteq Rooms
<1>1. blurred' \subseteq Rooms
  BY PartsOfInv, JobAtStep DEF Fail, PlainOK
<1>2. QED
  BY <1>1, EndType DEF Fail, End, Goto, Waiting

LEMMA ListStepsType ==
  ASSUME RoomsInv, NEW c \in Conns, TakeList(c) \/ SendList(c) \/ BroadcastList(c)
  PROVE  RoomsInv'
<1>0. /\ RegistryOK /\ PlainOK /\ job[c] \in JobType /\ job[c].list \in Lists
      /\ job \in [Conns -> JobType]
  BY PartsOfInv, JobAtStep
<1>1. CASE TakeList(c)
  <2> DEFINE j == [job[c] EXCEPT !.list = RoomList(job[c].tenant)]
  <2>1. RoomList(job[c].tenant) \in Lists
    BY <1>0, RoomListType DEF RegistryOK, PlainOK
  <2>2. j \in JobType
    BY <1>0, <2>1, FieldTypes
  <2>3. job' = [job EXCEPT ![c] = j] /\ pc' = [pc EXCEPT ![c] = "send"]
    BY <1>1 DEF TakeList, Goto
  <2>4. j.user = job[c].user /\ job[c].user \in Accounts
    BY <1>0, <1>1, JobAtStep DEF TakeList, Steps, JobType
  <2> HIDE DEF j
  <2>5. /\ pc' \in [Conns -> Waiting \cup Steps] /\ job' \in [Conns -> JobType]
        /\ RoomsChosen'
    BY <2>2, <2>3, <2>4, LocalsStep DEF Steps
  <2>6. QED
    BY <1>0, <1>1, <2>5, StillType DEF TakeList, Still, PlainOK
<1>2. CASE SendList(c)
  <2>1. listed' \in [Conns -> Lists] /\ placed' \subseteq Accounts
    BY <1>0, <1>2 DEF SendList, PlainOK
  <2>2. /\ pc' \in [Conns -> Waiting \cup Steps] /\ job' \in [Conns -> JobType]
        /\ RoomsChosen'
    BY <1>2, EndType DEF SendList, End, Goto, Waiting
  <2>3. QED
    BY <1>0, <1>2, <2>1, <2>2, StillType DEF SendList, PlainOK
<1>3. CASE BroadcastList(c)
  <2>1. listed' \in [Conns -> Lists] /\ placed' \subseteq Accounts
    BY <1>0, <1>3 DEF BroadcastList, PlainOK
  <2>2. /\ pc' \in [Conns -> Waiting \cup Steps] /\ job' \in [Conns -> JobType]
        /\ RoomsChosen'
    BY <1>3, EndType DEF BroadcastList, End, Goto, Waiting
  <2>3. QED
    BY <1>0, <1>3, <2>1, <2>2, StillType DEF BroadcastList, PlainOK
<1>4. QED
  BY <1>1, <1>2, <1>3

LEMMA CheckRoomType ==
  ASSUME RoomsInv, NEW c \in Conns, CheckRoom(c)
  PROVE  RoomsInv'
<1> DEFINE r == job[c].room
<1>0. PlainOK
  BY PartsOfInv
<1>1. contested' \subseteq Rooms /\ blurred' \subseteq Rooms
  <2>1. CASE Fail(c) /\ UNCHANGED contested
    BY <1>0, <2>1, FailType DEF PlainOK
  <2>2. CASE /\ UNCHANGED blurred /\ r \in rooms
             /\ contested' = contested \cup {x \in {r} : Emptying(x) # {}}
    BY <1>0, <2>2 DEF PlainOK
  <2>3. QED
    BY <2>1, <2>2 DEF CheckRoom
<1>2. /\ pc' \in [Conns -> Waiting \cup Steps] /\ job' \in [Conns -> JobType]
      /\ RoomsChosen'
  <2>1. CASE Fail(c)
    BY <2>1, FailType
  <2>2. CASE /\ Keep(c, IF Limit[r] > 0 THEN "count" ELSE "enter")
             /\ r \in rooms /\ TenantOf[r] = job[c].tenant
    <3>1. r \in Rooms /\ TenantOf[r] = job[c].tenant /\ pc[c] \in Steps
      BY <1>0, <2>2 DEF PlainOK, CheckRoom, Steps
    <3>2. PICK s \in {"count", "enter"} : Keep(c, s)
      BY <2>2
    <3>3. QED
      BY <3>1, <3>2, KeepType DEF Steps
  <2>3. QED
    BY <2>1, <2>2 DEF CheckRoom
<1>3. QED
  BY <1>0, <1>1, <1>2, StillType DEF CheckRoom, Still, PlainOK

LEMMA CountRoomType ==
  ASSUME RoomsInv, NEW c \in Conns, CountRoom(c)
  PROVE  RoomsInv'
<1> DEFINE r == job[c].room
<1>0. PlainOK
  BY PartsOfInv
<1>1. r \in Rooms /\ TenantOf[r] = job[c].tenant
  BY DEF CountRoom, RoomsInv, RoomsChosen
<1>2. Cardinality(Entering(r)) \in Nat
  <2>1. Entering(r) \subseteq Conns
    BY DEF Entering
  <2>2. QED
    BY <2>1, RoomsAssumption, FS_Subset, FS_CardinalityType
<1>3. crowd' \in [Rooms -> Nat] /\ blurred' \subseteq Rooms
  <2>1. CASE Fail(c) /\ UNCHANGED crowd
    BY <1>0, <2>1, FailType DEF PlainOK
  <2>2. CASE /\ UNCHANGED blurred
             /\ crowd' = [crowd EXCEPT ![r] =
                  IF Cardinality(Entering(r)) > @ THEN Cardinality(Entering(r)) ELSE @]
    BY <1>0, <1>2, <2>2 DEF PlainOK
  <2>3. QED
    BY <2>1, <2>2 DEF CountRoom
<1>4. /\ pc' \in [Conns -> Waiting \cup Steps] /\ job' \in [Conns -> JobType]
      /\ RoomsChosen'
  <2>1. CASE Fail(c)
    BY <2>1, FailType
  <2>2. CASE Keep(c, "enter")
    BY <1>1, <2>2, KeepType DEF CountRoom, Steps
  <2>3. QED
    BY <2>1, <2>2 DEF CountRoom
<1>5. QED
  BY <1>0, <1>3, <1>4, StillType DEF CountRoom, Still, PlainOK

(* The steps that only tell the clients something, or nothing at all. *)
LEMMA TellingType ==
  ASSUME RoomsInv, NEW c \in Conns,
         TellOld(c) \/ LookAgain(c) \/ TellNew(c) \/ SayGoodbye(c) \/ AnnounceMove(c)
           \/ AnnounceKick(c) \/ CheckOwner(c) \/ Farewell(c)
  PROVE  RoomsInv'
<1>0. PlainOK /\ job[c] \in JobType /\ (pc[c] \in Steps => job[c].user \in Accounts)
  BY PartsOfInv, JobAtStep
<1>1. pc[c] \in Steps
  BY DEF TellOld, LookAgain, TellNew, SayGoodbye, AnnounceMove, AnnounceKick, CheckOwner,
         Farewell, Steps
<1>2. listed' \in [Conns -> Lists]
  <2>1. listed \in [Conns -> Lists]
    BY <1>0 DEF PlainOK
  <2>2. \A r, u, but : AfterLeft(r, u, but) \in [Conns -> Lists]
    BY <2>1, AfterLeftType
  <2>3. \A r, but : AfterJoined(r, job[c].user, but) \in [Conns -> Lists]
    BY <1>0, <1>1, <2>1, AfterJoinedType
  <2>4. QED
    BY <2>1, <2>2, <2>3 DEF TellOld, LookAgain, TellNew, SayGoodbye, AnnounceMove,
       AnnounceKick, CheckOwner, Farewell
<1>3. End(c) \/ \E s \in (Waiting \cup Steps) \ {"count", "enter", "collect", "empty"} : Keep(c, s)
  BY DEF TellOld, LookAgain, TellNew, SayGoodbye, AnnounceMove, AnnounceKick, CheckOwner,
         Farewell, Steps, Waiting
<1>4. /\ pc' \in [Conns -> Waiting \cup Steps] /\ job' \in [Conns -> JobType]
      /\ RoomsChosen'
  <2>1. CASE End(c)
    BY <2>1, EndType DEF End, Goto, Waiting
  <2>2. CASE \E s \in (Waiting \cup Steps) \ {"count", "enter", "collect", "empty"} : Keep(c, s)
    BY <1>1, <2>2, KeepType
  <2>3. QED
    BY <1>3, <2>1, <2>2
<1>5. Still /\ UNCHANGED <<contested, crowd, blurred>>
  BY DEF TellOld, LookAgain, TellNew, SayGoodbye, AnnounceMove, AnnounceKick, CheckOwner,
         Farewell
<1>6. QED
  BY <1>0, <1>2, <1>4, <1>5, StillType DEF Still, PlainOK

(* The steps that write one of their locals. *)
LEMMA LocalType ==
  ASSUME RoomsInv, NEW c \in Conns, NEW j \in JobType,
         NEW s \in Steps \ {"count", "enter"}, pc[c] \in Steps,
         j.user = job[c].user, s \in {"collect", "empty"} => j.tenant \in Tenants,
         job' = [job EXCEPT ![c] = j], Goto(c, s)
  PROVE  /\ pc' \in [Conns -> Waiting \cup Steps] /\ job' \in [Conns -> JobType]
         /\ RoomsChosen'
<1>1. j.user \in Accounts
  BY JobAtStep
<1>2. pc' = [pc EXCEPT ![c] = s]
  BY DEF Goto
<1>3. QED
  BY <1>1, <1>2, LocalsStep

LEMMA ChooseTenantType ==
  ASSUME RoomsInv, NEW c \in Conns, ChooseTenant(c)
  PROVE  RoomsInv'
<1> DEFINE j == [job[c] EXCEPT !.tenant = TenantOfUser(job[c].user)]
<1>0. RegistryOK /\ PlainOK /\ job[c] \in JobType /\ pc[c] \in Steps /\ job[c].user \in Accounts
  BY PartsOfInv, JobAtStep DEF ChooseTenant, Steps
<1>1. TenantOfUser(job[c].user) \in Tenants
  BY <1>0, OnlineSession, RoomsAssumption DEF RegistryOK, TenantOfUser, Session
<1>2. j \in JobType /\ j.user = job[c].user
  BY <1>0, <1>1, FieldTypes DEF JobType
<1>3. job' = [job EXCEPT ![c] = j] /\ Goto(c, "create")
  BY DEF ChooseTenant
<1> HIDE DEF j
<1>4. /\ pc' \in [Conns -> Waiting \cup Steps] /\ job' \in [Conns -> JobType]
      /\ RoomsChosen'
  BY <1>0, <1>2, <1>3, LocalType DEF Steps
<1>5. QED
  BY <1>0, <1>4, StillType DEF ChooseTenant, Still, PlainOK

LEMMA FindTargetType ==
  ASSUME RoomsInv, NEW c \in Conns, FindTarget(c)
  PROVE  RoomsInv'
<1> DEFINE j == [job[c] EXCEPT !.old = users[job[c].user].room_id]
<1>0. RegistryOK /\ PlainOK /\ job[c] \in JobType /\ pc[c] \in Steps /\ job[c].user \in Accounts
  BY PartsOfInv, JobAtStep DEF FindTarget, Steps
<1>1. /\ pc' \in [Conns -> Waiting \cup Steps] /\ job' \in [Conns -> JobType]
      /\ RoomsChosen'
  <2>1. CASE End(c)
    BY <2>1, EndType DEF End, Goto, Waiting
  <2>2. CASE ~End(c)
    <3>1. users[job[c].user].room_id \in Rooms \cup {None}
      BY <1>0, <2>2, OnlineSession DEF FindTarget, RegistryOK, Session
    <3>2. j \in JobType /\ j.user = job[c].user
      BY <1>0, <3>1, FieldTypes DEF JobType
    <3>3. job' = [job EXCEPT ![c] = j] /\ (Goto(c, "unroom") \/ Goto(c, "announce"))
      BY <2>2 DEF FindTarget
    <3> HIDE DEF j
    <3>4. QED
      BY <1>0, <3>2, <3>3, LocalType DEF Steps
  <2>3. QED
    BY <2>1, <2>2
<1>2. QED
  BY <1>0, <1>1, StillType DEF FindTarget, Still, PlainOK

LEMMA LookUpRoomType ==
  ASSUME RoomsInv, NEW c \in Conns, LookUpRoom(c)
  PROVE  RoomsInv'
<1> DEFINE j == [job[c] EXCEPT !.old = RoomOf(job[c].user)]
<1>0. RegistryOK /\ PlainOK /\ job[c] \in JobType /\ pc[c] \in Steps /\ job[c].user \in Accounts
  BY PartsOfInv, JobAtStep DEF LookUpRoom, Steps
<1>1. RoomOf(job[c].user) \in Rooms \cup {None}
  BY <1>0, RoomOfType DEF RegistryOK
<1>2. j \in JobType /\ j.user = job[c].user
  BY <1>0, <1>1, FieldTypes DEF JobType
<1>3. job' = [job EXCEPT ![c] = j] /\ Goto(c, "farewell")
  BY DEF LookUpRoom
<1> HIDE DEF j
<1>4. /\ pc' \in [Conns -> Waiting \cup Steps] /\ job' \in [Conns -> JobType]
      /\ RoomsChosen'
  BY <1>0, <1>2, <1>3, LocalType DEF Steps
<1>5. QED
  BY <1>0, <1>4, StillType DEF LookUpRoom, Still, PlainOK

LEMMA FindRoomType ==
  ASSUME RoomsInv, NEW c \in Conns, FindRoom(c)
  PROVE  RoomsInv'
<1>0. PlainOK /\ pc[c] \in Steps
  BY PartsOfInv DEF FindRoom, Steps
<1>1. /\ pc' \in [Conns -> Waiting \cup Steps] /\ job' \in [Conns -> JobType]
      /\ RoomsChosen'
  <2>1. CASE End(c)
    BY <2>1, EndType DEF End, Goto, Waiting
  <2>2. CASE ~End(c)
    <3>1. /\ Keep(c, "collect")
          /\ job[c].room \in rooms /\ TenantOf[job[c].room] = job[c].tenant
      BY <2>2 DEF FindRoom
    <3>2. job[c].tenant \in Tenants
      BY <1>0, <3>1, RoomsAssumption DEF PlainOK
    <3>3. QED
      BY <1>0, <3>1, <3>2, KeepType DEF Steps
  <2>3. QED
    BY <2>1, <2>2
<1>2. QED
  BY <1>0, <1>1, StillType DEF FindRoom, Still, PlainOK

LEMMA CollectMembersType ==
  ASSUME RoomsInv, NEW c \in Conns, CollectMembers(c)
  PROVE  RoomsInv'
<1> DEFINE j == [job[c] EXCEPT !.pending = Members(job[c].room)]
<1>0. PlainOK /\ job[c] \in JobType /\ pc[c] \in Steps /\ job[c].room \in Rooms \cup {None}
  BY PartsOfInv, JobAtStep DEF CollectMembers, Steps
<1>1. j \in JobType /\ j.user = job[c].user /\ j.tenant = job[c].tenant
  <2>1. Members(job[c].room) \in SUBSET Accounts
    BY DEF Members
  <2>2. QED
    BY <1>0, <2>1, FieldTypes DEF JobType
<1>2. job[c].tenant \in Tenants
  BY DEF CollectMembers, RoomsInv, RoomsChosen
<1>3. job' = [job EXCEPT ![c] = j] /\ Goto(c, "empty")
  BY DEF CollectMembers
<1> HIDE DEF j
<1>4. /\ pc' \in [Conns -> Waiting \cup Steps] /\ job' \in [Conns -> JobType]
      /\ RoomsChosen'
  BY <1>0, <1>1, <1>2, <1>3, LocalType DEF Steps
<1>5. contested' \subseteq Rooms
  <2>1. job[c].room # None => job[c].room \in Rooms
    BY <1>0
  <2>2. job[c].room = None => Approaching(job[c].room) = {}
    BY RoomsAssumption DEF Approaching, RoomsInv, RoomsChosen
  <2>3. QED
    BY <1>0, <2>1, <2>2 DEF CollectMembers, PlainOK
<1>6. QED
  BY <1>0, <1>4, <1>5, StillType DEF CollectMembers, Still, PlainOK

(* The table of rooms changes. *)
LEMMA TableType ==
  ASSUME RoomsInv, NEW c \in Conns, InsertRoom(c) \/ DropRoom(c)
  PROVE  RoomsInv'
<1>0. RegistryOK /\ PlainOK /\ pc[c] \in Steps
  BY PartsOfInv DEF InsertRoom, DropRoom, Steps
<1>1. RegistryOK'
  BY <1>0, RegistryKept DEF InsertRoom, DropRoom
<1>2. /\ pc' \in [Conns -> Waiting \cup Steps] /\ job' \in [Conns -> JobType]
      /\ RoomsChosen'
  <2>1. CASE End(c)
    BY <2>1, EndType DEF End, Goto, Waiting
  <2>2. CASE Keep(c, "list")
    BY <1>0, <2>2, KeepType DEF Steps
  <2>3. QED
    BY <2>1, <2>2 DEF InsertRoom, DropRoom
<1>3. PlainOK'
  <2>1. CASE InsertRoom(c)
    <3>1. rooms' \subseteq Rooms /\ rooms' \cap gone = {}
      BY <1>0, <2>1 DEF InsertRoom, PlainOK
    <3>2. QED
      BY <1>0, <2>1, <3>1 DEF InsertRoom, PlainOK, roomHistory
  <2>2. CASE DropRoom(c)
    <3>1. rooms' \subseteq Rooms /\ gone' \subseteq Rooms /\ rooms' \cap gone' = {}
      BY <1>0, <2>2 DEF DropRoom, PlainOK
    <3>2. QED
      BY <1>0, <2>2, <3>1 DEF DropRoom, PlainOK, roomHistory
  <2>3. QED
    BY <2>1, <2>2
<1>4. QED
  BY <1>1, <1>2, <1>3, InvFromParts

(* A step that puts a user into a room, or out of one. *)
LEMMA MoverType ==
  ASSUME RoomsInv, NEW u \in Accounts, NEW r \in Rooms \cup {None}, SetRoom(u, r),
         UNCHANGED <<token_map, audio_map, told, rooms, gone, user_id, listed, requests,
                     contested, crowd, overlapped>>,
         foreign' \subseteq Accounts, placed' \subseteq Accounts,
         uncounted' \subseteq Accounts, blurred' \subseteq Rooms,
         pc' \in [Conns -> Waiting \cup Steps], job' \in [Conns -> JobType], RoomsChosen'
  PROVE  RoomsInv'
<1>1. RegistryOK /\ PlainOK
  BY PartsOfInv
<1>2. RegistryOK'
  BY <1>1, SetRoomRegistry
<1>3. PlainOK'
  BY <1>1 DEF PlainOK
<1>4. QED
  BY <1>2, <1>3, InvFromParts

LEMMA EnterRoomType ==
  ASSUME RoomsInv, NEW c \in Conns, EnterRoom(c)
  PROVE  RoomsInv'
<1> DEFINE u == job[c].user
<1>0. PlainOK /\ pc[c] \in Steps /\ u \in Accounts
  BY PartsOfInv, JobAtStep DEF EnterRoom, Steps
<1>1. job[c].room \in Rooms
  BY DEF EnterRoom, RoomsInv, RoomsChosen
<1>2. Keep(c, "tell_old") \/ Keep(c, "look")
  BY DEF EnterRoom
<1>3. /\ pc' \in [Conns -> Waiting \cup Steps] /\ job' \in [Conns -> JobType]
      /\ RoomsChosen'
  BY <1>0, <1>2, KeepType DEF Steps
<1>4. foreign' \subseteq Accounts /\ placed' \subseteq Accounts /\ blurred' \subseteq Rooms
      /\ uncounted' \subseteq Accounts
  BY <1>0 DEF EnterRoom, PlainOK
<1>5. QED
  BY <1>0, <1>1, <1>3, <1>4, MoverType DEF EnterRoom

LEMMA LeaveType ==
  ASSUME RoomsInv, NEW c \in Conns, Leave(c)
  PROVE  RoomsInv'
<1>0. PlainOK /\ job[c].user \in Accounts
  BY PartsOfInv, JobAtStep DEF Leave, Steps
<1>1. /\ pc' \in [Conns -> Waiting \cup Steps] /\ job' \in [Conns -> JobType]
      /\ RoomsChosen'
  BY EndType DEF Leave, End, Goto, Waiting
<1>2. foreign' \subseteq Accounts /\ placed' \subseteq Accounts /\ blurred' \subseteq Rooms
      /\ uncounted' \subseteq Accounts
  BY <1>0 DEF Leave, PlainOK
<1>3. QED
  BY <1>0, <1>1, <1>2, MoverType DEF Leave

LEMMA KickFromRoomType ==
  ASSUME RoomsInv, NEW c \in Conns, KickFromRoom(c)
  PROVE  RoomsInv'
<1>0. RegistryOK /\ PlainOK /\ pc[c] \in Steps /\ job[c].user \in Accounts
  BY PartsOfInv, JobAtStep DEF KickFromRoom, Steps
<1>1. /\ pc' \in [Conns -> Waiting \cup Steps] /\ job' \in [Conns -> JobType]
      /\ RoomsChosen'
  BY <1>0, KeepType DEF KickFromRoom, Steps
<1>2. RoomOf(job[c].user) \in Rooms \cup {None}
  BY <1>0, RoomOfType DEF RegistryOK
<1>3. foreign' \subseteq Accounts /\ placed' \subseteq Accounts /\ blurred' \subseteq Rooms
      /\ uncounted' \subseteq Accounts
  BY <1>0, <1>2 DEF KickFromRoom, PlainOK
<1>4. QED
  BY <1>0, <1>1, <1>3, MoverType DEF KickFromRoom

LEMMA MoveToLobbyType ==
  ASSUME RoomsInv, NEW c \in Conns, MoveToLobby(c)
  PROVE  RoomsInv'
<1>0. /\ PlainOK /\ job[c] \in JobType /\ job[c].user \in Accounts
      /\ job[c].pending \in SUBSET Accounts /\ pc \in [Conns -> Waiting \cup Steps]
  BY PartsOfInv, JobAtStep DEF MoveToLobby, Steps, RoomsInv, RoomsTypeOK
<1>1. job[c].tenant \in Tenants
  BY DEF MoveToLobby, RoomsInv, RoomsChosen
<1>2. PICK u \in job[c].pending :
        /\ SetRoom(u, Lobby[job[c].tenant])
        /\ job' = [job EXCEPT ![c].pending = @ \ {u}]
        /\ foreign' = IF Online(u) /\ users[u].tenant # job[c].tenant
                      THEN foreign \cup {u} ELSE foreign \ {u}
  BY DEF MoveToLobby
<1> DEFINE j == [job[c] EXCEPT !.pending = job[c].pending \ {u}]
<1>3. j \in JobType /\ j.user = job[c].user /\ j.tenant = job[c].tenant
  BY <1>0, FieldTypes DEF JobType
<1>4. job' = [job EXCEPT ![c] = j]
  BY <1>0, <1>2
<1>5. pc' = [pc EXCEPT ![c] = "empty"]
  BY <1>0 DEF MoveToLobby
<1> HIDE DEF j
<1>6. /\ pc' \in [Conns -> Waiting \cup Steps] /\ job' \in [Conns -> JobType]
      /\ RoomsChosen'
  BY <1>0, <1>1, <1>3, <1>4, <1>5, LocalsStep DEF Steps
<1>7. u \in Accounts /\ Lobby[job[c].tenant] \in Rooms
  BY <1>0, <1>1, <1>2, RoomsAssumption
<1>8. foreign' \subseteq Accounts /\ placed' \subseteq Accounts /\ blurred' \subseteq Rooms
      /\ uncounted' \subseteq Accounts
  BY <1>0, <1>2, <1>7 DEF MoveToLobby, PlainOK
<1>9. QED
  BY <1>2, <1>6, <1>7, <1>8, MoverType DEF MoveToLobby

(* A step that removes a session *)
LEMMA RemovalType ==
  ASSUME RoomsInv, NEW c \in Conns, Expel(c) \/ Remove(c)
  PROVE  RoomsInv'
<1>0. /\ RegistryOK /\ PlainOK /\ job[c] \in JobType /\ pc[c] \in Steps
      /\ job[c].user \in Accounts
  BY PartsOfInv, JobAtStep DEF Expel, Remove, Steps
<1>1. RegistryOK'
  <2>1. told' \in [Conns -> SUBSET Notices]
    BY <1>0 DEF Expel, Remove, RegistryOK, TypeOK
  <2>2. QED
    BY <1>0, <2>1, RemoveUserRegistry DEF Expel, Remove
<1>2. PlainOK'
  BY <1>0 DEF Expel, Remove, PlainOK
<1>3. /\ pc' \in [Conns -> Waiting \cup Steps] /\ job' \in [Conns -> JobType]
      /\ RoomsChosen'
  <2>1. CASE Expel(c)
    <3> DEFINE j == [job[c] EXCEPT !.room = RoomOf(job[c].user)]
    <3>1. RoomOf(job[c].user) \in Rooms \cup {None}
      BY <1>0, RoomOfType DEF RegistryOK
    <3>2. j \in JobType /\ j.user = job[c].user
      BY <1>0, <3>1, FieldTypes DEF JobType
    <3>3. job' = [job EXCEPT ![c] = j] /\ Goto(c, "tell_kick")
      BY <2>1 DEF Expel
    <3> HIDE DEF j
    <3>4. QED
      BY <1>0, <3>2, <3>3, LocalType DEF Steps
  <2>2. CASE Remove(c)
    BY <2>2, EndType DEF Remove, Goto, Waiting
  <2>3. QED
    BY <2>1, <2>2
<1>4. QED
  BY <1>1, <1>2, <1>3, InvFromParts

----------------------------------------------------------------------------
LEMMA RoomsInitial == RoomsInit => RoomsInv
<1> SUFFICES ASSUME RoomsInit PROVE RoomsInv
  OBVIOUS
<1>1. RegistryOK
  BY InitRegistry DEF RoomsInit
<1>2. PlainOK
  BY EmptyListType, RoomsAssumption DEF RoomsInit, PlainOK
<1>3. pc \in [Conns -> Waiting \cup Steps] /\ job \in [Conns -> JobType]
  BY NoJobType DEF RoomsInit, Waiting
<1>4. RoomsChosen
  BY DEF RoomsInit, RoomsChosen, Steps
<1>5. QED
  BY <1>1, <1>2, <1>3, <1>4 DEF RoomsInv, RoomsTypeOK, RegistryOK, PlainOK

LEMMA RoomsStep == RoomsInv /\ [RoomsNext]_roomVars => RoomsInv'
<1> SUFFICES ASSUME RoomsInv, [RoomsNext]_roomVars
             PROVE  RoomsInv'
  OBVIOUS
<1>1. ASSUME NEW c \in Conns, Message(c) PROVE RoomsInv'
  BY <1>1, MessageType
<1>2. ASSUME NEW c \in Conns, Proceed(c) PROVE RoomsInv'
  BY <1>2, ListStepsType, CheckRoomType, CountRoomType, TellingType, EnterRoomType,
     LeaveType, ChooseTenantType, TableType, FindRoomType, CollectMembersType,
     MoveToLobbyType, FindTargetType, KickFromRoomType, RemovalType, LookUpRoomType
     DEF Proceed
<1>3. CASE UNCHANGED roomVars
  <2>1. RegistryOK'
    BY <1>3, PartsOfInv, RegistryKept DEF roomVars
  <2>2. PlainOK'
    BY <1>3, PartsOfInv DEF roomVars, roomHistory, PlainOK
  <2>3. /\ pc' \in [Conns -> Waiting \cup Steps] /\ job' \in [Conns -> JobType]
        /\ RoomsChosen'
    BY <1>3 DEF roomVars, RoomsInv, RoomsTypeOK, RoomsChosen
  <2>4. QED
    BY <2>1, <2>2, <2>3, InvFromParts
<1>4. QED
  BY <1>1, <1>2, <1>3 DEF RoomsNext

(* Whatever the requests of the clients and the order in which the handlers
   take their steps, the three maps of the registry agree and every handler
   works on what it checked: for any number of connections, accounts, rooms
   and tenants. *)
THEOREM RoomsTypes == RoomsSpec => [](RoomsTypeOK /\ MapsConsistent)
BY RoomsInitial, RoomsStep, PTL DEF RoomsSpec, RoomsInv

----------------------------------------------------------------------------
(* Nobody is in a room of another tenant *)

(* Neither a step that leaves the sessions alone ... *)
LEMMA TenantKept ==
  ASSUME RoomOfOwnTenant, UNCHANGED <<users, foreign>>
  PROVE  RoomOfOwnTenant'
BY DEF RoomOfOwnTenant, Online

(* ... nor one that takes the session of u, or its room, away puts anybody
   into a room. *)
LEMMA TenantLost ==
  ASSUME RoomOfOwnTenant, NEW u \in Accounts, foreign' = foreign \ {u},
         \A v \in Accounts : v # u => users'[v] = users[v],
         users'[u] = None \/ users'[u].room_id = None
  PROVE  RoomOfOwnTenant'
BY DEF RoomOfOwnTenant, Online

(* A user is put into a room of the tenant the handler works for, and is
   marked as foreign exactly when the session is of another one by then. *)
LEMMA TenantEntered ==
  ASSUME RoomsInv, RoomOfOwnTenant, NEW u \in Accounts, NEW r \in Rooms, SetRoom(u, r),
         foreign' = IF Online(u) /\ users[u].tenant # TenantOf[r]
                    THEN foreign \cup {u} ELSE foreign \ {u}
  PROVE  RoomOfOwnTenant'
<1>1. TypeOK
  BY DEF RoomsInv, RoomsTypeOK
<1>2. \A v \in Accounts : v # u => users'[v] = users[v]
  BY <1>1 DEF SetRoom, TypeOK
<1>3. CASE Online(u)
  <2>1. users[u] \in Session
    BY <1>1, <1>3, OnlineSession
  <2>2. users'[u] = [users[u] EXCEPT !.room_id = r]
    BY <1>1, <1>3 DEF SetRoom, TypeOK
  <2>3. users'[u].room_id = r /\ users'[u].tenant = users[u].tenant
    BY <2>1, <2>2 DEF Session
  <2>4. TenantOf[r] = users'[u].tenant \/ u \in foreign'
    BY <1>3, <2>3
  <2>5. QED
    BY <1>2, <2>3, <2>4 DEF RoomOfOwnTenant, Online
<1>4. CASE ~Online(u)
  BY <1>2, <1>4 DEF RoomOfOwnTenant, SetRoom, Online
<1>5. QED
  BY <1>3, <1>4

LEMMA TenantStep == RoomsInv /\ RoomOfOwnTenant /\ [RoomsNext]_roomVars => RoomOfOwnTenant'
<1> SUFFICES ASSUME RoomsInv, RoomOfOwnTenant, [RoomsNext]_roomVars
             PROVE  RoomOfOwnTenant'
  OBVIOUS
<1>0. TypeOK
  BY DEF RoomsInv, RoomsTypeOK
<1>1. ASSUME NEW u \in Accounts, SetRoom(u, None), foreign' = foreign \ {u}
      PROVE  RoomOfOwnTenant'
  <2>1. \A v \in Accounts : v # u => users'[v] = users[v]
    BY <1>0, <1>1 DEF SetRoom, TypeOK
  <2>2. users'[u] = None \/ users'[u].room_id = None
    <3>1. CASE Online(u)
      <4>1. users[u] \in Session
        BY <1>0, <3>1, OnlineSession
      <4>2. users'[u] = [users[u] EXCEPT !.room_id = None]
        BY <1>0, <1>1, <3>1 DEF SetRoom, TypeOK
      <4>3. QED
        BY <4>1, <4>2 DEF Session
    <3>2. CASE ~Online(u)
      BY <1>1, <3>2 DEF SetRoom, Online
    <3>3. QED
      BY <3>1, <3>2
  <2>3. QED
    BY <1>1, <2>1, <2>2, TenantLost
<1>2. ASSUME NEW u \in Accounts, RemoveUser(u), foreign' = foreign \ {u}
      PROVE  RoomOfOwnTenant'
  BY <1>0, <1>2, TenantLost DEF RemoveUser, TypeOK
<1>3. ASSUME NEW c \in Conns, Message(c) PROVE RoomOfOwnTenant'
  <2>1. ASSUME NEW u \in Accounts, NEW tn \in Tenants, Login(c, u, tn)
        PROVE  RoomOfOwnTenant'
    <3>1. PICK t \in Ids, a \in Ids : users' = [users EXCEPT ![u] = FreshSession(c, tn, t, a)]
      BY <2>1 DEF Login, AddUser
    <3>2. users'[u].room_id = None /\ \A v \in Accounts : v # u => users'[v] = users[v]
      BY <1>0, <3>1 DEF TypeOK, FreshSession
    <3>3. QED
      BY <2>1, <3>2, TenantLost DEF Login
  <2>2. CASE Unmoved
    BY <2>2, TenantKept DEF Unmoved, umVars
  <2>3. QED
    BY <1>3, <2>1, <2>2 DEF Message, RoomJoin, RoomLeave, RoomDelete, RoomCreate,
       AdminMove, AdminKick, Disconnect
<1>4. ASSUME NEW c \in Conns, Proceed(c) PROVE RoomOfOwnTenant'
  <2>0. pc[c] \in Steps => job[c].user \in Accounts
    BY JobAtStep
  <2>1. CASE EnterRoom(c)
    <3>1. job[c].room \in Rooms /\ TenantOf[job[c].room] = job[c].tenant
      BY <2>1 DEF EnterRoom, RoomsInv, RoomsChosen
    <3>2. job[c].user \in Accounts
      BY <2>0, <2>1 DEF EnterRoom, Steps
    <3>3. QED
      BY <2>1, <3>1, <3>2, TenantEntered DEF EnterRoom
  <2>2. CASE MoveToLobby(c)
    <3>1. job[c].tenant \in Tenants /\ job[c].pending \in SUBSET Accounts
      BY <2>2, JobAtStep DEF MoveToLobby, RoomsInv, RoomsChosen
    <3>2. Lobby[job[c].tenant] \in Rooms /\ TenantOf[Lobby[job[c].tenant]] = job[c].tenant
      BY <3>1, RoomsAssumption
    <3>3. QED
      BY <2>2, <3>1, <3>2, TenantEntered DEF MoveToLobby
  <2>3. CASE Leave(c) \/ KickFromRoom(c)
    BY <1>1, <2>0, <2>3 DEF Leave, KickFromRoom, Steps
  <2>4. CASE Expel(c) \/ Remove(c)
    BY <1>2, <2>0, <2>4 DEF Expel, Remove, Steps
  <2>5. CASE UNCHANGED <<users, foreign>>
    BY <2>5, TenantKept
  <2>6. CASE TakeList(c) \/ SendList(c) \/ BroadcastList(c) \/ CheckRoom(c) \/ CountRoom(c)
             \/ TellOld(c) \/ LookAgain(c) \/ TellNew(c) \/ SayGoodbye(c)
             \/ ChooseTenant(c) \/ FindRoom(c) \/ CollectMembers(c) \/ FindTarget(c)
             \/ AnnounceMove(c) \/ AnnounceKick(c) \/ CheckOwner(c) \/ LookUpRoom(c)
             \/ Farewell(c)
    <3>1. Rest
      BY <2>6 DEF TakeList, SendList, BroadcastList, CheckRoom, CountRoom, TellOld,
         LookAgain, TellNew, SayGoodbye, ChooseTenant, FindRoom, CollectMembers,
         FindTarget, AnnounceMove, AnnounceKick, CheckOwner, LookUpRoom, Farewell, Still
    <3>2. QED
      BY <2>5, <3>1 DEF Rest, umVars
  <2>7. CASE InsertRoom(c) \/ DropRoom(c)
    BY <2>5, <2>7 DEF InsertRoom, DropRoom, umVars, roomHistory
  <2>8. QED
    BY <1>4, <2>1, <2>2, <2>3, <2>4, <2>6, <2>7 DEF Proceed
<1>5. CASE UNCHANGED roomVars
  BY <1>5, TenantKept DEF roomVars, umVars, roomHistory
<1>6. QED
  BY <1>3, <1>4, <1>5 DEF RoomsNext

(* Tenants do not meet in a room: whoever is in a room is in one of the own
   tenant, except a user whose session was taken over into another tenant
   between the check of the room and the move into it. *)
THEOREM RoomsStayInTenant == RoomsSpec => []RoomOfOwnTenant
<1>1. RoomsInit => RoomOfOwnTenant
  BY DEF RoomsInit, Init, RoomOfOwnTenant, Online
<1>2. QED
  BY <1>1, RoomsInitial, RoomsStep, TenantStep, PTL DEF RoomsSpec
----------------------------------------------------------------------------
(* What a step does to who is where *)

LEMMA SetRoomMoves ==
  ASSUME TypeOK, NEW u \in Accounts, NEW r \in Rooms \cup {None}, SetRoom(u, r)
  PROVE  /\ RoomOf(u)' = IF Online(u) THEN r ELSE None
         /\ \A v \in Accounts : v # u => RoomOf(v)' = RoomOf(v)
<1>1. \A v \in Accounts : v # u => users'[v] = users[v]
  BY DEF SetRoom, TypeOK
<1>2. CASE Online(u)
  <2> DEFINE s == [users[u] EXCEPT !.room_id = r]
  <2>1. users[u] \in Session
    BY <1>2, OnlineSession
  <2>2. s \in Session /\ s.room_id = r
    BY <2>1 DEF Session
  <2>3. users'[u] = s
    BY <1>2 DEF SetRoom, TypeOK
  <2>4. users'[u] # None
    BY <2>2, <2>3, SessionNotNone
  <2> QED
    BY <1>1, <1>2, <2>2, <2>3, <2>4 DEF RoomOf, Online
<1>3. CASE ~Online(u)
  BY <1>3 DEF SetRoom, RoomOf, Online
<1> QED
  BY <1>2, <1>3

(* A task works on its own locals only. *)
LEMMA OthersKept ==
  ASSUME RoomsInv, NEW c \in Conns, Message(c) \/ Proceed(c), NEW d \in Conns, d # c
  PROVE  pc'[d] = pc[d] /\ job'[d] = job[d]
<1>1. pc \in [Conns -> Waiting \cup Steps] /\ job \in [Conns -> JobType]
  BY DEF RoomsInv, RoomsTypeOK
<1>2. CASE Message(c)
  <2>1. PICK j, s : Begin(c, j, s)
    BY <1>2 DEF Message, Login, RoomJoin, RoomLeave, RoomCreate, RoomDelete, AdminMove,
       AdminKick, Disconnect
  <2> QED
    BY <1>1, <2>1 DEF Begin, Goto
<1>3. CASE Proceed(c)
  <2>1. (\E s : pc' = [pc EXCEPT ![c] = s]) \/ pc' = pc
    BY <1>3 DEF Proceed, TakeList, SendList, BroadcastList, CheckRoom, CountRoom, EnterRoom,
       TellOld, LookAgain, TellNew, SayGoodbye, Leave, ChooseTenant, InsertRoom, FindRoom,
       CollectMembers, MoveToLobby, DropRoom, FindTarget, AnnounceMove, KickFromRoom, Expel,
       AnnounceKick, CheckOwner, LookUpRoom, Farewell, Remove, Fail, Keep, End, Goto
  <2>2. (\E j : job' = [job EXCEPT ![c] = j]) \/ job' = job
    BY <1>3 DEF Proceed, TakeList, SendList, BroadcastList, CheckRoom, CountRoom, EnterRoom,
       TellOld, LookAgain, TellNew, SayGoodbye, Leave, ChooseTenant, InsertRoom, FindRoom,
       CollectMembers, MoveToLobby, DropRoom, FindTarget, AnnounceMove, KickFromRoom, Expel,
       AnnounceKick, CheckOwner, LookUpRoom, Farewell, Remove, Fail, Keep, End
  <2> QED
    BY <1>1, <2>1, <2>2
<1> QED
  BY <1>2, <1>3

(* The steps that change what is known of rooms, and all the others. *)
RoomStep(c) ==
  CheckRoom(c) \/ CountRoom(c) \/ EnterRoom(c) \/ FindRoom(c) \/ CollectMembers(c)
    \/ MoveToLobby(c) \/ InsertRoom(c) \/ DropRoom(c)
OtherStep(c) ==
  TakeList(c) \/ SendList(c) \/ BroadcastList(c) \/ TellOld(c) \/ LookAgain(c) \/ TellNew(c)
    \/ SayGoodbye(c) \/ Leave(c) \/ ChooseTenant(c) \/ FindTarget(c) \/ AnnounceMove(c)
    \/ KickFromRoom(c) \/ Expel(c) \/ AnnounceKick(c) \/ CheckOwner(c) \/ LookUpRoom(c)
    \/ Farewell(c) \/ Remove(c)

LEMMA StepKinds ==
  ASSUME NEW c \in Conns, Proceed(c)
  PROVE  RoomStep(c) \/ OtherStep(c)
BY DEF Proceed, RoomStep, OtherStep

(* The others put nobody into a room, and lead to no step that works on one. *)
LEMMA OtherSteps ==
  ASSUME RoomsInv, NEW c \in Conns, Message(c) \/ OtherStep(c)
  PROVE  /\ \A u \in Accounts : RoomOf(u)' \in {RoomOf(u), None}
         /\ UNCHANGED <<rooms, gone, contested, crowd, uncounted>>
         /\ pc'[c] \notin {"count", "enter", "collect", "empty"}
<1>0. TypeOK /\ pc \in [Conns -> Waiting \cup Steps] /\ job \in [Conns -> JobType]
  BY DEF RoomsInv, RoomsTypeOK
<1>1. ASSUME UNCHANGED users PROVE \A u \in Accounts : RoomOf(u)' \in {RoomOf(u), None}
  BY <1>1 DEF RoomOf, Online
<1>2. CASE Message(c)
  <2>1. UNCHANGED <<rooms, gone, contested, crowd, uncounted>>
    BY <1>2 DEF Message, Login, RoomJoin, RoomLeave, RoomCreate, RoomDelete, AdminMove,
       AdminKick, Disconnect, Unmoved
  <2>2. \E s \in {"list", "check", "goodbye", "place", "find", "target", "closing"} :
          pc' = [pc EXCEPT ![c] = s]
    BY <1>2 DEF Message, Login, RoomJoin, RoomLeave, RoomCreate, RoomDelete, AdminMove,
       AdminKick, Disconnect, Begin, Goto
  <2>3. \A u \in Accounts : RoomOf(u)' \in {RoomOf(u), None}
    <3>1. ASSUME NEW u \in Accounts, NEW tn \in Tenants, Login(c, u, tn)
          PROVE  \A v \in Accounts : RoomOf(v)' \in {RoomOf(v), None}
      <4>1. PICK t \in Ids, a \in Ids : users' = [users EXCEPT ![u] = FreshSession(c, tn, t, a)]
        BY <3>1 DEF Login, AddUser
      <4>2. users'[u].room_id = None /\ \A v \in Accounts : v # u => users'[v] = users[v]
        BY <1>0, <4>1 DEF TypeOK, FreshSession
      <4> QED
        BY <4>2 DEF RoomOf, Online
    <3>2. CASE Unmoved
      BY <1>1, <3>2 DEF Unmoved, umVars
    <3> QED
      BY <1>2, <3>1, <3>2 DEF Message, RoomJoin, RoomLeave, RoomDelete, RoomCreate,
         AdminMove, AdminKick, Disconnect
  <2> QED
    BY <1>0, <2>1, <2>2, <2>3
<1>3. CASE OtherStep(c)
  <2>1. UNCHANGED <<rooms, gone, contested, crowd, uncounted>>
    BY <1>3 DEF OtherStep, TakeList, SendList, BroadcastList, TellOld, LookAgain, TellNew,
       SayGoodbye, Leave, ChooseTenant, FindTarget, AnnounceMove, KickFromRoom, Expel,
       AnnounceKick, CheckOwner, LookUpRoom, Farewell, Remove, Still, Rest
  <2>2. \E s \in (Steps \cup Waiting) \ {"count", "enter", "collect", "empty"} :
          pc' = [pc EXCEPT ![c] = s]
    BY <1>3 DEF OtherStep, TakeList, SendList, BroadcastList, TellOld, LookAgain, TellNew,
       SayGoodbye, Leave, ChooseTenant, FindTarget, AnnounceMove, KickFromRoom, Expel,
       AnnounceKick, CheckOwner, LookUpRoom, Farewell, Remove, Keep, End, Goto, Steps, Waiting
  <2>3. \A u \in Accounts : RoomOf(u)' \in {RoomOf(u), None}
    <3>1. CASE Leave(c) \/ KickFromRoom(c)
      <4>1. job[c].user \in Accounts /\ SetRoom(job[c].user, None)
        BY <3>1, JobAtStep DEF Leave, KickFromRoom, Steps
      <4> QED
        BY <1>0, <4>1, SetRoomMoves
    <3>2. CASE Expel(c) \/ Remove(c)
      BY <1>0, <3>2 DEF Expel, Remove, RemoveUser, RoomOf, Online, TypeOK
    <3>3. CASE ~(Leave(c) \/ KickFromRoom(c) \/ Expel(c) \/ Remove(c))
      BY <1>1, <1>3, <3>3 DEF OtherStep, TakeList, SendList, BroadcastList, TellOld, LookAgain,
         TellNew, SayGoodbye, ChooseTenant, FindTarget, AnnounceMove, AnnounceKick, CheckOwner,
         LookUpRoom, Farewell, Still, Rest, umVars
    <3> QED
      BY <3>1, <3>2, <3>3
  <2> QED
    BY <1>0, <2>1, <2>2, <2>3
<1> QED
  BY <1>2, <1>3

----------------------------------------------------------------------------
(* Nobody is in a deleted room *)

(* What excuses a deleted room with somebody in it. *)
Doomed(r) == r \in contested \/ Ancestors[r] \cap gone # {}

(* A room a task is about to enter is there, or excused. *)
TargetThere ==
  \A c \in Conns : pc[c] \in {"count", "enter"} =>
    job[c].room \in rooms \/ Doomed(job[c].room)

(* A room that is being deleted was in the table and is no default room. *)
VictimFound ==
  \A c \in Conns : pc[c] \in {"collect", "empty"} =>
    job[c].room \in rooms \cup gone /\ \A tn \in Tenants : job[c].room # Lobby[tn]

(* While a room is emptied its members are those still to be moved, and nobody
   is about to enter it -- or it is contested. *)
VictimEmptied ==
  \A c \in Conns : pc[c] = "empty" =>
    \/ job[c].room \in contested
    \/ Members(job[c].room) \subseteq job[c].pending /\ Approaching(job[c].room) = {}

LobbiesStay == \A tn \in Tenants : Lobby[tn] \in rooms

DeletionInv ==
  TargetThere /\ VictimFound /\ VictimEmptied /\ LobbiesStay /\ NobodyInDeletedRoom

LEMMA NoMember ==
  ASSUME RoomsInv, NEW u \in Accounts, NEW r \in Rooms
  PROVE  u \in Members(r) <=> RoomOf(u) = r
BY RoomsAssumption DEF Members, RoomOf

LEMMA DeletionInit == RoomsInit => DeletionInv
<1> SUFFICES ASSUME RoomsInit PROVE DeletionInv
  OBVIOUS
<1>1. rooms = Initial /\ gone = {} /\ pc = [c \in Conns |-> "new"]
  BY DEF RoomsInit
<1>2. LobbiesStay
  BY <1>1, RoomsAssumption DEF LobbiesStay
<1> QED
  BY <1>1, <1>2 DEF DeletionInv, TargetThere, VictimFound, VictimEmptied, NobodyInDeletedRoom

(* A step of c that puts nobody into a room, deletes none and leads c to no step
   that works on one. *)
LEMMA DeletionKept ==
  ASSUME RoomsInv, DeletionInv, NEW c \in Conns,
         \A d \in Conns : d # c => pc'[d] = pc[d] /\ job'[d] = job[d],
         \A u \in Accounts : RoomOf(u)' \in {RoomOf(u), None},
         rooms \subseteq rooms', gone' = gone, rooms' \cap gone' = {},
         contested' = contested,
         pc'[c] \notin {"count", "enter", "collect", "empty"}
  PROVE  DeletionInv'
<1>1. TargetThere' /\ VictimFound' /\ LobbiesStay'
  BY DEF DeletionInv, TargetThere, VictimFound, LobbiesStay, Doomed
<1>2. NobodyInDeletedRoom'
  <2>1. None \notin gone
    BY RoomsAssumption DEF RoomsInv, RoomsTypeOK
  <2> QED
    BY <2>1 DEF DeletionInv, NobodyInDeletedRoom
<1>3. VictimEmptied'
  <2> SUFFICES ASSUME NEW d \in Conns, pc'[d] = "empty", job'[d].room \notin contested
               PROVE  /\ (Members(job[d].room) \subseteq job[d].pending)'
                      /\ (Approaching(job[d].room) = {})'
    BY DEF VictimEmptied
  <2>1. d # c /\ pc[d] = "empty" /\ job'[d] = job[d]
    OBVIOUS
  <2>2. job[d].room \in Rooms
    BY <2>1 DEF DeletionInv, VictimFound, RoomsInv, RoomsTypeOK
  <2>3. Members(job[d].room) \subseteq job[d].pending /\ Approaching(job[d].room) = {}
    BY <2>1 DEF DeletionInv, VictimEmptied
  <2>4. Members(job[d].room)' \subseteq Members(job[d].room)
    BY <2>1, <2>2, RoomsAssumption DEF Members, RoomOf
  <2>5. Approaching(job[d].room)' = {}
    BY <2>1, <2>3 DEF Approaching
  <2> QED
    BY <2>1, <2>3, <2>4, <2>5
<1> QED
  BY <1>1, <1>2, <1>3 DEF DeletionInv

(* As long as the sessions stay as they are so do the rooms. *)
LEMMA SameSessions ==
  ASSUME UNCHANGED users
  PROVE  /\ \A u \in Accounts : RoomOf(u)' = RoomOf(u)
         /\ \A r : Members(r)' = Members(r)
BY DEF RoomOf, Members, Online

LEMMA CheckRoomDeletes ==
  ASSUME RoomsInv, DeletionInv, NEW c \in Conns, CheckRoom(c),
         \A d \in Conns : d # c => pc'[d] = pc[d] /\ job'[d] = job[d]
  PROVE  DeletionInv'
<1> DEFINE r == job[c].room
<1>0. UNCHANGED <<users, rooms, gone>> /\ rooms \cap gone = {}
      /\ pc \in [Conns -> Waiting \cup Steps] /\ job \in [Conns -> JobType]
  BY DEF CheckRoom, Still, Rest, umVars, RoomsInv, RoomsTypeOK
<1>1. CASE Fail(c) /\ UNCHANGED contested
  <2>1. pc'[c] = "idle"
    BY <1>0, <1>1 DEF Fail, End, Goto
  <2> QED
    BY <1>0, <1>1, <2>1, SameSessions, DeletionKept
<1>2. CASE /\ r \in rooms /\ Keep(c, IF Limit[r] > 0 THEN "count" ELSE "enter")
           /\ contested' = contested \cup {x \in {r} : Emptying(x) # {}}
  <2>1. pc'[c] \in {"count", "enter"} /\ job' = job
    BY <1>0, <1>2 DEF Keep, Goto
  <2>2. contested \subseteq contested'
    BY <1>2
  <2>3. TargetThere'
    BY <1>0, <1>2, <2>1, <2>2 DEF DeletionInv, TargetThere, Doomed
  <2>4. VictimFound' /\ LobbiesStay' /\ NobodyInDeletedRoom'
    BY <1>0, <2>1, <2>2, SameSessions DEF DeletionInv, VictimFound, LobbiesStay, NobodyInDeletedRoom
  <2>5. VictimEmptied'
    <3> SUFFICES ASSUME NEW d \in Conns, pc'[d] = "empty", job'[d].room \notin contested'
                 PROVE  /\ (Members(job[d].room) \subseteq job[d].pending)'
                        /\ (Approaching(job[d].room) = {})'
      BY DEF VictimEmptied
    <3>1. d # c /\ pc[d] = "empty" /\ job'[d] = job[d]
      BY <2>1
    <3>2. job[d].room # r
      BY <1>2, <3>1 DEF Emptying
    <3>3. Members(job[d].room) \subseteq job[d].pending /\ Approaching(job[d].room) = {}
      BY <2>2, <3>1 DEF DeletionInv, VictimEmptied
    <3>4. Approaching(job[d].room)' = {}
      BY <2>1, <3>1, <3>2, <3>3 DEF Approaching
    <3> QED
      BY <1>0, <3>1, <3>3, <3>4, SameSessions
  <2> QED
    BY <2>3, <2>4, <2>5 DEF DeletionInv
<1> QED
  BY <1>1, <1>2 DEF CheckRoom

LEMMA CountRoomDeletes ==
  ASSUME RoomsInv, DeletionInv, NEW c \in Conns, CountRoom(c),
         \A d \in Conns : d # c => pc'[d] = pc[d] /\ job'[d] = job[d]
  PROVE  DeletionInv'
<1>0. UNCHANGED <<users, rooms, gone, contested>> /\ rooms \cap gone = {}
      /\ pc \in [Conns -> Waiting \cup Steps] /\ job \in [Conns -> JobType]
  BY DEF CountRoom, Still, Rest, umVars, RoomsInv, RoomsTypeOK
<1>1. CASE Fail(c)
  <2>1. pc'[c] = "idle"
    BY <1>0, <1>1 DEF Fail, End, Goto
  <2> QED
    BY <1>0, <2>1, SameSessions, DeletionKept
<1>2. CASE Keep(c, "enter")
  <2>1. pc'[c] = "enter" /\ pc[c] = "count" /\ job' = job
    BY <1>0, <1>2 DEF CountRoom, Keep, Goto
  <2>2. TargetThere' /\ VictimFound' /\ LobbiesStay' /\ NobodyInDeletedRoom'
    BY <1>0, <2>1, SameSessions DEF DeletionInv, TargetThere, Doomed, VictimFound, LobbiesStay,
       NobodyInDeletedRoom
  <2>3. \A r : Approaching(r)' = Approaching(r)
    BY <2>1 DEF Approaching
  <2>4. VictimEmptied'
    BY <1>0, <2>1, <2>3, SameSessions DEF DeletionInv, VictimEmptied
  <2> QED
    BY <2>2, <2>4 DEF DeletionInv
<1> QED
  BY <1>1, <1>2 DEF CountRoom

LEMMA EnterRoomDeletes ==
  ASSUME RoomsInv, DeletionInv, NEW c \in Conns, EnterRoom(c),
         \A d \in Conns : d # c => pc'[d] = pc[d] /\ job'[d] = job[d]
  PROVE  DeletionInv'
<1> DEFINE r == job[c].room
<1>0. /\ UNCHANGED <<rooms, gone, contested>> /\ rooms \cap gone = {} /\ TypeOK
      /\ pc \in [Conns -> Waiting \cup Steps] /\ job \in [Conns -> JobType] /\ job' = job
  BY DEF EnterRoom, Keep, RoomsInv, RoomsTypeOK
<1>1. /\ job[c].user \in Accounts /\ r \in Rooms
      /\ pc[c] = "enter" /\ pc'[c] \in {"tell_old", "look"}
  BY <1>0, JobAtStep DEF EnterRoom, RoomsInv, RoomsChosen, Keep, Goto, Steps
<1>u. PICK u \in Accounts : u = job[c].user
  BY <1>1
<1>2. RoomOf(u)' \in {r, None} /\ \A v \in Accounts : v # u => RoomOf(v)' = RoomOf(v)
  BY <1>0, <1>1, <1>u, SetRoomMoves DEF EnterRoom
<1>3. TargetThere' /\ VictimFound' /\ LobbiesStay'
  BY <1>0, <1>1 DEF DeletionInv, TargetThere, Doomed, VictimFound, LobbiesStay
<1>4. NobodyInDeletedRoom'
  <2>1. r \in rooms \/ Doomed(r)
    BY <1>1 DEF DeletionInv, TargetThere
  <2>2. None \notin gone
    BY RoomsAssumption DEF RoomsInv, RoomsTypeOK
  <2> QED
    BY <1>0, <1>2, <2>1, <2>2 DEF DeletionInv, NobodyInDeletedRoom, Doomed
<1>5. VictimEmptied'
  <2> SUFFICES ASSUME NEW d \in Conns, pc'[d] = "empty", job'[d].room \notin contested'
               PROVE  /\ (Members(job[d].room) \subseteq job[d].pending)'
                      /\ (Approaching(job[d].room) = {})'
    BY DEF VictimEmptied
  <2>1. d # c /\ pc[d] = "empty" /\ job'[d] = job[d]
    BY <1>0, <1>1
  <2>2. Members(job[d].room) \subseteq job[d].pending /\ Approaching(job[d].room) = {}
    BY <1>0, <2>1 DEF DeletionInv, VictimEmptied
  <2>3. job[d].room # r /\ job[d].room \in Rooms
    BY <1>1, <2>1, <2>2 DEF Approaching, DeletionInv, VictimFound, RoomsInv, RoomsTypeOK
  <2>4. \A v \in Members(job[d].room)' : v \in Members(job[d].room)
    <3>1. \A v \in Members(job[d].room)' : RoomOf(v)' = job[d].room
      BY <1>0 DEF Members, RoomOf
    <3>2. \A v \in Accounts : RoomOf(v) = job[d].room => v \in Members(job[d].room)
      BY <2>3, NoMember
    <3>3. \A v \in Members(job[d].room)' : v \in Accounts
      BY DEF Members
    <3> QED
      BY <1>2, <2>3, <3>1, <3>2, <3>3, RoomsAssumption
  <2>5. Approaching(job[d].room)' = {}
    BY <1>0, <1>1, <2>2 DEF Approaching
  <2> QED
    BY <2>1, <2>2, <2>4, <2>5
<1> QED
  BY <1>3, <1>4, <1>5 DEF DeletionInv

LEMMA FindRoomDeletes ==
  ASSUME RoomsInv, DeletionInv, NEW c \in Conns, FindRoom(c),
         \A d \in Conns : d # c => pc'[d] = pc[d] /\ job'[d] = job[d]
  PROVE  DeletionInv'
<1> DEFINE r == job[c].room
<1>0. UNCHANGED <<users, rooms, gone, contested>> /\ rooms \cap gone = {} /\ rooms \subseteq Rooms
      /\ pc \in [Conns -> Waiting \cup Steps] /\ job \in [Conns -> JobType]
  BY DEF FindRoom, Still, Rest, umVars, RoomsInv, RoomsTypeOK
<1>1. CASE End(c)
  <2>1. pc'[c] = "idle"
    BY <1>0, <1>1 DEF End, Goto
  <2> QED
    BY <1>0, <2>1, SameSessions, DeletionKept
<1>2. CASE /\ Keep(c, "collect") /\ r \in rooms /\ TenantOf[r] = job[c].tenant
           /\ r # Lobby[job[c].tenant]
  <2>1. pc'[c] = "collect" /\ pc[c] = "find" /\ job' = job
    BY <1>0, <1>2 DEF FindRoom, Keep, Goto
  <2>2. \A tn \in Tenants : r # Lobby[tn]
    BY <1>2, RoomsAssumption
  <2>3. TargetThere' /\ VictimFound' /\ LobbiesStay' /\ NobodyInDeletedRoom'
    BY <1>0, <1>2, <2>1, <2>2, SameSessions DEF DeletionInv, TargetThere, Doomed, VictimFound,
       LobbiesStay, NobodyInDeletedRoom
  <2>4. \A x : Approaching(x)' = Approaching(x)
    BY <2>1 DEF Approaching
  <2>5. VictimEmptied'
    BY <1>0, <2>1, <2>4, SameSessions DEF DeletionInv, VictimEmptied
  <2> QED
    BY <2>3, <2>5 DEF DeletionInv
<1> QED
  BY <1>1, <1>2 DEF FindRoom

LEMMA CollectDeletes ==
  ASSUME RoomsInv, DeletionInv, NEW c \in Conns, CollectMembers(c),
         \A d \in Conns : d # c => pc'[d] = pc[d] /\ job'[d] = job[d]
  PROVE  DeletionInv'
<1> DEFINE r == job[c].room
<1>0. UNCHANGED <<users, rooms, gone>> /\ contested \subseteq contested'
      /\ contested' = contested \cup {x \in {r} : Approaching(x) # {}}
      /\ pc \in [Conns -> Waiting \cup Steps] /\ job \in [Conns -> JobType]
  BY DEF CollectMembers, Still, Rest, umVars, RoomsInv, RoomsTypeOK
<1>1. pc'[c] = "empty" /\ pc[c] = "collect"
  BY <1>0 DEF CollectMembers, Goto
<1>2. job'[c] = [job[c] EXCEPT !.pending = Members(r)]
  BY <1>0 DEF CollectMembers
<1>3. job'[c].room = r /\ job'[c].pending = Members(r)
  BY <1>0, <1>2 DEF JobType
<1>4. TargetThere' /\ VictimFound' /\ LobbiesStay' /\ NobodyInDeletedRoom'
  BY <1>0, <1>1, <1>3, SameSessions DEF DeletionInv, TargetThere, Doomed, VictimFound,
     LobbiesStay, NobodyInDeletedRoom
<1>5. \A x : Approaching(x)' = Approaching(x)
  BY <1>1 DEF Approaching
<1>6. VictimEmptied'
  <2> SUFFICES ASSUME NEW d \in Conns, pc'[d] = "empty", job'[d].room \notin contested'
               PROVE  /\ (Members(job[d].room) \subseteq job[d].pending)'
                      /\ (Approaching(job[d].room) = {})'
    BY DEF VictimEmptied
  <2>1. CASE d = c
    BY <1>0, <1>3, <1>5, <2>1, SameSessions
  <2>2. CASE d # c
    BY <1>0, <1>5, <2>2, SameSessions DEF DeletionInv, VictimEmptied
  <2> QED
    BY <2>1, <2>2
<1> QED
  BY <1>4, <1>6 DEF DeletionInv

LEMMA MoveToLobbyDeletes ==
  ASSUME RoomsInv, DeletionInv, NEW c \in Conns, MoveToLobby(c),
         \A d \in Conns : d # c => pc'[d] = pc[d] /\ job'[d] = job[d]
  PROVE  DeletionInv'
<1> DEFINE home == Lobby[job[c].tenant]
<1>0. /\ UNCHANGED <<rooms, gone, contested, pc>> /\ rooms \cap gone = {} /\ TypeOK
      /\ pc \in [Conns -> Waiting \cup Steps] /\ job \in [Conns -> JobType]
      /\ job[c].tenant \in Tenants /\ job[c].pending \in SUBSET Accounts /\ pc[c] = "empty"
  BY JobAtStep DEF MoveToLobby, RoomsInv, RoomsTypeOK, RoomsChosen
<1>1. PICK u \in job[c].pending :
        SetRoom(u, home) /\ job' = [job EXCEPT ![c].pending = @ \ {u}]
  BY DEF MoveToLobby
<1>2. u \in Accounts /\ home \in Rooms /\ home \in rooms
  BY <1>0, <1>1, RoomsAssumption DEF DeletionInv, LobbiesStay
<1>3. RoomOf(u)' \in {home, None} /\ \A v \in Accounts : v # u => RoomOf(v)' = RoomOf(v)
  BY <1>0, <1>1, <1>2, SetRoomMoves
<1>4. job'[c] = [job[c] EXCEPT !.pending = job[c].pending \ {u}]
  BY <1>0, <1>1
<1>5. job'[c].room = job[c].room /\ job'[c].pending = job[c].pending \ {u}
  BY <1>0, <1>4 DEF JobType
<1>6. \A d \in Conns : job'[d].room = job[d].room
  BY <1>5
<1>7. TargetThere' /\ VictimFound' /\ LobbiesStay'
  BY <1>0, <1>6 DEF DeletionInv, TargetThere, Doomed, VictimFound, LobbiesStay
<1>8. NobodyInDeletedRoom'
  <2>1. None \notin gone
    BY RoomsAssumption DEF RoomsInv, RoomsTypeOK
  <2> QED
    BY <1>0, <1>2, <1>3, <2>1 DEF DeletionInv, NobodyInDeletedRoom
<1>9. VictimEmptied'
  <2> SUFFICES ASSUME NEW d \in Conns, pc[d] = "empty", job[d].room \notin contested
               PROVE  /\ (Members(job[d].room) \subseteq job[d].pending)'
                      /\ (Approaching(job[d].room) = {})'
    BY <1>0, <1>6 DEF VictimEmptied
  <2>1. Members(job[d].room) \subseteq job[d].pending /\ Approaching(job[d].room) = {}
    BY DEF DeletionInv, VictimEmptied
  <2>2. job[d].room # home /\ job[d].room \in Rooms
    BY <1>0 DEF DeletionInv, VictimFound, RoomsInv, RoomsTypeOK
  <2>3. \A v \in Members(job[d].room)' : v \in Members(job[d].room) /\ v # u
    BY <1>3, <1>6, <2>2, RoomsAssumption DEF Members, RoomOf
  <2>4. job[d].pending \ {u} \subseteq job'[d].pending
    BY <1>5
  <2>5. Approaching(job[d].room)' = {}
    BY <1>0, <1>6, <2>1 DEF Approaching
  <2> QED
    BY <1>6, <2>1, <2>3, <2>4, <2>5
<1> QED
  BY <1>7, <1>8, <1>9 DEF DeletionInv

LEMMA DropRoomDeletes ==
  ASSUME RoomsInv, DeletionInv, NEW c \in Conns, DropRoom(c),
         \A d \in Conns : d # c => pc'[d] = pc[d] /\ job'[d] = job[d]
  PROVE  DeletionInv'
<1> DEFINE r == job[c].room
           dropped == {x \in rooms : x = r \/ r \in Ancestors[x]}
<1>0. /\ UNCHANGED <<users, contested>> /\ rooms \cap gone = {} /\ rooms \subseteq Rooms
      /\ pc \in [Conns -> Waiting \cup Steps] /\ job \in [Conns -> JobType] /\ job' = job
      /\ pc[c] = "empty" /\ job[c].pending = {} /\ pc'[c] = "list"
      /\ rooms' = rooms \ dropped /\ gone' = gone \cup dropped
  BY DEF DropRoom, Keep, Goto, umVars, roomHistory, RoomsInv, RoomsTypeOK
<1>1. r \in gone' /\ \A tn \in Tenants : r # Lobby[tn]
  BY <1>0 DEF DeletionInv, VictimFound
<1> HIDE DEF r
<1>2. \A x : Doomed(x) => Doomed(x)'
  BY <1>0 DEF Doomed
<1>3. \A x \in dropped : x = r \/ Doomed(x)'
  BY <1>0, <1>1 DEF Doomed
<1>4. r \in contested \/ (Members(r) = {} /\ Approaching(r) = {})
  BY <1>0 DEF DeletionInv, VictimEmptied, r
<1>5. TargetThere'
  <2> SUFFICES ASSUME NEW d \in Conns, pc'[d] \in {"count", "enter"}
               PROVE  job[d].room \in rooms' \/ Doomed(job[d].room)'
    BY <1>0 DEF TargetThere
  <2>1. pc'[d] = pc[d]
    BY <1>0
  <2>2. job[d].room \in rooms \/ Doomed(job[d].room)
    BY <2>1 DEF DeletionInv, TargetThere
  <2>3. job[d].room = r => r \in contested
    BY <1>4, <2>1 DEF Approaching
  <2> QED
    BY <1>0, <1>2, <1>3, <2>2, <2>3 DEF Doomed
<1>6. VictimFound'
  BY <1>0 DEF DeletionInv, VictimFound
<1>7. LobbiesStay'
  BY <1>0, <1>1, RoomsAssumption DEF DeletionInv, LobbiesStay
<1>8. NobodyInDeletedRoom'
  <2> SUFFICES ASSUME NEW u \in Accounts, NEW x \in gone', RoomOf(u) = x
               PROVE  Doomed(x)'
    BY <1>0, SameSessions DEF NobodyInDeletedRoom, Doomed
  <2>1. CASE x \in gone
    BY <1>2, <2>1 DEF DeletionInv, NobodyInDeletedRoom, Doomed
  <2>2. CASE x \in dropped
    <3>1. u \in Members(x)
      BY <1>0, <2>2, NoMember
    <3>2. CASE x = r
      BY <1>0, <1>4, <3>1, <3>2 DEF Doomed
    <3> QED
      BY <1>3, <2>2, <3>2
  <2> QED
    BY <1>0, <2>1, <2>2
<1>9. VictimEmptied'
  <2> SUFFICES ASSUME NEW d \in Conns, pc'[d] = "empty", job[d].room \notin contested
               PROVE  /\ (Members(job[d].room) \subseteq job[d].pending)'
                      /\ (Approaching(job[d].room) = {})'
    BY <1>0 DEF VictimEmptied
  <2>1. d # c /\ pc[d] = "empty"
    BY <1>0
  <2>2. Members(job[d].room) \subseteq job[d].pending /\ Approaching(job[d].room) = {}
    BY <2>1 DEF DeletionInv, VictimEmptied
  <2>3. Approaching(job[d].room)' = {}
    BY <1>0, <2>2 DEF Approaching
  <2> QED
    BY <1>0, <2>2, <2>3, SameSessions
<1> QED
  BY <1>5, <1>6, <1>7, <1>8, <1>9 DEF DeletionInv

LEMMA DeletionStep == RoomsInv /\ DeletionInv /\ [RoomsNext]_roomVars => DeletionInv'
<1> SUFFICES ASSUME RoomsInv, DeletionInv, [RoomsNext]_roomVars
             PROVE  DeletionInv'
  OBVIOUS
<1>0. rooms \cap gone = {} /\ RoomsInv'
  BY RoomsStep DEF RoomsInv, RoomsTypeOK
<1>1. ASSUME NEW c \in Conns, Message(c) \/ OtherStep(c) PROVE DeletionInv'
  <2>1. Message(c) \/ Proceed(c)
    BY <1>1 DEF OtherStep, Proceed
  <2>2. \A d \in Conns : d # c => pc'[d] = pc[d] /\ job'[d] = job[d]
    BY <2>1, OthersKept
  <2> QED
    BY <1>0, <1>1, <2>2, OtherSteps, DeletionKept
<1>2. ASSUME NEW c \in Conns, Proceed(c), RoomStep(c) PROVE DeletionInv'
  <2>1. \A d \in Conns : d # c => pc'[d] = pc[d] /\ job'[d] = job[d]
    BY <1>2, OthersKept
  <2>2. CASE InsertRoom(c)
    <3>1. rooms \subseteq rooms' /\ UNCHANGED <<users, gone, contested>>
      BY <2>2 DEF InsertRoom, umVars, roomHistory
    <3>2. rooms' \cap gone' = {}
      BY <1>0 DEF RoomsInv, RoomsTypeOK
    <3>3. pc'[c] \in {"list", "idle"}
      BY <2>2 DEF InsertRoom, Keep, End, Goto, RoomsInv, RoomsTypeOK
    <3> QED
      BY <2>1, <3>1, <3>2, <3>3, SameSessions, DeletionKept
  <2> QED
    BY <1>2, <2>1, <2>2, CheckRoomDeletes, CountRoomDeletes, EnterRoomDeletes,
       FindRoomDeletes, CollectDeletes, MoveToLobbyDeletes, DropRoomDeletes DEF RoomStep
<1>3. CASE UNCHANGED roomVars
  <2>1. UNCHANGED <<users, rooms, gone, contested, pc, job>>
    BY <1>3 DEF roomVars, umVars, roomHistory
  <2> QED
    BY <2>1, SameSessions DEF DeletionInv, TargetThere, VictimFound, VictimEmptied, LobbiesStay,
       NobodyInDeletedRoom, Doomed, Approaching
<1> QED
  BY <1>1, <1>2, <1>3, StepKinds DEF RoomsNext

(* control/handler.rs room_delete: its members are out of a room when its row
   goes, and nobody comes into it later, except where somebody was just entering
   it, and in the rooms below, which the database deletes along with it. *)
THEOREM DeletionHolds == RoomsSpec => []NobodyInDeletedRoom
<1>1. DeletionInv => NobodyInDeletedRoom
  BY DEF DeletionInv
<1> QED
  BY <1>1, RoomsInitial, RoomsStep, DeletionInit, DeletionStep, PTL DEF RoomsSpec

----------------------------------------------------------------------------
(* The limit of a room *)

(* Who was counted into a room with a limit and who is about to enter it. *)
PlacesInv ==
  \A r \in Rooms : Limit[r] > 0 =>
    Cardinality(Counted(r)) + Cardinality(Entering(r)) <= Limit[r] + crowd[r]

LEMMA FiniteCrowds ==
  /\ \A r : /\ IsFiniteSet(Counted(r)) /\ IsFiniteSet(Entering(r))
            /\ Cardinality(Counted(r)) \in Nat /\ Cardinality(Entering(r)) \in Nat
  /\ \A r : /\ IsFiniteSet(Counted(r)') /\ IsFiniteSet(Entering(r)')
            /\ Cardinality(Counted(r)') \in Nat /\ Cardinality(Entering(r)') \in Nat
<1>1. \A r : Counted(r) \subseteq Accounts /\ Entering(r) \subseteq Conns
  BY DEF Counted, Members, Entering
<1>2. \A r : Counted(r)' \subseteq Accounts /\ Entering(r)' \subseteq Conns
  BY DEF Counted, Members, Entering
<1> QED
  BY <1>1, <1>2, IdsAssumption, RoomsAssumption, FS_Subset, FS_CardinalityType

(* Who is counted is a member; a moved member need not be counted. *)
LEMMA CountedMembers ==
  ASSUME RoomsInv, NEW r \in Rooms
  PROVE  /\ \A v : v \in Counted(r) <=> v \in Accounts /\ RoomOf(v) = r /\ v \notin uncounted
         /\ Cardinality(Members(r)) \in Nat /\ Cardinality(Counted(r)) <= Cardinality(Members(r))
<1>1. \A v : v \in Members(r) <=> v \in Accounts /\ RoomOf(v) = r
  BY RoomsAssumption DEF Members, RoomOf
<1>2. IsFiniteSet(Members(r)) /\ Counted(r) \subseteq Members(r)
  BY IdsAssumption, FS_Subset DEF Counted, Members
<1> QED
  BY <1>1, <1>2, FS_Subset, FS_CardinalityType DEF Counted

LEMMA PlacesInit == RoomsInit => PlacesInv
<1> SUFFICES ASSUME RoomsInit, NEW r \in Rooms, Limit[r] > 0
             PROVE  Cardinality(Counted(r)) + Cardinality(Entering(r)) <= Limit[r] + crowd[r]
  BY DEF PlacesInv
<1>1. Counted(r) = {} /\ Entering(r) = {} /\ crowd[r] = 0
  BY DEF RoomsInit, Init, Counted, Members, Online, Entering
<1> QED
  BY <1>1, FS_EmptySet, RoomsAssumption

(* Whoever leaves a room, or gives up entering it, makes place. *)
LEMMA FewerInRoom ==
  ASSUME RoomsInv, PlacesInv, NEW r \in Rooms, Limit[r] > 0, crowd'[r] = crowd[r],
         Counted(r)' \subseteq Counted(r), Entering(r)' \subseteq Entering(r)
  PROVE  Cardinality(Counted(r)') + Cardinality(Entering(r)') <= Limit[r] + crowd'[r]
<1>1. /\ Cardinality(Counted(r)') <= Cardinality(Counted(r))
      /\ Cardinality(Entering(r)') <= Cardinality(Entering(r))
  BY FiniteCrowds, FS_Subset
<1>2. Cardinality(Counted(r)) + Cardinality(Entering(r)) <= Limit[r] + crowd[r]
  BY DEF PlacesInv
<1>3. crowd[r] \in Nat /\ Limit[r] \in Nat
  BY RoomsAssumption DEF RoomsInv, RoomsTypeOK
<1> QED
  BY <1>1, <1>2, <1>3, FiniteCrowds

LEMMA CountKeepsPlaces ==
  ASSUME RoomsInv, PlacesInv, NEW c \in Conns, CountRoom(c), NEW r \in Rooms, Limit[r] > 0,
         \A d \in Conns : d # c => pc'[d] = pc[d] /\ job'[d] = job[d]
  PROVE  Cardinality(Counted(r)') + Cardinality(Entering(r)') <= Limit[r] + crowd'[r]
<1>0. /\ Counted(r)' = Counted(r) /\ crowd \in [Rooms -> Nat] /\ Limit[r] \in Nat
      /\ pc \in [Conns -> Waiting \cup Steps] /\ job \in [Conns -> JobType]
      /\ pc[c] = "count" /\ crowd'[r] \in Nat
  BY RoomsStep, SameSessions, RoomsAssumption
     DEF CountRoom, Counted, Still, Rest, umVars, RoomsInv, RoomsTypeOK, RoomsNext, Proceed
<1>1. CASE Fail(c) /\ UNCHANGED crowd
  <2>1. pc'[c] = "idle"
    BY <1>0, <1>1 DEF Fail, End, Goto
  <2>2. Entering(r)' \subseteq Entering(r)
    BY <2>1 DEF Entering
  <2> QED
    BY <1>0, <1>1, <2>2, FewerInRoom
<1>2. CASE /\ Keep(c, "enter") /\ HasPlace(job[c].room)
           /\ crowd' = [crowd EXCEPT ![job[c].room] =
                IF Cardinality(Entering(job[c].room)) > @
                THEN Cardinality(Entering(job[c].room)) ELSE @]
  <2>1. pc'[c] = "enter" /\ job' = job
    BY <1>0, <1>2 DEF Keep, Goto
  <2>2. CASE job[c].room = r
    <3>1. Entering(r)' = Entering(r) \cup {c} /\ c \notin Entering(r)
      BY <1>0, <2>1, <2>2 DEF Entering
    <3>2. Cardinality(Entering(r)') = Cardinality(Entering(r)) + 1
      BY <3>1, FiniteCrowds, FS_AddElement
    <3>3. crowd'[r] >= Cardinality(Entering(r))
      BY <1>0, <1>2, <2>2, FiniteCrowds
    <3>4. Cardinality(Counted(r)) < Limit[r]
      <4>1. Cardinality(Members(r)) < Limit[r]
        BY <1>2, <2>2 DEF HasPlace
      <4> QED
        BY <1>0, <4>1, CountedMembers, FiniteCrowds
    <3> QED
      BY <1>0, <3>2, <3>3, <3>4, FiniteCrowds
  <2>3. CASE job[c].room # r
    <3>1. Entering(r)' \subseteq Entering(r)
      BY <2>1, <2>3 DEF Entering
    <3>2. crowd'[r] = crowd[r]
      BY <1>0, <1>2, <2>3
    <3> QED
      BY <1>0, <3>1, <3>2, FewerInRoom
  <2> QED
    BY <2>2, <2>3
<1> QED
  BY <1>1, <1>2 DEF CountRoom

LEMMA EnterKeepsPlaces ==
  ASSUME RoomsInv, PlacesInv, NEW c \in Conns, EnterRoom(c), NEW r \in Rooms, Limit[r] > 0,
         \A d \in Conns : d # c => pc'[d] = pc[d] /\ job'[d] = job[d]
  PROVE  Cardinality(Counted(r)') + Cardinality(Entering(r)') <= Limit[r] + crowd'[r]
<1>0. /\ TypeOK /\ job' = job /\ crowd' = crowd /\ crowd[r] \in Nat /\ Limit[r] \in Nat
      /\ job[c].user \in Accounts /\ pc[c] = "enter" /\ pc'[c] \in {"tell_old", "look"}
  BY JobAtStep, RoomsAssumption
     DEF EnterRoom, Keep, Goto, Steps, RoomsInv, RoomsTypeOK
<1>1. PICK u \in Accounts, x \in Rooms : u = job[c].user /\ x = job[c].room
  BY <1>0 DEF EnterRoom, RoomsInv, RoomsChosen
<1>2. RoomOf(u)' \in {x, None} /\ \A v \in Accounts : v # u => RoomOf(v)' = RoomOf(v)
  BY <1>0, <1>1, SetRoomMoves DEF EnterRoom
<1>3. /\ \A v \in Counted(r)' : v \in Accounts /\ RoomOf(v)' = r /\ v \notin uncounted'
      /\ uncounted' = uncounted \ {u}
  BY <1>1 DEF EnterRoom, Counted, Members, RoomOf
<1>4. CASE x = r
  <2>1. Counted(r)' \subseteq Counted(r) \cup {u}
    BY <1>2, <1>3, CountedMembers
  <2>2. Cardinality(Counted(r)') <= Cardinality(Counted(r)) + 1
    <3>1. IsFiniteSet(Counted(r) \cup {u})
          /\ Cardinality(Counted(r) \cup {u})
               \in {Cardinality(Counted(r)), Cardinality(Counted(r)) + 1}
      BY FiniteCrowds, FS_AddElement
    <3>2. Cardinality(Counted(r)') <= Cardinality(Counted(r) \cup {u})
      BY <2>1, <3>1, FS_Subset
    <3> QED
      BY <3>1, <3>2, FiniteCrowds
  <2>3. Entering(r)' = Entering(r) \ {c} /\ c \in Entering(r)
    BY <1>0, <1>1, <1>4 DEF Entering
  <2>4. Cardinality(Entering(r)') = Cardinality(Entering(r)) - 1
    BY <2>3, FiniteCrowds, FS_RemoveElement
  <2>5. Cardinality(Counted(r)) + Cardinality(Entering(r)) <= Limit[r] + crowd[r]
    BY DEF PlacesInv
  <2> QED
    BY <1>0, <2>2, <2>4, <2>5, FiniteCrowds
<1>5. CASE x # r
  <2>1. Counted(r)' \subseteq Counted(r)
    BY <1>2, <1>3, <1>5, CountedMembers, RoomsAssumption
  <2>2. Entering(r)' \subseteq Entering(r)
    BY <1>0 DEF Entering
  <2> QED
    BY <1>0, <2>1, <2>2, FewerInRoom
<1> QED
  BY <1>4, <1>5

LEMMA PlacesStep == RoomsInv /\ PlacesInv /\ [RoomsNext]_roomVars => PlacesInv'
<1> SUFFICES ASSUME RoomsInv, PlacesInv, [RoomsNext]_roomVars, NEW r \in Rooms, Limit[r] > 0
             PROVE  Cardinality(Counted(r)') + Cardinality(Entering(r)') <= Limit[r] + crowd'[r]
  BY DEF PlacesInv
<1>0. TypeOK /\ pc \in [Conns -> Waiting \cup Steps] /\ job \in [Conns -> JobType]
  BY DEF RoomsInv, RoomsTypeOK
<1>1. CASE UNCHANGED roomVars
  <2>1. UNCHANGED <<users, crowd, uncounted, pc, job>>
    BY <1>1 DEF roomVars, umVars, roomHistory
  <2>2. Entering(r)' = Entering(r) /\ Counted(r)' = Counted(r)
    BY <2>1, SameSessions DEF Entering, Counted
  <2> QED
    BY <2>1, <2>2, FewerInRoom
<1>2. ASSUME NEW c \in Conns, Message(c) \/ Proceed(c)
      PROVE  Cardinality(Counted(r)') + Cardinality(Entering(r)') <= Limit[r] + crowd'[r]
  <2>1. \A d \in Conns : d # c => pc'[d] = pc[d] /\ job'[d] = job[d]
    BY <1>2, OthersKept
  <2>2. ASSUME \A u \in Accounts : RoomOf(u)' = r /\ u \notin uncounted' =>
                                     RoomOf(u) = r /\ u \notin uncounted,
               pc'[c] = "enter" => job'[c].room # r, UNCHANGED crowd
        PROVE  Cardinality(Counted(r)') + Cardinality(Entering(r)') <= Limit[r] + crowd'[r]
    <3>1. \A v \in Counted(r)' : v \in Accounts /\ RoomOf(v)' = r /\ v \notin uncounted'
      BY DEF Counted, Members, RoomOf
    <3>2. Counted(r)' \subseteq Counted(r)
      BY <2>2, <3>1, CountedMembers
    <3>3. Entering(r)' \subseteq Entering(r)
      BY <2>1, <2>2 DEF Entering
    <3> QED
      BY <2>2, <3>2, <3>3, FewerInRoom
  <2>3. CASE Message(c) \/ OtherStep(c)
    BY <2>2, <2>3, OtherSteps, RoomsAssumption
  <2>4. CASE CheckRoom(c)
    <3>1. UNCHANGED <<users, crowd, uncounted>>
      BY <2>4 DEF CheckRoom, Still, Rest, umVars
    <3>2. CASE Fail(c)
      BY <1>0, <2>2, <3>1, <3>2, SameSessions DEF Fail, End, Goto
    <3>3. CASE Keep(c, IF Limit[job[c].room] > 0 THEN "count" ELSE "enter")
      <4>1. job' = job /\ (pc'[c] = "enter" => ~(Limit[job[c].room] > 0))
        BY <1>0, <3>3 DEF Keep, Goto
      <4> QED
        BY <2>2, <3>1, <4>1, SameSessions
    <3> QED
      BY <2>4, <3>2, <3>3 DEF CheckRoom
  <2>5. CASE MoveToLobby(c)
    <3>1. job[c].tenant \in Tenants /\ job[c].pending \in SUBSET Accounts /\ pc[c] = "empty"
          /\ UNCHANGED <<pc, crowd>>
      BY <2>5, JobAtStep DEF MoveToLobby, RoomsInv, RoomsChosen
    <3>2. PICK h \in Rooms : h = Lobby[job[c].tenant]
      BY <3>1, RoomsAssumption
    <3>3. PICK u \in Accounts : SetRoom(u, h) /\ uncounted' = uncounted \cup {u}
      BY <2>5, <3>1, <3>2 DEF MoveToLobby
    <3>4. \A v \in Accounts : v # u => RoomOf(v)' = RoomOf(v)
      BY <1>0, <3>2, <3>3, SetRoomMoves
    <3>5. pc'[c] # "enter"
      BY <3>1
    <3> QED
      BY <2>2, <3>1, <3>3, <3>4, <3>5
  <2>6. CASE FindRoom(c) \/ CollectMembers(c) \/ InsertRoom(c) \/ DropRoom(c)
    <3>1. UNCHANGED <<users, crowd, uncounted>>
      BY <2>6 DEF FindRoom, CollectMembers, InsertRoom, DropRoom, Still, Rest, umVars, roomHistory
    <3>2. pc'[c] \in {"idle", "collect", "empty", "list"}
      BY <1>0, <2>6 DEF FindRoom, CollectMembers, InsertRoom, DropRoom, Keep, End, Goto
    <3> QED
      BY <2>2, <3>1, <3>2, SameSessions
  <2> QED
    BY <1>2, <2>1, <2>3, <2>4, <2>5, <2>6, StepKinds, CountKeepsPlaces, EnterKeepsPlaces
       DEF RoomStep
<1> QED
  BY <1>1, <1>2 DEF RoomsNext

(* room/manager.rs join_room: the members are counted and the user is put in
   afterwards, in two steps; so a room with a limit holds too many only where
   several were let in at once, and no more than were entering when one more
   found a place -- but for the users room_delete moved there, which looks at
   no limit. *)
THEOREM LimitHolds == RoomsSpec => []LimitUpToOverlap
<1>1. RoomsInv /\ PlacesInv => LimitUpToOverlap
  <2> SUFFICES ASSUME RoomsInv, PlacesInv, NEW r \in Rooms, Limit[r] > 0
               PROVE  Cardinality(Counted(r)) <= Limit[r] + crowd[r]
    BY DEF LimitUpToOverlap
  <2>1. Cardinality(Counted(r)) + Cardinality(Entering(r)) <= Limit[r] + crowd[r]
    BY DEF PlacesInv
  <2>2. crowd[r] \in Nat /\ Limit[r] \in Nat
    BY RoomsAssumption DEF RoomsInv, RoomsTypeOK
  <2> QED
    BY <2>1, <2>2, FiniteCrowds
<1> QED
  BY <1>1, RoomsInitial, RoomsStep, PlacesInit, PlacesStep, PTL DEF RoomsSpec

----------------------------------------------------------------------------
(* While messages come one at a time, the lists shown are the rooms *)

At(c, kind, steps) == job[c].kind = kind /\ pc[c] \in steps

(* The task of c is the only one that handles a message, if any does. *)
Alone(c) == \A d \in Conns \ {c} : pc[d] \in Waiting

OneAtATime == \A c \in Conns : pc[c] \notin Waiting => Alone(c)

(* Each handler takes its own steps. *)
StepsOfKind ==
  \A c \in Conns :
    /\ pc[c] \in {"check", "count", "enter", "look", "tell_new"} =>
         job[c].kind \in {"join", "move"}
    /\ pc[c] = "tell_old" => job[c].kind = "join"
    /\ pc[c] \in {"goodbye", "leave"} => job[c].kind = "leave"
    /\ pc[c] \in {"list", "send"} => job[c].kind \in {"login", "join", "create", "delete"}
    /\ pc[c] \in {"place", "create"} => job[c].kind = "create"
    /\ pc[c] \in {"find", "collect", "empty"} => job[c].kind = "delete"
    /\ pc[c] = "target" => job[c].kind \in {"move", "kick"}
    /\ pc[c] = "announce" => job[c].kind = "move"
    /\ pc[c] \in {"unroom", "expel", "tell_kick"} => job[c].kind = "kick"
    /\ pc[c] \in {"closing", "where", "farewell", "remove"} => job[c].kind = "close"

(* A session is the only one of its connection, which has logged in. *)
SenderKnown ==
  \A v \in Accounts : Online(v) => user_id[users[v].tx] = v /\ pc[users[v].tx] # "new"

(* A room with somebody in it, or to be entered, has been in the table. *)
RoomsKnown ==
  /\ \A v \in Accounts : RoomOf(v) \in rooms \cup gone \cup {None}
  /\ \A c \in Conns : pc[c] \in {"count", "enter"} => job[c].room \in rooms \cup gone
  /\ \A tn \in Tenants : Lobby[tn] \in rooms \cup gone

(* Whom the others in r are not shown although he is in it: he was announced to
   leave and has not left, or has entered and was not announced. *)
Hides(c, r) ==
  \/ At(c, "leave", {"leave"}) /\ r = job[c].room
  \/ At(c, "close", {"remove"}) /\ r = job[c].old
  \/ At(c, "move", {"check", "count", "enter"}) /\ r = job[c].old
  \/ At(c, "move", {"look", "tell_new"}) /\ r = job[c].room
  \/ At(c, "join", {"tell_old", "look", "tell_new"}) /\ r = job[c].room /\ r # job[c].old

(* Who has left r for another room, and is still shown in it. *)
Keeps(c, r) == At(c, "join", {"tell_old"}) /\ r = job[c].old /\ r # job[c].room

(* What the client of v shows of r, in which v is, while c is at work. *)
Expected(c, v, r) ==
  {x \in Accounts : \/ x \in Members(r) /\ (x = job[c].user /\ x # v => ~Hides(c, r))
                    \/ x = job[c].user /\ Keeps(c, r)}

(* Who gets a list at the end of what c does, and is shown no room until then. *)
Spared(c, v) ==
  \/ At(c, "join", {"tell_old", "look", "tell_new", "list", "send"}) /\ v = job[c].user
  \/ At(c, "delete", {"empty", "list", "send"}) /\ TenantOfUser(v) = job[c].tenant

Shows(c, v) ==
  /\ RoomOf(v) \in DOMAIN listed[users[v].tx]
  /\ listed[users[v].tx][RoomOf(v)] = Expected(c, v, RoomOf(v))

(* Whose list c must keep right. *)
Counts(c, v) ==
  v \in Accounts \ placed /\ RoomOf(v) \in rooms \ blurred /\ ~Spared(c, v)

Shown(c) == \A v \in Accounts : Counts(c, v) => Shows(c, v)

(* What the locals of c say of the sessions as long as nobody else is at work. *)
KnowsUser(c) ==
  LET u == job[c].user IN
  /\ At(c, "login", {"list", "send"}) \/ At(c, "join", Steps) => u = user_id[c]
  /\ At(c, "login", {"list", "send"}) => RoomOf(u) = None
  /\ At(c, "join", {"check", "count", "enter"})
       \/ At(c, "move", {"announce", "check", "count", "enter"}) =>
       Online(u) /\ users[u].tenant = job[c].tenant /\ RoomOf(u) = job[c].old
  /\ At(c, "join", {"tell_old", "look", "tell_new", "list", "send"})
       \/ At(c, "move", {"look", "tell_new"}) =>
       Online(u) /\ users[u].tenant = job[c].tenant /\ RoomOf(u) = job[c].room
  /\ At(c, "join", {"tell_old", "look", "tell_new", "list", "send"}) => Owns(c, u) \/ u \in placed
  /\ At(c, "move", {"look", "tell_new"}) => u \in placed
  /\ At(c, "leave", {"goodbye", "leave"}) =>
       RoomOf(u) = job[c].room \/ {job[c].room, RoomOf(u)} \ {None} \subseteq blurred
  /\ At(c, "close", {"farewell", "remove"}) => RoomOf(u) = job[c].old
  /\ At(c, "kick", {"expel"}) => RoomOf(u) = None
  /\ At(c, "kick", {"tell_kick"}) => job[c].room = None

KnowsTenant(c) ==
  /\ At(c, "delete", {"collect", "empty"}) =>
       job[c].room \in Rooms /\ TenantOf[job[c].room] = job[c].tenant
  /\ At(c, "delete", {"empty"}) =>
       \A v \in job[c].pending : Online(v) /\ users[v].tenant = job[c].tenant
  /\ pc[c] = "send" => job[c].list = RoomList(job[c].tenant)

ListInv ==
  ~overlapped =>
    /\ OneAtATime /\ foreign = {}
    /\ \A c \in Conns : Alone(c) => Shown(c) /\ KnowsUser(c) /\ KnowsTenant(c)

(* What the steps of c rest on. *)
Working(c) ==
  /\ RoomsInv /\ StepsOfKind /\ SenderKnown /\ RoomsKnown /\ RoomOfOwnTenant
  /\ foreign = {} /\ Shown(c) /\ KnowsUser(c) /\ KnowsTenant(c)

(* What they lead to. *)
Kept(c) == foreign' = {} /\ Shown(c)' /\ KnowsUser(c)' /\ KnowsTenant(c)'

LEMMA KeepLocals ==
  ASSUME RoomsInv, NEW c \in Conns, NEW s, Keep(c, s)
  PROVE  pc'[c] = s /\ job'[c] = job[c]
BY DEF Keep, Goto, RoomsInv, RoomsTypeOK

LEMMA EndLocals ==
  ASSUME RoomsInv, NEW c \in Conns, End(c)
  PROVE  pc'[c] = "idle" /\ job'[c] = NoJob
BY DEF End, Goto, RoomsInv, RoomsTypeOK

LEMMA GotoLocals ==
  ASSUME RoomsInv, NEW c \in Conns, NEW s, Goto(c, s)
  PROVE  pc'[c] = s
BY DEF Goto, RoomsInv, RoomsTypeOK

LEMMA FieldLocals ==
  ASSUME RoomsInv, NEW c \in Conns, NEW x
  PROVE  LET j == job[c]
             same(k) == /\ k.kind = j.kind /\ k.user = j.user /\ k.key = j.key
         IN /\ job' = [job EXCEPT ![c].list = x] =>
                 /\ same(job'[c]) /\ job'[c].room = j.room /\ job'[c].tenant = j.tenant
                 /\ job'[c].old = j.old /\ job'[c].pending = j.pending /\ job'[c].list = x
            /\ job' = [job EXCEPT ![c].tenant = x] =>
                 /\ same(job'[c]) /\ job'[c].room = j.room /\ job'[c].tenant = x
                 /\ job'[c].old = j.old /\ job'[c].pending = j.pending /\ job'[c].list = j.list
            /\ job' = [job EXCEPT ![c].old = x] =>
                 /\ same(job'[c]) /\ job'[c].room = j.room /\ job'[c].tenant = j.tenant
                 /\ job'[c].old = x /\ job'[c].pending = j.pending /\ job'[c].list = j.list
            /\ job' = [job EXCEPT ![c].room = x] =>
                 /\ same(job'[c]) /\ job'[c].room = x /\ job'[c].tenant = j.tenant
                 /\ job'[c].old = j.old /\ job'[c].pending = j.pending /\ job'[c].list = j.list
            /\ job' = [job EXCEPT ![c].pending = x] =>
                 /\ same(job'[c]) /\ job'[c].room = j.room /\ job'[c].tenant = j.tenant
                 /\ job'[c].old = j.old /\ job'[c].pending = x /\ job'[c].list = j.list
<1>1. job \in [Conns -> JobType] /\ job[c] \in JobType
  BY DEF RoomsInv, RoomsTypeOK
<1> QED
  BY <1>1 DEF JobType

LEMMA BeginLocals ==
  ASSUME RoomsInv, NEW c \in Conns, NEW j, NEW s, Begin(c, j, s)
  PROVE  pc'[c] = s /\ job'[c] = j
BY DEF Begin, Goto, RoomsInv, RoomsTypeOK

(* Each handler takes its own steps: a message begins one, a step goes on with it. *)
LEMMA KindStep == RoomsInv /\ StepsOfKind /\ [RoomsNext]_roomVars => StepsOfKind'
<1> SUFFICES ASSUME RoomsInv, StepsOfKind, [RoomsNext]_roomVars PROVE StepsOfKind'
  OBVIOUS
<1>1. CASE UNCHANGED roomVars
  BY <1>1 DEF roomVars, StepsOfKind
<1>2. ASSUME NEW c \in Conns, Message(c) \/ Proceed(c),
             LET k == job'[c].kind  s == pc'[c] IN
               \/ s \in Waiting
               \/ k = "login" /\ s \in {"list", "send"}
               \/ k = "join" /\ s \in {"check", "count", "enter", "tell_old", "look", "tell_new",
                                       "list", "send"}
               \/ k = "leave" /\ s \in {"goodbye", "leave"}
               \/ k = "create" /\ s \in {"place", "create", "list", "send"}
               \/ k = "delete" /\ s \in {"find", "collect", "empty", "list", "send"}
               \/ k = "move" /\ s \in {"target", "announce", "check", "count", "enter", "look",
                                       "tell_new"}
               \/ k = "kick" /\ s \in {"target", "unroom", "expel", "tell_kick"}
               \/ k = "close" /\ s \in {"closing", "where", "farewell", "remove"}
      PROVE  StepsOfKind'
  <2>1. \A d \in Conns \ {c} : pc'[d] = pc[d] /\ job'[d] = job[d]
    BY <1>2, OthersKept
  <2> QED
    BY <1>2, <2>1 DEF StepsOfKind, Waiting
<1>3. ASSUME NEW c \in Conns, Message(c) PROVE StepsOfKind'
  <2>1. PICK k, r, u, tn, old, key, s :
          /\ Begin(c, Job(k, r, u, tn, old, key), s)
          /\ <<k, s>> \in {<<"login", "list">>, <<"join", "check">>, <<"leave", "goodbye">>,
                           <<"create", "place">>, <<"delete", "find">>, <<"move", "target">>,
                           <<"kick", "target">>, <<"close", "closing">>}
    BY <1>3 DEF Message, Login, RoomJoin, RoomLeave, RoomCreate, RoomDelete, AdminMove,
       AdminKick, Disconnect
  <2>2. pc'[c] = s /\ job'[c].kind = k
    BY <2>1, BeginLocals DEF Job
  <2> QED
    BY <1>2, <1>3, <2>1, <2>2
<1>4. ASSUME NEW c \in Conns, Proceed(c) PROVE StepsOfKind'
  <2>0. RoomsInv /\ c \in Conns
    BY <1>4
  <2>1. CASE TakeList(c) \/ ChooseTenant(c) \/ CollectMembers(c) \/ LookUpRoom(c) \/ Expel(c)
    BY <1>2, <1>4, <2>0, <2>1, FieldLocals, GotoLocals
       DEF TakeList, ChooseTenant, CollectMembers, LookUpRoom, Expel, StepsOfKind
  <2>2. CASE SendList(c) \/ BroadcastList(c) \/ Leave(c) \/ AnnounceKick(c)
    BY <1>2, <1>4, <2>0, <2>2, EndLocals
       DEF SendList, BroadcastList, Leave, AnnounceKick, Waiting
  <2>3. CASE CheckRoom(c) \/ CountRoom(c)
    BY <1>2, <1>4, <2>0, <2>3, EndLocals, KeepLocals
       DEF CheckRoom, CountRoom, Fail, Waiting, StepsOfKind
  <2>4. CASE EnterRoom(c) \/ TellOld(c) \/ LookAgain(c) \/ TellNew(c)
    BY <1>2, <1>4, <2>0, <2>4, EndLocals, KeepLocals
       DEF EnterRoom, TellOld, LookAgain, TellNew, Waiting, StepsOfKind
  <2>5. CASE SayGoodbye(c) \/ InsertRoom(c) \/ FindRoom(c) \/ DropRoom(c) \/ AnnounceMove(c)
             \/ KickFromRoom(c) \/ CheckOwner(c) \/ Farewell(c)
    BY <1>2, <1>4, <2>0, <2>5, EndLocals, KeepLocals
       DEF SayGoodbye, InsertRoom, FindRoom, DropRoom, AnnounceMove, KickFromRoom, CheckOwner,
           Farewell, Waiting, StepsOfKind
  <2>6. CASE MoveToLobby(c)
    <3>1. pc'[c] = "empty" /\ job'[c].kind = job[c].kind
      BY <2>0, <2>6, FieldLocals DEF MoveToLobby
    <3> QED
      BY <1>2, <1>4, <2>6, <3>1 DEF MoveToLobby, StepsOfKind
  <2>7. CASE FindTarget(c)
    BY <1>2, <1>4, <2>0, <2>7, FieldLocals, GotoLocals, EndLocals
       DEF FindTarget, Waiting, StepsOfKind
  <2>8. CASE Remove(c)
    BY <1>2, <1>4, <2>0, <2>8, GotoLocals DEF Remove, Waiting
  <2> QED
    BY <1>4, <2>1, <2>2, <2>3, <2>4, <2>5, <2>6, <2>7, <2>8 DEF Proceed
<1> QED
  BY <1>1, <1>3, <1>4 DEF RoomsNext

(* Only a login makes a session: the other steps leave to each its connection
   and its tenant, or take it away. *)
LEMMA SessionsKept ==
  ASSUME RoomsInv, NEW c \in Conns, Message(c) \/ Proceed(c),
         ~ \E u \in Accounts, tn \in Tenants : Login(c, u, tn),
         NEW v \in Accounts, Online(v)'
  PROVE  Online(v) /\ users'[v].tx = users[v].tx /\ users'[v].tenant = users[v].tenant
<1>0. TypeOK
  BY DEF RoomsInv, RoomsTypeOK
<1>1. CASE UNCHANGED users
  BY <1>1 DEF Online
<1>2. ASSUME NEW u \in Accounts, NEW r, SetRoom(u, r)
      PROVE  Online(v) /\ users'[v].tx = users[v].tx /\ users'[v].tenant = users[v].tenant
  <2>1. CASE ~Online(u)
    BY <1>1, <1>2, <2>1 DEF SetRoom
  <2>2. CASE Online(u)
    <3>1. users[u] \in Session
      BY <1>0, <2>2, OnlineSession
    <3>2. users' = [users EXCEPT ![u] = [users[u] EXCEPT !.room_id = r]]
      BY <1>0, <1>2, <2>2 DEF SetRoom, TypeOK
    <3>3. v # u => users'[v] = users[v]
      BY <1>0, <3>2 DEF TypeOK
    <3>4. v = u => users'[v] = [users[u] EXCEPT !.room_id = r]
      BY <1>0, <3>2 DEF TypeOK
    <3> QED
      BY <2>2, <3>1, <3>3, <3>4 DEF Session, Online
  <2> QED
    BY <2>1, <2>2
<1>3. ASSUME NEW u \in Accounts, RemoveUser(u)
      PROVE  Online(v) /\ users'[v].tx = users[v].tx /\ users'[v].tenant = users[v].tenant
  BY <1>0, <1>3 DEF RemoveUser, TypeOK, Online
<1>4. CASE Message(c)
  BY <1>1, <1>4 DEF Message, RoomJoin, RoomLeave, RoomDelete, RoomCreate, AdminMove, AdminKick,
     Disconnect, Unmoved, umVars
<1>5. CASE EnterRoom(c) \/ Leave(c) \/ KickFromRoom(c)
  <2>1. job[c].user \in Accounts
    BY <1>5, JobAtStep DEF EnterRoom, Leave, KickFromRoom, Steps
  <2> QED
    BY <1>2, <1>5, <2>1 DEF EnterRoom, Leave, KickFromRoom
<1>6. CASE MoveToLobby(c)
  <2>1. job[c].pending \in SUBSET Accounts
    BY JobAtStep
  <2> QED
    BY <1>2, <1>6, <2>1 DEF MoveToLobby
<1>7. CASE Expel(c) \/ Remove(c)
  <2>1. job[c].user \in Accounts
    BY <1>7, JobAtStep DEF Expel, Remove, Steps
  <2> QED
    BY <1>3, <1>7, <2>1 DEF Expel, Remove
<1>8. CASE TakeList(c) \/ SendList(c) \/ BroadcastList(c) \/ CheckRoom(c) \/ CountRoom(c)
           \/ TellOld(c) \/ LookAgain(c) \/ TellNew(c) \/ SayGoodbye(c) \/ ChooseTenant(c)
           \/ FindRoom(c) \/ CollectMembers(c) \/ FindTarget(c) \/ AnnounceMove(c)
           \/ AnnounceKick(c) \/ CheckOwner(c) \/ LookUpRoom(c) \/ Farewell(c)
  <2>1. Rest
    BY <1>8 DEF TakeList, SendList, BroadcastList, CheckRoom, CountRoom, TellOld, LookAgain,
       TellNew, SayGoodbye, ChooseTenant, FindRoom, CollectMembers, FindTarget, AnnounceMove,
       AnnounceKick, CheckOwner, LookUpRoom, Farewell, Still
  <2> QED
    BY <1>1, <2>1 DEF Rest, umVars
<1>9. CASE InsertRoom(c) \/ DropRoom(c)
  BY <1>1, <1>9 DEF InsertRoom, DropRoom, umVars
<1> QED
  BY <1>4, <1>5, <1>6, <1>7, <1>8, <1>9 DEF Proceed

(* No step leads back to "new", and only a login writes user_id. *)
LEMMA NeverNewAgain ==
  ASSUME RoomsInv, NEW c \in Conns, Message(c) \/ Proceed(c)
  PROVE  /\ pc'[c] # "new"
         /\ (\E u \in Accounts, tn \in Tenants : Login(c, u, tn)) \/ UNCHANGED user_id
<1>1. CASE Message(c)
  <2>1. \E s \in {"list", "check", "goodbye", "place", "find", "target", "closing"} :
          pc' = [pc EXCEPT ![c] = s]
    BY <1>1 DEF Message, Login, RoomJoin, RoomLeave, RoomCreate, RoomDelete, AdminMove,
       AdminKick, Disconnect, Begin, Goto
  <2>2. pc'[c] # "new"
    BY <2>1 DEF RoomsInv, RoomsTypeOK
  <2>3. (\E u \in Accounts, tn \in Tenants : Login(c, u, tn)) \/ Unmoved
    BY <1>1 DEF Message, RoomJoin, RoomLeave, RoomCreate, RoomDelete, AdminMove, AdminKick,
       Disconnect
  <2> QED
    BY <2>2, <2>3 DEF Unmoved
<1>2. CASE Proceed(c)
  <2>1. UNCHANGED user_id
    BY <1>2 DEF Proceed, TakeList, SendList, BroadcastList, CheckRoom, CountRoom, EnterRoom,
       TellOld, LookAgain, TellNew, SayGoodbye, Leave, ChooseTenant, InsertRoom, FindRoom,
       CollectMembers, MoveToLobby, DropRoom, FindTarget, AnnounceMove, KickFromRoom, Expel,
       AnnounceKick, CheckOwner, LookUpRoom, Farewell, Remove, Still, Rest
  <2>2. pc[c] \in Steps
    BY <1>2 DEF Proceed, TakeList, SendList, BroadcastList, CheckRoom, CountRoom, EnterRoom,
       TellOld, LookAgain, TellNew, SayGoodbye, Leave, ChooseTenant, InsertRoom, FindRoom,
       CollectMembers, MoveToLobby, DropRoom, FindTarget, AnnounceMove, KickFromRoom, Expel,
       AnnounceKick, CheckOwner, LookUpRoom, Farewell, Remove, Steps
  <2>3. \/ UNCHANGED pc
        \/ \E s \in (Steps \cup Waiting) \ {"new"} : pc' = [pc EXCEPT ![c] = s]
    BY <1>2 DEF Proceed, TakeList, SendList, BroadcastList, CheckRoom, CountRoom, EnterRoom,
       TellOld, LookAgain, TellNew, SayGoodbye, Leave, ChooseTenant, InsertRoom, FindRoom,
       CollectMembers, MoveToLobby, DropRoom, FindTarget, AnnounceMove, KickFromRoom, Expel,
       AnnounceKick, CheckOwner, LookUpRoom, Farewell, Remove, Fail, Keep, End, Goto, Steps,
       Waiting
  <2> QED
    BY <2>1, <2>2, <2>3 DEF Steps, RoomsInv, RoomsTypeOK
<1> QED
  BY <1>1, <1>2

LEMMA SenderStep == RoomsInv /\ SenderKnown /\ [RoomsNext]_roomVars => SenderKnown'
<1> SUFFICES ASSUME RoomsInv, SenderKnown, [RoomsNext]_roomVars PROVE SenderKnown'
  OBVIOUS
<1>0. /\ TypeOK /\ pc \in [Conns -> Waiting \cup Steps]
      /\ user_id \in [Conns -> Accounts \cup {None}]
  BY DEF RoomsInv, RoomsTypeOK
<1>1. CASE UNCHANGED roomVars
  BY <1>1 DEF roomVars, umVars, SenderKnown, Online
<1>2. ASSUME NEW c \in Conns, NEW u \in Accounts, NEW tn \in Tenants, Login(c, u, tn)
      PROVE  SenderKnown'
  <2>1. PICK t \in Ids, a \in Ids : users' = [users EXCEPT ![u] = FreshSession(c, tn, t, a)]
    BY <1>2 DEF Login, AddUser
  <2>2. users'[u].tx = c /\ \A v \in Accounts : v # u => users'[v] = users[v]
    BY <1>0, <2>1 DEF TypeOK, FreshSession
  <2>3. user_id'[c] = u /\ \A d \in Conns \ {c} : user_id'[d] = user_id[d]
    BY <1>0, <1>2 DEF Login
  <2>4. pc'[c] = "list" /\ \A d \in Conns \ {c} : pc'[d] = pc[d]
    BY <1>0, <1>2 DEF Login, Begin, Goto
  <2>5. \A v \in Accounts : Online(v) => users[v].tx \in Conns
    BY <1>0, OnlineSession DEF Session
  <2> QED
    BY <1>2, <2>2, <2>3, <2>4, <2>5 DEF SenderKnown, Online, Login
<1>3. ASSUME NEW c \in Conns, Message(c) \/ Proceed(c),
             ~ \E u \in Accounts, tn \in Tenants : Login(c, u, tn)
      PROVE  SenderKnown'
  <2>1. \A d \in Conns \ {c} : pc'[d] = pc[d]
    BY <1>3, OthersKept
  <2>2. pc'[c] # "new" /\ UNCHANGED user_id
    BY <1>3, NeverNewAgain
  <2>3. \A v \in Accounts : Online(v)' => Online(v) /\ users'[v].tx = users[v].tx
    BY <1>3, SessionsKept
  <2>4. \A v \in Accounts : Online(v) => users[v].tx \in Conns
    BY <1>0, OnlineSession DEF Session
  <2> QED
    BY <2>1, <2>2, <2>3, <2>4 DEF SenderKnown
<1> QED
  BY <1>1, <1>2, <1>3 DEF RoomsNext

LEMMA RoomsKnownStep ==
  RoomsInv /\ RoomsKnown /\ [RoomsNext]_roomVars => RoomsKnown'
<1> SUFFICES ASSUME RoomsInv, RoomsKnown, [RoomsNext]_roomVars PROVE RoomsKnown'
  OBVIOUS
<1>0. TypeOK /\ pc \in [Conns -> Waiting \cup Steps] /\ job \in [Conns -> JobType]
  BY DEF RoomsInv, RoomsTypeOK
<1>1. CASE UNCHANGED roomVars
  BY <1>1 DEF roomVars, umVars, RoomsKnown, RoomOf, Online
<1>2. ASSUME NEW c \in Conns, Message(c) \/ Proceed(c),
             rooms \cup gone \subseteq rooms' \cup gone',
             \A v \in Accounts : RoomOf(v)' \in rooms \cup gone \cup {None},
             pc'[c] \in {"count", "enter"} => job'[c].room \in rooms \cup gone
      PROVE  RoomsKnown'
  <2>1. \A d \in Conns \ {c} : pc'[d] = pc[d] /\ job'[d] = job[d]
    BY <1>2, OthersKept
  <2> QED
    BY <1>2, <2>1 DEF RoomsKnown
<1>3. ASSUME NEW c \in Conns, Message(c) \/ OtherStep(c) PROVE RoomsKnown'
  <2>1. /\ \A u \in Accounts : RoomOf(u)' \in {RoomOf(u), None}
        /\ UNCHANGED <<rooms, gone>> /\ pc'[c] \notin {"count", "enter"}
    BY <1>3, OtherSteps
  <2>2. Message(c) \/ Proceed(c)
    BY <1>3 DEF OtherStep, Proceed
  <2> QED
    BY <1>2, <2>1, <2>2 DEF RoomsKnown
<1>4. ASSUME NEW c \in Conns, RoomStep(c) PROVE RoomsKnown'
  <2>0. Proceed(c)
    BY <1>4 DEF RoomStep, Proceed
  <2>1. CASE UNCHANGED users /\ rooms \cup gone \subseteq rooms' \cup gone'
              /\ (pc'[c] \in {"count", "enter"} => job'[c].room \in rooms \cup gone)
    BY <1>2, <2>0, <2>1, SameSessions DEF RoomsKnown
  <2>2. CASE CheckRoom(c)
    <3>1. UNCHANGED <<users, rooms, gone>>
      BY <2>2 DEF CheckRoom, Still, Rest, umVars
    <3>2. pc'[c] \in {"count", "enter"} => job'[c].room \in rooms
      BY <2>2, KeepLocals, EndLocals DEF CheckRoom, Fail
    <3> QED
      BY <2>1, <3>1, <3>2
  <2>3. CASE CountRoom(c)
    <3>1. UNCHANGED <<users, rooms, gone>>
      BY <2>3 DEF CountRoom, Still, Rest, umVars
    <3>2. pc'[c] \in {"count", "enter"} => job'[c].room \in rooms \cup gone
      BY <2>3, KeepLocals, EndLocals DEF CountRoom, Fail, RoomsKnown
    <3> QED
      BY <2>1, <3>1, <3>2
  <2>4. CASE EnterRoom(c)
    <3>1. /\ job[c].user \in Accounts /\ job[c].room \in Rooms
          /\ job[c].room \in rooms \cup gone
      BY <2>4, JobAtStep DEF EnterRoom, Steps, RoomsInv, RoomsChosen, RoomsKnown
    <3>2. \A v \in Accounts : RoomOf(v)' \in rooms \cup gone \cup {None}
      BY <1>0, <2>4, <3>1, SetRoomMoves DEF EnterRoom, RoomsKnown
    <3>3. pc'[c] \notin {"count", "enter"} /\ UNCHANGED <<rooms, gone>>
      BY <2>4, KeepLocals DEF EnterRoom
    <3> QED
      BY <1>2, <2>0, <3>2, <3>3
  <2>5. CASE MoveToLobby(c)
    <3>1. job[c].tenant \in Tenants /\ job[c].pending \in SUBSET Accounts
      BY <2>5, JobAtStep DEF MoveToLobby, RoomsInv, RoomsChosen
    <3>2. Lobby[job[c].tenant] \in Rooms /\ Lobby[job[c].tenant] \in rooms \cup gone
      BY <3>1, RoomsAssumption DEF RoomsKnown
    <3>3. PICK u \in job[c].pending : SetRoom(u, Lobby[job[c].tenant])
      BY <2>5 DEF MoveToLobby
    <3>4. \A v \in Accounts : RoomOf(v)' \in rooms \cup gone \cup {None}
      BY <1>0, <3>1, <3>2, <3>3, SetRoomMoves DEF RoomsKnown
    <3>5. pc'[c] \notin {"count", "enter"} /\ UNCHANGED <<rooms, gone>>
      BY <2>5 DEF MoveToLobby
    <3> QED
      BY <1>2, <2>0, <3>4, <3>5
  <2>6. CASE FindRoom(c) \/ CollectMembers(c)
    <3>1. UNCHANGED <<users, rooms, gone>>
      BY <2>6 DEF FindRoom, CollectMembers, Still, Rest, umVars
    <3>2. pc'[c] \notin {"count", "enter"}
      BY <2>6, KeepLocals, EndLocals, GotoLocals DEF FindRoom, CollectMembers
    <3> QED
      BY <2>1, <3>1, <3>2
  <2>7. CASE InsertRoom(c)
    <3>1. UNCHANGED <<users, gone>> /\ rooms \subseteq rooms'
      BY <2>7 DEF InsertRoom, umVars
    <3>2. pc'[c] \notin {"count", "enter"}
      BY <2>7, KeepLocals, EndLocals DEF InsertRoom
    <3> QED
      BY <2>1, <3>1, <3>2
  <2>8. CASE DropRoom(c)
    <3>1. UNCHANGED users /\ rooms \cup gone \subseteq rooms' \cup gone'
      BY <2>8 DEF DropRoom, umVars
    <3>2. pc'[c] \notin {"count", "enter"}
      BY <2>8, KeepLocals DEF DropRoom
    <3> QED
      BY <2>1, <3>1, <3>2
  <2> QED
    BY <1>4, <2>2, <2>3, <2>4, <2>5, <2>6, <2>7, <2>8 DEF RoomStep
<1> QED
  BY <1>1, <1>3, <1>4, StepKinds DEF RoomsNext

(* What the client of v shows depends on the members of the room and on whom c
   hides or keeps there. *)
LEMMA ExpectedSame ==
  ASSUME NEW c \in Conns, NEW v \in Accounts, NEW r, Members(r)' = Members(r),
         \/ /\ job'[c].user = job[c].user
            /\ Hides(c, r)' <=> Hides(c, r)
            /\ Keeps(c, r)' <=> Keeps(c, r)
         \/ ~Hides(c, r) /\ ~Hides(c, r)' /\ ~Keeps(c, r) /\ ~Keeps(c, r)'
  PROVE  Expected(c, v, r)' = Expected(c, v, r)
<1>1. CASE ~Hides(c, r) /\ ~Hides(c, r)' /\ ~Keeps(c, r) /\ ~Keeps(c, r)'
  <2>1. Expected(c, v, r) = {x \in Accounts : x \in Members(r)}
    BY <1>1 DEF Expected
  <2>2. Expected(c, v, r)' = {x \in Accounts : x \in Members(r)'}
    BY <1>1 DEF Expected
  <2> QED
    BY <2>1, <2>2
<1>2. CASE /\ job'[c].user = job[c].user
           /\ Hides(c, r)' <=> Hides(c, r)
           /\ Keeps(c, r)' <=> Keeps(c, r)
  BY <1>2 DEF Expected
<1> QED
  BY <1>1, <1>2

(* A step that changes neither sessions nor lists. *)
LEMMA SilentlyShown ==
  ASSUME NEW c \in Conns, Shown(c), UNCHANGED <<users, listed>>,
         \A v \in Accounts : Counts(c, v)' => Counts(c, v),
         \A v \in Accounts : Counts(c, v)' =>
           Expected(c, v, RoomOf(v))' = Expected(c, v, RoomOf(v))
  PROVE  Shown(c)'
<1> SUFFICES ASSUME NEW v \in Accounts, Counts(c, v)' PROVE Shows(c, v)'
  BY DEF Shown
<1>1. Counts(c, v) /\ Expected(c, v, RoomOf(v))' = Expected(c, v, RoomOf(v))
  OBVIOUS
<1>2. Shows(c, v) /\ RoomOf(v)' = RoomOf(v)
  BY <1>1, SameSessions DEF Shown
<1> QED
  BY <1>1, <1>2 DEF Shows

(* A step that only takes c on, and hides and keeps whom it hid and kept. *)
LEMMA SameShown ==
  ASSUME NEW c \in Conns, Shown(c), UNCHANGED <<users, listed, placed>>,
         \A v \in Accounts : RoomOf(v) \in rooms' => RoomOf(v) \in rooms,
         blurred \subseteq blurred',
         \A v \in Accounts : Spared(c, v) => Spared(c, v)',
         \A r \in Rooms \ blurred' :
           \/ /\ job'[c].user = job[c].user
              /\ Hides(c, r)' <=> Hides(c, r)
              /\ Keeps(c, r)' <=> Keeps(c, r)
           \/ ~Hides(c, r) /\ ~Hides(c, r)' /\ ~Keeps(c, r) /\ ~Keeps(c, r)',
         RoomsInv
  PROVE  Shown(c)'
<1>1. \A v \in Accounts : RoomOf(v)' = RoomOf(v)
  BY SameSessions
<1>2. \A v \in Accounts : Counts(c, v)' => Counts(c, v) /\ RoomOf(v) \in Rooms \ blurred'
  <2> SUFFICES ASSUME NEW v \in Accounts, Counts(c, v)'
               PROVE  Counts(c, v) /\ RoomOf(v) \in Rooms \ blurred'
    OBVIOUS
  <2>1. v \in Accounts \ placed' /\ RoomOf(v)' \in rooms' \ blurred' /\ ~Spared(c, v)'
    BY DEF Counts
  <2>2. RoomOf(v) \in rooms \ blurred'
    BY <1>1, <2>1
  <2>3. rooms \subseteq Rooms
    BY DEF RoomsInv, RoomsTypeOK
  <2> QED
    BY <2>1, <2>2, <2>3 DEF Counts
<1>3. \A v \in Accounts : Counts(c, v)' =>
        Expected(c, v, RoomOf(v))' = Expected(c, v, RoomOf(v))
  <2> SUFFICES ASSUME NEW v \in Accounts, Counts(c, v)'
               PROVE  Expected(c, v, RoomOf(v))' = Expected(c, v, RoomOf(v))
    OBVIOUS
  <2>1. PICK r \in Rooms \ blurred' : r = RoomOf(v)
    BY <1>2
  <2>2. Expected(c, v, r)' = Expected(c, v, r)
    BY SameSessions, ExpectedSame
  <2>3. Expected(c, v, RoomOf(v))' = Expected(c, v, r)'
    BY <1>1, <2>1 DEF Expected, Hides, Keeps, Members, At
  <2> QED
    BY <2>1, <2>2, <2>3
<1> QED
  BY <1>2, <1>3, SilentlyShown

(* The steps that look something up. *)
LEMMA LookedUp ==
  ASSUME NEW c \in Conns, Working(c),
         TakeList(c) \/ ChooseTenant(c) \/ FindRoom(c) \/ CollectMembers(c) \/ FindTarget(c)
           \/ CheckOwner(c) \/ LookUpRoom(c) \/ LookAgain(c)
  PROVE  Kept(c)
<1> USE DEF Working
<1>0. /\ UNCHANGED <<users, rooms, user_id, foreign, placed, listed, blurred>>
      /\ \A u \in Accounts : RoomOf(u)' = RoomOf(u) /\ TenantOfUser(u)' = TenantOfUser(u)
      /\ \A r \in Rooms : Members(r)' = Members(r)
  BY SameSessions DEF TakeList, ChooseTenant, FindRoom, CollectMembers, FindTarget, CheckOwner,
     LookUpRoom, LookAgain, Still, Rest, umVars, TenantOfUser, Online
<1>1. foreign' = {} /\ job \in [Conns -> JobType] /\ job[c] \in JobType
  BY <1>0, JobAtStep DEF RoomsInv, RoomsTypeOK
<1>2. /\ pc[c] \in Steps /\ job[c].user \in Accounts
      /\ job[c].room \in Rooms \cup {None} /\ job[c].old \in Rooms \cup {None}
  BY JobAtStep DEF TakeList, ChooseTenant, FindRoom, CollectMembers, FindTarget, CheckOwner,
     LookUpRoom, LookAgain, Steps
<1>3. ASSUME \A r \in Rooms :
               \/ /\ job'[c].user = job[c].user
                  /\ Hides(c, r)' <=> Hides(c, r)
                  /\ Keeps(c, r)' <=> Keeps(c, r)
               \/ ~Hides(c, r) /\ ~Hides(c, r)' /\ ~Keeps(c, r) /\ ~Keeps(c, r)',
             \A v \in Accounts : Spared(c, v) => Spared(c, v)'
      PROVE  Shown(c)'
  BY <1>0, <1>3, SameShown
<1>4. CASE TakeList(c)
  <2>1. /\ pc[c] = "list" /\ pc'[c] = "send"
        /\ job'[c].kind = job[c].kind /\ job'[c].user = job[c].user /\ job'[c].room = job[c].room
        /\ job'[c].tenant = job[c].tenant /\ job'[c].old = job[c].old
        /\ job'[c].list = RoomList(job[c].tenant)
    BY <1>1, <1>4, GotoLocals DEF TakeList, JobType
  <2>2. Shown(c)'
    BY <1>0, <1>3, <2>1 DEF Hides, Keeps, Spared, At
  <2>3. KnowsUser(c)'
    BY <1>0, <1>2, <2>1 DEF KnowsUser, At, Online, Owns, Steps
  <2>4. RoomList(job[c].tenant)' = RoomList(job[c].tenant)'
    OBVIOUS
  <2>5. \A tn : RoomList(tn)' = RoomList(tn)
    BY <1>0 DEF RoomList, Members, Online
  <2>6. KnowsTenant(c)'
    BY <2>1, <2>5 DEF KnowsTenant, At
  <2> QED
    BY <1>1, <2>2, <2>3, <2>6 DEF Kept
<1>5. CASE ChooseTenant(c) \/ FindRoom(c) \/ FindTarget(c) \/ CheckOwner(c) \/ LookUpRoom(c)
  <2>1. /\ pc[c] \in {"place", "find", "target", "closing", "where"}
        /\ pc'[c] \in {"create", "collect", "idle", "unroom", "announce", "where", "done",
                       "farewell"}
        /\ pc'[c] # "idle" => job'[c].kind = job[c].kind /\ job'[c].user = job[c].user
    BY <1>5, GotoLocals, KeepLocals, EndLocals, FieldLocals
       DEF ChooseTenant, FindRoom, FindTarget, CheckOwner, LookUpRoom
  <2>2. Shown(c)'
    BY <1>0, <1>3, <2>1 DEF Hides, Keeps, Spared, At
  <2>3. KnowsUser(c)'
    <3>1. CASE ChooseTenant(c) \/ FindRoom(c) \/ CheckOwner(c)
      <4>1. pc'[c] \in {"create", "collect", "idle", "where", "done"}
        BY <3>1, GotoLocals, KeepLocals, EndLocals DEF ChooseTenant, FindRoom, CheckOwner
      <4>2. pc'[c] = "collect" \/ pc'[c] = "create" \/ pc'[c] = "where" =>
              job'[c].kind \in {"create", "delete", "close"}
        BY <2>1, <3>1 DEF ChooseTenant, FindRoom, CheckOwner, StepsOfKind
      <4> QED
        BY <4>1, <4>2 DEF KnowsUser, At, Steps
    <3>2. CASE FindTarget(c)
      <4>1. \/ pc'[c] = "idle"
            \/ pc'[c] = "unroom" /\ job'[c].kind = "kick"
            \/ /\ pc'[c] = "announce" /\ job'[c].kind = "move"
               /\ Online(job[c].user) /\ users[job[c].user].tenant = job[c].tenant
               /\ job'[c].user = job[c].user /\ job'[c].tenant = job[c].tenant
               /\ job'[c].old = users[job[c].user].room_id
        BY <1>1, <3>2, GotoLocals, EndLocals DEF FindTarget, StepsOfKind, JobType
      <4>2. CASE pc'[c] \in {"idle", "unroom"}
        BY <4>1, <4>2 DEF KnowsUser, At, Steps
      <4>3. CASE pc'[c] = "announce"
        <5>1. job'[c].user = job[c].user /\ RoomOf(job[c].user)' = job'[c].old
          BY <1>0, <1>2, <4>1, <4>3 DEF RoomOf
        <5>2. Online(job[c].user)' /\ users'[job[c].user].tenant = job'[c].tenant
          BY <1>0, <4>1, <4>3 DEF Online
        <5> QED
          BY <4>1, <4>3, <5>1, <5>2 DEF KnowsUser, At, Steps
      <4> QED
        BY <4>1, <4>2, <4>3
    <3>3. CASE LookUpRoom(c)
      <4>1. /\ pc'[c] = "farewell" /\ job'[c].kind = "close" /\ job'[c].user = job[c].user
            /\ job'[c].old = RoomOf(job[c].user)
        BY <1>1, <3>3, GotoLocals DEF LookUpRoom, StepsOfKind, JobType
      <4> QED
        BY <1>0, <1>2, <4>1 DEF KnowsUser, At, Steps
    <3> QED
      BY <1>5, <3>1, <3>2, <3>3
  <2>4. KnowsTenant(c)'
    <3>1. CASE FindRoom(c)
      <4>1. \/ pc'[c] = "idle"
            \/ pc'[c] = "collect" /\ job'[c] = job[c] /\ job[c].room \in rooms
               /\ TenantOf[job[c].room] = job[c].tenant
        BY <3>1, KeepLocals, EndLocals DEF FindRoom
      <4>2. rooms \subseteq Rooms
        BY DEF RoomsInv, RoomsTypeOK
      <4> QED
        BY <4>1, <4>2 DEF KnowsTenant, At
    <3>2. CASE ~FindRoom(c)
      <4>1. pc'[c] \notin {"collect", "empty", "send"}
        BY <1>5, <3>2, GotoLocals, KeepLocals, EndLocals
           DEF ChooseTenant, FindTarget, CheckOwner, LookUpRoom
      <4> QED
        BY <4>1 DEF KnowsTenant, At
    <3> QED
      BY <3>1, <3>2
  <2> QED
    BY <1>1, <2>2, <2>3, <2>4 DEF Kept
<1>6. CASE CollectMembers(c)
  <2>1. /\ pc[c] = "collect" /\ pc'[c] = "empty" /\ job[c].kind = "delete"
        /\ job'[c].kind = "delete" /\ job'[c].user = job[c].user /\ job'[c].room = job[c].room
        /\ job'[c].tenant = job[c].tenant /\ job'[c].pending = Members(job[c].room)
    BY <1>1, <1>6, GotoLocals DEF CollectMembers, StepsOfKind, JobType
  <2>2. Shown(c)'
    <3>1. \A r : ~Hides(c, r) /\ ~Hides(c, r)' /\ ~Keeps(c, r) /\ ~Keeps(c, r)'
      BY <2>1 DEF Hides, Keeps, At
    <3>2. \A v : ~Spared(c, v)
      BY <2>1 DEF Spared, At
    <3> QED
      BY <1>3, <3>1, <3>2
  <2>3. KnowsUser(c)'
    BY <2>1 DEF KnowsUser, At, Steps
  <2>4. job[c].room \in Rooms /\ TenantOf[job[c].room] = job[c].tenant
    BY <2>1 DEF KnowsTenant, At
  <2>5. \A v \in Members(job[c].room) : Online(v) /\ users[v].tenant = job[c].tenant
    BY <2>4, RoomsAssumption DEF Members, RoomOfOwnTenant
  <2> QED
    BY <1>0, <1>1, <2>1, <2>2, <2>3, <2>4, <2>5 DEF Kept, KnowsTenant, At, Online
<1>7. CASE LookAgain(c)
  <2>1. /\ pc[c] = "look" /\ job[c].kind \in {"join", "move"}
        /\ pc'[c] = "tell_new" /\ job'[c] = job[c]
    BY <1>7, KeepLocals DEF LookAgain, StepsOfKind, KnowsUser, At, Steps
  <2>2. Shown(c)'
    <3>1. \A r : (Hides(c, r)' <=> Hides(c, r)) /\ ~Keeps(c, r) /\ ~Keeps(c, r)'
      BY <2>1 DEF Hides, Keeps, At
    <3>2. \A v \in Accounts : Spared(c, v) => Spared(c, v)'
      BY <2>1 DEF Spared, At
    <3> QED
      BY <1>0, <2>1, <3>1, <3>2, SameShown
  <2>3. KnowsUser(c)'
    BY <1>0, <1>2, <2>1 DEF KnowsUser, At, Online, Owns, Steps
  <2> QED
    BY <1>1, <2>1, <2>2, <2>3 DEF Kept, KnowsTenant, At
<1> QED
  BY <1>4, <1>5, <1>6, <1>7

(* The steps that decide whether a room may be entered, and those that change
   the table of rooms. *)
LEMMA RoomDecided ==
  ASSUME NEW c \in Conns, Working(c),
         CheckRoom(c) \/ CountRoom(c) \/ InsertRoom(c) \/ DropRoom(c)
  PROVE  Kept(c)
<1> USE DEF Working
<1>0. /\ UNCHANGED <<users, user_id, foreign, placed, listed>> /\ blurred \subseteq blurred'
      /\ \A u \in Accounts : RoomOf(u)' = RoomOf(u) /\ TenantOfUser(u)' = TenantOfUser(u)
  BY SameSessions DEF CheckRoom, CountRoom, InsertRoom, DropRoom, Fail, Still, Rest, umVars,
     TenantOfUser, Online, roomHistory
<1>1. foreign' = {} /\ job \in [Conns -> JobType] /\ job[c] \in JobType
  BY <1>0, JobAtStep DEF RoomsInv, RoomsTypeOK
<1>2. /\ pc[c] \in Steps /\ job[c].user \in Accounts /\ job[c].room \in Rooms \cup {None}
      /\ job[c].old \in Rooms \cup {None}
  BY JobAtStep DEF CheckRoom, CountRoom, InsertRoom, DropRoom, Steps
<1>3. CASE CheckRoom(c) \/ CountRoom(c)
  <2>1. UNCHANGED rooms /\ pc[c] \in {"check", "count"} /\ job[c].kind \in {"join", "move"}
    BY <1>3 DEF CheckRoom, CountRoom, Still, Rest, StepsOfKind
  <2>2. CASE pc'[c] \in {"count", "enter"} /\ job'[c] = job[c]
    <3>1. \A r : (Hides(c, r)' <=> Hides(c, r)) /\ ~Keeps(c, r) /\ ~Keeps(c, r)'
      BY <2>1, <2>2 DEF Hides, Keeps, At
    <3>2. \A v \in Accounts : Spared(c, v) => Spared(c, v)'
      BY <2>1, <2>2 DEF Spared, At
    <3>3. Shown(c)'
      BY <1>0, <2>1, <2>2, <3>1, <3>2, SameShown
    <3>4. KnowsUser(c)' /\ KnowsTenant(c)'
      BY <1>0, <1>2, <2>1, <2>2 DEF KnowsUser, KnowsTenant, At, Online, Steps
    <3> QED
      BY <1>1, <3>3, <3>4 DEF Kept
  <2>3. CASE Fail(c)
    <3>1. pc'[c] = "idle" /\ (job[c].kind = "move" => job[c].old \in blurred' \cup {None})
      BY <2>3, EndLocals DEF Fail
    <3>2. \A r \in Rooms \ blurred' :
            ~Hides(c, r) /\ ~Hides(c, r)' /\ ~Keeps(c, r) /\ ~Keeps(c, r)'
      BY <2>1, <3>1, RoomsAssumption DEF Hides, Keeps, At
    <3>3. \A v \in Accounts : Spared(c, v) => Spared(c, v)'
      BY <2>1, <3>1 DEF Spared, At
    <3>4. Shown(c)'
      BY <1>0, <2>1, <3>2, <3>3, SameShown
    <3>5. KnowsUser(c)' /\ KnowsTenant(c)'
      BY <3>1 DEF KnowsUser, KnowsTenant, At, Steps
    <3> QED
      BY <1>1, <3>4, <3>5 DEF Kept
  <2> QED
    BY <1>3, <2>2, <2>3, KeepLocals DEF CheckRoom, CountRoom
<1>4. CASE InsertRoom(c)
  <2>1. /\ pc[c] = "create" /\ pc'[c] \in {"list", "idle"} /\ job[c].kind = "create"
        /\ pc'[c] = "list" => job'[c].kind = "create"
    BY <1>4, KeepLocals, EndLocals DEF InsertRoom, StepsOfKind
  <2>2. \A v \in Accounts : RoomOf(v) \in rooms' => RoomOf(v) \in rooms
    BY <1>4, RoomsAssumption DEF InsertRoom, RoomsKnown
  <2>3. \A r : ~Hides(c, r) /\ ~Hides(c, r)' /\ ~Keeps(c, r) /\ ~Keeps(c, r)'
    BY <2>1 DEF Hides, Keeps, At
  <2>4. \A v \in Accounts : Spared(c, v) => Spared(c, v)'
    BY <2>1 DEF Spared, At
  <2>5. Shown(c)'
    BY <1>0, <2>2, <2>3, <2>4, SameShown
  <2>6. KnowsUser(c)' /\ KnowsTenant(c)'
    BY <2>1 DEF KnowsUser, KnowsTenant, At, Steps
  <2> QED
    BY <1>1, <2>5, <2>6 DEF Kept
<1>5. CASE DropRoom(c)
  <2>1. /\ pc[c] = "empty" /\ pc'[c] = "list" /\ job'[c] = job[c] /\ job[c].kind = "delete"
    BY <1>5, KeepLocals DEF DropRoom, StepsOfKind
  <2>2. rooms' \subseteq rooms
    BY <1>5 DEF DropRoom
  <2>3. \A r : ~Hides(c, r) /\ ~Hides(c, r)' /\ ~Keeps(c, r) /\ ~Keeps(c, r)'
    BY <2>1 DEF Hides, Keeps, At
  <2>4. \A v \in Accounts : Spared(c, v) => Spared(c, v)'
    BY <1>0, <2>1 DEF Spared, At
  <2>5. Shown(c)'
    BY <1>0, <2>2, <2>3, <2>4, SameShown
  <2>6. KnowsUser(c)' /\ KnowsTenant(c)'
    BY <2>1 DEF KnowsUser, KnowsTenant, At, Steps
  <2> QED
    BY <1>1, <2>5, <2>6 DEF Kept
<1> QED
  BY <1>3, <1>4, <1>5

(* room_user_left and room_user_joined reach the members of a room but u. *)
LEMMA Receiving ==
  ASSUME RoomsInv, SenderKnown, NEW R, NEW u, NEW v \in Accounts, RoomOf(v) \in Rooms
  PROVE  /\ Online(v) /\ users[v].tx \in Conns
         /\ users[v].tx \in Receivers(R, u) <=> RoomOf(v) = R /\ v # u
<1>1. Online(v) /\ RoomOf(v) = users[v].room_id
  BY RoomsAssumption DEF RoomOf
<1>2. users[v].tx \in Conns
  BY <1>1, OnlineSession DEF Session, RoomsInv, RoomsTypeOK
<1>3. ASSUME NEW w \in Accounts, Online(w), users[w].tx = users[v].tx
      PROVE  w = v
  BY <1>1, <1>3 DEF SenderKnown
<1>4. users[v].tx \in Receivers(R, u) => v \in Members(R) \ {u}
  BY <1>3 DEF Receivers, Members
<1>5. v \in Members(R) \ {u} => users[v].tx \in Receivers(R, u)
  BY DEF Receivers
<1> QED
  BY <1>1, <1>2, <1>4, <1>5 DEF Members

LEMMA LeftView ==
  ASSUME RoomsInv, SenderKnown, NEW R, NEW u, listed' = AfterLeft(R, u, u),
         NEW v \in Accounts, RoomOf(v) \in Rooms, RoomOf(v) \in DOMAIN listed[users[v].tx]
  PROVE  /\ RoomOf(v) \in DOMAIN listed'[users[v].tx]
         /\ listed'[users[v].tx][RoomOf(v)] =
              IF RoomOf(v) = R /\ v # u THEN listed[users[v].tx][RoomOf(v)] \ {u}
                                        ELSE listed[users[v].tx][RoomOf(v)]
<1>1. PICK d \in Conns : d = users[v].tx
  BY Receiving
<1>2. d \in Receivers(R, u) <=> RoomOf(v) = R /\ v # u
  BY <1>1, Receiving
<1>3. listed[d] \in Lists
  BY DEF RoomsInv, RoomsTypeOK
<1>4. PICK D \in SUBSET Rooms : listed[d] \in [D -> SUBSET Accounts]
  BY <1>3 DEF Lists
<1>5. listed'[d] = IF d \in Receivers(R, u) /\ R \in DOMAIN listed[d]
                   THEN [listed[d] EXCEPT ![R] = @ \ {u}] ELSE listed[d]
  BY DEF AfterLeft
<1> QED
  BY <1>1, <1>2, <1>4, <1>5

LEMMA JoinedView ==
  ASSUME RoomsInv, SenderKnown, NEW R, NEW u, listed' = AfterJoined(R, u, u),
         NEW v \in Accounts, RoomOf(v) \in Rooms, RoomOf(v) \in DOMAIN listed[users[v].tx]
  PROVE  /\ RoomOf(v) \in DOMAIN listed'[users[v].tx]
         /\ listed'[users[v].tx][RoomOf(v)] =
              IF RoomOf(v) = R /\ v # u THEN listed[users[v].tx][RoomOf(v)] \cup {u}
                                        ELSE listed[users[v].tx][RoomOf(v)]
<1>1. PICK d \in Conns : d = users[v].tx
  BY Receiving
<1>2. d \in Receivers(R, u) <=> RoomOf(v) = R /\ v # u
  BY <1>1, Receiving
<1>3. listed[d] \in Lists
  BY DEF RoomsInv, RoomsTypeOK
<1>4. PICK D \in SUBSET Rooms : listed[d] \in [D -> SUBSET Accounts]
  BY <1>3 DEF Lists
<1>5. listed'[d] = IF d \in Receivers(R, u) /\ R \in DOMAIN listed[d]
                   THEN [listed[d] EXCEPT ![R] = @ \cup {u}] ELSE listed[d]
  BY DEF AfterJoined
<1> QED
  BY <1>1, <1>2, <1>4, <1>5

(* A step that changes lists only, from room to room. *)
LEMMA ToldShown ==
  ASSUME RoomsInv, NEW c \in Conns, Shown(c), UNCHANGED <<users, rooms, placed, blurred>>,
         \A v \in Accounts : Spared(c, v) => Spared(c, v)',
         \A v \in Accounts : Counts(c, v) /\ Shows(c, v) /\ RoomOf(v) \in Rooms \ blurred =>
           /\ RoomOf(v) \in DOMAIN listed'[users[v].tx]
           /\ listed'[users[v].tx][RoomOf(v)] = Expected(c, v, RoomOf(v))'
  PROVE  Shown(c)'
<1>1. \A v \in Accounts : RoomOf(v)' = RoomOf(v) /\ users'[v].tx = users[v].tx
  BY SameSessions
<1> SUFFICES ASSUME NEW v \in Accounts, Counts(c, v)' PROVE Shows(c, v)'
  BY DEF Shown
<1>2. v \in Accounts \ placed' /\ RoomOf(v)' \in rooms' \ blurred' /\ ~Spared(c, v)'
  BY DEF Counts
<1>3. Counts(c, v)
  BY <1>1, <1>2 DEF Counts
<1>4. RoomOf(v) \in Rooms \ blurred
  BY <1>1, <1>2 DEF RoomsInv, RoomsTypeOK
<1>5. /\ RoomOf(v) \in DOMAIN listed'[users[v].tx]
      /\ listed'[users[v].tx][RoomOf(v)] = Expected(c, v, RoomOf(v))'
  BY <1>3, <1>4 DEF Shown
<1> QED
  BY <1>1, <1>5 DEF Shows

(* After room_user_left about the user of c, who is announced to leave or gone. *)
LEMMA LeftShown ==
  ASSUME RoomsInv, SenderKnown, NEW c \in Conns, Shown(c), NEW u \in Accounts, u = job[c].user,
         NEW R, listed' = AfterLeft(R, u, u), UNCHANGED <<users, rooms, placed, blurred>>,
         job'[c].user = u,
         \A v \in Accounts : Spared(c, v) => Spared(c, v)',
         \A r \in Rooms \ {R} : (Hides(c, r)' <=> Hides(c, r)) /\ (Keeps(c, r)' <=> Keeps(c, r)),
         R \in Rooms \ blurred => ~Keeps(c, R)' /\ (Hides(c, R)' \/ u \notin Members(R))
  PROVE  Shown(c)'
<1>0. \A r : Members(r)' = Members(r)
  BY SameSessions
<1> SUFFICES ASSUME NEW v \in Accounts, Counts(c, v), Shows(c, v), RoomOf(v) \in Rooms \ blurred
             PROVE  /\ RoomOf(v) \in DOMAIN listed'[users[v].tx]
                    /\ listed'[users[v].tx][RoomOf(v)] = Expected(c, v, RoomOf(v))'
  BY ToldShown
<1>1. PICK r \in Rooms \ blurred : r = RoomOf(v)
  OBVIOUS
<1>2. r \in DOMAIN listed[users[v].tx] /\ listed[users[v].tx][r] = Expected(c, v, r)
  BY <1>1 DEF Shows
<1>3. /\ r \in DOMAIN listed'[users[v].tx]
      /\ listed'[users[v].tx][r] = IF r = R /\ v # u THEN Expected(c, v, r) \ {u}
                                                    ELSE Expected(c, v, r)
  BY <1>1, <1>2, LeftView
<1>4. v \in Members(r)
  BY <1>1, RoomsAssumption DEF Members, RoomOf
<1>5. RoomOf(v)' = r
  BY <1>1, SameSessions
<1>6. Expected(c, v, r)' = listed'[users[v].tx][r]
  <2>1. Expected(c, v, r) =
          {x \in Accounts : \/ x \in Members(r) /\ (x = u /\ x # v => ~Hides(c, r))
                            \/ x = u /\ Keeps(c, r)}
    BY DEF Expected
  <2>2. Expected(c, v, r)' =
          {x \in Accounts : \/ x \in Members(r) /\ (x = u /\ x # v => ~Hides(c, r)')
                            \/ x = u /\ Keeps(c, r)'}
    BY <1>0 DEF Expected
  <2>3. CASE r # R
    BY <1>3, <2>1, <2>2, <2>3
  <2>4. CASE r = R
    <3>1. ~Keeps(c, r)' /\ (Hides(c, r)' \/ u \notin Members(r))
      BY <2>4
    <3>2. CASE v # u
      BY <1>3, <2>1, <2>2, <2>4, <3>1, <3>2
    <3>3. CASE v = u
      BY <1>3, <1>4, <2>1, <2>2, <2>4, <3>1, <3>3
    <3> QED
      BY <3>2, <3>3
  <2> QED
    BY <2>3, <2>4
<1>7. Expected(c, v, RoomOf(v))' = Expected(c, v, r)'
  BY <1>5 DEF Expected, Hides, Keeps, Members, At
<1> QED
  BY <1>1, <1>3, <1>6, <1>7

(* After room_user_joined about the user of c, who is in the room. *)
LEMMA JoinedShown ==
  ASSUME RoomsInv, SenderKnown, NEW c \in Conns, Shown(c), NEW u \in Accounts, u = job[c].user,
         NEW R, listed' = AfterJoined(R, u, u), UNCHANGED <<users, rooms, placed, blurred>>,
         u \in Members(R),
         \A v \in Accounts : Spared(c, v) => Spared(c, v)',
         \A r \in Rooms \ {R} : ~Hides(c, r) /\ ~Keeps(c, r),
         \A r : ~Hides(c, r)' /\ ~Keeps(c, r)'
  PROVE  Shown(c)'
<1>0. \A r : Members(r)' = Members(r)
  BY SameSessions
<1> SUFFICES ASSUME NEW v \in Accounts, Counts(c, v), Shows(c, v), RoomOf(v) \in Rooms \ blurred
             PROVE  /\ RoomOf(v) \in DOMAIN listed'[users[v].tx]
                    /\ listed'[users[v].tx][RoomOf(v)] = Expected(c, v, RoomOf(v))'
  BY ToldShown
<1>1. PICK r \in Rooms \ blurred : r = RoomOf(v)
  OBVIOUS
<1>2. r \in DOMAIN listed[users[v].tx] /\ listed[users[v].tx][r] = Expected(c, v, r)
  BY <1>1 DEF Shows
<1>3. /\ r \in DOMAIN listed'[users[v].tx]
      /\ listed'[users[v].tx][r] = IF r = R /\ v # u THEN Expected(c, v, r) \cup {u}
                                                    ELSE Expected(c, v, r)
  BY <1>1, <1>2, JoinedView
<1>4. v \in Members(r)
  BY <1>1, RoomsAssumption DEF Members, RoomOf
<1>5. RoomOf(v)' = r
  BY <1>1, SameSessions
<1>6. Expected(c, v, r)' = listed'[users[v].tx][r]
  <2>1. Expected(c, v, r) =
          {x \in Accounts : \/ x \in Members(r) /\ (x = u /\ x # v => ~Hides(c, r))
                            \/ x = u /\ Keeps(c, r)}
    BY DEF Expected
  <2>2. Expected(c, v, r)' = {x \in Accounts : x \in Members(r)}
    BY <1>0 DEF Expected
  <2>3. CASE r # R
    BY <1>3, <2>1, <2>2, <2>3
  <2>4. CASE r = R
    <3>2. CASE v # u
      BY <1>3, <2>1, <2>2, <2>4, <3>2
    <3>3. CASE v = u
      BY <1>3, <1>4, <2>1, <2>2, <2>4, <3>3
    <3> QED
      BY <3>2, <3>3
  <2> QED
    BY <2>3, <2>4
<1>7. Expected(c, v, RoomOf(v))' = Expected(c, v, r)'
  BY <1>5 DEF Expected, Hides, Keeps, Members, At
<1> QED
  BY <1>1, <1>3, <1>6, <1>7

(* The steps that tell the members of a room. *)
LEMMA TellingKept ==
  ASSUME NEW c \in Conns, Working(c),
         SayGoodbye(c) \/ AnnounceMove(c) \/ Farewell(c) \/ TellOld(c) \/ TellNew(c)
           \/ AnnounceKick(c)
  PROVE  Kept(c)
<1> USE DEF Working
<1>0. /\ UNCHANGED <<users, rooms, user_id, foreign, placed, blurred>>
      /\ \A u \in Accounts : RoomOf(u)' = RoomOf(u) /\ TenantOfUser(u)' = TenantOfUser(u)
  BY SameSessions DEF SayGoodbye, AnnounceMove, Farewell, TellOld, TellNew, AnnounceKick, Still,
     Rest, umVars, TenantOfUser, Online
<1>1. foreign' = {} /\ job \in [Conns -> JobType] /\ job[c] \in JobType
  BY <1>0, JobAtStep DEF RoomsInv, RoomsTypeOK
<1>2. /\ pc[c] \in Steps /\ job[c].user \in Accounts /\ job[c].room \in Rooms \cup {None}
      /\ job[c].old \in Rooms \cup {None}
  BY JobAtStep DEF SayGoodbye, AnnounceMove, Farewell, TellOld, TellNew, AnnounceKick, Steps
<1>3. PICK u \in Accounts : u = job[c].user
  BY <1>2
<1>4. CASE SayGoodbye(c)
  <2>1. /\ pc[c] = "goodbye" /\ pc'[c] = "leave" /\ job'[c] = job[c] /\ job[c].kind = "leave"
    BY <1>4, KeepLocals DEF SayGoodbye, StepsOfKind
  <2>2. \A r : Hides(c, r)' <=> r = job[c].room
    BY <2>1 DEF Hides, At
  <2>3. \A r : ~Hides(c, r) /\ ~Keeps(c, r) /\ ~Keeps(c, r)'
    BY <2>1 DEF Hides, Keeps, At
  <2>4. \A v \in Accounts : Spared(c, v) => Spared(c, v)'
    BY <2>1 DEF Spared, At
  <2>5. Shown(c)'
    BY <1>0, <1>3, <1>4, <2>1, <2>2, <2>3, <2>4, LeftShown DEF SayGoodbye
  <2>6. KnowsUser(c)' /\ KnowsTenant(c)'
    BY <1>0, <1>2, <2>1 DEF KnowsUser, KnowsTenant, At, Steps
  <2> QED
    BY <1>1, <2>5, <2>6 DEF Kept
<1>5. CASE AnnounceMove(c)
  <2>1. /\ pc[c] = "announce" /\ pc'[c] = "check" /\ job'[c] = job[c] /\ job[c].kind = "move"
    BY <1>5, KeepLocals DEF AnnounceMove, StepsOfKind
  <2>2. \A r : Hides(c, r)' <=> r = job[c].old
    BY <2>1 DEF Hides, At
  <2>3. \A r : ~Hides(c, r) /\ ~Keeps(c, r) /\ ~Keeps(c, r)'
    BY <2>1 DEF Hides, Keeps, At
  <2>4. \A v \in Accounts : Spared(c, v) => Spared(c, v)'
    BY <2>1 DEF Spared, At
  <2>5. Shown(c)'
    <3>1. CASE job[c].old = None
      <4>1. \A r \in Rooms : ~Hides(c, r)'
        BY <2>2, <3>1, RoomsAssumption
      <4>2. UNCHANGED listed
        BY <1>5, <3>1 DEF AnnounceMove
      <4> QED
        BY <1>0, <2>1, <2>3, <2>4, <4>1, <4>2, SameShown
    <3>2. CASE job[c].old # None
      <4>1. listed' = AfterLeft(job[c].old, u, u)
        BY <1>3, <1>5, <3>2 DEF AnnounceMove
      <4> QED
        BY <1>0, <1>3, <2>1, <2>2, <2>3, <2>4, <4>1, LeftShown
    <3> QED
      BY <3>1, <3>2
  <2>6. KnowsUser(c)' /\ KnowsTenant(c)'
    BY <1>0, <1>2, <2>1 DEF KnowsUser, KnowsTenant, At, Steps, Online
  <2> QED
    BY <1>1, <2>5, <2>6 DEF Kept
<1>6. CASE Farewell(c)
  <2>1. /\ pc[c] = "farewell" /\ pc'[c] = "remove" /\ job'[c] = job[c] /\ job[c].kind = "close"
    BY <1>6, KeepLocals DEF Farewell, StepsOfKind
  <2>2. \A r : Hides(c, r)' <=> r = job[c].old
    BY <2>1 DEF Hides, At
  <2>3. \A r : ~Hides(c, r) /\ ~Keeps(c, r) /\ ~Keeps(c, r)'
    BY <2>1 DEF Hides, Keeps, At
  <2>4. \A v \in Accounts : Spared(c, v) => Spared(c, v)'
    BY <2>1 DEF Spared, At
  <2>5. Shown(c)'
    <3>1. CASE job[c].old = None
      <4>1. \A r \in Rooms : ~Hides(c, r)'
        BY <2>2, <3>1, RoomsAssumption
      <4>2. UNCHANGED listed
        BY <1>6, <3>1 DEF Farewell
      <4> QED
        BY <1>0, <2>1, <2>3, <2>4, <4>1, <4>2, SameShown
    <3>2. CASE job[c].old # None
      <4>1. listed' = AfterLeft(job[c].old, u, u)
        BY <1>3, <1>6, <3>2 DEF Farewell
      <4> QED
        BY <1>0, <1>3, <2>1, <2>2, <2>3, <2>4, <4>1, LeftShown
    <3> QED
      BY <3>1, <3>2
  <2>6. KnowsUser(c)' /\ KnowsTenant(c)'
    BY <1>0, <1>2, <2>1 DEF KnowsUser, KnowsTenant, At, Steps
  <2> QED
    BY <1>1, <2>5, <2>6 DEF Kept
<1>7. CASE TellOld(c)
  <2>1. /\ pc[c] = "tell_old" /\ job'[c] = job[c] /\ job[c].kind = "join"
        /\ pc'[c] = IF job[c].old = job[c].room THEN "list" ELSE "look"
    BY <1>7, KeepLocals DEF TellOld, StepsOfKind
  <2>2. \A r : Hides(c, r) <=> r = job[c].room /\ r # job[c].old
    BY <2>1 DEF Hides, At
  <2>3. \A r : Hides(c, r)' <=> r = job[c].room /\ r # job[c].old
    BY <2>1 DEF Hides, At
  <2>4. \A r : Keeps(c, r) <=> r = job[c].old /\ r # job[c].room
    BY <2>1 DEF Keeps, At
  <2>5. \A r : ~Keeps(c, r)'
    BY <2>1 DEF Keeps, At
  <2>6. \A v \in Accounts : Spared(c, v) => Spared(c, v)'
    BY <2>1 DEF Spared, At
  <2>7. RoomOf(u) = job[c].room
    BY <1>3, <2>1 DEF KnowsUser, At
  <2>8. Shown(c)'
    <3>1. CASE job[c].old \in {None, job[c].room}
      <4>1. UNCHANGED listed
        BY <1>7, <3>1 DEF TellOld
      <4>2. \A r \in Rooms : ~Keeps(c, r)
        BY <2>4, <3>1, RoomsAssumption
      <4> QED
        BY <1>0, <2>1, <2>2, <2>3, <2>5, <2>6, <4>1, <4>2, SameShown
    <3>2. CASE job[c].old \notin {None, job[c].room}
      <4>1. listed' = AfterLeft(job[c].old, u, u)
        BY <1>3, <1>7, <3>2 DEF TellOld
      <4>2. u \notin Members(job[c].old)
        BY <2>7, <3>2 DEF Members, RoomOf
      <4> QED
        BY <1>0, <1>3, <2>1, <2>2, <2>3, <2>4, <2>5, <2>6, <4>1, <4>2, LeftShown
    <3> QED
      BY <3>1, <3>2
  <2>9. KnowsUser(c)' /\ KnowsTenant(c)'
    BY <1>0, <1>2, <2>1 DEF KnowsUser, KnowsTenant, At, Steps, Online, Owns
  <2> QED
    BY <1>1, <2>8, <2>9 DEF Kept
<1>8. CASE TellNew(c)
  <2>1. /\ pc[c] = "tell_new" /\ job[c].kind \in {"join", "move"}
        /\ \/ pc'[c] = "list" /\ job'[c] = job[c] /\ job[c].kind = "join"
           \/ pc'[c] = "idle" /\ job[c].kind = "move"
    BY <1>8, KeepLocals, EndLocals DEF TellNew, StepsOfKind
  <2>2. \A r : ~Hides(c, r)' /\ ~Keeps(c, r)' /\ ~Keeps(c, r)
    BY <2>1 DEF Hides, Keeps, At
  <2>3. \A r : r # job[c].room => ~Hides(c, r)
    BY <2>1 DEF Hides, At
  <2>4. \A v \in Accounts : Spared(c, v) => Spared(c, v)'
    BY <2>1 DEF Spared, At
  <2>5. listed' = AfterJoined(job[c].room, u, u)
    BY <1>3, <1>8 DEF TellNew
  <2>6. u \in Members(job[c].room)
    BY <1>3, <2>1 DEF KnowsUser, At, Members, RoomOf
  <2>7. Shown(c)'
    BY <1>0, <1>3, <2>2, <2>3, <2>4, <2>5, <2>6, JoinedShown
  <2>8. KnowsUser(c)' /\ KnowsTenant(c)'
    BY <1>0, <1>2, <2>1 DEF KnowsUser, KnowsTenant, At, Steps, Online, Owns
  <2> QED
    BY <1>1, <2>7, <2>8 DEF Kept
<1>9. CASE AnnounceKick(c)
  <2>1. pc[c] = "tell_kick" /\ pc'[c] = "idle" /\ job[c].room = None
    BY <1>9, EndLocals DEF AnnounceKick, StepsOfKind, KnowsUser, At
  <2>2. UNCHANGED listed
    BY <1>9, <2>1 DEF AnnounceKick
  <2>3. \A r : ~Hides(c, r) /\ ~Keeps(c, r) /\ ~Hides(c, r)' /\ ~Keeps(c, r)'
    BY <2>1 DEF Hides, Keeps, At
  <2>4. \A v \in Accounts : Spared(c, v) => Spared(c, v)'
    BY <2>1 DEF Spared, At
  <2>5. Shown(c)'
    BY <1>0, <2>2, <2>3, <2>4, SameShown
  <2>6. KnowsUser(c)' /\ KnowsTenant(c)'
    BY <2>1 DEF KnowsUser, KnowsTenant, At, Steps
  <2> QED
    BY <1>1, <2>5, <2>6 DEF Kept
<1> QED
  BY <1>4, <1>5, <1>6, <1>7, <1>8, <1>9

(* A session keeps its connection and its tenant when its room changes. *)
LEMMA SetRoomKeeps ==
  ASSUME TypeOK, NEW u \in Accounts, NEW r \in Rooms \cup {None}, SetRoom(u, r), NEW v \in Accounts
  PROVE  /\ Online(v)' <=> Online(v)
         /\ TenantOfUser(v)' = TenantOfUser(v)
         /\ Online(v) => users'[v].tx = users[v].tx /\ users'[v].tenant = users[v].tenant
<1>1. CASE ~Online(u)
  BY <1>1 DEF SetRoom, Online, TenantOfUser
<1>2. CASE Online(u)
  <2>1. users[u] \in Session
    BY <1>2, OnlineSession
  <2>2. users' = [users EXCEPT ![u] = [users[u] EXCEPT !.room_id = r]]
    BY <1>2 DEF SetRoom, TypeOK
  <2>3. v # u => users'[v] = users[v]
    BY <2>2 DEF TypeOK
  <2>4. v = u => users'[v] = [users[u] EXCEPT !.room_id = r]
    BY <2>2 DEF TypeOK
  <2>5. CASE v # u
    BY <2>3, <2>5 DEF Online, TenantOfUser
  <2>6. CASE v = u
    <3>1. users'[v] # None
      <4>1. [users[u] EXCEPT !.room_id = r] \in Session
        BY <2>1 DEF Session
      <4> QED
        BY <2>4, <2>6, <4>1, SessionNotNone
    <3> QED
      BY <1>2, <2>1, <2>4, <2>6, <3>1 DEF Online, TenantOfUser, Session
  <2> QED
    BY <2>5, <2>6
<1> QED
  BY <1>1, <1>2

(* The session of u, for which c is at work, changes; the others are shown u
   where they were before. *)
LEMMA MovedShown ==
  ASSUME RoomsInv, NEW c \in Conns, Shown(c), UNCHANGED <<listed, rooms>>,
         NEW u \in Accounts, u = job[c].user,
         \A v \in Accounts \ {u} : users'[v] = users[v],
         job'[c].user = u \/ \A r : ~Hides(c, r)' /\ ~Keeps(c, r)',
         blurred \subseteq blurred', placed \subseteq placed',
         \A v \in Accounts \ {u} : Spared(c, v) => Spared(c, v)',
         \A r \in Rooms \ blurred' :
           (RoomOf(u) = r /\ ~Hides(c, r)) \/ Keeps(c, r)
             <=> (RoomOf(u)' = r /\ ~Hides(c, r)') \/ Keeps(c, r)',
         ~Counts(c, u)'
  PROVE  Shown(c)'
<1> SUFFICES ASSUME NEW v \in Accounts, Counts(c, v)' PROVE Shows(c, v)'
  BY DEF Shown
<1>1. v # u
  OBVIOUS
<1>2. RoomOf(v)' = RoomOf(v) /\ users'[v] = users[v]
  BY <1>1 DEF RoomOf, Online
<1>3. v \in Accounts \ placed' /\ RoomOf(v)' \in rooms' \ blurred' /\ ~Spared(c, v)'
  BY DEF Counts
<1>4. PICK r \in Rooms \ blurred' : r = RoomOf(v)
  BY <1>2, <1>3 DEF RoomsInv, RoomsTypeOK
<1>5. Counts(c, v)
  BY <1>1, <1>2, <1>3 DEF Counts
<1>6. r \in DOMAIN listed[users[v].tx] /\ listed[users[v].tx][r] = Expected(c, v, r)
  BY <1>4, <1>5 DEF Shown, Shows
<1>7. \A x \in Accounts \ {u} : x \in Members(r) <=> x \in Members(r)'
  BY DEF Members, Online
<1>8. (u \in Members(r) <=> RoomOf(u) = r) /\ (u \in Members(r)' <=> RoomOf(u)' = r)
  BY RoomsAssumption DEF Members, RoomOf, Online
<1>9. Expected(c, v, r) =
        {x \in Accounts : \/ x # u /\ x \in Members(r)
                          \/ x = u /\ ((u \in Members(r) /\ ~Hides(c, r)) \/ Keeps(c, r))}
  BY <1>1 DEF Expected
<1>10. Expected(c, v, r)' =
        {x \in Accounts : \/ x # u /\ x \in Members(r)'
                          \/ x = u /\ ((u \in Members(r)' /\ ~Hides(c, r)') \/ Keeps(c, r)')}
  <2>1. CASE job'[c].user = u
    BY <1>1, <2>1 DEF Expected
  <2>2. CASE ~Hides(c, r)' /\ ~Keeps(c, r)'
    BY <1>1, <2>2 DEF Expected
  <2> QED
    BY <2>1, <2>2
<1>11. Expected(c, v, r)' = Expected(c, v, r)
  BY <1>7, <1>8, <1>9, <1>10
<1>12. Expected(c, v, RoomOf(v))' = Expected(c, v, r)'
  BY <1>2, <1>4 DEF Expected, Hides, Keeps, Members, At
<1> QED
  BY <1>2, <1>4, <1>6, <1>11, <1>12 DEF Shows

(* The steps that put the user of a handler into a room or out of one. *)
LEMMA MovingKept ==
  ASSUME NEW c \in Conns, Working(c), EnterRoom(c) \/ Leave(c) \/ KickFromRoom(c)
  PROVE  Kept(c)
<1> USE DEF Working
<1>0. /\ UNCHANGED <<rooms, user_id, listed>>
      /\ blurred \subseteq blurred' /\ placed \subseteq placed'
  BY DEF EnterRoom, Leave, KickFromRoom
<1>1. /\ TypeOK /\ job \in [Conns -> JobType] /\ job[c] \in JobType /\ rooms \subseteq Rooms
  BY JobAtStep DEF RoomsInv, RoomsTypeOK
<1>2. /\ pc[c] \in Steps /\ job[c].user \in Accounts /\ job[c].room \in Rooms \cup {None}
      /\ job[c].old \in Rooms \cup {None}
  BY JobAtStep DEF EnterRoom, Leave, KickFromRoom, Steps
<1>3. PICK u \in Accounts : u = job[c].user
  BY <1>2
<1>4. PICK R \in Rooms \cup {None} :
        /\ SetRoom(u, R)
        /\ R = IF EnterRoom(c) THEN job[c].room ELSE None
  BY <1>2, <1>3 DEF EnterRoom, Leave, KickFromRoom
<1>5. \A v \in Accounts \ {u} : users'[v] = users[v]
  BY <1>1, <1>4 DEF SetRoom, TypeOK
<1>6. RoomOf(u)' = IF Online(u) THEN R ELSE None
  BY <1>1, <1>4, SetRoomMoves
<1>7. /\ \A v \in Accounts : TenantOfUser(v)' = TenantOfUser(v) /\ (Online(v)' <=> Online(v))
      /\ Online(u) => users'[u].tx = users[u].tx /\ users'[u].tenant = users[u].tenant
  BY <1>1, <1>4, SetRoomKeeps
<1>8. CASE EnterRoom(c)
  <2>1. /\ pc[c] = "enter" /\ job'[c] = job[c] /\ job[c].kind \in {"join", "move"}
        /\ pc'[c] = IF job[c].kind = "join" THEN "tell_old" ELSE "look"
    BY <1>8, KeepLocals DEF EnterRoom, StepsOfKind
  <2>2. Online(u) /\ users[u].tenant = job[c].tenant /\ RoomOf(u) = job[c].old
    BY <1>3, <2>1 DEF KnowsUser, At
  <2>3. RoomOf(u)' = job[c].room
    BY <1>4, <1>6, <1>8, <2>2
  <2>4. foreign' = {}
    BY <1>3, <1>8, <2>2 DEF EnterRoom
  <2>5. job[c].kind = "move" => u \in placed'
    BY <1>3, <1>8 DEF EnterRoom
  <2>6. ~Counts(c, u)'
    <3>1. CASE job[c].kind = "move"
      BY <2>5, <3>1 DEF Counts
    <3>2. CASE job[c].kind = "join"
      BY <1>3, <2>1, <3>2 DEF Counts, Spared, At
    <3> QED
      BY <2>1, <3>1, <3>2
  <2>7. \A v \in Accounts \ {u} : Spared(c, v) => Spared(c, v)'
    BY <2>1 DEF Spared, At
  <2>8. ASSUME NEW r \in Rooms
        PROVE  (RoomOf(u) = r /\ ~Hides(c, r)) \/ Keeps(c, r)
                 <=> (RoomOf(u)' = r /\ ~Hides(c, r)') \/ Keeps(c, r)'
    <3>1. CASE job[c].kind = "move"
      <4>1. ~Keeps(c, r) /\ ~Keeps(c, r)'
        BY <2>1, <3>1 DEF Keeps, At
      <4>2. Hides(c, r) <=> r = job[c].old
        BY <2>1, <3>1 DEF Hides, At
      <4>3. Hides(c, r)' <=> r = job[c].room
        BY <2>1, <3>1 DEF Hides, At
      <4> QED
        BY <2>2, <2>3, <4>1, <4>2, <4>3
    <3>2. CASE job[c].kind = "join"
      <4>1. ~Keeps(c, r) /\ ~Hides(c, r)
        BY <2>1, <3>2 DEF Keeps, Hides, At
      <4>2. Hides(c, r)' <=> r = job[c].room /\ r # job[c].old
        BY <2>1, <3>2 DEF Hides, At
      <4>3. Keeps(c, r)' <=> r = job[c].old /\ r # job[c].room
        BY <2>1, <3>2 DEF Keeps, At
      <4> QED
        BY <2>2, <2>3, <4>1, <4>2, <4>3
    <3> QED
      BY <2>1, <3>1, <3>2
  <2>9. Shown(c)'
    BY <1>0, <1>3, <1>5, <2>1, <2>6, <2>7, <2>8, MovedShown
  <2>10. Owns(c, u)' \/ u \in placed'
    BY <1>3, <1>7, <1>8, <2>1, <2>2 DEF EnterRoom, Owns
  <2>11. KnowsUser(c)'
    <3>1. /\ job'[c].user = u /\ Online(u)' /\ RoomOf(u)' = job'[c].room
          /\ users'[u].tenant = job'[c].tenant
      BY <1>3, <1>7, <2>1, <2>2, <2>3
    <3>2. job[c].kind = "join" => u = user_id'[c]
      BY <1>0, <1>2, <1>3, <2>1 DEF KnowsUser, At
    <3> QED
      BY <2>1, <2>5, <2>10, <3>1, <3>2 DEF KnowsUser, At, Steps
  <2>12. KnowsTenant(c)'
    BY <2>1 DEF KnowsTenant, At
  <2> QED
    BY <2>4, <2>9, <2>11, <2>12 DEF Kept
<1>9. CASE Leave(c) \/ KickFromRoom(c)
  <2>1. ~EnterRoom(c)
    BY <1>9 DEF Leave, KickFromRoom, EnterRoom
  <2>2. RoomOf(u)' = None
    BY <1>4, <1>6, <2>1
  <2>3. foreign' = {}
    BY <1>9 DEF Leave, KickFromRoom
  <2>4. /\ \/ pc[c] = "leave" /\ job[c].kind = "leave"
           \/ pc[c] = "unroom" /\ job[c].kind = "kick" /\ job'[c] = job[c]
        /\ pc'[c] \in {"idle", "expel"} /\ (pc[c] = "leave" => pc'[c] = "idle")
    BY <1>9, KeepLocals, EndLocals DEF Leave, KickFromRoom, StepsOfKind
  <2>5. ~Counts(c, u)'
    BY <1>0, <1>1, <2>2, RoomsAssumption DEF Counts
  <2>6. \A v \in Accounts \ {u} : Spared(c, v) => Spared(c, v)'
    BY <2>4 DEF Spared, At
  <2>7. \A r : ~Hides(c, r)' /\ ~Keeps(c, r)' /\ ~Keeps(c, r)
    BY <2>4 DEF Hides, Keeps, At
  <2>8. ASSUME NEW r \in Rooms \ blurred', RoomOf(u) = r
        PROVE  Hides(c, r)
    <3>1. CASE Leave(c)
      <4>1. pc[c] = "leave" /\ job[c].kind = "leave"
        BY <2>4, <3>1 DEF Leave
      <4>2. RoomOf(u) = job[c].room \/ {job[c].room, RoomOf(u)} \ {None} \subseteq blurred
        BY <1>3, <4>1 DEF KnowsUser, At
      <4>3. r = job[c].room
        BY <1>0, <2>8, <4>2, RoomsAssumption
      <4> QED
        BY <4>1, <4>3 DEF Hides, At
    <3>2. CASE KickFromRoom(c)
      <4>1. RoomOf(u) \in blurred'
        BY <1>3, <2>8, <3>2, RoomsAssumption DEF KickFromRoom
      <4> QED
        BY <2>8, <4>1
    <3> QED
      BY <1>9, <3>1, <3>2
  <2>9. Shown(c)'
    BY <1>0, <1>3, <1>5, <2>2, <2>5, <2>6, <2>7, <2>8, RoomsAssumption, MovedShown
  <2>10. KnowsUser(c)'
    BY <1>3, <2>2, <2>4 DEF KnowsUser, At, Steps
  <2>11. KnowsTenant(c)'
    BY <2>4 DEF KnowsTenant, At
  <2> QED
    BY <2>3, <2>9, <2>10, <2>11 DEF Kept
<1> QED
  BY <1>8, <1>9

(* The steps that remove the session of a handler's user. *)
LEMMA RemovingKept ==
  ASSUME NEW c \in Conns, Working(c), Expel(c) \/ Remove(c)
  PROVE  Kept(c)
<1> USE DEF Working
<1>0. UNCHANGED <<rooms, user_id, listed, blurred, placed>> /\ foreign' = {}
  BY DEF Expel, Remove
<1>1. /\ TypeOK /\ job \in [Conns -> JobType] /\ job[c] \in JobType /\ rooms \subseteq Rooms
  BY JobAtStep DEF RoomsInv, RoomsTypeOK
<1>2. /\ pc[c] \in Steps /\ job[c].user \in Accounts /\ job[c].old \in Rooms \cup {None}
  BY JobAtStep DEF Expel, Remove, Steps
<1>3. PICK u \in Accounts : u = job[c].user
  BY <1>2
<1>4. users' = [users EXCEPT ![u] = None]
  BY <1>3 DEF Expel, Remove, RemoveUser
<1>5. (\A v \in Accounts \ {u} : users'[v] = users[v]) /\ RoomOf(u)' = None
  BY <1>1, <1>4 DEF TypeOK, RoomOf, Online
<1>6. \/ /\ Expel(c) /\ pc[c] = "expel" /\ job[c].kind = "kick" /\ pc'[c] = "tell_kick"
         /\ job'[c].kind = "kick" /\ job'[c].user = u /\ job'[c].room = RoomOf(u)
      \/ /\ Remove(c) /\ pc[c] = "remove" /\ job[c].kind = "close" /\ pc'[c] = "done"
  BY <1>1, <1>3, GotoLocals DEF Expel, Remove, StepsOfKind, JobType
<1>7. ~Counts(c, u)'
  BY <1>0, <1>1, <1>5, RoomsAssumption DEF Counts
<1>8. \A v \in Accounts \ {u} : Spared(c, v) => Spared(c, v)'
  BY <1>6 DEF Spared, At
<1>9. \A r : ~Hides(c, r)' /\ ~Keeps(c, r)' /\ ~Keeps(c, r)
  BY <1>6 DEF Hides, Keeps, At
<1>10. ASSUME NEW r \in Rooms, RoomOf(u) = r PROVE Hides(c, r)
  <2>1. pc[c] = "remove" /\ job[c].kind = "close"
    BY <1>3, <1>6, <1>10, RoomsAssumption DEF KnowsUser, At
  <2>2. RoomOf(u) = job[c].old
    BY <1>3, <2>1 DEF KnowsUser, At
  <2> QED
    BY <1>10, <2>1, <2>2 DEF Hides, At
<1>11. Shown(c)'
  BY <1>0, <1>3, <1>5, <1>7, <1>8, <1>9, <1>10, RoomsAssumption, MovedShown
<1>12. KnowsUser(c)' /\ KnowsTenant(c)'
  <2>1. pc'[c] = "tell_kick" => job'[c].room = None
    BY <1>3, <1>6 DEF KnowsUser, At
  <2> QED
    BY <1>6, <2>1 DEF KnowsUser, KnowsTenant, At, Steps
<1> QED
  BY <1>0, <1>11, <1>12 DEF Kept

(* set_room of a user of the room being deleted: nobody of another tenant is
   shown anything of it. *)
LEMMA EmptyingKept ==
  ASSUME NEW c \in Conns, Working(c), MoveToLobby(c)
  PROVE  Kept(c)
<1> USE DEF Working
<1>0. UNCHANGED <<rooms, user_id, listed, blurred, placed, pc>>
  BY DEF MoveToLobby
<1>1. /\ TypeOK /\ job \in [Conns -> JobType] /\ job[c] \in JobType /\ rooms \subseteq Rooms
      /\ job[c].tenant \in Tenants /\ job[c].pending \in SUBSET Accounts
  BY JobAtStep DEF RoomsInv, RoomsTypeOK, RoomsChosen, MoveToLobby
<1>2. PICK u \in job[c].pending :
        /\ SetRoom(u, Lobby[job[c].tenant])
        /\ job' = [job EXCEPT ![c].pending = @ \ {u}]
        /\ foreign' = IF Online(u) /\ users[u].tenant # job[c].tenant
                      THEN foreign \cup {u} ELSE foreign \ {u}
  BY DEF MoveToLobby
<1> DEFINE tn == job[c].tenant
           lobby == Lobby[tn]
<1>3. lobby \in Rooms /\ TenantOf[lobby] = tn
  BY <1>1, RoomsAssumption
<1>4. pc[c] = "empty" /\ job[c].kind = "delete"
  BY DEF MoveToLobby, StepsOfKind
<1>5. \A v \in job[c].pending : Online(v) /\ users[v].tenant = tn
  BY <1>4 DEF KnowsTenant, At
<1>6. foreign' = {}
  BY <1>2, <1>5
<1>7. /\ job'[c].kind = "delete" /\ job'[c].user = job[c].user /\ job'[c].room = job[c].room
      /\ job'[c].tenant = tn /\ job'[c].pending = job[c].pending \ {u}
  BY <1>1, <1>2, <1>4 DEF JobType
<1>8. /\ \A v \in Accounts : TenantOfUser(v)' = TenantOfUser(v) /\ (Online(v)' <=> Online(v))
      /\ \A v \in Accounts : Online(v) => users'[v].tenant = users[v].tenant
      /\ \A v \in Accounts : Online(v) => users'[v].tx = users[v].tx
  BY <1>1, <1>2, <1>3, SetRoomKeeps
<1>9. /\ RoomOf(u)' = lobby
      /\ \A v \in Accounts \ {u} : RoomOf(v)' = RoomOf(v)
  BY <1>1, <1>2, <1>3, <1>5, SetRoomMoves
<1>10. RoomOf(u) = None \/ TenantOf[RoomOf(u)] = tn
  BY <1>1, <1>2, <1>5 DEF RoomOfOwnTenant, RoomOf
<1>11. \A r : ~Hides(c, r) /\ ~Keeps(c, r) /\ ~Hides(c, r)' /\ ~Keeps(c, r)'
  BY <1>0, <1>4, <1>7 DEF Hides, Keeps, At
<1>12. Shown(c)'
  <2> SUFFICES ASSUME NEW v \in Accounts, Counts(c, v)' PROVE Shows(c, v)'
    BY DEF Shown
  <2>1. v \in Accounts \ placed /\ RoomOf(v)' \in rooms \ blurred /\ ~Spared(c, v)'
    BY <1>0 DEF Counts
  <2>2. TenantOfUser(v) # tn
    BY <1>0, <1>4, <1>7, <1>8, <2>1 DEF Spared, At
  <2>3. v # u /\ RoomOf(v)' = RoomOf(v)
    BY <1>1, <1>2, <1>5, <1>9, <2>2 DEF TenantOfUser
  <2>4. PICK r \in Rooms : r = RoomOf(v)
    BY <1>1, <2>1, <2>3
  <2>5. Online(v) /\ TenantOf[r] = users[v].tenant
    BY <2>4, RoomsAssumption DEF RoomOf, RoomOfOwnTenant
  <2>6. TenantOf[r] # tn
    BY <2>2, <2>5 DEF TenantOfUser
  <2>7. Counts(c, v)
    BY <1>4, <2>1, <2>2, <2>3 DEF Counts, Spared, At
  <2>8. \A x \in Accounts : x \in Members(r) <=> RoomOf(x) = r
    BY RoomsAssumption DEF Members, RoomOf
  <2>9. \A x \in Accounts : x \in Members(r)' <=> RoomOf(x)' = r
    BY RoomsAssumption DEF Members, RoomOf, Online
  <2>10. \A x \in Accounts : x \in Members(r)' <=> x \in Members(r)
    BY <1>3, <1>9, <1>10, <2>6, <2>8, <2>9, RoomsAssumption
  <2>11. Members(r)' = Members(r)
    BY <2>10 DEF Members
  <2>12. Expected(c, v, r)' = Expected(c, v, r)
    BY <1>11, <2>11, ExpectedSame
  <2>13. Expected(c, v, RoomOf(v))' = Expected(c, v, r)'
    BY <2>3, <2>4 DEF Expected, Hides, Keeps, Members, At
  <2>14. r \in DOMAIN listed[users[v].tx] /\ listed[users[v].tx][r] = Expected(c, v, r)
    BY <2>4, <2>7 DEF Shown, Shows
  <2> QED
    BY <1>0, <1>8, <2>3, <2>4, <2>5, <2>12, <2>13, <2>14 DEF Shows
<1>13. KnowsUser(c)'
  BY <1>0, <1>4, <1>7 DEF KnowsUser, At, Steps
<1>14. KnowsTenant(c)'
  <2>1. job[c].room \in Rooms /\ TenantOf[job[c].room] = tn
    BY <1>4 DEF KnowsTenant, At
  <2>2. \A v \in job'[c].pending : Online(v)' /\ users'[v].tenant = tn
    BY <1>1, <1>5, <1>7, <1>8
  <2> QED
    BY <1>0, <1>4, <1>7, <2>1, <2>2 DEF KnowsTenant, At
<1> QED
  BY <1>6, <1>12, <1>13, <1>14 DEF Kept

(* A list that is sent is that of the rooms as they are. *)
LEMMA SendingKept ==
  ASSUME NEW c \in Conns, Working(c), SendList(c) \/ BroadcastList(c)
  PROVE  Kept(c)
<1> USE DEF Working
<1>0. UNCHANGED <<users, rooms, user_id, foreign, blurred>>
  BY DEF SendList, BroadcastList, Rest, umVars
<1>1. /\ TypeOK /\ job \in [Conns -> JobType] /\ job[c] \in JobType /\ rooms \subseteq Rooms
      /\ listed \in [Conns -> Lists]
  BY JobAtStep DEF RoomsInv, RoomsTypeOK
<1>2. pc[c] = "send" /\ pc'[c] = "idle" /\ job[c].user \in Accounts
  BY JobAtStep, EndLocals DEF SendList, BroadcastList, Steps
<1>3. foreign' = {} /\ KnowsUser(c)' /\ KnowsTenant(c)'
  BY <1>0, <1>2 DEF KnowsUser, KnowsTenant, At, Steps
<1> DEFINE tn == job[c].tenant
<1>4. job[c].list = RoomList(tn)
  BY <1>2 DEF KnowsTenant
<1>5. \A r : ~Hides(c, r) /\ ~Keeps(c, r) /\ ~Hides(c, r)' /\ ~Keeps(c, r)'
  BY <1>2 DEF Hides, Keeps, At
<1>6. \A v : ~Spared(c, v)'
  BY <1>2 DEF Spared, At
<1>7. \A r : Members(r)' = Members(r)
  BY <1>0, SameSessions
<1>8. \A v \in Accounts : RoomOf(v)' = RoomOf(v)
  BY <1>0, SameSessions
<1> SUFFICES ASSUME NEW v \in Accounts, Counts(c, v)' PROVE Shows(c, v)'
  BY <1>3 DEF Kept, Shown
<1>9. PICK r \in rooms \ blurred : r = RoomOf(v)
  BY <1>0, <1>8 DEF Counts
<1>10. v \notin placed'
  BY DEF Counts
<1>11. r \in Rooms /\ Online(v) /\ users[v].tx \in Conns /\ RoomOf(v) = users[v].room_id
  BY <1>1, <1>9, RoomsAssumption, OnlineSession DEF RoomOf, Session
<1>12. TenantOf[r] = users[v].tenant
  BY <1>9, <1>11, RoomsAssumption DEF RoomOfOwnTenant
<1>13. Expected(c, v, r)' = Members(r) /\ Expected(c, v, r) = Members(r)
  BY <1>5, <1>7 DEF Expected, Members
<1>14. Expected(c, v, RoomOf(v))' = Expected(c, v, r)'
  BY <1>8, <1>9 DEF Expected, Hides, Keeps, Members, At
<1>15. RoomList(tn) = [x \in {y \in rooms : TenantOf[y] = tn} |-> Members(x)]
  BY DEF RoomList
<1>16. ASSUME listed'[users[v].tx] = RoomList(tn), TenantOf[r] = tn
       PROVE  Shows(c, v)'
  <2>1. r \in DOMAIN RoomList(tn) /\ RoomList(tn)[r] = Members(r)
    BY <1>9, <1>15, <1>16
  <2> QED
    BY <1>0, <1>8, <1>9, <1>13, <1>14, <1>16, <2>1 DEF Shows
<1>17. ASSUME listed'[users[v].tx] = listed[users[v].tx], Counts(c, v)
       PROVE  Shows(c, v)'
  BY <1>0, <1>8, <1>9, <1>13, <1>14, <1>17 DEF Shows, Shown
<1>18. CASE SendList(c)
  <2>1. job[c].kind \in {"login", "join"} /\ job[c].user = user_id[c]
    BY <1>2, <1>18 DEF SendList, KnowsUser, At, Steps
  <2>2. listed' = [listed EXCEPT ![c] = RoomList(tn)]
    BY <1>4, <1>18 DEF SendList
  <2>3. placed' = IF Owns(c, job[c].user) THEN placed \ {job[c].user} ELSE placed
    BY <1>18 DEF SendList
  <2>4. CASE users[v].tx = c
    <3>1. v = job[c].user
      BY <1>11, <2>1, <2>4 DEF SenderKnown
    <3>2. job[c].kind = "join"
      BY <1>2, <1>9, <1>11, <2>1, <3>1, RoomsAssumption DEF KnowsUser, At
    <3>3. users[v].tenant = tn
      BY <1>2, <3>1, <3>2 DEF KnowsUser, At
    <3> QED
      BY <1>1, <1>12, <1>16, <2>2, <2>4, <3>3
  <2>5. CASE users[v].tx # c
    <3>1. listed'[users[v].tx] = listed[users[v].tx]
      BY <1>1, <1>11, <2>2, <2>5
    <3>2. ~Owns(c, v)
      BY <2>5 DEF Owns
    <3>3. v \notin placed
      BY <1>10, <2>3, <3>2
    <3>4. ~Spared(c, v)
      BY <1>2, <2>1, <3>2, <3>3 DEF Spared, KnowsUser, At
    <3>5. Counts(c, v)
      BY <1>9, <3>3, <3>4 DEF Counts
    <3> QED
      BY <1>17, <3>1, <3>5
  <2> QED
    BY <2>4, <2>5
<1>19. CASE BroadcastList(c)
  <2>1. job[c].kind \in {"create", "delete"}
    BY <1>19 DEF BroadcastList
  <2>2. listed'[users[v].tx] =
          IF \E u \in Accounts : Owns(users[v].tx, u) /\ users[u].tenant = tn
          THEN RoomList(tn) ELSE listed[users[v].tx]
    BY <1>4, <1>11, <1>19 DEF BroadcastList
  <2>3. placed' = {u \in placed : TenantOfUser(u) # tn}
    BY <1>19 DEF BroadcastList
  <2>4. TenantOfUser(v) = users[v].tenant
    BY <1>11 DEF TenantOfUser
  <2>5. CASE users[v].tenant = tn
    <3>1. Owns(users[v].tx, v)
      BY <1>11 DEF Owns
    <3> QED
      BY <1>12, <1>16, <2>2, <2>5, <3>1
  <2>6. CASE users[v].tenant # tn
    <3>1. \A u \in Accounts : Owns(users[v].tx, u) => u = v
      BY <1>11 DEF SenderKnown, Owns
    <3>2. listed'[users[v].tx] = listed[users[v].tx]
      BY <2>2, <2>6, <3>1
    <3>3. v \notin placed
      BY <1>10, <2>3, <2>4, <2>6
    <3>4. ~Spared(c, v)
      BY <1>2, <2>1, <2>4, <2>6 DEF Spared, At
    <3> QED
      BY <1>9, <1>17, <3>2, <3>3, <3>4 DEF Counts
  <2> QED
    BY <2>5, <2>6
<1> QED
  BY <1>18, <1>19

(* A message that is taken up while nothing else is going on. *)
LEMMA MessageKept ==
  ASSUME NEW c \in Conns, Working(c), Message(c)
  PROVE  Kept(c)
<1> USE DEF Working
<1>1. /\ TypeOK /\ rooms \subseteq Rooms /\ user_id \in [Conns -> Accounts \cup {None}]
  BY DEF RoomsInv, RoomsTypeOK
<1>2. pc[c] \in {"new", "idle"}
  BY DEF Message, Login, RoomJoin, RoomLeave, RoomCreate, RoomDelete, AdminMove, AdminKick,
     Disconnect, ActsAs
<1>3. \A r : ~Hides(c, r) /\ ~Keeps(c, r)
  BY <1>2 DEF Hides, Keeps, At
<1>4. \A v : ~Spared(c, v)
  BY <1>2 DEF Spared, At
<1>5. ASSUME NEW u \in Accounts, NEW tn \in Tenants, Login(c, u, tn)
      PROVE  Kept(c)
  <2>1. pc'[c] = "list" /\ job'[c] = Job("login", None, u, tn, None, FALSE)
    BY <1>5, BeginLocals DEF Login
  <2>2. job'[c].kind = "login" /\ job'[c].user = u /\ user_id'[c] = u
    BY <1>1, <1>5, <2>1 DEF Job, Login
  <2>3. /\ foreign' = {} /\ blurred' = blurred \cup ({RoomOf(u)} \ {None})
        /\ UNCHANGED <<rooms, listed, placed>> /\ AddUser(u, c, tn)
    BY <1>5 DEF Login
  <2>4. RoomOf(u)' = None /\ \A v \in Accounts \ {u} : users'[v] = users[v]
    <3>1. PICK t \in Ids, a \in Ids : users' = [users EXCEPT ![u] = FreshSession(c, tn, t, a)]
      BY <2>3 DEF AddUser
    <3>2. users'[u].room_id = None /\ \A v \in Accounts \ {u} : users'[v] = users[v]
      BY <1>1, <3>1 DEF TypeOK, FreshSession
    <3> QED
      BY <3>2 DEF RoomOf
  <2>5. \A v \in Accounts \ {u} : RoomOf(v)' = RoomOf(v)
    BY <2>4 DEF RoomOf, Online
  <2>6. \A r : ~Hides(c, r)' /\ ~Keeps(c, r)'
    BY <2>1, <2>2 DEF Hides, Keeps, At
  <2>7. Shown(c)'
    <3> SUFFICES ASSUME NEW v \in Accounts, Counts(c, v)' PROVE Shows(c, v)'
      BY DEF Shown
    <3>1. v \notin placed /\ RoomOf(v)' \in rooms \ blurred'
      BY <2>3 DEF Counts
    <3>2. v # u /\ RoomOf(v)' = RoomOf(v)
      BY <1>1, <2>4, <2>5, <3>1, RoomsAssumption
    <3>3. PICK r \in rooms \ blurred' : r = RoomOf(v)
      BY <3>1, <3>2
    <3>4. r \notin blurred /\ RoomOf(u) # r
      BY <1>1, <2>3, <3>3, RoomsAssumption
    <3>5. Shows(c, v)
      BY <1>4, <3>1, <3>3, <3>4 DEF Counts, Shown
    <3>6. \A x \in Accounts : x \in Members(r)' <=> x \in Members(r)
      <4> SUFFICES ASSUME NEW x \in Accounts PROVE x \in Members(r)' <=> x \in Members(r)
        OBVIOUS
      <4>1. x \in Members(r)' <=> RoomOf(x)' = r
        BY <1>1, <3>3, RoomsAssumption DEF Members, RoomOf, Online
      <4>2. x \in Members(r) <=> RoomOf(x) = r
        BY <1>1, <3>3, RoomsAssumption DEF Members, RoomOf
      <4> QED
        BY <1>1, <2>4, <2>5, <3>3, <3>4, <4>1, <4>2, RoomsAssumption
    <3>7. Members(r)' = Members(r)
      BY <3>6 DEF Members
    <3>8. Expected(c, v, r)' = Expected(c, v, r)
      BY <1>3, <2>6, <3>7, ExpectedSame
    <3>9. Expected(c, v, RoomOf(v))' = Expected(c, v, r)'
      BY <3>2, <3>3 DEF Expected, Hides, Keeps, Members, At
    <3> QED
      BY <2>3, <2>4, <3>2, <3>3, <3>5, <3>8, <3>9 DEF Shows
  <2>8. KnowsUser(c)' /\ KnowsTenant(c)'
    BY <2>1, <2>2, <2>4 DEF KnowsUser, KnowsTenant, At, Steps
  <2> QED
    BY <2>3, <2>7, <2>8 DEF Kept
<1>6. ASSUME Unmoved, blurred \subseteq blurred',
             \A r : ~Hides(c, r)' /\ ~Keeps(c, r)'
      PROVE  Shown(c)' /\ foreign' = {}
  <2>1. UNCHANGED <<users, rooms, listed, placed, foreign>>
    BY <1>6 DEF Unmoved, umVars
  <2>2. \A v \in Accounts : RoomOf(v)' = RoomOf(v)
    BY <2>1, SameSessions
  <2> QED
    BY <1>3, <1>4, <1>6, <2>1, <2>2, SameShown
<1>7. ASSUME NEW r \in Rooms, NEW key, RoomJoin(c, r, key)
      PROVE  Kept(c)
  <2> DEFINE u == user_id[c]
  <2>1. /\ pc'[c] = "check" /\ Unmoved /\ UNCHANGED blurred
        /\ job'[c] = Job("join", r, u, users[u].tenant, users[u].room_id, key)
        /\ u \in Accounts /\ Online(u)
    BY <1>1, <1>7, BeginLocals DEF RoomJoin
  <2>2. /\ job'[c].kind = "join" /\ job'[c].user = u /\ job'[c].tenant = users[u].tenant
        /\ job'[c].old = users[u].room_id
    BY <2>1 DEF Job
  <2>3. users' = users /\ user_id' = user_id
    BY <2>1 DEF Unmoved, umVars
  <2>4. \A x : ~Hides(c, x)' /\ ~Keeps(c, x)'
    BY <2>1, <2>2 DEF Hides, Keeps, At
  <2>5. KnowsUser(c)'
    <3>1. Online(u)' /\ RoomOf(u)' = users[u].room_id
      BY <2>1, <2>3 DEF Online, RoomOf
    <3> QED
      BY <2>1, <2>2, <2>3, <3>1 DEF KnowsUser, At, Steps
  <2>6. KnowsTenant(c)'
    BY <2>1 DEF KnowsTenant, At
  <2> QED
    BY <1>6, <2>1, <2>4, <2>5, <2>6 DEF Kept
<1>8. ASSUME NEW r \in Rooms, RoomLeave(c, r)
      PROVE  Kept(c)
  <2>0. PICK u \in Accounts : u = user_id[c]
    BY <1>1, <1>8 DEF RoomLeave
  <2>1. /\ pc'[c] = "goodbye" /\ Unmoved
        /\ job'[c] = Job("leave", r, u, None, None, FALSE)
        /\ blurred' = IF RoomOf(u) = r THEN blurred ELSE blurred \cup ({r, RoomOf(u)} \ {None})
    BY <1>8, <2>0, BeginLocals DEF RoomLeave
  <2>2. job'[c].kind = "leave" /\ job'[c].user = u /\ job'[c].room = r
    BY <2>1 DEF Job
  <2>3. RoomOf(u)' = RoomOf(u)
    BY <2>1, SameSessions DEF Unmoved, umVars
  <2>4. \A x : ~Hides(c, x)' /\ ~Keeps(c, x)'
    BY <2>1, <2>2 DEF Hides, Keeps, At
  <2>5. KnowsUser(c)'
    <3>1. RoomOf(u)' = r \/ {r, RoomOf(u)'} \ {None} \subseteq blurred'
      BY <2>1, <2>3
    <3> QED
      BY <2>1, <2>2, <3>1 DEF KnowsUser, At, Steps
  <2>6. KnowsTenant(c)'
    BY <2>1 DEF KnowsTenant, At
  <2>7. blurred \subseteq blurred'
    BY <2>1
  <2> QED
    BY <1>6, <2>1, <2>4, <2>5, <2>6, <2>7 DEF Kept
<1>9. ASSUME NEW j, NEW s \in {"place", "find", "target", "closing"},
             j.kind \in {"create", "delete", "move", "kick", "close"},
             Begin(c, j, s), Unmoved, UNCHANGED blurred
      PROVE  Kept(c)
  <2>1. pc'[c] = s /\ job'[c] = j
    BY <1>9, BeginLocals
  <2>2. \A r : ~Hides(c, r)' /\ ~Keeps(c, r)'
    BY <1>9, <2>1 DEF Hides, Keeps, At
  <2>3. KnowsUser(c)' /\ KnowsTenant(c)'
    BY <1>9, <2>1 DEF KnowsUser, KnowsTenant, At, Steps
  <2> QED
    BY <1>6, <1>9, <2>2, <2>3 DEF Kept
<1>10. CASE \E r \in Rooms : RoomDelete(c, r)
  BY <1>9, <1>10 DEF RoomDelete, Job
<1>11. CASE RoomCreate(c)
  BY <1>9, <1>11 DEF RoomCreate, Job
<1>12. CASE \E u \in Accounts, r \in Rooms : AdminMove(c, u, r)
  BY <1>9, <1>12 DEF AdminMove, Job
<1>13. CASE \E u \in Accounts : AdminKick(c, u)
  BY <1>9, <1>13 DEF AdminKick, Job
<1>14. CASE Disconnect(c)
  BY <1>9, <1>14 DEF Disconnect, Job
<1>15. CASE \E r \in Rooms : RoomJoin(c, r, FALSE)
  BY <1>7, <1>15
<1>16. CASE \E r \in Locked : RoomJoin(c, r, TRUE)
  BY <1>7, <1>16, RoomsAssumption
<1> QED
  BY <1>5, <1>8, <1>10, <1>11, <1>12, <1>13, <1>14, <1>15, <1>16 DEF Message

LEMMA ProceedKept ==
  ASSUME NEW c \in Conns, Working(c), Proceed(c)
  PROVE  Kept(c)
BY LookedUp, RoomDecided, TellingKept, MovingKept, RemovingKept, EmptyingKept, SendingKept
   DEF Proceed

(* A task that waits stands for any other that does. *)
LEMMA WaitingKnows ==
  ASSUME NEW c \in Conns, pc[c] \in Waiting
  PROVE  /\ KnowsUser(c) /\ KnowsTenant(c)
         /\ \A v : ~Spared(c, v)
         /\ \A r : ~Hides(c, r) /\ ~Keeps(c, r)
<1>1. pc[c] \notin Steps
  BY DEF Waiting, Steps
<1>3. /\ \A v : ~Spared(c, v)
      /\ \A r : ~Hides(c, r) /\ ~Keeps(c, r)
  BY <1>1 DEF Spared, Hides, Keeps, At, Steps
<1>4. KnowsUser(c) /\ KnowsTenant(c)
  BY <1>1 DEF KnowsUser, KnowsTenant, At, Steps
<1> QED
  BY <1>3, <1>4

LEMMA ShownToAll ==
  ASSUME NEW c \in Conns, NEW d \in Conns, pc'[c] \in Waiting, pc'[d] \in Waiting, Shown(c)'
  PROVE  Shown(d)' /\ KnowsUser(d)' /\ KnowsTenant(d)'
<1>1. pc'[c] \notin Steps /\ pc'[d] \notin Steps
  BY DEF Waiting, Steps
<1>2. \A v : ~Spared(c, v)' /\ ~Spared(d, v)'
  BY <1>1 DEF Spared, At, Steps
<1>3. \A r : ~Hides(c, r)' /\ ~Keeps(c, r)' /\ ~Hides(d, r)' /\ ~Keeps(d, r)'
  BY <1>1 DEF Hides, Keeps, At, Steps
<1>4. \A v \in Accounts : Counts(c, v)' <=> Counts(d, v)'
  BY <1>2 DEF Counts
<1>5. \A v, r : Expected(c, v, r)' = Expected(d, v, r)'
  BY <1>3 DEF Expected
<1>6. \A v : Expected(c, v, RoomOf(v))' = Expected(d, v, RoomOf(v))'
  BY <1>3 DEF Expected
<1>7. \A v \in Accounts : Shows(c, v)' <=> Shows(d, v)'
  BY <1>6 DEF Shows
<1>8. Shown(d)'
  BY <1>4, <1>7 DEF Shown
<1>9. KnowsUser(d)' /\ KnowsTenant(d)'
  BY <1>1 DEF KnowsUser, KnowsTenant, At, Steps
<1> QED
  BY <1>8, <1>9

(* What ListInv rests on. *)
ListGround == RoomsInv /\ StepsOfKind /\ SenderKnown /\ RoomsKnown /\ RoomOfOwnTenant

LEMMA ListStep == ListGround /\ ListInv /\ [RoomsNext]_roomVars => ListInv'
<1> SUFFICES ASSUME ListGround, ListInv, [RoomsNext]_roomVars, ~overlapped'
             PROVE  /\ OneAtATime' /\ foreign' = {}
                    /\ \A d \in Conns : Alone(d)' => Shown(d)' /\ KnowsUser(d)' /\ KnowsTenant(d)'
  BY DEF ListInv
<1> USE DEF ListGround
<1>1. ASSUME NEW c \in Conns, Message(c) \/ Proceed(c)
      PROVE  /\ OneAtATime' /\ foreign' = {}
             /\ \A d \in Conns : Alone(d)' => Shown(d)' /\ KnowsUser(d)' /\ KnowsTenant(d)'
  <2>1. ~overlapped /\ Alone(c)
    <3>1. CASE Message(c)
      <4>1. \E j, s : Begin(c, j, s)
        BY <3>1 DEF Message, Login, RoomJoin, RoomLeave, RoomCreate, RoomDelete, AdminMove,
           AdminKick, Disconnect
      <4> QED
        BY <4>1 DEF Begin, Alone
    <3>2. CASE Proceed(c)
      <4>1. UNCHANGED overlapped
        BY <3>2 DEF Proceed, TakeList, SendList, BroadcastList, CheckRoom, CountRoom, EnterRoom,
           TellOld, LookAgain, TellNew, SayGoodbye, Leave, ChooseTenant, InsertRoom, FindRoom,
           CollectMembers, MoveToLobby, DropRoom, FindTarget, AnnounceMove, KickFromRoom, Expel,
           AnnounceKick, CheckOwner, LookUpRoom, Farewell, Remove, Still, Rest, roomHistory
      <4>2. pc[c] \notin Waiting
        BY <3>2 DEF Proceed, TakeList, SendList, BroadcastList, CheckRoom, CountRoom, EnterRoom,
           TellOld, LookAgain, TellNew, SayGoodbye, Leave, ChooseTenant, InsertRoom, FindRoom,
           CollectMembers, MoveToLobby, DropRoom, FindTarget, AnnounceMove, KickFromRoom, Expel,
           AnnounceKick, CheckOwner, LookUpRoom, Farewell, Remove, Waiting
      <4> QED
        BY <4>1, <4>2 DEF ListInv, OneAtATime
    <3> QED
      BY <1>1, <3>1, <3>2
  <2>2. Working(c)
    BY <2>1 DEF ListInv, Working
  <2>3. Kept(c)
    BY <1>1, <2>2, MessageKept, ProceedKept
  <2>4. \A d \in Conns \ {c} : pc'[d] = pc[d] /\ pc'[d] \in Waiting
    BY <1>1, <2>1, OthersKept DEF Alone
  <2>5. OneAtATime'
    BY <2>4 DEF OneAtATime, Alone
  <2>6. ASSUME NEW d \in Conns, Alone(d)'
        PROVE  Shown(d)' /\ KnowsUser(d)' /\ KnowsTenant(d)'
    <3>1. CASE d = c
      BY <2>3, <3>1 DEF Kept
    <3>2. CASE d # c
      <4>1. pc'[c] \in Waiting /\ pc'[d] \in Waiting
        BY <2>4, <2>6, <3>2 DEF Alone
      <4> QED
        BY <2>3, <4>1, ShownToAll DEF Kept
    <3> QED
      BY <3>1, <3>2
  <2> QED
    BY <2>3, <2>5, <2>6 DEF Kept
<1>2. CASE UNCHANGED roomVars
  <2>1. /\ UNCHANGED <<users, rooms, user_id, pc, job, listed, foreign, blurred, placed,
                       overlapped>>
    BY <1>2 DEF roomVars, umVars, roomHistory
  <2>2. OneAtATime' /\ foreign' = {} /\ \A d \in Conns : Alone(d)' <=> Alone(d)
    BY <2>1 DEF ListInv, OneAtATime, Alone
  <2>3. ASSUME NEW d \in Conns, Alone(d)'
        PROVE  Shown(d)' /\ KnowsUser(d)' /\ KnowsTenant(d)'
    <3>1. Shown(d) /\ KnowsUser(d) /\ KnowsTenant(d)
      BY <2>1, <2>2, <2>3 DEF ListInv
    <3>2. Shown(d)'
      BY <2>1, <3>1 DEF Shown, Counts, Spared, Shows, Expected, Hides, Keeps, Members, RoomOf,
         TenantOfUser, Online, At
    <3>3. KnowsUser(d)'
      BY <2>1, <3>1 DEF KnowsUser, RoomOf, Owns, Online, At
    <3>4. KnowsTenant(d)'
      BY <2>1, <3>1 DEF KnowsTenant, RoomList, Members, Online, At
    <3> QED
      BY <3>2, <3>3, <3>4
  <2> QED
    BY <2>2, <2>3
<1> QED
  BY <1>1, <1>2 DEF RoomsNext

LEMMA ListInit == RoomsInit => ListGround /\ ListInv
<1> SUFFICES ASSUME RoomsInit PROVE ListGround /\ ListInv
  OBVIOUS
<1>1. /\ \A u \in Accounts : ~Online(u) /\ RoomOf(u) = None
      /\ \A c \in Conns : pc[c] = "new"
      /\ rooms = Initial /\ foreign = {}
  BY DEF RoomsInit, Init, Online, RoomOf
<1>2. StepsOfKind /\ SenderKnown /\ RoomOfOwnTenant /\ OneAtATime
  BY <1>1 DEF StepsOfKind, SenderKnown, RoomOfOwnTenant, OneAtATime, Waiting
<1>3. RoomsKnown
  BY <1>1, RoomsAssumption DEF RoomsKnown
<1>4. \A c \in Conns : Shown(c)
  BY <1>1, RoomsAssumption DEF Shown, Counts
<1>5. \A c \in Conns : KnowsUser(c) /\ KnowsTenant(c)
  BY <1>1, WaitingKnows DEF Waiting
<1> QED
  BY <1>1, <1>2, <1>3, <1>4, <1>5, RoomsInitial DEF ListInv, ListGround

(* While the messages come one at a time, whoever is in a room is shown exactly
   the users that are in it, for the rooms and the users ListMatchesRoom names:
   what the clients show of a room follows set_room, room_user_left and
   room_user_joined of control/handler.rs. *)
THEOREM ListsHold == RoomsSpec => []ListMatchesRoom
<1>1. RoomsInv /\ ListInv => ListMatchesRoom
  <2> SUFFICES ASSUME RoomsInv, ListInv, Quiet, ~overlapped,
                      NEW u \in Accounts \ placed, RoomOf(u) \in rooms \ blurred
               PROVE  /\ RoomOf(u) \in DOMAIN listed[users[u].tx]
                      /\ listed[users[u].tx][RoomOf(u)] = Members(RoomOf(u))
    BY DEF ListMatchesRoom
  <2>1. TypeOK /\ rooms \subseteq Rooms
    BY DEF RoomsInv, RoomsTypeOK
  <2>2. PICK c \in Conns : c = users[u].tx
    BY <2>1, OnlineSession, RoomsAssumption DEF RoomOf, Session
  <2>3. pc[c] \in Waiting /\ Alone(c)
    BY DEF Quiet, Alone
  <2>4. Shown(c) /\ ~Spared(c, u) /\ \A r : ~Hides(c, r) /\ ~Keeps(c, r)
    BY <2>3, WaitingKnows DEF ListInv
  <2>5. Shows(c, u)
    BY <2>4 DEF Shown, Counts
  <2>6. Expected(c, u, RoomOf(u)) = Members(RoomOf(u))
    BY <2>4 DEF Expected, Members
  <2> QED
    BY <2>5, <2>6 DEF Shows
<1>2. ListGround /\ [RoomsNext]_roomVars => ListGround'
  BY RoomsStep, KindStep, SenderStep, RoomsKnownStep, TenantStep DEF ListGround
<1>3. ListGround => RoomsInv
  BY DEF ListGround
<1> QED
  BY <1>1, <1>2, <1>3, ListInit, ListStep, PTL DEF RoomsSpec
=============================================================================

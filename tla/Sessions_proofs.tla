--------------------------- MODULE Sessions_proofs ---------------------------
(***************************************************************************)
(* What the server guarantees for the life of its connections, for any     *)
(* number of accounts and connections: the type invariant of Sessions, the *)
(* agreement of the registry's maps under everything the connections do,   *)
(* that a client is told when it loses its session, that no session        *)
(* outlives its connection and that a ban keeps its target out.            *)
(***************************************************************************)
EXTENDS Sessions, UserManager_proofs, FiniteSetTheorems

(* What a handler in progress has in its locals. *)
LocalsOK ==
  \A c \in Conns :
    /\ pc[c] = "new" => user_id[c] = None
    /\ pc[c] \in LoginSteps \cup ModSteps => about[c] \in Accounts
    /\ pc[c] \in LoginSteps => tenant[c] \in Tenants
    /\ pc[c] \in ModSteps => notice[c] \in Notices
    /\ pc[c] \in CleanupSteps => about[c] \in Accounts /\ about[c] = user_id[c]

(* A task about to remove a session is the session's own, or has told its
   holder, or has been overtaken by a login. *)
RemovesKnowingly ==
  \A c \in Conns : pc[c] \in Committed /\ c \notin stale /\ Online(about[c]) =>
    LET d == users[about[c]].tx
    IN IF pc[c] \in CleanupSteps THEN d = c
       ELSE told[d] # {} \/ Account(d) # about[c]

(* A login that is past the ban check of a banned account was there first. *)
BannedInTime ==
  \A c \in Conns : pc[c] = "admitted" /\ about[c] \in banned => c \in unseen

TypeInv == SessionsTypeOK /\ MapsConsistent /\ LocalsOK

LEMMA TypeInvInit == SessionsInit => TypeInv
<1> SUFFICES ASSUME SessionsInit PROVE TypeInv
  OBVIOUS
<1>1. TypeOK /\ MapsConsistent
  BY InitRegistry DEF SessionsInit, RegistryOK
<1>2. SessionsTypeOK
  BY <1>1 DEF SessionsInit, SessionsTypeOK, Steps
<1>3. LocalsOK
  BY DEF SessionsInit, LocalsOK, LoginSteps, ModSteps, CleanupSteps
<1>4. QED
  BY <1>1, <1>2, <1>3 DEF TypeInv

(* The number of logins in progress is a number. *)
LEMMA LoggingInFinite ==
  IsFiniteSet(LoggingIn) /\ Cardinality(LoggingIn) \in Nat
BY SessionsAssumption, FS_Subset, FS_CardinalityType DEF LoggingIn

(* add_user and remove_user, and the sets the history variables keep. *)
LEMMA RegisterType ==
  ASSUME TypeInv, NEW c \in Conns, Register(c)
  PROVE  TypeInv'
<1>1. about[c] \in Accounts /\ tenant[c] \in Tenants
  BY DEF TypeInv, LocalsOK, Register, LoginSteps
<1>2. RegistryOK'
  BY <1>1, AddUserRegistry DEF TypeInv, SessionsTypeOK, RegistryOK, Register
<1>3. SessionsTypeOK'
  BY <1>2 DEF TypeInv, SessionsTypeOK, RegistryOK, Register, Goto, Steps, LoginSteps
<1>4. LocalsOK'
  BY <1>1 DEF TypeInv, SessionsTypeOK, LocalsOK, Register, Goto,
              LoginSteps, ModSteps, CleanupSteps
<1>5. QED
  BY <1>2, <1>3, <1>4 DEF TypeInv, RegistryOK

LEMMA RemoveType ==
  ASSUME TypeInv, NEW c \in Conns, Expel(c) \/ CleanUp(c)
  PROVE  TypeInv'
<1>1. about[c] \in Accounts /\ RemoveSession(c) /\ (End(c, "idle") \/ End(c, "done"))
  BY DEF TypeInv, LocalsOK, Expel, CleanUp, ModSteps, CleanupSteps
<1>2. RegistryOK'
  <2>1. told' \in [Conns -> SUBSET Notices]
    BY <1>1 DEF RemoveSession, TypeInv, SessionsTypeOK, TypeOK
  <2>2. QED
    BY <1>1, <2>1, RemoveUserRegistry DEF TypeInv, SessionsTypeOK, RegistryOK, RemoveSession
<1>3. SessionsTypeOK'
  BY <1>1, <1>2 DEF TypeInv, SessionsTypeOK, RegistryOK, RemoveSession, End, Steps
<1>4. LocalsOK'
  BY <1>1 DEF TypeInv, SessionsTypeOK, LocalsOK, RemoveSession, End,
              LoginSteps, ModSteps, CleanupSteps
<1>5. QED
  BY <1>2, <1>3, <1>4 DEF TypeInv, RegistryOK

LEMMA NotifyType ==
  ASSUME TypeInv, NEW c \in Conns, NotifyTarget(c)
  PROVE  TypeInv'
<1>1. about[c] \in Accounts /\ notice[c] \in Notices
  BY DEF TypeInv, LocalsOK, NotifyTarget, ModSteps
<1>2. RegistryOK'
  BY <1>1, TellRegistry DEF TypeInv, SessionsTypeOK, RegistryOK, NotifyTarget
<1>3. SessionsTypeOK'
  BY <1>2 DEF TypeInv, SessionsTypeOK, RegistryOK, NotifyTarget, Goto, history, Steps, ModSteps
<1>4. LocalsOK'
  BY <1>1 DEF TypeInv, SessionsTypeOK, LocalsOK, NotifyTarget, Goto,
              LoginSteps, ModSteps, CleanupSteps
<1>5. QED
  BY <1>2, <1>3, <1>4 DEF TypeInv, RegistryOK

LEMMA LeaveRoomType ==
  ASSUME TypeInv, NEW c \in Conns, LeaveRoom(c)
  PROVE  TypeInv'
<1>1. about[c] \in Accounts
  BY DEF TypeInv, LocalsOK, LeaveRoom, ModSteps
<1>2. RegistryOK'
  BY <1>1, SetRoomRegistry DEF TypeInv, SessionsTypeOK, RegistryOK, LeaveRoom
<1>3. SessionsTypeOK'
  BY <1>2 DEF TypeInv, SessionsTypeOK, RegistryOK, LeaveRoom, Goto, history, Steps, ModSteps
<1>4. LocalsOK'
  BY <1>1 DEF TypeInv, SessionsTypeOK, LocalsOK, LeaveRoom, Goto,
              LoginSteps, ModSteps, CleanupSteps
<1>5. QED
  BY <1>2, <1>3, <1>4 DEF TypeInv, RegistryOK

(* The steps that leave the registry alone. *)
LEMMA LoginType ==
  ASSUME TypeInv, NEW c \in Conns, NEW u \in Accounts, NEW tn \in Tenants,
         Login(c, u, tn)
  PROVE  TypeInv'
<1>1. overlap' \in Nat
  BY LoggingInFinite DEF Login, StartLogin, TypeInv, SessionsTypeOK
<1>2. SessionsTypeOK'
  BY <1>1 DEF Login, StartLogin, TypeInv, SessionsTypeOK, TypeOK, umVars, Steps, LoginSteps
<1>3. LocalsOK'
  BY DEF Login, StartLogin, TypeInv, SessionsTypeOK, LocalsOK,
         LoginSteps, ModSteps, CleanupSteps
<1>4. MapsConsistent'
  BY DEF Login, StartLogin, TypeInv, MapsConsistent, TokensReachSessions,
         NoStaleIds, Online, umVars
<1>5. QED
  BY <1>2, <1>3, <1>4 DEF TypeInv

LEMMA ModerationType ==
  ASSUME TypeInv, NEW c \in Conns, NEW u \in Accounts, Kick(c, u) \/ Ban(c, u)
  PROVE  TypeInv'
<1>1. PICK role \in {Moderators, Admins}, kind \in Notices :
        BeginModeration(c, u, role, kind)
  BY DEF Kick, Ban, Notices
<1>2. user_id[c] \in Accounts
  BY <1>1 DEF BeginModeration, TypeInv, SessionsTypeOK
<1>3. users[user_id[c]].tenant \in Tenants
  <2>1. users[user_id[c]] \in Session
    BY <1>1, <1>2, OnlineSession DEF BeginModeration, TypeInv, SessionsTypeOK
  <2>2. QED
    BY <2>1 DEF Session
<1>4. SessionsTypeOK'
  BY <1>1, <1>3 DEF BeginModeration, TypeInv, SessionsTypeOK, TypeOK, umVars, history,
                    Steps, ModSteps
<1>5. LocalsOK'
  BY <1>1 DEF BeginModeration, TypeInv, SessionsTypeOK, LocalsOK,
         LoginSteps, ModSteps, CleanupSteps
<1>6. MapsConsistent'
  BY <1>1 DEF BeginModeration, TypeInv, MapsConsistent, TokensReachSessions,
         NoStaleIds, Online, umVars
<1>7. QED
  BY <1>4, <1>5, <1>6 DEF TypeInv

(* The steps that move one task on and leave registry and history alone. *)
Quiet(c) ==
  \/ Connect(c) \/ CheckAccount(c) \/ FinishLogin(c) \/ FindTarget(c) \/ StoreBan(c)
  \/ Disconnect(c) \/ CheckOwner(c) \/ AnnounceLeave(c)

LEMMA QuietStepType ==
  ASSUME TypeInv, NEW c \in Conns, Quiet(c)
  PROVE  TypeInv'
<1>1. UNCHANGED umVars
  BY DEF Quiet, Connect, CheckAccount, FinishLogin, FindTarget, StoreBan,
         Disconnect, CheckOwner, AnnounceLeave
<1>2. MapsConsistent'
  BY <1>1 DEF TypeInv, MapsConsistent, TokensReachSessions, NoStaleIds, Online, umVars
<1>3. TypeOK'
  BY <1>1 DEF TypeInv, SessionsTypeOK, TypeOK, umVars
<1>4. CASE Connect(c) \/ CheckAccount(c) \/ FinishLogin(c)
  <2>1. SessionsTypeOK'
    BY <1>3, <1>4 DEF TypeInv, SessionsTypeOK, LocalsOK, Connect, CheckAccount, FinishLogin,
                      Goto, End, history, Steps, LoginSteps
  <2>2. LocalsOK'
    BY <1>4 DEF TypeInv, SessionsTypeOK, LocalsOK, Connect, CheckAccount, FinishLogin,
                      Goto, End, LoginSteps, ModSteps, CleanupSteps
  <2>3. QED
    BY <1>2, <2>1, <2>2 DEF TypeInv
<1>5. CASE FindTarget(c) \/ StoreBan(c)
  <2>1. SessionsTypeOK'
    BY <1>3, <1>5 DEF TypeInv, SessionsTypeOK, LocalsOK, FindTarget, StoreBan,
                      Goto, End, history, Steps, ModSteps
  <2>2. LocalsOK'
    BY <1>5 DEF TypeInv, SessionsTypeOK, LocalsOK, FindTarget, StoreBan,
                      Goto, End, LoginSteps, ModSteps, CleanupSteps
  <2>3. QED
    BY <1>2, <2>1, <2>2 DEF TypeInv
<1>6. CASE Disconnect(c) \/ CheckOwner(c) \/ AnnounceLeave(c)
  <2>1. SessionsTypeOK'
    BY <1>3, <1>6 DEF TypeInv, SessionsTypeOK, LocalsOK, Disconnect, CheckOwner,
                      AnnounceLeave, Goto, End, history, Steps, CleanupSteps
  <2>2. LocalsOK'
    BY <1>6 DEF TypeInv, SessionsTypeOK, LocalsOK, Disconnect, CheckOwner,
                      AnnounceLeave, Goto, End, LoginSteps, ModSteps, CleanupSteps
  <2>3. QED
    BY <1>2, <2>1, <2>2 DEF TypeInv
<1>7. QED
  BY <1>4, <1>5, <1>6 DEF Quiet

(* The cases every proof about a step goes through. *)
LEMMA SessionsSteps ==
  ASSUME SessionsNext
  PROVE  \E c \in Conns :
           \/ Quiet(c)
           \/ \E u \in Accounts, tn \in Tenants : Login(c, u, tn)
           \/ \E u \in Accounts : Kick(c, u) \/ Ban(c, u)
           \/ Register(c)
           \/ NotifyTarget(c)
           \/ LeaveRoom(c)
           \/ Expel(c) \/ CleanUp(c)
BY DEF SessionsNext, Request, Proceed, Quiet

LEMMA TypeInvStep == TypeInv /\ [SessionsNext]_vars => TypeInv'
<1> SUFFICES ASSUME TypeInv, [SessionsNext]_vars PROVE TypeInv'
  OBVIOUS
<1>1. CASE SessionsNext
  BY <1>1, SessionsSteps, QuietStepType, LoginType, ModerationType, RegisterType,
     NotifyType, LeaveRoomType, RemoveType
<1>2. CASE UNCHANGED vars
  BY <1>2 DEF vars, umVars, locals, history, TypeInv, SessionsTypeOK, TypeOK, LocalsOK,
              MapsConsistent, TokensReachSessions, NoStaleIds, Online
<1>3. QED
  BY <1>1, <1>2

(* The maps of the registry agree, and so the token of a closed, kicked or
   replaced session authenticates nobody, under everything connections do. *)
THEOREM SessionsTypes == SessionsSpec => [](SessionsTypeOK /\ MapsConsistent)
<1>1. TypeInv => SessionsTypeOK /\ MapsConsistent
  BY DEF TypeInv
<1>2. QED
  BY <1>1, TypeInvInit, TypeInvStep, PTL DEF SessionsSpec

----------------------------------------------------------------------------
(* What the steps that reach the registry do to its sessions. *)

LEMMA RegisterEffect ==
  ASSUME TypeInv, NEW c \in Conns, Register(c)
  PROVE  /\ about[c] \in Accounts
         /\ users'[about[c]] # None /\ users'[about[c]].tx = c
         /\ \A v \in Accounts : v # about[c] => users'[v] = users[v]
         /\ told'[c] = {}
         /\ \A d \in Conns : d # c /\ (told[d] # {} \/ Owns(d, about[c])) => told'[d] # {}
<1>1. about[c] \in Accounts /\ tenant[c] \in Tenants
  BY DEF TypeInv, LocalsOK, Register, LoginSteps
<1>2. PICK t \in Ids, a \in Ids :
        /\ users' = [users EXCEPT ![about[c]] = FreshSession(c, tenant[c], t, a)]
        /\ told' = ToldOfTakeover(c, about[c])
  BY DEF Register, AddUser
<1>3. users'[about[c]] # None /\ users'[about[c]].tx = c
  BY <1>1, <1>2, FreshSessionType DEF TypeInv, SessionsTypeOK, TypeOK
<1>4. QED
  BY <1>1, <1>2, <1>3 DEF ToldOfTakeover, TypeInv, SessionsTypeOK, TypeOK

LEMMA RemoveEffect ==
  ASSUME TypeInv, NEW c \in Conns, Expel(c) \/ CleanUp(c)
  PROVE  /\ about[c] \in Accounts
         /\ users'[about[c]] = None
         /\ \A v \in Accounts : v # about[c] => users'[v] = users[v]
         /\ UNCHANGED <<told, user_id, banned, unseen>>
<1>1. about[c] \in Accounts
  BY DEF TypeInv, LocalsOK, Expel, CleanUp, ModSteps, CleanupSteps
<1>2. QED
  BY <1>1 DEF Expel, CleanUp, RemoveSession, RemoveUser, TypeInv, SessionsTypeOK, TypeOK

LEMMA NotifyEffect ==
  ASSUME TypeInv, NEW c \in Conns, NotifyTarget(c)
  PROVE  /\ about[c] \in Accounts
         /\ users' = users
         /\ \A d \in Conns : told[d] # {} \/ Owns(d, about[c]) => told'[d] # {}
<1>1. about[c] \in Accounts
  BY DEF TypeInv, LocalsOK, NotifyTarget, ModSteps
<1>2. QED
  BY <1>1 DEF NotifyTarget, Tell, registry, TypeInv, SessionsTypeOK, TypeOK

LEMMA LeaveRoomEffect ==
  ASSUME TypeInv, NEW c \in Conns, LeaveRoom(c)
  PROVE  /\ about[c] \in Accounts
         /\ told' = told
         /\ \A v \in Accounts : /\ users'[v] = None <=> users[v] = None
                                /\ users[v] # None => users'[v].tx = users[v].tx
<1>1. about[c] \in Accounts
  BY DEF TypeInv, LocalsOK, LeaveRoom, ModSteps
<1>2. Online(about[c]) => users[about[c]] \in Session
  BY <1>1, OnlineSession DEF TypeInv, SessionsTypeOK
<1>3. Online(about[c]) => [users[about[c]] EXCEPT !.room_id = None] \in Session
  BY <1>2 DEF Session
<1>4. CASE Online(about[c])
  <2> DEFINE s == [users[about[c]] EXCEPT !.room_id = None]
  <2>1. users' = [users EXCEPT ![about[c]] = s]
    BY <1>4 DEF LeaveRoom, SetRoom
  <2>2. s # None /\ s.tx = users[about[c]].tx
    BY <1>2, <1>3, <1>4, SessionNotNone DEF Session
  <2> HIDE DEF s
  <2>3. QED
    BY <1>1, <1>4, <2>1, <2>2 DEF LeaveRoom, TypeInv, SessionsTypeOK, TypeOK, Online
<1>5. CASE ~Online(about[c])
  BY <1>1, <1>5 DEF LeaveRoom, SetRoom
<1>6. QED
  BY <1>4, <1>5

(* Nobody but c changes the locals of c, and Account(c) only changes when c
   registers a session. *)
LEMMA OtherLocals ==
  ASSUME TypeInv, NEW c \in Conns,
         Quiet(c) \/ (\E u \in Accounts, tn \in Tenants : Login(c, u, tn))
         \/ (\E u \in Accounts : Kick(c, u) \/ Ban(c, u)) \/ Register(c)
         \/ NotifyTarget(c) \/ LeaveRoom(c) \/ Expel(c) \/ CleanUp(c)
  PROVE  /\ \A d \in Conns : d # c => /\ pc'[d] = pc[d]
                                     /\ about'[d] = about[d]
                                     /\ user_id'[d] = user_id[d]
         /\ ~Register(c) => \A d \in Conns : Account(d)' = Account(d)
         /\ Register(c) => Account(c)' = about[c]
<1>1. CASE Quiet(c)
  BY <1>1 DEF Quiet, Connect, CheckAccount, FinishLogin, FindTarget, StoreBan, Disconnect,
     CheckOwner, AnnounceLeave, Goto, End, Register, Account, TypeInv, SessionsTypeOK
<1>2. CASE \E u \in Accounts, tn \in Tenants : Login(c, u, tn)
  BY <1>2 DEF Login, StartLogin, Register, Account, TypeInv, SessionsTypeOK
<1>3. CASE \E u \in Accounts : Kick(c, u) \/ Ban(c, u)
  BY <1>3 DEF Kick, Ban, BeginModeration, Register, Account, TypeInv, SessionsTypeOK
<1>4. CASE Register(c)
  BY <1>4 DEF Register, Goto, Account, TypeInv, SessionsTypeOK
<1>5. CASE NotifyTarget(c) \/ LeaveRoom(c)
  BY <1>5 DEF NotifyTarget, LeaveRoom, Goto, Register, Account, TypeInv, SessionsTypeOK
<1>6. CASE Expel(c) \/ CleanUp(c)
  BY <1>6 DEF Expel, CleanUp, RemoveSession, End, Register, Account, TypeInv, SessionsTypeOK
<1>7. QED
  BY <1>1, <1>2, <1>3, <1>4, <1>5, <1>6

----------------------------------------------------------------------------
SafetyInv ==
  /\ TypeInv
  /\ RemovesKnowingly /\ OwnsOrTold
  /\ NoGhosts
  /\ BannedInTime /\ BanKeepsOut

LEMMA SafetyInit == SessionsInit => SafetyInv
<1> SUFFICES ASSUME SessionsInit PROVE SafetyInv
  OBVIOUS
<1>1. \A u \in Accounts : ~Online(u)
  BY DEF SessionsInit, Init, Online
<1>2. QED
  BY <1>1, TypeInvInit DEF SafetyInv, SessionsInit, RemovesKnowingly, OwnsOrTold, Live,
     Account, NoGhosts, BannedInTime, BanKeepsOut, Committed

(* The session of each account is the same before and after a step that
   registers and removes none. *)
LEMMA QuietEffect ==
  ASSUME NEW c \in Conns,
         Quiet(c) \/ (\E u \in Accounts, tn \in Tenants : Login(c, u, tn))
         \/ (\E u \in Accounts : Kick(c, u) \/ Ban(c, u))
  PROVE  UNCHANGED <<umVars, stale, lost>>
BY DEF Quiet, Connect, CheckAccount, FinishLogin, FindTarget, StoreBan, Disconnect,
       CheckOwner, AnnounceLeave, Login, StartLogin, Kick, Ban, BeginModeration, history

(* Where a step that is neither add_user nor remove_user takes its task to
   the removal of a session: clean-up, whose session it is, ... *)
LEMMA QuietCommits ==
  ASSUME TypeInv, NEW c \in Conns,
         Quiet(c) \/ (\E u \in Accounts, tn \in Tenants : Login(c, u, tn))
         \/ (\E u \in Accounts : Kick(c, u) \/ Ban(c, u)),
         pc'[c] \in Committed
  PROVE  /\ pc'[c] \in {"leaving", "removing"}
         /\ about'[c] = about[c]
         /\ Owns(c, about[c]) \/ pc[c] = "leaving"
<1>1. Quiet(c)
  BY DEF Login, StartLogin, Kick, Ban, BeginModeration, Committed, TypeInv, SessionsTypeOK
<1>2. CheckOwner(c) \/ AnnounceLeave(c)
  BY <1>1 DEF Quiet, Connect, CheckAccount, FinishLogin, FindTarget, StoreBan, Disconnect,
              Goto, End, Committed, TypeInv, SessionsTypeOK
<1>3. QED
  BY <1>2 DEF CheckOwner, AnnounceLeave, Goto, End, Committed, TypeInv, SessionsTypeOK

(* ... or moderation, whose target has been told. *)
LEMMA KnowinglyStep ==
  ASSUME TypeInv, RemovesKnowingly, SessionsNext
  PROVE  RemovesKnowingly'
<1> SUFFICES ASSUME NEW e \in Conns, pc'[e] \in Committed, e \notin stale',
                    users'[about'[e]] # None,
                    NEW d, d = users'[about'[e]].tx
             PROVE  IF pc'[e] \in CleanupSteps THEN d = e
                    ELSE told'[d] # {} \/ Account(d)' # about'[e]
  BY DEF RemovesKnowingly, Online
<1>1. PICK c \in Conns :
           \/ Quiet(c)
           \/ \E u \in Accounts, tn \in Tenants : Login(c, u, tn)
           \/ \E u \in Accounts : Kick(c, u) \/ Ban(c, u)
           \/ Register(c)
           \/ NotifyTarget(c)
           \/ LeaveRoom(c)
           \/ Expel(c) \/ CleanUp(c)
  BY SessionsSteps
<1>2. TypeInv'
  BY TypeInvStep
<1>3. about'[e] \in Accounts
  BY <1>2 DEF TypeInv, LocalsOK, Committed, ModSteps, CleanupSteps
<1>4. d \in Conns
  BY <1>2, <1>3 DEF TypeInv, SessionsTypeOK, TypeOK, Session
<1>5. CASE \/ Quiet(c)
           \/ \E u \in Accounts, tn \in Tenants : Login(c, u, tn)
           \/ \E u \in Accounts : Kick(c, u) \/ Ban(c, u)
  <2>1. UNCHANGED <<umVars, stale>>
    BY <1>5, QuietEffect
  <2>2. Account(d)' = Account(d)
    <3>1. ~Register(c)
      BY <1>5 DEF Quiet, Connect, CheckAccount, FinishLogin, FindTarget, StoreBan,
         Disconnect, CheckOwner, AnnounceLeave, Login, StartLogin, Kick, Ban,
         BeginModeration, Register
    <3>2. QED
      BY <1>4, <1>5, <3>1, OtherLocals
  <2>3. CASE e # c
    BY <1>5, <2>1, <2>2, <2>3, OtherLocals DEF RemovesKnowingly, Online, umVars
  <2>4. CASE e = c
    BY <1>5, <2>1, <2>4, QuietCommits
       DEF RemovesKnowingly, Online, Owns, umVars, Committed, CleanupSteps
  <2>5. QED
    BY <2>3, <2>4
<1>6. CASE Register(c)
  <2>1. e # c
    BY <1>6 DEF Register, Goto, Committed, TypeInv, SessionsTypeOK
  <2>2. pc'[e] = pc[e] /\ about'[e] = about[e]
    BY <1>6, <2>1, OtherLocals
  <2>3. about[e] # about[c] /\ e \notin stale
    BY <1>6, <2>2 DEF Register
  <2>4. users'[about[e]] = users[about[e]]
    BY <1>3, <1>6, <2>2, <2>3, RegisterEffect
  <2>5. CASE d # c
    <3>1. Account(d)' = Account(d)
      BY <1>4, <1>6, <2>5, OtherLocals DEF Account
    <3>2. told[d] # {} => told'[d] # {}
      BY <1>4, <1>6, <2>5, RegisterEffect
    <3>3. QED
      BY <2>2, <2>3, <2>4, <3>1, <3>2 DEF RemovesKnowingly, Online
  <2>6. CASE d = c
    <3>1. Account(d)' # about'[e]
      BY <1>6, <2>2, <2>3, <2>6, OtherLocals
    <3>2. QED
      BY <2>2, <2>3, <2>4, <3>1 DEF RemovesKnowingly, Online
  <2>7. QED
    BY <2>5, <2>6
<1>7. CASE NotifyTarget(c)
  <2>1. users' = users /\ stale' = stale
    BY <1>7, NotifyEffect DEF NotifyTarget, history
  <2>2. Account(d)' = Account(d)
    BY <1>4, <1>7, OtherLocals DEF NotifyTarget, Register
  <2>3. told[d] # {} \/ Owns(d, about[c]) => told'[d] # {}
    BY <1>4, <1>7, NotifyEffect
  <2>4. CASE e # c
    BY <1>7, <2>1, <2>2, <2>3, <2>4, OtherLocals DEF RemovesKnowingly, Online
  <2>5. CASE e = c
    <3>1. about'[c] = about[c] /\ pc'[c] = "unroom"
      BY <1>7 DEF NotifyTarget, Goto, TypeInv, SessionsTypeOK
    <3>2. Owns(d, about[c])
      BY <2>1, <2>5, <3>1 DEF Owns, Online
    <3>3. QED
      BY <2>3, <2>5, <3>1, <3>2 DEF CleanupSteps
  <2>6. QED
    BY <2>4, <2>5
<1>8. CASE LeaveRoom(c)
  <2>1. stale' = stale /\ told' = told
    BY <1>8, LeaveRoomEffect DEF LeaveRoom, history
  <2>2. Account(d)' = Account(d)
    BY <1>4, <1>8, OtherLocals DEF LeaveRoom, Register
  <2>3. about'[e] = about[e] /\ pc[e] \in Committed
        /\ (pc'[e] \in CleanupSteps <=> pc[e] \in CleanupSteps)
    BY <1>8, OtherLocals DEF LeaveRoom, Goto, Committed, CleanupSteps, TypeInv, SessionsTypeOK
  <2>4. users[about[e]] # None /\ users[about[e]].tx = d
    BY <1>3, <1>8, <2>3, LeaveRoomEffect
  <2>5. QED
    BY <2>1, <2>2, <2>3, <2>4 DEF RemovesKnowingly, Online
<1>9. CASE Expel(c) \/ CleanUp(c)
  <2>1. e # c
    BY <1>9 DEF Expel, CleanUp, End, Committed, TypeInv, SessionsTypeOK
  <2>2. pc'[e] = pc[e] /\ about'[e] = about[e]
    BY <1>9, <2>1, OtherLocals
  <2>3. e \notin stale
    BY <1>9, <2>1 DEF Expel, CleanUp, RemoveSession
  <2>4. users'[about[e]] = users[about[e]] /\ told' = told
    BY <1>3, <1>9, <2>2, RemoveEffect
  <2>5. Account(d)' = Account(d)
    BY <1>4, <1>9, OtherLocals DEF Expel, CleanUp, Register
  <2>6. QED
    BY <2>2, <2>3, <2>4, <2>5 DEF RemovesKnowingly, Online
<1>10. QED
  BY <1>1, <1>5, <1>6, <1>7, <1>8, <1>9

LEMMA OwnsOrToldStep ==
  ASSUME TypeInv, RemovesKnowingly, OwnsOrTold, SessionsNext
  PROVE  OwnsOrTold'
<1> SUFFICES ASSUME NEW d \in Conns, Live(d)', Account(d)' # None
             PROVE  Owns(d, Account(d))' \/ told'[d] # {} \/ d \in lost'
  BY DEF OwnsOrTold
<1>1. PICK c \in Conns :
           \/ Quiet(c)
           \/ \E u \in Accounts, tn \in Tenants : Login(c, u, tn)
           \/ \E u \in Accounts : Kick(c, u) \/ Ban(c, u)
           \/ Register(c)
           \/ NotifyTarget(c)
           \/ LeaveRoom(c)
           \/ Expel(c) \/ CleanUp(c)
  BY SessionsSteps
<1>2. Account(d) \in Accounts \cup {None}
  BY DEF TypeInv, SessionsTypeOK, Account
<1>3. CASE Connect(c) /\ d = c
  BY <1>3 DEF TypeInv, SessionsTypeOK, LocalsOK, Connect, Goto, Account
<1>4. CASE ~(Connect(c) /\ d = c) /\ ~Register(c)
  <2>1. Account(d)' = Account(d)
    BY <1>1, <1>4, OtherLocals
  <2>2. Live(d)
    <3>1. CASE d # c
      BY <1>1, <3>1, OtherLocals DEF Live
    <3>2. CASE d = c
      BY <1>1, <1>4, <3>2 DEF Quiet, Connect, CheckAccount, FinishLogin, FindTarget, StoreBan,
         Disconnect, CheckOwner, AnnounceLeave, Login, StartLogin, Kick, Ban, BeginModeration,
         NotifyTarget, LeaveRoom, Expel, CleanUp, RemoveSession, Goto, End, Live, CleanupSteps,
         TypeInv, SessionsTypeOK
    <3>3. QED
      BY <3>1, <3>2
  <2>3. Owns(d, Account(d)) \/ told[d] # {} \/ d \in lost
    BY <2>1, <2>2 DEF OwnsOrTold
  <2>4. CASE \/ Quiet(c)
             \/ \E u \in Accounts, tn \in Tenants : Login(c, u, tn)
             \/ \E u \in Accounts : Kick(c, u) \/ Ban(c, u)
    BY <2>1, <2>3, <2>4, QuietEffect DEF Owns, Online, umVars
  <2>5. CASE NotifyTarget(c)
    BY <2>1, <2>3, <2>5, NotifyEffect DEF NotifyTarget, history, Owns, Online
  <2>6. CASE LeaveRoom(c)
    BY <1>2, <2>1, <2>3, <2>6, LeaveRoomEffect DEF LeaveRoom, history, Owns, Online
  <2>7. CASE Expel(c) \/ CleanUp(c)
    <3>1. told' = told /\ lost \subseteq lost'
      BY <2>7, RemoveEffect DEF Expel, CleanUp, RemoveSession
    <3>2. CASE told[d] # {} \/ d \in lost
      BY <3>1, <3>2
    <3>3. CASE Owns(d, Account(d)) /\ Account(d) # about[c]
      BY <1>2, <2>1, <2>7, <3>3, RemoveEffect DEF Owns, Online
    <3>4. CASE Owns(d, about[c]) /\ Account(d) = about[c]
      <4>1. CASE c \in stale
        BY <2>7, <3>4, <4>1 DEF Expel, CleanUp, RemoveSession
      <4>2. CASE c \notin stale
        <5>1. pc[c] \in Committed /\ (pc[c] \in CleanupSteps <=> ~Expel(c))
          BY <2>7 DEF Expel, CleanUp, Committed, CleanupSteps
        <5>2. IF pc[c] \in CleanupSteps THEN d = c
              ELSE told[d] # {} \/ Account(d) # about[c]
          BY <3>4, <4>2, <5>1 DEF RemovesKnowingly, Owns
        <5>3. CASE told[d] # {}
          BY <3>1, <5>3
        <5>4. CASE CleanUp(c) /\ d = c
          BY <5>4 DEF CleanUp, End, Live, TypeInv, SessionsTypeOK
        <5>5. QED
          BY <2>7, <3>4, <5>1, <5>2, <5>3, <5>4
      <4>3. QED
        BY <4>1, <4>2
    <3>5. QED
      BY <2>3, <3>2, <3>3, <3>4
  <2>8. QED
    BY <1>1, <1>4, <2>4, <2>5, <2>6, <2>7
<1>5. CASE Register(c) /\ d = c
  BY <1>5, RegisterEffect, OtherLocals DEF Owns, Online
<1>6. CASE Register(c) /\ d # c
  <2>1. Account(d)' = Account(d) /\ pc'[d] = pc[d]
    BY <1>6, OtherLocals DEF Account
  <2>2. Owns(d, Account(d)) \/ told[d] # {} \/ d \in lost
    BY <2>1 DEF OwnsOrTold, Live
  <2>3. d \in lost => d \in lost'
    BY <1>6 DEF Register
  <2>4. told[d] # {} \/ Owns(d, about[c]) => told'[d] # {}
    BY <1>6, RegisterEffect
  <2>5. Account(d) # about[c] /\ Owns(d, Account(d)) => Owns(d, Account(d))'
    BY <1>2, <1>6, <2>1, RegisterEffect DEF Owns, Online
  <2>6. QED
    BY <2>1, <2>2, <2>3, <2>4, <2>5
<1>7. QED
  BY <1>3, <1>4, <1>5, <1>6

LEMMA NoGhostsStep ==
  ASSUME TypeInv, NoGhosts, SessionsNext
  PROVE  NoGhosts'
<1> SUFFICES ASSUME NEW u \in Accounts, users'[u] # None,
                    NEW d, d = users'[u].tx, pc'[d] = "done"
             PROVE  user_id'[d] # u
  BY DEF NoGhosts, Online
<1>1. PICK c \in Conns :
           \/ Quiet(c)
           \/ \E v \in Accounts, tn \in Tenants : Login(c, v, tn)
           \/ \E v \in Accounts : Kick(c, v) \/ Ban(c, v)
           \/ Register(c)
           \/ NotifyTarget(c)
           \/ LeaveRoom(c)
           \/ Expel(c) \/ CleanUp(c)
  BY SessionsSteps
<1>2. d \in Conns
  <2>1. TypeInv'
    BY TypeInvStep
  <2>2. QED
    BY <2>1 DEF TypeInv, SessionsTypeOK, TypeOK, Session
<1>3. CASE users[u] # None /\ users[u].tx = d
  <2>1. CASE d # c
    BY <1>1, <1>2, <1>3, <2>1, OtherLocals DEF NoGhosts, Online
  <2>2. CASE d = c /\ (Disconnect(c) \/ CheckOwner(c))
    BY <1>3, <2>2, NoneAssumption DEF Disconnect, CheckOwner, Goto, End, Owns, Online,
       TypeInv, SessionsTypeOK, LocalsOK, CleanupSteps
  <2>3. CASE d = c /\ (Expel(c) \/ CleanUp(c))
    <3>1. u # about[c]
      BY <2>3, RemoveEffect
    <3>2. QED
      BY <2>3, <3>1 DEF Expel, CleanUp, RemoveSession, End,
         TypeInv, SessionsTypeOK, LocalsOK, CleanupSteps
  <2>4. CASE d = c /\ ~(Disconnect(c) \/ CheckOwner(c) \/ Expel(c) \/ CleanUp(c))
    BY <1>1, <2>4 DEF Quiet, Connect, CheckAccount, FinishLogin, FindTarget, StoreBan,
       AnnounceLeave, Login, StartLogin, Kick, Ban, BeginModeration, Register,
       NotifyTarget, LeaveRoom, Goto, End, TypeInv, SessionsTypeOK
  <2>5. QED
    BY <2>1, <2>2, <2>3, <2>4
<1>4. CASE Register(c) /\ u = about[c]
  <2>1. d = c
    BY <1>4, RegisterEffect
  <2>2. pc'[c] = "added"
    BY <1>4 DEF Register, Goto, TypeInv, SessionsTypeOK
  <2>3. QED
    BY <2>1, <2>2
<1>5. CASE ~(Register(c) /\ u = about[c])
  <2>1. users[u] # None /\ users[u].tx = d
    <3>1. CASE \/ Quiet(c)
               \/ \E v \in Accounts, tn \in Tenants : Login(c, v, tn)
               \/ \E v \in Accounts : Kick(c, v) \/ Ban(c, v)
      BY <3>1, QuietEffect DEF umVars
    <3>2. CASE Register(c)
      BY <1>5, <3>2, RegisterEffect
    <3>3. CASE NotifyTarget(c)
      BY <3>3, NotifyEffect
    <3>4. CASE LeaveRoom(c)
      BY <3>4, LeaveRoomEffect
    <3>5. CASE Expel(c) \/ CleanUp(c)
      BY <3>5, RemoveEffect
    <3>6. QED
      BY <1>1, <3>1, <3>2, <3>3, <3>4, <3>5
  <2>2. QED
    BY <1>3, <2>1
<1>6. QED
  BY <1>4, <1>5, <1>3

(* The two facts about bans. *)
LEMMA BansStep ==
  ASSUME TypeInv, BannedInTime, BanKeepsOut, SessionsNext
  PROVE  BannedInTime' /\ BanKeepsOut'
<1>1. PICK c \in Conns :
           \/ Quiet(c)
           \/ \E v \in Accounts, tn \in Tenants : Login(c, v, tn)
           \/ \E v \in Accounts : Kick(c, v) \/ Ban(c, v)
           \/ Register(c)
           \/ NotifyTarget(c)
           \/ LeaveRoom(c)
           \/ Expel(c) \/ CleanUp(c)
  BY SessionsSteps
<1>2. CASE StoreBan(c) /\ banned' # banned
  <2>1. /\ banned' = banned \cup {about[c]} /\ users' = users
        /\ unseen' = unseen \cup {d \in Conns : pc[d] = "admitted" /\ about[d] = about[c]}
        /\ about' = about /\ pc' = [pc EXCEPT ![c] = "notify"] /\ pc[c] = "store"
    BY <1>2 DEF StoreBan, Goto, umVars
  <2>2. BannedInTime'
    BY <2>1 DEF BannedInTime, TypeInv, SessionsTypeOK
  <2>3. pc'[c] = "notify" /\ \A e \in Conns : e # c => pc'[e] = pc[e]
    BY <2>1 DEF TypeInv, SessionsTypeOK
  <2>4. BanKeepsOut'
    BY <2>1, <2>3 DEF BanKeepsOut, Online
  <2>5. QED
    BY <2>2, <2>4
<1>3. ASSUME banned' = banned
      PROVE  /\ unseen \subseteq unseen'
             /\ \A e \in Conns : pc'[e] = "admitted" =>
                  /\ about'[e] = about[e]
                  /\ pc[e] = "admitted" \/ about[e] \notin banned \/ e \in unseen'
             /\ (Expel(c) \/ CleanUp(c) \/ UNCHANGED users \/ LeaveRoom(c) \/ Register(c))
             /\ ~Expel(c) => \A e \in Conns : pc[e] \in {"notify", "unroom", "expel"} =>
                  pc'[e] \in {"notify", "unroom", "expel"} /\ about'[e] = about[e]
  <2>1. CASE \/ Quiet(c)
             \/ \E v \in Accounts, tn \in Tenants : Login(c, v, tn)
             \/ \E v \in Accounts : Kick(c, v) \/ Ban(c, v)
    BY <1>3, <2>1 DEF Quiet, Connect, CheckAccount, FinishLogin, FindTarget, StoreBan,
       Disconnect, CheckOwner, AnnounceLeave, Login, StartLogin, Kick, Ban, BeginModeration,
       Goto, End, history, umVars, TypeInv, SessionsTypeOK
  <2>2. CASE Register(c) \/ NotifyTarget(c) \/ LeaveRoom(c) \/ Expel(c) \/ CleanUp(c)
    BY <2>2 DEF Register, NotifyTarget, LeaveRoom, Expel, CleanUp, RemoveSession,
       Goto, End, history, registry, TypeInv, SessionsTypeOK
  <2>3. QED
    BY <1>1, <2>1, <2>2
<1>4. CASE banned' = banned
  <2>1. BannedInTime'
    BY <1>3, <1>4 DEF BannedInTime
  <2>2. BanKeepsOut'
    <3> SUFFICES ASSUME NEW u \in banned, users'[u] # None, users'[u].tx \notin unseen
                 PROVE  \E e \in Conns : /\ pc'[e] \in {"notify", "unroom", "expel"}
                                         /\ about'[e] = u
      BY <1>3, <1>4 DEF BanKeepsOut, Online
    <3>1. u \in Accounts
      BY DEF TypeInv, SessionsTypeOK
    <3>2. CASE Register(c) /\ u = about[c]
      <4>1. c \in unseen
        BY <3>2 DEF Register, BannedInTime
      <4>2. QED
        BY <3>2, <4>1, RegisterEffect
    <3>3. CASE ~(Register(c) /\ u = about[c])
      <4>1. /\ users[u] # None /\ users[u].tx \notin unseen
            /\ ((Expel(c) \/ CleanUp(c)) => u # about[c])
        BY <1>3, <1>4, <3>1, <3>3, RegisterEffect, RemoveEffect, LeaveRoomEffect
      <4>2. PICK e \in Conns : pc[e] \in {"notify", "unroom", "expel"} /\ about[e] = u
        BY <4>1 DEF BanKeepsOut, Online
      <4>3. CASE ~Expel(c)
        BY <1>3, <1>4, <4>2, <4>3
      <4>4. CASE Expel(c)
        <5>1. e # c
          BY <4>1, <4>2, <4>4
        <5>2. QED
          BY <4>2, <4>4, <5>1, OtherLocals
      <4>5. QED
        BY <4>3, <4>4
    <3>4. QED
      BY <3>2, <3>3
  <2>3. QED
    BY <2>1, <2>2
<1>5. banned' # banned => StoreBan(c)
  BY <1>1 DEF Quiet, Connect, CheckAccount, FinishLogin, FindTarget, Disconnect, CheckOwner,
     AnnounceLeave, Login, StartLogin, Kick, Ban, BeginModeration, Register, NotifyTarget,
     LeaveRoom, Expel, CleanUp, RemoveSession
<1>6. QED
  BY <1>2, <1>4, <1>5

LEMMA SafetyStep == SafetyInv /\ [SessionsNext]_vars => SafetyInv'
<1> SUFFICES ASSUME SafetyInv, [SessionsNext]_vars PROVE SafetyInv'
  OBVIOUS
<1>1. CASE SessionsNext
  BY <1>1, TypeInvStep, KnowinglyStep, OwnsOrToldStep, NoGhostsStep, BansStep DEF SafetyInv
<1>2. CASE UNCHANGED vars
  <2>1. TypeInv'
    BY <1>2, TypeInvStep DEF SafetyInv
  <2>2. QED
    BY <1>2, <2>1 DEF vars, umVars, locals, history, SafetyInv, RemovesKnowingly, OwnsOrTold,
       NoGhosts, BannedInTime, BanKeepsOut, Live, Account, Owns, Online
<1>3. QED
  BY <1>1, <1>2

(* A client whose session is gone has been told so, unless a task that had
   looked at an older session of the account removed it. *)
THEOREM LoserIsTold == SessionsSpec => []OwnsOrTold
<1>1. SafetyInv => OwnsOrTold
  BY DEF SafetyInv
<1>2. QED
  BY <1>1, SafetyInit, SafetyStep, PTL DEF SessionsSpec

(* No session outlives the connection that logged it in. *)
THEOREM SessionsEndWithConnections == SessionsSpec => []NoGhosts
<1>1. SafetyInv => NoGhosts
  BY DEF SafetyInv
<1>2. QED
  BY <1>1, SafetyInit, SafetyStep, PTL DEF SessionsSpec

(* A ban removes its target and keeps it out, up to the logins it raced. *)
THEOREM BanHolds == SessionsSpec => []BanKeepsOut
<1>1. SafetyInv => BanKeepsOut
  BY DEF SafetyInv
<1>2. QED
  BY <1>1, SafetyInit, SafetyStep, PTL DEF SessionsSpec

----------------------------------------------------------------------------
(* The limit on users.  A login in progress counts as much as a user: it was
   let in when there was room for it. *)
OnlineSet == {u \in Accounts : Online(u)}

CapacityInv ==
  /\ TypeInv
  /\ UserCount + Cardinality(LoggingIn) <= MaxUsers + overlap

LEMMA OnlineFinite ==
  IsFiniteSet(OnlineSet) /\ UserCount = Cardinality(OnlineSet) /\ UserCount \in Nat
BY IdsAssumption, FS_Subset, FS_CardinalityType DEF OnlineSet, UserCount

(* Every step either leaves both sets alone, or is one of four. *)
LEMMA CountedStep ==
  ASSUME TypeInv, NEW c \in Conns,
         Quiet(c) \/ (\E u \in Accounts : Kick(c, u) \/ Ban(c, u))
         \/ NotifyTarget(c) \/ LeaveRoom(c),
         ~CheckAccount(c)
  PROVE  OnlineSet' = OnlineSet /\ LoggingIn' = LoggingIn /\ overlap' = overlap
<1>1. OnlineSet' = OnlineSet
  <2>1. CASE Quiet(c) \/ (\E u \in Accounts : Kick(c, u) \/ Ban(c, u))
    BY <2>1, QuietEffect DEF OnlineSet, Online, umVars
  <2>2. CASE NotifyTarget(c)
    BY <2>2, NotifyEffect DEF OnlineSet, Online
  <2>3. CASE LeaveRoom(c)
    BY <2>3, LeaveRoomEffect DEF OnlineSet, Online
  <2>4. QED
    BY <2>1, <2>2, <2>3
<1>2. LoggingIn' = LoggingIn /\ overlap' = overlap
  BY DEF Quiet, Connect, CheckAccount, FinishLogin, FindTarget, StoreBan, Disconnect,
     CheckOwner, AnnounceLeave, Kick, Ban, BeginModeration, NotifyTarget, LeaveRoom,
     Goto, End, history, LoggingIn, TypeInv, SessionsTypeOK
<1>3. QED
  BY <1>1, <1>2

LEMMA CapacityStep ==
  ASSUME CapacityInv, SessionsNext
  PROVE  CapacityInv'
<1>1. PICK c \in Conns :
           \/ Quiet(c)
           \/ \E v \in Accounts, tn \in Tenants : Login(c, v, tn)
           \/ \E v \in Accounts : Kick(c, v) \/ Ban(c, v)
           \/ Register(c)
           \/ NotifyTarget(c)
           \/ LeaveRoom(c)
           \/ Expel(c) \/ CleanUp(c)
  BY SessionsSteps
<1>2. TypeInv /\ TypeInv'
  BY TypeInvStep DEF CapacityInv
<1>3. /\ overlap \in Nat /\ MaxUsers \in Nat
      /\ UserCount \in Nat /\ Cardinality(LoggingIn) \in Nat
      /\ UserCount' \in Nat /\ Cardinality(LoggingIn)' \in Nat
      /\ UserCount = Cardinality(OnlineSet) /\ UserCount' = Cardinality(OnlineSet')
  <2>1. /\ UserCount' = Cardinality(OnlineSet')
        /\ IsFiniteSet(OnlineSet') /\ IsFiniteSet(LoggingIn')
    BY IdsAssumption, SessionsAssumption, FS_Subset DEF OnlineSet, UserCount, LoggingIn
  <2>2. QED
    BY <1>2, <2>1, OnlineFinite, LoggingInFinite, FS_CardinalityType, SessionsAssumption
       DEF TypeInv, SessionsTypeOK
<1>4. CASE \E v \in Accounts, tn \in Tenants : Login(c, v, tn)
  <2>1. /\ UserCount < MaxUsers /\ users' = users
        /\ c \notin LoggingIn /\ LoggingIn' = LoggingIn \cup {c}
        /\ overlap' = IF Cardinality(LoggingIn) > overlap THEN Cardinality(LoggingIn)
                      ELSE overlap
    BY <1>2, <1>4 DEF Login, StartLogin, LoggingIn, umVars, TypeInv, SessionsTypeOK
  <2>2. OnlineSet' = OnlineSet
    BY <2>1 DEF OnlineSet, Online
  <2>3. Cardinality(LoggingIn') = Cardinality(LoggingIn) + 1
    BY <2>1, LoggingInFinite, FS_AddElement
  <2>4. QED
    BY <1>2, <1>3, <2>1, <2>2, <2>3 DEF CapacityInv
<1>5. CASE CheckAccount(c)
  <2>1. users' = users /\ overlap' = overlap /\ LoggingIn' \subseteq LoggingIn
    BY <1>2, <1>5 DEF CheckAccount, Goto, End, LoggingIn, umVars, history,
                      TypeInv, SessionsTypeOK
  <2>2. OnlineSet' = OnlineSet
    BY <2>1 DEF OnlineSet, Online
  <2>3. Cardinality(LoggingIn') <= Cardinality(LoggingIn)
    BY <2>1, LoggingInFinite, FS_Subset
  <2>4. QED
    BY <1>2, <1>3, <2>1, <2>2, <2>3 DEF CapacityInv
<1>6. CASE Register(c)
  <2>1. overlap' = overlap /\ c \in LoggingIn /\ LoggingIn' = LoggingIn \ {c}
    BY <1>2, <1>6 DEF Register, Goto, LoggingIn, TypeInv, SessionsTypeOK
  <2>2. OnlineSet' = OnlineSet \cup {about[c]}
    BY <1>2, <1>6, RegisterEffect DEF OnlineSet, Online
  <2>3. Cardinality(LoggingIn') = Cardinality(LoggingIn) - 1
    BY <2>1, LoggingInFinite, FS_RemoveElement
  <2>4. Cardinality(OnlineSet') <= Cardinality(OnlineSet) + 1
    <3> DEFINE S == OnlineSet
    <3>1. IsFiniteSet(S) /\ Cardinality(S) \in Nat
      BY <1>3, OnlineFinite
    <3> HIDE DEF S
    <3>2. Cardinality(S \cup {about[c]}) = Cardinality(S)
            \/ Cardinality(S \cup {about[c]}) = Cardinality(S) + 1
      BY <3>1, FS_AddElement
    <3>3. Cardinality(S \cup {about[c]}) <= Cardinality(S) + 1
      BY <3>1, <3>2
    <3>4. QED
      BY <2>2, <3>3 DEF S
  <2>5. /\ UserCount' <= UserCount + 1
        /\ Cardinality(LoggingIn)' = Cardinality(LoggingIn) - 1
    BY <1>3, <2>3, <2>4
  <2>6. QED
    BY <1>2, <1>3, <2>1, <2>5 DEF CapacityInv
<1>7. CASE Expel(c) \/ CleanUp(c)
  <2>1. overlap' = overlap /\ LoggingIn' = LoggingIn
    BY <1>2, <1>7 DEF Expel, CleanUp, RemoveSession, End, LoggingIn, TypeInv, SessionsTypeOK
  <2>2. OnlineSet' \subseteq OnlineSet
    BY <1>2, <1>7, RemoveEffect DEF OnlineSet, Online
  <2>3. Cardinality(OnlineSet') <= Cardinality(OnlineSet)
    BY <2>2, OnlineFinite, FS_Subset
  <2>4. QED
    BY <1>2, <1>3, <2>1, <2>3 DEF CapacityInv
<1>8. CASE ~CheckAccount(c) /\ (Quiet(c) \/ (\E v \in Accounts : Kick(c, v) \/ Ban(c, v))
                                \/ NotifyTarget(c) \/ LeaveRoom(c))
  <2>1. OnlineSet' = OnlineSet /\ LoggingIn' = LoggingIn /\ overlap' = overlap
    BY <1>2, <1>8, CountedStep
  <2>2. UserCount' = UserCount /\ Cardinality(LoggingIn)' = Cardinality(LoggingIn)
    BY <1>3, <2>1
  <2>3. QED
    BY <1>2, <2>1, <2>2 DEF CapacityInv
<1>9. QED
  BY <1>1, <1>4, <1>5, <1>6, <1>7, <1>8

(* There are never more users than the limit and the logins that overlapped
   allow: one login at a time keeps the limit. *)
THEOREM CapacityHolds == SessionsSpec => []CapacityUpToOverlap
<1>1. SessionsInit => CapacityInv
  <2> SUFFICES ASSUME SessionsInit PROVE CapacityInv
    OBVIOUS
  <2>1. OnlineSet = {} /\ LoggingIn = {} /\ overlap = 0
    <3>1. \A u \in Accounts : users[u] = None
      BY DEF SessionsInit, Init
    <3>2. \A c \in Conns : pc[c] = "new"
      BY DEF SessionsInit
    <3>3. QED
      BY <3>1, <3>2 DEF SessionsInit, OnlineSet, Online, LoggingIn
  <2>2. UserCount = 0 /\ Cardinality(LoggingIn) = 0
    BY <2>1, OnlineFinite, FS_EmptySet
  <2>3. QED
    BY <2>1, <2>2, TypeInvInit, SessionsAssumption DEF CapacityInv
<1>2. CapacityInv /\ [SessionsNext]_vars => CapacityInv'
  <2> SUFFICES ASSUME CapacityInv, [SessionsNext]_vars PROVE CapacityInv'
    OBVIOUS
  <2>1. CASE UNCHANGED vars
    <3>1. TypeInv'
      BY <2>1, TypeInvStep DEF CapacityInv
    <3>2. QED
      BY <2>1, <3>1 DEF vars, umVars, locals, history, CapacityInv, UserCount, Online, LoggingIn
  <2>2. QED
    BY <2>1, CapacityStep
<1>3. CapacityInv => CapacityUpToOverlap
  <2> SUFFICES ASSUME CapacityInv PROVE CapacityUpToOverlap
    OBVIOUS
  <2>1. /\ overlap \in Nat /\ MaxUsers \in Nat /\ UserCount \in Nat
        /\ Cardinality(LoggingIn) \in Nat
    BY OnlineFinite, LoggingInFinite, SessionsAssumption
       DEF CapacityInv, TypeInv, SessionsTypeOK
  <2>2. QED
    BY <2>1 DEF CapacityInv, CapacityUpToOverlap
<1>4. QED
  BY <1>1, <1>2, <1>3, PTL DEF SessionsSpec
=============================================================================

----------------------------- MODULE HubSession -----------------------------
(***************************************************************************)
(* The hub session kept in client.json (client/src/hubsession.rs,          *)
(* config.rs) and who reads and writes it: hub calls that need an access   *)
(* token, logins, logouts and the settings of the user interface, in       *)
(* several processes that share the file.                                  *)
(*                                                                         *)
(* The hub exchanges a refresh token for the next one; one that comes back *)
(* after that locks its session.  access_token and store hold a mutex of   *)
(* the process and a lock beside the file; everybody else reads the whole  *)
(* file, changes a field and writes the whole file without either.  A      *)
(* write empties the file first, and an empty file reads as a default      *)
(* configuration without a session.  There is one account.                 *)
(***************************************************************************)
EXTENDS Naturals

CONSTANTS
  Threads,
  ProcOf,      \* the process of each thread
  UI,          \* the threads of user interfaces
  Sessions,    \* sessions of the hub, 1..n, the first stored at the start
  MaxTokens,   \* bound: refresh tokens of a session
  MaxCalls,    \* bound: what threads begin to do
  MaxMishaps,  \* bound: lost answers, failed writes and locks, crashes
  NoSession    \* client.json holds no session; nobody holds a lock

ASSUME SessionAssumption ==
  /\ Sessions \subseteq Nat /\ 1 \in Sessions
  /\ MaxTokens \in Nat \ {0} /\ MaxCalls \in Nat /\ MaxMishaps \in Nat
  /\ NoSession \notin Threads \cup [session: Sessions, nr: 1..MaxTokens]

VARIABLES
  hub,        \* of each session: its current refresh token, whether it is
              \* live, and whether a used token locked it
  opened,     \* sessions opened so far
  file,       \* client.json: the token it holds; whole is FALSE from the
              \* emptying to the write, token is then what was there before
  mutex,      \* STATE of each process: who holds it
  flock,      \* who holds the lock beside client.json
  cache,      \* whether STATE has an access token that is valid
  lost,       \* LOST of each process
  at, doing,  \* where each thread is, in which call
  token,      \* the refresh token it read
  want,       \* what it is going to write
  calls, mishaps,
  spoiled,    \* sessions whose current token is nowhere else than here: lost
              \* on its way, not saved, or overwritten
  out         \* the file was written by a logout that nobody else was
              \* under way with, and there was no login since

hsVars == <<hub, opened, file, mutex, flock, cache, lost, at, doing, token, want,
            calls, mishaps, spoiled, out>>

Procs   == {ProcOf[t] : t \in Threads}
Token   == [session: Sessions, nr: 1..MaxTokens]
Stored  == Token \cup {NoSession}
Steps   == {"idle", "mutex", "flock", "read", "send", "load", "truncate", "write",
            "forget", "tell"}
Call    == {"none", "access", "login", "drop", "settings", "logout"}
Locked  == {"access", "login", "drop"}   \* the calls that run under both locks
Saving  == {"load", "truncate", "write"}

Current(k) == k # NoSession /\ hub[k.session].nr = k.nr
Go(t, s)   == at' = [at EXCEPT ![t] = s]
Mishap     == mishaps < MaxMishaps /\ mishaps' = mishaps + 1
Active     == {t \in Threads : at[t] # "idle"}
Contents   == IF file.whole THEN file.token ELSE NoSession

HSInit ==
  /\ hub = [s \in Sessions |-> [nr |-> 1, live |-> s = 1, compromised |-> FALSE]]
  /\ opened = 1
  /\ file = [token |-> [session |-> 1, nr |-> 1], whole |-> TRUE]
  /\ mutex = [p \in Procs |-> NoSession]
  /\ flock = NoSession
  /\ cache = [p \in Procs |-> FALSE]
  /\ lost = [p \in Procs |-> FALSE]
  /\ at = [t \in Threads |-> "idle"]
  /\ doing = [t \in Threads |-> "none"]
  /\ token = [t \in Threads |-> NoSession]
  /\ want = [t \in Threads |-> NoSession]
  /\ calls = 0 /\ mishaps = 0
  /\ spoiled = {} /\ out = FALSE

Begin(t, call) ==
  /\ at[t] = "idle"
  /\ calls < MaxCalls /\ calls' = calls + 1
  /\ doing' = [doing EXCEPT ![t] = call]

(* A hub call needs an access token. *)
AccessToken(t) ==
  /\ Begin(t, "access")
  /\ Go(t, "mutex")
  /\ UNCHANGED <<hub, opened, file, mutex, flock, cache, lost, token, want, mishaps,
                 spoiled, out>>

(* hub_login, hub_verify: the hub has answered with a new session, which is
   to be stored. *)
HubLogin(t) ==
  /\ Begin(t, "login")
  /\ opened + 1 \in Sessions /\ opened' = opened + 1
  /\ hub' = [hub EXCEPT ![opened'].live = TRUE]
  /\ want' = [want EXCEPT ![t] = [session |-> opened', nr |-> 1]]
  /\ Go(t, "mutex")
  /\ out' = FALSE
  /\ UNCHANGED <<file, mutex, flock, cache, lost, token, mishaps, spoiled>>

(* save_volumes, audio_settings, persist_servers, the end of main, ... *)
SaveSettings(t) ==
  /\ t \in UI
  /\ Begin(t, "settings")
  /\ Go(t, "load")
  /\ UNCHANGED <<hub, opened, file, mutex, flock, cache, lost, token, want, mishaps,
                 spoiled, out>>

HubLogout(t) ==
  /\ t \in UI
  /\ Begin(t, "logout")
  /\ Go(t, "load")
  /\ UNCHANGED <<hub, opened, file, mutex, flock, cache, lost, token, want, mishaps,
                 spoiled, out>>

TakeMutex(t) ==
  /\ at[t] = "mutex" /\ mutex[ProcOf[t]] = NoSession
  /\ mutex' = [mutex EXCEPT ![ProcOf[t]] = t]
  /\ Go(t, "flock")
  /\ UNCHANGED <<hub, opened, file, flock, cache, lost, doing, token, want, calls,
                 mishaps, spoiled, out>>

(* lock_file; when it fails the call goes on without. *)
LockFile(t) ==
  /\ at[t] = "flock"
  /\ Go(t, IF doing[t] = "access" THEN "read" ELSE "load")
  /\ \/ flock = NoSession /\ flock' = t /\ UNCHANGED <<mishaps, spoiled>>
     \/ Mishap /\ spoiled' = Sessions /\ UNCHANGED flock
  /\ UNCHANGED <<hub, opened, file, mutex, cache, lost, doing, token, want, calls, out>>

\* Both locks are given up.
Release(t) ==
  /\ mutex' = [mutex EXCEPT ![ProcOf[t]] = NoSession]
  /\ flock' = IF flock = t THEN NoSession ELSE flock
  /\ Go(t, "idle")

(* A plausible slip: the token of the process's last call is used. *)
OwnToken(t) == IF token[t] # NoSession THEN token[t] ELSE Contents

StoredToken(t) == Contents

(* No session, or an access token in the cache: the call is over. *)
ReadSession(t) ==
  LET k == StoredToken(t)
  IN  /\ at[t] = "read"
      /\ token' = [token EXCEPT ![t] = k]
      /\ IF k = NoSession \/ cache[ProcOf[t]]
         THEN Release(t)
         ELSE Go(t, "send") /\ UNCHANGED <<mutex, flock>>
      /\ UNCHANGED <<hub, opened, file, cache, lost, doing, want, calls, mishaps, spoiled, out>>

(* The hub takes the current token of a live session and gives the next; a
   used one locks the session. *)
Exchanged(k) ==
  IF ~hub[k.session].live THEN hub
  ELSE IF hub[k.session].nr = k.nr THEN [hub EXCEPT ![k.session].nr = @ + 1]
  ELSE [hub EXCEPT ![k.session].live = FALSE, ![k.session].compromised = TRUE]

Refresh(t) ==
  LET k  == token[t]
      ok == hub[k.session].live /\ Current(k)
  IN  /\ at[t] = "send"
      /\ ok => k.nr < MaxTokens
      /\ hub' = Exchanged(k)
      /\ Go(t, "load")
      /\ IF ok
         THEN want' = [want EXCEPT ![t] = [k EXCEPT !.nr = @ + 1]] /\ UNCHANGED <<doing, cache>>
         ELSE /\ doing' = [doing EXCEPT ![t] = "drop"]
              /\ want' = [want EXCEPT ![t] = NoSession]
              /\ cache' = [cache EXCEPT ![ProcOf[t]] = FALSE]
      /\ UNCHANGED <<opened, file, mutex, flock, lost, token, calls, mishaps, spoiled, out>>

(* RefreshError::Failed: the request or the answer gets lost. *)
RefreshFails(t) ==
  LET k == token[t]
  IN  /\ at[t] = "send" /\ Mishap
      /\ \/ UNCHANGED <<hub, spoiled>>
         \/ /\ k.nr < MaxTokens
            /\ hub' = Exchanged(k)
            /\ spoiled' = spoiled \cup {k.session}
      /\ Release(t)
      /\ UNCHANGED <<opened, file, cache, lost, doing, token, want, calls, out>>

(* load_config, and what the caller changes in it: save_bundle puts the new
   token in, a rejected session goes unless another one was stored meanwhile,
   a logout without a session ends, settings leave the session as it is. *)
LoadConfig(t) ==
  /\ at[t] = "load"
  /\ CASE doing[t] = "drop" /\ Contents # token[t] ->
            /\ lost' = [lost EXCEPT ![ProcOf[t]] = TRUE]
            /\ Release(t)
            /\ UNCHANGED <<token, want>>
       [] doing[t] = "logout" /\ Contents = NoSession ->
            Go(t, "idle") /\ UNCHANGED <<mutex, flock, lost, token, want>>
       [] OTHER ->
            /\ Go(t, "truncate")
            /\ token' = IF doing[t] = "logout" THEN [token EXCEPT ![t] = Contents] ELSE token
            /\ want' = IF doing[t] \in {"settings", "logout"}
                       THEN [want EXCEPT ![t] = IF doing[t] = "logout" THEN NoSession ELSE Contents]
                       ELSE want
            /\ UNCHANGED <<mutex, flock, lost>>
  /\ UNCHANGED <<hub, opened, file, cache, doing, calls, mishaps, spoiled, out>>

(* save_config opens the file, which empties it. *)
Truncate(t) ==
  /\ at[t] = "truncate"
  /\ file' = [file EXCEPT !.whole = FALSE]
  /\ Go(t, "write")
  /\ UNCHANGED <<hub, opened, mutex, flock, cache, lost, doing, token, want, calls,
                 mishaps, spoiled, out>>

\* Settings that write another session than the one they replace spoil both.
Overwritten(t) ==
  IF doing[t] = "settings" /\ want[t] # file.token
  THEN {k.session : k \in {want[t], file.token} \ {NoSession}}
  ELSE {}

(* A plausible slip: a logout leaves the session in the file. *)
AsLoaded(t) == IF doing[t] = "logout" THEN token[t] ELSE want[t]

Content(t) == want[t]

(* A failed write (let _ = save_config) goes unnoticed. *)
Write(t) ==
  /\ at[t] = "write"
  /\ \/ /\ file' = [token |-> Content(t), whole |-> TRUE]
        /\ spoiled' = spoiled \cup Overwritten(t)
        /\ out' = IF doing[t] = "logout" THEN Active = {t} ELSE out
        /\ UNCHANGED mishaps
     \/ /\ Mishap
        /\ spoiled' = IF want[t] = NoSession THEN spoiled ELSE spoiled \cup {want[t].session}
        /\ UNCHANGED <<file, out>>
  /\ IF doing[t] \in Locked THEN Release(t)
     ELSE Go(t, IF doing[t] = "logout" THEN "forget" ELSE "idle") /\ UNCHANGED <<mutex, flock>>
  /\ cache' = IF doing[t] \in {"access", "login"} THEN [cache EXCEPT ![ProcOf[t]] = TRUE] ELSE cache
  /\ lost' = IF doing[t] = "drop" THEN [lost EXCEPT ![ProcOf[t]] = TRUE] ELSE lost
  /\ UNCHANGED <<hub, opened, doing, token, want, calls>>

(* forget waits for the mutex. *)
Forget(t) ==
  /\ at[t] = "forget" /\ mutex[ProcOf[t]] = NoSession
  /\ cache' = [cache EXCEPT ![ProcOf[t]] = FALSE]
  /\ Go(t, "tell")
  /\ UNCHANGED <<hub, opened, file, mutex, flock, lost, doing, token, want, calls, mishaps,
                 spoiled, out>>

(* hub::logout in the background; the hub ends the session if the token is its
   current one.  A failure goes unnoticed. *)
TellHub(t) ==
  LET k == token[t]
  IN  /\ at[t] = "tell"
      /\ \/ hub' = IF Current(k) THEN [hub EXCEPT ![k.session].live = FALSE] ELSE hub
         \/ UNCHANGED hub
      /\ Go(t, "idle")
      /\ UNCHANGED <<opened, file, mutex, flock, cache, lost, doing, token, want, calls,
                     mishaps, spoiled, out>>

(* take_lost: the timer of the user interface shows the login page. *)
TakeLost(t) ==
  /\ t \in UI /\ at[t] = "idle" /\ lost[ProcOf[t]]
  /\ lost' = [lost EXCEPT ![ProcOf[t]] = FALSE]
  /\ UNCHANGED <<hub, opened, file, mutex, flock, cache, at, doing, token, want, calls,
                 mishaps, spoiled, out>>

(* The access token runs out. *)
Expire(p) ==
  /\ cache[p]
  /\ cache' = [cache EXCEPT ![p] = FALSE]
  /\ UNCHANGED <<hub, opened, file, mutex, flock, lost, at, doing, token, want, calls,
                 mishaps, spoiled, out>>

(* A process dies; the system takes its lock off the file.  A token it was
   about to save is gone. *)
Crash(p) ==
  LET mine == {t \in Active : ProcOf[t] = p}
  IN  /\ mine # {} /\ Mishap
      /\ at' = [t \in Threads |-> IF t \in mine THEN "idle" ELSE at[t]]
      /\ mutex' = [mutex EXCEPT ![p] = NoSession]
      /\ flock' = IF flock \in mine THEN NoSession ELSE flock
      /\ cache' = [cache EXCEPT ![p] = FALSE]
      /\ lost' = [lost EXCEPT ![p] = FALSE]
      /\ spoiled' = spoiled \cup {want[t].session : t \in
                      {t \in mine : at[t] \in Saving /\ doing[t] = "access"}}
      /\ UNCHANGED <<hub, opened, file, doing, token, want, calls, out>>

HSNext ==
  \/ \E t \in Threads :
       \/ AccessToken(t) \/ HubLogin(t) \/ SaveSettings(t) \/ HubLogout(t)
       \/ TakeMutex(t) \/ LockFile(t) \/ ReadSession(t) \/ Refresh(t) \/ RefreshFails(t)
       \/ LoadConfig(t) \/ Truncate(t) \/ Write(t) \/ Forget(t) \/ TellHub(t) \/ TakeLost(t)
  \/ \E p \in Procs : Expire(p) \/ Crash(p)

HSSpec == HSInit /\ [][HSNext]_hsVars

----------------------------------------------------------------------------
(* Every variable has its type. *)
HSTypeOK ==
  /\ hub \in [Sessions -> [nr: 1..MaxTokens, live: BOOLEAN, compromised: BOOLEAN]]
  /\ opened \in Sessions
  /\ file \in [token: Stored, whole: BOOLEAN]
  /\ mutex \in [Procs -> Threads \cup {NoSession}]
  /\ flock \in Threads \cup {NoSession}
  /\ cache \in [Procs -> BOOLEAN] /\ lost \in [Procs -> BOOLEAN]
  /\ at \in [Threads -> Steps] /\ doing \in [Threads -> Call]
  /\ token \in [Threads -> Stored] /\ want \in [Threads -> Stored]
  /\ calls \in 0..MaxCalls /\ mishaps \in 0..MaxMishaps
  /\ spoiled \subseteq Sessions /\ out \in BOOLEAN

(* hubsession.rs:3: no two refreshes, of one process or of several, show the
   hub the same token: a session is locked only if its current token was lost
   on the way or in a crash, was not saved, was overwritten by settings read
   before it, or the lock beside the file failed. *)
SessionSurvives == \A s \in Sessions : hub[s].compromised => s \in spoiled

(* After a logout that nobody else was under way with no session comes back
   into client.json before the next login, whatever else is called
   (actions.rs:896). *)
LogoutHolds == out => Contents = NoSession
=============================================================================

---------------------------- MODULE MCClientParts ----------------------------
(* The hub session, the hub tab, file streams, sound devices and the mobile
   library for TLC.  The parts share no variable, so none disturbs another: a
   behaviour runs one and leaves the others as they started. *)
EXTENDS HubSession, HubDirectory, FileStreams, AudioDevices, MobileCore, TLC

CONSTANTS u1, w1, u2, p1, p2, x, y, a1, a2, r1, r2

VARIABLE part

\* One client with a user interface and a background task, and a second client.
Processes == (u1 :> p1) @@ (w1 :> p1) @@ (u2 :> p2)

Swap(v, w) == (v :> w) @@ (w :> v)

\* What is alike in a part: accounts and addresses in the hub tab, rooms in the
\* library.  Permutations({p2}) adds the identity.
Symmetry == Permutations({p2}) \cup {Swap(x, y) @@ Swap(r1, r2), Swap(a1, a2)}

sessionAndTab == <<hsVars, hdVars>>
sound         == <<fsVars, adVars>>

\* A part that does not run has one initial state, up to symmetry.
PartsInit ==
  /\ HSInit /\ HDInit /\ FSInit /\ ADInit /\ MCInit
  /\ part \in {"session", "tab", "streams", "devices", "mobile"}
  /\ part # "tab" => account = NoAccount /\ address = Gone

PartsNext ==
  \/ part = "session" /\ HSNext /\ UNCHANGED <<hdVars, sound, mcVars, part>>
  \/ part = "tab" /\ HDNext /\ UNCHANGED <<hsVars, sound, mcVars, part>>
  \/ part = "streams" /\ FSNext /\ UNCHANGED <<sessionAndTab, adVars, mcVars, part>>
  \/ part = "devices" /\ ADNext /\ UNCHANGED <<sessionAndTab, fsVars, mcVars, part>>
  \/ part = "mobile" /\ MCNext /\ UNCHANGED <<sessionAndTab, sound, part>>

PartsSpec == PartsInit /\ [][PartsNext]_<<sessionAndTab, sound, mcVars, part>>
=============================================================================

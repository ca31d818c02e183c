---------------------------- MODULE MCServerParts ----------------------------
(* Chat, uploads, downloads, logins and room views for TLC.  The parts share no
   variable, so none disturbs another: a behaviour runs one and leaves the
   others as they started. *)
EXTENDS OfflineMessages, Uploads, FileDownloads, Logins, RoomView, TLC

CONSTANTS f0, f2, ann, bob, a1, b1, b2, c1, c2, r1, r2, t0, t1, t2,
          u1, u2, s1, s2, ip, n1, n2, n3, i1, i2, sub, v1, v2

VARIABLE part

ChatAccounts  == (a1 :> ann) @@ (b1 :> bob) @@ (b2 :> bob)
ClientTenants == (c1 :> t1) @@ (c2 :> t2)
RoomTenants   == (r1 :> t1) @@ (r2 :> t2)
BlocksOfFile  == (f0 :> 0) @@ (f2 :> 2)

\* Both connections come from one address, both identities bring one name.
AddressOf     == (s1 :> ip) @@ (s2 :> ip)
DisplayNames  == (i1 :> n1) @@ (i2 :> n1)
SubOwner      == sub :> i1

Swap(x, y) == (x :> y) @@ (y :> x)

\* What is alike in each part: the recipient's connections, the uploads and the
\* sockets; the tenants with their client and room, and the names nobody brings.
\* Only one part runs, so its permutation may move the others' values as well.
Symmetry ==
  Permutations({ip}) \cup
  {Swap(b1, b2) @@ Swap(u1, u2) @@ Swap(s1, s2) @@ Swap(v1, v2),
   Swap(t1, t2) @@ Swap(c1, c2) @@ Swap(r1, r2) @@ Swap(n2, n3)}

files == <<upVars, dlVars>>

\* A part that does not run has one initial state.
PartsInit ==
  /\ OMInit /\ UpInit /\ DLInit /\ LoginsInit /\ RVInit
  /\ part \in {"chat", "uploads", "downloads", "logins", "views"}
  /\ part # "uploads" => ~multi_tenant
  /\ part # "logins" => mode = "local" /\ registration_open /\ \A r \in users_table : r.name = n1

PartsNext ==
  \/ part = "chat" /\ OMNext /\ UNCHANGED <<files, loginVars, rvVars, part>>
  \/ part = "uploads" /\ UpNext /\ UNCHANGED <<omVars, dlVars, loginVars, rvVars, part>>
  \/ part = "downloads" /\ DLNext /\ UNCHANGED <<omVars, upVars, loginVars, rvVars, part>>
  \/ part = "logins" /\ LoginsNext /\ UNCHANGED <<omVars, files, rvVars, part>>
  \/ part = "views" /\ RVNext /\ UNCHANGED <<omVars, files, loginVars, part>>

PartsSpec == PartsInit /\ [][PartsNext]_<<omVars, files, loginVars, rvVars, part>>
=============================================================================

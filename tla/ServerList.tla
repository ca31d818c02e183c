----------------------------- MODULE ServerList -----------------------------
(***************************************************************************)
(* The bookmarks of the client, the form they fill and the server id that  *)
(* goes with a central login (client/src/actions.rs, main.rs).  A hub      *)
(* hosts many servers under one address: only the id tells them apart, and *)
(* it is kept beside the form, not in it.                                  *)
(***************************************************************************)
EXTENDS Naturals, Sequences, SequencesExt

CONSTANTS
  HubServers,    \* ids of the servers of the directory
  MaxBookmarks,  \* bookmarks kept (bound)
  NoId,          \* pending_server_id is None, a bookmark's server_id is empty
  Typed,         \* the form was last edited by hand
  NotYet

VARIABLES
  servers,       \* the bookmarks: st.servers and client.json
  entry,         \* what filled the form last
  use_central,   \* the box of the form
  pending_server_id,
  session_asked  \* the last connection asked for

slVars == <<servers, entry, use_central, pending_server_id, session_asked>>

Bookmarks == [central : BOOLEAN, id : HubServers \cup {NoId}]

(* The form after the start is that of the first bookmark ... *)
FirstEntry(saved) == IF saved = <<>> THEN Typed ELSE Head(saved)
FirstCentral(saved) == saved # <<>> /\ Head(saved).central

SLInit ==
  /\ servers \in {<<>>} \cup {<<b>> : b \in Bookmarks}
  /\ entry = FirstEntry(servers)
  /\ use_central = FirstCentral(servers)
  /\ pending_server_id = NoId
  /\ session_asked = NotYet

(* ... but its server id is not taken over. *)
RestartClient ==
  /\ entry' = FirstEntry(servers)
  /\ use_central' = FirstCentral(servers)
  /\ pending_server_id' = NoId
  /\ session_asked' = NotYet
  /\ UNCHANGED servers

FillFormFromServer(i) ==
  /\ i \in DOMAIN servers
  /\ entry' = servers[i]
  /\ use_central' = servers[i].central
  /\ pending_server_id' = servers[i].id
  /\ UNCHANGED <<servers, session_asked>>

(* The user edits the form; the id stays what it was. *)
TypeForm(central) ==
  /\ entry' = Typed /\ use_central' = central
  /\ UNCHANGED <<servers, pending_server_id, session_asked>>

SaveBookmark ==
  /\ Len(servers) < MaxBookmarks
  /\ servers' = Append(servers, [central |-> use_central, id |-> pending_server_id])
  /\ UNCHANGED <<entry, use_central, pending_server_id, session_asked>>

RemoveServer(i) ==
  /\ i \in DOMAIN servers
  /\ servers' = RemoveAt(servers, i)
  /\ UNCHANGED <<entry, use_central, pending_server_id, session_asked>>

ConnectionTo(central, id, of) == [central |-> central, id |-> id, of |-> of]

DoConnect ==
  /\ session_asked' = ConnectionTo(use_central, pending_server_id, entry)
  /\ UNCHANGED <<servers, entry, use_central, pending_server_id>>

(* hub_join_selected fills the form and connects. *)
HubJoinSelected(s) ==
  /\ entry' = [central |-> TRUE, id |-> s]
  /\ use_central' = TRUE
  /\ pending_server_id' = s
  /\ session_asked' = ConnectionTo(TRUE, s, entry')
  /\ UNCHANGED servers

SLNext ==
  \/ RestartClient \/ SaveBookmark \/ DoConnect
  \/ \E i \in DOMAIN servers : FillFormFromServer(i) \/ RemoveServer(i)
  \/ \E c \in BOOLEAN : TypeForm(c)
  \/ \E s \in HubServers : HubJoinSelected(s)

SLSpec == SLInit /\ [][SLNext]_slVars

(* Every variable has its type. *)
SLTypeOK ==
  /\ servers \in Seq(Bookmarks) /\ Len(servers) <= MaxBookmarks
  /\ entry \in Bookmarks \cup {Typed} /\ use_central \in BOOLEAN
  /\ pending_server_id \in HubServers \cup {NoId}

(* config.rs:36: the server id of a bookmark is the one of the server that is
   joined: a connection from a form that shows a bookmark or an entry of the
   directory, and was not edited since, asks for that server.  At start-up
   (main.rs:158) the form is filled without its id. *)
JoinsServerShown ==
  session_asked # NotYet =>
    (session_asked.central /\ session_asked.of # Typed => session_asked.id = session_asked.of.id)
=============================================================================

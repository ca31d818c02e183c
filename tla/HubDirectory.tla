---------------------------- MODULE HubDirectory ----------------------------
(***************************************************************************)
(* The hub tab of the client (client/src/actions.rs, hub.rs, handlers.rs): *)
(* the page that goes with the session, the list of servers, and the       *)
(* server the user owns.  The UI thread starts a background task for each  *)
(* call to the hub and handles the events the tasks leave behind, one      *)
(* after the other; invitations it answers itself and waits.               *)
(*                                                                         *)
(* The session is in client.json.  Tasks that store or renew it take turns *)
(* (hubsession.rs), but the UI thread reads and writes the file beside     *)
(* them, and while one writes, it is empty.  The tokens, the lock and      *)
(* other clients with the same file are HubSession's: here a session is    *)
(* found accepted, rejected or out of reach.                               *)
(***************************************************************************)
EXTENDS Naturals, Sequences, FiniteSets

CONSTANTS
  HubAccounts,
  Addresses,   \* addresses a server may have
  HubAddress,  \* the one the hub gives a server that it hosts itself
  TaskIds,     \* background tasks at a time (bound)
  MaxActs,     \* what the user does (bound)
  NoAccount, NoTask, NoList, NoDialog,
  Gone,        \* the server is not in the directory
  Untyped      \* the address field is left empty

ASSUME HubAssumption ==
  /\ MaxActs \in Nat
  /\ NoTask \notin TaskIds /\ NoTask \notin [kind : {"load"}, scope : {"public", "mine"}]
  /\ NoAccount \notin HubAccounts

VARIABLES
  account,         \* the session in client.json, or in what is being written there
  writer,          \* the task that stores or renews it
  renewed,         \* the session it renews, until it writes it
  access,          \* of each task: the account its access token is for
  session_lost,    \* LOST: the hub rejected it, the UI does not know yet
  hub_view, page,  \* the mode of the tab without a session; the page shown
  scope,           \* the choice between the directory and "my servers"
  list,            \* the servers shown
  edit_dialog,     \* the server the dialog was opened for, its address then
  task,            \* the background tasks
  ui_events,       \* on their way to the UI thread
  server,          \* its id at the hub: each one created has the next
  address,         \* of the server, at the hub
  wanted,          \* the address its owner last asked for
  acts,
  mixed,           \* the list may be of another scope or account: its load failed,
                   \* or was left out for want of a session, or met another load
                   \* or the end of its session
  misread,         \* the page is that of a file which a task was just writing, or
                   \* the session was put back or erased by a save beside another
  outdated         \* an address may be taken back: an edit of the server began
                   \* from an older address, or beside another edit

hdVars == <<account, writer, renewed, access, session_lost, hub_view, page, scope, list,
            edit_dialog, task, ui_events, server, address, wanted, acts, mixed, misread, outdated>>

renewal == <<writer, renewed>>
shown  == <<hub_view, page, scope, list, edit_dialog>>
at_hub == <<server, address, wanted>>
doubts == <<mixed, misread, outdated>>

Views == {"login", "register", "reset"}

HDInit ==
  /\ account \in HubAccounts \cup {NoAccount}
  /\ writer = NoTask /\ renewed = NoAccount /\ access = [k \in TaskIds |-> NoAccount]
  /\ session_lost = FALSE /\ hub_view = "login"
  /\ page = IF account = NoAccount THEN "login" ELSE "account"
  /\ scope = "public" /\ list = NoList /\ edit_dialog = NoDialog
  /\ task = [k \in TaskIds |-> NoTask] /\ ui_events = <<>>
  /\ server = 0 /\ address \in Addresses \cup {Gone} /\ wanted = address
  /\ acts = 0 /\ mixed = FALSE /\ misread = FALSE /\ outdated = FALSE

AtRest == (\A k \in TaskIds : task[k] = NoTask) /\ ui_events = <<>> /\ ~session_lost

(* A list is being loaded, or on its way to the UI thread. *)
Loading ==
  \/ \E k \in TaskIds : task[k] # NoTask /\ task[k].kind = "load"
  \/ \E i \in DOMAIN ui_events : ui_events[i].kind = "servers"

(* The file is empty while a task writes it: load_config finds no session. *)
Emptied == writer # NoTask /\ renewed = NoAccount

Found == IF Emptied THEN NoAccount ELSE account

(* hub_page *)
PageOf(a, view) == IF a = NoAccount THEN view ELSE "account"

(* update_hub_view *)
UpdateHubView(view) ==
  /\ page' = PageOf(Found, view)
  /\ misread' = (Found # account)

UserActs == acts < MaxActs /\ acts' = acts + 1 /\ edit_dialog = NoDialog

Spawn(t) ==
  \E k \in TaskIds : /\ task[k] = NoTask
                     /\ \A j \in TaskIds : task[j] = NoTask => k <= j
                     /\ task' = [task EXCEPT ![k] = t]

----------------------------------------------------------------------------
(* The user interface *)

(* hub_load_directory, of what the choice s says. *)
LoadDirectory(s) ==
  \/ Found = NoAccount /\ mixed' = (mixed \/ Emptied) /\ UNCHANGED task
  \/ Found # NoAccount /\ mixed' = Loading /\ Spawn([kind |-> "load", scope |-> s])

(* A plausible slip: the list is loaded before the choice is set. *)
LoadThenSelect == scope

SelectedFirst == "mine"

HubShowMyServers ==
  /\ scope' = "mine"
  /\ LoadDirectory(SelectedFirst)

SelectView(view) ==
  /\ UserActs /\ page # "account"
  /\ hub_view' = view
  /\ UpdateHubView(view)
  /\ UNCHANGED <<account, renewal, access, session_lost, scope, list, edit_dialog, task, ui_events,
                 at_hub, mixed, outdated>>

(* The refresh button, the search field, or the choice itself. *)
SelectScope(s) ==
  /\ UserActs /\ page = "account"
  /\ scope' = s
  /\ LoadDirectory(s)
  /\ UNCHANGED <<account, renewal, access, session_lost, hub_view, page, list, edit_dialog,
                 ui_events, at_hub, misread, outdated>>

(* hub_login, and hub_verify at the end of a registration. *)
StartLogin(a) ==
  /\ UserActs /\ page \in {"login", "register"}
  /\ Spawn([kind |-> "login", account |-> a])
  /\ UNCHANGED <<account, renewal, access, session_lost, shown, ui_events, at_hub, doubts>>

StartLogout ==
  /\ UserActs /\ page = "account" /\ Found # NoAccount
  /\ Spawn([kind |-> "logout"])
  /\ account' = NoAccount
  /\ hub_view' = "login" /\ page' = "login"
  /\ list' = NoList
  /\ mixed' = Loading /\ misread' = FALSE
  /\ UNCHANGED <<renewal, access, session_lost, scope, edit_dialog, ui_events, at_hub, outdated>>

(* The settings or the bookmarks are saved as they are read, without a session
   when the file is empty; what is written last stays. *)
SettingsSaved ==
  /\ UserActs /\ Emptied
  /\ account' = NoAccount
  /\ mixed' = TRUE /\ misread' = TRUE
  /\ UNCHANGED <<renewal, access, session_lost, shown, task, ui_events, at_hub, outdated>>

(* The hub rejects the session while the UI thread waits for it, or a task. *)
Rejected == account' = NoAccount /\ session_lost' = TRUE

(* hub_invites: answered one by one on the UI thread, then the list is loaded. *)
HubInvites ==
  /\ UserActs /\ page = "account"
  /\ account # NoAccount /\ writer = NoTask
  /\ \/ HubShowMyServers /\ UNCHANGED <<account, session_lost>>
     \/ Rejected /\ UNCHANGED <<scope, task, mixed>>
  /\ UNCHANGED <<renewal, access, hub_view, page, list, edit_dialog, ui_events, at_hub, misread,
                 outdated>>

HubCreateServer(typed, private) ==
  /\ UserActs /\ page = "account" /\ Found # NoAccount
  /\ Spawn([kind |-> "create", private |-> private,
            address |-> IF typed = Untyped THEN HubAddress ELSE typed])
  /\ UNCHANGED <<account, renewal, access, session_lost, shown, ui_events, at_hub, doubts>>

Listed == list # NoList /\ list.address # Gone

HubDeleteServer ==
  /\ UserActs /\ Listed
  /\ Spawn([kind |-> "delete", server |-> list.server])
  /\ UNCHANGED <<account, renewal, access, session_lost, shown, ui_events, at_hub, doubts>>

(* Nothing else is going to change the address the list shows. *)
UpToDate ==
  /\ list.address = address
  /\ \A k \in TaskIds : task[k] # NoTask => task[k].kind # "edit"

(* hub_edit_server: the dialog is filled from the list; events are handled
   while it is open. *)
OpenEditDialog ==
  /\ UserActs /\ Listed
  /\ edit_dialog' = [server |-> list.server, address |-> list.address]
  /\ outdated' = (outdated \/ (list.server = server /\ ~UpToDate))
  /\ UNCHANGED <<account, renewal, access, session_lost, hub_view, page, scope, list, task,
                 ui_events, at_hub, mixed, misread>>

(* A plausible slip: an empty field is passed on. *)
AsTyped(typed, before) == typed

OrAsBefore(typed, before) == IF typed = Untyped THEN before ELSE typed

CloseEditDialog(typed) ==
  /\ edit_dialog # NoDialog
  /\ edit_dialog' = NoDialog
  /\ Spawn([kind |-> "edit", server |-> edit_dialog.server, typed |-> typed,
            address |-> OrAsBefore(typed, edit_dialog.address)])
  /\ UNCHANGED <<account, renewal, access, session_lost, hub_view, page, scope, list, ui_events,
                 at_hub, acts, doubts>>

CancelEditDialog ==
  /\ edit_dialog # NoDialog
  /\ edit_dialog' = NoDialog
  /\ UNCHANGED <<account, renewal, access, session_lost, hub_view, page, scope, list, task,
                 ui_events, at_hub, acts, doubts>>

----------------------------------------------------------------------------
(* The background tasks *)

Done(k) ==
  /\ task' = [task EXCEPT ![k] = NoTask]
  /\ access' = [access EXCEPT ![k] = NoAccount]

Post(e) == ui_events' = ui_events \o e

Notice    == [kind |-> "msg"]
Reload(mine) == [kind |-> "reload", mine |-> mine]

(* access_token: the task reads the session, in its turn. *)
AsksForToken(k) ==
  /\ task[k] # NoTask /\ task[k].kind \notin {"login", "logout"}
  /\ access[k] = NoAccount /\ writer = NoTask /\ account # NoAccount

(* The access token is good for a while yet. *)
TokenCached(k) ==
  /\ AsksForToken(k)
  /\ access' = [access EXCEPT ![k] = account]
  /\ UNCHANGED <<account, renewal, session_lost, shown, task, ui_events, at_hub, acts, doubts>>

Renews(k) ==
  /\ AsksForToken(k)
  /\ writer' = k /\ renewed' = account
  /\ UNCHANGED <<account, access, session_lost, shown, task, ui_events, at_hub, acts, doubts>>

(* save_bundle writes what was read before, whatever became of it since. *)
RenewalWritten(k) ==
  /\ writer = k /\ renewed # NoAccount
  /\ access' = [access EXCEPT ![k] = renewed]
  /\ account' = renewed /\ renewed' = NoAccount
  /\ mixed' = (mixed \/ account' # account) /\ misread' = (misread \/ account' # account)
  /\ UNCHANGED <<writer, session_lost, shown, task, ui_events, at_hub, acts, outdated>>

RenewalSaved(k) ==
  /\ writer = k /\ Emptied /\ access[k] # NoAccount
  /\ writer' = NoTask
  /\ UNCHANGED <<account, renewed, access, session_lost, shown, task, ui_events, at_hub, acts,
                 doubts>>

(* The hub knows a server by its id. *)
AtHub(id) == address # Gone /\ id = server

Runs(k, kind) ==
  /\ task[k] # NoTask /\ task[k].kind = kind
  /\ Done(k)
  /\ UNCHANGED <<shown, acts>>

(* The calls that need an access token, made with it. *)
Calls(k, kind) == Runs(k, kind) /\ access[k] # NoAccount /\ writer # k

(* The hub cannot be reached, refuses, or there is no session any more. *)
TaskFails(k) ==
  /\ task[k] # NoTask /\ ~(writer = k /\ Emptied)
  /\ \/ task[k].kind \in {"login", "logout"} \/ access[k] # NoAccount
     \/ writer \in {k, NoTask}
  /\ Done(k)
  /\ Post(<<Notice>>)
  /\ IF writer = k THEN writer' = NoTask /\ renewed' = NoAccount ELSE UNCHANGED renewal
  /\ \/ UNCHANGED <<account, session_lost>>
     \/ (writer = k \/ AsksForToken(k)) /\ Rejected
  /\ mixed' = (mixed \/ task[k].kind = "load")
  /\ UNCHANGED <<shown, acts, at_hub, misread, outdated>>

(* The list as the hub has it for the account of the token. *)
ListArrives(k) ==
  /\ Calls(k, "load")
  /\ Post(<<[kind |-> "servers", scope |-> task[k].scope, account |-> access[k],
             server |-> server, address |-> address]>>)
  /\ UNCHANGED <<account, renewal, session_lost, at_hub, doubts>>

LoginWritten(k) ==
  /\ task[k] # NoTask /\ task[k].kind = "login"
  /\ writer = NoTask /\ writer' = k
  /\ account' = task[k].account
  /\ mixed' = (mixed \/ session_lost \/ account \notin {NoAccount, account'})
  /\ UNCHANGED <<renewed, access, session_lost, shown, task, ui_events, at_hub, acts, misread,
                 outdated>>

(* An account that is not approved yet gets no list. *)
LoggedIn(k) ==
  /\ Runs(k, "login") /\ writer = k
  /\ writer' = NoTask
  /\ Post(<<Reload(FALSE), Notice>>) \/ Post(<<Notice>>)
  /\ UNCHANGED <<account, renewed, session_lost, at_hub, doubts>>

LoggedOut(k) ==
  /\ Runs(k, "logout")
  /\ Post(<<Notice>>)
  /\ UNCHANGED <<account, renewal, session_lost, at_hub, doubts>>

Created(k) ==
  /\ Calls(k, "create") /\ address = Gone
  /\ server' = server + 1 /\ address' = task[k].address /\ wanted' = task[k].address
  /\ Post(<<Notice, Reload(task[k].private)>>)
  /\ UNCHANGED <<account, renewal, session_lost, doubts>>

Edited(k) ==
  /\ Calls(k, "edit") /\ AtHub(task[k].server)
  /\ address' = task[k].address
  /\ wanted' = IF task[k].typed = Untyped THEN wanted ELSE task[k].typed
  /\ Post(<<Notice, Reload(FALSE)>>)
  /\ UNCHANGED <<account, renewal, session_lost, server, doubts>>

Deleted(k) ==
  /\ Calls(k, "delete") /\ AtHub(task[k].server)
  /\ address' = Gone /\ wanted' = Gone
  /\ Post(<<Notice, Reload(FALSE)>>)
  /\ UNCHANGED <<account, renewal, session_lost, server, doubts>>

----------------------------------------------------------------------------
(* Events on the UI thread *)

Handles(kind) == ui_events # <<>> /\ Head(ui_events).kind = kind /\ ui_events' = Tail(ui_events)

HandleHubMsg ==
  /\ Handles("msg")
  /\ UpdateHubView(hub_view)
  /\ UNCHANGED <<account, renewal, access, session_lost, hub_view, scope, list, edit_dialog, task,
                 at_hub, acts, mixed, outdated>>

HandleDirReload ==
  /\ Handles("reload")
  /\ IF Head(ui_events).mine THEN HubShowMyServers ELSE UNCHANGED scope /\ LoadDirectory(scope)
  /\ UNCHANGED <<account, renewal, access, session_lost, hub_view, page, list, edit_dialog, at_hub,
                 acts, misread, outdated>>

HandleServers ==
  /\ Handles("servers")
  /\ list' = [scope |-> Head(ui_events).scope, account |-> Head(ui_events).account,
              server |-> Head(ui_events).server, address |-> Head(ui_events).address]
  /\ UNCHANGED <<account, renewal, access, session_lost, hub_view, page, scope, edit_dialog, task,
                 at_hub, acts, doubts>>

(* take_lost and hub_session_lost, at each tick of the timer. *)
HubSessionLost ==
  /\ session_lost /\ session_lost' = FALSE
  /\ hub_view' = "login" /\ UpdateHubView("login")
  /\ list' = NoList
  /\ mixed' = (mixed \/ (Loading /\ account = NoAccount))
  /\ UNCHANGED <<account, renewal, access, scope, edit_dialog, task, ui_events, at_hub, acts,
                 outdated>>

HDNext ==
  \/ \E v \in Views : SelectView(v)
  \/ \E s \in {"public", "mine"} : SelectScope(s)
  \/ \E a \in HubAccounts : StartLogin(a)
  \/ StartLogout \/ SettingsSaved \/ HubInvites \/ HubDeleteServer
  \/ OpenEditDialog \/ CancelEditDialog
  \/ \E typed \in Addresses \cup {Untyped} :
       CloseEditDialog(typed) \/ \E private \in BOOLEAN : HubCreateServer(typed, private)
  \/ \E k \in TaskIds :
       \/ TokenCached(k) \/ Renews(k) \/ RenewalWritten(k) \/ RenewalSaved(k)
       \/ TaskFails(k) \/ ListArrives(k) \/ LoginWritten(k) \/ LoggedIn(k) \/ LoggedOut(k)
       \/ Created(k) \/ Edited(k) \/ Deleted(k)
  \/ HandleHubMsg \/ HandleDirReload \/ HandleServers \/ HubSessionLost

HDSpec == HDInit /\ [][HDNext]_hdVars

----------------------------------------------------------------------------
(* Every variable has its type. *)
HDTypeOK ==
  /\ account \in HubAccounts \cup {NoAccount} /\ session_lost \in BOOLEAN
  /\ writer \in TaskIds \cup {NoTask} /\ renewed \in HubAccounts \cup {NoAccount}
  /\ access \in [TaskIds -> HubAccounts \cup {NoAccount}]
  /\ hub_view \in Views /\ page \in Views \cup {"account"}
  /\ scope \in {"public", "mine"}
  /\ list \in {NoList} \cup [scope : {"public", "mine"}, account : HubAccounts,
                            server : Nat, address : Addresses \cup {HubAddress, Gone}]
  /\ edit_dialog \in {NoDialog} \cup [server : Nat, address : Addresses \cup {HubAddress}]
  /\ server \in Nat
  /\ address \in Addresses \cup {HubAddress, Gone} /\ wanted \in Addresses \cup {HubAddress, Gone}
  /\ acts \in 0 .. MaxActs /\ mixed \in BOOLEAN /\ misread \in BOOLEAN
  /\ outdated \in BOOLEAN

(* actions.rs:661-715, 953-1011, handlers.rs:153-216: at rest the tab shows the
   page that goes with the session -- unless the file was being written when
   the page was chosen, or a save met another -- and the list, if there is one,
   is of the scope that is selected and of the account that is logged in --
   unless loads overlapped, failed, found the file empty, or met a login, a
   logout or a rejected session. *)
HubViewAgrees ==
  AtRest =>
    /\ (page = "account") = (account # NoAccount) \/ misread
    /\ list # NoList => mixed \/ (list.scope = scope /\ list.account = account)

(* actions.rs:1161-1187: whatever is edited, the hub has the address the owner
   last gave the server, unless an edit of it began from an older address or
   beside another edit. *)
AddressKept == address = wanted \/ outdated
=============================================================================

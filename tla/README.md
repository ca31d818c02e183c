# TeamConference in TLA+

TeamConference is a conference system: a server (`server/`, Rust, tokio) that
keeps who is online and who is in which room, relays audio over UDP and
everything else over WebSockets; a desktop client (`client/`); and a library
with the client's network core for mobile apps (`lib/`). The modules here
describe its core logic, TLC checks them on small instances and TLAPS proves
the most important results for every instance. Every definition is translated
from the source; `PROJECT.json` names the lines.

## 1. The system

### How it runs

The server is one process on a multi-threaded runtime. Every accepted socket
gets a task (`server.rs`, `control/handler.rs`) that reads one message,
handles it to the end and reads the next one. *Between* two awaits of a handler
the tasks of all other connections run, and so does the task that receives the
UDP packets. They share the registry of online users (three maps, each behind a
read-write lock of its own), the database (one connection on one thread, so one
call is atomic and two calls are not), the uploads in progress and the throttle
of logins. Messages to a client go through an unbounded queue per connection.
The order of steps of different tasks is what most of the hazards in
`PROJECT.json` are about.

### Components

| component | state | operations | interacts with |
|---|---|---|---|
| registry (`user/manager.rs`) | `users`, `token_map`, `audio_map` | `add_user`, `remove_user`, lookups, setters, broadcasts | every handler, the UDP task |
| connection and session lifecycle (`control/handler.rs`, `control/auth.rs`) | `user_id`, `tx`, `audio_streamer` of a task | login, takeover, clean-up | registry, database, hub |
| moderation (`admin/handler.rs`) | none of its own | kick, ban, move, mute | registry, rooms, bans |
| rooms (`room/manager.rs`) | table `rooms`, `room_id` of a session | list, join, leave, create, update, delete | registry, database, client views |
| chat (`chat/handler.rs`) | table `offline_messages` | room chat, private chat, delivery at login | registry, database |
| files (`files/handler.rs`) | `pending_uploads`, files, table `room_files` | start, chunk, complete, list, download, delete | database, file system |
| accounts and settings (`control/handler.rs`, `db/queries.rs`) | tables `users`, `settings` | register, create, delete, roles, passwords | database |
| login throttle (`control/handler.rs`) | failures per address and window | check, count, prune | logins |
| central login and tenants (`control/central.rs`, `hubdir.rs`, `auth.rs`) | table `tenants`, cached keys | verify, look up, provision | hub, database |
| UDP relay (`audio/udp_server.rs`) | `udp_addr` of a session | receive, authenticate, relay | registry |
| server-side streaming (`audio/file_stream.rs`) | `stop_tx` | stream, stop | UDP relay |
| client connection (`net/ws_client.rs`, `actions.rs`) | `ws_tx`, `connected`, `connect_gen`, `reconnect` | connect, reconnect, disconnect | two socket tasks, UI thread |
| client view (`handlers.rs`, `state.rs`) | `rooms`, `current_room_id`, token map | one handler per message | network task, UI thread |
| hub session (`hubsession.rs`, `hub.rs`) | refresh token in the config, cached access token | refresh, store, forget | hub, other instances of the client |
| client audio (`net/udp_client.rs`, `audio/`) | queues per source, clock, jitter buffer | receive, mix, play, capture, stream | sound devices, relay |
| mobile library (`lib/src/ffi.rs`) | handle, event queue | connect, join, stream, poll | client network modules |
| start-up, TLS, config, UI, i18n, updates, DTOs | — | sequential I/O | — |

### What is hard, and what correctness means

* **Registry.** The three maps must agree at every moment a packet is looked
  up; three locks may not be taken in conflicting orders.
* **Sessions.** An account has one session and a new login takes it over. The
  old connection must learn of it, must not remove the new session when it
  closes, and a closed connection must give its session up. A moderator acts on
  a session found some awaits ago. A limit is checked before the login it
  limits. A ban can be stored while its target logs in.
* **Rooms.** A room is looked up, counted, entered and announced in separate
  steps while others delete it. Nobody may end up in a room of another tenant,
  in a deleted room or in a full one; the users shown in a room should be the
  users in it.
* **Chat, files, throttle, tenants.** Check-then-act across database calls:
  lost messages, limits exceeded, reservations never freed, two default rooms.
* **Relay.** A packet is looked up through three locks while sessions come and go.
* **Client.** Tasks of an old socket outlive it; attempts to reconnect must
  not revive what the user has closed; list and events are applied by different
  threads; a refresh token is rotated by the hub before it is saved.
* **Audio path.** Devices are opened by threads of their own while others start
  and stop them; a stream, the user interface and the audio callback share state
  without a lock between their steps.

* **Hub.** A session lives in a file that several processes read, change and
  write; a list arrives after the page it was asked for is gone.
* **Mobile library.** Host calls never wait; the answers to older calls write the
  same room.

`PROJECT.json` lists each of these at its line, with the properties that cover it.

## 2. The modules

```
UserManager            the registry, one step per operation      (abstract)
  ^        ^      ^
  |        |      +--- RoomManager    rooms, moderation of rooms, shown lists
  |        +---------- Sessions       connections, login, kick, ban, clean-up
  +------------------- UserLocks      the same registry, one step per lock
                                      (implements UserManager)

ClientConnection       the client: attempts, sockets, reconnection

server   OfflineMessages   chat, and what is stored for who is not there
         Uploads           limits, reservations, chunks, rows and files
         FileDownloads     blocks from the reader to the saved file
         Logins            throttle, accounts, central logins, tenants
both     RoomView          who is shown where, through two threads of the client
client   HubSession        client.json and its rotating token
         HubDirectory      the hub tab: page, list, edits
         ServerList        bookmarks, form and server id
         FileStreams       streamed files and the adaptive buffer
         AudioDevices      who has microphone and speaker open
         MobileCore        the library under the mobile apps
```

The modules of the second half share no state with each other. Where one needs
what another describes (a tenant's rooms, a user's session, a connection that
comes and goes) it has the part of it that it reads, as a constant or as a
variable with the steps that change it.

**UserManager** (`user/manager.rs`). `users`, `token_map` and `audio_map` are the
maps of the code; `None` stands for an absent key. `told` is what
`session_replaced`, `user_kicked` and `user_banned` have been queued on a
connection since it last took a session. One action per operation: `AddUser`,
`RemoveUser`, the setters, `Tell`. A session carries what later decisions read;
names, roles and the audio format are left out.

**UserLocks** (`user/manager.rs`, `audio/udp_server.rs`). Two worker tasks and the
UDP task call the registry. A call acquires its locks one by one (`Plan`,
`Acquire`), holds what its guards hold (`Held`), and a waiting writer bars new
readers, as tokio's fair `RwLock` does. The refinement maps it to `UserManager`:
a call takes effect in the step that commits it.

**Sessions** (`control/handler.rs`, `control/auth.rs`, `admin/handler.rs`). `pc[c]`
is the call the task of connection `c` awaits next; `about`, `tenant` and `notice`
are the locals of the handler in progress, `user_id` the local of
`handle_connection`. A login is `Login` (count), `CheckAccount` (credentials and
bans), `Register` (`add_user`), `FinishLogin`. Kick and ban are `Kick`/`Ban`,
`FindTarget`, `StoreBan`, `NotifyTarget`, `LeaveRoom`, `Expel`; the end of a
connection is `Disconnect`, `CheckOwner`, `AnnounceLeave`, `CleanUp`.

**RoomManager** (`room/manager.rs`, the `room_*` messages, `admin_move`,
`admin_kick`, and the clean-up). `rooms` is the table, `gone` the ids it will not
give again, `job[c]` the locals of a handler, `listed[c]` the rooms and users the
client of `c` shows after the messages queued for it, applied in order. The
parent of a room, its tenant, limit and password are constants (`Ancestors`,
`TenantOf`, `Limit`, `Locked`), as `room_update` is left out; a limit is any
number, that of a default room too. A database call
that fails is not modelled except where a row can be refused. `get_room_list` is
one step here, though the code counts room after room: no property relates two
rooms of one list. A ban does to rooms what a kick does. `session_replaced`,
`user_moved` and `user_kicked` change nothing that `listed` shows.

**ClientConnection** (`client/src/actions.rs`, `net/ws_client.rs`, `handlers.rs`).
The UI thread owns `session`, `reconnect` (the attempt and the room to enter
again), `main` (which view is shown) and writes `room` (`current_room_id`); the
tasks share `ws_tx` (which also stands for `connected`), `authenticated`,
`connect_gen` and the queue `events` of what they tell the UI. `task[a]` is an
attempt in `establish_session`: before its one look at `connect_gen`, opening its
socket, or about to log in. `sock[s]` is an open socket: whether its send task and
its receive task run, whether the link is up, and what the server thinks of it
(logins not answered, the user, the user's room). The actions of the user are
`DoConnect`, `DoDisconnect`, `JoinRoom`, `LeaveRoom`; of an attempt `Start`,
`OpenFails`, `OpenSucceeds`, `Login`; of a socket `Welcomed`, `Refused`,
`SenderEnds`, `ReceiverEnds`, `LinkBreaks`; of the UI timer one per event. Delays,
UDP, audio and rooms the server rejects or moves the user to are left out. The
generations a socket and an event carry are history: the code does not keep them.

**OfflineMessages** (`chat/handler.rs`, delivery at login). `stage[c]` is where the
task of a connection is: listing, sending and deleting what was stored, or between
`is_online` and `send_to_user` or `save_offline_message`. `stored` holds the
rows of each account in their order, `inbox` what each client got. A login takes the
session over, a socket dies before its clean-up, a database call fails.

**Uploads** (`files/handler.rs`, the upload part of the client). `up[u]` is an
upload from the dialog to the row: its stage, what the limit check has `seen`, the
bytes declared, written and on disk, and whose data it holds. The limit check is
two sums and a registration with an await between each; a disconnect does not end
a registered upload; `slot` is the client's one `pending_upload`. Bytes are counted
in units; a size is the length of a file the client has read, so that sums in 64 bits
stay far from their limit.

**FileDownloads** (`control/handler.rs`, `handlers.rs`). The handler reads block by
block and sends each with the size of the whole; the client appends and counts.

**Logins** (`control/handler.rs`, `auth.rs`, `central.rs`, `hubdir.rs`). `pc[c]` is the
database or hub call a login or an account request awaits, `errand[c]` what it
found so far. `mode` is the server's: a login without a token is by name and
password unless it is a hub (`multi_tenant`), beside central logins too, as the
local admin account stays one with a password; a login with a token needs
`central_login` or a hub. `users_table` has unique names and identities, so the later
of two insertions fails. A row made for a central identity has no password until an
admin sets one (`AccountSetPassword`). `throttle` counts failures per address; `old` says that the window
is over.

**RoomView** (`room/manager.rs`, `admin/handler.rs`, `net/ws_client.rs`,
`handlers.rs`). A handler changes a session, then tells it in several sends; `wire`
is what is on the way to a client, `ui_queue` what its network task has passed on.
The network task applies a list at once, the UI thread applies all else.

**HubSession** (`hubsession.rs`, `config.rs`, the settings of `actions.rs`). Threads of
several processes call `access_token`, store a login, forget, log out and save
settings. `file` is `client.json`: a write empties it first. `mutex` and `flock` are
the two locks; settings and logout take neither. `hub` is what the hub thinks of
each session's token. The hub is external.

**HubDirectory** (`actions.rs`, `hub.rs`, `handlers.rs`). Background tasks for loads,
logins, creation, edits and deletion, `ui_events` on their way to the UI thread, the
page and the list shown, and the server at the hub, which gives each server created
the next id. `account` is the session in the file. The tasks that store or renew it
take turns (`writer`); from the moment one starts to write until it has written, the
file is empty for everybody who reads it beside the locks (`Emptied`, `Found`): the
page, the check before a load, the settings saved meanwhile. `renewed` is what a
renewal will write back, whatever became of the session since, and `access` the
account for which a task has its token.
A message of one task handled while another renews the session leaves the tab on the
login page, though the user is logged in and `actions.rs:659` says it shows the account:
the shortest behaviour that needs the excuse `misread` of `HubViewAgrees`.

**ServerList** (`actions.rs`, `main.rs`). Bookmarks, the form, and the server id
kept beside it.

**FileStreams** (`audio/file_stream.rs`, `actions.rs`, `playback.rs`). A task per
stream, the channel that stops it, and the audio callback, which loads the buffer
size, the flag and the size again before it stores a new one.

**AudioDevices** (`capture.rs`, `playback.rs`, `ws_client.rs`, `actions.rs`). A device
is opened by a thread; the sender that stops it goes into `inner` afterwards.

**MobileCore** (`lib/src/ffi.rs`). One host thread calls; the tasks of each
connection and `forward_events` run by themselves. Whoever locks the state twice
takes two steps: the room is stored (`JoinStores`, `RoomJoined`, `UserMoved`) before
its microphone is asked for (`JoinAsks`, `ForwardAsks`), it is cleared before the
capture is stopped (`LeaveClears`, `LeaveStops`; `PutOut`, `ForwardStops`) or after
(`TcDisconnect`, `DisconnectClears`; `LossStops`, `LossClears`). `host` is what is left
of the host's call and `forward[k]` of the event. The group extension belongs to
another server and is external.

**MC modules** give the constants values for TLC, the cfgs name them. `MCServerParts`
and `MCClientParts` put the smaller modules side by side: a behaviour chooses a part
and takes its steps only. As the parts share no variable, each is checked over all of
its own behaviours.
**\*_proofs** hold the theorems: those on `UserManager`, `UserLocks`, `Sessions`,
`RoomManager`, `ClientConnection` and `RoomView` in a module of that name, those on
`Logins`, `Uploads`, `FileDownloads` and `OfflineMessages` in `ServerParts_proofs`, and
those on `AudioDevices`, `FileStreams`, `HubDirectory`, `HubSession` and `MobileCore` in
`ClientParts_proofs`.

Some variables are history: no action reads them, they name the behaviours a
property has to excuse, so that what remains is exact. `stale`/`lost` are the
sessions removed by a task that had looked at an older one; `unseen` the logins
that passed the look at the bans too early or while it failed; `overlap` and
`crowd` how many tasks stood between a count and the act it allows; `foreign` the
accounts whose tenant changed after their room was chosen; `contested` the rooms
entered while they were deleted; `uncounted` the accounts a deletion has moved,
which looks at no limit; `blurred`, `placed` and `overlapped` the cases in
which the code does not keep the shown lists exact. In `ClientConnection`, `stale`
is set when a task or an event of an older connection acts on the shared state
of a newer one or of none (an attempt past its look at `connect_gen` opens its
socket, an old socket's end clears the new `ws_tx`, a failure reported late), and
`early` when the user chooses a room in the middle of a reconnection. In the other
modules: `disturbed` messages met a login, a loss or a failure of their recipient;
`overlapped`, `faulted` and `crossed` uploads met another in the limit check, a
fault, or another choice of their client; `overlaps` counts attempts begun beside
others, `contested` the tenants made by two at once; `entangled`, `blurred` and
`strayed` say when requests overlapped and whose view or room was left to chance;
`spoiled` sessions lost their only token outside the protocol; `mixed` is set by a list
whose load failed or met another load or the end of the session, `misread` by a page
chosen from the file while it was empty and by a save that undid another, `outdated` by an
edit begun from an older address or beside another edit;
`unfloored`, `late`, `raced`, `astray` and `reopened` name streams, captures,
speakers and rooms in the middle of whose start something else began. Each is
cleared, where it can be, by what makes the state exact again.

## 3. What is checked

| run | module | what it shows |
|---|---|---|
| `user_locks` | UserLocks | Calls are atomic (`ImplementsUserManager`), a packet lookup never mixes two sessions (`LookupConsistent`), and a call returns or is in the one cycle of waits the code has (`CallsReturnOrCycle`). |
| `login_deadlock` | UserLocks | **Found:** `get_user_by_token` waits for `users` while it holds `token_map`; with a login in between both wait for ever. |
| `sessions_main` | Sessions | Who loses a session is told (`OwnsOrTold`); a ban keeps its target out (`BanKeepsOut`). |
| `sessions_cleanup` | Sessions | The maps agree (`MapsConsistent`), the limit holds up to overlapping logins (`CapacityUpToOverlap`), no session survives its connection (`NoGhosts`), every closed connection gives its session up (`ClosedConnectionGivesUpSession`). |
| `sessions_takeover` | Sessions | **Found:** the clean-up of an old connection can remove the session of a new one, against its own comment. |
| `rooms` | RoomManager | Nobody is in a room of another tenant (`RoomOfOwnTenant`) or in a deleted one (`NobodyInDeletedRoom`), limits hold up to overlapping joins and the users a deletion moves into the default room (`LimitUpToOverlap`), and while messages come one at a time the users shown in a room are the users in it (`ListMatchesRoom`) -- each but for the cases its comment names. |
| `rooms_kick` | RoomManager | **Found:** a kick never notifies the room: it takes the room out of the session before it asks the session for it. |
| `client_reconnect` | ClientConnection | As long as nothing left over acts: a wanted session is kept going by exactly one attempt, socket or report of a loss (`OneLifeline`), a disconnect is final (`DisconnectIsFinal`), server and client agree on the room again after a reconnection (`RoomKept`), and a reconnection ends (`ReconnectEnds`). |
| `server_parts` | OfflineMessages, Uploads, FileDownloads, Logins, RoomView | A private message is received once or stored (`ReceivedOnceOrStored`), in the order of sending (`InOrderOfSending`); the storage limit holds for what its check could see (`LimitUpToUnseen`), every file on disk belongs to a row, a reservation or a handler (`DiskIsAccounted`), rows hold the whole of the right file (`RowsAreWhole`), and so do saved downloads (`DownloadsAreWhole`); failed logins stay within the throttle up to overlap (`FailuresUpToOverlap`), a session is of the account its login named, by password or central identity, in every mode of the server (`EntersOwnAccount`), a tenant has one default room (`OneLobbyPerTenant`); a client at rest shows its room as it is (`ViewConverges`). |
| `client_parts` | HubSession, HubDirectory, FileStreams, AudioDevices, MobileCore | No refresh token is shown twice (`SessionSurvives`), a logout holds (`LogoutHolds`); the hub tab shows the page and the list that belong to session and choice, but for a page chosen from a file being written (`HubViewAgrees`), an edit keeps the address (`AddressKept`); a stream can be stopped (`StreamStoppable`) and keeps its buffer (`StreamingFloor`); microphone and speaker can be closed and belong to the connection (`MicrophoneOwned`, `SpeakerOwned`); library and server agree on the room (`RoomAgreed`), and who is in none has the microphone closed, unless a room was left between being stored and the answer for its microphone, or entered while another was being left (`MicrophoneInRoom`). |
| `first_bookmark` | ServerList | **Found:** the form filled at the start lacks the server id of its bookmark, so a central login joins no server of the hub. |
| `client_disconnect` | ClientConnection | **Found:** a disconnect does not reach the server: the receive task keeps the socket, so the user stays online. |

### Bounds, and why they are enough

* `UserLocks`: two workers and the UDP task, one account. A conflict on three
  locks needs two tasks that each hold one and want another; the third brings
  in the queue of waiters.
* `Sessions`, main run: one account that moderates itself and three
  connections, each used once. A takeover that meets a clean-up or a kick needs
  the old connection, the new one and the acting one. The clean-up run has two
  accounts on two connections that may log in again, and a limit of one user:
  the least that makes logins overlap at the limit and a connection hold two
  accounts one after the other.
* `RoomManager`: two accounts on two connections, two tenants, two lobbies, the
  first for one user, a locked room and a room below it that is created in the run:
  two users meet in the locked room, and its deletion takes both into the lobby.
  `MaxOverlapping` messages in all when they overlap (4: two logins and two
  requests that meet, or a login, a request and a takeover in between) and
  `MaxRequests` when they come one at a time (5: two logins, two joins and the
  request that removes, moves or informs).
* `ClientConnection`: two attempts and two sockets at a time, two attempts per
  reconnection (8 in the code; the count matters, not its size), three acts of
  the user: connect, disconnect or choose a room, connect again. `Explored` stops
  a behaviour once something left over has acted, since every property is about
  the time before, after three generations, and after the first attempt of a
  reconnection of a later generation.
* `server_parts`. Chat: a sender, a recipient with two connections, two messages, a
  change of room and a failing call: a message that meets a login needs both
  connections. Uploads: two uploads on two clients in two tenants, sizes up to two
  units under a limit of three, so that one fits and two do not, and one fault.
  Downloads: an empty file and one of two blocks, asked for three times in all.
  Logins: two connections from one address, two identities that bring the same
  name and three names, an admin with a password, three attempts, one account request,
  one mishap, one failure allowed: the least that lets a name be taken, freed and taken
  again, also by a central identity, or a central row be given a password.
  Views: two users, two rooms, three requests.
* `client_parts`. Session: two threads of one process and a third in another, two
  sessions, three tokens, three calls and a mishap: a refresh, one that waits for it,
  and a write of the whole file. Tab: two accounts, two addresses, two tasks at a time,
  three acts: one task's message is handled while another writes. Streams: two streams,
  three orders and a buffer from 1 to 5 with a floor of 3. Devices: two connections,
  three captures, two playbacks. Library: two connections, two rooms, two room calls.
* `first_bookmark`: two servers and two bookmarks.
* Symmetry (connections, identifiers, names) only in runs without liveness.

### Fairness

`FairLocksSpec` and `FairSessionsSpec` assume weak fairness of the steps a task
takes by itself (`Proceed`, the acquisition of a lock that stays available): the
runtime polls every ready task, and tokio's locks serve their waiters in order.
Nothing is assumed of clients: a request may never come. The client's `FairSpec`
is weakly fair to each attempt and socket task and to the UI timer, which comes
every 30 ms; an attempt ends because opening a socket has a timeout, and a server
whose link is up answers a login. The user and the link may do nothing for ever.
None of the other modules states liveness, and none assumes fairness. Deadlock is not checked
where the system may stop, that is, once every connection has been closed or the
bounded number of messages is used up; in `user_locks` it stays possible because
the code has a cycle of waits, which is what `CallsReturnOrCycle` describes.

## 4. What is proved

TLAPS proves for every value of the constants that meets the assumptions, so for
any number of accounts, connections, tenants, rooms, threads, streams and devices:

* `RegistryInvariant` (`UserManager_proofs`): `[]MapsConsistent`. `TypeOK` and
  `TokensReachSessions /\ NoStaleIds` together are inductive: a token freed by
  `TokensWithout` cannot be that of another account because each entry points
  back to the session it was drawn for.
* `SessionsTypes`: the types and the agreement of the maps under all steps of
  connections; every step is a step of the registry or leaves it alone.
* `LoserIsTold` (`OwnsOrTold`), `SessionsEndWithConnections` (`NoGhosts`) and
  `BanHolds` (`BanKeepsOut`), from one invariant `SafetyInv`. What has to be
  added: a task in the middle of a handler has an account to be about
  (`LocalsOK`); a task about to remove a session either removes the one it looked
  at or is in `stale` (`RemovesKnowingly`); a login that was let in past a ban is
  in `unseen` before it registers (`BannedInTime`).
* `CapacityHolds` (`CapacityUpToOverlap`): inductive is
  `UserCount + Cardinality(LoggingIn) <= MaxUsers + overlap`, since a task counts
  while it logs in and its session counts after.
* `RoomsTypes` and `RoomsStayInTenant` (`RoomOfOwnTenant`): inductive with
  `RoomsChosen`, which says what the locals of a handler hold between its awaits:
  past its check a room is one of the job's tenant, a job that empties a room has
  a tenant and so a default room of it, and every job is about an account.
* `DeletionHolds` (`NobodyInDeletedRoom`), from `DeletionInv`: the room a task is
  about to enter is there or excused (`TargetThere`); the one being deleted is in the
  table and no default room (`VictimFound`, `LobbiesStay`); and while it is emptied its
  members are among those still to be moved and nobody approaches it, unless it is
  `contested` (`VictimEmptied`).
* `LimitHolds` (`LimitUpToOverlap`), for any limits, from `PlacesInv`: members that are not
  `uncounted` and tasks past the count are together at most the limit plus `crowd`. The
  step that counts sees all members and records in `crowd` how many stand there
  already; the step that enters moves one over; a deletion adds none that counts.
* `ListsHold` (`ListMatchesRoom`), from `ListInv`. As long as no messages overlap, one
  task works at a time, and its step says by how much a shown list may differ from the
  room (`Expected`): who was announced to leave and has not left, or entered and is not
  announced, is not shown to the others (`Hides`); who left and is not announced yet
  still is (`Keeps`); who gets a list at the end is shown nothing until then (`Spared`).
  It rests on what the locals of the task say of the session (`KnowsUser`) and the rooms
  (`KnowsTenant`), on `SenderKnown` -- one connection has one session -- and on
  `RoomOfOwnTenant`.
* `LookupHolds` (`LookupConsistent`), `SeenMapsHold` (`SeenMapsConsistent`) and
  `LocksMakeAtomic` (`ImplementsUserManager`), from one invariant `LocksInv`: a waiting
  task is in one queue and holds what its plan puts before it (`QueuesInv`); one that
  goes on holds all it needs (`GuardsInv`); of two tasks that share a lock both read
  (`Exclusion`); what a lookup found stays in `token_map` while it holds the guard
  (`FoundInv`); between its halves `add_user` has left nothing of the old session
  (`HalfwayInv`). The refinement is proved step by step: the initial states map to
  initial states, every step that commits a call to the step of `UserManager` it
  stands for and every other one to a stutter. So `RegistryInvariant` holds of the
  code with its three locks.
* `ConnectionTypes`: the types of `ClientConnection`, inductive with `SenderOpen`:
  `ws_tx` is always the sender of a socket with both its tasks, because each of
  them clears it before it ends.
* `DisconnectHolds` (`DisconnectIsFinal`), for any number of attempts, sockets and
  acts. The generations are the argument: no attempt, socket or event is newer
  than `connect_gen` (`GensUpTo(connect_gen)`), and while no session is wanted all
  are strictly older (`Orphaned`), as a disconnect raises `connect_gen` and starts
  nothing. So whatever acts then either changes nothing or sets `stale`.
* `LifelineHolds` (`OneLifeline`) and `RoomHolds` (`RoomKept`), from `SessionInv`. While a
  session is wanted and nothing is `stale`, of the attempts, sockets and reports of an
  end with the generation of now there is exactly one (`Single`); the socket in use is
  the one (`UsedInv`), a report of an end is the last event of its generation
  (`HeardInv`), a welcome is of a socket that has logged in (`WelcomeInv`); and the room
  is the one to be entered again as long as the reconnection lasts, with nobody of this
  session in a room at the server, and the same at both ends after it (`RoomInv`).
* `LoginsEnterOwnAccount` (`EntersOwnAccount`). Inductive is what a login knows
  between its steps (`Right`): from the moment it holds a number, every row of that
  number is of its identity, or of its name and with a password (`Owns`). Numbers grow and
  are unique (`TableRight`), so a row deleted and made anew under the same name is never
  the one a login or session holds; no name or identity of a row changes, and a password
  once set stays, so that what a step has found is still so for the next.
* `TenantsHaveLobby` (`OneLobbyPerTenant`), from `TenantSound`: but for a `contested`
  tenant one task at most makes it, and there is no room of it until that task has
  passed `CreateDefaultRoom`; a second task finds the tenant and goes on.
* `ThrottleHolds` (`FailuresUpToOverlap`): inductive is that the failures of an address
  in its window and the attempts of it in flight are together at most
  `MaxFails + overlaps`; the attempt that failed stops being in flight with the step
  that counts it.
* `DiskHolds` (`DiskIsAccounted`) and `RowsHold` (`RowsAreWhole`), from `UploadsInv`: the
  queues of a client carry each upload at most once and at the stage it is in
  (`LineInv`); the file that waits at a client is that of the one upload that awaits its
  acknowledgement, or those that do are `crossed` (`AwaitInv`); and for each upload
  its stage says whether there is a file on disk, that as much is on disk as was sent
  and counted, and whose data it is (`Sound`).
* `UploadsTyped` and `StorageHolds` (`LimitUpToUnseen`). The theorem bounds a sum over the
  uploads of a tenant (`Held`: rows and registered uploads that nothing excuses), so
  the sum itself comes first: `SumFunctionOnSet` is a recursive function, and
  `SumIsCount` says that it is the cardinality of a set of units, one for each
  upload and unit it claims; if it were not, there would be a least set of uploads of
  which it is not, and the sum is its last step from a smaller one. After that, sums
  are finite sets. Inductive is `LimitInv`: an upload no other overlaps is alone in
  `start_upload` (`StartsAlone`); the sum of rows it has seen is not less than what is
  written until it compares (`StoredIsSeen`); once it fits it goes on fitting until it
  is registered (`RoomIsLeft`), as nothing else is let in meanwhile and the claim of a
  registered upload never grows beyond its size.
* `DownloadTypes` and `DownloadsHold` (`DownloadsAreWhole`). Inductive is `GoesWell`: the
  client has the first blocks of the file, what follows them up to the block the
  reader is at is on its way in order, and nothing of a file is on its way that
  nobody asked for or whose answer has not begun.
* `ChatTypes`, `ReceiptHolds` (`ReceivedOnceOrStored`) and `OrderHolds`
  (`InOrderOfSending`). Of a message nothing came across `MessageFits` says where it
  is: while a task posts it the recipient is settled and has nothing of it; after that
  it stays in the table, was sent and is still stored in the hands of the login that
  sent it, or was received and is not stored. This is why the delete of all rows costs
  nothing: only the connection with the session and a socket delivers (`OneDelivers`),
  so that a message stored meanwhile has met that login. For the order (`OrderInv`), what
  a task posts is the newest of its client, what a login reads is in the order of the
  table, and its inbox holds nothing to be compared before it starts to send.
* `SessionIsSafe` (`SessionSurvives`) in five layers: types; the lock beside the
  file is held by whoever is past taking it, unless it failed (`LockInv`); a new
  session is known to the login that stores it alone (`NewInv`); a thread that
  takes the session away writes no token (`ClearsInv`); and for a session that is
  not `spoiled`, the file has the current token or the thread under the lock will
  write it, and what is sent is current (`SafeInv`).
* `LogoutIsFinal` (`LogoutHolds`), from `OutInv`: once a logout has written alone every
  thread is `Harmless` -- it stores no login, sends no token and writes only a file
  without a session -- also one that begins before the next login, which finds none.
* `HubSessionTypes`, `DeviceTypes`, `StreamTypes`, `MobileCoreTypes`: the types, in
  `StreamTypes` with the buffer between its bounds at each step of the callback.
* `RoomViewTypes` (types) and `ViewsConverge` (`ViewConverges`), from `RoomsAgree`,
  `Alone` and `ViewsFit`. For the room a client believes to be in, `RoomsAgree` looks at
  the messages still to be applied: the last `moved` among them, or `current`, is where
  its user is or where the one handler about it will put it. For what it shows,
  `Prospects(o)` are the views those messages lead to, as a chain of views, one for each
  message, and `ViewsFit` compares each of them with the server while requests come one
  at a time (`Alone`, which also says that what a handler has looked at is still so): of
  every user but the one being handled the room is shown as it is; that one is shown
  nowhere while its room has still to be told that it came (`Untold`), and in the old
  room until that is told; a user whose flag is set is shown once in its room, whatever
  its flags there, and nowhere else. A message sent is one more link at the end of the
  chain, one applied is its first; a list the network task applies early cuts the chain,
  which is harmless only if nothing the UI thread has queued changes a room: otherwise
  the client is `blurred`.
* `AddressHolds` (`AddressKept`), from `EditInv`: while the dialog is open nothing edits
  its server, and an edit under way, the only one of this server, brings what was typed
  or the address the hub has. That a list, a dialog or an answer in the queue names no
  server to come (`KnownIds`) is what keeps a new server out of old edits.
* `HubViewHolds` (`HubViewAgrees`), from `ListInv`, `PageInv` and `TurnInv`: unless `mixed`,
  one list at most is on its way, as a load or as an event, and it is of the scope and
  the account of now; with none, the one shown is. Until the page follows the session,
  and unless it is `misread`, the UI thread knows of its loss, has a message coming, or
  the login that stored it has still to send one (`LoginEnds`). `TurnInv` says who may
  write: a task that is there, and whose token is for what it wrote.
* `MicrophoneIsInRoom` (`MicrophoneInRoom`), from `MicrophoneInv`: in no room nobody asks for
  the microphone and no answer is on its way, and while a room is about to be cleared
  the microphone is neither open nor asked for, unless `reopened`.
* `RoomHeld` (`RoomAgreed`). For the room `RoomsFit` says of the connection in use what
  the requests and answers on their way make of the difference between the server's room
  and the client's: a decision on its way is the last word and brings the room the
  server has; without one the requests lead the server to the client's room, or to the
  one the host has sent and stores next; a group join on its way is the last command or
  another goes after it. A connection whose receive task runs has told nobody that it
  was lost (`LostInv`).
* `MicrophoneIsOwned` (`MicrophoneOwned`) and `SpeakerIsOwned` (`SpeakerOwned`): the
  invariants speak of devices still being opened too, since `KeepCapture` and
  `PlaybackStores` ask for nothing; at most one playback is neither told to stop nor
  replaced, and the older of two that open together is.
* `StreamsAreStoppable` (`StreamStoppable`): of two streams under way the older was
  told and the newer is in `overlapped`, so whichever forgets the channel costs the
  other nothing the property promises. `FloorHolds` (`StreamingFloor`): while a
  stream plays whose floor nothing undid, the flag is up and everything the callback
  holds of the size is at least the floor.

The assumptions are those the modules name: `None`, `Nil`, `Room`, `NoDevice`,
`NoSession`, `NoAccount`, `NoTask`, `NoRoom`, `NoLink`, `Nothing`, `Nowhere` and `NoJob`
are no values of the data, a file has a number of blocks, connections of the library are
numbered, the identifiers suffice for all accounts, the constants have their types,
connections are finitely many, bounds are in order (an address may fail at least once),
and every tenant has a default room of its own with no room above it. No limit of any
room is assumed. The theorems are about the modules' own specifications; a behaviour of
a `*Parts` run that chooses the part is one of them, as the parts share no variable.

Only model-checked:

* liveness (`CallsReturnOrCycle`, `ClosedConnectionGivesUpSession`, `ReconnectEnds`): the
  prover knows neither fairness nor `ENABLED`. All invariants and the refinement that
  the passing runs check are theorems;
* the properties of the runs that expect a violation, which do not hold.

Type definitions that no run and no theorem names are there for the reader.

## 5. What is not modelled, and the plan

Not modelled, and why:

* the relay proper: a packet goes to the members of a room by the copy of the
  session the lookup returned; nothing is kept, so there is no later state a
  property could speak of. Its way through the registry is in `UserLocks`;
* the mixer, the clock and the voice effects of the client, codecs and resampling:
  sample arithmetic in floating point on queues that belong to one thread;
* server-side streaming: it is awaited inside the receive loop of its connection
  (`control/handler.rs:710`), so no message, the stop included, is handled before
  the file is over, and no other task reads what it holds;
* start-up, TLS, configuration, migrations, password hashing, signatures, HTTP:
  sequential I/O, in the models a step that succeeds or fails;
* `ui.rs`, `i18n.rs`, `roomtree.rs`, `update.rs`, `protocol.rs`: widgets, texts, a tree
  computed from the rooms, a download to a file, data types;
* the dialogs of hub admins, invitations to a server, profile, registration and
  password reset at the hub (`actions.rs:1233-1552`): one call each, its answer is
  shown and nothing else depends on it;
* what is named in the notes of the components: lists for display, `password_change`,
  lifting bans, `file_list` and `file_delete`, `send_server_message`, limits and
  passwords that change under a join, `tc_send` and the switches of the library that
  send one message.

What could come next, in this order:

1. `room_update` with limits and passwords as variables of `RoomManager`, and rooms the
   server rejects in `ClientConnection`.
2. Liveness of the parts under the fairness their runtimes give: an acknowledged
   upload ends, a load leaves the tab at rest.

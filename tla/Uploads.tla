------------------------------- MODULE Uploads -------------------------------
(***************************************************************************)
(* Uploads to rooms: server/src/files/handler.rs with its calls in         *)
(* control/handler.rs, and the client's side of them (upload_file in       *)
(* actions.rs, file_upload_ack in handlers.rs).                            *)
(*                                                                         *)
(* An upload is asked for, checked against the storage limit, created on   *)
(* disk, registered, written in chunks and at last moved from the          *)
(* registered uploads (memory) to the table room_files.  Each await on the *)
(* way is a step.  The disk, the table and the memory are separate: a      *)
(* restart keeps the first two.  Sizes are counted in chunks.  The client  *)
(* keeps one file that waits for an acknowledgement, of whichever upload.  *)
(***************************************************************************)
EXTENDS Integers, FiniteSets, FiniteSetsExt, Sequences

CONSTANTS
  Uploads,         \* upload ids
  Clients,         \* connections
  Rooms,           \* rooms at the start
  Tenants,
  TenantOfClient,  \* the tenant of the account a connection has
  TenantOfRoom,
  NoTenant,        \* the tenant of a room that is not there; the only one of
                   \* a single server
  Nobody,          \* no connection, no room, no file
  MaxUpload,       \* max_upload_size
  FileLimit,       \* file_limit_bytes
  TenantDefault,   \* the limit of a tenant when file_limit_bytes is 0
  MaxFaults        \* bound: failed calls, restarts and deletions of rooms

ASSUME UploadsAssumption ==
  /\ IsFiniteSet(Uploads)
  /\ MaxUpload \in Nat /\ FileLimit \in Nat /\ TenantDefault \in Nat /\ MaxFaults \in Nat
  /\ NoTenant \in Tenants
  /\ TenantOfClient \in [Clients -> Tenants]
  /\ TenantOfRoom \in [Rooms -> Tenants]

VARIABLES
  multi_tenant,  \* the configuration
  rooms,         \* the table rooms
  open,          \* open connections
  up,            \* what is known of each upload
  slot,          \* the file that waits for an acknowledgement at each client
  asks,          \* file_upload_start messages the server has not taken up
  acks,          \* file_upload_ack messages the client has not taken up
  crossed,       \* uploads asked for while another of the client waited
  overlapped,    \* uploads checked while another came to be
  faulted,       \* uploads a fault has hit
  faults         \* faults so far

line   == <<slot, asks, acks, crossed>>
upVars == <<multi_tenant, rooms, open, up, line, overlapped, faulted, faults>>

(* Where an upload is: not asked for; on its way to the server; refused; in
   start_upload, between its awaits; registered; taken out by
   complete_upload; a row of room_files; over without one. *)
Starting == {"asked", "summed", "fits", "created"}
UploadStages ==
  {"none", "sent", "refused", "pending", "saving", "row", "dropped"} \cup Starting

Upload ==
  [stage: UploadStages, conn: Clients \cup {Nobody}, room: Rooms \cup {Nobody},
   size: 0..(MaxUpload + 1), \* declared
   data: Uploads \cup {Nobody},  \* whose file the client sends for it
   seen: Nat,                \* what the limit check has added up so far
   sent: Nat,                \* chunks the client has sent
   bytes_written: 0..MaxUpload,
   on_disk: Int]             \* bytes of the file, -1 when there is none

At(ss)       == {u \in Uploads : up[u].stage \in ss}
Rows         == At({"row"})
Pending      == At({"pending"})
InHandler(c) == {u \in At(Starting \cup {"saving"}) : up[u].conn = c}
Idle(c)      == c \in open /\ InHandler(c) = {}
Put(u, r)    == up' = [up EXCEPT ![u] = r]

(* total_storage_bytes and total_storage_bytes_for_tenant. *)
StoredBytes(tn) ==
  SumFunctionOnSet([u \in Uploads |-> up[u].bytes_written],
                   {u \in Rows : multi_tenant => TenantOfRoom[up[u].room] = tn})
PendingBytes == SumFunctionOnSet([u \in Uploads |-> up[u].size], Pending)

Tenant(r) == IF r \in rooms THEN TenantOfRoom[r] ELSE NoTenant
UserTenant(c) == IF multi_tenant THEN TenantOfClient[c] ELSE NoTenant
Limit == IF multi_tenant /\ FileLimit = 0 THEN TenantDefault ELSE FileLimit

(* One more fault. *)
Fault(us) ==
  /\ faults < MaxFaults
  /\ faults' = faults + 1
  /\ faulted' = faulted \cup us
NoFault == UNCHANGED <<faults, faulted>>

Gone(r, disk) == [r EXCEPT !.stage = "dropped", !.on_disk = disk]

----------------------------------------------------------------------------
UpInit ==
  /\ multi_tenant \in BOOLEAN
  /\ rooms = Rooms
  /\ open = {}
  /\ up = [u \in Uploads |-> [stage |-> "none", conn |-> Nobody, room |-> Nobody,
                             size |-> 0, data |-> Nobody, seen |-> 0, sent |-> 0,
                             bytes_written |-> 0, on_disk |-> -1]]
  /\ slot = [c \in Clients |-> Nobody]
  /\ asks = [c \in Clients |-> <<>>]
  /\ acks = [c \in Clients |-> <<>>]
  /\ crossed = {}
  /\ overlapped = {}
  /\ faulted = {}
  /\ faults = 0

(* A login and the end of a connection, between two messages of it: what is
   on its way is lost, an upload it has registered stays registered. *)
Connect(c) ==
  /\ c \notin open
  /\ open' = open \cup {c}
  /\ UNCHANGED <<multi_tenant, rooms, up, line, overlapped>> /\ NoFault
Close(c) ==
  /\ Idle(c)
  /\ open' = open \ {c}
  /\ asks' = [asks EXCEPT ![c] = <<>>]
  /\ acks' = [acks EXCEPT ![c] = <<>>]
  /\ UNCHANGED <<multi_tenant, rooms, up, slot, crossed, overlapped>> /\ NoFault

(* The uploads of c that wait for their acknowledgement. *)
Awaiting(c) ==
  {asks[c][i] : i \in DOMAIN asks[c]} \cup {u \in At(Starting) : up[u].conn = c}
    \cup {acks[c][i].upload : i \in DOMAIN acks[c]}

(* upload_file: the file chosen replaces one that still waits. *)
UploadFile(c, u, r, n) ==
  /\ c \in open
  /\ up[u].stage = "none"
  /\ Put(u, [up[u] EXCEPT !.stage = "sent", !.conn = c, !.room = r, !.size = n])
  /\ slot' = [slot EXCEPT ![c] = u]
  /\ asks' = [asks EXCEPT ![c] = Append(@, u)]
  /\ crossed' = IF Awaiting(c) = {} THEN crossed ELSE crossed \cup {u} \cup Awaiting(c)
  /\ UNCHANGED <<multi_tenant, rooms, open, acks, overlapped>> /\ NoFault

Ack(u, ok) ==
  acks' = [acks EXCEPT ![up[u].conn] = Append(@, [upload |-> u, success |-> ok])]

(* The uploads the limit check of another cannot see rightly: those on the
   way in or out, and with tenants also the registered ones. *)
Unseen == At(Starting \cup {"saving"} \cup IF multi_tenant THEN {"pending"} ELSE {})

(* file_upload_start: refused at once in a room of another tenant and when
   it is too large. *)
FileUploadStart(c) ==
  LET u == Head(asks[c])
      welcome == /\ multi_tenant => UserTenant(c) = Tenant(up[u].room)
                 /\ up[u].size <= MaxUpload
  IN  /\ Idle(c) /\ asks[c] # <<>>
      /\ asks' = [asks EXCEPT ![c] = Tail(@)]
      /\ IF welcome
         THEN /\ Put(u, [up[u] EXCEPT !.stage = "asked"])
              /\ overlapped' = IF Unseen = {} THEN overlapped
                               ELSE overlapped \cup {u} \cup At(Starting)
              /\ UNCHANGED acks
         ELSE /\ Put(u, [up[u] EXCEPT !.stage = "refused"])
              /\ Ack(u, FALSE)
              /\ UNCHANGED overlapped
      /\ UNCHANGED <<multi_tenant, rooms, open, slot, crossed>> /\ NoFault

(* A plausible slip: the size of the new upload is left out of the check. *)
FitsWithoutOwnSize(u, used) == used <= Limit

Fits(u, used) == used + up[u].size <= Limit

(* The outcome of the check. *)
Judge(u, fits) ==
  IF fits THEN Put(u, [up[u] EXCEPT !.stage = "fits"]) /\ UNCHANGED acks
          ELSE Put(u, [up[u] EXCEPT !.stage = "refused"]) /\ Ack(u, FALSE)

(* The sum over the table; one that fails counts nothing.  With tenants the
   check ends here, for it leaves the registered uploads out. *)
SumStored(u) ==
  /\ up[u].stage = "asked"
  /\ \E n \in {StoredBytes(Tenant(up[u].room)), 0} :
       /\ IF multi_tenant
          THEN Judge(u, Fits(u, n))
          ELSE Put(u, [up[u] EXCEPT !.stage = "summed", !.seen = n]) /\ UNCHANGED acks
       /\ IF n = StoredBytes(Tenant(up[u].room)) THEN NoFault ELSE Fault({u})
  /\ UNCHANGED <<multi_tenant, rooms, open, slot, asks, crossed, overlapped>>

(* A plausible slip: the registered uploads are forgotten. *)
NothingPending(u) == up[u].seen

Used(u) == up[u].seen + PendingBytes

(* ... and on a single server the sum over the registered uploads; no check
   when there is no limit. *)
SumPending(u) ==
  /\ up[u].stage = "summed"
  /\ Judge(u, FileLimit = 0 \/ Fits(u, Used(u)))
  /\ UNCHANGED <<multi_tenant, rooms, open, slot, asks, crossed, overlapped>> /\ NoFault

CreateFile(u) ==
  /\ up[u].stage = "fits"
  /\ \/ /\ Put(u, [up[u] EXCEPT !.stage = "created", !.on_disk = 0])
        /\ UNCHANGED acks /\ NoFault
     \/ Put(u, [up[u] EXCEPT !.stage = "refused"]) /\ Ack(u, FALSE) /\ Fault({u})
  /\ UNCHANGED <<multi_tenant, rooms, open, slot, asks, crossed, overlapped>>

Register(u) ==
  /\ up[u].stage = "created"
  /\ Put(u, [up[u] EXCEPT !.stage = "pending"])
  /\ Ack(u, TRUE)
  /\ UNCHANGED <<multi_tenant, rooms, open, slot, asks, crossed, overlapped>> /\ NoFault

(* file_upload_ack at the client: the file that waits is sent, or given up. *)
HandleAck(c) ==
  LET ack == Head(acks[c])
  IN  /\ acks[c] # <<>>
      /\ acks' = [acks EXCEPT ![c] = Tail(@)]
      /\ slot' = [slot EXCEPT ![c] = Nobody]
      /\ up' = IF ack.success THEN [up EXCEPT ![ack.upload].data = slot[c]] ELSE up
      /\ UNCHANGED <<multi_tenant, rooms, open, asks, crossed, overlapped>> /\ NoFault

(* A plausible slip: the file of a refused upload stays on disk. *)
DropAndKeepFile(u) == Gone(up[u], up[u].on_disk)

Drop(u) == Gone(up[u], -1)

(* A plausible slip: the chunk itself is not counted. *)
ExceededBefore(u) == up[u].bytes_written > up[u].size

Exceeds(u) == up[u].bytes_written + 1 > up[u].size

(* A plausible slip: what is written is not counted. *)
WroteUncounted(u) == [up[u] EXCEPT !.sent = @ + 1, !.on_disk = @ + 1]

(* A chunk that was written, and one the disk took only in part or not at
   all: nobody is told, the count stays. *)
Wrote(u) ==
  [up[u] EXCEPT !.sent = @ + 1, !.on_disk = @ + 1, !.bytes_written = @ + 1]
WroteInPart(u, n) == [up[u] EXCEPT !.sent = @ + 1, !.on_disk = @ + n]

(* The task of the client that sends the file has k chunks of it left. *)
Sending(u, left(_)) ==
  /\ Idle(up[u].conn)
  /\ up[u].data # Nobody
  /\ left(up[up[u].data].size - up[u].sent)

(* file_upload_chunk: under the lock of the registered uploads from the check
   of the size to the end of the write. *)
FileUploadChunk(u) ==
  /\ up[u].stage = "pending"
  /\ Sending(u, LAMBDA n : n > 0)
  /\ IF Exceeds(u)
     THEN Put(u, Drop(u)) /\ NoFault
     ELSE \/ Put(u, Wrote(u)) /\ NoFault
          \/ \E n \in {0, 1} : Put(u, WroteInPart(u, n)) /\ Fault({u})
  /\ UNCHANGED <<multi_tenant, rooms, open, line, overlapped>>

(* file_upload_complete: taken out of the registered uploads ... *)
FileUploadComplete(u) ==
  /\ up[u].stage = "pending"
  /\ Sending(u, LAMBDA n : n = 0)
  /\ Put(u, [up[u] EXCEPT !.stage = "saving"])
  /\ overlapped' = overlapped \cup At(Starting)
  /\ UNCHANGED <<multi_tenant, rooms, open, line>> /\ NoFault

(* ... and saved, if the room is still there and the database answers. *)
SaveRoomFile(u) ==
  /\ up[u].stage = "saving"
  /\ \/ /\ up[u].room \in rooms
        /\ Put(u, [up[u] EXCEPT !.stage = "row"]) /\ NoFault
     \/ /\ up[u].room \notin rooms
        /\ Put(u, Gone(up[u], up[u].on_disk))
        /\ faulted' = faulted \cup {u} /\ UNCHANGED faults
     \/ Put(u, Gone(up[u], up[u].on_disk)) /\ Fault({u})
  /\ UNCHANGED <<multi_tenant, rooms, open, line, overlapped>>

(* delete_room: the rows of its files go with it (ON DELETE CASCADE), the
   files stay. *)
DeleteRoom(r) ==
  LET of == {u \in Uploads : up[u].stage # "none" /\ up[u].room = r}
  IN  /\ r \in rooms
      /\ rooms' = rooms \ {r}
      /\ up' = [u \in Uploads |-> IF u \in of \cap Rows
                                  THEN Gone(up[u], up[u].on_disk) ELSE up[u]]
      /\ Fault(of)
      /\ UNCHANGED <<multi_tenant, open, line, overlapped>>

(* The server stops at any point and starts again: the memory is gone. *)
Restart ==
  /\ open # {}
  /\ Fault(At(Starting \cup {"pending", "saving"}))
  /\ open' = {}
  /\ asks' = [c \in Clients |-> <<>>]
  /\ acks' = [c \in Clients |-> <<>>]
  /\ up' = [u \in Uploads |-> IF u \in At(Starting \cup {"pending", "saving"})
                              THEN Gone(up[u], up[u].on_disk) ELSE up[u]]
  /\ UNCHANGED <<multi_tenant, rooms, slot, crossed, overlapped>>

UpNext ==
  \/ \E c \in Clients :
       \/ Connect(c) \/ Close(c) \/ FileUploadStart(c) \/ HandleAck(c)
       \/ \E u \in Uploads, r \in Rooms, n \in 1..(MaxUpload + 1) :
            UploadFile(c, u, r, n)
  \/ \E u \in Uploads :
       \/ SumStored(u) \/ SumPending(u) \/ CreateFile(u) \/ Register(u)
       \/ FileUploadChunk(u) \/ FileUploadComplete(u) \/ SaveRoomFile(u)
  \/ \E r \in Rooms : DeleteRoom(r)
  \/ Restart

UpSpec == UpInit /\ [][UpNext]_upVars

----------------------------------------------------------------------------
(* Every variable has its type. *)
UpTypeOK ==
  /\ multi_tenant \in BOOLEAN
  /\ rooms \subseteq Rooms
  /\ open \subseteq Clients
  /\ up \in [Uploads -> Upload]
  /\ slot \in [Clients -> Uploads \cup {Nobody}]
  /\ asks \in [Clients -> Seq(Uploads)]
  /\ acks \in [Clients -> Seq([upload: Uploads, success: BOOLEAN])]
  /\ crossed \subseteq Uploads
  /\ overlapped \subseteq Uploads
  /\ faulted \subseteq Uploads
  /\ faults \in 0..MaxFaults

Claim == [u \in Uploads |-> IF u \in Rows THEN up[u].bytes_written ELSE up[u].size]

(* What a tenant (a single server: everyone) may have stored and registered
   stays within the limit, as long as the limit check of an upload meets no
   other upload on its way in or out (with tenants: nor a registered one) and
   its sum succeeds: files/handler.rs:71. *)
LimitUpToUnseen ==
  Limit > 0 =>
    \A tn \in Tenants :
      SumFunctionOnSet(Claim, {u \in (Rows \cup Pending) \ (overlapped \cup faulted) :
                                 multi_tenant => Tenant(up[u].room) = tn}) <= Limit

(* A file on disk is one of the table, of a registered upload or of a handler
   at work; only a fault (a restart, a failed call, the deletion of the room)
   leaves one behind: files/handler.rs:167. *)
DiskIsAccounted ==
  \A u \in Uploads \ faulted :
    up[u].on_disk >= 0 <=> up[u].stage \in {"created", "pending", "saving", "row"}

(* What the room is shown under a name is all of the file of that name: every
   row holds the client's file and has the declared size and as many bytes on
   disk -- unless a chunk failed, or its client asked for another upload
   before the acknowledgement of this one: client/src/actions.rs:2709. *)
RowsAreWhole ==
  \A u \in Rows \ (faulted \cup crossed) :
    /\ up[u].data = u
    /\ up[u].bytes_written = up[u].size
    /\ up[u].on_disk = up[u].size
=============================================================================

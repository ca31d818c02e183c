---------------------------- MODULE FileDownloads ----------------------------
(***************************************************************************)
(* Downloads of room files over one connection: file_download in           *)
(* server/src/control/handler.rs, download_file and file_download_data in  *)
(* the client.                                                             *)
(*                                                                         *)
(* The server reads a file block by block and sends each block with the    *)
(* size of the whole; the client puts the blocks it gets under the file's  *)
(* id one after the other and saves them when they are as many as that.    *)
(* It looks at no offset.                                                  *)
(***************************************************************************)
EXTENDS Naturals, Sequences

CONSTANTS
  Files,     \* ids of the table room_files
  Blocks,    \* how many blocks a file has, 0 for an empty one
  MaxAsked,  \* bound: file_download messages
  Nothing    \* no file is being read; no target

ASSUME DownloadsAssumption ==
  /\ Blocks \in [Files -> Nat] /\ MaxAsked \in Nat
  /\ Nothing \notin Seq(Nat) /\ Nothing \notin [file: Files, block: Nat]

VARIABLES
  asked,    \* messages the server has not taken up
  reading,  \* the file the handler reads and the next block, or Nothing
  data,     \* blocks on their way to the client
  target,   \* what the client has of each file it wants, or Nothing
  saved,    \* the contents it has saved for each file
  count,    \* messages so far
  again,    \* files asked for while the client was still getting them
  failed    \* files that could not be opened or read, or whose connection broke

dlVars == <<asked, reading, data, target, saved, count, again, failed>>

Whole(f) == [k \in 1..Blocks[f] |-> k]
Quiet    == asked = <<>> /\ reading = Nothing /\ data = <<>>

DLInit ==
  /\ asked = <<>> /\ reading = Nothing /\ data = <<>>
  /\ target = [f \in Files |-> Nothing]
  /\ saved = [f \in Files |-> {}]
  /\ count = 0
  /\ again = {} /\ failed = {}

(* The user names a target; what an earlier download of the file has brought
   so far is dropped. *)
DownloadFile(f) ==
  /\ count < MaxAsked
  /\ count' = count + 1
  /\ target' = [target EXCEPT ![f] = <<>>]
  /\ asked' = Append(asked, f)
  /\ again' = IF target[f] # Nothing THEN again \cup {f} ELSE again
  /\ UNCHANGED <<reading, data, saved, failed>>

(* file_download: no such row, another tenant's room, or no such file on
   disk: an error that does not name the download. *)
Serve ==
  /\ asked # <<>> /\ reading = Nothing
  /\ asked' = Tail(asked)
  /\ \/ reading' = [file |-> Head(asked), block |-> 1] /\ UNCHANGED failed
     \/ failed' = failed \cup {Head(asked)} /\ UNCHANGED reading
  /\ UNCHANGED <<data, target, saved, count, again>>

(* A plausible slip: the last block is never sent. *)
MoreBeforeLast(r) == r.block < Blocks[r.file]

More(r) == r.block <= Blocks[r.file]

(* One turn of the loop: a block, the end of the file, or a read that fails,
   of which the client hears nothing. *)
ReadBlock ==
  /\ reading # Nothing
  /\ \/ /\ More(reading)
        /\ data' = Append(data, reading)
        /\ reading' = [reading EXCEPT !.block = @ + 1]
        /\ UNCHANGED failed
     \/ ~More(reading) /\ reading' = Nothing /\ UNCHANGED <<data, failed>>
     \/ /\ reading' = Nothing
        /\ failed' = failed \cup {reading.file}
        /\ UNCHANGED data
  /\ UNCHANGED <<asked, target, saved, count, again>>

(* file_download_data: saved when the buffer has the size of the file. *)
TakeBlock ==
  /\ data # <<>>
  /\ data' = Tail(data)
  /\ LET f   == Head(data).file
         buf == Append(target[f], Head(data).block)
     IN  IF target[f] = Nothing THEN UNCHANGED <<target, saved>>
         ELSE IF Len(buf) >= Blocks[f]
         THEN /\ target' = [target EXCEPT ![f] = Nothing]
              /\ saved' = [saved EXCEPT ![f] = @ \cup {buf}]
         ELSE target' = [target EXCEPT ![f] = buf] /\ UNCHANGED saved
  /\ UNCHANGED <<asked, reading, count, again, failed>>

(* The connection breaks; the targets stay. *)
Break ==
  /\ ~Quiet
  /\ asked' = <<>> /\ reading' = Nothing /\ data' = <<>>
  /\ failed' = failed \cup {f \in Files : target[f] # Nothing}
  /\ UNCHANGED <<target, saved, count, again>>

DLNext ==
  \/ \E f \in Files : DownloadFile(f)
  \/ Serve \/ ReadBlock \/ TakeBlock \/ Break

DLSpec == DLInit /\ [][DLNext]_dlVars

----------------------------------------------------------------------------
(* Every variable has its type. *)
DLTypeOK ==
  /\ asked \in Seq(Files)
  /\ reading \in [file: Files, block: Nat] \cup {Nothing}
  /\ data \in Seq([file: Files, block: Nat])
  /\ target \in [Files -> Seq(Nat) \cup {Nothing}]
  /\ saved \in [Files -> SUBSET Seq(Nat)]
  /\ count \in 0..MaxAsked
  /\ again \subseteq Files /\ failed \subseteq Files

(* What is saved is the file, block by block, and once nothing is on its way
   a file that was asked for has been saved -- unless it is empty (no block
   ever comes: control/handler.rs:587), failed, or was asked for again while
   its blocks still came (handlers.rs:518 takes the rest of the first answer
   for the beginning of the second). *)
DownloadsAreWhole ==
  \A f \in Files \ (again \cup failed) :
    /\ saved[f] \subseteq {Whole(f)}
    /\ Quiet /\ Blocks[f] > 0 => target[f] = Nothing
=============================================================================

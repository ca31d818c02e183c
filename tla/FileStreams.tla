---------------------------- MODULE FileStreams ----------------------------
(***************************************************************************)
(* Files streamed from the client (client/src/audio/file_stream.rs,        *)
(* stream_file and stop_stream of client/src/actions.rs) and the adaptive  *)
(* buffer of the playback callback (client/src/audio/playback.rs) that a   *)
(* stream enlarges.                                                        *)
(*                                                                         *)
(* Three kinds of actors share state without a lock between their steps:   *)
(* the user interface, one task per stream and the audio callback.  Audio  *)
(* data is left out; the buffer is counted in units of 20 ms.              *)
(***************************************************************************)
EXTENDS Naturals

CONSTANTS
  Streams,       \* 1..n: stream_file has been called n times
  MinPreBuffer,  \* MIN_PRE_BUFFER_MS and INITIAL_PRE_BUFFER_MS
  StreamingMin,  \* STREAMING_MIN_PRE_BUFFER_MS
  MaxPreBuffer,  \* MAX_PRE_BUFFER_MS
  Increase, Decrease,
  MaxOrders,     \* bound: what the user does to streams and devices
  NoStream

ASSUME BufferAssumption ==
  /\ MinPreBuffer \in Nat /\ StreamingMin \in Nat /\ MaxPreBuffer \in Nat
  /\ MinPreBuffer <= StreamingMin /\ StreamingMin <= MaxPreBuffer
  /\ Increase \in Nat /\ Decrease \in Nat /\ MaxOrders \in Nat

VARIABLES
  streams,                   \* started so far
  stage,                     \* where the task of each stream is
  told,                      \* streams whose watch channel says TRUE
  stream_shutdown,           \* the stream whose channel inner.stream_shutdown holds
  streaming_file,            \* the user interface shows a stream
  file_streaming, stream_paused, seek,
  finished,                  \* client_stream_finished events on their way
  pre_buffer, pre_buffered,  \* ADAPTIVE_PRE_BUFFER_MS, PRE_BUFFERED
  callback,                  \* what the audio callback is about to do, and with what
  orders,
  overlapped,                \* streams that were under way together with an older one
  unfloored                  \* playing streams whose floor something else undid: a new
                             \* playback, or a callback that looked before they began

fsVars == <<streams, stage, told, stream_shutdown, streaming_file, file_streaming,
            stream_paused, seek, finished, pre_buffer, pre_buffered, callback, orders,
            overlapped, unfloored>>

Stages   == {"none", "opening", "flagged", "playing", "paused", "leaving", "ending",
             "reporting", "done"}
Alive    == {s \in Streams : stage[s] \notin {"none", "done"}}
Playing  == {s \in Streams : stage[s] \in {"playing", "paused"}}
Idle     == [doing |-> "idle", floor |-> 0, current |-> 0]
Move(s, g) == stage' = [stage EXCEPT ![s] = g]
Order    == orders < MaxOrders /\ orders' = orders + 1

flags  == <<streaming_file, file_streaming, stream_paused, seek>>
buffer == <<pre_buffer, pre_buffered, callback>>
ghosts == <<overlapped, unfloored>>

FSInit ==
  /\ streams = 0 /\ orders = 0
  /\ stage = [s \in Streams |-> "none"]
  /\ told = {} /\ stream_shutdown = NoStream
  /\ streaming_file = FALSE /\ file_streaming = FALSE /\ stream_paused = FALSE /\ seek = FALSE
  /\ finished = 0
  /\ pre_buffer = MinPreBuffer /\ pre_buffered = FALSE /\ callback = Idle
  /\ overlapped = {} /\ unfloored = {}

\* The stream in inner.stream_shutdown is told to stop.
Told == told \cup ({stream_shutdown} \cap Streams)

(* A plausible slip: the older stream is only forgotten. *)
ToldNobody == told

ToldByNext == Told

(* stream_file: the older stream is told, a new one takes its place. *)
StreamFile ==
  LET s == streams + 1
  IN  /\ Order /\ s \in Streams
      /\ streams' = s
      /\ told' = ToldByNext
      /\ stream_paused' = FALSE
      /\ stream_shutdown' = s
      /\ streaming_file' = TRUE
      /\ Move(s, "opening")
      /\ overlapped' = IF Alive = {} THEN overlapped ELSE overlapped \cup {s}
      /\ UNCHANGED <<file_streaming, seek, finished, buffer, unfloored>>

StopStream ==
  /\ Order
  /\ told' = Told
  /\ stream_shutdown' = NoStream
  /\ stream_paused' = FALSE
  /\ UNCHANGED <<streams, stage, streaming_file, file_streaming, seek, finished, buffer, ghosts>>

TogglePauseStream ==
  /\ Order
  /\ stream_shutdown # NoStream
  /\ stream_paused' = ~stream_paused
  /\ UNCHANGED <<streams, stage, told, stream_shutdown, streaming_file, file_streaming, seek,
                 finished, buffer, ghosts>>

StreamSeek ==
  /\ Order /\ streaming_file
  /\ seek' = TRUE
  /\ UNCHANGED <<streams, stage, told, stream_shutdown, streaming_file, file_streaming,
                 stream_paused, finished, buffer, ghosts>>

(* do_disconnect and stop_audio_pipeline; file_streaming goes although the
   stream still plays until it looks. *)
StopAudio ==
  /\ Order
  /\ told' = Told
  /\ stream_shutdown' = NoStream
  /\ streaming_file' = FALSE /\ file_streaming' = FALSE
  /\ unfloored' = unfloored \cup Playing
  /\ UNCHANGED <<streams, stage, stream_paused, seek, finished, buffer, overlapped>>

(* client_stream_finished, whichever stream it was. *)
HandleFinished ==
  /\ finished > 0 /\ finished' = finished - 1
  /\ streaming_file' = FALSE /\ stream_paused' = FALSE
  /\ UNCHANGED <<streams, stage, told, stream_shutdown, file_streaming, seek, buffer, orders,
                 ghosts>>

----------------------------------------------------------------------------
Quiet == UNCHANGED <<streams, told, orders>>

(* The file is opened and probed, or cannot be; the flag goes up before the
   buffer is enlarged. *)
Open(s) ==
  /\ stage[s] = "opening"
  /\ \/ Move(s, "flagged") /\ file_streaming' = TRUE
     \/ Move(s, "ending") /\ UNCHANGED file_streaming
  /\ Quiet /\ UNCHANGED <<stream_shutdown, streaming_file, stream_paused, seek, finished,
                          buffer, ghosts>>

Enlarged == IF pre_buffer < StreamingMin THEN StreamingMin ELSE pre_buffer

EnlargeBuffer(s) ==
  /\ stage[s] = "flagged"
  /\ pre_buffer' = Enlarged
  /\ pre_buffered' = FALSE
  /\ Move(s, "playing")
  /\ unfloored' = IF callback.doing = "idle" /\ file_streaming THEN unfloored
                                                               ELSE unfloored \cup {s}
  /\ Quiet /\ UNCHANGED <<stream_shutdown, flags, finished, callback, overlapped>>

(* Once round the loop over blocks: a told stream leaves, a paused one waits,
   a seek clears what was decoded, otherwise a block is sent and played. *)
Block(s) ==
  /\ stage[s] = "playing"
  /\ IF s \in told THEN Move(s, "leaving") /\ UNCHANGED seek
     ELSE IF stream_paused THEN Move(s, "paused") /\ UNCHANGED seek
     ELSE seek /\ seek' = FALSE /\ UNCHANGED stage
  /\ Quiet
  /\ UNCHANGED <<stream_shutdown, streaming_file, file_streaming, stream_paused, finished,
                 buffer, ghosts>>

Paused(s) ==
  /\ stage[s] = "paused"
  /\ \/ s \in told /\ Move(s, "leaving")
     \/ s \notin told /\ ~stream_paused /\ Move(s, "playing")
  /\ Quiet /\ UNCHANGED <<stream_shutdown, flags, finished, buffer, ghosts>>

EndOfFile(s) ==
  /\ stage[s] = "playing" /\ Move(s, "leaving")
  /\ Quiet /\ UNCHANGED <<stream_shutdown, flags, finished, buffer, ghosts>>

(* finish. *)
Finish(s) ==
  /\ stage[s] = "leaving" /\ Move(s, "ending")
  /\ file_streaming' = FALSE
  /\ unfloored' = unfloored \cup (Playing \ {s})
  /\ Quiet
  /\ UNCHANGED <<stream_shutdown, streaming_file, stream_paused, seek, finished, buffer,
                 overlapped>>

(* The task forgets the stream that is there: its own, or a newer one. *)
ForgetStream(s) ==
  /\ stage[s] = "ending" /\ Move(s, "reporting")
  /\ stream_shutdown' = NoStream
  /\ Quiet /\ UNCHANGED <<flags, finished, buffer, ghosts>>

ReportFinished(s) ==
  /\ stage[s] = "reporting" /\ Move(s, "done")
  /\ finished' = finished + 1
  /\ Quiet /\ UNCHANGED <<stream_shutdown, flags, buffer, ghosts>>

----------------------------------------------------------------------------
CallbackKeeps ==
  UNCHANGED <<streams, stage, told, stream_shutdown, flags, finished, orders, overlapped>>

(* start_playback: a new device, the buffer starts over. *)
StartPlayback ==
  /\ Order /\ callback.doing = "idle"
  /\ pre_buffer' = MinPreBuffer /\ pre_buffered' = FALSE
  /\ unfloored' = unfloored \cup {s \in Streams : stage[s] \in {"flagged", "playing", "paused"}}
  /\ UNCHANGED <<streams, stage, told, stream_shutdown, flags, finished, callback, overlapped>>

(* A plausible slip: the floor is the one of live speech. *)
LiveFloor(streaming) == MinPreBuffer

Floor(streaming) == IF streaming THEN StreamingMin ELSE MinPreBuffer

(* The buffer is full enough and the output starts; from then on a callback
   may be the 500th smooth one, which looks for the floor, or an underrun. *)
Callback ==
  /\ callback.doing = "idle"
  /\ \/ ~pre_buffered /\ pre_buffered' = TRUE /\ UNCHANGED callback
     \/ /\ pre_buffered
        /\ callback' = [Idle EXCEPT !.doing = "stable", !.floor = Floor(file_streaming)]
        /\ UNCHANGED pre_buffered
     \/ /\ pre_buffered
        /\ callback' = [Idle EXCEPT !.doing = "underrun"]
        /\ UNCHANGED pre_buffered
  /\ UNCHANGED <<pre_buffer, unfloored>> /\ CallbackKeeps

LoadCurrent ==
  /\ callback.doing \in {"stable", "underrun"}
  /\ callback' = [callback EXCEPT !.current = pre_buffer,
                    !.doing = IF @ = "stable" THEN "shrink" ELSE "grow"]
  /\ UNCHANGED <<pre_buffer, pre_buffered, unfloored>> /\ CallbackKeeps

AtLeast(x, y) == IF x < y THEN y ELSE x
AtMost(x, y)  == IF x > y THEN y ELSE x
Less(x, y)    == IF x > y THEN x - y ELSE 0

Shrink ==
  /\ callback.doing = "shrink"
  /\ pre_buffer' = IF callback.current > callback.floor
                   THEN AtLeast(Less(callback.current, Decrease), callback.floor)
                   ELSE pre_buffer
  /\ callback' = Idle
  /\ UNCHANGED <<pre_buffered, unfloored>> /\ CallbackKeeps

Grow ==
  /\ callback.doing = "grow"
  /\ pre_buffer' = LET new == AtMost(callback.current + Increase, MaxPreBuffer)
                   IN  IF new # callback.current THEN new ELSE pre_buffer
  /\ pre_buffered' = FALSE
  /\ callback' = Idle
  /\ UNCHANGED unfloored /\ CallbackKeeps

FSNext ==
  \/ StreamFile \/ StopStream \/ TogglePauseStream \/ StreamSeek \/ StopAudio \/ HandleFinished
  \/ \E s \in Streams :
       \/ Open(s) \/ EnlargeBuffer(s) \/ Block(s) \/ Paused(s) \/ EndOfFile(s)
       \/ Finish(s) \/ ForgetStream(s) \/ ReportFinished(s)
  \/ StartPlayback \/ Callback \/ LoadCurrent \/ Shrink \/ Grow

FSSpec == FSInit /\ [][FSNext]_fsVars

----------------------------------------------------------------------------
(* Every variable has its type. *)
FSTypeOK ==
  /\ streams \in Streams \cup {0} /\ orders \in 0..MaxOrders
  /\ stage \in [Streams -> Stages]
  /\ told \subseteq Streams /\ stream_shutdown \in Streams \cup {NoStream}
  /\ streaming_file \in BOOLEAN /\ file_streaming \in BOOLEAN
  /\ stream_paused \in BOOLEAN /\ seek \in BOOLEAN
  /\ finished \in Nat
  /\ pre_buffer \in MinPreBuffer..MaxPreBuffer /\ pre_buffered \in BOOLEAN
  /\ callback \in [doing: {"idle", "stable", "underrun", "shrink", "grow"},
                   floor: {0, MinPreBuffer, StreamingMin}, current: 0..MaxPreBuffer]
  /\ overlapped \subseteq Streams /\ unfloored \subseteq Streams

(* A stream that is under way either has been told to stop or can be: the
   user interface holds its channel (actions.rs:2594) -- unless it began while
   an older one was under way, whose end forgets it (actions.rs:2636). *)
StreamStoppable ==
  \A s \in Alive \ overlapped :
    stage[s] # "reporting" => s \in told \/ stream_shutdown = s

(* While a file plays the callback never shrinks the buffer below the size a
   stream needs (playback.rs:12) -- unless the playback was started again, an
   older stream ended or the connection did, or the callback had looked
   before the stream began. *)
StreamingFloor == \A s \in Playing \ unfloored : pre_buffer >= StreamingMin
=============================================================================

------------------------- MODULE ClientParts_proofs -------------------------
(***************************************************************************)
(* Theorems about the parts of the clients that share no state: the sound  *)
(* devices, the file streams, the hub tab, the session with the hub and    *)
(* the mobile library, for any number of connections, captures, playbacks, *)
(* streams, tasks, processes, threads, tokens, calls and rooms, and any    *)
(* sizes of the buffer.                                                    *)
(***************************************************************************)
EXTENDS AudioDevices, FileStreams, HubDirectory, HubSession, MobileCore, TLAPS

----------------------------------------------------------------------------
(* Sound devices: types *)

LEMMA SpawnTypes ==
  ASSUME ADTypeOK, SpawnPlayback
  PROVE  /\ playbacks' \in Playbacks /\ playback_stream_stop' = playbacks'
         /\ speaker' \in [Playbacks -> {"none", "starting", "stored", "playing", "closed"}]
         /\ stopped_speakers' \subseteq Playbacks /\ raced' \subseteq Playbacks
         /\ playback_tx' = playback_tx
BY DEF SpawnPlayback, SpeakersReplaced, ADTypeOK

LEMMA CaptureTypes ==
  ASSUME ADTypeOK, NEW by \in Links \cup {UserInterface}, StartCapture(by)
  PROVE  /\ captures' \in Captures
         /\ mic' \in [Captures -> {"none", "opening", "open", "running", "closed"}]
         /\ mic_by' \in [Captures -> Links \cup {UserInterface}]
BY DEF StartCapture, ADTypeOK

LEMMA ReleasedTypes ==
  ASSUME ADTypeOK, NEW c \in Captures
  PROVE  Released(c) \in [Links -> {"none", "idle", "starting", "closed"}]
BY DEF Released, ADTypeOK

LEMMA DeviceTypeStep == ADTypeOK /\ [ADNext]_adVars => ADTypeOK'
<1> SUFFICES ASSUME ADTypeOK, [ADNext]_adVars PROVE ADTypeOK'
  OBVIOUS
<1> USE DEF ADTypeOK
<1>1. CASE Establish
  <2>1. CASE SpawnPlayback
    BY <1>1, <2>1, SpawnTypes DEF Establish
  <2>2. CASE UNCHANGED speakers
    BY <1>1, <2>2 DEF Establish, speakers
  <2> QED
    BY <1>1, <2>1, <2>2 DEF Establish
<1>2. CASE RestartAudio
  BY <1>2, SpawnTypes, CaptureTypes DEF RestartAudio, StopCapture, connection
<1>3. CASE StopAudioPipeline
  BY <1>3 DEF StopAudioPipeline, StopCapture, NowOpening, speakers
<1>4. CASE DoDisconnect
  BY <1>4 DEF DoDisconnect, StopCapture, NowOpening
<1>5. ASSUME NEW k \in Links, AudioConfigAck(k) PROVE ADTypeOK'
  BY <1>5, CaptureTypes DEF AudioConfigAck, speakers
<1>6. ASSUME NEW k \in Links, ReceiverCloses(k) PROVE ADTypeOK'
  BY <1>6 DEF ReceiverCloses, microphones, speakers
<1>7. ASSUME NEW c \in Captures, MicrophoneOpens(c) PROVE ADTypeOK'
  BY <1>7 DEF MicrophoneOpens, connection, speakers
<1>8. ASSUME NEW c \in Captures, MicrophoneFails(c) PROVE ADTypeOK'
  BY <1>8, ReleasedTypes DEF MicrophoneFails, speakers
<1>9. ASSUME NEW c \in Captures, KeepCapture(c) PROVE ADTypeOK'
  BY <1>9, ReleasedTypes DEF KeepCapture, Replaced, speakers
<1>10. ASSUME NEW c \in Captures, CaptureEnds(c) PROVE ADTypeOK'
  BY <1>10 DEF CaptureEnds, connection, speakers
<1>11. ASSUME NEW p \in Playbacks, PlaybackStores(p) \/ PlaybackPlays(p) \/ PlaybackEnds(p)
       PROVE  ADTypeOK'
  BY <1>11 DEF PlaybackStores, PlaybackPlays, PlaybackEnds, connection, microphones
<1>12. CASE UNCHANGED adVars
  BY <1>12 DEF adVars
<1> QED
  BY <1>1, <1>2, <1>3, <1>4, <1>5, <1>6, <1>7, <1>8, <1>9, <1>10, <1>11, <1>12 DEF ADNext

(* The types of AudioDevices. *)
THEOREM DeviceTypes == ADSpec => []ADTypeOK
<1>1. ADInit => ADTypeOK
  BY DEF ADInit, ADTypeOK
<1> QED
  BY <1>1, DeviceTypeStep, PTL DEF ADSpec

----------------------------------------------------------------------------
(* The microphone *)

(* A capture that runs and was not told to stop is the one inner can stop; it
   runs for the connection there is, or is late; so does one still being
   opened, which is what makes this inductive: KeepCapture asks for nothing. *)
MicInv ==
  /\ \A c \in Captures : mic[c] = "running" /\ c \notin stopped_mics =>
       capture_stream_stop = c /\ (connected \/ c \in late)
  /\ \A c \in Captures : Opening(c) => connected \/ c \in late
  /\ DOMAIN mic = Captures
  /\ connected \in BOOLEAN

LEMMA MicInit == ADInit => MicInv
BY DEF ADInit, MicInv, Opening

(* No capture goes on unstopped once the one in inner was told to stop. *)
LEMMA NoneGoesOn ==
  ASSUME MicInv, NEW c \in Captures, mic[c] = "running"
  PROVE  c \in stopped_mics \cup ({capture_stream_stop} \ {NoDevice})
BY NoDeviceAssumption DEF MicInv

LEMMA MicStep == MicInv /\ [ADNext]_adVars => MicInv'
<1> SUFFICES ASSUME MicInv, [ADNext]_adVars PROVE MicInv'
  OBVIOUS
<1> USE DEF MicInv, Opening
<1>1. CASE Establish
  BY <1>1 DEF Establish
<1>2. CASE RestartAudio
  <2>1. mic' = [mic EXCEPT ![captures'] = "opening"] /\ connected' = connected /\ connected
    BY <1>2 DEF RestartAudio, StartCapture, connection
  <2>2. \A c \in Captures : mic'[c] = "running" => c \in stopped_mics'
    BY <1>2, <2>1, NoneGoesOn DEF RestartAudio, StopCapture
  <2> QED
    BY <2>1, <2>2
<1>3. CASE StopAudioPipeline
  <2>1. mic' = mic /\ connected' = FALSE /\ late' = late \cup NowOpening
    BY <1>3 DEF StopAudioPipeline
  <2>2. \A c \in Captures : mic'[c] = "running" => c \in stopped_mics'
    BY <1>3, <2>1, NoneGoesOn DEF StopAudioPipeline, StopCapture
  <2> QED
    BY <2>1, <2>2 DEF NowOpening
<1>4. CASE DoDisconnect
  <2>1. mic' = mic /\ connected' = FALSE /\ late' = late \cup NowOpening
    BY <1>4 DEF DoDisconnect
  <2>2. \A c \in Captures : mic'[c] = "running" => c \in stopped_mics'
    BY <1>4, <2>1, NoneGoesOn DEF DoDisconnect, StopCapture
  <2> QED
    BY <2>1, <2>2 DEF NowOpening
<1>5. ASSUME NEW k \in Links, AudioConfigAck(k) PROVE MicInv'
  <2>1. mic' = [mic EXCEPT ![captures'] = "opening"] /\ connected' = connected
    BY <1>5 DEF AudioConfigAck, StartCapture
  <2>2. stopped_mics' = stopped_mics /\ capture_stream_stop' = capture_stream_stop
    BY <1>5 DEF AudioConfigAck
  <2>3. late \subseteq late' /\ (connected \/ captures' \in late')
    BY <1>5 DEF AudioConfigAck
  <2> QED
    BY <2>1, <2>2, <2>3
<1>6. ASSUME NEW k \in Links, ReceiverCloses(k) PROVE MicInv'
  BY <1>6 DEF ReceiverCloses, microphones
<1>7. ASSUME NEW c \in Captures, MicrophoneOpens(c) PROVE MicInv'
  BY <1>7 DEF MicrophoneOpens, connection
<1>8. ASSUME NEW c \in Captures, MicrophoneFails(c) PROVE MicInv'
  BY <1>8 DEF MicrophoneFails
<1>9. ASSUME NEW c \in Captures, KeepCapture(c) PROVE MicInv'
  <2>1. mic' = [mic EXCEPT ![c] = "running"] /\ connected' = connected /\ late' = late
    BY <1>9 DEF KeepCapture
  <2>2. connected \/ c \in late
    BY <1>9 DEF KeepCapture
  <2>3. capture_stream_stop' = c /\ stopped_mics' = Replaced(stopped_mics)
    BY <1>9 DEF KeepCapture
  <2>4. \A d \in Captures \ {c} : mic'[d] = "running" => d \in stopped_mics'
    BY <2>1, <2>3, NoneGoesOn DEF Replaced
  <2> QED
    BY <2>1, <2>2, <2>3, <2>4
<1>10. ASSUME NEW c \in Captures, CaptureEnds(c) PROVE MicInv'
  BY <1>10 DEF CaptureEnds, connection
<1>11. ASSUME NEW p \in Playbacks, PlaybackStores(p) \/ PlaybackPlays(p) \/ PlaybackEnds(p)
       PROVE MicInv'
  BY <1>11 DEF PlaybackStores, PlaybackPlays, PlaybackEnds, connection, microphones
<1>12. CASE UNCHANGED adVars
  BY <1>12 DEF adVars
<1> QED
  BY <1>1, <1>2, <1>3, <1>4, <1>5, <1>6, <1>7, <1>8, <1>9, <1>10, <1>11, <1>12 DEF ADNext

(* An open microphone can be closed or is closing, and without a connection
   none is open but one somebody was still opening: restart_audio,
   do_disconnect, stop_audio_pipeline and audio_config_ack in any order. *)
THEOREM MicrophoneIsOwned == ADSpec => []MicrophoneOwned
<1>1. MicInv => MicrophoneOwned
  BY DEF MicInv, MicrophoneOwned
<1> QED
  BY <1>1, MicInit, MicStep, PTL DEF ADSpec

----------------------------------------------------------------------------
(* The speaker *)

Unstopped(p) == speaker[p] \in {"starting", "stored", "playing"} /\ p \notin stopped_speakers

(* At most one playback was not told to stop, the one inner can stop.  If
   another is still being opened beside it, that one is older, and the newer
   one is in raced; so a playback outside raced cannot have its channel
   replaced once it has stored it. *)
SpeakerInv ==
  /\ \A p \in Playbacks : Unstopped(p) => playback_stream_stop = p
  /\ \A p, q \in Playbacks : Unstopped(p) /\ q # p /\ StartingUp(q) => p \in raced
  /\ \A p \in Playbacks : Unstopped(p) /\ speaker[p] # "starting" =>
       p \in raced \/ playback_tx = p
  /\ DOMAIN speaker = Playbacks

LEMMA SpeakerInit == ADInit => SpeakerInv
BY DEF ADInit, SpeakerInv, Unstopped, StartingUp

(* A new playback: the last is told to stop, and whoever is still being opened
   puts the new one into raced. *)
LEMMA SpawnKeeps ==
  ASSUME SpeakerInv, SpawnPlayback
  PROVE  SpeakerInv'
<1> DEFINE r == playbacks'
<1>1. r \in Playbacks /\ speaker' = [speaker EXCEPT ![r] = "starting"] /\ playback_stream_stop' = r
  BY DEF SpawnPlayback
<1>2. \A p \in Playbacks : Unstopped(p)' => p = r
  BY <1>1, NoDeviceAssumption DEF SpawnPlayback, SpeakersReplaced, SpeakerInv, Unstopped
<1>3. \A q \in Playbacks : q # r /\ StartingUp(q)' => r \in raced'
  BY <1>1 DEF SpawnPlayback, StartingUp, SpeakerInv
<1> QED
  BY <1>1, <1>2, <1>3 DEF SpeakerInv

LEMMA SpeakerStep == SpeakerInv /\ [ADNext]_adVars => SpeakerInv'
<1> SUFFICES ASSUME SpeakerInv, [ADNext]_adVars PROVE SpeakerInv'
  OBVIOUS
<1> USE DEF SpeakerInv, Unstopped, StartingUp
<1>1. CASE Establish
  BY <1>1, SpawnKeeps DEF Establish, speakers
<1>2. CASE RestartAudio
  BY <1>2, SpawnKeeps DEF RestartAudio
<1>3. CASE StopAudioPipeline
  BY <1>3 DEF StopAudioPipeline, speakers
<1>4. CASE DoDisconnect
  <2>1. /\ speaker' = speaker
        /\ stopped_speakers' = stopped_speakers \cup ({playback_stream_stop} \ {NoDevice})
    BY <1>4 DEF DoDisconnect
  <2>2. \A p \in Playbacks : ~Unstopped(p)'
    BY <2>1, NoDeviceAssumption
  <2> QED
    BY <2>1, <2>2
<1>5. ASSUME NEW k \in Links, AudioConfigAck(k) \/ ReceiverCloses(k) PROVE SpeakerInv'
  BY <1>5 DEF AudioConfigAck, ReceiverCloses, speakers
<1>6. ASSUME NEW c \in Captures,
             MicrophoneOpens(c) \/ MicrophoneFails(c) \/ KeepCapture(c) \/ CaptureEnds(c)
      PROVE  SpeakerInv'
  BY <1>6 DEF MicrophoneOpens, MicrophoneFails, KeepCapture, CaptureEnds, speakers
<1>7. ASSUME NEW p \in Playbacks, PlaybackStores(p) PROVE SpeakerInv'
  BY <1>7 DEF PlaybackStores
<1>8. ASSUME NEW p \in Playbacks, PlaybackPlays(p) PROVE SpeakerInv'
  BY <1>8 DEF PlaybackPlays
<1>9. ASSUME NEW p \in Playbacks, PlaybackEnds(p) PROVE SpeakerInv'
  BY <1>9 DEF PlaybackEnds
<1>10. CASE UNCHANGED adVars
  BY <1>10 DEF adVars
<1> QED
  BY <1>1, <1>2, <1>3, <1>4, <1>5, <1>6, <1>7, <1>8, <1>9, <1>10 DEF ADNext

(* An open speaker can be closed or is closing, and the one that stays gets
   the sound unless its opening raced with an older one's. *)
THEOREM SpeakerIsOwned == ADSpec => []SpeakerOwned
<1>1. SpeakerInv => SpeakerOwned
  BY DEF SpeakerInv, SpeakerOwned, Unstopped
<1> QED
  BY <1>1, SpeakerInit, SpeakerStep, PTL DEF ADSpec

----------------------------------------------------------------------------
(* Streams *)

(* What was begun beside an older stream is in overlapped, and the older was
   told: of two streams that are under way only the older can be outside it.
   So whichever of them ends and forgets the channel, the other one loses
   nothing it needs. *)
StreamInv ==
  /\ \A s \in Alive \ overlapped :
       stage[s] # "reporting" => s \in told \/ stream_shutdown = s
  /\ \A s \in Alive \ overlapped : \A r \in Alive :
       r # s /\ stage[s] # "reporting" => s \in told
  /\ DOMAIN stage = Streams

LEMMA StreamInit == FSInit => StreamInv
BY DEF FSInit, StreamInv, Alive

(* A step of the task of s: a stage other than none changes, to another one. *)
LEMMA TaskMoves ==
  ASSUME StreamInv, NEW s \in Streams, NEW g \in Stages \ {"none"},
         stage[s] \notin {"none", "done"},
         stage[s] # "reporting" \/ g = "done", Move(s, g),
         UNCHANGED <<told, overlapped>>, stream_shutdown' = stream_shutdown
  PROVE  StreamInv'
BY DEF StreamInv, Move, Alive

(* An order of the user that tells the stream there is: each stream outside
   overlapped has been told then. *)
LEMMA AllTold ==
  ASSUME StreamInv, told' = Told, UNCHANGED <<stage, overlapped>>
  PROVE  StreamInv'
BY DEF StreamInv, Told, Alive

LEMMA StreamFileKeeps ==
  ASSUME StreamInv, StreamFile
  PROVE  StreamInv'
<1> DEFINE n == streams + 1
<1>1. n \in Streams /\ stage' = [stage EXCEPT ![n] = "opening"] /\ stream_shutdown' = n
  BY DEF StreamFile, Move
<1>2. told' = told \cup ({stream_shutdown} \cap Streams)
  BY DEF StreamFile, ToldByNext, Told
<1>3. overlapped' = IF Alive = {} THEN overlapped ELSE overlapped \cup {n}
  BY DEF StreamFile
<1> HIDE DEF n
<1>4. Alive' = Alive \cup {n}
  BY <1>1 DEF Alive, StreamInv
<1>5. \A s \in Alive \ overlapped : stage[s] # "reporting" => s \in told'
  BY <1>2 DEF StreamInv, Alive
<1>6. \A s \in Alive' \ overlapped' : s # n => s \in Alive \ overlapped /\ stage'[s] = stage[s]
  BY <1>1, <1>3, <1>4 DEF StreamInv, Alive
<1>7. n \in overlapped' \/ Alive = {}
  BY <1>3
<1> QED
  BY <1>1, <1>4, <1>5, <1>6, <1>7 DEF StreamInv

LEMMA StreamStep == StreamInv /\ [FSNext]_fsVars => StreamInv'
<1> SUFFICES ASSUME StreamInv, [FSNext]_fsVars PROVE StreamInv'
  OBVIOUS
<1>1. CASE StreamFile
  BY <1>1, StreamFileKeeps
<1>2. CASE StopStream
  BY <1>2, AllTold DEF StopStream, ghosts
<1>3. CASE StopAudio
  BY <1>3, AllTold DEF StopAudio
<1>4. CASE TogglePauseStream \/ StreamSeek \/ HandleFinished
  BY <1>4 DEF TogglePauseStream, StreamSeek, HandleFinished, ghosts, StreamInv, Alive
<1>5. ASSUME NEW s \in Streams, Open(s) PROVE StreamInv'
  BY <1>5, TaskMoves DEF Open, Quiet, ghosts, Stages
<1>6. ASSUME NEW s \in Streams, EnlargeBuffer(s) PROVE StreamInv'
  BY <1>6, TaskMoves DEF EnlargeBuffer, Quiet, Stages
<1>7. ASSUME NEW s \in Streams, Block(s) PROVE StreamInv'
  <2>1. UNCHANGED <<told, overlapped>> /\ stream_shutdown' = stream_shutdown
    BY <1>7 DEF Block, Quiet, ghosts
  <2>2. Move(s, "leaving") \/ Move(s, "paused") \/ UNCHANGED stage
    BY <1>7 DEF Block
  <2>3. stage[s] = "playing"
    BY <1>7 DEF Block
  <2>4. CASE UNCHANGED stage
    BY <2>1, <2>4 DEF StreamInv, Alive
  <2> QED
    BY <2>1, <2>2, <2>3, <2>4, TaskMoves DEF Stages
<1>8. ASSUME NEW s \in Streams, Paused(s) PROVE StreamInv'
  BY <1>8, TaskMoves DEF Paused, Quiet, ghosts, Stages
<1>9. ASSUME NEW s \in Streams, EndOfFile(s) PROVE StreamInv'
  BY <1>9, TaskMoves DEF EndOfFile, Quiet, ghosts, Stages
<1>10. ASSUME NEW s \in Streams, Finish(s) PROVE StreamInv'
  BY <1>10, TaskMoves DEF Finish, Quiet, Stages
<1>11. ASSUME NEW s \in Streams, ForgetStream(s) PROVE StreamInv'
  <2>1. stage[s] = "ending" /\ stage' = [stage EXCEPT ![s] = "reporting"]
    BY <1>11 DEF ForgetStream, Move
  <2>2. UNCHANGED <<told, overlapped>>
    BY <1>11 DEF ForgetStream, Quiet, ghosts
  <2> QED
    BY <2>1, <2>2 DEF StreamInv, Alive
<1>12. ASSUME NEW s \in Streams, ReportFinished(s) PROVE StreamInv'
  BY <1>12, TaskMoves DEF ReportFinished, Quiet, ghosts, Stages
<1>13. CASE StartPlayback
  BY <1>13 DEF StartPlayback, StreamInv, Alive
<1>14. CASE Callback \/ LoadCurrent \/ Shrink \/ Grow
  BY <1>14 DEF Callback, LoadCurrent, Shrink, Grow, CallbackKeeps, StreamInv, Alive
<1>15. CASE UNCHANGED fsVars
  BY <1>15 DEF fsVars, StreamInv, Alive
<1> QED
  BY <1>1, <1>2, <1>3, <1>4, <1>5, <1>6, <1>7, <1>8, <1>9, <1>10, <1>11, <1>12, <1>13, <1>14,
     <1>15 DEF FSNext

(* A stream under way was told to stop or can be, unless it began while an
   older one was: stream_file, stop_stream and the end of other streams. *)
THEOREM StreamsAreStoppable == FSSpec => []StreamStoppable
<1>1. StreamInv => StreamStoppable
  BY DEF StreamInv, StreamStoppable
<1> QED
  BY <1>1, StreamInit, StreamStep, PTL DEF FSSpec

----------------------------------------------------------------------------
(* The buffer *)

(* What the callback holds is in range at each of its steps. *)
BufferInv ==
  /\ pre_buffer \in MinPreBuffer..MaxPreBuffer
  /\ callback \in [doing: {"idle", "stable", "underrun", "shrink", "grow"},
                   floor: {0, MinPreBuffer, StreamingMin}, current: 0..MaxPreBuffer]
  /\ callback.doing \in {"stable", "shrink"} => callback.floor \in {MinPreBuffer, StreamingMin}
  /\ callback.doing \in {"shrink", "grow"} => callback.current \in MinPreBuffer..MaxPreBuffer

(* While a stream plays whose floor nothing undid, the flag the callback looks
   at is up, and whatever it looked at before this step was big enough. *)
FloorsHold ==
  /\ file_streaming = TRUE
  /\ pre_buffer >= StreamingMin
  /\ callback.doing \in {"stable", "shrink"} => callback.floor >= StreamingMin
  /\ callback.doing \in {"shrink", "grow"} => callback.current >= StreamingMin

FloorInv == Playing \ unfloored # {} => FloorsHold

(* The three sums the callback and a starting stream store. *)
LEMMA Shrunk ==
  ASSUME NEW c \in Nat, NEW f \in Nat, c > f
  PROVE  /\ AtLeast(Less(c, Decrease), f) \in Nat
         /\ f <= AtLeast(Less(c, Decrease), f)
         /\ AtLeast(Less(c, Decrease), f) <= c
BY BufferAssumption DEF AtLeast, Less

LEMMA Grown ==
  ASSUME NEW c \in Nat, c <= MaxPreBuffer
  PROVE  /\ AtMost(c + Increase, MaxPreBuffer) \in Nat
         /\ c <= AtMost(c + Increase, MaxPreBuffer)
         /\ AtMost(c + Increase, MaxPreBuffer) <= MaxPreBuffer
BY BufferAssumption DEF AtMost

LEMMA EnlargedEnough ==
  ASSUME pre_buffer \in MinPreBuffer..MaxPreBuffer
  PROVE  /\ Enlarged \in MinPreBuffer..MaxPreBuffer
         /\ Enlarged >= StreamingMin /\ Enlarged >= pre_buffer
BY BufferAssumption DEF Enlarged

LEMMA BufferInit == FSInit => BufferInv /\ FloorInv
BY BufferAssumption DEF FSInit, BufferInv, FloorInv, Idle, Playing

LEMMA BufferStep == BufferInv /\ [FSNext]_fsVars => BufferInv'
<1> SUFFICES ASSUME BufferInv, [FSNext]_fsVars PROVE BufferInv'
  OBVIOUS
<1>1. CASE UNCHANGED <<pre_buffer, callback>>
  BY <1>1 DEF BufferInv
<1>2. ASSUME NEW s \in Streams, EnlargeBuffer(s) PROVE BufferInv'
  BY <1>2, EnlargedEnough DEF EnlargeBuffer, BufferInv
<1>3. CASE StartPlayback
  BY <1>3, BufferAssumption DEF StartPlayback, BufferInv
<1>4. CASE Callback
  <2>1. Floor(file_streaming) \in {MinPreBuffer, StreamingMin}
    BY DEF Floor
  <2>2. 0 \in 0..MaxPreBuffer /\ pre_buffer' = pre_buffer
    BY <1>4, BufferAssumption DEF Callback
  <2>3. \/ callback' = callback
        \/ callback' = [doing |-> "stable", floor |-> Floor(file_streaming), current |-> 0]
        \/ callback' = [doing |-> "underrun", floor |-> 0, current |-> 0]
    BY <1>4 DEF Callback, Idle
  <2> HIDE DEF Floor
  <2> QED
    BY <2>1, <2>2, <2>3 DEF BufferInv
<1>5. CASE LoadCurrent
  <2>1. pre_buffer' = pre_buffer /\ pre_buffer \in 0..MaxPreBuffer
    BY <1>5, BufferAssumption DEF LoadCurrent, BufferInv
  <2>2. callback' = [doing |-> IF callback.doing = "stable" THEN "shrink" ELSE "grow",
                     floor |-> callback.floor, current |-> pre_buffer]
    BY <1>5 DEF LoadCurrent, BufferInv
  <2>3. callback.doing \in {"stable", "underrun"}
    BY <1>5 DEF LoadCurrent
  <2> QED
    BY <2>1, <2>2, <2>3 DEF BufferInv
<1>6. CASE Shrink
  <2>1. callback.current \in Nat /\ callback.floor \in Nat /\ callback.current <= MaxPreBuffer
        /\ MinPreBuffer <= callback.floor
    BY <1>6, BufferAssumption DEF Shrink, BufferInv
  <2>2. pre_buffer' \in MinPreBuffer..MaxPreBuffer
    BY <1>6, <2>1, Shrunk, BufferAssumption DEF Shrink, BufferInv
  <2> QED
    BY <1>6, <2>2, BufferAssumption DEF Shrink, BufferInv, Idle
<1>7. CASE Grow
  <2>1. callback.current \in Nat /\ callback.current <= MaxPreBuffer
        /\ MinPreBuffer <= callback.current
    BY <1>7, BufferAssumption DEF Grow, BufferInv
  <2>2. pre_buffer' \in MinPreBuffer..MaxPreBuffer
    BY <1>7, <2>1, Grown, BufferAssumption DEF Grow, BufferInv
  <2> QED
    BY <1>7, <2>2, BufferAssumption DEF Grow, BufferInv, Idle
<1> QED
  BY <1>1, <1>2, <1>3, <1>4, <1>5, <1>6, <1>7
  DEF FSNext, fsVars, buffer, StreamFile, StopStream, TogglePauseStream, StreamSeek, StopAudio,
      HandleFinished, Open, Block, Paused, EndOfFile, Finish, ForgetStream, ReportFinished

LEMMA FloorStep ==
  BufferInv /\ FloorInv /\ file_streaming \in BOOLEAN /\ DOMAIN stage = Streams
    /\ [FSNext]_fsVars => FloorInv'
<1> SUFFICES ASSUME BufferInv, FloorInv, file_streaming \in BOOLEAN, DOMAIN stage = Streams,
                    [FSNext]_fsVars, NEW s \in Playing' \ unfloored'
             PROVE  FloorsHold'
  BY DEF FloorInv
<1>a. ASSUME s \in Playing, s \notin unfloored PROVE FloorsHold
  BY <1>a DEF FloorInv
<1>b. s \in Streams
  BY DEF Playing
\* Most steps leave the buffer alone, and no stream begins or ends to play.
<1>1. ASSUME UNCHANGED <<pre_buffer, callback>>, unfloored \subseteq unfloored',
             s \in Playing \ unfloored' => file_streaming' = TRUE, s \in Playing
      PROVE  FloorsHold'
  BY <1>1, <1>a DEF FloorsHold
<1>2. CASE StreamFile
  BY <1>2, <1>1, <1>a DEF StreamFile, Move, Playing, buffer, FloorsHold
<1>3. CASE StopStream \/ TogglePauseStream \/ StreamSeek \/ HandleFinished
  BY <1>3, <1>1, <1>a
  DEF StopStream, TogglePauseStream, StreamSeek, HandleFinished, Playing, buffer, ghosts, FloorsHold
<1>4. CASE StopAudio
  BY <1>4 DEF StopAudio, Playing
<1>5. ASSUME NEW r \in Streams, Open(r) PROVE FloorsHold'
  BY <1>5, <1>1, <1>a DEF Open, Move, Playing, buffer, ghosts, FloorsHold
<1>6. ASSUME NEW r \in Streams, EnlargeBuffer(r) PROVE FloorsHold'
  <2>1. pre_buffer' = Enlarged /\ UNCHANGED <<callback, file_streaming>>
    BY <1>6 DEF EnlargeBuffer, flags
  <2>2. Enlarged >= StreamingMin
    BY EnlargedEnough DEF BufferInv
  <2>3. CASE s = r
    <3>1. callback.doing = "idle" /\ file_streaming = TRUE
      BY <1>6, <2>3 DEF EnlargeBuffer
    <3> QED
      BY <2>1, <2>2, <3>1 DEF FloorsHold
  <2>4. CASE s # r
    <3>1. s \in Playing /\ s \notin unfloored
      BY <1>6, <2>4 DEF EnlargeBuffer, Move, Playing
    <3> QED
      BY <2>1, <2>2, <3>1, <1>a DEF FloorsHold
  <2> QED
    BY <2>3, <2>4
<1>7. ASSUME NEW r \in Streams, Block(r) \/ Paused(r) PROVE FloorsHold'
  <2>1. s \in Playing
    BY <1>7 DEF Block, Paused, Move, Playing
  <2> QED
    BY <1>7, <2>1, <1>1, <1>a DEF Block, Paused, buffer, ghosts, flags, FloorsHold
<1>8. ASSUME NEW r \in Streams, EndOfFile(r) \/ ForgetStream(r) \/ ReportFinished(r)
      PROVE  FloorsHold'
  <2>1. s \in Playing
    BY <1>8 DEF EndOfFile, ForgetStream, ReportFinished, Move, Playing
  <2> QED
    BY <1>8, <2>1, <1>1, <1>a
    DEF EndOfFile, ForgetStream, ReportFinished, buffer, ghosts, flags, FloorsHold
<1>9. ASSUME NEW r \in Streams, Finish(r) PROVE FloorsHold'
  BY <1>9 DEF Finish, Move, Playing
<1>10. CASE StartPlayback
  BY <1>10 DEF StartPlayback, Playing
<1>11. CASE Callback
  <2>1. FloorsHold /\ pre_buffer' = pre_buffer /\ file_streaming' = file_streaming
    BY <1>11, <1>a DEF Callback, CallbackKeeps, Playing, flags
  <2>2. Floor(file_streaming) = StreamingMin
    BY <2>1 DEF FloorsHold, Floor
  <2>3. \/ callback' = callback
        \/ callback' = [doing |-> "stable", floor |-> StreamingMin, current |-> 0]
        \/ callback' = [doing |-> "underrun", floor |-> 0, current |-> 0]
    BY <1>11, <2>2 DEF Callback, Idle
  <2> QED
    BY <2>1, <2>3, BufferAssumption DEF FloorsHold
<1>12. CASE LoadCurrent
  <2>1. FloorsHold /\ pre_buffer' = pre_buffer /\ file_streaming' = file_streaming
    BY <1>12, <1>a DEF LoadCurrent, CallbackKeeps, Playing, flags
  <2>2. callback' = [doing |-> IF callback.doing = "stable" THEN "shrink" ELSE "grow",
                     floor |-> callback.floor, current |-> pre_buffer]
    BY <1>12 DEF LoadCurrent, BufferInv
  <2> QED
    BY <2>1, <2>2, <1>12 DEF LoadCurrent, FloorsHold
<1>13. CASE Shrink
  <2>1. FloorsHold /\ file_streaming' = file_streaming /\ callback' = Idle
    BY <1>13, <1>a DEF Shrink, CallbackKeeps, Playing, flags
  <2>2. callback.current \in Nat /\ callback.floor \in Nat /\ callback.floor >= StreamingMin
    BY <1>13, <2>1, BufferAssumption DEF Shrink, BufferInv, FloorsHold
  <2>3. pre_buffer' >= StreamingMin
    BY <1>13, <2>1, <2>2, Shrunk, BufferAssumption DEF Shrink, FloorsHold
  <2> QED
    BY <2>1, <2>3 DEF FloorsHold, Idle
<1>14. CASE Grow
  <2>1. FloorsHold /\ file_streaming' = file_streaming /\ callback' = Idle
    BY <1>14, <1>a DEF Grow, CallbackKeeps, Playing, flags
  <2>2. callback.current \in Nat /\ callback.current <= MaxPreBuffer
        /\ callback.current >= StreamingMin
    BY <1>14, <2>1, BufferAssumption DEF Grow, BufferInv, FloorsHold
  <2>3. pre_buffer' >= StreamingMin
    BY <1>14, <2>1, <2>2, Grown, BufferAssumption DEF Grow, FloorsHold
  <2> QED
    BY <2>1, <2>3 DEF FloorsHold, Idle
<1>15. CASE UNCHANGED fsVars
  BY <1>15, <1>1, <1>a DEF fsVars, Playing, FloorsHold
<1> QED
  BY <1>2, <1>3, <1>4, <1>5, <1>6, <1>7, <1>8, <1>9, <1>10, <1>11, <1>12, <1>13, <1>14, <1>15
  DEF FSNext

----------------------------------------------------------------------------
(* Types *)

LEMMA StageTypes ==
  ASSUME stage \in [Streams -> Stages], NEW s \in Streams, NEW g \in Stages, Move(s, g)
  PROVE  stage' \in [Streams -> Stages]
BY DEF Move

LEMMA OrderTypes ==
  ASSUME orders \in 0..MaxOrders, Order
  PROVE  orders' \in 0..MaxOrders
BY BufferAssumption DEF Order

(* What the two parts of FSTypeOK about the buffer do not say. *)
RestTypes ==
  /\ streams \in Streams \cup {0} /\ orders \in 0..MaxOrders
  /\ stage \in [Streams -> Stages]
  /\ told \subseteq Streams /\ stream_shutdown \in Streams \cup {NoStream}
  /\ streaming_file \in BOOLEAN /\ file_streaming \in BOOLEAN
  /\ stream_paused \in BOOLEAN /\ seek \in BOOLEAN
  /\ finished \in Nat /\ pre_buffered \in BOOLEAN
  /\ overlapped \subseteq Streams /\ unfloored \subseteq Streams

LEMMA RestStep == RestTypes /\ [FSNext]_fsVars => RestTypes'
<1> SUFFICES ASSUME RestTypes, [FSNext]_fsVars PROVE RestTypes'
  OBVIOUS
<1> USE DEF RestTypes
<1>1. CASE StreamFile
  BY <1>1, OrderTypes, StageTypes DEF StreamFile, ToldByNext, Told, buffer, Stages
<1>2. CASE StopStream \/ TogglePauseStream \/ StreamSeek
  BY <1>2, OrderTypes DEF StopStream, TogglePauseStream, StreamSeek, Told, buffer, ghosts
<1>3. CASE StopAudio
  BY <1>3, OrderTypes DEF StopAudio, Told, buffer, Playing
<1>4. CASE HandleFinished
  <2>1. finished' \in Nat
    BY <1>4 DEF HandleFinished
  <2>2. UNCHANGED <<pre_buffered, overlapped, unfloored>>
    BY <1>4 DEF HandleFinished, buffer, ghosts
  <2>3. streaming_file' \in BOOLEAN /\ stream_paused' \in BOOLEAN
    BY <1>4 DEF HandleFinished
  <2>4. UNCHANGED <<streams, stage, told, stream_shutdown, file_streaming, seek, orders>>
    BY <1>4 DEF HandleFinished
  <2> HIDE DEF HandleFinished
  <2> QED
    BY <2>1, <2>2, <2>3, <2>4
<1>5. ASSUME NEW s \in Streams, Open(s) PROVE RestTypes'
  BY <1>5, StageTypes DEF Open, Quiet, buffer, ghosts, Stages
<1>6. ASSUME NEW s \in Streams, EnlargeBuffer(s) PROVE RestTypes'
  BY <1>6, StageTypes DEF EnlargeBuffer, Quiet, flags, Stages
<1>7. ASSUME NEW s \in Streams, Block(s) PROVE RestTypes'
  BY <1>7, StageTypes DEF Block, Quiet, buffer, ghosts, Stages
<1>8. ASSUME NEW s \in Streams, Paused(s) \/ EndOfFile(s) PROVE RestTypes'
  BY <1>8, StageTypes DEF Paused, EndOfFile, Quiet, flags, buffer, ghosts, Stages
<1>9. ASSUME NEW s \in Streams, Finish(s) PROVE RestTypes'
  <2>1. stage' \in [Streams -> Stages]
    BY <1>9, StageTypes DEF Finish, Stages
  <2>2. unfloored' \subseteq Streams
    BY <1>9 DEF Finish, Playing
  <2>3. pre_buffered' = pre_buffered
    BY <1>9 DEF Finish, buffer
  <2> QED
    BY <1>9, <2>1, <2>2, <2>3 DEF Finish, Quiet
<1>10. ASSUME NEW s \in Streams, ForgetStream(s) \/ ReportFinished(s) PROVE RestTypes'
  BY <1>10, StageTypes DEF ForgetStream, ReportFinished, Quiet, flags, buffer, ghosts, Stages
<1>11. CASE StartPlayback
  BY <1>11, OrderTypes DEF StartPlayback, flags
<1>12. CASE Callback \/ LoadCurrent \/ Shrink \/ Grow
  BY <1>12 DEF Callback, LoadCurrent, Shrink, Grow, CallbackKeeps, flags
<1>13. CASE UNCHANGED fsVars
  BY <1>13 DEF fsVars
<1> QED
  BY <1>1, <1>2, <1>3, <1>4, <1>5, <1>6, <1>7, <1>8, <1>9, <1>10, <1>11, <1>12, <1>13 DEF FSNext

LEMMA RestInit == FSInit => RestTypes
<1> SUFFICES ASSUME FSInit PROVE RestTypes
  OBVIOUS
<1>1. orders \in 0..MaxOrders /\ finished \in Nat
  BY BufferAssumption DEF FSInit
<1>2. stage \in [Streams -> Stages]
  BY DEF FSInit, Stages
<1> QED
  BY <1>1, <1>2 DEF FSInit, RestTypes

(* The types of FileStreams; the buffer stays between MIN_PRE_BUFFER_MS and
   MAX_PRE_BUFFER_MS. *)
THEOREM StreamTypes == FSSpec => []FSTypeOK
<1>1. RestTypes /\ BufferInv => FSTypeOK
  BY DEF RestTypes, BufferInv, FSTypeOK
<1> QED
  BY <1>1, RestInit, RestStep, BufferInit, BufferStep, PTL DEF FSSpec

(* While a file plays the callback never shrinks the buffer below what a
   stream needs, unless something else undid its floor: the callback, the
   streams and the user in any order, with any sizes. *)
THEOREM FloorHolds == FSSpec => []StreamingFloor
<1>1. RestTypes => file_streaming \in BOOLEAN /\ DOMAIN stage = Streams
  BY DEF RestTypes
<1>2. FloorInv => StreamingFloor
  BY DEF FloorInv, FloorsHold, StreamingFloor
<1> QED
  BY <1>1, <1>2, RestInit, RestStep, BufferInit, BufferStep, FloorStep, PTL DEF FSSpec

----------------------------------------------------------------------------
(* The hub tab: types *)

Scopes == {"public", "mine"}

ServerAddresses == Addresses \cup {HubAddress}

HubEvents ==
  {Notice} \cup [kind : {"reload"}, mine : BOOLEAN]
    \cup [kind : {"servers"}, scope : Scopes, account : HubAccounts, server : Nat,
          address : ServerAddresses \cup {Gone}]

(* What a task of each kind carries. *)
HubTask(t) ==
  /\ t.kind = "load" => t.scope \in Scopes
  /\ t.kind = "login" => t.account \in HubAccounts
  /\ t.kind = "create" => t.private \in BOOLEAN /\ t.address \in ServerAddresses
  /\ t.kind = "delete" => t.server \in Nat
  /\ t.kind = "edit" => /\ t.server \in Nat /\ t.address \in ServerAddresses
                        /\ t.typed \in Addresses \cup {Untyped}

HubTasks ==
  /\ task = [k \in TaskIds |-> task[k]]
  /\ \A k \in TaskIds : task[k] = NoTask \/ HubTask(task[k])

HubTypes == HDTypeOK /\ HubTasks /\ ui_events \in Seq(HubEvents)

LEMMA SpawnTasks ==
  ASSUME HubTasks, NEW t, HubTask(t), Spawn(t)
  PROVE  HubTasks'
BY DEF HubTasks, Spawn

LEMMA DoneTasks ==
  ASSUME HubTypes, NEW k \in TaskIds, Done(k)
  PROVE  HubTasks' /\ access' \in [TaskIds -> HubAccounts \cup {NoAccount}]
<1>1. HubTasks'
  BY DEF HubTypes, HubTasks, Done
<1>2. access' \in [TaskIds -> HubAccounts \cup {NoAccount}]
  BY DEF HubTypes, HDTypeOK, Done
<1> QED
  BY <1>1, <1>2

LEMMA PostEvents ==
  ASSUME ui_events \in Seq(HubEvents), NEW e \in Seq(HubEvents), Post(e)
  PROVE  ui_events' \in Seq(HubEvents)
BY DEF Post

LEMMA NoticeEvents ==
  /\ <<Notice>> \in Seq(HubEvents)
  /\ \A mine \in BOOLEAN : /\ <<Reload(mine), Notice>> \in Seq(HubEvents)
                           /\ <<Notice, Reload(mine)>> \in Seq(HubEvents)
<1>1. Notice \in HubEvents
  BY DEF HubEvents
<1>2. \A mine \in BOOLEAN : Reload(mine) \in HubEvents
  BY DEF HubEvents, Reload
<1> HIDE DEF HubEvents, Notice, Reload
<1> QED
  BY <1>1, <1>2

LEMMA HandlesEvent ==
  ASSUME ui_events \in Seq(HubEvents), NEW kind, Handles(kind)
  PROVE  /\ ui_events' \in Seq(HubEvents) /\ Head(ui_events) \in HubEvents
         /\ Head(ui_events) = ui_events[1] /\ Len(ui_events) \in Nat \ {0}
         /\ Len(ui_events') = Len(ui_events) - 1
         /\ \A i \in 1..Len(ui_events') : ui_events'[i] = ui_events[i + 1]
BY DEF Handles

LEMMA ListEvent ==
  ASSUME HubTypes, NEW k \in TaskIds, ListArrives(k)
  PROVE  [kind |-> "servers", scope |-> task[k].scope, account |-> access[k],
          server |-> server, address |-> address] \in HubEvents
<1>1. access[k] \in HubAccounts /\ task[k].scope \in Scopes
  BY DEF ListArrives, Calls, Runs, HubTypes, HDTypeOK, HubTasks, HubTask
<1>2. server \in Nat /\ address \in ServerAddresses \cup {Gone}
  BY DEF HubTypes, HDTypeOK, ServerAddresses
<1> QED
  BY <1>1, <1>2 DEF HubEvents

LEMMA LoadTypes ==
  ASSUME HubTypes, NEW s \in Scopes, LoadDirectory(s)
  PROVE  HubTasks' /\ mixed' \in BOOLEAN
<1>1. CASE Found = NoAccount
  <2>1. UNCHANGED task /\ mixed' \in BOOLEAN
    BY <1>1 DEF LoadDirectory, Emptied, HubTypes, HDTypeOK
  <2> QED
    BY <2>1 DEF HubTypes, HubTasks
<1>2. CASE Found # NoAccount
  <2> DEFINE t == [kind |-> "load", scope |-> s]
  <2>1. HubTask(t)
    BY DEF HubTask
  <2>2. Spawn(t) /\ mixed' = Loading
    BY <1>2 DEF LoadDirectory
  <2>3. mixed' \in BOOLEAN
    BY <2>2 DEF Loading
  <2> QED
    BY <2>1, <2>2, <2>3, SpawnTasks DEF HubTypes
<1> QED
  BY <1>1, <1>2

LEMMA HubTypeStep == HubTypes /\ [HDNext]_hdVars => HubTypes'
<1> SUFFICES ASSUME HubTypes, [HDNext]_hdVars PROVE HubTypes'
  OBVIOUS
<1>0. HDTypeOK /\ HubTasks /\ ui_events \in Seq(HubEvents)
  BY DEF HubTypes
<1> USE DEF HDTypeOK
<1>a. UserActs => acts' \in 0..MaxActs
  BY <1>0, HubAssumption DEF UserActs
<1>b. UNCHANGED task => HubTasks'
  BY <1>0 DEF HubTasks
<1>c. \A v \in Views : UpdateHubView(v) => page' \in Views \cup {"account"} /\ misread' \in BOOLEAN
  BY DEF PageOf, UpdateHubView
<1> USE DEF shown, renewal, at_hub, doubts
<1>1. ASSUME NEW v \in Views, SelectView(v) PROVE HubTypes'
  BY <1>0, <1>1, <1>a, <1>b, <1>c DEF SelectView, HubTypes
<1>2. ASSUME NEW s \in Scopes, SelectScope(s) PROVE HubTypes'
  BY <1>0, <1>2, <1>a, LoadTypes DEF SelectScope, HubTypes, Scopes
<1>3. ASSUME NEW a \in HubAccounts, StartLogin(a) PROVE HubTypes'
  <2>1. HubTask([kind |-> "login", account |-> a])
    BY DEF HubTask
  <2>2. HubTasks'
    BY <1>0, <1>3, <2>1, SpawnTasks DEF StartLogin
  <2> QED
    BY <1>0, <1>3, <1>a, <2>2 DEF StartLogin, HubTypes
<1>4. CASE StartLogout
  <2>1. HubTask([kind |-> "logout"])
    BY DEF HubTask
  <2>2. HubTasks' /\ mixed' \in BOOLEAN
    BY <1>0, <1>4, <2>1, SpawnTasks DEF StartLogout, Loading
  <2> QED
    BY <1>0, <1>4, <1>a, <2>2 DEF StartLogout, HubTypes, Views
<1>5. CASE SettingsSaved
  BY <1>0, <1>5, <1>a, <1>b DEF SettingsSaved, HubTypes
<1>6. CASE HubInvites
  <2>1. CASE HubShowMyServers /\ UNCHANGED <<account, session_lost>>
    BY <1>0, <1>6, <1>a, <2>1, LoadTypes
    DEF HubInvites, HubShowMyServers, SelectedFirst, HubTypes, Scopes
  <2>2. CASE Rejected /\ UNCHANGED <<scope, task, mixed>>
    BY <1>0, <1>6, <1>a, <1>b, <2>2 DEF HubInvites, Rejected, HubTypes
  <2> QED
    BY <1>6, <2>1, <2>2 DEF HubInvites
<1>7. CASE HubDeleteServer
  <2>1. list.server \in Nat
    BY <1>0, <1>7 DEF HubDeleteServer, Listed
  <2>2. HubTask([kind |-> "delete", server |-> list.server])
    BY <2>1 DEF HubTask
  <2>3. HubTasks'
    BY <1>0, <1>7, <2>2, SpawnTasks DEF HubDeleteServer
  <2> QED
    BY <1>0, <1>7, <1>a, <2>3 DEF HubDeleteServer, HubTypes
<1>8. CASE OpenEditDialog
  <2>1. list.server \in Nat /\ list.address \in ServerAddresses
    BY <1>0, <1>8 DEF OpenEditDialog, Listed, ServerAddresses
  <2>2. edit_dialog' \in [server : Nat, address : Addresses \cup {HubAddress}]
    BY <1>8, <2>1 DEF OpenEditDialog, ServerAddresses
  <2>3. outdated' \in BOOLEAN
    BY <1>0, <1>8 DEF OpenEditDialog, UpToDate
  <2>4. UNCHANGED <<account, renewal, access, session_lost, hub_view, page, scope, list, task,
                    ui_events, at_hub, mixed, misread>> /\ UserActs
    BY <1>8 DEF OpenEditDialog
  <2> QED
    BY <1>0, <1>a, <1>b, <2>2, <2>3, <2>4 DEF HubTypes
<1>9. CASE CancelEditDialog
  BY <1>0, <1>9, <1>b DEF CancelEditDialog, HubTypes
<1>10. ASSUME NEW typed \in Addresses \cup {Untyped}, CloseEditDialog(typed) PROVE HubTypes'
  <2>1. edit_dialog \in [server : Nat, address : ServerAddresses]
    BY <1>0, <1>10 DEF CloseEditDialog, ServerAddresses
  <2>2. OrAsBefore(typed, edit_dialog.address) \in ServerAddresses
    BY <2>1 DEF OrAsBefore, ServerAddresses
  <2> DEFINE t == [kind |-> "edit", server |-> edit_dialog.server, typed |-> typed,
                   address |-> OrAsBefore(typed, edit_dialog.address)]
  <2>3. HubTask(t)
    BY <2>1, <2>2 DEF HubTask
  <2>4. Spawn(t)
    BY <1>10 DEF CloseEditDialog
  <2>5. HubTasks'
    BY <1>0, <2>3, <2>4, SpawnTasks
  <2> QED
    BY <1>0, <1>10, <2>5 DEF CloseEditDialog, HubTypes
<1>11. ASSUME NEW typed \in Addresses \cup {Untyped}, NEW private \in BOOLEAN,
              HubCreateServer(typed, private)
       PROVE  HubTypes'
  <2> DEFINE t == [kind |-> "create", private |-> private,
                   address |-> IF typed = Untyped THEN HubAddress ELSE typed]
  <2>1. HubTask(t)
    BY DEF HubTask, ServerAddresses
  <2>2. Spawn(t)
    BY <1>11 DEF HubCreateServer
  <2>3. HubTasks'
    BY <1>0, <2>1, <2>2, SpawnTasks
  <2> QED
    BY <1>0, <1>11, <1>a, <2>3 DEF HubCreateServer, HubTypes
<1>12. ASSUME NEW k \in TaskIds, TaskFails(k) PROVE HubTypes'
  <2>1. HubTasks' /\ ui_events' \in Seq(HubEvents)
        /\ access' \in [TaskIds -> HubAccounts \cup {NoAccount}]
    BY <1>0, <1>12, DoneTasks, PostEvents, NoticeEvents DEF TaskFails
  <2>2. mixed' \in BOOLEAN /\ account' \in HubAccounts \cup {NoAccount} /\ session_lost' \in BOOLEAN
    BY <1>0, <1>12 DEF TaskFails, Rejected
  <2>3. UNCHANGED <<shown, acts, at_hub, misread, outdated>>
    BY <1>12 DEF TaskFails
  <2>4. writer' \in TaskIds \cup {NoTask} /\ renewed' \in HubAccounts \cup {NoAccount}
    BY <1>0, <1>12 DEF TaskFails
  <2> QED
    BY <1>0, <2>1, <2>2, <2>3, <2>4 DEF HubTypes
<1>13. ASSUME NEW k \in TaskIds, ListArrives(k) PROVE HubTypes'
  <2> DEFINE e == [kind |-> "servers", scope |-> task[k].scope, account |-> access[k],
                   server |-> server, address |-> address]
  <2>1. e \in HubEvents
    BY <1>13, ListEvent
  <2>2. Post(<<e>>) /\ Done(k)
    BY <1>13 DEF ListArrives, Calls, Runs
  <2>3. <<e>> \in Seq(HubEvents)
    BY <2>1
  <2>4. HubTasks' /\ ui_events' \in Seq(HubEvents)
        /\ access' \in [TaskIds -> HubAccounts \cup {NoAccount}]
    BY <1>0, <2>2, <2>3, DoneTasks, PostEvents
  <2> QED
    BY <1>0, <1>13, <2>4 DEF ListArrives, Calls, Runs, HubTypes
<1>14. ASSUME NEW k \in TaskIds, LoggedIn(k) PROVE HubTypes'
  <2>1. HubTasks' /\ ui_events' \in Seq(HubEvents)
        /\ access' \in [TaskIds -> HubAccounts \cup {NoAccount}]
    BY <1>0, <1>14, DoneTasks, PostEvents, NoticeEvents DEF LoggedIn, Runs
  <2> QED
    BY <1>0, <1>14, <2>1 DEF LoggedIn, Runs, HubTypes
<1>15. ASSUME NEW k \in TaskIds, LoggedOut(k) PROVE HubTypes'
  <2>1. HubTasks' /\ ui_events' \in Seq(HubEvents)
        /\ access' \in [TaskIds -> HubAccounts \cup {NoAccount}]
    BY <1>0, <1>15, DoneTasks, PostEvents, NoticeEvents DEF LoggedOut, Runs
  <2> QED
    BY <1>0, <1>15, <2>1 DEF LoggedOut, Runs, HubTypes
<1>16. ASSUME NEW k \in TaskIds, Created(k) PROVE HubTypes'
  <2>1. task[k].private \in BOOLEAN /\ task[k].address \in ServerAddresses
    BY <1>0, <1>16 DEF Created, Calls, Runs, HubTasks, HubTask
  <2>2. HubTasks' /\ ui_events' \in Seq(HubEvents)
        /\ access' \in [TaskIds -> HubAccounts \cup {NoAccount}]
    BY <1>0, <1>16, <2>1, DoneTasks, PostEvents, NoticeEvents DEF Created, Calls, Runs
  <2> QED
    BY <1>0, <1>16, <2>1, <2>2 DEF Created, Calls, Runs, HubTypes, ServerAddresses
<1>17. ASSUME NEW k \in TaskIds, Edited(k) PROVE HubTypes'
  <2>1. task[k].typed \in Addresses \cup {Untyped} /\ task[k].address \in ServerAddresses
    BY <1>0, <1>17 DEF Edited, Calls, Runs, HubTasks, HubTask
  <2>2. HubTasks' /\ ui_events' \in Seq(HubEvents)
        /\ access' \in [TaskIds -> HubAccounts \cup {NoAccount}]
    BY <1>0, <1>17, <2>1, DoneTasks, PostEvents, NoticeEvents DEF Edited, Calls, Runs
  <2>3. wanted' \in Addresses \cup {HubAddress, Gone}
    BY <1>0, <1>17, <2>1 DEF Edited
  <2> QED
    BY <1>0, <1>17, <2>1, <2>2, <2>3 DEF Edited, Calls, Runs, HubTypes, ServerAddresses
<1>18. ASSUME NEW k \in TaskIds, Deleted(k) PROVE HubTypes'
  <2>1. HubTasks' /\ ui_events' \in Seq(HubEvents)
        /\ access' \in [TaskIds -> HubAccounts \cup {NoAccount}]
    BY <1>0, <1>18, DoneTasks, PostEvents, NoticeEvents DEF Deleted, Calls, Runs
  <2> QED
    BY <1>0, <1>18, <2>1 DEF Deleted, Calls, Runs, HubTypes
<1>19. CASE HandleHubMsg
  BY <1>0, <1>19, <1>b, <1>c, HandlesEvent DEF HandleHubMsg, HubTypes
<1>20. CASE HandleDirReload
  <2>1. ui_events' \in Seq(HubEvents)
    BY <1>0, <1>20, HandlesEvent DEF HandleDirReload
  <2>2. \E s \in Scopes : scope' = s /\ LoadDirectory(s)
    BY <1>0, <1>20 DEF HandleDirReload, HubShowMyServers, SelectedFirst, Scopes
  <2>3. HubTasks' /\ mixed' \in BOOLEAN /\ scope' \in Scopes
    BY <2>2, LoadTypes
  <2> QED
    BY <1>0, <1>20, <2>1, <2>3 DEF HandleDirReload, HubTypes, Scopes
<1>21. CASE HandleServers
  <2>1. ui_events' \in Seq(HubEvents) /\ Head(ui_events) \in HubEvents
    BY <1>0, <1>21, HandlesEvent DEF HandleServers
  <2>2. Head(ui_events).kind = "servers"
    BY <1>21 DEF HandleServers, Handles
  <2>3. list' \in [scope : Scopes, account : HubAccounts, server : Nat,
                   address : ServerAddresses \cup {Gone}]
    BY <1>21, <2>1, <2>2 DEF HandleServers, HubEvents, Notice
  <2> QED
    BY <1>0, <1>21, <1>b, <2>1, <2>3 DEF HandleServers, HubTypes, Scopes, ServerAddresses
<1>22. CASE HubSessionLost
  <2>1. mixed' \in BOOLEAN
    BY <1>0, <1>22 DEF HubSessionLost, Loading
  <2> QED
    BY <1>0, <1>22, <1>b, <1>c, <2>1 DEF HubSessionLost, HubTypes, Views
<1>23. ASSUME NEW k \in TaskIds, TokenCached(k) PROVE HubTypes'
  BY <1>0, <1>23, <1>b DEF TokenCached, HubTypes
<1>24. ASSUME NEW k \in TaskIds, Renews(k) PROVE HubTypes'
  BY <1>0, <1>24, <1>b DEF Renews, HubTypes
<1>25. ASSUME NEW k \in TaskIds, RenewalWritten(k) PROVE HubTypes'
  <2>1. /\ access' \in [TaskIds -> HubAccounts \cup {NoAccount}]
        /\ account' \in HubAccounts \cup {NoAccount} /\ renewed' = NoAccount
        /\ mixed' \in BOOLEAN /\ misread' \in BOOLEAN
        /\ UNCHANGED <<writer, session_lost, shown, task, ui_events, at_hub, acts, outdated>>
    BY <1>0, <1>25 DEF RenewalWritten
  <2> QED
    BY <1>0, <1>b, <2>1 DEF HubTypes
<1>26. ASSUME NEW k \in TaskIds, RenewalSaved(k) PROVE HubTypes'
  BY <1>0, <1>26, <1>b DEF RenewalSaved, HubTypes
<1>27. ASSUME NEW k \in TaskIds, LoginWritten(k) PROVE HubTypes'
  <2>1. account' \in HubAccounts /\ writer' = k
    BY <1>0, <1>27 DEF LoginWritten, HubTasks, HubTask
  <2>2. mixed' \in BOOLEAN
    BY <1>0, <1>27 DEF LoginWritten
  <2>3. UNCHANGED <<renewed, access, session_lost, shown, task, ui_events, at_hub, acts, misread,
                    outdated>>
    BY <1>27 DEF LoginWritten
  <2> QED
    BY <1>0, <1>b, <2>1, <2>2, <2>3 DEF HubTypes
<1>28. CASE UNCHANGED hdVars
  BY <1>0, <1>28, <1>b DEF hdVars, HubTypes
<1> QED
  BY <1>1, <1>2, <1>3, <1>4, <1>5, <1>6, <1>7, <1>8, <1>9, <1>10, <1>11, <1>12, <1>13, <1>14,
     <1>15, <1>16, <1>17, <1>18, <1>19, <1>20, <1>21, <1>22, <1>23, <1>24, <1>25, <1>26, <1>27,
     <1>28 DEF HDNext, Scopes

LEMMA HubTypeInit == HDInit => HubTypes
<1> SUFFICES ASSUME HDInit PROVE HubTypes
  OBVIOUS
<1>1. HubTasks /\ ui_events \in Seq(HubEvents)
  BY DEF HDInit, HubTasks
<1> QED
  <2>1. page \in Views \cup {"account"} /\ acts \in 0..MaxActs
    BY HubAssumption DEF HDInit, Views
  <2>2. server \in Nat /\ wanted = address /\ address \in Addresses \cup {HubAddress, Gone}
        /\ access \in [TaskIds -> HubAccounts \cup {NoAccount}]
    BY DEF HDInit
  <2> QED
    BY <1>1, <2>1, <2>2 DEF HDInit, HubTypes, HDTypeOK, Views

----------------------------------------------------------------------------
(* The hub tab: the address of the server *)

Editing(k) == task[k] # NoTask /\ task[k].kind = "edit"

EditsServer(k) == Editing(k) /\ AtHub(task[k].server)

(* Ids that the hub has given. *)
ListId   == list # NoList => list.server <= server
DialogId == edit_dialog # NoDialog => edit_dialog.server <= server
EditIds  == \A k \in TaskIds : Editing(k) => task[k].server <= server
EventIds == \A i \in 1..Len(ui_events) :
              ui_events[i].kind = "servers" => ui_events[i].server <= server

KnownIds == ListId /\ DialogId /\ EditIds /\ EventIds

(* While the dialog is open nothing edits the server; later its edit alone does,
   and brings what was typed, or the address that is there. *)
EditInv ==
  ~outdated =>
    /\ address = wanted
    /\ edit_dialog # NoDialog /\ AtHub(edit_dialog.server) =>
         edit_dialog.address = address /\ \A k \in TaskIds : ~EditsServer(k)
    /\ \A k \in TaskIds : EditsServer(k) =>
         task[k].address = IF task[k].typed = Untyped THEN address ELSE task[k].typed
    /\ \A j, k \in TaskIds : EditsServer(j) /\ EditsServer(k) => j = k

(* The edits there will be are edits there are. *)
NoNewEdit ==
  \A k \in TaskIds : task'[k] # NoTask /\ task'[k].kind = "edit" =>
    Editing(k) /\ task'[k] = task[k]

LEMMA SpawnEdits ==
  ASSUME HubTasks, NEW t, t.kind # "edit", Spawn(t)
  PROVE  NoNewEdit
BY DEF HubTasks, Spawn, NoNewEdit, Editing

LEMMA DoneEdits ==
  ASSUME HubTasks, NEW k \in TaskIds, Done(k)
  PROVE  NoNewEdit
BY DEF HubTasks, Done, NoNewEdit, Editing

LEMMA SameEdits ==
  ASSUME UNCHANGED task
  PROVE  NoNewEdit
BY DEF NoNewEdit, Editing

LEMMA LoadEdits ==
  ASSUME HubTasks, NEW s, LoadDirectory(s)
  PROVE  NoNewEdit
<1>1. CASE Found = NoAccount
  BY <1>1, SameEdits DEF LoadDirectory
<1>2. CASE Found # NoAccount
  <2> DEFINE t == [kind |-> "load", scope |-> s]
  <2>1. Spawn(t) /\ t.kind # "edit"
    BY <1>2 DEF LoadDirectory
  <2> HIDE DEF t
  <2> QED
    BY <2>1, SpawnEdits
<1> QED
  BY <1>1, <1>2

LEMMA EditsKeep ==
  ASSUME EditInv, NoNewEdit, UNCHANGED <<at_hub, outdated>>,
         edit_dialog' = edit_dialog \/ edit_dialog' = NoDialog
  PROVE  EditInv'
BY DEF EditInv, NoNewEdit, EditsServer, Editing, AtHub, at_hub

LEMMA PostIds ==
  ASSUME HubTypes, EventIds, NEW e \in HubEvents, e.kind = "servers" => e.server <= server,
         NEW es, es \in {<<e>>, <<e, Notice>>, <<Notice, e>>}, Post(es),
         NEW n \in Nat, server <= n, server' = n
  PROVE  EventIds'
<1>1. ui_events \in Seq(HubEvents) /\ server \in Nat
  BY DEF HubTypes, HDTypeOK
<1>2. \A i \in 1..Len(ui_events) : ui_events[i] \in HubEvents
  BY <1>1
<1>3. \A f \in HubEvents : f.kind = "servers" => f.server \in Nat
  BY DEF HubEvents, Notice
<1>4. Notice.kind # "servers" /\ Notice \in HubEvents
  BY DEF Notice, HubEvents
<1>5. es \in Seq(HubEvents) /\ Len(es) \in Nat
      /\ \A i \in 1..Len(es) : es[i] \in {e, Notice}
  <2> HIDE DEF HubEvents, Notice
  <2>1. /\ <<e>> \in Seq(HubEvents) /\ <<e, Notice>> \in Seq(HubEvents)
        /\ <<Notice, e>> \in Seq(HubEvents)
    BY <1>4
  <2>2. CASE es = <<e>>
    BY <2>1, <2>2
  <2>3. CASE es = <<e, Notice>>
    BY <2>1, <2>3
  <2>4. CASE es = <<Notice, e>>
    BY <2>1, <2>4
  <2> QED
    BY <2>2, <2>3, <2>4
<1>6. ASSUME NEW i \in 1..Len(ui_events')
      PROVE  \/ ui_events'[i] \in {e, Notice}
             \/ i \in 1..Len(ui_events) /\ ui_events'[i] = ui_events[i]
  <2>1. ui_events' = ui_events \o es
    BY DEF Post
  <2>2. CASE i <= Len(ui_events)
    BY <1>1, <1>5, <2>1, <2>2
  <2>3. CASE i > Len(ui_events)
    <3>1. i - Len(ui_events) \in 1..Len(es) /\ ui_events'[i] = es[i - Len(ui_events)]
      BY <1>1, <1>5, <2>1, <2>3
    <3>2. PICK j \in 1..Len(es) : ui_events'[i] = es[j]
      BY <3>1
    <3>3. es[j] \in {e, Notice}
      BY <1>5, <3>2
    <3> QED
      BY <3>2, <3>3
  <2> QED
    BY <1>1, <1>5, <2>1, <2>2, <2>3
<1>7. ASSUME NEW i \in 1..Len(ui_events'), ui_events'[i].kind = "servers"
      PROVE  ui_events'[i].server <= n
  <2>1. CASE ui_events'[i] = e
    BY <1>1, <1>3, <1>7, <2>1
  <2>2. CASE ui_events'[i] = Notice
    BY <1>4, <1>7, <2>2
  <2>3. CASE i \in 1..Len(ui_events) /\ ui_events'[i] = ui_events[i]
    BY <1>1, <1>2, <1>3, <1>7, <2>3 DEF EventIds
  <2> QED
    BY <1>6, <2>1, <2>2, <2>3
<1> QED
  BY <1>7 DEF EventIds

LEMMA HandlesIds ==
  ASSUME HubTypes, EventIds, NEW kind, Handles(kind), UNCHANGED server
  PROVE  EventIds'
<1>1. /\ Len(ui_events) \in Nat \ {0} /\ Len(ui_events') = Len(ui_events) - 1
      /\ \A i \in 1..Len(ui_events') : ui_events'[i] = ui_events[i + 1]
  BY HandlesEvent DEF HubTypes
<1>2. \A i \in 1..Len(ui_events') : i + 1 \in 1..Len(ui_events)
  BY <1>1
<1> QED
  BY <1>1, <1>2 DEF EventIds

LEMMA EditsIgnored ==
  ASSUME HubTypes, KnownIds, EditInv, NoNewEdit, EventIds', UNCHANGED <<at_hub, outdated>>,
         list' = list \/ list' = NoList, edit_dialog' = edit_dialog \/ edit_dialog' = NoDialog
  PROVE  KnownIds' /\ EditInv'
<1>1. EditInv'
  BY EditsKeep
<1>2. ListId' /\ DialogId'
  BY DEF KnownIds, ListId, DialogId, at_hub
<1>3. EditIds'
  BY DEF KnownIds, EditIds, NoNewEdit, Editing, at_hub
<1> QED
  BY <1>1, <1>2, <1>3 DEF KnownIds

LEMMA EventsStay ==
  ASSUME EventIds, UNCHANGED <<ui_events, server>>
  PROVE  EventIds'
BY DEF EventIds

LEMMA EditStep == HubTypes /\ KnownIds /\ EditInv /\ [HDNext]_hdVars => KnownIds' /\ EditInv'
<1> SUFFICES ASSUME HubTypes, KnownIds, EditInv, [HDNext]_hdVars PROVE KnownIds' /\ EditInv'
  OBVIOUS
<1>0. /\ HubTasks /\ EventIds /\ ui_events \in Seq(HubEvents) /\ server \in Nat
      /\ Notice \in HubEvents /\ Notice.kind # "servers"
  BY DEF HubTypes, KnownIds, HubEvents, HDTypeOK, Notice
<1>a. ASSUME NEW mine \in BOOLEAN
      PROVE  Reload(mine) \in HubEvents /\ Reload(mine).kind # "servers"
  BY DEF HubEvents, Reload
<1>b. server <= server
  BY <1>0
<1> USE DEF shown, renewal, at_hub, doubts
<1>1. ASSUME NEW v \in Views, SelectView(v) PROVE KnownIds' /\ EditInv'
  BY <1>0, <1>1, EditsIgnored, SameEdits, EventsStay DEF SelectView
<1>2. ASSUME NEW s \in Scopes, SelectScope(s) PROVE KnownIds' /\ EditInv'
  BY <1>0, <1>2, EditsIgnored, LoadEdits, EventsStay DEF SelectScope
<1>3. ASSUME NEW a \in HubAccounts, StartLogin(a) PROVE KnownIds' /\ EditInv'
  <2>1. NoNewEdit
    BY <1>0, <1>3, SpawnEdits DEF StartLogin
  <2> QED
    BY <1>0, <1>3, <2>1, EditsIgnored, EventsStay DEF StartLogin
<1>4. CASE StartLogout
  <2>1. NoNewEdit
    BY <1>0, <1>4, SpawnEdits DEF StartLogout
  <2> QED
    BY <1>0, <1>4, <2>1, EditsIgnored, EventsStay DEF StartLogout
<1>5. CASE SettingsSaved
  BY <1>0, <1>5, EditsIgnored, SameEdits, EventsStay DEF SettingsSaved
<1>6. CASE HubInvites
  <2>1. NoNewEdit
    BY <1>0, <1>6, SameEdits, LoadEdits DEF HubInvites, HubShowMyServers
  <2> QED
    BY <1>0, <1>6, <2>1, EditsIgnored, EventsStay DEF HubInvites
<1>7. CASE HubDeleteServer
  <2>1. NoNewEdit
    BY <1>0, <1>7, SpawnEdits DEF HubDeleteServer
  <2> QED
    BY <1>0, <1>7, <2>1, EditsIgnored, EventsStay DEF HubDeleteServer
<1>8. CASE OpenEditDialog
  <2>1. /\ edit_dialog' = [server |-> list.server, address |-> list.address] /\ list # NoList
        /\ outdated' = (outdated \/ (list.server = server /\ ~UpToDate))
        /\ UNCHANGED <<server, address, wanted, list, task, ui_events>>
    BY <1>8 DEF OpenEditDialog, Listed
  <2>2. KnownIds'
    BY <1>0, <2>1, EventsStay DEF KnownIds, ListId, DialogId, EditIds, Editing
  <2>3. ASSUME ~outdated' PROVE edit_dialog' # NoDialog /\ AtHub(edit_dialog.server)' =>
            edit_dialog'.address = address /\ \A k \in TaskIds : ~EditsServer(k)'
    BY <2>1, <2>3 DEF UpToDate, AtHub, EditsServer, Editing
  <2>4. ASSUME NEW k \in TaskIds PROVE EditsServer(k)' = EditsServer(k)
    BY <2>1 DEF EditsServer, Editing, AtHub
  <2>5. EditInv'
    BY <2>1, <2>3, <2>4 DEF EditInv
  <2> QED
    BY <2>2, <2>5
<1>9. CASE CancelEditDialog
  BY <1>0, <1>9, EditsIgnored, SameEdits, EventsStay DEF CancelEditDialog
<1>10. ASSUME NEW typed \in Addresses \cup {Untyped}, CloseEditDialog(typed)
      PROVE  KnownIds' /\ EditInv'
  <2> DEFINE t == [kind |-> "edit", server |-> edit_dialog.server, typed |-> typed,
                   address |-> OrAsBefore(typed, edit_dialog.address)]
  <2>1. /\ edit_dialog # NoDialog /\ edit_dialog' = NoDialog /\ Spawn(t)
        /\ UNCHANGED <<server, address, wanted, outdated, list, ui_events>>
    BY <1>10 DEF CloseEditDialog
  <2>2. /\ t.server = edit_dialog.server /\ t.typed = typed
        /\ t.address = IF typed = Untyped THEN edit_dialog.address ELSE typed
    BY DEF OrAsBefore
  <2> HIDE DEF t
  <2>3. PICK k \in TaskIds : task' = [task EXCEPT ![k] = t]
    BY <2>1 DEF Spawn
  <2>4. task'[k] = t /\ \A j \in TaskIds \ {k} : task'[j] = task[j]
    BY <1>0, <2>3 DEF HubTasks
  <2>5. EditIds'
    BY <2>1, <2>2, <2>4 DEF KnownIds, EditIds, DialogId, Editing
  <2>6. KnownIds'
    BY <1>0, <2>1, <2>5, EventsStay DEF KnownIds, ListId, DialogId
  <2>7. CASE outdated
    BY <2>1, <2>6, <2>7 DEF EditInv
  <2>8. CASE ~outdated /\ AtHub(edit_dialog.server)
    <3>1. edit_dialog.address = address /\ \A j \in TaskIds : ~EditsServer(j)
      BY <2>1, <2>8 DEF EditInv
    <3>2. \A j \in TaskIds : EditsServer(j)' => j = k
      BY <2>1, <2>4, <3>1 DEF EditsServer, Editing, AtHub
    <3>3. task'[k].address = IF task'[k].typed = Untyped THEN address' ELSE task'[k].typed
      BY <2>1, <2>2, <2>4, <3>1
    <3> QED
      BY <2>1, <2>6, <2>8, <3>2, <3>3 DEF EditInv
  <2>9. CASE ~outdated /\ ~AtHub(edit_dialog.server)
    <3>1. ASSUME NEW j \in TaskIds, EditsServer(j)' PROVE EditsServer(j) /\ task'[j] = task[j]
      BY <2>1, <2>2, <2>4, <2>9, <3>1 DEF EditsServer, Editing, AtHub
    <3> QED
      BY <2>1, <2>6, <2>9, <3>1 DEF EditInv
  <2> QED
    BY <2>7, <2>8, <2>9
<1>11. ASSUME NEW typed \in Addresses \cup {Untyped}, NEW private \in BOOLEAN,
              HubCreateServer(typed, private)
       PROVE  KnownIds' /\ EditInv'
  <2>1. NoNewEdit
    BY <1>0, <1>11, SpawnEdits DEF HubCreateServer
  <2> QED
    BY <1>0, <1>11, <2>1, EditsIgnored, EventsStay DEF HubCreateServer
<1>12. ASSUME NEW k \in TaskIds, TaskFails(k) PROVE KnownIds' /\ EditInv'
  <2>1. UNCHANGED <<list, edit_dialog, server, address, wanted, outdated>>
        /\ Done(k) /\ Post(<<Notice>>)
    BY <1>12 DEF TaskFails
  <2>2. NoNewEdit
    BY <1>0, <2>1, DoneEdits
  <2>3. EventIds'
    BY <1>0, <1>b, <2>1, PostIds
  <2> QED
    BY <2>1, <2>2, <2>3, EditsIgnored
<1>13. ASSUME NEW k \in TaskIds, ListArrives(k) PROVE KnownIds' /\ EditInv'
  <2> DEFINE e == [kind |-> "servers", scope |-> task[k].scope, account |-> access[k],
                   server |-> server, address |-> address]
  <2>1. e \in HubEvents
    BY <1>13, ListEvent
  <2>2. UNCHANGED <<list, edit_dialog, server, address, wanted, outdated>>
        /\ Done(k) /\ Post(<<e>>)
    BY <1>13 DEF ListArrives, Calls, Runs
  <2>3. e.server <= server
    BY <1>b
  <2> HIDE DEF e
  <2>4. NoNewEdit
    BY <1>0, <2>2, DoneEdits
  <2>5. EventIds'
    BY <1>0, <1>b, <2>1, <2>2, <2>3, PostIds
  <2> QED
    BY <2>2, <2>4, <2>5, EditsIgnored
<1>14. ASSUME NEW k \in TaskIds, LoggedIn(k) \/ LoggedOut(k) PROVE KnownIds' /\ EditInv'
  <2>1. UNCHANGED <<list, edit_dialog, server, address, wanted, outdated>> /\ Done(k)
    BY <1>14 DEF LoggedIn, LoggedOut, Runs
  <2>2. Post(<<Notice>>) \/ Post(<<Reload(FALSE), Notice>>)
    BY <1>14 DEF LoggedIn, LoggedOut
  <2>3. NoNewEdit
    BY <1>0, <2>1, DoneEdits
  <2>4. EventIds'
    BY <1>0, <1>a, <1>b, <2>1, <2>2, PostIds
  <2> QED
    BY <2>1, <2>3, <2>4, EditsIgnored
<1>15. ASSUME NEW k \in TaskIds, Created(k) PROVE KnownIds' /\ EditInv'
  <2>1. /\ server' = server + 1 /\ address' = wanted' /\ UNCHANGED <<list, edit_dialog>>
        /\ Done(k) /\ Post(<<Notice, Reload(task[k].private)>>)
        /\ task[k].private \in BOOLEAN
    BY <1>0, <1>15 DEF Created, Calls, Runs, HubTasks, HubTask
  <2>2. NoNewEdit
    BY <1>0, <2>1, DoneEdits
  <2>3. EventIds'
    BY <1>0, <1>a, <2>1, PostIds
  <2>4. ListId' /\ DialogId'
    BY <1>0, <2>1 DEF HubTypes, HDTypeOK, KnownIds, ListId, DialogId
  <2>5. ASSUME NEW j \in TaskIds, Editing(j)' PROVE task'[j].server <= server /\ server < server'
    <3>1. Editing(j) /\ task'[j] = task[j]
      BY <2>2, <2>5 DEF NoNewEdit, Editing
    <3> QED
      BY <1>0, <2>1, <3>1 DEF KnownIds, EditIds
  <2>6. EditIds'
    <3>1. ASSUME NEW j \in TaskIds, Editing(j)' PROVE task'[j].server \in Nat
      <4>1. Editing(j) /\ task'[j] = task[j]
        BY <2>2, <3>1 DEF NoNewEdit, Editing
      <4> QED
        BY <1>0, <4>1 DEF HubTasks, HubTask, Editing
    <3> QED
      BY <1>0, <2>1, <2>5, <3>1 DEF EditIds
  <2>7. \A j \in TaskIds : ~EditsServer(j)'
    BY <1>0, <2>1, <2>5 DEF EditsServer, AtHub
  <2>8. ~(edit_dialog' # NoDialog /\ AtHub(edit_dialog.server)')
    BY <1>0, <2>1 DEF KnownIds, DialogId, AtHub
  <2>9. EditInv'
    BY <2>1, <2>7, <2>8 DEF EditInv
  <2> QED
    BY <2>3, <2>4, <2>6, <2>9 DEF KnownIds
<1>16. ASSUME NEW k \in TaskIds, Edited(k) PROVE KnownIds' /\ EditInv'
  <2>1. /\ UNCHANGED <<list, edit_dialog, server, outdated>> /\ Done(k)
        /\ Post(<<Notice, Reload(FALSE)>>) /\ EditsServer(k)
        /\ address' = task[k].address
        /\ wanted' = IF task[k].typed = Untyped THEN wanted ELSE task[k].typed
    BY <1>16 DEF Edited, Calls, Runs, EditsServer, Editing
  <2>2. NoNewEdit
    BY <1>0, <2>1, DoneEdits
  <2>3. EventIds'
    BY <1>0, <1>a, <1>b, <2>1, PostIds
  <2>4. KnownIds'
    BY <2>1, <2>2, <2>3 DEF KnownIds, ListId, DialogId, EditIds, NoNewEdit, Editing
  <2>5. CASE ~outdated
    <3>1. /\ address = wanted
          /\ ~(edit_dialog # NoDialog /\ AtHub(edit_dialog.server))
          /\ task[k].address = IF task[k].typed = Untyped THEN address ELSE task[k].typed
          /\ \A j \in TaskIds : EditsServer(j) => j = k
      BY <2>1, <2>5 DEF EditInv
    <3>2. task'[k] = NoTask
      BY <1>0, <2>1 DEF HubTasks, Done
    <3>3. ASSUME NEW j \in TaskIds PROVE ~EditsServer(j)'
      <4>1. CASE j = k
        BY <3>2, <4>1 DEF EditsServer, Editing
      <4>2. CASE j # k
        <5>1. ~EditsServer(j)
          BY <3>1, <4>2
        <5>2. AtHub(task[k].server)
          BY <2>1 DEF EditsServer
        <5> QED
          BY <2>1, <2>2, <5>1, <5>2 DEF EditsServer, Editing, AtHub, NoNewEdit
      <4> QED
        BY <4>1, <4>2
    <3>4. ~(edit_dialog' # NoDialog /\ AtHub(edit_dialog.server)')
      BY <2>1, <3>1 DEF EditsServer, AtHub
    <3>5. address' = wanted'
      BY <2>1, <3>1
    <3> QED
      BY <2>4, <3>3, <3>4, <3>5 DEF EditInv
  <2>6. CASE outdated
    BY <2>1, <2>4, <2>6 DEF EditInv
  <2> QED
    BY <2>5, <2>6
<1>17. ASSUME NEW k \in TaskIds, Deleted(k) PROVE KnownIds' /\ EditInv'
  <2>1. /\ UNCHANGED <<list, edit_dialog, server, outdated>> /\ Done(k)
        /\ Post(<<Notice, Reload(FALSE)>>)
        /\ address' = Gone /\ wanted' = Gone
    BY <1>17 DEF Deleted, Calls, Runs
  <2>2. NoNewEdit
    BY <1>0, <2>1, DoneEdits
  <2>3. EventIds'
    BY <1>0, <1>a, <1>b, <2>1, PostIds
  <2>4. KnownIds'
    BY <2>1, <2>2, <2>3 DEF KnownIds, ListId, DialogId, EditIds, NoNewEdit, Editing
  <2>5. EditInv'
    BY <2>1 DEF EditInv, EditsServer, AtHub
  <2> QED
    BY <2>4, <2>5
<1>18. ASSUME NEW k \in TaskIds,
              \/ TokenCached(k) \/ Renews(k) \/ RenewalWritten(k) \/ RenewalSaved(k)
              \/ LoginWritten(k)
       PROVE  KnownIds' /\ EditInv'
  <2>1. UNCHANGED <<list, edit_dialog, task, ui_events, server, address, wanted, outdated>>
    BY <1>18 DEF TokenCached, Renews, RenewalWritten, RenewalSaved, LoginWritten
  <2> QED
    BY <1>0, <2>1, EditsIgnored, SameEdits, EventsStay
<1>19. CASE HandleHubMsg
  BY <1>0, <1>19, EditsIgnored, SameEdits, HandlesIds DEF HandleHubMsg
<1>20. CASE HandleDirReload
  <2>1. NoNewEdit
    BY <1>0, <1>20, LoadEdits DEF HandleDirReload, HubShowMyServers
  <2> QED
    BY <1>0, <1>20, <2>1, EditsIgnored, HandlesIds DEF HandleDirReload
<1>21. CASE HandleServers
  <2>1. EventIds'
    BY <1>0, <1>21, HandlesIds DEF HandleServers
  <2>2. Head(ui_events) = ui_events[1] /\ 1 \in 1..Len(ui_events)
    BY <1>0, <1>21, HandlesEvent DEF HandleServers
  <2>3. /\ Head(ui_events).kind = "servers" /\ list'.server = Head(ui_events).server
        /\ UNCHANGED <<server, address, wanted, outdated, edit_dialog, task>>
    BY <1>21 DEF HandleServers, Handles
  <2>4. ListId'
    BY <1>0, <2>2, <2>3 DEF EventIds, ListId
  <2>5. EditInv'
    BY <2>3, SameEdits, EditsKeep
  <2> QED
    BY <2>1, <2>3, <2>4, <2>5 DEF KnownIds, DialogId, EditIds, Editing
<1>22. CASE HubSessionLost
  BY <1>0, <1>22, EditsIgnored, SameEdits, EventsStay DEF HubSessionLost
<1>23. CASE UNCHANGED hdVars
  BY <1>0, <1>23, EditsIgnored, SameEdits, EventsStay DEF hdVars
<1> QED
  BY <1>1, <1>2, <1>3, <1>4, <1>5, <1>6, <1>7, <1>8, <1>9, <1>10, <1>11, <1>12, <1>13, <1>14,
     <1>15, <1>16, <1>17, <1>18, <1>19, <1>20, <1>21, <1>22, <1>23 DEF HDNext, Scopes

LEMMA EditInit == HDInit => KnownIds /\ EditInv
<1> SUFFICES ASSUME HDInit PROVE KnownIds /\ EditInv
  OBVIOUS
<1>1. \A k \in TaskIds : ~Editing(k)
  BY DEF HDInit, Editing
<1>2. ui_events = <<>> /\ list = NoList /\ edit_dialog = NoDialog /\ address = wanted
  BY DEF HDInit
<1> QED
  BY <1>1, <1>2 DEF KnownIds, ListId, DialogId, EditIds, EventIds, EditInv, EditsServer

(* The address the owner last gave the server is the one the hub has, for any
   number of tasks, addresses and steps. *)
THEOREM AddressHolds == HDSpec => []AddressKept
<1>1. EditInv => AddressKept
  BY DEF EditInv, AddressKept
<1> QED
  BY <1>1, HubTypeInit, HubTypeStep, EditInit, EditStep, PTL DEF HDSpec

----------------------------------------------------------------------------
(* The hub tab: the page and the list *)

LoadingTask(k) == task[k] # NoTask /\ task[k].kind = "load"
Arriving(i)    == ui_events[i].kind = "servers"

NoLoad     == \A k \in TaskIds : ~LoadingTask(k)
NoArrival  == \A i \in 1..Len(ui_events) : ~Arriving(i)
OneLoad    == \A j, k \in TaskIds : LoadingTask(j) /\ LoadingTask(k) => j = k
OneArrival == \A i, j \in 1..Len(ui_events) : Arriving(i) /\ Arriving(j) => i = j
OneList    == OneLoad /\ OneArrival /\ (NoLoad \/ NoArrival)

LoadsFit    == \A k \in TaskIds :
                 LoadingTask(k) => task[k].scope = scope /\ access[k] \in {NoAccount, account}
ArrivalsFit == \A i \in 1..Len(ui_events) :
                 Arriving(i) => ui_events[i].scope = scope /\ ui_events[i].account = account
ListSettled == list # NoList => list.scope = scope /\ list.account = account

(* One list at most is on its way, and it is the right one; with none, the one
   shown is.  Without a session there is none, once the tab knows. *)
ListInv ==
  ~mixed =>
    /\ account # NoAccount =>
         LoadsFit /\ ArrivalsFit /\ OneList /\ (NoLoad /\ NoArrival => ListSettled)
    /\ account = NoAccount /\ ~session_lost => list = NoList /\ NoLoad /\ NoArrival

MessageWaits == \E i \in 1..Len(ui_events) : ui_events[i].kind = "msg"

PageAgrees == (page = "account") = (account # NoAccount)

(* A login is stored: its task is about to say so. *)
LoginEnds == writer # NoTask /\ task[writer] # NoTask /\ task[writer].kind = "login"

(* Until the page goes with the session the UI thread is going to hear of it. *)
PageInv == PageAgrees \/ misread \/ session_lost \/ MessageWaits \/ LoginEnds

(* One task at a time stores or renews the session; only one that calls the hub
   with a token has one. *)
TurnInv ==
  /\ writer = NoTask => renewed = NoAccount
  /\ writer # NoTask => /\ task[writer] # NoTask /\ task[writer].kind # "logout"
                        /\ task[writer].kind = "login" => renewed = NoAccount
  /\ \A k \in TaskIds : task[k] = NoTask \/ task[k].kind = "login" => access[k] = NoAccount

(* Nothing happens to the loads but that they get a token of the account. *)
LoadsKept ==
  \A k \in TaskIds :
    /\ LoadingTask(k)' <=> LoadingTask(k)
    /\ LoadingTask(k) => task'[k] = task[k] /\ access'[k] \in {access[k], account}

(* No task ends, and no other task writes. *)
TasksGoOn ==
  /\ \A k \in TaskIds : task[k] # NoTask => task'[k] = task[k]
  /\ UNCHANGED writer

ArrivalsKept ==
  /\ \A i \in 1..Len(ui_events') : ui_events'[i].kind = "servers" =>
       \E j \in 1..Len(ui_events) : ui_events[j] = ui_events'[i]
  /\ OneArrival => OneArrival'
  /\ NoArrival' <=> NoArrival

LEMMA LoadingMeans ==
  ASSUME HubTypes
  PROVE  Loading <=> ~(NoLoad /\ NoArrival)
BY DEF HubTypes, Loading, NoLoad, NoArrival, LoadingTask, Arriving

LEMMA SpawnLoads ==
  ASSUME HubTasks, NEW t, t.kind # "load", Spawn(t), UNCHANGED access
  PROVE  LoadsKept
BY DEF HubTasks, Spawn, LoadsKept, LoadingTask

LEMMA DoneLoads ==
  ASSUME HubTypes, NEW k \in TaskIds, ~LoadingTask(k), Done(k)
  PROVE  LoadsKept
BY DEF HubTypes, HDTypeOK, HubTasks, Done, LoadsKept, LoadingTask

LEMMA SameLoads ==
  ASSUME UNCHANGED <<task, access>>
  PROVE  LoadsKept
BY DEF LoadsKept, LoadingTask

LEMMA TokenLoads ==
  ASSUME HubTypes, UNCHANGED task, NEW k \in TaskIds,
         access' = [access EXCEPT ![k] = account]
  PROVE  LoadsKept
BY DEF HubTypes, HDTypeOK, LoadsKept, LoadingTask

LEMMA SpawnGoesOn ==
  ASSUME HubTasks, NEW t, Spawn(t), UNCHANGED writer
  PROVE  TasksGoOn
BY DEF HubTasks, Spawn, TasksGoOn

LEMMA LoadGoesOn ==
  ASSUME HubTasks, NEW s, LoadDirectory(s), UNCHANGED writer
  PROVE  TasksGoOn
<1>1. CASE Found = NoAccount
  BY <1>1 DEF LoadDirectory, TasksGoOn
<1>2. CASE Found # NoAccount
  BY <1>2, SpawnGoesOn DEF LoadDirectory
<1> QED
  BY <1>1, <1>2

LEMMA SameGoOn ==
  ASSUME UNCHANGED <<task, writer>>
  PROVE  TasksGoOn
BY DEF TasksGoOn

LEMMA TurnKeeps ==
  ASSUME HubTypes, TurnInv, TasksGoOn, UNCHANGED <<renewed, access>>
  PROVE  TurnInv'
<1>1. writer \in TaskIds \cup {NoTask}
  BY DEF HubTypes, HDTypeOK
<1>2. \A k \in TaskIds : task'[k] = NoTask \/ task'[k].kind = "login" => access'[k] = NoAccount
  BY DEF TurnInv, TasksGoOn
<1> QED
  BY <1>1, <1>2 DEF TurnInv, TasksGoOn

(* A task is done: it does not write, or no longer. *)
LEMMA TurnDone ==
  ASSUME HubTypes, TurnInv, NEW k \in TaskIds, Done(k),
         \/ writer # k /\ UNCHANGED renewal
         \/ writer' = NoTask /\ renewed' = NoAccount
  PROVE  TurnInv'
<1>1. /\ writer \in TaskIds \cup {NoTask}
      /\ task'[k] = NoTask /\ access'[k] = NoAccount
      /\ \A j \in TaskIds \ {k} : task'[j] = task[j] /\ access'[j] = access[j]
  BY DEF HubTypes, HDTypeOK, HubTasks, Done
<1>2. \A j \in TaskIds : task'[j] = NoTask \/ task'[j].kind = "login" => access'[j] = NoAccount
  BY <1>1 DEF TurnInv
<1>3. CASE writer # k /\ UNCHANGED renewal
  BY <1>1, <1>2, <1>3 DEF TurnInv, renewal
<1>4. CASE writer' = NoTask /\ renewed' = NoAccount
  BY <1>2, <1>4 DEF TurnInv
<1> QED
  BY <1>3, <1>4

LEMMA SameEvents ==
  ASSUME UNCHANGED ui_events
  PROVE  ArrivalsKept /\ (MessageWaits => MessageWaits')
<1>1. (OneArrival <=> OneArrival') /\ (NoArrival <=> NoArrival')
  BY DEF OneArrival, NoArrival, Arriving
<1>2. \A i \in 1..Len(ui_events') : \E j \in 1..Len(ui_events) : ui_events[j] = ui_events'[i]
  OBVIOUS
<1> QED
  BY <1>1, <1>2 DEF ArrivalsKept, MessageWaits

(* What is posted comes after what is there. *)
LEMMA PostPlaces ==
  ASSUME ui_events \in Seq(HubEvents), NEW es \in Seq(HubEvents), Post(es)
  PROVE  /\ Len(ui_events') \in Nat /\ Len(ui_events) \in Nat /\ Len(es) \in Nat
         /\ Len(ui_events') = Len(ui_events) + Len(es)
         /\ \A i \in 1..Len(ui_events) : i \in 1..Len(ui_events') /\ ui_events'[i] = ui_events[i]
         /\ \A i \in 1..Len(es) : /\ Len(ui_events) + i \in 1..Len(ui_events')
                                  /\ ui_events'[Len(ui_events) + i] = es[i]
         /\ \A i \in 1..Len(ui_events') : i \in 1..Len(ui_events) \/
              \E j \in 1..Len(es) : i = Len(ui_events) + j
<1>1. ui_events' = ui_events \o es
  BY DEF Post
<1>2. ASSUME NEW i \in 1..Len(ui_events'), i \notin 1..Len(ui_events)
      PROVE  \E j \in 1..Len(es) : i = Len(ui_events) + j
  <2>1. i - Len(ui_events) \in 1..Len(es) /\ i = Len(ui_events) + (i - Len(ui_events))
    BY <1>1, <1>2
  <2> QED
    BY <2>1
<1>3. \A i \in 1..Len(ui_events') : i \in 1..Len(ui_events) \/
        \E j \in 1..Len(es) : i = Len(ui_events) + j
  BY <1>2
<1>4. /\ Len(ui_events') \in Nat /\ Len(ui_events) \in Nat /\ Len(es) \in Nat
      /\ Len(ui_events') = Len(ui_events) + Len(es)
  BY <1>1
<1>5. \A i \in 1..Len(ui_events) : i \in 1..Len(ui_events') /\ ui_events'[i] = ui_events[i]
  BY <1>1, <1>4
<1>6. \A i \in 1..Len(es) : /\ Len(ui_events) + i \in 1..Len(ui_events')
                            /\ ui_events'[Len(ui_events) + i] = es[i]
  BY <1>1, <1>4
<1> QED
  BY <1>3, <1>4, <1>5, <1>6

LEMMA PostOther ==
  ASSUME ui_events \in Seq(HubEvents), NEW es \in Seq(HubEvents), Post(es),
         \A i \in 1..Len(es) : es[i].kind # "servers"
  PROVE  ArrivalsKept /\ (MessageWaits => MessageWaits')
<1>1. /\ \A i \in 1..Len(ui_events) : i \in 1..Len(ui_events') /\ ui_events'[i] = ui_events[i]
      /\ \A i \in 1..Len(es) : ui_events'[Len(ui_events) + i] = es[i]
      /\ \A i \in 1..Len(ui_events') : i \in 1..Len(ui_events) \/
           \E j \in 1..Len(es) : i = Len(ui_events) + j
  BY PostPlaces
<1>2. ASSUME NEW i \in 1..Len(ui_events'), ui_events'[i].kind = "servers"
      PROVE  i \in 1..Len(ui_events)
  BY <1>1, <1>2
<1>3. OneArrival => OneArrival'
  BY <1>1, <1>2 DEF OneArrival, Arriving
<1>4. NoArrival' <=> NoArrival
  BY <1>1, <1>2 DEF NoArrival, Arriving
<1>5. MessageWaits => MessageWaits'
  BY <1>1 DEF MessageWaits
<1> QED
  BY <1>1, <1>2, <1>3, <1>4, <1>5 DEF ArrivalsKept

LEMMA PostNotice ==
  ASSUME ui_events \in Seq(HubEvents),
         \/ Post(<<Notice>>)
         \/ \E mine \in BOOLEAN : Post(<<Reload(mine), Notice>>) \/ Post(<<Notice, Reload(mine)>>)
  PROVE  ArrivalsKept /\ MessageWaits'
<1>1. Notice.kind = "msg"
  BY DEF Notice
<1>2. \A mine \in BOOLEAN : Reload(mine).kind = "reload"
  BY DEF Reload
<1>3. PICK es \in Seq(HubEvents) : /\ Post(es)
                                   /\ \A i \in 1..Len(es) : es[i].kind # "servers"
                                   /\ \E i \in 1..Len(es) : es[i].kind = "msg"
  <2>1. CASE Post(<<Notice>>)
    <3>1. PICK es : es = <<Notice>>
      OBVIOUS
    <3>2. Len(es) = 1 /\ es[1] = Notice
      BY <3>1
    <3>3. \A i \in 1..Len(es) : es[i] = Notice
      BY <3>2
    <3>4. 1 \in 1..Len(es)
      BY <3>2
    <3>5. es \in Seq(HubEvents) /\ Post(es)
      BY <2>1, <3>1, NoticeEvents
    <3> QED
      BY <1>1, <3>2, <3>3, <3>4, <3>5
  <2>2. ASSUME NEW mine \in BOOLEAN, NEW es,
               es \in {<<Reload(mine), Notice>>, <<Notice, Reload(mine)>>},
               Post(es)
        PROVE  /\ es \in Seq(HubEvents) /\ \A i \in 1..Len(es) : es[i].kind # "servers"
               /\ \E i \in 1..Len(es) : es[i].kind = "msg"
    <3>1. es \in Seq(HubEvents)
      BY <2>2, NoticeEvents
    <3>2. Len(es) = 2 /\ {es[1], es[2]} = {Notice, Reload(mine)}
      <4>1. CASE es = <<Reload(mine), Notice>>
        BY <4>1
      <4>2. CASE es = <<Notice, Reload(mine)>>
        BY <4>2
      <4> QED
        BY <2>2, <4>1, <4>2
    <3>3. \A i \in 1..Len(es) : es[i] = Notice \/ es[i] = Reload(mine)
      BY <3>2
    <3>4. \E i \in 1..Len(es) : es[i] = Notice
      BY <3>2
    <3> QED
      BY <1>1, <1>2, <3>1, <3>3, <3>4
  <2> QED
    BY <2>1, <2>2
<1>4. ArrivalsKept
  BY <1>3, PostOther
<1>5. PICK i \in 1..Len(es) : es[i].kind = "msg"
  BY <1>3
<1>6. Len(ui_events) + i \in 1..Len(ui_events') /\ ui_events'[Len(ui_events) + i] = es[i]
  BY <1>3, PostPlaces
<1> QED
  BY <1>4, <1>5, <1>6 DEF MessageWaits

LEMMA HandlesOther ==
  ASSUME ui_events \in Seq(HubEvents), NEW kind, Handles(kind)
  PROVE  /\ kind # "servers" => ArrivalsKept
         /\ kind # "msg" /\ MessageWaits => MessageWaits'
<1>1. /\ Len(ui_events) \in Nat \ {0} /\ Len(ui_events') = Len(ui_events) - 1
      /\ \A i \in 1..Len(ui_events') : ui_events'[i] = ui_events[i + 1]
      /\ ui_events[1].kind = kind
  <2>1. Head(ui_events) = ui_events[1] /\ Head(ui_events).kind = kind
    BY HandlesEvent DEF Handles
  <2> QED
    BY <2>1, HandlesEvent
<1>2. \A i \in 1..Len(ui_events') : i \in Nat /\ i + 1 \in 1..Len(ui_events)
  BY <1>1
<1>3. ASSUME NEW j \in 1..Len(ui_events), ui_events[j].kind # kind
      PROVE  \E i \in 1..Len(ui_events') : ui_events'[i] = ui_events[j]
  <2>1. j # 1
    BY <1>1, <1>3
  <2>2. j - 1 \in 1..Len(ui_events') /\ ui_events'[j - 1] = ui_events[(j - 1) + 1]
    BY <1>1, <2>1
  <2>3. (j - 1) + 1 = j
    OBVIOUS
  <2> QED
    BY <2>2, <2>3
<1>4. ASSUME kind # "servers" PROVE ArrivalsKept
  <2>1. \A i \in 1..Len(ui_events') : \E j \in 1..Len(ui_events) : ui_events[j] = ui_events'[i]
    BY <1>1, <1>2
  <2>2. ASSUME OneArrival, NEW i \in 1..Len(ui_events'), NEW j \in 1..Len(ui_events'),
               ui_events'[i].kind = "servers", ui_events'[j].kind = "servers"
        PROVE  i = j
    <3>1. i + 1 \in 1..Len(ui_events) /\ j + 1 \in 1..Len(ui_events) /\ i \in Nat /\ j \in Nat
      BY <1>2
    <3>2. Arriving(i + 1) /\ Arriving(j + 1)
      BY <1>1, <2>2 DEF Arriving
    <3>3. i + 1 = j + 1
      BY <2>2, <3>1, <3>2 DEF OneArrival
    <3> QED
      BY <3>1, <3>3
  <2>3. NoArrival => NoArrival'
    BY <2>1 DEF NoArrival, Arriving
  <2>4. NoArrival' => NoArrival
    BY <1>3, <1>4 DEF NoArrival, Arriving
  <2>5. OneArrival => OneArrival'
    BY <2>2 DEF OneArrival, Arriving
  <2> QED
    BY <2>1, <2>3, <2>4, <2>5 DEF ArrivalsKept
<1>5. ASSUME kind # "msg", MessageWaits PROVE MessageWaits'
  <2>1. PICK j \in 1..Len(ui_events) : ui_events[j].kind = "msg"
    BY <1>5 DEF MessageWaits
  <2>2. PICK i \in 1..Len(ui_events') : ui_events'[i] = ui_events[j]
    BY <1>3, <1>5, <2>1
  <2> QED
    BY <2>1, <2>2 DEF MessageWaits
<1> QED
  BY <1>4, <1>5

(* The one list on its way is handled: then there is none. *)
LEMMA HandlesArrival ==
  ASSUME ui_events \in Seq(HubEvents), Handles("servers"), OneArrival
  PROVE  NoArrival' /\ 1 \in 1..Len(ui_events) /\ Arriving(1) /\ Head(ui_events) = ui_events[1]
<1>1. /\ Len(ui_events) \in Nat \ {0} /\ Len(ui_events') = Len(ui_events) - 1
      /\ \A i \in 1..Len(ui_events') : ui_events'[i] = ui_events[i + 1]
      /\ Head(ui_events) = ui_events[1]
  BY HandlesEvent
<1>2. Arriving(1) /\ 1 \in 1..Len(ui_events)
  BY <1>1 DEF Handles, Arriving
<1>3. ASSUME NEW i \in 1..Len(ui_events') PROVE ui_events'[i].kind # "servers"
  <2>1. i + 1 \in 1..Len(ui_events) /\ i + 1 # 1 /\ ui_events'[i] = ui_events[i + 1]
    BY <1>1
  <2>2. ~Arriving(i + 1)
    BY <1>2, <2>1 DEF OneArrival
  <2> QED
    BY <2>1, <2>2 DEF Arriving
<1> QED
  BY <1>1, <1>2, <1>3 DEF NoArrival, Arriving

LEMMA ListKeeps ==
  ASSUME ListInv, LoadsKept, ArrivalsKept, UNCHANGED <<account, scope, list>>,
         mixed \/ session_lost => mixed' \/ session_lost', mixed => mixed'
  PROVE  ListInv'
<1>1. SUFFICES ASSUME ~mixed' PROVE
        /\ account # NoAccount =>
             (LoadsFit /\ ArrivalsFit /\ OneList /\ (NoLoad /\ NoArrival => ListSettled))'
        /\ account = NoAccount /\ ~session_lost' => (list = NoList /\ NoLoad /\ NoArrival)'
  BY DEF ListInv
<1>2. ~mixed
  BY <1>1
<1>3. NoLoad' <=> NoLoad
  BY DEF LoadsKept, NoLoad
<1>4. NoArrival' <=> NoArrival
  BY DEF ArrivalsKept
<1>5. ASSUME account # NoAccount
      PROVE  (LoadsFit /\ ArrivalsFit /\ OneList /\ (NoLoad /\ NoArrival => ListSettled))'
  <2>1. LoadsFit /\ ArrivalsFit /\ OneList /\ (NoLoad /\ NoArrival => ListSettled)
    BY <1>2, <1>5 DEF ListInv
  <2>2. LoadsFit'
    BY <2>1 DEF LoadsKept, LoadsFit
  <2>3. ArrivalsFit'
    BY <2>1 DEF ArrivalsKept, ArrivalsFit, Arriving
  <2>4. OneLoad'
    BY <2>1 DEF LoadsKept, OneList, OneLoad
  <2>5. OneList'
    BY <1>3, <1>4, <2>1, <2>4 DEF ArrivalsKept, OneList
  <2>6. (NoLoad /\ NoArrival => ListSettled)'
    BY <1>3, <1>4, <2>1 DEF ListSettled
  <2> QED
    BY <2>2, <2>3, <2>5, <2>6
<1>6. account = NoAccount /\ ~session_lost' => (list = NoList /\ NoLoad /\ NoArrival)'
  BY <1>1, <1>2, <1>3, <1>4 DEF ListInv
<1> QED
  BY <1>5, <1>6

(* A load begun with nothing on its way is the one list there is; another makes
   the list doubtful. *)
LEMMA LoadKeeps ==
  ASSUME HubTypes, ListInv, TurnInv, ArrivalsKept,
         UNCHANGED <<account, access, session_lost, list>>,
         NEW s \in Scopes, LoadDirectory(s), scope' = s
  PROVE  ListInv'
<1>0. HubTasks
  BY DEF HubTypes
<1>1. CASE Found = NoAccount /\ Emptied
  BY <1>1 DEF LoadDirectory, ListInv
<1>2. CASE account = NoAccount /\ ~Emptied
  <2>1. UNCHANGED task /\ (mixed' <=> mixed)
    BY <1>2 DEF LoadDirectory, Found
  <2>2. LoadsKept
    BY <2>1, SameLoads
  <2>3. (NoLoad' <=> NoLoad) /\ (NoArrival' <=> NoArrival)
    BY <2>2 DEF LoadsKept, ArrivalsKept, NoLoad
  <2> QED
    BY <1>2, <2>1, <2>3 DEF ListInv
<1>3. CASE Found # NoAccount /\ ~Loading
  <2> DEFINE t == [kind |-> "load", scope |-> s]
  <2>1. PICK k \in TaskIds : task[k] = NoTask /\ task' = [task EXCEPT ![k] = t]
    BY <1>3 DEF LoadDirectory, Spawn
  <2>2. t.scope = s
    OBVIOUS
  <2> HIDE DEF t
  <2>3. task'[k] = t /\ \A j \in TaskIds \ {k} : task'[j] = task[j]
    BY <1>0, <2>1 DEF HubTasks
  <2>a. access'[k] = NoAccount
    BY <2>1 DEF TurnInv
  <2>4. NoLoad /\ NoArrival'
    BY <1>3, LoadingMeans DEF ArrivalsKept
  <2>5. \A j \in TaskIds : LoadingTask(j)' => j = k
    BY <2>3, <2>4 DEF NoLoad, LoadingTask
  <2>6. LoadsFit' /\ OneLoad'
    BY <2>2, <2>3, <2>5, <2>a DEF LoadsFit, OneLoad
  <2>7. ArrivalsFit' /\ OneArrival'
    BY <2>4 DEF ArrivalsFit, OneArrival, NoArrival
  <2>8. ~NoLoad'
    <3>1. t # NoTask /\ t.kind = "load"
      BY HubAssumption DEF t, Scopes
    <3> QED
      BY <2>3, <3>1 DEF NoLoad, LoadingTask
  <2>9. account' # NoAccount
    BY <1>3 DEF Found
  <2> QED
    BY <1>3, <2>4, <2>6, <2>7, <2>8, <2>9 DEF ListInv, OneList
<1>4. CASE Found # NoAccount /\ Loading
  BY <1>4 DEF LoadDirectory, ListInv
<1> QED
  BY <1>1, <1>2, <1>3, <1>4 DEF Found

LEMMA PageKeeps ==
  ASSUME HubTypes, PageInv, TasksGoOn, UNCHANGED <<account, page>>,
         session_lost => session_lost', misread => misread', MessageWaits => MessageWaits'
  PROVE  PageInv'
<1>1. LoginEnds => LoginEnds'
  BY DEF HubTypes, HDTypeOK, TasksGoOn, LoginEnds
<1> QED
  BY <1>1 DEF PageInv, PageAgrees

LEMMA PageShown ==
  ASSUME NEW v \in Views, UpdateHubView(v), UNCHANGED account
  PROVE  PageInv'
BY DEF UpdateHubView, Found, PageOf, PageInv, PageAgrees, Views

(* What every step keeps. *)
TabInv == ListInv /\ PageInv /\ TurnInv

(* The list that is loaded arrives, as the one on its way. *)
LEMMA ArrivesKeeps ==
  ASSUME HubTypes, TabInv, NEW k \in TaskIds, ListArrives(k)
  PROVE  TabInv'
<1>0. HubTasks /\ ui_events \in Seq(HubEvents)
  BY DEF HubTypes
<1> DEFINE e == [kind |-> "servers", scope |-> task[k].scope, account |-> access[k],
                 server |-> server, address |-> address]
<1>1. e \in HubEvents
  BY ListEvent
<1>2. /\ Done(k) /\ Post(<<e>>) /\ LoadingTask(k) /\ access[k] # NoAccount /\ writer # k
      /\ UNCHANGED <<account, renewal, session_lost, page, scope, list, mixed, misread>>
  BY DEF ListArrives, Calls, Runs, LoadingTask, shown, doubts
<1>3. e.kind = "servers" /\ e.scope = task[k].scope /\ e.account = access[k]
  OBVIOUS
<1> HIDE DEF e
<1>a. <<e>> \in Seq(HubEvents)
  BY <1>1
<1>4. PICK es \in Seq(HubEvents) : es = <<e>>
  BY <1>a
<1>5. Len(es) = 1 /\ es[1] = e
  BY <1>4
<1> DEFINE n == Len(ui_events) + 1
<1>b. Post(es)
  BY <1>2, <1>4
<1>6. /\ Len(ui_events) \in Nat /\ Len(ui_events') = n /\ ui_events'[n] = e
      /\ \A i \in 1..Len(ui_events) : i \in 1..Len(ui_events') /\ ui_events'[i] = ui_events[i]
  <2>1. /\ Len(ui_events) \in Nat /\ Len(ui_events') = Len(ui_events) + Len(es)
        /\ \A i \in 1..Len(es) : ui_events'[Len(ui_events) + i] = es[i]
        /\ \A i \in 1..Len(ui_events) : i \in 1..Len(ui_events') /\ ui_events'[i] = ui_events[i]
    BY <1>0, <1>b, PostPlaces
  <2>2. 1 \in 1..Len(es)
    BY <1>5
  <2> QED
    BY <1>5, <2>1, <2>2
<1>7. \A i \in 1..Len(ui_events') : i \in 1..Len(ui_events) \/ i = n
  BY <1>6
<1>8. PageInv'
  <2>1. MessageWaits => MessageWaits'
    BY <1>6 DEF MessageWaits
  <2>2. LoginEnds => LoginEnds'
    BY <1>0, <1>2 DEF HubTypes, HDTypeOK, HubTasks, Done, LoginEnds, renewal
  <2> QED
    BY <1>2, <2>1, <2>2 DEF TabInv, PageInv, PageAgrees
<1>c. TurnInv'
  BY <1>2, TurnDone DEF TabInv
<1>9. n \in 1..Len(ui_events')
  BY <1>6
<1> HIDE DEF n
<1>10. CASE ~mixed /\ account # NoAccount
  <2>1. LoadsFit /\ ArrivalsFit /\ OneList
    BY <1>10 DEF TabInv, ListInv
  <2>2. NoArrival /\ \A j \in TaskIds : LoadingTask(j) => j = k
    BY <1>2, <2>1 DEF OneList, NoLoad, OneLoad
  <2>3. NoLoad'
    BY <1>0, <1>2, <2>2 DEF NoLoad, LoadingTask, HubTasks, Done
  <2>4. \A i \in 1..Len(ui_events') : Arriving(i)' => i = n
    BY <1>6, <1>7, <2>2 DEF NoArrival, Arriving
  <2>5. OneArrival'
    BY <2>4 DEF OneArrival
  <2>6. task[k].scope = scope /\ access[k] = account
    BY <1>2, <2>1 DEF LoadsFit
  <2>7. ArrivalsFit'
    BY <1>2, <1>3, <1>6, <2>4, <2>6 DEF ArrivalsFit
  <2>8. ~NoArrival'
    BY <1>3, <1>6, <1>9 DEF NoArrival, Arriving
  <2>9. LoadsFit' /\ OneLoad'
    BY <2>3 DEF NoLoad, LoadsFit, OneLoad
  <2> QED
    BY <1>2, <1>8, <1>10, <1>c, <2>3, <2>5, <2>7, <2>8, <2>9 DEF TabInv, ListInv, OneList
<1>11. CASE ~mixed /\ account = NoAccount /\ ~session_lost
  BY <1>2, <1>11 DEF TabInv, ListInv, NoLoad
<1> QED
  BY <1>2, <1>8, <1>10, <1>11, <1>c DEF TabInv, ListInv

(* The session is stored: with none before, and none lost, nothing is on its way. *)
LEMMA LoginKeeps ==
  ASSUME HubTypes, TabInv, NEW k \in TaskIds, LoginWritten(k)
  PROVE  TabInv'
<1>1. /\ task[k] # NoTask /\ task[k].kind = "login" /\ writer = NoTask /\ writer' = k
      /\ mixed' = (mixed \/ session_lost \/ account \notin {NoAccount, account'})
      /\ UNCHANGED <<renewed, access, session_lost, scope, list, task, ui_events>>
  BY DEF LoginWritten, shown
<1>2. PageInv'
  <2>1. LoginEnds'
    BY <1>1, HubAssumption DEF LoginEnds
  <2> QED
    BY <2>1 DEF PageInv
<1>3. TurnInv'
  BY <1>1 DEF TabInv, TurnInv
<1>4. LoadsKept /\ ArrivalsKept
  BY <1>1, SameLoads, SameEvents
<1>5. CASE account' = account
  BY <1>1, <1>2, <1>3, <1>4, <1>5, ListKeeps DEF TabInv
<1>6. CASE ~mixed' /\ account' # account
  <2>1. account = NoAccount /\ ~session_lost /\ ~mixed
    BY <1>1, <1>6
  <2>2. list' = NoList /\ NoLoad /\ NoArrival
    BY <1>1, <2>1 DEF TabInv, ListInv
  <2>3. NoLoad' /\ NoArrival'
    BY <1>4, <2>2 DEF LoadsKept, ArrivalsKept, NoLoad
  <2>4. LoadsFit' /\ ArrivalsFit' /\ OneList' /\ ListSettled'
    BY <2>2, <2>3 DEF NoLoad, NoArrival, LoadsFit, ArrivalsFit, OneList, OneLoad, OneArrival,
                      ListSettled
  <2> QED
    BY <1>1, <1>2, <1>3, <2>1, <2>2, <2>3, <2>4 DEF TabInv, ListInv
<1>7. CASE mixed'
  BY <1>2, <1>3, <1>7 DEF TabInv, ListInv
<1> QED
  BY <1>5, <1>6, <1>7

(* The renewal is written: what was there before, or the tab is in doubt. *)
LEMMA RenewalKeeps ==
  ASSUME HubTypes, TabInv, NEW k \in TaskIds, RenewalWritten(k)
  PROVE  TabInv'
<1>1. /\ writer = k /\ renewed # NoAccount /\ account' = renewed /\ renewed' = NoAccount
      /\ access' = [access EXCEPT ![k] = renewed]
      /\ mixed' = (mixed \/ account' # account) /\ misread' = (misread \/ account' # account)
      /\ UNCHANGED <<writer, session_lost, page, scope, list, task, ui_events>>
  BY DEF RenewalWritten, shown
<1>2. TurnInv'
  <2>1. task[k] # NoTask /\ task[k].kind \notin {"login", "logout"}
    BY <1>1, HubAssumption DEF TabInv, TurnInv
  <2>2. \A j \in TaskIds \ {k} : access'[j] = access[j]
    BY <1>1 DEF HubTypes, HDTypeOK
  <2> QED
    BY <1>1, <2>1, <2>2 DEF TabInv, TurnInv
<1>3. CASE account' = account
  <2>1. LoadsKept /\ ArrivalsKept /\ (MessageWaits => MessageWaits') /\ TasksGoOn
    BY <1>1, <1>3, TokenLoads, SameEvents, SameGoOn
  <2>2. ListInv'
    BY <1>1, <1>3, <2>1, ListKeeps DEF TabInv
  <2>3. PageInv'
    BY <1>1, <1>3, <2>1, PageKeeps DEF TabInv
  <2> QED
    BY <1>2, <2>2, <2>3 DEF TabInv
<1>4. CASE mixed' /\ misread'
  BY <1>2, <1>4 DEF TabInv, ListInv, PageInv
<1> QED
  BY <1>1, <1>3, <1>4

(* The list is loaded, or left out for want of a session. *)
LEMMA DirectoryKeeps ==
  ASSUME HubTypes, TabInv, NEW s \in Scopes, scope' = s, LoadDirectory(s), ArrivalsKept,
         MessageWaits => MessageWaits',
         UNCHANGED <<account, renewed, writer, access, session_lost, page, list, misread>>
  PROVE  TabInv'
<1>1. HubTasks /\ ListInv /\ PageInv /\ TurnInv
  BY DEF HubTypes, TabInv
<1>2. TasksGoOn
  BY <1>1, LoadGoesOn
<1>3. ListInv'
  BY <1>1, LoadKeeps
<1>4. PageInv' /\ TurnInv'
  BY <1>1, <1>2, PageKeeps, TurnKeeps
<1> QED
  BY <1>3, <1>4 DEF TabInv

(* A task begins that loads no list. *)
LEMMA BeginKeeps ==
  ASSUME HubTypes, TabInv, NEW t, t.kind # "load", Spawn(t),
         UNCHANGED <<account, renewal, access, session_lost, page, scope, list, ui_events, mixed,
                     misread>>
  PROVE  TabInv'
<1>1. HubTasks /\ ListInv /\ PageInv /\ TurnInv
  BY DEF HubTypes, TabInv
<1>2. LoadsKept /\ TasksGoOn /\ ArrivalsKept /\ (MessageWaits => MessageWaits')
  BY <1>1, SpawnLoads, SpawnGoesOn, SameEvents DEF renewal
<1>3. ListInv'
  BY <1>1, <1>2, ListKeeps
<1>4. PageInv' /\ TurnInv'
  BY <1>1, <1>2, PageKeeps, TurnKeeps DEF renewal
<1> QED
  BY <1>3, <1>4 DEF TabInv

LEMMA ViewStep == HubTypes /\ TabInv /\ [HDNext]_hdVars => TabInv'
<1> SUFFICES ASSUME HubTypes, TabInv, [HDNext]_hdVars PROVE TabInv'
  OBVIOUS
<1>0. /\ HubTasks /\ ui_events \in Seq(HubEvents) /\ hub_view \in Views
      /\ ListInv /\ PageInv /\ TurnInv
  BY DEF HubTypes, HDTypeOK, TabInv
<1>a. UNCHANGED ui_events => ArrivalsKept /\ (MessageWaits => MessageWaits')
  BY SameEvents
<1>b. UNCHANGED <<account, access, scope, list, page>> /\ TasksGoOn /\ LoadsKept /\ ArrivalsKept
      /\ UNCHANGED renewal /\ (session_lost => session_lost') /\ (misread => misread')
      /\ (mixed' <=> mixed) /\ (MessageWaits => MessageWaits') /\ TurnInv' => TabInv'
  BY <1>0, ListKeeps, PageKeeps DEF TabInv
<1> USE DEF shown, doubts
<1>1. ASSUME NEW v \in Views, SelectView(v) PROVE TabInv'
  <2>1. /\ UpdateHubView(v)
        /\ UNCHANGED <<account, renewed, writer, access, session_lost, scope, list, task, ui_events,
                       mixed>>
    BY <1>1 DEF SelectView, renewal
  <2>2. ListInv'
    BY <1>0, <1>a, <2>1, SameLoads, ListKeeps
  <2>3. TurnInv'
    BY <1>0, <2>1, SameGoOn, TurnKeeps
  <2> QED
    BY <2>1, <2>2, <2>3, PageShown DEF TabInv
<1>2. ASSUME NEW s \in Scopes, SelectScope(s) PROVE TabInv'
  <2>1. /\ scope' = s /\ LoadDirectory(s)
        /\ UNCHANGED <<account, renewed, writer, access, session_lost, page, list, ui_events,
                       misread>>
    BY <1>2 DEF SelectScope, renewal
  <2> QED
    BY <1>a, <2>1, DirectoryKeeps
<1>3. ASSUME NEW a \in HubAccounts, StartLogin(a) PROVE TabInv'
  BY <1>3, BeginKeeps DEF StartLogin
<1>4. CASE StartLogout
  <2>1. LoadsKept /\ TasksGoOn
    BY <1>0, <1>4, SpawnLoads, SpawnGoesOn DEF StartLogout, renewal
  <2>2. account' = NoAccount /\ page' = "login" /\ list' = NoList /\ mixed' = Loading
        /\ UNCHANGED <<session_lost, ui_events, renewed, access>>
    BY <1>4 DEF StartLogout, renewal
  <2>3. (NoLoad' <=> NoLoad) /\ (NoArrival' <=> NoArrival)
    BY <1>a, <2>1, <2>2 DEF LoadsKept, ArrivalsKept, NoLoad
  <2>4. ListInv'
    BY <2>2, <2>3, LoadingMeans DEF ListInv
  <2>5. PageAgrees'
    BY <2>2 DEF PageAgrees
  <2>6. TurnInv'
    BY <1>0, <2>1, <2>2, TurnKeeps
  <2> QED
    BY <2>4, <2>5, <2>6 DEF PageInv, TabInv
<1>5. CASE SettingsSaved
  <2>1. /\ mixed' /\ misread'
        /\ UNCHANGED <<renewed, writer, access, task>>
    BY <1>5 DEF SettingsSaved, renewal
  <2>2. TurnInv'
    BY <1>0, <2>1, SameGoOn, TurnKeeps
  <2> QED
    BY <2>1, <2>2 DEF TabInv, ListInv, PageInv
<1>6. CASE HubInvites
  <2>1. UNCHANGED <<page, list, ui_events, renewed, writer, access, misread>>
    BY <1>6 DEF HubInvites, renewal
  <2>2. CASE HubShowMyServers /\ UNCHANGED <<account, session_lost>>
    BY <1>a, <2>1, <2>2, DirectoryKeeps DEF HubShowMyServers, SelectedFirst, Scopes
  <2>3. CASE Rejected /\ UNCHANGED <<scope, task, mixed>>
    <3>1. TurnInv'
      BY <1>0, <2>1, <2>3, SameGoOn, TurnKeeps
    <3> QED
      BY <2>3, <3>1 DEF Rejected, ListInv, PageInv, TabInv
  <2> QED
    BY <1>6, <2>2, <2>3 DEF HubInvites
<1>7. CASE HubDeleteServer
  BY <1>7, BeginKeeps DEF HubDeleteServer
<1>8. CASE OpenEditDialog \/ CancelEditDialog \/ UNCHANGED hdVars
  <2>1. UNCHANGED <<account, renewed, writer, access, session_lost, page, scope, list, task,
                    ui_events, mixed, misread>>
    BY <1>8 DEF OpenEditDialog, CancelEditDialog, hdVars, renewal
  <2>2. LoadsKept /\ TasksGoOn
    BY <2>1, SameLoads, SameGoOn
  <2> QED
    BY <1>0, <1>a, <1>b, <2>1, <2>2, TurnKeeps DEF renewal
<1>9. ASSUME NEW typed \in Addresses \cup {Untyped}, CloseEditDialog(typed) PROVE TabInv'
  BY <1>9, BeginKeeps DEF CloseEditDialog
<1>10. ASSUME NEW typed \in Addresses \cup {Untyped}, NEW private \in BOOLEAN,
              HubCreateServer(typed, private)
       PROVE  TabInv'
  BY <1>10, BeginKeeps DEF HubCreateServer
<1>11. ASSUME NEW k \in TaskIds, TokenCached(k) PROVE TabInv'
  <2>1. /\ AsksForToken(k) /\ access' = [access EXCEPT ![k] = account]
        /\ UNCHANGED <<account, renewed, writer, session_lost, page, scope, list, task, ui_events,
                       mixed, misread>>
    BY <1>11 DEF TokenCached, renewal
  <2>2. LoadsKept /\ ArrivalsKept /\ (MessageWaits => MessageWaits') /\ TasksGoOn
    BY <1>a, <2>1, TokenLoads, SameGoOn
  <2>3. TurnInv'
    <3>1. task[k] # NoTask /\ task[k].kind # "login"
      BY <2>1 DEF AsksForToken
    <3>2. \A j \in TaskIds \ {k} : access'[j] = access[j]
      BY <2>1 DEF HubTypes, HDTypeOK
    <3> QED
      BY <1>0, <2>1, <3>1, <3>2 DEF TurnInv
  <2>4. ListInv'
    BY <1>0, <2>1, <2>2, ListKeeps
  <2>5. PageInv'
    BY <1>0, <2>1, <2>2, PageKeeps
  <2> QED
    BY <2>3, <2>4, <2>5 DEF TabInv
<1>12. ASSUME NEW k \in TaskIds, Renews(k) \/ RenewalSaved(k) PROVE TabInv'
  <2>1. UNCHANGED <<account, access, session_lost, page, scope, list, task, ui_events, mixed,
                    misread>>
    BY <1>12 DEF Renews, RenewalSaved
  <2>2. TurnInv' /\ ~LoginEnds
    <3>1. CASE Renews(k)
      <4>1. /\ writer = NoTask /\ writer' = k /\ task[k] # NoTask
            /\ task[k].kind \notin {"login", "logout"}
        BY <3>1 DEF Renews, AsksForToken
      <4> QED
        BY <1>0, <2>1, <4>1, HubAssumption DEF TurnInv, LoginEnds
    <3>2. CASE RenewalSaved(k)
      <4>1. writer = k /\ writer' = NoTask /\ renewed' = NoAccount /\ access[k] # NoAccount
        BY <3>2 DEF RenewalSaved, Emptied
      <4> QED
        BY <1>0, <2>1, <4>1 DEF TurnInv, LoginEnds
    <3> QED
      BY <1>12, <3>1, <3>2
  <2>3. ListInv'
    BY <1>0, <1>a, <2>1, SameLoads, ListKeeps
  <2>4. PageInv'
    BY <1>0, <1>a, <2>1, <2>2 DEF PageInv, PageAgrees
  <2> QED
    BY <2>2, <2>3, <2>4 DEF TabInv
<1>13. ASSUME NEW k \in TaskIds, TaskFails(k) PROVE TabInv'
  <2>1. /\ Done(k) /\ ArrivalsKept /\ MessageWaits' /\ UNCHANGED <<scope, list, page>>
        /\ mixed' = (mixed \/ task[k].kind = "load")
        /\ UNCHANGED <<account, session_lost>> \/ Rejected
    BY <1>0, <1>13, PostNotice DEF TaskFails
  <2>2. PageInv'
    BY <2>1 DEF PageInv
  <2>3. TurnInv'
    <3>1. \/ writer # k /\ UNCHANGED renewal
          \/ writer' = NoTask /\ renewed' = NoAccount
      BY <1>13 DEF TaskFails
    <3> QED
      BY <1>0, <2>1, <3>1, TurnDone
  <2>4. CASE UNCHANGED <<account, session_lost>>
    <3>1. CASE task[k].kind = "load"
      <4>1. mixed'
        BY <2>1, <3>1
      <4> QED
        BY <2>2, <2>3, <4>1 DEF ListInv, TabInv
    <3>2. CASE task[k].kind # "load"
      <4>1. LoadsKept
        BY <2>1, <3>2, DoneLoads DEF LoadingTask
      <4>2. ListInv'
        BY <1>0, <2>1, <2>4, <3>2, <4>1, ListKeeps
      <4> QED
        BY <2>2, <2>3, <4>2 DEF TabInv
    <3> QED
      BY <3>1, <3>2
  <2>5. CASE Rejected
    BY <2>2, <2>3, <2>5 DEF Rejected, ListInv, TabInv
  <2> QED
    BY <2>1, <2>4, <2>5
<1>14. ASSUME NEW k \in TaskIds,
              LoggedIn(k) \/ LoggedOut(k) \/ Created(k) \/ Edited(k) \/ Deleted(k)
       PROVE  TabInv'
  <2>1. ArrivalsKept /\ MessageWaits'
    <3>1. Created(k) => task[k].private \in BOOLEAN
      BY <1>0 DEF Created, Calls, Runs, HubTasks, HubTask
    <3>2. \/ Post(<<Notice>>)
          \/ \E mine \in BOOLEAN :
               Post(<<Reload(mine), Notice>>) \/ Post(<<Notice, Reload(mine)>>)
      BY <1>14, <3>1 DEF LoggedIn, LoggedOut, Created, Edited, Deleted
    <3> QED
      BY <1>0, <3>2, PostNotice
  <2>2. /\ Done(k) /\ task[k] # NoTask /\ ~LoadingTask(k)
        /\ UNCHANGED <<account, renewed, session_lost, scope, list, page, mixed>>
    BY <1>14 DEF LoggedIn, LoggedOut, Created, Edited, Deleted, Calls, Runs, LoadingTask, renewal
  <2>3. \/ writer # k /\ UNCHANGED renewal
        \/ writer' = NoTask /\ renewed' = NoAccount
    <3>1. CASE LoggedIn(k)
      <4>1. writer = k /\ writer' = NoTask /\ task[k].kind = "login"
        BY <3>1 DEF LoggedIn, Runs
      <4> QED
        BY <1>0, <2>2, <4>1 DEF TurnInv
    <3>2. CASE LoggedOut(k)
      <4>1. UNCHANGED renewal /\ task[k].kind = "logout"
        BY <3>2 DEF LoggedOut, Runs
      <4> QED
        BY <1>0, <4>1, HubAssumption DEF TurnInv
    <3>3. CASE Created(k) \/ Edited(k) \/ Deleted(k)
      BY <3>3 DEF Created, Edited, Deleted, Calls
    <3> QED
      BY <1>14, <3>1, <3>2, <3>3
  <2>4. TurnInv'
    BY <1>0, <2>2, <2>3, TurnDone
  <2>5. ListInv'
    BY <1>0, <2>1, <2>2, DoneLoads, ListKeeps
  <2> QED
    BY <2>1, <2>4, <2>5 DEF PageInv, TabInv
<1>15. CASE HandleHubMsg
  <2>1. /\ Handles("msg") /\ UpdateHubView(hub_view)
        /\ UNCHANGED <<account, renewed, writer, access, session_lost, scope, list, task, mixed>>
    BY <1>15 DEF HandleHubMsg, renewal
  <2>2. ArrivalsKept
    BY <1>0, <2>1, HandlesOther
  <2>3. ListInv'
    BY <1>0, <2>1, <2>2, SameLoads, ListKeeps
  <2>4. TurnInv'
    BY <1>0, <2>1, SameGoOn, TurnKeeps
  <2> QED
    BY <1>0, <2>1, <2>3, <2>4, PageShown DEF TabInv
<1>16. CASE HandleDirReload
  <2>1. ArrivalsKept /\ (MessageWaits => MessageWaits')
    BY <1>0, <1>16, HandlesOther DEF HandleDirReload
  <2>2. PICK s \in Scopes : scope' = s /\ LoadDirectory(s)
    BY <1>16 DEF HandleDirReload, HubShowMyServers, SelectedFirst, Scopes, HubTypes, HDTypeOK
  <2>3. UNCHANGED <<account, renewed, writer, access, session_lost, list, page, misread>>
    BY <1>16 DEF HandleDirReload, renewal
  <2> QED
    BY <2>1, <2>2, <2>3, DirectoryKeeps
<1>17. CASE HandleServers
  <2>1. /\ Handles("servers")
        /\ UNCHANGED <<account, renewed, writer, access, session_lost, scope, task, mixed, misread,
                       page>>
        /\ list'.scope = Head(ui_events).scope /\ list'.account = Head(ui_events).account
    BY <1>17 DEF HandleServers, renewal
  <2>2. MessageWaits => MessageWaits'
    BY <1>0, <2>1, HandlesOther
  <2>3. PageInv' /\ TurnInv'
    BY <1>0, <2>1, <2>2, SameGoOn, PageKeeps, TurnKeeps
  <2>4. CASE ~mixed /\ account # NoAccount
    <3>1. LoadsFit /\ ArrivalsFit /\ OneList
      BY <1>0, <2>4 DEF ListInv, TabInv
    <3>2. NoArrival' /\ 1 \in 1..Len(ui_events) /\ Arriving(1) /\ Head(ui_events) = ui_events[1]
      BY <1>0, <2>1, <3>1, HandlesArrival DEF OneList
    <3>3. NoLoad'
      BY <2>1, <3>1, <3>2 DEF OneList, NoArrival, NoLoad, LoadingTask
    <3>4. ListSettled'
      BY <2>1, <3>1, <3>2 DEF ArrivalsFit, ListSettled
    <3>5. LoadsFit' /\ ArrivalsFit' /\ OneList'
      BY <3>2, <3>3 DEF NoLoad, NoArrival, LoadsFit, ArrivalsFit, OneList, OneLoad, OneArrival
    <3> QED
      BY <2>1, <2>3, <2>4, <3>4, <3>5 DEF ListInv, TabInv
  <2>5. CASE ~mixed /\ account = NoAccount /\ ~session_lost
    <3>1. NoArrival
      BY <1>0, <2>5 DEF ListInv, TabInv
    <3>2. OneArrival
      BY <3>1 DEF OneArrival, NoArrival
    <3> QED
      BY <1>0, <2>1, <3>1, <3>2, HandlesArrival DEF NoArrival
  <2>6. CASE mixed \/ (account = NoAccount /\ session_lost)
    BY <2>1, <2>3, <2>6 DEF ListInv, TabInv
  <2> QED
    BY <2>4, <2>5, <2>6
<1>18. CASE HubSessionLost
  <2>1. /\ list' = NoList /\ session_lost' = FALSE /\ UpdateHubView("login")
        /\ mixed' = (mixed \/ (Loading /\ account = NoAccount))
        /\ UNCHANGED <<account, renewed, writer, access, scope, task, ui_events>>
    BY <1>18 DEF HubSessionLost, renewal
  <2>2. PageInv' /\ TurnInv'
    BY <1>0, <2>1, SameGoOn, PageShown, TurnKeeps DEF Views
  <2>3. (NoLoad' <=> NoLoad) /\ (NoArrival' <=> NoArrival) /\ (OneLoad' <=> OneLoad)
        /\ (OneArrival' <=> OneArrival)
    BY <2>1 DEF NoLoad, NoArrival, OneLoad, OneArrival, LoadingTask, Arriving
  <2>4. (LoadsFit' <=> LoadsFit) /\ (ArrivalsFit' <=> ArrivalsFit)
    BY <2>1 DEF LoadsFit, ArrivalsFit, LoadingTask, Arriving
  <2>5. CASE ~mixed' /\ account # NoAccount
    <3>1. LoadsFit /\ ArrivalsFit /\ OneList
      BY <1>0, <2>1, <2>5 DEF ListInv
    <3> QED
      BY <2>1, <2>2, <2>3, <2>4, <2>5, <3>1 DEF ListInv, OneList, ListSettled, TabInv
  <2>6. CASE ~mixed' /\ account = NoAccount
    BY <2>1, <2>2, <2>3, <2>6, LoadingMeans DEF ListInv, TabInv
  <2>7. CASE mixed'
    BY <2>2, <2>7 DEF ListInv, TabInv
  <2> QED
    BY <2>5, <2>6, <2>7
<1> QED
  BY <1>1, <1>2, <1>3, <1>4, <1>5, <1>6, <1>7, <1>8, <1>9, <1>10, <1>11, <1>12, <1>13, <1>14,
     <1>15, <1>16, <1>17, <1>18, ArrivesKeeps, LoginKeeps, RenewalKeeps DEF HDNext, Scopes

LEMMA ViewInit == HDInit => TabInv
<1> SUFFICES ASSUME HDInit PROVE TabInv
  OBVIOUS
<1>1. PageAgrees
  BY DEF HDInit, PageAgrees
<1>2. list = NoList /\ ui_events = <<>> /\ \A k \in TaskIds : task[k] = NoTask
  BY DEF HDInit
<1>3. NoLoad /\ NoArrival
  BY <1>2 DEF NoLoad, NoArrival, LoadingTask
<1>4. LoadsFit /\ ArrivalsFit /\ OneList /\ ListSettled
  BY <1>2, <1>3 DEF NoLoad, NoArrival, LoadsFit, ArrivalsFit, OneList, OneLoad, OneArrival,
                    ListSettled
<1>5. TurnInv
  BY DEF HDInit, TurnInv
<1> QED
  BY <1>1, <1>2, <1>3, <1>4, <1>5 DEF ListInv, PageInv, TabInv

(* At rest the tab shows the page and the list that go with the session and the
   choice, whatever loads, logins, logouts and rejections went before, unless a
   page was chosen, or a save made, while a task was writing the file. *)
THEOREM HubViewHolds == HDSpec => []HubViewAgrees
<1>1. HubTypes /\ TabInv => HubViewAgrees
  <2> SUFFICES ASSUME HubTypes, TabInv, AtRest PROVE
        /\ (page = "account") = (account # NoAccount) \/ misread
        /\ list # NoList => mixed \/ (list.scope = scope /\ list.account = account)
    BY DEF HubViewAgrees
  <2>1. NoLoad /\ NoArrival /\ ~session_lost /\ ~MessageWaits /\ ~LoginEnds
    BY DEF AtRest, NoLoad, NoArrival, LoadingTask, MessageWaits, LoginEnds, HubTypes, HDTypeOK
  <2>2. PageAgrees \/ misread
    BY <2>1 DEF PageInv, TabInv
  <2> QED
    BY <2>1, <2>2 DEF ListInv, PageAgrees, ListSettled, TabInv
<1> QED
  BY <1>1, HubTypeInit, HubTypeStep, ViewInit, ViewStep, PTL DEF HDSpec

----------------------------------------------------------------------------
(* The mobile library: types *)

MobileTypes ==
  /\ MCTypeOK
  /\ requests \in [Connections -> Seq(Request)] /\ answers \in [Connections -> Seq(Answer)]

Unopened(k) == requests[k] = <<>> /\ answers[k] = <<>> /\ place[k] = NoRoom

(* Where forward_events may be before it has ended. *)
Running == {"waiting", "working", "asking", "stopping", "clearing"}

(* What the host and the tasks know of the connections. *)
ConnectionsInv ==
  /\ held => /\ latest \in Connections \ cut
             /\ forward[latest] \in Running
  /\ host = "clearing" => held
  /\ host = "connecting" => ~held /\ latest + 1 \in Connections
  /\ host = "storing" => entering # NoRoom
  /\ cut \subseteq 1..latest
  /\ ws_tx # NoLink => receive_task[ws_tx]
  /\ \A k \in Connections :
       /\ k > latest => establishing[k] = "none"
       /\ establishing[k] \in {"none", "opening"} =>
            Unopened(k) /\ ~receive_task[k] /\ forward[k] # "clearing"
       /\ establishing[k] = "none" => forward[k] = "none"

(* What is being handled is still the first of its events. *)
HandlingInv ==
  \A k \in Connections :
    /\ forward[k] = "working" => answers[k] # <<>> /\ Head(answers[k]).kind # "ack"
    /\ joining[k] # NoRoom => forward[k] = "working" /\ Head(answers[k]).kind = "joined"

LEMMA ConcatElements ==
  ASSUME NEW T, NEW s \in Seq(T), NEW t \in Seq(T)
  PROVE  /\ s \o t \in Seq(T) /\ Len(s \o t) = Len(s) + Len(t)
         /\ \A i \in 1..Len(s) + Len(t) : (s \o t)[i] = IF i <= Len(s) THEN s[i] ELSE t[i - Len(s)]
OBVIOUS

LEMMA RemoveElements ==
  ASSUME NEW T, NEW s \in Seq(T), NEW i \in 1..Len(s)
  PROVE  /\ RemoveAt(s, i) \in Seq(T) /\ Len(RemoveAt(s, i)) = Len(s) - 1 /\ Len(s) \in Nat
         /\ \A j \in 1..Len(s) - 1 : RemoveAt(s, i)[j] = IF j < i THEN s[j] ELSE s[j + 1]
<1> DEFINE s1 == SubSeq(s, 1, i - 1)
           s2 == SubSeq(s, i + 1, Len(s))
<1>1. Len(s) \in Nat /\ i \in Nat
  OBVIOUS
<1>2. s1 \in Seq(T) /\ Len(s1) = i - 1 /\ \A j \in 1..i - 1 : s1[j] = s[j]
  BY <1>1
<1>3. s2 \in Seq(T) /\ Len(s2) = Len(s) - i /\ \A j \in 1..Len(s) - i : s2[j] = s[i + j]
  BY <1>1
<1> HIDE DEF s1, s2
<1>4. s1 \o s2 \in Seq(T) /\ Len(s1 \o s2) = Len(s) - 1
  <2>1. s1 \o s2 \in Seq(T) /\ Len(s1 \o s2) = Len(s1) + Len(s2)
    BY <1>2, <1>3, ConcatElements
  <2> QED
    BY <1>1, <1>2, <1>3, <2>1
<1>8. ASSUME NEW j \in 1..Len(s) - 1
      PROVE  (s1 \o s2)[j] = IF j < i THEN s1[j] ELSE s2[j - (i - 1)]
  <2>1. Len(s1) = i - 1 /\ Len(s1) \in Nat /\ Len(s2) \in Nat /\ j \in 1..Len(s1) + Len(s2)
    BY <1>1, <1>2, <1>3
  <2>2. (s1 \o s2)[j] = IF j <= Len(s1) THEN s1[j] ELSE s2[j - Len(s1)]
    BY <1>2, <1>3, <2>1, ConcatElements
  <2> QED
    BY <1>1, <2>1, <2>2
<1>5. \A j \in 1..Len(s) - 1 : j < i => j \in 1..i - 1
  BY <1>1
<1>6. \A j \in 1..Len(s) - 1 : ~(j < i) =>
        j - (i - 1) \in 1..Len(s) - i /\ i + (j - (i - 1)) = j + 1
  BY <1>1
<1>7. \A j \in 1..Len(s) - 1 : (s1 \o s2)[j] = IF j < i THEN s[j] ELSE s[j + 1]
  BY <1>2, <1>3, <1>5, <1>6, <1>8
<1> QED
  BY <1>1, <1>4, <1>7 DEF RemoveAt, s1, s2

LEMMA SendTypes ==
  ASSUME answers \in [Connections -> Seq(Answer)], NEW k, NEW m \in Answer, Send(k, m)
  PROVE  answers' \in [Connections -> Seq(Answer)]
<1>1. CASE answers' = answers
  BY <1>1
<1>2. CASE answers' = [answers EXCEPT ![k] = Append(@, m)]
  <2>1. \A c \in Connections : Append(answers[c], m) \in Seq(Answer)
    OBVIOUS
  <2> QED
    BY <1>2, <2>1
<1> QED
  BY <1>1, <1>2 DEF Send

LEMMA ConfiguredTypes ==
  ASSUME requests \in [Connections -> Seq(Request)]
  PROVE  Configured \in [Connections -> Seq(Request)]
<1>1. [kind |-> "config"] \in Request
  BY DEF Request
<1> HIDE DEF Request
<1>2. \A c \in Connections : Append(requests[c], [kind |-> "config"]) \in Seq(Request)
  BY <1>1
<1> QED
  BY <1>2 DEF Configured

LEMMA SendWsTypes ==
  ASSUME requests \in [Connections -> Seq(Request)], NEW msgs \in Seq(Request), SendWs(msgs)
  PROVE  requests' \in [Connections -> Seq(Request)]
<1>1. \A c \in Connections : requests[c] \o msgs \in Seq(Request)
  OBVIOUS
<1> QED
  BY <1>1 DEF SendWs

LEMMA ReceivedTypes ==
  ASSUME MobileTypes, NEW k \in Connections, NEW kind, Received(k, kind)
  PROVE  /\ requests' \in [Connections -> Seq(Request)]
         /\ Head(requests[k]) \in Request /\ Head(requests[k]).kind = kind
         /\ Head(requests[k]) = requests[k][1] /\ Len(requests[k]) \in Nat \ {0}
BY DEF Received, MobileTypes

LEMMA MobileTypeStep ==
  MobileTypes /\ ConnectionsInv /\ HandlingInv /\ [MCNext]_mcVars => MobileTypes'
<1> SUFFICES ASSUME MobileTypes, ConnectionsInv, HandlingInv, [MCNext]_mcVars PROVE MobileTypes'
  OBVIOUS
<1>0. /\ MCTypeOK
      /\ requests \in [Connections -> Seq(Request)] /\ answers \in [Connections -> Seq(Answer)]
  BY DEF MobileTypes
<1> SUFFICES /\ MCTypeOK'
             /\ requests' \in [Connections -> Seq(Request)]
             /\ answers' \in [Connections -> Seq(Answer)]
  BY DEF MobileTypes
<1>q. /\ \A r \in Rooms : /\ [kind |-> "join", room |-> r] \in Request
                         /\ [kind |-> "group", room |-> r] \in Request
                         /\ [kind |-> "joined", room |-> r] \in Answer
                         /\ [kind |-> "moved", room |-> r] \in Answer
      /\ [kind |-> "config"] \in Request /\ [kind |-> "leave"] \in Request
      /\ [kind |-> "login"] \in Request
      /\ [kind |-> "ack"] \in Answer /\ [kind |-> "lost"] \in Answer
      /\ [kind |-> "kicked"] \in Answer
  BY DEF Request, Answer
<1>r. /\ \A m \in Request : m.kind \in {"join", "group"} => m.room \in Rooms
      /\ \A m \in Answer : m.kind \in {"joined", "moved"} => m.room \in Rooms
  BY DEF Request, Answer
<1>c. Counted => room_calls' \in 0 .. MaxRoomCalls
  BY <1>0, MobileAssumption DEF Counted, MCTypeOK
<1>m. /\ Asking \in BOOLEAN /\ Clearing \in BOOLEAN /\ Astray \in BOOLEAN
      /\ AllQuiet \in BOOLEAN
  BY DEF Asking, Clearing, MicrophoneAskedFor, Astray, AllQuiet, OnItsWay, ToBeTaken
<1>h. \A k \in Connections : forward[k] = "working" =>
        /\ Head(answers[k]) \in Answer /\ Tail(answers[k]) \in Seq(Answer)
  BY <1>0 DEF HandlingInv
<1> USE DEF MCTypeOK, client, call, tasks, events, at_server, excuses
<1> DEFINE Goal == /\ MCTypeOK' /\ requests' \in [Connections -> Seq(Request)]
                   /\ answers' \in [Connections -> Seq(Answer)]
<1>1. ASSUME TcConnect PROVE Goal
  BY <1>0, <1>1, <1>m DEF TcConnect, StopsFirst, StopCaptureAndStream
<1>1b. ASSUME ConnectStarts PROVE Goal
  BY <1>0, <1>1b DEF ConnectStarts, Cleared, ConnectionsInv
<1>2. ASSUME TcDisconnect PROVE Goal
  BY <1>0, <1>2, <1>m DEF TcDisconnect, StopsFirst, StopCaptureAndStream
<1>2b. ASSUME DisconnectClears PROVE Goal
  BY <1>0, <1>2b DEF DisconnectClears, Cleared, Aborted, Ends, ConnectionsInv
<1>3. ASSUME TcLeaveRoom PROVE Goal
  <2>1. requests' \in [Connections -> Seq(Request)]
    <3>1. <<[kind |-> "leave"]>> \in Seq(Request)
      BY <1>q
    <3> HIDE DEF MCTypeOK
    <3> QED
      BY <1>0, <1>3, <3>1, SendWsTypes DEF TcLeaveRoom
  <2> QED
    BY <1>0, <1>3, <1>m, <1>c, <2>1 DEF TcLeaveRoom
<1>3b. ASSUME LeaveClears PROVE Goal
  BY <1>0, <1>3b, <1>m DEF LeaveClears, RoomLeft
<1>3c. ASSUME LeaveStops PROVE Goal
  BY <1>0, <1>3c, <1>m DEF LeaveStops, StopCaptureAndStream
<1>4. ASSUME NEW r \in Rooms, TcJoinRoom(r) PROVE Goal
  <2>1. requests' \in [Connections -> Seq(Request)]
    <3>0. [kind |-> "join", room |-> r] \in Request
      BY <1>q
    <3>1. <<[kind |-> "join", room |-> r]>> \in Seq(Request)
      BY <3>0
    <3> HIDE DEF MCTypeOK
    <3> QED
      BY <1>0, <1>4, <3>1, SendWsTypes DEF TcJoinRoom
  <2> QED
    BY <1>0, <1>4, <1>m, <1>c, <2>1 DEF TcJoinRoom
<1>4b. ASSUME JoinStores PROVE Goal
  BY <1>0, <1>4b, <1>m DEF JoinStores, RoomStored, NoLongerPending
<1>4c. ASSUME JoinAsks PROVE Goal
  <2>1. requests' \in [Connections -> Seq(Request)]
    BY <1>0, <1>4c, ConfiguredTypes DEF JoinAsks
  <2> QED
    BY <1>0, <1>4c, <2>1 DEF JoinAsks
<1>5. ASSUME NEW r \in Rooms, TcJoinGroupRoom(r) PROVE Goal
  <2>1. requests' \in [Connections -> Seq(Request)]
    <3>0. [kind |-> "group", room |-> r] \in Request
      BY <1>q
    <3>1. <<[kind |-> "group", room |-> r]>> \in Seq(Request)
      BY <3>0
    <3> HIDE DEF MCTypeOK
    <3> QED
      BY <1>0, <1>5, <3>1, SendWsTypes DEF TcJoinGroupRoom
  <2>2. astray' \in BOOLEAN
    BY <1>5 DEF TcJoinGroupRoom, Astray, OnItsWay, ToBeTaken
  <2> QED
    BY <1>0, <1>5, <2>2, <1>c, <2>1 DEF TcJoinGroupRoom
<1>6. ASSUME NEW k \in Connections, ConnectionOpens(k) PROVE Goal
  BY <1>0, <1>6 DEF ConnectionOpens
<1>7. ASSUME NEW k \in Connections, ConnectFails(k) PROVE Goal
  BY <1>0, <1>7 DEF ConnectFails
<1>8. ASSUME NEW k \in Connections, SendLogin(k) PROVE Goal
  <2>1. requests' \in [Connections -> Seq(Request)]
    <3>1. <<[kind |-> "login"]>> \in Seq(Request)
      BY <1>q
    <3> HIDE DEF MCTypeOK
    <3> QED
      BY <1>0, <1>8, <3>1, SendWsTypes DEF SendLogin
  <2>2. /\ establishing' = [establishing EXCEPT ![k] = "done"]
        /\ UNCHANGED <<latest, held, call, ws_tx, ws_connected, tasks, events, client, answers,
                       at_server, room_calls, excuses>>
    BY <1>8 DEF SendLogin
  <2> QED
    BY <1>0, <2>1, <2>2
<1>9. ASSUME NEW k \in Connections, SenderEnds(k) PROVE Goal
  BY <1>0, <1>9 DEF SenderEnds
<1>10. ASSUME NEW k \in Connections, ConnectionLost(k) PROVE Goal
  <2>1. answers' \in [Connections -> Seq(Answer)]
    <3> HIDE DEF MCTypeOK
    <3> QED
      BY <1>0, <1>10, <1>q, SendTypes DEF ConnectionLost
  <2>2. requests' \in [Connections -> Seq(Request)]
    BY <1>0, <1>10 DEF ConnectionLost
  <2> QED
    BY <1>0, <1>10, <2>1, <2>2 DEF ConnectionLost
<1>11. ASSUME NEW k \in Connections, AckArrives(k) PROVE Goal
  <2> PICK i \in DOMAIN answers[k] : answers' = [answers EXCEPT ![k] = RemoveAt(@, i)]
    BY <1>11 DEF AckArrives
  <2>1. RemoveAt(answers[k], i) \in Seq(Answer)
    BY <1>0, RemoveElements
  <2>2. answers' \in [Connections -> Seq(Answer)]
    BY <1>0, <2>1
  <2> QED
    BY <1>0, <1>11, <2>2 DEF AckArrives
<1>12. ASSUME NEW k \in Connections, TakeEvent(k) PROVE Goal
  <2>1. Head(answers[k]) \in Answer
    BY <1>0, <1>12 DEF TakeEvent
  <2>2. astray' \in BOOLEAN
    BY <1>0, <1>12 DEF TakeEvent
  <2> QED
    BY <1>0, <1>12, <2>1, <2>2, <1>r DEF TakeEvent
<1>13. ASSUME NEW k \in Connections, RoomJoined(k) PROVE Goal
  <2>1. answers' \in [Connections -> Seq(Answer)]
    BY <1>0, <1>13, <1>h DEF RoomJoined, Handled
  <2>2. astray' \in BOOLEAN /\ reopened' \in BOOLEAN
    BY <1>0, <1>13, <1>m DEF RoomJoined, RoomStored, Late
  <2>3. current_room' \in Rooms \cup {NoRoom}
    BY <1>0, <1>13 DEF RoomJoined, RoomStored
  <2>4. forward' \in [Connections -> {"none", "waiting", "working", "asking", "stopping",
                                      "clearing", "gone"}]
    BY <1>0, <1>13 DEF RoomJoined, Handled
  <2>5. joining' \in [Connections -> Rooms \cup {NoRoom}]
    BY <1>0, <1>13 DEF RoomJoined
  <2>6. UNCHANGED <<latest, held, call, establishing, ws_tx, ws_connected, tasks, cut,
                    group_join_pending, microphone_open, requests, at_server, room_calls>>
    BY <1>13 DEF RoomJoined
  <2> QED
    BY <1>0, <2>1, <2>2, <2>3, <2>4, <2>5, <2>6
<1>14. ASSUME NEW k \in Connections, UserMoved(k) PROVE Goal
  <2>1. answers' \in [Connections -> Seq(Answer)]
    BY <1>0, <1>14, <1>h DEF UserMoved, Handled
  <2> QED
    BY <1>0, <1>14, <2>1, <1>h, <1>m, <1>r DEF UserMoved, RoomStored, Handled, Late
<1>14b. ASSUME NEW k \in Connections, ForwardAsks(k) PROVE Goal
  <2>1. requests' \in [Connections -> Seq(Request)]
    BY <1>0, <1>14b, ConfiguredTypes DEF ForwardAsks
  <2>2. /\ forward' = [forward EXCEPT ![k] = "waiting"]
        /\ UNCHANGED <<latest, held, call, establishing, ws_tx, ws_connected, tasks, cut, joining,
                       client, answers, at_server, room_calls, excuses>>
    BY <1>14b DEF ForwardAsks
  <2> QED
    BY <1>0, <2>1, <2>2
<1>15. ASSUME NEW k \in Connections, PutOut(k) PROVE Goal
  BY <1>0, <1>15, <1>h, <1>m DEF PutOut, RoomLeft, Handled, Late
<1>15b. ASSUME NEW k \in Connections, ForwardStops(k) PROVE Goal
  <2>1. /\ forward' = [forward EXCEPT ![k] = "waiting"] /\ microphone_open' = FALSE
        /\ UNCHANGED <<latest, held, call, establishing, ws_tx, ws_connected, tasks, cut, joining,
                       current_room, group_join_pending, requests, answers, at_server,
                       room_calls, astray>>
    BY <1>15b DEF ForwardStops, CloseMicrophone, StopCaptureAndStream
  <2>2. reopened' \in BOOLEAN
    BY <1>15b, <1>m DEF ForwardStops, CloseMicrophone, StopCaptureAndStream
  <2> QED
    BY <1>0, <2>1, <2>2
<1>15c. ASSUME NEW k \in Connections, LossStops(k) PROVE Goal
  <2>1. /\ forward' = [forward EXCEPT ![k] = "clearing"] /\ microphone_open' = FALSE
        /\ UNCHANGED <<latest, held, call, establishing, ws_tx, ws_connected, tasks, cut, joining,
                       current_room, group_join_pending, requests, at_server, room_calls, astray>>
    BY <1>15c DEF LossStops, Handled, CloseMicrophone, StopCaptureAndStream
  <2>2. reopened' \in BOOLEAN
    BY <1>15c, <1>m DEF LossStops, CloseMicrophone, StopCaptureAndStream
  <2>3. answers' \in [Connections -> Seq(Answer)]
    BY <1>0, <1>15c, <1>h DEF LossStops, Handled
  <2> QED
    BY <1>0, <2>1, <2>2, <2>3
<1>15d. ASSUME NEW k \in Connections, LossClears(k) PROVE Goal
  BY <1>0, <1>15d DEF LossClears, Late
<1>16. ASSUME NEW k \in Connections, ForwardEnds(k) PROVE Goal
  BY <1>0, <1>16 DEF ForwardEnds, Ends
<1>17. ASSUME NEW k \in Connections, ServerLogin(k) PROVE Goal
  <2>1. requests' \in [Connections -> Seq(Request)]
    BY <1>17, ReceivedTypes DEF ServerLogin
  <2> QED
    BY <1>0, <1>17, <2>1 DEF ServerLogin, Received
<1>18. ASSUME NEW k \in Connections, ServerJoin(k) PROVE Goal
  <2>1. requests' \in [Connections -> Seq(Request)] /\ Head(requests[k]).room \in Rooms
    BY <1>18, <1>r, ReceivedTypes DEF ServerJoin
  <2>2. place' \in [Connections -> Rooms \cup {NoRoom}] /\ astray' \in BOOLEAN
    BY <1>0, <1>18, <2>1 DEF ServerJoin
  <2>3. UNCHANGED <<latest, held, call, establishing, ws_tx, ws_connected, tasks, events, client,
                    room_calls, reopened, session, answers>>
    BY <1>18 DEF ServerJoin, Received
  <2> QED
    BY <1>0, <2>1, <2>2, <2>3
<1>19. ASSUME NEW k \in Connections, ServerJoinGroup(k) PROVE Goal
  <2>1. requests' \in [Connections -> Seq(Request)] /\ Head(requests[k]).room \in Rooms
    BY <1>19, <1>r, ReceivedTypes DEF ServerJoinGroup
  <2>2. answers' \in [Connections -> Seq(Answer)]
    <3> HIDE DEF MCTypeOK
    <3> QED
      BY <1>0, <1>19, <2>1, <1>q, SendTypes DEF ServerJoinGroup
  <2>3. place' \in [Connections -> Rooms \cup {NoRoom}]
    BY <1>0, <1>19, <2>1 DEF ServerJoinGroup
  <2>4. UNCHANGED <<latest, held, call, establishing, ws_tx, ws_connected, tasks, events, client,
                    room_calls, reopened, session, astray>>
    BY <1>19 DEF ServerJoinGroup, Received
  <2> QED
    BY <1>0, <2>1, <2>2, <2>3, <2>4
<1>20. ASSUME NEW k \in Connections, ServerLeave(k) PROVE Goal
  <2>1. requests' \in [Connections -> Seq(Request)]
    BY <1>20, ReceivedTypes DEF ServerLeave
  <2> QED
    BY <1>0, <1>20, <2>1 DEF ServerLeave, Received
<1>21. ASSUME NEW k \in Connections, ServerConfig(k) PROVE Goal
  <2>1. requests' \in [Connections -> Seq(Request)]
    BY <1>21, ReceivedTypes DEF ServerConfig
  <2>2. answers' \in [Connections -> Seq(Answer)]
    <3> HIDE DEF MCTypeOK
    <3> QED
      BY <1>0, <1>21, <2>1, <1>q, SendTypes DEF ServerConfig
  <2> QED
    BY <1>0, <1>21, <2>1, <2>2 DEF ServerConfig, Received
<1>22. ASSUME NEW k \in Connections, Decides(k) PROVE Goal
  <2>1. answers' \in [Connections -> Seq(Answer)]
    <3> HIDE DEF MCTypeOK
    <3> QED
      BY <1>0, <1>22, <1>q, SendTypes DEF Decides
  <2>2. astray' \in BOOLEAN
    BY <1>22, <1>0 DEF Decides, OnItsWay
  <2>3. session' \in [Connections -> BOOLEAN] /\ place' \in [Connections -> Rooms \cup {NoRoom}]
    <3>1. \/ \E r \in Rooms : place' = [place EXCEPT ![k] = r] /\ UNCHANGED session
          \/ session' = [session EXCEPT ![k] = FALSE] /\ place' = [place EXCEPT ![k] = NoRoom]
      BY <1>22 DEF Decides
    <3> QED
      BY <1>0, <3>1
  <2>4. room_calls' \in 0 .. MaxRoomCalls
    BY <1>22, <1>c DEF Decides
  <2> QED
    BY <1>0, <1>22, <2>1, <2>2, <2>3, <2>4 DEF Decides
<1>23. ASSUME UNCHANGED mcVars PROVE Goal
  BY <1>0, <1>23 DEF mcVars
<1> HIDE DEF Goal
<1>24. Goal
  BY <1>1, <1>1b, <1>2, <1>2b, <1>3, <1>3b, <1>3c, <1>4, <1>4b, <1>4c, <1>5, <1>6, <1>7, <1>8,
     <1>9, <1>10, <1>11, <1>12, <1>13, <1>14, <1>14b, <1>15, <1>15b, <1>15c, <1>15d, <1>16, <1>17,
     <1>18, <1>19, <1>20, <1>21, <1>22, <1>23 DEF MCNext
<1> QED
  BY <1>24 DEF Goal

LEMMA ConnectionsStep ==
  MobileTypes /\ ConnectionsInv /\ HandlingInv /\ [MCNext]_mcVars => ConnectionsInv'
<1> SUFFICES ASSUME MobileTypes, ConnectionsInv, HandlingInv, [MCNext]_mcVars PROVE ConnectionsInv'
  OBVIOUS
<1>0. /\ MCTypeOK
      /\ requests \in [Connections -> Seq(Request)] /\ answers \in [Connections -> Seq(Answer)]
  BY DEF MobileTypes
<1>n. Connections \subseteq Nat \ {0} /\ NoLink \notin Connections
  BY MobileAssumption
<1> DEFINE Goal == ConnectionsInv'
<1> USE DEF MCTypeOK, client, call, tasks, events, at_server, excuses, ConnectionsInv, Unopened
<1>z. ASSUME UNCHANGED <<latest, held, ws_tx, establishing, cut>>,
             host' = "clearing" => held,
             host' = "connecting" => ~held /\ latest + 1 \in Connections,
             host' = "storing" => entering' # NoRoom,
             \A k \in Connections :
               /\ receive_task'[k] = receive_task[k]
               /\ \/ forward'[k] = forward[k]
                  \/ forward[k] # "none" /\ forward'[k] \in Running \ {"clearing"}
                  \/ /\ forward[k] # "none" /\ forward'[k] = "clearing"
                     /\ establishing[k] \notin {"none", "opening"}
               /\ establishing[k] \in {"none", "opening"} => Unopened(k)'
      PROVE  Goal
  BY <1>0, <1>n, <1>z DEF Running
<1>p. ASSUME UNCHANGED <<latest, held, ws_tx, establishing, cut, host, entering>>,
             \A k \in Connections :
               /\ receive_task'[k] = receive_task[k]
               /\ \/ forward'[k] = forward[k]
                  \/ forward[k] # "none" /\ forward'[k] \in Running \ {"clearing"}
                  \/ /\ forward[k] # "none" /\ forward'[k] = "clearing"
                     /\ establishing[k] \notin {"none", "opening"}
               /\ establishing[k] \in {"none", "opening"} => Unopened(k)'
      PROVE  Goal
  BY <1>p, <1>z
<1>s. ASSUME NEW k \in Connections, NEW kind, Received(k, kind),
             NEW m, Send(k, m) \/ UNCHANGED answers,
             NEW r, place' = [place EXCEPT ![k] = r] \/ UNCHANGED place
      PROVE  Goal
  <2>1. requests' = [requests EXCEPT ![k] = Tail(@)] /\ requests[k] # <<>> /\ receive_task[k]
    BY <1>s DEF Received
  <2>2. \A c \in Connections : establishing[c] \in {"none", "opening"} => c # k
    BY <2>1
  <2>3. \A c \in Connections : c # k =>
          /\ answers'[c] = answers[c]
          /\ requests'[c] = requests[c]
          /\ place'[c] = place[c]
    BY <1>0, <1>s, <2>1 DEF Send
  <2> QED
    BY <1>0, <1>p, <1>s, <2>2, <2>3 DEF Received
<1>1. ASSUME TcConnect PROVE Goal
  BY <1>z, <1>1 DEF TcConnect, StopsFirst
<1>1b. ASSUME ConnectStarts PROVE Goal
  <2>1. /\ latest' = latest + 1 /\ latest' \in Connections /\ held' /\ ws_tx' = NoLink
        /\ UNCHANGED <<requests, answers, place, receive_task, cut>>
        /\ establishing' = [establishing EXCEPT ![latest'] = "opening"]
        /\ forward' = [forward EXCEPT ![latest'] = "waiting"]
    BY <1>1b DEF ConnectStarts, Cleared
  <2>2. establishing[latest'] = "none" /\ latest \in Nat
    BY <1>0, <1>n, <2>1
  <2>3. host' = "idle"
    BY <1>1b DEF ConnectStarts, Cleared
  <2> QED
    BY <1>0, <1>n, <2>1, <2>2, <2>3 DEF Running
<1>2. ASSUME TcDisconnect PROVE Goal
  BY <1>z, <1>2 DEF TcDisconnect, StopsFirst
<1>2b. ASSUME DisconnectClears PROVE Goal
  <2>1. /\ ~held' /\ ws_tx' = NoLink
        /\ cut' \subseteq cut \cup {latest} /\ latest \in Connections
        /\ UNCHANGED <<requests, answers, place, receive_task, latest, establishing>>
    BY <1>2b DEF DisconnectClears, Cleared, Aborted
  <2>2. forward' = [forward EXCEPT ![latest] = "gone"] \/ UNCHANGED forward
    BY <1>2b DEF DisconnectClears, Aborted, Ends
  <2>3. forward[latest] # "none" /\ host' = "idle"
    BY <1>2b DEF DisconnectClears, Cleared, Running
  <2> QED
    BY <1>0, <1>n, <2>1, <2>2, <2>3
<1>w. ASSUME ws_tx \in Connections, NEW msgs, requests' = [requests EXCEPT ![ws_tx] = msgs]
      PROVE  \A k \in Connections : establishing[k] \in {"none", "opening"} => requests'[k] = <<>>
  BY <1>0, <1>n, <1>w
<1>3. ASSUME TcLeaveRoom PROVE Goal
  <2>1. \A k \in Connections : establishing[k] \in {"none", "opening"} => requests'[k] = <<>>
    BY <1>0, <1>3, <1>w DEF TcLeaveRoom, SendWs
  <2> QED
    BY <1>z, <1>3, <2>1 DEF TcLeaveRoom
<1>3b. ASSUME LeaveClears PROVE Goal
  BY <1>z, <1>3b DEF LeaveClears
<1>3c. ASSUME LeaveStops PROVE Goal
  BY <1>z, <1>3c DEF LeaveStops
<1>4. ASSUME NEW r \in Rooms, TcJoinRoom(r) PROVE Goal
  <2>1. \A k \in Connections : establishing[k] \in {"none", "opening"} => requests'[k] = <<>>
    BY <1>0, <1>4, <1>w DEF TcJoinRoom, SendWs
  <2> QED
    BY <1>n, <1>z, <1>4, <2>1, MobileAssumption DEF TcJoinRoom
<1>4b. ASSUME JoinStores PROVE Goal
  BY <1>z, <1>4b DEF JoinStores
<1>4c. ASSUME JoinAsks PROVE Goal
  <2>1. \A k \in Connections : establishing[k] \in {"none", "opening"} => requests'[k] = <<>>
    BY <1>0, <1>4c, <1>w DEF JoinAsks, Configured
  <2> QED
    BY <1>z, <1>4c, <2>1 DEF JoinAsks
<1>5. ASSUME NEW r \in Rooms, TcJoinGroupRoom(r) PROVE Goal
  <2>1. \A k \in Connections : establishing[k] \in {"none", "opening"} => requests'[k] = <<>>
    BY <1>0, <1>5, <1>w DEF TcJoinGroupRoom, SendWs
  <2> QED
    BY <1>p, <1>5, <2>1 DEF TcJoinGroupRoom
<1>6. ASSUME NEW k \in Connections, ConnectionOpens(k) PROVE Goal
  <2>1. /\ establishing[k] = "opening" /\ establishing' = [establishing EXCEPT ![k] = "open"]
        /\ ws_tx' = k /\ receive_task' = [receive_task EXCEPT ![k] = TRUE]
        /\ UNCHANGED <<latest, held, host, entering, forward, cut, requests, answers, place>>
    BY <1>6 DEF ConnectionOpens
  <2> QED
    BY <1>0, <1>n, <2>1
<1>7. ASSUME NEW k \in Connections, ConnectFails(k) PROVE Goal
  BY <1>0, <1>n, <1>7 DEF ConnectFails
<1>8. ASSUME NEW k \in Connections, SendLogin(k) PROVE Goal
  <2>1. \A c \in Connections : establishing[c] \in {"none", "opening"} => requests'[c] = <<>>
    BY <1>0, <1>8, <1>w DEF SendLogin, SendWs
  <2>2. /\ establishing[k] = "open" /\ establishing' = [establishing EXCEPT ![k] = "done"]
        /\ UNCHANGED <<ws_tx, receive_task, latest, held, host, entering, forward, cut, answers,
                       place>>
    BY <1>8 DEF SendLogin
  <2> QED
    BY <1>0, <1>n, <2>1, <2>2
<1>9. ASSUME NEW k \in Connections, SenderEnds(k) PROVE Goal
  BY <1>0, <1>n, <1>9 DEF SenderEnds
<1>10. ASSUME NEW k \in Connections, ConnectionLost(k) PROVE Goal
  <2>1. /\ receive_task[k] /\ receive_task' = [receive_task EXCEPT ![k] = FALSE] /\ ws_tx' = NoLink
        /\ UNCHANGED <<latest, held, host, entering, forward, cut, establishing>>
    BY <1>10 DEF ConnectionLost
  <2>2. \A c \in Connections : c # k =>
          /\ answers'[c] = answers[c]
          /\ requests'[c] = requests[c]
          /\ place'[c] = place[c]
    BY <1>0, <1>10 DEF ConnectionLost, Send
  <2>3. \A c \in Connections : establishing[c] \in {"none", "opening"} => c # k
    BY <2>1
  <2> QED
    BY <1>0, <1>n, <2>1, <2>2, <2>3
<1>11. ASSUME NEW k \in Connections, AckArrives(k) PROVE Goal
  <2>1. answers[k] # <<>> /\ \A c \in Connections : c # k => answers'[c] = answers[c]
    BY <1>0, <1>11 DEF AckArrives
  <2> QED
    BY <1>p, <1>11, <2>1 DEF AckArrives
<1>12. ASSUME NEW k \in Connections, TakeEvent(k) PROVE Goal
  BY <1>0, <1>p, <1>12 DEF TakeEvent, Running
<1>x. ASSUME NEW k \in Connections, forward[k] = "working",
             NEW then \in Running, Handled(k, then),
             UNCHANGED <<latest, held, host, entering, ws_tx, establishing, cut, receive_task,
                         requests, place>>
      PROVE  Goal
  <2>2. \A c \in Connections : establishing[c] \in {"none", "opening"} => c # k \/ answers[c] = <<>>
    OBVIOUS
  <2>3. \A c \in Connections : c # k => answers'[c] = answers[c]
    BY <1>0, <1>x DEF Handled
  <2>4. answers[k] # <<>>
    BY <1>x DEF HandlingInv
  <2>5. establishing[k] \notin {"none", "opening"}
    BY <2>4
  <2> QED
    BY <1>0, <1>p, <1>x, <2>2, <2>3, <2>4, <2>5 DEF Handled
<1>f. ASSUME NEW k \in Connections, forward[k] \in Running,
             forward' = [forward EXCEPT ![k] = "waiting"],
             UNCHANGED <<latest, held, host, entering, ws_tx, establishing, cut, receive_task,
                         answers, place>>,
             requests' = Configured \/ UNCHANGED requests
      PROVE  Goal
  <2>1. \A c \in Connections : establishing[c] \in {"none", "opening"} => requests'[c] = <<>>
    BY <1>0, <1>f, <1>w DEF Configured
  <2> QED
    BY <1>0, <1>p, <1>f, <2>1 DEF Running
<1>13. ASSUME NEW k \in Connections, RoomJoined(k) PROVE Goal
  <2>1. "waiting" \in Running /\ "asking" \in Running
    BY DEF Running
  <2> QED
    BY <1>x, <1>13, <2>1 DEF RoomJoined
<1>14. ASSUME NEW k \in Connections, UserMoved(k) PROVE Goal
  <2>1. "asking" \in Running
    BY DEF Running
  <2> QED
    BY <1>x, <1>14, <2>1 DEF UserMoved
<1>14b. ASSUME NEW k \in Connections, ForwardAsks(k) PROVE Goal
  BY <1>f, <1>14b DEF ForwardAsks, Running
<1>15. ASSUME NEW k \in Connections, PutOut(k) PROVE Goal
  <2>1. "stopping" \in Running
    BY DEF Running
  <2> QED
    BY <1>x, <1>15, <2>1 DEF PutOut
<1>15b. ASSUME NEW k \in Connections, ForwardStops(k) PROVE Goal
  BY <1>f, <1>15b DEF ForwardStops, Running
<1>15c. ASSUME NEW k \in Connections, LossStops(k) PROVE Goal
  <2>1. "clearing" \in Running
    BY DEF Running
  <2> QED
    BY <1>x, <1>15c, <2>1 DEF LossStops
<1>15d. ASSUME NEW k \in Connections, LossClears(k) PROVE Goal
  BY <1>f, <1>15d DEF LossClears, Running
<1>16. ASSUME NEW k \in Connections, ForwardEnds(k) PROVE Goal
  BY <1>0, <1>n, <1>16 DEF ForwardEnds, Ends
<1>17. ASSUME NEW k \in Connections, ServerLogin(k) PROVE Goal
  BY <1>s, <1>17 DEF ServerLogin
<1>18. ASSUME NEW k \in Connections, ServerJoin(k) PROVE Goal
  BY <1>s, <1>18 DEF ServerJoin
<1>19. ASSUME NEW k \in Connections, ServerJoinGroup(k) PROVE Goal
  BY <1>s, <1>19 DEF ServerJoinGroup
<1>20. ASSUME NEW k \in Connections, ServerLeave(k) PROVE Goal
  BY <1>s, <1>20 DEF ServerLeave
<1>21. ASSUME NEW k \in Connections, ServerConfig(k) PROVE Goal
  BY <1>s, <1>21 DEF ServerConfig
<1>22. ASSUME NEW k \in Connections, Decides(k) PROVE Goal
  <2>1. \A c \in Connections : c # k => answers'[c] = answers[c] /\ place'[c] = place[c]
    BY <1>0, <1>22 DEF Decides, Send
  <2> QED
    BY <1>p, <1>22, <2>1 DEF Decides
<1>23. ASSUME UNCHANGED mcVars PROVE Goal
  BY <1>p, <1>23 DEF mcVars
<1> HIDE DEF Goal
<1>24. Goal
  BY <1>1, <1>1b, <1>2, <1>2b, <1>3, <1>3b, <1>3c, <1>4, <1>4b, <1>4c, <1>5, <1>6, <1>7, <1>8,
     <1>9, <1>10, <1>11, <1>12, <1>13, <1>14, <1>14b, <1>15, <1>15b, <1>15c, <1>15d, <1>16, <1>17,
     <1>18, <1>19, <1>20, <1>21, <1>22, <1>23 DEF MCNext
<1> QED
  BY <1>24 DEF Goal

LEMMA HeadStays ==
  ASSUME NEW T, NEW s \in Seq(T), s # <<>>, NEW m \in T
  PROVE  Append(s, m) # <<>> /\ Head(Append(s, m)) = Head(s)
<1>1. Len(s) \in Nat \ {0} /\ Head(s) = s[1]
  OBVIOUS
<1>2. Append(s, m) \in Seq(T) /\ Len(Append(s, m)) = Len(s) + 1 /\ Append(s, m)[1] = s[1]
  BY <1>1
<1>3. Append(s, m) # <<>>
  BY <1>1, <1>2
<1> QED
  BY <1>1, <1>2, <1>3

LEMMA HandlingStep ==
  MobileTypes /\ ConnectionsInv /\ HandlingInv /\ [MCNext]_mcVars => HandlingInv'
<1> SUFFICES ASSUME MobileTypes, ConnectionsInv, HandlingInv, [MCNext]_mcVars PROVE HandlingInv'
  OBVIOUS
<1>0. MCTypeOK /\ answers \in [Connections -> Seq(Answer)]
  BY DEF MobileTypes
<1>q. /\ \A r \in Rooms : /\ [kind |-> "joined", room |-> r] \in Answer
                         /\ [kind |-> "moved", room |-> r] \in Answer
      /\ [kind |-> "ack"] \in Answer /\ [kind |-> "lost"] \in Answer
      /\ [kind |-> "kicked"] \in Answer
  BY DEF Answer
<1> DEFINE Goal == HandlingInv'
           Same == \A k \in Connections : answers[k] # <<>> =>
                     answers'[k] # <<>> /\ Head(answers'[k]) = Head(answers[k])
<1> USE DEF MCTypeOK, client, call, tasks, events, at_server, excuses, HandlingInv
<1>p. ASSUME forward' = forward, joining' = joining, Same PROVE Goal
  BY <1>p
<1>s. ASSUME NEW k \in Connections, NEW m \in Answer, Send(k, m) PROVE Same
  <2> SUFFICES ASSUME NEW c \in Connections, answers[c] # <<>>
               PROVE  answers'[c] # <<>> /\ Head(answers'[c]) = Head(answers[c])
    OBVIOUS
  <2>1. answers'[c] = answers[c] \/ answers'[c] = Append(answers[c], m)
    BY <1>0, <1>s DEF Send
  <2>2. Append(answers[c], m) # <<>> /\ Head(Append(answers[c], m)) = Head(answers[c])
    BY <1>0, HeadStays
  <2> QED
    BY <2>1, <2>2
<1>g. ASSUME NEW k, Ends(k), answers' = answers PROVE Goal
  BY <1>0, <1>g DEF Ends
<1>1. ASSUME TcConnect PROVE Goal
  BY <1>p, <1>1 DEF TcConnect, StopsFirst
<1>1b. ASSUME ConnectStarts PROVE Goal
  <2>1. latest' \in Connections /\ forward' = [forward EXCEPT ![latest'] = "waiting"]
    BY <1>1b DEF ConnectStarts, ConnectionsInv
  <2>2. joining[latest'] = NoRoom
    <3>1. establishing[latest'] = "none"
      BY <1>0, <1>1b, <2>1, MobileAssumption DEF ConnectionsInv, ConnectStarts
    <3> QED
      BY <2>1, <3>1 DEF ConnectionsInv
  <2> QED
    BY <1>0, <1>1b, <2>1, <2>2 DEF ConnectStarts
<1>2. ASSUME TcDisconnect PROVE Goal
  BY <1>p, <1>2 DEF TcDisconnect, StopsFirst
<1>2b. ASSUME DisconnectClears PROVE Goal
  BY <1>p, <1>g, <1>2b DEF DisconnectClears, Aborted
<1>3. ASSUME TcLeaveRoom PROVE Goal
  BY <1>p, <1>3 DEF TcLeaveRoom
<1>3b. ASSUME LeaveClears PROVE Goal
  BY <1>p, <1>3b DEF LeaveClears
<1>3c. ASSUME LeaveStops PROVE Goal
  BY <1>p, <1>3c DEF LeaveStops
<1>4. ASSUME NEW r \in Rooms, TcJoinRoom(r) PROVE Goal
  BY <1>p, <1>4 DEF TcJoinRoom
<1>4b. ASSUME JoinStores PROVE Goal
  BY <1>p, <1>4b DEF JoinStores
<1>4c. ASSUME JoinAsks PROVE Goal
  BY <1>p, <1>4c DEF JoinAsks
<1>5. ASSUME NEW r \in Rooms, TcJoinGroupRoom(r) PROVE Goal
  BY <1>p, <1>5 DEF TcJoinGroupRoom
<1>6. ASSUME NEW k \in Connections, ConnectionOpens(k) PROVE Goal
  BY <1>p, <1>6 DEF ConnectionOpens
<1>7. ASSUME NEW k \in Connections, ConnectFails(k) PROVE Goal
  BY <1>p, <1>7 DEF ConnectFails
<1>8. ASSUME NEW k \in Connections, SendLogin(k) PROVE Goal
  BY <1>p, <1>8 DEF SendLogin
<1>9. ASSUME NEW k \in Connections, SenderEnds(k) PROVE Goal
  BY <1>p, <1>9 DEF SenderEnds
<1>10. ASSUME NEW k \in Connections, ConnectionLost(k) PROVE Goal
  BY <1>p, <1>q, <1>s, <1>10 DEF ConnectionLost
<1>11. ASSUME NEW k \in Connections, AckArrives(k) PROVE Goal
  <2> PICK i \in DOMAIN answers[k] :
        answers[k][i].kind = "ack" /\ answers' = [answers EXCEPT ![k] = RemoveAt(@, i)]
    BY <1>11 DEF AckArrives
  <2>1. ASSUME forward[k] = "working"
        PROVE  /\ RemoveAt(answers[k], i) # <<>>
               /\ Head(RemoveAt(answers[k], i)) = Head(answers[k])
    <3>1. answers[k] \in Seq(Answer) /\ i \in 1..Len(answers[k]) /\ Head(answers[k]) = answers[k][1]
      BY <1>0, <2>1
    <3>2. i > 1
      BY <2>1, <3>1
    <3> QED
      BY <3>1, <3>2 DEF RemoveAt
  <2> QED
    BY <1>0, <1>11, <2>1 DEF AckArrives
<1>12. ASSUME NEW k \in Connections, TakeEvent(k) PROVE Goal
  BY <1>0, <1>12 DEF TakeEvent
<1>x. ASSUME NEW k \in Connections, NEW then \in Running \ {"working"}, Handled(k, then),
             joining' = [joining EXCEPT ![k] = NoRoom]
      PROVE  Goal
  BY <1>0, <1>x DEF Handled
<1>t. /\ "waiting" \in Running \ {"working"} /\ "asking" \in Running \ {"working"}
      /\ "stopping" \in Running \ {"working"} /\ "clearing" \in Running \ {"working"}
  BY DEF Running
<1>13. ASSUME NEW k \in Connections, RoomJoined(k) PROVE Goal
  BY <1>t, <1>x, <1>13 DEF RoomJoined
<1>y. ASSUME NEW k \in Connections, forward[k] = "working", Head(answers[k]).kind # "joined",
             NEW then \in Running \ {"working"}, Handled(k, then), UNCHANGED joining
      PROVE  Goal
  <2>1. joining' = [joining EXCEPT ![k] = NoRoom]
    BY <1>0, <1>y
  <2> QED
    BY <1>x, <1>y, <2>1
<1>14. ASSUME NEW k \in Connections, UserMoved(k) PROVE Goal
  BY <1>t, <1>y, <1>14 DEF UserMoved
<1>w. ASSUME NEW k \in Connections, forward[k] # "working",
             forward' = [forward EXCEPT ![k] = "waiting"], UNCHANGED <<joining, answers>>
      PROVE  Goal
  BY <1>0, <1>w
<1>14b. ASSUME NEW k \in Connections, ForwardAsks(k) PROVE Goal
  BY <1>w, <1>14b DEF ForwardAsks
<1>15. ASSUME NEW k \in Connections, PutOut(k) PROVE Goal
  BY <1>t, <1>y, <1>15 DEF PutOut
<1>15b. ASSUME NEW k \in Connections, ForwardStops(k) PROVE Goal
  BY <1>w, <1>15b DEF ForwardStops
<1>15c. ASSUME NEW k \in Connections, LossStops(k) PROVE Goal
  BY <1>t, <1>y, <1>15c DEF LossStops
<1>15d. ASSUME NEW k \in Connections, LossClears(k) PROVE Goal
  BY <1>w, <1>15d DEF LossClears
<1>16. ASSUME NEW k \in Connections, ForwardEnds(k) PROVE Goal
  BY <1>g, <1>16 DEF ForwardEnds
<1>17. ASSUME NEW k \in Connections, ServerLogin(k) PROVE Goal
  BY <1>p, <1>17 DEF ServerLogin, Received
<1>18. ASSUME NEW k \in Connections, ServerJoin(k) PROVE Goal
  BY <1>p, <1>18 DEF ServerJoin, Received
<1>19. ASSUME NEW k \in Connections, ServerJoinGroup(k) PROVE Goal
  <2>1. Head(requests[k]).room \in Rooms
    BY <1>19, ReceivedTypes DEF ServerJoinGroup, Request
  <2> QED
    BY <1>p, <1>q, <1>s, <1>19, <2>1 DEF ServerJoinGroup, Received
<1>20. ASSUME NEW k \in Connections, ServerLeave(k) PROVE Goal
  BY <1>p, <1>20 DEF ServerLeave, Received
<1>21. ASSUME NEW k \in Connections, ServerConfig(k) PROVE Goal
  BY <1>p, <1>q, <1>s, <1>21 DEF ServerConfig, Received
<1>22. ASSUME NEW k \in Connections, Decides(k) PROVE Goal
  BY <1>p, <1>q, <1>s, <1>22 DEF Decides
<1>23. ASSUME UNCHANGED mcVars PROVE Goal
  BY <1>p, <1>23 DEF mcVars
<1> HIDE DEF Goal
<1>24. Goal
  BY <1>1, <1>1b, <1>2, <1>2b, <1>3, <1>3b, <1>3c, <1>4, <1>4b, <1>4c, <1>5, <1>6, <1>7, <1>8,
     <1>9, <1>10, <1>11, <1>12, <1>13, <1>14, <1>14b, <1>15, <1>15b, <1>15c, <1>15d, <1>16, <1>17,
     <1>18, <1>19, <1>20, <1>21, <1>22, <1>23 DEF MCNext
<1> QED
  BY <1>24 DEF Goal

LEMMA MobileInit == MCInit => MobileTypes /\ ConnectionsInv /\ HandlingInv
<1> SUFFICES ASSUME MCInit PROVE MobileTypes /\ ConnectionsInv /\ HandlingInv
  OBVIOUS
<1>1. MobileTypes
  <2>1. <<>> \in Seq(Request) /\ <<>> \in Seq(Answer)
    OBVIOUS
  <2>2. requests \in [Connections -> Seq(Request)] /\ answers \in [Connections -> Seq(Answer)]
    BY <2>1 DEF MCInit
  <2>3. \A k \in Connections : requests[k] \in Seq(Request) /\ answers[k] \in Seq(Answer)
    BY <2>2
  <2>4. room_calls \in 0 .. MaxRoomCalls
    BY MobileAssumption DEF MCInit
  <2>5. MCTypeOK
    BY <2>3, <2>4 DEF MCInit, MCTypeOK
  <2> QED
    BY <2>2, <2>5 DEF MobileTypes
<1>2. ConnectionsInv
  BY MobileAssumption DEF MCInit, ConnectionsInv, Unopened
<1>3. HandlingInv
  BY DEF MCInit, HandlingInv
<1> QED
  BY <1>1, <1>2, <1>3

(* The types of MobileCore, for any number of connections and rooms. *)
THEOREM MobileCoreTypes == MCSpec => []MCTypeOK
<1>1. MobileTypes => MCTypeOK
  BY DEF MobileTypes
<1> QED
  BY <1>1, MobileInit, MobileTypeStep, ConnectionsStep, HandlingStep, PTL DEF MCSpec

----------------------------------------------------------------------------
(* The mobile library: the microphone *)

(* In no room nobody asks for the microphone, and when a room is about to be
   cleared the microphone is neither open nor asked for. *)
MicrophoneInv ==
  /\ MicrophoneInRoom
  /\ current_room = NoRoom /\ Asking => reopened
  /\ Clearing /\ (microphone_open \/ Asking) => reopened

LEMMA NotAskedAgain ==
  ASSUME requests \in [Connections -> Seq(Request)], answers \in [Connections -> Seq(Answer)],
         \A k \in Connections : \A i \in 1..Len(requests'[k]) :
           requests'[k][i].kind = "config" => Asking,
         \A k \in Connections : \A i \in 1..Len(answers'[k]) :
           answers'[k][i].kind = "ack" => Asking,
         requests' \in [Connections -> Seq(Request)], answers' \in [Connections -> Seq(Answer)]
  PROVE  MicrophoneAskedFor' => Asking
<1> SUFFICES ASSUME MicrophoneAskedFor' PROVE Asking
  OBVIOUS
<1>1. CASE OnItsWay(requests, Asked)'
  <2> PICK k \in Connections : \E i \in DOMAIN requests'[k] : Asked(requests[k][i])'
    BY <1>1 DEF OnItsWay, Asked
  <2> PICK i \in DOMAIN requests'[k] : Asked(requests[k][i])'
    OBVIOUS
  <2> QED
    BY DEF Asked
<1>2. CASE OnItsWay(answers, Answered)'
  <2> PICK k \in Connections : \E i \in DOMAIN answers'[k] : Answered(answers[k][i])'
    BY <1>2 DEF OnItsWay, Answered
  <2> PICK i \in DOMAIN answers'[k] : Answered(answers[k][i])'
    OBVIOUS
  <2> QED
    BY DEF Answered
<1> QED
  BY <1>1, <1>2 DEF MicrophoneAskedFor

LEMMA TailElements ==
  ASSUME NEW T, NEW s \in Seq(T), s # <<>>
  PROVE  /\ Tail(s) \in Seq(T) /\ Len(Tail(s)) = Len(s) - 1 /\ Len(s) \in Nat \ {0}
         /\ Head(s) = s[1]
         /\ \A i \in 1..Len(Tail(s)) : i + 1 \in 1..Len(s) /\ Tail(s)[i] = s[i + 1]
OBVIOUS

LEMMA AskedMeans ==
  ASSUME NEW k \in Connections
  PROVE  /\ \A i \in DOMAIN requests[k] : requests[k][i].kind = "config" => Asking
         /\ \A i \in DOMAIN answers[k] : answers[k][i].kind = "ack" => Asking
BY DEF Asking, MicrophoneAskedFor, OnItsWay, Asked, Answered

LEMMA MicrophoneStep ==
  MobileTypes /\ MobileTypes' /\ ConnectionsInv /\ HandlingInv /\ MicrophoneInv /\ [MCNext]_mcVars
    => MicrophoneInv'
<1> SUFFICES ASSUME MobileTypes, MobileTypes', ConnectionsInv, HandlingInv, MicrophoneInv,
                    [MCNext]_mcVars
             PROVE  MicrophoneInv'
  OBVIOUS
<1>0. /\ MCTypeOK /\ MCTypeOK'
      /\ requests \in [Connections -> Seq(Request)] /\ answers \in [Connections -> Seq(Answer)]
      /\ requests' \in [Connections -> Seq(Request)] /\ answers' \in [Connections -> Seq(Answer)]
  BY DEF MobileTypes
<1> DEFINE Goal == MicrophoneInv'
           NoneNew == MicrophoneAskedFor' => Asking
           RequestsOld == \A k \in Connections : \A i \in 1..Len(requests'[k]) :
                            requests'[k][i].kind = "config" => Asking
           AnswersOld == \A k \in Connections : \A i \in 1..Len(answers'[k]) :
                           answers'[k][i].kind = "ack" => Asking
<1> USE DEF client, call, tasks, events, at_server, excuses
<1>n. RequestsOld /\ AnswersOld => NoneNew
  BY <1>0, NotAskedAgain
<1>r. UNCHANGED requests => RequestsOld
  BY <1>0, AskedMeans
<1>a. UNCHANGED answers => AnswersOld
  BY <1>0, AskedMeans
<1>w. ASSUME NEW m \in Request, SendWs(<<m>>), m.kind # "config" PROVE RequestsOld
  <2> SUFFICES ASSUME NEW k \in Connections, NEW i \in 1..Len(requests'[k]),
                      requests'[k][i].kind = "config"
               PROVE  Asking
    OBVIOUS
  <2>1. /\ requests[k] \in Seq(Request)
        /\ requests'[k] = requests[k] \/ requests'[k] = requests[k] \o <<m>>
    BY <1>0, <1>w DEF SendWs
  <2>2. i \in 1..Len(requests[k]) /\ requests'[k][i] = requests[k][i]
    BY <1>w, <2>1
  <2> QED
    BY <2>1, <2>2, AskedMeans
<1>v. ASSUME NEW k \in Connections, NEW kind, Received(k, kind) PROVE RequestsOld
  <2> SUFFICES ASSUME NEW c \in Connections, NEW i \in 1..Len(requests'[c]),
                      requests'[c][i].kind = "config"
               PROVE  Asking
    OBVIOUS
  <2>1. /\ requests[c] \in Seq(Request)
        /\ requests'[c] = requests[c] \/ (requests'[c] = Tail(requests[c]) /\ requests[c] # <<>>)
    BY <1>0, <1>v DEF Received
  <2>2. \/ i \in 1..Len(requests[c]) /\ requests'[c][i] = requests[c][i]
        \/ i + 1 \in 1..Len(requests[c]) /\ requests'[c][i] = requests[c][i + 1]
    BY <2>1, TailElements
  <2> QED
    BY <2>1, <2>2, AskedMeans
<1>s. ASSUME NEW k \in Connections, NEW m \in Answer, Send(k, m),
             m.kind = "ack" => Asking
      PROVE  AnswersOld
  <2> SUFFICES ASSUME NEW c \in Connections, NEW i \in 1..Len(answers'[c]),
                      answers'[c][i].kind = "ack"
               PROVE  Asking
    OBVIOUS
  <2>1. /\ answers[c] \in Seq(Answer)
        /\ answers'[c] = answers[c] \/ answers'[c] = Append(answers[c], m)
    BY <1>0, <1>s DEF Send
  <2>2. \/ i \in 1..Len(answers[c]) /\ answers'[c][i] = answers[c][i]
        \/ answers'[c][i] = m
    BY <2>1
  <2> QED
    BY <1>s, <2>1, <2>2, AskedMeans
<1>h. ASSUME NEW k \in Connections, forward[k] = "working", NEW then, Handled(k, then)
      PROVE  AnswersOld
  <2> SUFFICES ASSUME NEW c \in Connections, NEW i \in 1..Len(answers'[c]),
                      answers'[c][i].kind = "ack"
               PROVE  Asking
    OBVIOUS
  <2>1. /\ answers[c] \in Seq(Answer)
        /\ answers'[c] = answers[c] \/ (answers'[c] = Tail(answers[c]) /\ answers[c] # <<>>)
    BY <1>0, <1>h DEF Handled, HandlingInv
  <2>2. \/ i \in 1..Len(answers[c]) /\ answers'[c][i] = answers[c][i]
        \/ i + 1 \in 1..Len(answers[c]) /\ answers'[c][i] = answers[c][i + 1]
    BY <2>1, TailElements
  <2> QED
    BY <2>1, <2>2, AskedMeans
<1>q. /\ [kind |-> "leave"] \in Request /\ [kind |-> "login"] \in Request
      /\ \A r \in Rooms : /\ [kind |-> "group", room |-> r] \in Request
                         /\ [kind |-> "join", room |-> r] \in Request
      /\ \A r \in Rooms : /\ [kind |-> "joined", room |-> r] \in Answer
                         /\ [kind |-> "moved", room |-> r] \in Answer
      /\ [kind |-> "kicked"] \in Answer
      /\ [kind |-> "lost"] \in Answer
      /\ [kind |-> "ack"] \in Answer
  BY DEF Request, Answer
<1>k. ASSUME Asking, requests' = Configured PROVE RequestsOld
  BY <1>k
<1> HIDE DEF RequestsOld, AnswersOld, NoneNew
<1>u. ASSUME NoneNew, host' = host \/ host' # "asking",
             \A k \in Connections : forward'[k] = forward[k] \/ forward'[k] # "asking"
      PROVE  Asking' => Asking
  BY <1>u DEF Asking, NoneNew
<1>y. ASSUME host' = host \/ host' \notin {"clearing", "connecting"},
             \A k \in Connections : forward'[k] = forward[k] \/ forward'[k] # "clearing"
      PROVE  Clearing' => Clearing
  BY <1>y DEF Clearing
<1>z. ASSUME host' = host \/ host # "stopping",
             \A k \in Connections : forward'[k] = forward[k] \/ forward[k] # "stopping"
      PROVE  Stopping => Stopping'
  BY <1>z DEF Stopping
<1>p. ASSUME NoneNew, UNCHANGED <<current_room, microphone_open, reopened>>,
             \/ host' = host
             \/ host' \notin {"asking", "clearing", "connecting"} /\ host # "stopping",
             \A k \in Connections :
               \/ forward'[k] = forward[k]
               \/ forward'[k] \notin {"asking", "clearing"} /\ forward[k] # "stopping"
      PROVE  Goal
  <2>1. (Asking' => Asking) /\ (Clearing' => Clearing) /\ (Stopping => Stopping')
    BY <1>p, <1>u, <1>y, <1>z
  <2> QED
    BY <1>p, <2>1 DEF MicrophoneInv, MicrophoneInRoom
<1>c. ASSUME NoneNew, StopCaptureAndStream, UNCHANGED current_room,
             host' = host \/ host' # "asking",
             \A k \in Connections : forward'[k] = forward[k] \/ forward'[k] # "asking"
      PROVE  Goal
  BY <1>c, <1>u DEF MicrophoneInv, MicrophoneInRoom, StopCaptureAndStream
<1>l. ASSUME NoneNew, RoomLeft, Stopping', UNCHANGED microphone_open,
             host' = host \/ host' \notin {"asking", "clearing", "connecting"},
             \A k \in Connections : \/ forward'[k] = forward[k]
                                   \/ forward'[k] \notin {"asking", "clearing"}
      PROVE  Goal
  <2>1. (Asking' => Asking) /\ (Clearing' => Clearing)
    BY <1>l, <1>u, <1>y
  <2> QED
    BY <1>l, <2>1 DEF MicrophoneInv, MicrophoneInRoom, RoomLeft
<1>e. ASSUME NEW r, r # NoRoom, RoomStored(r),
             host' = host \/ host' \notin {"clearing", "connecting"},
             \A k \in Connections : forward'[k] = forward[k] \/ forward'[k] # "clearing"
      PROVE  Goal
  BY <1>e, <1>y DEF MicrophoneInv, MicrophoneInRoom, RoomStored
<1>d. ASSUME NoneNew, Clearing, current_room' = NoRoom, UNCHANGED <<microphone_open, reopened>>,
             host' = host \/ host' # "asking",
             \A k \in Connections : forward'[k] = forward[k] \/ forward'[k] # "asking"
      PROVE  Goal
  BY <1>d, <1>u DEF MicrophoneInv, MicrophoneInRoom
<1>o. /\ forward \in [Connections -> {"none", "waiting", "working", "asking", "stopping",
                                      "clearing", "gone"}]
      /\ NoRoom \notin Rooms
  BY <1>0, MobileAssumption DEF MCTypeOK
<1> HIDE DEF Goal
<1>1. ASSUME TcConnect PROVE Goal
  BY <1>1, <1>c, <1>n, <1>r, <1>a DEF TcConnect, StopsFirst
<1>1b. ASSUME ConnectStarts PROVE Goal
  <2>1. Clearing
    BY <1>1b DEF ConnectStarts, Clearing
  <2>2. \A k \in Connections : forward'[k] = forward[k] \/ forward'[k] # "asking"
    BY <1>o, <1>1b DEF ConnectStarts
  <2> QED
    BY <1>1b, <1>d, <1>n, <1>r, <1>a, <2>1, <2>2 DEF ConnectStarts, Cleared
<1>2. ASSUME TcDisconnect PROVE Goal
  BY <1>2, <1>c, <1>n, <1>r, <1>a DEF TcDisconnect, StopsFirst
<1>2b. ASSUME DisconnectClears PROVE Goal
  <2>1. Clearing
    BY <1>2b DEF DisconnectClears, Clearing
  <2>2. \A k \in Connections : forward'[k] = forward[k] \/ forward'[k] # "asking"
    BY <1>o, <1>2b DEF DisconnectClears, Aborted, Ends
  <2> QED
    BY <1>2b, <1>d, <1>n, <1>r, <1>a, <2>1, <2>2 DEF DisconnectClears, Cleared
<1>3. ASSUME TcLeaveRoom PROVE Goal
  <2>1. RequestsOld
    BY <1>3, <1>r, <1>w, <1>q DEF TcLeaveRoom
  <2> QED
    BY <1>3, <1>p, <1>n, <1>a, <2>1 DEF TcLeaveRoom
<1>3b. ASSUME LeaveClears PROVE Goal
  <2>1. Stopping'
    BY <1>3b DEF LeaveClears, Stopping
  <2> QED
    BY <1>3b, <1>l, <1>n, <1>r, <1>a, <2>1 DEF LeaveClears
<1>3c. ASSUME LeaveStops PROVE Goal
  BY <1>3c, <1>c, <1>n, <1>r, <1>a DEF LeaveStops
<1>4. ASSUME NEW r \in Rooms, TcJoinRoom(r) PROVE Goal
  <2>1. RequestsOld
    BY <1>4, <1>w, <1>q DEF TcJoinRoom
  <2> QED
    BY <1>4, <1>p, <1>n, <1>a, <2>1 DEF TcJoinRoom
<1>4b. ASSUME JoinStores PROVE Goal
  <2>1. entering # NoRoom
    BY <1>4b DEF JoinStores, ConnectionsInv
  <2> QED
    BY <1>4b, <1>e, <2>1 DEF JoinStores
<1>4c. ASSUME JoinAsks PROVE Goal
  <2>1. Asking
    BY <1>4c DEF JoinAsks, Asking
  <2> QED
    BY <1>4c, <1>k, <1>p, <1>n, <1>a, <2>1 DEF JoinAsks
<1>5. ASSUME NEW r \in Rooms, TcJoinGroupRoom(r) PROVE Goal
  <2>1. RequestsOld
    BY <1>5, <1>w, <1>q DEF TcJoinGroupRoom
  <2> QED
    BY <1>5, <1>p, <1>n, <1>a, <2>1 DEF TcJoinGroupRoom
<1>6. ASSUME NEW k \in Connections, ConnectionOpens(k) PROVE Goal
  BY <1>6, <1>p, <1>n, <1>r, <1>a DEF ConnectionOpens
<1>7. ASSUME NEW k \in Connections, ConnectFails(k) PROVE Goal
  BY <1>7, <1>p, <1>n, <1>r, <1>a DEF ConnectFails
<1>8. ASSUME NEW k \in Connections, SendLogin(k) PROVE Goal
  <2>1. RequestsOld
    BY <1>8, <1>r, <1>w, <1>q DEF SendLogin
  <2> QED
    BY <1>8, <1>p, <1>n, <1>a, <2>1 DEF SendLogin
<1>9. ASSUME NEW k \in Connections, SenderEnds(k) PROVE Goal
  BY <1>9, <1>p, <1>n, <1>r, <1>a DEF SenderEnds
<1>10. ASSUME NEW k \in Connections, ConnectionLost(k) PROVE Goal
  <2>1. RequestsOld
    <3> SUFFICES ASSUME NEW c \in Connections, NEW i \in 1..Len(requests'[c]),
                        requests'[c][i].kind = "config"
                 PROVE  Asking
      BY DEF RequestsOld
    <3>1. requests[c] \in Seq(Request) /\ (requests'[c] = requests[c] \/ requests'[c] = <<>>)
      BY <1>0, <1>10 DEF ConnectionLost
    <3> QED
      BY <3>1, AskedMeans
  <2>2. AnswersOld
    BY <1>10, <1>s, <1>q DEF ConnectionLost
  <2> QED
    BY <1>10, <1>p, <1>n, <2>1, <2>2 DEF ConnectionLost
<1>11. ASSUME NEW k \in Connections, AckArrives(k) PROVE Goal
  <2>1. Asking
    BY <1>0, <1>11, AskedMeans DEF AckArrives
  <2>2. UNCHANGED <<current_room, reopened, host, forward>>
    BY <1>11 DEF AckArrives
  <2>3. (current_room = NoRoom => reopened) /\ (Clearing => reopened) /\ (Clearing' => Clearing)
    BY <1>y, <2>1, <2>2 DEF MicrophoneInv
  <2> QED
    BY <2>2, <2>3 DEF MicrophoneInv, MicrophoneInRoom, Goal
<1>12. ASSUME NEW k \in Connections, TakeEvent(k) PROVE Goal
  <2>1. \A c \in Connections : \/ forward'[c] = forward[c]
                               \/ forward'[c] = "working" /\ forward[c] = "waiting"
    BY <1>o, <1>12 DEF TakeEvent
  <2> QED
    BY <1>12, <1>p, <1>n, <1>r, <1>a, <2>1 DEF TakeEvent
<1>i. ASSUME NEW k \in Connections, NEW then, Handled(k, then), forward[k] = "working"
      PROVE  /\ \A c \in Connections : \/ forward'[c] = forward[c]
                                       \/ forward'[c] = then /\ forward[c] = "working"
             /\ forward'[k] = then
  BY <1>o, <1>i DEF Handled
<1>13. ASSUME NEW k \in Connections, RoomJoined(k) PROVE Goal
  <2>0. forward[k] = "working"
    BY <1>13 DEF RoomJoined
  <2>1. CASE joining[k] = NoRoom
    <3>1. /\ Handled(k, "waiting")
          /\ UNCHANGED <<current_room, reopened, microphone_open, requests, host>>
      BY <1>13, <2>1 DEF RoomJoined
    <3>2. AnswersOld
      BY <1>h, <2>0, <3>1
    <3>3. \A c \in Connections : \/ forward'[c] = forward[c]
                                 \/ forward'[c] = "waiting" /\ forward[c] = "working"
      BY <1>i, <2>0, <3>1
    <3> QED
      BY <1>p, <1>n, <1>r, <3>1, <3>2, <3>3
  <2>2. CASE joining[k] # NoRoom
    <3>1. Handled(k, "asking") /\ RoomStored(joining[k]) /\ UNCHANGED host
      BY <1>13, <2>2 DEF RoomJoined
    <3>2. \A c \in Connections : forward'[c] = forward[c] \/ forward'[c] = "asking"
      BY <1>i, <2>0, <3>1
    <3> QED
      BY <1>e, <2>2, <3>1, <3>2
  <2> QED
    BY <2>1, <2>2
<1>14. ASSUME NEW k \in Connections, UserMoved(k) PROVE Goal
  <2>1. Head(answers[k]) \in Answer
    BY <1>0, <1>14 DEF UserMoved, HandlingInv
  <2>2. Head(answers[k]).room # NoRoom
    BY <1>o, <1>14, <2>1 DEF UserMoved, Answer
  <2>3. \A c \in Connections : forward'[c] = forward[c] \/ forward'[c] = "asking"
    BY <1>i, <1>14 DEF UserMoved
  <2> QED
    BY <1>14, <1>e, <2>2, <2>3 DEF UserMoved
<1>14b. ASSUME NEW k \in Connections, ForwardAsks(k) PROVE Goal
  <2>1. Asking
    BY <1>14b DEF ForwardAsks, Asking
  <2>2. \A c \in Connections : \/ forward'[c] = forward[c]
                               \/ forward'[c] = "waiting" /\ forward[c] = "asking"
    BY <1>o, <1>14b DEF ForwardAsks
  <2> QED
    BY <1>14b, <1>k, <1>p, <1>n, <1>a, <2>1, <2>2 DEF ForwardAsks
<1>15. ASSUME NEW k \in Connections, PutOut(k) PROVE Goal
  <2>1. AnswersOld
    BY <1>15, <1>h DEF PutOut
  <2>2. /\ \A c \in Connections : forward'[c] = forward[c] \/ forward'[c] = "stopping"
        /\ forward'[k] = "stopping"
    BY <1>15, <1>i DEF PutOut
  <2>3. Stopping'
    BY <2>2 DEF Stopping
  <2> QED
    BY <1>15, <1>l, <1>n, <1>r, <2>1, <2>2, <2>3 DEF PutOut
<1>15b. ASSUME NEW k \in Connections, ForwardStops(k) PROVE Goal
  <2>1. \A c \in Connections : forward'[c] = forward[c] \/ forward'[c] = "waiting"
    BY <1>o, <1>15b DEF ForwardStops
  <2> QED
    BY <1>15b, <1>c, <1>n, <1>r, <1>a, <2>1 DEF ForwardStops, CloseMicrophone
<1>15c. ASSUME NEW k \in Connections, LossStops(k) PROVE Goal
  <2>1. AnswersOld
    BY <1>15c, <1>h DEF LossStops
  <2>2. \A c \in Connections : forward'[c] = forward[c] \/ forward'[c] = "clearing"
    BY <1>15c, <1>i DEF LossStops
  <2> QED
    BY <1>15c, <1>c, <1>n, <1>r, <2>1, <2>2 DEF LossStops, CloseMicrophone
<1>15d. ASSUME NEW k \in Connections, LossClears(k) PROVE Goal
  <2>1. \A c \in Connections : forward'[c] = forward[c] \/ forward'[c] = "waiting"
    BY <1>o, <1>15d DEF LossClears
  <2>2. Clearing
    BY <1>15d DEF LossClears, Clearing
  <2> QED
    BY <1>15d, <1>d, <1>n, <1>r, <1>a, <2>1, <2>2 DEF LossClears
<1>16. ASSUME NEW k \in Connections, ForwardEnds(k) PROVE Goal
  <2>1. \A c \in Connections : \/ forward'[c] = forward[c]
                               \/ forward'[c] = "gone" /\ forward[c] = "waiting"
    BY <1>o, <1>16 DEF ForwardEnds, Ends
  <2> QED
    BY <1>16, <1>p, <1>n, <1>r, <1>a, <2>1 DEF ForwardEnds
<1>17. ASSUME NEW k \in Connections, ServerLogin(k) PROVE Goal
  BY <1>17, <1>p, <1>n, <1>v, <1>a DEF ServerLogin, Received
<1>18. ASSUME NEW k \in Connections, ServerJoin(k) PROVE Goal
  BY <1>18, <1>p, <1>n, <1>v, <1>a DEF ServerJoin, Received
<1>19. ASSUME NEW k \in Connections, ServerJoinGroup(k) PROVE Goal
  <2>1. RequestsOld
    BY <1>19, <1>v DEF ServerJoinGroup
  <2>2. Head(requests[k]).room \in Rooms
    BY <1>19, ReceivedTypes DEF ServerJoinGroup, Request
  <2>3. AnswersOld
    BY <1>19, <1>s, <1>a, <1>q, <2>2 DEF ServerJoinGroup
  <2> QED
    BY <1>19, <1>p, <1>n, <2>1, <2>3 DEF ServerJoinGroup, Received
<1>20. ASSUME NEW k \in Connections, ServerLeave(k) PROVE Goal
  BY <1>20, <1>p, <1>n, <1>v, <1>a DEF ServerLeave, Received
<1>21. ASSUME NEW k \in Connections, ServerConfig(k) PROVE Goal
  <2>1. RequestsOld
    BY <1>21, <1>v DEF ServerConfig
  <2>2. Asking
    <3>1. Received(k, "config")
      BY <1>21 DEF ServerConfig
    <3>2. 1 \in DOMAIN requests[k] /\ requests[k][1].kind = "config"
      BY <1>0, <3>1, ReceivedTypes
    <3> QED
      BY <3>2, AskedMeans
  <2>3. AnswersOld
    BY <1>21, <1>s, <1>a, <1>q, <2>2 DEF ServerConfig
  <2> QED
    BY <1>21, <1>p, <1>n, <2>1, <2>3 DEF ServerConfig, Received
<1>22. ASSUME NEW k \in Connections, Decides(k) PROVE Goal
  <2>1. AnswersOld
    BY <1>22, <1>s, <1>q DEF Decides
  <2> QED
    BY <1>22, <1>p, <1>n, <1>r, <2>1 DEF Decides
<1>23. ASSUME UNCHANGED mcVars PROVE Goal
  BY <1>23, <1>p, <1>n, <1>r, <1>a DEF mcVars
<1>24. Goal
  BY <1>1, <1>1b, <1>2, <1>2b, <1>3, <1>3b, <1>3c, <1>4, <1>4b, <1>4c, <1>5, <1>6, <1>7, <1>8,
     <1>9, <1>10, <1>11, <1>12, <1>13, <1>14, <1>14b, <1>15, <1>15b, <1>15c, <1>15d, <1>16, <1>17,
     <1>18, <1>19, <1>20, <1>21, <1>22, <1>23 DEF MCNext
<1> QED
  BY <1>24 DEF Goal

(* Who is in no room has the microphone closed once nobody is about to stop it,
   unless a room was left while its microphone was being asked for, or entered
   while another was being left: whatever the host does, and with any number of
   connections, however they overlap. *)
THEOREM MicrophoneIsInRoom == MCSpec => []MicrophoneInRoom
<1>1. MCInit => MicrophoneInv
  BY DEF MCInit, MicrophoneInv, MicrophoneInRoom, Asking, Clearing, MicrophoneAskedFor, OnItsWay
<1>2. MicrophoneInv => MicrophoneInRoom
  BY DEF MicrophoneInv
<1> QED
  BY <1>1, <1>2, MobileInit, MobileTypeStep, ConnectionsStep, HandlingStep, MicrophoneStep,
     PTL DEF MCSpec

----------------------------------------------------------------------------
(* The mobile library: the room *)

Settles(m) == m.kind \in {"join", "leave"}

Into(m) == IF m.kind \in {"join", "moved"} THEN m.room ELSE NoRoom

NoCommand(q)  == \A i \in 1..Len(q) : ~RoomCommand(q[i])
Undecided(a)  == \A i \in 1..Len(a) : ~Decision(a[i])
NoneJoined(a) == \A i \in 1..Len(a) : a[i].kind # "joined"

(* The last decision on its way is the room the server has the user in. *)
LastIsInto(a, p) ==
  \E i \in 1..Len(a) : /\ Decision(a[i]) /\ p = Into(a[i])
                       /\ \A j \in 1..Len(a) : j > i => ~Decision(a[j])

(* The server at p, with the commands in q, comes to the room c. *)
LeadsTo(q, p, c) ==
  \/ c = p /\ \A i \in 1..Len(q) : ~Settles(q[i])
  \/ \E i \in 1..Len(q) : /\ Settles(q[i]) /\ c = Into(q[i])
                          /\ \A j \in 1..Len(q) : j > i => ~Settles(q[j])

(* A group join on its way is the last command and still taken, or another
   command goes after it. *)
GroupsFit(q, a, pending) ==
  \A i \in 1..Len(q) : q[i].kind = "group" =>
    \/ pending /\ NoneJoined(a) /\ \A j \in 1..Len(q) : j > i => ~RoomCommand(q[j])
    \/ ~pending /\ \E j \in 1..Len(q) : j > i /\ Settles(q[j])

(* What is on its way to the server (q) and from it (a) makes up for the
   difference between its room p and the client's room c, which is entering the
   room e or not, and waits for the answer to a group join or not. *)
RoomsFit(q, a, p, e, busy, pending, c) ==
  /\ Undecided(a) \/ (~pending /\ NoCommand(q) /\ LastIsInto(a, p))
  /\ e # NoRoom => NoCommand(q) /\ (Undecided(a) => e = p)
  /\ pending /\ ~NoneJoined(a) =>
       NoCommand(q) /\ \A i \in 1..Len(a) : a[i].kind = "joined" => a[i].room = p
  /\ Undecided(a) /\ e = NoRoom /\ (~pending \/ NoneJoined(a)) => LeadsTo(q, p, c)
  /\ GroupsFit(q, a, pending)
  /\ busy /\ Head(a).kind = "joined" => ~pending

Calm == /\ held /\ ws_tx = latest /\ ~astray
        /\ \A k \in Connections \ {latest} : joining[k] = NoRoom

(* The host has sent a join or a leave, and stores its room next: that room counts
   as the client's, and the call ends any wait for a group join. *)
Committed   == host \in {"storing", "leaving"}
ClientRoom  == CASE host = "storing" -> entering
                 [] host = "leaving" -> NoRoom
                 [] OTHER -> current_room
StillWanted == group_join_pending /\ ~Committed

(* Nothing else is about to write the room then. *)
CommittedInv ==
  held /\ ~astray /\ Committed =>
    /\ establishing[latest] \notin {"none", "opening"}
    /\ Undecided(answers[latest]) /\ joining[latest] = NoRoom

RoomInv ==
  Calm => RoomsFit(requests[latest], answers[latest], place[latest], joining[latest],
                   forward[latest] = "working", StillWanted, ClientRoom)

LEMMA AppendElements ==
  ASSUME NEW T, NEW s \in Seq(T), NEW m \in T
  PROVE  /\ Append(s, m) \in Seq(T) /\ Len(Append(s, m)) = Len(s) + 1 /\ Len(s) \in Nat
         /\ \A i \in 1..Len(s) : Append(s, m)[i] = s[i]
         /\ Append(s, m)[Len(s) + 1] = m
OBVIOUS

(* What is no command does not count. *)
LEMMA CommandsAppend ==
  ASSUME NEW q \in Seq(Request), NEW m \in Request, ~RoomCommand(m), NEW p, NEW c, NEW a,
         NEW pending \in BOOLEAN
  PROVE  /\ NoCommand(q) => NoCommand(Append(q, m))
         /\ LeadsTo(q, p, c) => LeadsTo(Append(q, m), p, c)
         /\ GroupsFit(q, a, pending) => GroupsFit(Append(q, m), a, pending)
<1> DEFINE q2 == Append(q, m)
<1>1. /\ Len(q2) = Len(q) + 1 /\ Len(q) \in Nat
      /\ \A i \in 1..Len(q) : q2[i] = q[i]
      /\ q2[Len(q) + 1] = m
  BY AppendElements
<1> HIDE DEF q2
<1>2. ~Settles(m) /\ m.kind # "group"
  BY DEF Settles, RoomCommand
<1>3. \A i \in 1..Len(q2) : i \in 1..Len(q) \/ i = Len(q) + 1
  BY <1>1
<1>4. NoCommand(q) => NoCommand(q2)
  BY <1>1, <1>3 DEF NoCommand
<1>5. LeadsTo(q, p, c) => LeadsTo(q2, p, c)
  BY <1>1, <1>2, <1>3 DEF LeadsTo
<1>6. GroupsFit(q, a, pending) => GroupsFit(q2, a, pending)
  <2> SUFFICES ASSUME GroupsFit(q, a, pending), NEW i \in 1..Len(q2), q2[i].kind = "group"
               PROVE  \/ /\ pending /\ NoneJoined(a)
                         /\ \A j \in 1..Len(q2) : j > i => ~RoomCommand(q2[j])
                      \/ ~pending /\ \E j \in 1..Len(q2) : j > i /\ Settles(q2[j])
    BY DEF GroupsFit
  <2>1. i \in 1..Len(q) /\ q[i].kind = "group"
    BY <1>1, <1>2, <1>3
  <2> QED
    BY <1>1, <1>3, <2>1 DEF GroupsFit
<1> QED
  BY <1>4, <1>5, <1>6 DEF q2

LEMMA RequestIgnored ==
  ASSUME NEW q \in Seq(Request), NEW m \in Request, ~RoomCommand(m),
         NEW a, NEW p, NEW e, NEW busy \in BOOLEAN, NEW pending \in BOOLEAN, NEW c,
         RoomsFit(q, a, p, e, busy, pending, c)
  PROVE  RoomsFit(Append(q, m), a, p, e, busy, pending, c)
BY CommandsAppend DEF RoomsFit

(* A join or a leave settles where the server comes to. *)
LEMMA CommandSent ==
  ASSUME NEW q \in Seq(Request), NEW m \in Request, Settles(m),
         NEW a, Undecided(a), NEW p, NEW busy \in BOOLEAN
  PROVE  RoomsFit(Append(q, m), a, p, NoRoom, busy, FALSE, Into(m))
<1> DEFINE q2 == Append(q, m)
<1>1. /\ Len(q2) = Len(q) + 1 /\ Len(q) \in Nat
      /\ q2[Len(q) + 1] = m
  BY AppendElements
<1> HIDE DEF q2
<1>2. LeadsTo(q2, p, Into(m))
  BY <1>1 DEF LeadsTo
<1>3. \A i \in 1..Len(q2) : q2[i].kind = "group" => i < Len(q2)
  BY <1>1 DEF Settles
<1>4. GroupsFit(q2, a, FALSE)
  BY <1>1, <1>3 DEF GroupsFit
<1> QED
  BY <1>2, <1>4 DEF RoomsFit, q2

LEMMA GroupJoinSent ==
  ASSUME NEW q \in Seq(Request), NEW m \in Request, m.kind = "group",
         \A i \in 1..Len(q) : q[i].kind # "group",
         NEW a, NoneJoined(a), Undecided(a), NEW p, NEW pending \in BOOLEAN, NEW c,
         RoomsFit(q, a, p, NoRoom, FALSE, pending, c)
  PROVE  RoomsFit(Append(q, m), a, p, NoRoom, FALSE, TRUE, c)
<1> DEFINE q2 == Append(q, m)
<1>1. /\ Len(q2) = Len(q) + 1 /\ Len(q) \in Nat
      /\ \A i \in 1..Len(q) : q2[i] = q[i]
      /\ q2[Len(q) + 1] = m
  BY AppendElements
<1> HIDE DEF q2
<1>2. \A i \in 1..Len(q2) : i \in 1..Len(q) \/ i = Len(q) + 1
  BY <1>1
<1>3. LeadsTo(q, p, c)
  BY DEF RoomsFit
<1>4. LeadsTo(q2, p, c)
  BY <1>1, <1>2, <1>3 DEF LeadsTo, Settles
<1>5. GroupsFit(q2, a, TRUE)
  BY <1>1, <1>2 DEF GroupsFit
<1> QED
  BY <1>4, <1>5 DEF RoomsFit, q2

(* What the server has taken: nothing that settles the room; a join or a
   leave; a group join. *)
LEMMA TakenElements ==
  ASSUME NEW q \in Seq(Request), q # <<>>
  PROVE  /\ Len(q) \in Nat \ {0} /\ Len(Tail(q)) = Len(q) - 1 /\ Head(q) = q[1]
         /\ \A i \in 1..Len(Tail(q)) : i + 1 \in 1..Len(q) /\ Tail(q)[i] = q[i + 1]
         /\ \A i \in 1..Len(q) : i = 1 \/ (i - 1 \in 1..Len(Tail(q)) /\ Tail(q)[i - 1] = q[i])
BY TailElements

LEMMA RequestTaken ==
  ASSUME NEW q \in Seq(Request), q # <<>>, NEW p, NEW c, NEW a, NEW pending \in BOOLEAN
  PROVE  /\ NoCommand(q) => NoCommand(Tail(q))
         /\ LeadsTo(q, p, c) => LeadsTo(Tail(q), IF Settles(Head(q)) THEN Into(Head(q)) ELSE p, c)
         /\ GroupsFit(q, a, pending) => GroupsFit(Tail(q), a, pending)
<1> DEFINE q2 == Tail(q)
<1>1. /\ Len(q) \in Nat \ {0} /\ Len(q2) = Len(q) - 1 /\ Head(q) = q[1]
      /\ \A i \in 1..Len(q2) : i + 1 \in 1..Len(q) /\ q2[i] = q[i + 1]
      /\ \A i \in 1..Len(q) : i = 1 \/ (i - 1 \in 1..Len(q2) /\ q2[i - 1] = q[i])
  BY TakenElements
<1> HIDE DEF q2
<1>2. NoCommand(q) => NoCommand(q2)
  BY <1>1 DEF NoCommand
<1>3. ASSUME LeadsTo(q, p, c) PROVE LeadsTo(q2, IF Settles(q[1]) THEN Into(q[1]) ELSE p, c)
  <2>1. CASE c = p /\ \A i \in 1..Len(q) : ~Settles(q[i])
    BY <1>1, <2>1 DEF LeadsTo
  <2>2. ASSUME NEW i \in 1..Len(q), Settles(q[i]), c = Into(q[i]),
               \A j \in 1..Len(q) : j > i => ~Settles(q[j])
        PROVE  LeadsTo(q2, IF Settles(q[1]) THEN Into(q[1]) ELSE p, c)
    <3>1. CASE i = 1
      <4>1. \A j \in 1..Len(q2) : ~Settles(q2[j])
        BY <1>1, <2>2, <3>1
      <4> QED
        BY <2>2, <3>1, <4>1 DEF LeadsTo
    <3>2. CASE i # 1
      <4>1. i - 1 \in 1..Len(q2) /\ q2[i - 1] = q[i]
        BY <1>1, <3>2
      <4>2. \A j \in 1..Len(q2) : j > i - 1 => ~Settles(q2[j])
        BY <1>1, <2>2
      <4> QED
        BY <2>2, <4>1, <4>2 DEF LeadsTo
    <3> QED
      BY <3>1, <3>2
  <2> QED
    BY <1>3, <2>1, <2>2 DEF LeadsTo
<1>4. ASSUME GroupsFit(q, a, pending) PROVE GroupsFit(q2, a, pending)
  <2> SUFFICES ASSUME NEW i \in 1..Len(q2), q2[i].kind = "group"
               PROVE  \/ /\ pending /\ NoneJoined(a)
                         /\ \A j \in 1..Len(q2) : j > i => ~RoomCommand(q2[j])
                      \/ ~pending /\ \E j \in 1..Len(q2) : j > i /\ Settles(q2[j])
    BY DEF GroupsFit
  <2>1. i + 1 \in 1..Len(q) /\ q[i + 1].kind = "group"
    BY <1>1
  <2>2. CASE pending
    <3>1. NoneJoined(a) /\ \A j \in 1..Len(q) : j > i + 1 => ~RoomCommand(q[j])
      BY <1>4, <2>1, <2>2 DEF GroupsFit
    <3> QED
      BY <1>1, <2>2, <3>1
  <2>3. CASE ~pending
    <3>1. PICK j \in 1..Len(q) : j > i + 1 /\ Settles(q[j])
      BY <1>4, <2>1, <2>3 DEF GroupsFit
    <3>2. j - 1 \in 1..Len(q2) /\ j - 1 > i /\ q2[j - 1] = q[j]
      BY <1>1, <3>1
    <3> QED
      BY <2>3, <3>1, <3>2
  <2> QED
    BY <2>2, <2>3
<1> QED
  BY <1>1, <1>2, <1>3, <1>4 DEF q2

LEMMA RequestDone ==
  ASSUME NEW q \in Seq(Request), q # <<>>, ~Settles(Head(q)),
         NEW a, NEW p, NEW e, NEW busy \in BOOLEAN, NEW pending \in BOOLEAN, NEW c,
         RoomsFit(q, a, p, e, busy, pending, c)
  PROVE  RoomsFit(Tail(q), a, p, e, busy, pending, c)
BY RequestTaken DEF RoomsFit

LEMMA CommandDone ==
  ASSUME NEW q \in Seq(Request), q # <<>>, Settles(Head(q)),
         NEW a, NEW p, NEW e, NEW busy \in BOOLEAN, NEW pending \in BOOLEAN, NEW c,
         RoomsFit(q, a, p, e, busy, pending, c)
  PROVE  RoomsFit(Tail(q), a, Into(Head(q)), e, busy, pending, c)
<1>1. ~NoCommand(q)
  BY TakenElements DEF NoCommand, RoomCommand, Settles
<1>2. Undecided(a) /\ e = NoRoom /\ (~pending \/ NoneJoined(a)) /\ LeadsTo(q, p, c)
  BY <1>1 DEF RoomsFit
<1>3. LeadsTo(Tail(q), Into(Head(q)), c) /\ GroupsFit(Tail(q), a, pending)
  BY <1>2, RequestTaken DEF RoomsFit
<1> QED
  BY <1>2, <1>3 DEF RoomsFit

LEMMA GroupJoinDone ==
  ASSUME NEW q \in Seq(Request), q # <<>>, Head(q).kind = "group",
         NEW a \in Seq(Answer), NEW m \in Answer, m.kind = "joined",
         NEW p, NEW e, NEW busy \in BOOLEAN, busy => a # <<>>, NEW pending \in BOOLEAN, NEW c,
         RoomsFit(q, a, p, e, busy, pending, c)
  PROVE  RoomsFit(Tail(q), Append(a, m), m.room, e, busy, pending, c)
<1> DEFINE a2 == Append(a, m)
<1>1. ~NoCommand(q) /\ ~Settles(Head(q))
  BY TakenElements DEF NoCommand, RoomCommand, Settles
<1>2. Undecided(a) /\ e = NoRoom /\ (~pending \/ NoneJoined(a)) /\ LeadsTo(q, p, c)
  BY <1>1 DEF RoomsFit
<1>3. /\ Len(a2) = Len(a) + 1 /\ Len(a) \in Nat
      /\ \A i \in 1..Len(a) : a2[i] = a[i]
      /\ a2[Len(a) + 1] = m
  BY AppendElements
<1>4. busy => Head(a2) = Head(a)
  BY HeadStays
<1> HIDE DEF a2
<1>5. \A i \in 1..Len(a2) : i \in 1..Len(a) \/ i = Len(a) + 1
  BY <1>3
<1>6. Undecided(a2)
  BY <1>2, <1>3, <1>5 DEF Undecided, Decision
<1>7. CASE pending
  <2>1. NoCommand(Tail(q))
    <3>1. \A j \in 1..Len(q) : j > 1 => ~RoomCommand(q[j])
      BY <1>7, TakenElements DEF RoomsFit, GroupsFit
    <3> QED
      BY <3>1, TakenElements DEF NoCommand
  <2>2. \A i \in 1..Len(a2) : a2[i].kind = "joined" => a2[i].room = m.room
    BY <1>2, <1>3, <1>5, <1>7 DEF NoneJoined
  <2>3. GroupsFit(Tail(q), a2, pending)
    BY <2>1 DEF GroupsFit, NoCommand, RoomCommand
  <2>4. ~NoneJoined(a2)
    BY <1>3 DEF NoneJoined
  <2> QED
    BY <1>2, <1>4, <1>6, <1>7, <2>1, <2>2, <2>3, <2>4 DEF RoomsFit, a2
<1>8. CASE ~pending
  <2>1. GroupsFit(Tail(q), a, pending)
    BY RequestTaken DEF RoomsFit
  <2>2. GroupsFit(Tail(q), a2, pending)
    BY <1>8, <2>1 DEF GroupsFit
  <2>3. \E j \in 1..Len(Tail(q)) : Settles(Tail(q)[j])
    <3>1. PICK j \in 1..Len(q) : j > 1 /\ Settles(q[j])
      BY <1>8, TakenElements DEF RoomsFit, GroupsFit
    <3>2. j - 1 \in 1..Len(Tail(q)) /\ Tail(q)[j - 1] = q[j]
      BY <3>1, TakenElements
    <3> QED
      BY <3>1, <3>2
  <2>4. LeadsTo(Tail(q), p, c)
    BY <1>1, <1>2, RequestTaken
  <2>5. LeadsTo(Tail(q), m.room, c)
    BY <2>3, <2>4 DEF LeadsTo
  <2> QED
    BY <1>2, <1>6, <1>8, <2>2, <2>5 DEF RoomsFit, a2
<1> QED
  BY <1>7, <1>8

(* What is under way to the client: an answer it does not act on, or a decision
   of the server. *)
LEMMA AnswerIgnored ==
  ASSUME NEW a \in Seq(Answer), NEW m \in Answer, m.kind \in {"ack", "lost"},
         NEW q, NEW p, NEW e, NEW busy \in BOOLEAN, busy => a # <<>>,
         NEW pending \in BOOLEAN, NEW c,
         RoomsFit(q, a, p, e, busy, pending, c)
  PROVE  RoomsFit(q, Append(a, m), p, e, busy, pending, c)
<1> DEFINE a2 == Append(a, m)
<1>1. /\ Len(a2) = Len(a) + 1 /\ Len(a) \in Nat
      /\ \A i \in 1..Len(a) : a2[i] = a[i]
      /\ a2[Len(a) + 1] = m
  BY AppendElements
<1>2. busy => Head(a2) = Head(a)
  BY HeadStays
<1> HIDE DEF a2
<1>3. \A i \in 1..Len(a2) : i \in 1..Len(a) \/ i = Len(a) + 1
  BY <1>1
<1>4. \A i \in 1..Len(a) : i \in 1..Len(a2)
  BY <1>1
<1>5. /\ Undecided(a2) <=> Undecided(a)
      /\ NoneJoined(a2) <=> NoneJoined(a)
  BY <1>1, <1>3, <1>4 DEF Undecided, NoneJoined, Decision
<1>6. LastIsInto(a, p) => LastIsInto(a2, p)
  BY <1>1, <1>3, <1>4 DEF LastIsInto, Decision
<1>7. GroupsFit(q, a, pending) => GroupsFit(q, a2, pending)
  BY <1>5 DEF GroupsFit
<1>8. ASSUME \A i \in 1..Len(a) : a[i].kind = "joined" => a[i].room = p
      PROVE  \A i \in 1..Len(a2) : a2[i].kind = "joined" => a2[i].room = p
  BY <1>1, <1>3, <1>8
<1> QED
  BY <1>2, <1>5, <1>6, <1>7, <1>8 DEF RoomsFit, a2

LEMMA DecisionSent ==
  ASSUME NEW a \in Seq(Answer), NEW m \in Answer, Decision(m),
         NEW q, NoCommand(q), NEW p, NEW e, NEW busy \in BOOLEAN, NEW c
  PROVE  RoomsFit(q, Append(a, m), Into(m), e, busy, FALSE, c)
<1> DEFINE a2 == Append(a, m)
<1>1. /\ Len(a2) = Len(a) + 1 /\ Len(a) \in Nat
      /\ a2[Len(a) + 1] = m
  BY AppendElements
<1> HIDE DEF a2
<1>2. LastIsInto(a2, Into(m)) /\ ~Undecided(a2)
  BY <1>1 DEF LastIsInto, Undecided
<1>3. GroupsFit(q, a2, FALSE)
  BY DEF GroupsFit, NoCommand, RoomCommand
<1> QED
  BY <1>2, <1>3 DEF RoomsFit, a2

(* An acknowledgement is taken, wherever it is. *)
LEMMA AckTaken ==
  ASSUME NEW a \in Seq(Answer), NEW n \in 1..Len(a), a[n].kind = "ack",
         NEW q, NEW p, NEW e, NEW busy \in BOOLEAN, busy => Head(a).kind # "ack",
         NEW pending \in BOOLEAN, NEW c,
         RoomsFit(q, a, p, e, busy, pending, c)
  PROVE  RoomsFit(q, RemoveAt(a, n), p, e, busy, pending, c)
<1> DEFINE a2 == RemoveAt(a, n)
<1>1. /\ a2 \in Seq(Answer) /\ Len(a2) = Len(a) - 1 /\ Len(a) \in Nat \ {0}
      /\ \A j \in 1..Len(a2) : a2[j] = IF j < n THEN a[j] ELSE a[j + 1]
  <2>1. /\ a2 \in Seq(Answer) /\ Len(a2) = Len(a) - 1 /\ Len(a) \in Nat
        /\ \A j \in 1..Len(a) - 1 : a2[j] = IF j < n THEN a[j] ELSE a[j + 1]
    BY RemoveElements
  <2> HIDE DEF a2
  <2> QED
    BY <2>1
<1>h. Head(a) = a[1] /\ (a2 # <<>> => Head(a2) = a2[1])
  BY <1>1
<1> HIDE DEF a2
<1>2. \A i \in 1..Len(a2) : \E j \in 1..Len(a) : a2[i] = a[j]
  <2> SUFFICES ASSUME NEW i \in 1..Len(a2) PROVE \E j \in 1..Len(a) : a2[i] = a[j]
    OBVIOUS
  <2>1. i \in 1..Len(a) /\ i + 1 \in 1..Len(a)
    BY <1>1
  <2> QED
    BY <1>1, <2>1
<1>3. \A i \in 1..Len(a) : \/ i < n /\ i \in 1..Len(a2) /\ a2[i] = a[i]
                           \/ i = n
                           \/ i > n /\ i - 1 \in 1..Len(a2) /\ a2[i - 1] = a[i]
  BY <1>1
<1>4. /\ Undecided(a2) <=> Undecided(a)
      /\ NoneJoined(a2) <=> NoneJoined(a)
  BY <1>2, <1>3 DEF Undecided, NoneJoined, Decision
<1>5. ASSUME LastIsInto(a, p) PROVE LastIsInto(a2, p)
  <2>1. PICK i \in 1..Len(a) : /\ Decision(a[i]) /\ p = Into(a[i])
                               /\ \A j \in 1..Len(a) : j > i => ~Decision(a[j])
    BY <1>5 DEF LastIsInto
  <2>2. i # n
    BY <2>1 DEF Decision
  <2>3. CASE i < n
    <3>1. i \in 1..Len(a2) /\ a2[i] = a[i]
      BY <1>3, <2>3
    <3>2. \A j \in 1..Len(a2) : j > i => ~Decision(a2[j])
      <4> SUFFICES ASSUME NEW j \in 1..Len(a2), j > i PROVE ~Decision(a2[j])
        OBVIOUS
      <4>1. j \in 1..Len(a) /\ j + 1 \in 1..Len(a) /\ j + 1 > i
        BY <1>1
      <4> QED
        BY <1>1, <2>1, <4>1
    <3> QED
      BY <2>1, <3>1, <3>2 DEF LastIsInto
  <2>4. CASE i > n
    <3>1. i - 1 \in 1..Len(a2) /\ a2[i - 1] = a[i]
      BY <1>3, <2>4
    <3>2. \A j \in 1..Len(a2) : j > i - 1 => ~Decision(a2[j])
      <4> SUFFICES ASSUME NEW j \in 1..Len(a2), j > i - 1 PROVE ~Decision(a2[j])
        OBVIOUS
      <4>1. j + 1 \in 1..Len(a) /\ j + 1 > i /\ a2[j] = a[j + 1]
        BY <1>1, <2>4
      <4> QED
        BY <2>1, <4>1
    <3> QED
      BY <2>1, <3>1, <3>2 DEF LastIsInto
  <2> QED
    BY <2>2, <2>3, <2>4
<1>6. GroupsFit(q, a, pending) => GroupsFit(q, a2, pending)
  BY <1>4 DEF GroupsFit
<1>7. ASSUME \A i \in 1..Len(a) : a[i].kind = "joined" => a[i].room = p
      PROVE  \A i \in 1..Len(a2) : a2[i].kind = "joined" => a2[i].room = p
  BY <1>2, <1>7
<1>8. ASSUME busy PROVE Head(a2).kind = "joined" => Head(a) = Head(a2)
  <2>1. n > 1
    BY <1>8, <1>h
  <2>2. a2 # <<>> /\ a2[1] = a[1]
    BY <1>1, <2>1
  <2> QED
    BY <1>h, <2>2
<1> QED
  BY <1>4, <1>5, <1>6, <1>7, <1>8 DEF RoomsFit, a2

(* forward_events takes the first event. *)
LEMMA EventTaken ==
  ASSUME NEW a \in Seq(Answer), a # <<>>,
         NEW q, NEW p, NEW pending \in BOOLEAN, NEW c,
         RoomsFit(q, a, p, NoRoom, FALSE, pending, c)
  PROVE  LET taken == Head(a).kind = "joined" /\ pending
         IN  RoomsFit(q, a, p, IF taken THEN Head(a).room ELSE NoRoom, TRUE,
                      pending /\ ~taken, c)
<1>1. Head(a) = a[1] /\ 1 \in 1..Len(a) /\ Head(a) \in Answer
  OBVIOUS
<1>2. CASE Head(a).kind = "joined" /\ pending
  <2>1. ~NoneJoined(a)
    BY <1>1, <1>2 DEF NoneJoined
  <2>2. NoCommand(q) /\ Head(a).room = p /\ Undecided(a)
    BY <1>1, <1>2, <2>1 DEF RoomsFit
  <2>3. Head(a).room # NoRoom
    BY <1>1, <1>2, MobileAssumption DEF Answer
  <2>4. GroupsFit(q, a, FALSE)
    BY <2>2 DEF GroupsFit, NoCommand, RoomCommand
  <2> QED
    BY <1>2, <2>2, <2>3, <2>4 DEF RoomsFit
<1>3. CASE ~(Head(a).kind = "joined" /\ pending)
  BY <1>3 DEF RoomsFit
<1> QED
  BY <1>2, <1>3

(* What remains of the events once the first is handled. *)
LEMMA EventsLeft ==
  ASSUME NEW a \in Seq(Answer), a # <<>>, NEW p
  PROVE  /\ Undecided(Tail(a)) <=> \A i \in 1..Len(a) : i > 1 => ~Decision(a[i])
         /\ ~Decision(Head(a)) => (Undecided(a) <=> Undecided(Tail(a)))
         /\ NoneJoined(a) => NoneJoined(Tail(a))
         /\ LastIsInto(a, p) =>
              \/ LastIsInto(Tail(a), p)
              \/ Undecided(Tail(a)) /\ Decision(Head(a)) /\ p = Into(Head(a))
         /\ \A i \in 1..Len(Tail(a)) : \E j \in 1..Len(a) : Tail(a)[i] = a[j]
<1> DEFINE a2 == Tail(a)
<1>1. /\ Len(a) \in Nat \ {0} /\ Len(a2) = Len(a) - 1 /\ Head(a) = a[1]
      /\ \A i \in 1..Len(a2) : i + 1 \in 1..Len(a) /\ a2[i] = a[i + 1]
  BY TailElements
<1> HIDE DEF a2
<1>2. \A i \in 1..Len(a) : i = 1 \/ (i > 1 /\ i - 1 \in 1..Len(a2) /\ a2[i - 1] = a[i])
  BY <1>1
<1>3. Undecided(a2) <=> \A i \in 1..Len(a) : i > 1 => ~Decision(a[i])
  <2>1. ASSUME Undecided(a2), NEW i \in 1..Len(a), i > 1 PROVE ~Decision(a[i])
    BY <1>2, <2>1 DEF Undecided
  <2>2. ASSUME \A i \in 1..Len(a) : i > 1 => ~Decision(a[i]) PROVE Undecided(a2)
    BY <1>1, <2>2 DEF Undecided
  <2> QED
    BY <2>1, <2>2
<1>u. ~Decision(Head(a)) => (Undecided(a) <=> Undecided(a2))
  BY <1>1, <1>3 DEF Undecided
<1>4. NoneJoined(a) => NoneJoined(a2)
  BY <1>1 DEF NoneJoined
<1>5. ASSUME LastIsInto(a, p)
      PROVE  LastIsInto(a2, p) \/ (Undecided(a2) /\ Decision(Head(a)) /\ p = Into(Head(a)))
  <2>1. PICK i \in 1..Len(a) : /\ Decision(a[i]) /\ p = Into(a[i])
                               /\ \A j \in 1..Len(a) : j > i => ~Decision(a[j])
    BY <1>5 DEF LastIsInto
  <2>2. CASE i = 1
    BY <1>1, <1>3, <2>1, <2>2
  <2>3. CASE i # 1
    <3>1. i - 1 \in 1..Len(a2) /\ a2[i - 1] = a[i]
      BY <1>2, <2>3
    <3>2. \A j \in 1..Len(a2) : j > i - 1 => ~Decision(a2[j])
      BY <1>1, <2>1
    <3> QED
      BY <2>1, <3>1, <3>2 DEF LastIsInto
  <2> QED
    BY <2>2, <2>3
<1>6. \A i \in 1..Len(a2) : \E j \in 1..Len(a) : a2[i] = a[j]
  BY <1>1
<1> QED
  BY <1>3, <1>u, <1>4, <1>5, <1>6 DEF a2

(* A room_joined nobody waits for; one that is taken; a decision. *)
LEMMA JoinedIgnored ==
  ASSUME NEW a \in Seq(Answer), a # <<>>, Head(a).kind = "joined",
         NEW q, NEW p, NEW pending \in BOOLEAN, NEW c,
         RoomsFit(q, a, p, NoRoom, TRUE, pending, c)
  PROVE  RoomsFit(q, Tail(a), p, NoRoom, FALSE, pending, c)
<1>1. ~pending /\ Head(a) = a[1]
  BY DEF RoomsFit
<1>2. Undecided(a) <=> Undecided(Tail(a))
  BY EventsLeft DEF Decision
<1>3. LastIsInto(a, p) => LastIsInto(Tail(a), p)
  BY EventsLeft DEF Decision
<1>4. GroupsFit(q, Tail(a), pending)
  BY <1>1 DEF RoomsFit, GroupsFit
<1> QED
  BY <1>1, <1>2, <1>3, <1>4 DEF RoomsFit

LEMMA JoinedTaken ==
  ASSUME NEW a \in Seq(Answer), a # <<>>, Head(a).kind = "joined",
         NEW q, NEW p, NEW e, e # NoRoom, NEW pending \in BOOLEAN, NEW c,
         RoomsFit(q, a, p, e, TRUE, pending, c)
  PROVE  RoomsFit(q, Tail(a), p, NoRoom, FALSE, pending, e)
<1>1. ~pending /\ Head(a) = a[1] /\ NoCommand(q)
  BY DEF RoomsFit
<1>2. Undecided(a) <=> Undecided(Tail(a))
  BY EventsLeft DEF Decision
<1>3. LastIsInto(a, p) => LastIsInto(Tail(a), p)
  BY EventsLeft DEF Decision
<1>4. GroupsFit(q, Tail(a), pending)
  BY <1>1 DEF GroupsFit, NoCommand, RoomCommand
<1>5. Undecided(a) => LeadsTo(q, p, e)
  BY <1>1 DEF RoomsFit, LeadsTo, NoCommand, RoomCommand, Settles
<1> QED
  BY <1>1, <1>2, <1>3, <1>4, <1>5 DEF RoomsFit

LEMMA DecisionTaken ==
  ASSUME NEW a \in Seq(Answer), a # <<>>, Decision(Head(a)),
         NEW q, NEW p, NEW e, NEW pending \in BOOLEAN, NEW c,
         RoomsFit(q, a, p, e, TRUE, pending, c)
  PROVE  RoomsFit(q, Tail(a), p, NoRoom, FALSE, pending, Into(Head(a)))
<1>1. Head(a) = a[1] /\ ~Undecided(a)
  BY DEF Undecided
<1>2. ~pending /\ NoCommand(q) /\ LastIsInto(a, p)
  BY <1>1 DEF RoomsFit
<1>3. LastIsInto(Tail(a), p) => ~Undecided(Tail(a))
  BY DEF LastIsInto, Undecided
<1>4. LastIsInto(Tail(a), p) \/ (Undecided(Tail(a)) /\ p = Into(Head(a)))
  BY <1>2, EventsLeft
<1>5. p = Into(Head(a)) => LeadsTo(q, p, Into(Head(a)))
  BY <1>2 DEF LeadsTo, NoCommand, RoomCommand, Settles
<1>6. GroupsFit(q, Tail(a), pending)
  BY <1>2 DEF GroupsFit, NoCommand, RoomCommand
<1> QED
  BY <1>2, <1>3, <1>4, <1>5, <1>6 DEF RoomsFit

(* While the receive task of a connection runs, nobody has been told that the
   connection was lost. *)
LostInv ==
  \A k \in Connections : receive_task[k] =>
    /\ \A i \in 1..Len(answers[k]) : answers[k][i].kind # "lost"
    /\ forward[k] # "clearing"

LEMMA LostStep ==
  MobileTypes /\ ConnectionsInv /\ HandlingInv /\ LostInv /\ [MCNext]_mcVars => LostInv'
<1> SUFFICES ASSUME MobileTypes, ConnectionsInv, HandlingInv, LostInv, [MCNext]_mcVars
             PROVE  LostInv'
  OBVIOUS
<1>0. MCTypeOK /\ answers \in [Connections -> Seq(Answer)]
  BY DEF MobileTypes
<1>o. forward \in [Connections -> {"none", "waiting", "working", "asking", "stopping", "clearing",
                                  "gone"}]
  BY <1>0 DEF MCTypeOK
<1> DEFINE Goal == LostInv'
           NoneNew == \A k \in Connections : \A i \in 1..Len(answers'[k]) :
                        answers'[k][i].kind = "lost" =>
                          \E j \in 1..Len(answers[k]) : answers[k][j].kind = "lost"
           Kept == \A k \in Connections : forward'[k] = forward[k] \/ forward'[k] # "clearing"
<1> USE DEF client, call, tasks, events, at_server, excuses
<1>p. ASSUME NoneNew, UNCHANGED receive_task, Kept PROVE Goal
  BY <1>p DEF LostInv
<1>f. UNCHANGED forward => Kept
  OBVIOUS
<1>e. ASSUME NEW k, NEW v, v # "clearing", forward' = [forward EXCEPT ![k] = v] PROVE Kept
  BY <1>o, <1>e
<1>a. UNCHANGED answers => NoneNew
  OBVIOUS
<1>s. ASSUME NEW k \in Connections, NEW m \in Answer, Send(k, m), m.kind # "lost" PROVE NoneNew
  <2> SUFFICES ASSUME NEW c \in Connections, NEW i \in 1..Len(answers'[c]),
                      answers'[c][i].kind = "lost"
               PROVE  i \in 1..Len(answers[c]) /\ answers[c][i].kind = "lost"
    OBVIOUS
  <2>1. /\ answers[c] \in Seq(Answer)
        /\ answers'[c] = answers[c] \/ answers'[c] = Append(answers[c], m)
    BY <1>0, <1>s DEF Send
  <2>2. \/ i \in 1..Len(answers[c]) /\ answers'[c][i] = answers[c][i]
        \/ answers'[c][i] = m
    BY <2>1
  <2> QED
    BY <1>s, <2>2
<1>h. ASSUME NEW k \in Connections, forward[k] = "working", NEW then, Handled(k, then)
      PROVE  NoneNew
  <2> SUFFICES ASSUME NEW c \in Connections, NEW i \in 1..Len(answers'[c]),
                      answers'[c][i].kind = "lost"
               PROVE  \E j \in 1..Len(answers[c]) : answers[c][j].kind = "lost"
    OBVIOUS
  <2>1. /\ answers[c] \in Seq(Answer)
        /\ answers'[c] = answers[c] \/ (answers'[c] = Tail(answers[c]) /\ answers[c] # <<>>)
    BY <1>0, <1>h DEF Handled, HandlingInv
  <2>2. \/ i \in 1..Len(answers[c]) /\ answers'[c][i] = answers[c][i]
        \/ i + 1 \in 1..Len(answers[c]) /\ answers'[c][i] = answers[c][i + 1]
    BY <2>1, TailElements
  <2> QED
    BY <2>2
<1>q. /\ [kind |-> "ack"] \in Answer /\ [kind |-> "kicked"] \in Answer
      /\ \A r \in Rooms : /\ [kind |-> "joined", room |-> r] \in Answer
                         /\ [kind |-> "moved", room |-> r] \in Answer
  BY DEF Answer
<1> HIDE DEF Goal, NoneNew, Kept
<1>1. ASSUME TcConnect PROVE Goal
  BY <1>1, <1>p, <1>a, <1>f DEF TcConnect, StopsFirst
<1>1b. ASSUME ConnectStarts PROVE Goal
  BY <1>1b, <1>p, <1>a, <1>e DEF ConnectStarts
<1>2. ASSUME TcDisconnect PROVE Goal
  BY <1>2, <1>p, <1>a, <1>f DEF TcDisconnect, StopsFirst
<1>2b. ASSUME DisconnectClears PROVE Goal
  BY <1>2b, <1>p, <1>a, <1>e, <1>f DEF DisconnectClears, Aborted, Ends
<1>3. ASSUME TcLeaveRoom PROVE Goal
  BY <1>3, <1>p, <1>a, <1>f DEF TcLeaveRoom
<1>3b. ASSUME LeaveClears PROVE Goal
  BY <1>3b, <1>p, <1>a, <1>f DEF LeaveClears
<1>3c. ASSUME LeaveStops PROVE Goal
  BY <1>3c, <1>p, <1>a, <1>f DEF LeaveStops
<1>4. ASSUME NEW r \in Rooms, TcJoinRoom(r) PROVE Goal
  BY <1>4, <1>p, <1>a, <1>f DEF TcJoinRoom
<1>4b. ASSUME JoinStores PROVE Goal
  BY <1>4b, <1>p, <1>a, <1>f DEF JoinStores
<1>4c. ASSUME JoinAsks PROVE Goal
  BY <1>4c, <1>p, <1>a, <1>f DEF JoinAsks
<1>5. ASSUME NEW r \in Rooms, TcJoinGroupRoom(r) PROVE Goal
  BY <1>5, <1>p, <1>a, <1>f DEF TcJoinGroupRoom
<1>6. ASSUME NEW k \in Connections, ConnectionOpens(k) PROVE Goal
  <2>1. /\ answers[k] = <<>> /\ receive_task' = [receive_task EXCEPT ![k] = TRUE]
        /\ UNCHANGED <<answers, forward>> /\ forward[k] # "clearing"
    BY <1>6 DEF ConnectionOpens, ConnectionsInv, Unopened
  <2>2. \A c \in Connections : c # k => receive_task'[c] = receive_task[c]
    BY <1>0, <2>1 DEF MCTypeOK
  <2> QED
    BY <2>1, <2>2 DEF LostInv, Goal
<1>7. ASSUME NEW k \in Connections, ConnectFails(k) PROVE Goal
  BY <1>7, <1>p, <1>a, <1>f DEF ConnectFails
<1>8. ASSUME NEW k \in Connections, SendLogin(k) PROVE Goal
  BY <1>8, <1>p, <1>a, <1>f DEF SendLogin
<1>9. ASSUME NEW k \in Connections, SenderEnds(k) PROVE Goal
  BY <1>9, <1>p, <1>a, <1>f DEF SenderEnds
<1>10. ASSUME NEW k \in Connections, ConnectionLost(k) PROVE Goal
  BY <1>0, <1>10 DEF ConnectionLost, Send, LostInv, Goal, MCTypeOK
<1>11. ASSUME NEW k \in Connections, AckArrives(k) PROVE Goal
  <2> PICK n \in DOMAIN answers[k] : answers' = [answers EXCEPT ![k] = RemoveAt(@, n)]
    BY <1>11 DEF AckArrives
  <2>1. NoneNew
    <3> SUFFICES ASSUME NEW c \in Connections, NEW i \in 1..Len(answers'[c]),
                        answers'[c][i].kind = "lost"
                 PROVE  \E j \in 1..Len(answers[c]) : answers[c][j].kind = "lost"
      BY DEF NoneNew
    <3>1. CASE c # k
      BY <1>0, <3>1
    <3>2. CASE c = k
      <4>1. /\ answers[c] \in Seq(Answer)
            /\ answers'[c] = RemoveAt(answers[c], n)
            /\ n \in 1..Len(answers[c])
        BY <1>0, <3>2
      <4>2. /\ i \in 1..Len(answers[c]) - 1 /\ Len(answers[c]) \in Nat
            /\ answers'[c][i] = IF i < n THEN answers[c][i] ELSE answers[c][i + 1]
        <5>1. /\ Len(RemoveAt(answers[c], n)) = Len(answers[c]) - 1 /\ Len(answers[c]) \in Nat
              /\ \A j \in 1..Len(answers[c]) - 1 :
                   RemoveAt(answers[c], n)[j] = IF j < n THEN answers[c][j] ELSE answers[c][j + 1]
          BY <4>1, RemoveElements
        <5> QED
          BY <4>1, <5>1
      <4>3. i \in 1..Len(answers[c]) /\ i + 1 \in 1..Len(answers[c])
        BY <4>2
      <4> QED
        BY <4>2, <4>3
    <3> QED
      BY <3>1, <3>2
  <2> QED
    BY <1>11, <1>p, <1>f, <2>1 DEF AckArrives
<1>12. ASSUME NEW k \in Connections, TakeEvent(k) PROVE Goal
  BY <1>12, <1>p, <1>a, <1>e DEF TakeEvent
<1>13. ASSUME NEW k \in Connections, RoomJoined(k) PROVE Goal
  <2>1. PICK then \in {"waiting", "asking"} : Handled(k, then)
    BY <1>13 DEF RoomJoined
  <2> QED
    BY <1>13, <1>p, <1>h, <1>e, <2>1 DEF RoomJoined, Handled
<1>14. ASSUME NEW k \in Connections, UserMoved(k) PROVE Goal
  BY <1>14, <1>p, <1>h, <1>e DEF UserMoved, Handled
<1>14b. ASSUME NEW k \in Connections, ForwardAsks(k) PROVE Goal
  BY <1>14b, <1>p, <1>a, <1>e DEF ForwardAsks
<1>15. ASSUME NEW k \in Connections, PutOut(k) PROVE Goal
  BY <1>15, <1>p, <1>h, <1>e DEF PutOut, Handled
<1>15b. ASSUME NEW k \in Connections, ForwardStops(k) PROVE Goal
  BY <1>15b, <1>p, <1>a, <1>e DEF ForwardStops
<1>15c. ASSUME NEW k \in Connections, LossStops(k) PROVE Goal
  <2>1. /\ forward[k] = "working" /\ Handled(k, "clearing") /\ UNCHANGED receive_task
        /\ Head(answers[k]).kind = "lost"
    BY <1>15c DEF LossStops
  <2>2. Head(answers[k]) = answers[k][1] /\ 1 \in 1..Len(answers[k])
    BY <1>0, <2>1 DEF HandlingInv
  <2>3. ~receive_task[k]
    BY <2>1, <2>2 DEF LostInv
  <2>4. NoneNew
    BY <1>h, <2>1
  <2>5. \A c \in Connections : c # k => forward'[c] = forward[c]
    BY <1>o, <2>1 DEF Handled
  <2> QED
    BY <2>1, <2>3, <2>4, <2>5 DEF LostInv, Goal, NoneNew
<1>15d. ASSUME NEW k \in Connections, LossClears(k) PROVE Goal
  BY <1>15d, <1>p, <1>a, <1>e DEF LossClears
<1>16. ASSUME NEW k \in Connections, ForwardEnds(k) PROVE Goal
  BY <1>16, <1>p, <1>a, <1>e DEF ForwardEnds, Ends
<1>17. ASSUME NEW k \in Connections, ServerLogin(k) PROVE Goal
  BY <1>17, <1>p, <1>a, <1>f DEF ServerLogin, Received
<1>18. ASSUME NEW k \in Connections, ServerJoin(k) PROVE Goal
  BY <1>18, <1>p, <1>a, <1>f DEF ServerJoin, Received
<1>19. ASSUME NEW k \in Connections, ServerJoinGroup(k) PROVE Goal
  <2>1. Head(requests[k]).room \in Rooms
    BY <1>19, ReceivedTypes DEF ServerJoinGroup, Request
  <2>2. NoneNew
    BY <1>19, <1>s, <1>a, <1>q, <2>1 DEF ServerJoinGroup
  <2> QED
    BY <1>19, <1>p, <1>f, <2>2 DEF ServerJoinGroup, Received
<1>20. ASSUME NEW k \in Connections, ServerLeave(k) PROVE Goal
  BY <1>20, <1>p, <1>a, <1>f DEF ServerLeave, Received
<1>21. ASSUME NEW k \in Connections, ServerConfig(k) PROVE Goal
  <2>1. NoneNew
    BY <1>21, <1>s, <1>a, <1>q DEF ServerConfig
  <2> QED
    BY <1>21, <1>p, <1>f, <2>1 DEF ServerConfig, Received
<1>22. ASSUME NEW k \in Connections, Decides(k) PROVE Goal
  <2>1. NoneNew
    BY <1>22, <1>s, <1>q DEF Decides
  <2> QED
    BY <1>22, <1>p, <1>f, <2>1 DEF Decides
<1>23. ASSUME UNCHANGED mcVars PROVE Goal
  BY <1>23, <1>p, <1>a, <1>f DEF mcVars
<1>24. Goal
  BY <1>1, <1>1b, <1>2, <1>2b, <1>3, <1>3b, <1>3c, <1>4, <1>4b, <1>4c, <1>5, <1>6, <1>7, <1>8,
     <1>9, <1>10, <1>11, <1>12, <1>13, <1>14, <1>14b, <1>15, <1>15b, <1>15c, <1>15d, <1>16, <1>17,
     <1>18, <1>19, <1>20, <1>21, <1>22, <1>23 DEF MCNext
<1> QED
  BY <1>24 DEF Goal

LEMMA CommittedStep ==
  MobileTypes /\ ConnectionsInv /\ HandlingInv /\ CommittedInv /\ [MCNext]_mcVars => CommittedInv'
<1> SUFFICES ASSUME MobileTypes, ConnectionsInv, HandlingInv, CommittedInv, [MCNext]_mcVars,
                    held', ~astray', Committed'
             PROVE  /\ establishing'[latest'] \notin {"none", "opening"}
                    /\ Undecided(answers'[latest']) /\ joining'[latest'] = NoRoom
  BY DEF CommittedInv
<1>0. MCTypeOK /\ answers \in [Connections -> Seq(Answer)]
  BY DEF MobileTypes
<1> DEFINE Goal == /\ establishing'[latest'] \notin {"none", "opening"}
                   /\ Undecided(answers'[latest']) /\ joining'[latest'] = NoRoom
           Opened == \A k \in Connections : \/ establishing'[k] = establishing[k]
                                         \/ establishing'[k] \notin {"none", "opening"}
           NoneNew == \A k \in Connections : \A i \in 1..Len(answers'[k]) :
                        Decision(answers'[k][i]) =>
                          \E j \in 1..Len(answers[k]) : Decision(answers[k][j])
           Same == host' = host /\ latest' = latest /\ held' = held /\ (astray => astray')
<1> USE DEF client, call, tasks, events, at_server, excuses
<1>o. /\ establishing \in [Connections -> {"none", "opening", "open", "done"}]
      /\ joining \in [Connections -> Rooms \cup {NoRoom}]
      /\ held => latest \in Connections
  BY <1>0 DEF MCTypeOK, ConnectionsInv
<1>h. host' \in {"storing", "leaving"}
  BY DEF Committed
<1>p. ASSUME Same, Opened, NoneNew, joining'[latest] = joining[latest] \/ joining'[latest] = NoRoom
      PROVE  Goal
  <2>1. held /\ ~astray /\ Committed /\ latest \in Connections /\ latest' = latest
    BY <1>o, <1>p DEF Committed
  <2>2. /\ establishing[latest] \notin {"none", "opening"}
        /\ Undecided(answers[latest]) /\ joining[latest] = NoRoom
    BY <2>1 DEF CommittedInv
  <2> QED
    BY <1>p, <2>1, <2>2 DEF Undecided
<1>a. UNCHANGED answers => NoneNew
  OBVIOUS
<1>e. UNCHANGED establishing => Opened
  OBVIOUS
<1>s. ASSUME NEW k \in Connections, NEW m \in Answer, Send(k, m), ~Decision(m) PROVE NoneNew
  <2> SUFFICES ASSUME NEW c \in Connections, NEW i \in 1..Len(answers'[c]),
                      Decision(answers'[c][i])
               PROVE  i \in 1..Len(answers[c]) /\ Decision(answers[c][i])
    OBVIOUS
  <2>1. /\ answers[c] \in Seq(Answer)
        /\ answers'[c] = answers[c] \/ answers'[c] = Append(answers[c], m)
    BY <1>0, <1>s DEF Send
  <2>2. \/ i \in 1..Len(answers[c]) /\ answers'[c][i] = answers[c][i]
        \/ answers'[c][i] = m
    BY <2>1
  <2> QED
    BY <1>s, <2>2
<1>t. ASSUME NEW k \in Connections, forward[k] = "working", NEW then, Handled(k, then)
      PROVE  NoneNew
  <2> SUFFICES ASSUME NEW c \in Connections, NEW i \in 1..Len(answers'[c]),
                      Decision(answers'[c][i])
               PROVE  \E j \in 1..Len(answers[c]) : Decision(answers[c][j])
    OBVIOUS
  <2>1. /\ answers[c] \in Seq(Answer)
        /\ answers'[c] = answers[c] \/ (answers'[c] = Tail(answers[c]) /\ answers[c] # <<>>)
    BY <1>0, <1>t DEF Handled, HandlingInv
  <2>2. \/ i \in 1..Len(answers[c]) /\ answers'[c][i] = answers[c][i]
        \/ i + 1 \in 1..Len(answers[c]) /\ answers'[c][i] = answers[c][i + 1]
    BY <2>1, TailElements
  <2> QED
    BY <2>2
<1>n. ASSUME ~Astray, UNCHANGED <<latest, held, establishing, answers, joining>> PROVE Goal
  <2>1. /\ ~ToBeTaken(Decision) /\ \A k \in Connections : forward[k] # "working"
        /\ ws_tx = latest /\ latest \in Connections
    BY <1>o, <1>n DEF Astray
  <2>2. receive_task[latest] /\ forward[latest] \in Running
    BY <1>n, <2>1, MobileAssumption DEF ConnectionsInv
  <2>3. establishing[latest] \notin {"none", "opening"}
    BY <2>1, <2>2 DEF ConnectionsInv
  <2>4. \A i \in 1..Len(answers[latest]) : ~Decision(answers[latest][i])
    BY <1>0, <2>1, <2>2 DEF ToBeTaken, Running
  <2> QED
    BY <1>n, <2>1, <2>3, <2>4 DEF HandlingInv, Undecided
<1>q. /\ [kind |-> "ack"] \in Answer /\ ~Decision([kind |-> "ack"])
      /\ [kind |-> "lost"] \in Answer /\ ~Decision([kind |-> "lost"])
      /\ \A r \in Rooms : /\ [kind |-> "joined", room |-> r] \in Answer
                         /\ ~Decision([kind |-> "joined", room |-> r])
  BY DEF Answer, Decision
<1>x. ASSUME NEW k \in Connections, joining' = [joining EXCEPT ![k] = NoRoom]
      PROVE  held => joining'[latest] = joining[latest] \/ joining'[latest] = NoRoom
  BY <1>o, <1>x
<1> HIDE DEF Goal, NoneNew, Opened
<1>1. ASSUME TcConnect PROVE Goal
  BY <1>1, <1>h DEF TcConnect, StopsFirst
<1>1b. ASSUME ConnectStarts PROVE Goal
  BY <1>1b, <1>h DEF ConnectStarts, Cleared
<1>2. ASSUME TcDisconnect PROVE Goal
  BY <1>2, <1>h DEF TcDisconnect, StopsFirst
<1>2b. ASSUME DisconnectClears PROVE Goal
  BY <1>2b, <1>h DEF DisconnectClears, Cleared
<1>3. ASSUME TcLeaveRoom PROVE Goal
  BY <1>3, <1>n DEF TcLeaveRoom
<1>3b. ASSUME LeaveClears PROVE Goal
  BY <1>3b, <1>h DEF LeaveClears
<1>3c. ASSUME LeaveStops PROVE Goal
  BY <1>3c, <1>h DEF LeaveStops
<1>4. ASSUME NEW r \in Rooms, TcJoinRoom(r) PROVE Goal
  BY <1>4, <1>n DEF TcJoinRoom
<1>4b. ASSUME JoinStores PROVE Goal
  BY <1>4b, <1>h DEF JoinStores
<1>4c. ASSUME JoinAsks PROVE Goal
  BY <1>4c, <1>h DEF JoinAsks
<1>5. ASSUME NEW r \in Rooms, TcJoinGroupRoom(r) PROVE Goal
  BY <1>5, <1>h DEF TcJoinGroupRoom
<1>6. ASSUME NEW k \in Connections, ConnectionOpens(k) PROVE Goal
  <2>1. Opened
    BY <1>o, <1>6 DEF ConnectionOpens, Opened
  <2> QED
    BY <1>6, <1>p, <1>a, <2>1 DEF ConnectionOpens
<1>7. ASSUME NEW k \in Connections, ConnectFails(k) PROVE Goal
  <2>1. Opened
    BY <1>o, <1>7 DEF ConnectFails, Opened
  <2> QED
    BY <1>7, <1>p, <1>a, <2>1 DEF ConnectFails
<1>8. ASSUME NEW k \in Connections, SendLogin(k) PROVE Goal
  <2>1. Opened
    BY <1>o, <1>8 DEF SendLogin, Opened
  <2> QED
    BY <1>8, <1>p, <1>a, <2>1 DEF SendLogin
<1>9. ASSUME NEW k \in Connections, SenderEnds(k) PROVE Goal
  BY <1>9, <1>p, <1>a, <1>e DEF SenderEnds
<1>10. ASSUME NEW k \in Connections, ConnectionLost(k) PROVE Goal
  <2>1. NoneNew
    BY <1>10, <1>q, <1>s DEF ConnectionLost
  <2> QED
    BY <1>10, <1>p, <1>e, <2>1 DEF ConnectionLost
<1>11. ASSUME NEW k \in Connections, AckArrives(k) PROVE Goal
  <2> PICK n \in DOMAIN answers[k] : answers' = [answers EXCEPT ![k] = RemoveAt(@, n)]
    BY <1>11 DEF AckArrives
  <2>1. NoneNew
    <3> SUFFICES ASSUME NEW c \in Connections, NEW i \in 1..Len(answers'[c]),
                        Decision(answers'[c][i])
                 PROVE  \E j \in 1..Len(answers[c]) : Decision(answers[c][j])
      BY DEF NoneNew
    <3>1. CASE c # k
      BY <1>0, <3>1
    <3>2. CASE c = k
      <4>1. /\ answers[c] \in Seq(Answer)
            /\ answers'[c] = RemoveAt(answers[c], n)
            /\ n \in 1..Len(answers[c])
        BY <1>0, <3>2
      <4>2. /\ i \in 1..Len(answers[c]) - 1 /\ Len(answers[c]) \in Nat
            /\ answers'[c][i] = IF i < n THEN answers[c][i] ELSE answers[c][i + 1]
        <5>1. /\ Len(RemoveAt(answers[c], n)) = Len(answers[c]) - 1 /\ Len(answers[c]) \in Nat
              /\ \A j \in 1..Len(answers[c]) - 1 :
                   RemoveAt(answers[c], n)[j] = IF j < n THEN answers[c][j] ELSE answers[c][j + 1]
          BY <4>1, RemoveElements
        <5> QED
          BY <4>1, <5>1
      <4>3. i \in 1..Len(answers[c]) /\ i + 1 \in 1..Len(answers[c])
        BY <4>2
      <4> QED
        BY <4>2, <4>3
    <3> QED
      BY <3>1, <3>2
  <2>2. UNCHANGED <<latest, held, host, establishing, joining, astray>>
    BY <1>11 DEF AckArrives
  <2> QED
    BY <1>p, <1>e, <2>1, <2>2
<1>12. ASSUME NEW k \in Connections, TakeEvent(k) PROVE Goal
  <2> DEFINE fresh == Head(answers[k]).kind = "joined" /\ group_join_pending
  <2>1. /\ UNCHANGED <<latest, held, host, establishing, answers>>
        /\ astray' = (astray \/ (fresh /\ host # "idle"))
        /\ joining' = [joining EXCEPT ![k] = IF fresh THEN Head(answers[k]).room ELSE NoRoom]
    BY <1>12 DEF TakeEvent
  <2>2. ~fresh
    BY <1>h, <2>1
  <2>3. joining' = [joining EXCEPT ![k] = NoRoom]
    BY <2>1, <2>2
  <2> HIDE DEF fresh
  <2>4. held /\ (astray => astray')
    BY <2>1
  <2> QED
    BY <1>x, <1>p, <1>a, <1>e, <2>1, <2>3, <2>4
<1>13. ASSUME NEW k \in Connections, RoomJoined(k) PROVE Goal
  <2>1. PICK then : Handled(k, then)
    BY <1>13 DEF RoomJoined
  <2>2. NoneNew
    BY <1>13, <1>t, <2>1 DEF RoomJoined
  <2>3. UNCHANGED <<latest, held, host, establishing>> /\ joining' = [joining EXCEPT ![k] = NoRoom]
    BY <1>13 DEF RoomJoined
  <2>4. astray => astray'
    BY <1>0, <1>13 DEF RoomJoined, MCTypeOK
  <2> QED
    BY <1>x, <1>p, <1>e, <2>2, <2>3, <2>4
<1>14. ASSUME NEW k \in Connections, UserMoved(k) PROVE Goal
  <2>1. NoneNew
    BY <1>14, <1>t DEF UserMoved
  <2> QED
    BY <1>14, <1>p, <1>e, <2>1 DEF UserMoved
<1>14b. ASSUME NEW k \in Connections, ForwardAsks(k) PROVE Goal
  BY <1>14b, <1>p, <1>a, <1>e DEF ForwardAsks
<1>15. ASSUME NEW k \in Connections, PutOut(k) PROVE Goal
  <2>1. NoneNew
    BY <1>15, <1>t DEF PutOut
  <2> QED
    BY <1>15, <1>p, <1>e, <2>1 DEF PutOut
<1>15b. ASSUME NEW k \in Connections, ForwardStops(k) PROVE Goal
  BY <1>15b, <1>p, <1>a, <1>e DEF ForwardStops
<1>15c. ASSUME NEW k \in Connections, LossStops(k) PROVE Goal
  <2>1. NoneNew
    BY <1>15c, <1>t DEF LossStops
  <2> QED
    BY <1>15c, <1>p, <1>e, <2>1 DEF LossStops
<1>15d. ASSUME NEW k \in Connections, LossClears(k) PROVE Goal
  BY <1>15d, <1>p, <1>a, <1>e DEF LossClears
<1>16. ASSUME NEW k \in Connections, ForwardEnds(k) PROVE Goal
  BY <1>16, <1>x, <1>p, <1>a, <1>e DEF ForwardEnds, Ends
<1>17. ASSUME NEW k \in Connections, ServerLogin(k) PROVE Goal
  <2>1. UNCHANGED <<latest, held, host, establishing, joining, answers, astray>>
    BY <1>17 DEF ServerLogin, Received
  <2> QED
    BY <1>p, <1>a, <1>e, <2>1
<1>18. ASSUME NEW k \in Connections, ServerJoin(k) PROVE Goal
  <2>1. /\ UNCHANGED <<latest, held, host, establishing, joining, answers>>
        /\ astray' = astray \/ astray' = TRUE
    BY <1>18 DEF ServerJoin, Received
  <2>2. astray => astray'
    BY <2>1
  <2> QED
    BY <1>p, <1>a, <1>e, <2>1, <2>2
<1>19. ASSUME NEW k \in Connections, ServerJoinGroup(k) PROVE Goal
  <2>1. Head(requests[k]).room \in Rooms
    BY <1>19, ReceivedTypes DEF ServerJoinGroup, Request
  <2>2. NoneNew
    BY <1>19, <1>s, <1>a, <1>q, <2>1 DEF ServerJoinGroup
  <2> QED
    BY <1>19, <1>p, <1>e, <2>2 DEF ServerJoinGroup, Received
<1>20. ASSUME NEW k \in Connections, ServerLeave(k) PROVE Goal
  BY <1>20, <1>p, <1>a, <1>e DEF ServerLeave, Received
<1>21. ASSUME NEW k \in Connections, ServerConfig(k) PROVE Goal
  <2>1. NoneNew
    BY <1>21, <1>s, <1>a, <1>q DEF ServerConfig
  <2> QED
    BY <1>21, <1>p, <1>e, <2>1 DEF ServerConfig, Received
<1>22. ASSUME NEW k \in Connections, Decides(k) PROVE Goal
  BY <1>22, <1>h DEF Decides
<1>23. ASSUME UNCHANGED mcVars PROVE Goal
  BY <1>23, <1>p, <1>a, <1>e DEF mcVars
<1>24. Goal
  BY <1>1, <1>1b, <1>2, <1>2b, <1>3, <1>3b, <1>3c, <1>4, <1>4b, <1>4c, <1>5, <1>6, <1>7, <1>8,
     <1>9, <1>10, <1>11, <1>12, <1>13, <1>14, <1>14b, <1>15, <1>15b, <1>15c, <1>15d, <1>16, <1>17,
     <1>18, <1>19, <1>20, <1>21, <1>22, <1>23 DEF MCNext
<1> QED
  BY <1>24 DEF Goal

LEMMA RoomStep ==
  MobileTypes /\ MobileTypes' /\ ConnectionsInv /\ ConnectionsInv' /\ HandlingInv /\ LostInv
    /\ CommittedInv /\ RoomInv /\ [MCNext]_mcVars => RoomInv'
<1> SUFFICES ASSUME MobileTypes, MobileTypes', ConnectionsInv, ConnectionsInv', HandlingInv,
                    LostInv, CommittedInv,
                    RoomInv, [MCNext]_mcVars, Calm'
             PROVE  RoomInv'
  BY DEF RoomInv
<1>0. /\ MCTypeOK /\ MCTypeOK'
      /\ requests \in [Connections -> Seq(Request)] /\ answers \in [Connections -> Seq(Answer)]
      /\ requests' \in [Connections -> Seq(Request)] /\ answers' \in [Connections -> Seq(Answer)]
  BY DEF MobileTypes
<1> DEFINE Busy == forward[latest] = "working"
           Fits(q, a, p, e, busy, pending, c) == RoomsFit(q, a, p, e, busy, pending, c)
           Fit == RoomsFit(requests[latest], answers[latest], place[latest], joining[latest],
                           Busy, StillWanted, ClientRoom)
           Goal == RoomInv'
           SameView == StillWanted' = StillWanted /\ ClientRoom' = ClientRoom
           SameRest == /\ UNCHANGED <<latest, held, joining>>
                       /\ SameView
                       /\ Busy' = Busy
<1>c. /\ held' /\ ws_tx' = latest' /\ ~astray'
      /\ \A k \in Connections \ {latest'} : joining'[k] = NoRoom
  BY DEF Calm
<1>l. /\ latest' \in Connections /\ forward'[latest'] \in Running
      /\ receive_task'[latest'] /\ latest' # NoLink /\ latest' \notin cut'
      /\ forward'[latest'] # "gone"
  BY <1>0, <1>c, MobileAssumption DEF ConnectionsInv, Running
<1>t. ASSUME latest \in Connections
      PROVE  /\ requests[latest] \in Seq(Request) /\ answers[latest] \in Seq(Answer)
             /\ place[latest] \in Rooms \cup {NoRoom} /\ joining[latest] \in Rooms \cup {NoRoom}
             /\ StillWanted \in BOOLEAN /\ Busy \in BOOLEAN
             /\ Busy => answers[latest] # <<>> /\ Head(answers[latest]).kind # "ack"
             /\ joining[latest] # NoRoom => Busy
  BY <1>0, <1>t DEF MCTypeOK, HandlingInv, StillWanted
<1>w. UNCHANGED <<call, group_join_pending, current_room>> => SameView
  BY DEF StillWanted, ClientRoom, Committed, call
<1>h. UNCHANGED <<group_join_pending, current_room>> /\ ~Committed /\ ~Committed' => SameView
  BY DEF StillWanted, ClientRoom, Committed
<1>b. ASSUME host \notin {"storing", "leaving"}
      PROVE  StillWanted = group_join_pending /\ ClientRoom = current_room /\ ~Committed
  BY <1>0, <1>b DEF StillWanted, ClientRoom, Committed, MCTypeOK
<1>z. ASSUME host' \notin {"storing", "leaving"}
      PROVE  /\ StillWanted' = group_join_pending' /\ ClientRoom' = current_room'
             /\ ~Committed'
  BY <1>0, <1>z DEF StillWanted, ClientRoom, Committed, MCTypeOK
<1>i. Calm => Fit
  BY DEF RoomInv
<1>g. RoomsFit(requests'[latest'], answers'[latest'], place'[latest'], joining'[latest'],
               forward'[latest'] = "working", StillWanted', ClientRoom') => Goal
  BY DEF RoomInv
<1>k. ASSUME UNCHANGED <<latest, held, ws_tx>>, ~astray,
             \A k \in Connections : k # latest => joining'[k] = joining[k] \/ joining[k] = NoRoom
      PROVE  Calm
  BY <1>c, <1>k DEF Calm
<1>q. /\ [kind |-> "config"] \in Request /\ [kind |-> "leave"] \in Request
      /\ [kind |-> "login"] \in Request
      /\ \A r \in Rooms : /\ [kind |-> "join", room |-> r] \in Request
                         /\ [kind |-> "group", room |-> r] \in Request
      /\ \A r \in Rooms : /\ [kind |-> "joined", room |-> r] \in Answer
                         /\ [kind |-> "moved", room |-> r] \in Answer
      /\ [kind |-> "kicked"] \in Answer /\ [kind |-> "ack"] \in Answer
  BY DEF Request, Answer
<1> HIDE DEF Goal, Fit
<1> USE DEF client, call, tasks, events, at_server, excuses
<1>p. ASSUME Calm, SameRest,
             UNCHANGED <<requests[latest], answers[latest], place[latest]>>
      PROVE  Goal
  BY <1>i, <1>g, <1>p DEF Fit
<1>1. ASSUME TcConnect PROVE Goal
  BY <1>1, <1>c DEF TcConnect, StopsFirst
<1>1b. ASSUME ConnectStarts PROVE Goal
  BY <1>1b, <1>c, <1>l DEF ConnectStarts, Cleared
<1>2. ASSUME TcDisconnect PROVE Goal
  <2>1. /\ UNCHANGED <<latest, held, ws_tx, forward, joining, requests, answers, place,
                       group_join_pending, current_room>>
        /\ ~astray /\ host = "idle" /\ host' = "clearing"
    BY <1>2, <1>c DEF TcDisconnect, StopsFirst
  <2>2. Calm /\ SameView
    BY <1>h, <1>k, <2>1 DEF Committed
  <2> QED
    BY <1>p, <2>1, <2>2
<1>2b. ASSUME DisconnectClears PROVE Goal
  BY <1>2b, <1>c DEF DisconnectClears
<1>n. ASSUME ~Astray, ~astray', latest \in Connections, forward[latest] # "gone"
      PROVE  /\ ws_tx = latest /\ Undecided(answers[latest])
             /\ \A k \in Connections : forward[k] # "working"
             /\ \A k \in Connections : joining[k] = NoRoom
  <2>1. /\ ~ToBeTaken(Decision) /\ \A k \in Connections : forward[k] # "working"
        /\ ws_tx = latest
    BY <1>n DEF Astray
  <2>2. \A i \in DOMAIN answers[latest] : ~Decision(answers[latest][i])
    BY <1>n, <2>1 DEF ToBeTaken
  <2> QED
    BY <1>t, <1>n, <2>1, <2>2 DEF HandlingInv, Undecided
<1>3. ASSUME TcLeaveRoom PROVE Goal
  <2>1. /\ UNCHANGED <<latest, held, ws_tx, forward, joining, answers, place>>
        /\ StillWanted' = FALSE /\ ClientRoom' = NoRoom
        /\ StillWanted = group_join_pending /\ ClientRoom = current_room
    <3>1. /\ UNCHANGED <<latest, held, ws_tx, forward, joining, answers, place>>
          /\ host = "idle" /\ host' = "leaving"
      BY <1>3 DEF TcLeaveRoom
    <3> QED
      BY <1>b, <3>1 DEF StillWanted, ClientRoom, Committed
  <2>2. ~Astray /\ ~astray
    BY <1>3, <1>c DEF TcLeaveRoom
  <2>3. Calm /\ Undecided(answers[latest]) /\ joining[latest] = NoRoom /\ ~Busy /\ ws_tx = latest
    BY <1>c, <1>k, <1>l, <1>n, <2>1, <2>2
  <2>4. CASE current_room # NoRoom /\ ws_tx # NoLink /\ SendWs(<<[kind |-> "leave"]>>)
    <3> DEFINE m == [kind |-> "leave"]
    <3>1. requests'[latest] = Append(requests[latest], m)
      <4>1. requests'[latest] = requests[latest] \o <<m>>
        BY <1>0, <1>l, <2>1, <2>3, <2>4 DEF SendWs
      <4> QED
        BY <1>l, <1>q, <1>t, <2>1, <4>1
    <3>2. m \in Request /\ Settles(m) /\ Into(m) = NoRoom
      BY <1>q DEF Settles, Into
    <3> HIDE DEF m
    <3>3. RoomsFit(Append(requests[latest], m), answers[latest], place[latest], NoRoom,
                   FALSE, FALSE, NoRoom)
      BY <1>l, <1>t, <2>1, <2>3, <3>2, CommandSent
    <3> QED
      BY <1>g, <2>1, <2>3, <3>1, <3>3
  <2>5. CASE /\ current_room = NoRoom \/ ws_tx = NoLink
             /\ UNCHANGED requests /\ astray' = (astray \/ Astray \/ group_join_pending)
    <3>1. current_room = NoRoom /\ ~group_join_pending
      BY <1>c, <1>l, <2>3, <2>1, <2>5
    <3>2. StillWanted = FALSE
      BY <1>l, <1>t, <2>1, <3>1
    <3> QED
      BY <1>p, <2>1, <2>3, <2>5, <3>1, <3>2
  <2> QED
    BY <1>3, <2>4, <2>5 DEF TcLeaveRoom
<1>3b. ASSUME LeaveClears PROVE Goal
  <2>1. /\ UNCHANGED <<latest, held, ws_tx, forward, joining, requests, answers, place>>
        /\ ~astray /\ host = "leaving" /\ host' = "stopping" /\ current_room' = NoRoom
        /\ group_join_pending' = FALSE
    BY <1>3b, <1>c DEF LeaveClears, RoomLeft
  <2>2. SameView
    BY <1>z, <2>1 DEF StillWanted, ClientRoom, Committed
  <2> QED
    BY <1>k, <1>p, <2>1, <2>2
<1>3c. ASSUME LeaveStops PROVE Goal
  <2>1. /\ UNCHANGED <<latest, held, ws_tx, forward, joining, requests, answers, place,
                       group_join_pending, current_room>>
        /\ ~astray /\ host = "stopping" /\ host' = "idle"
    BY <1>3c, <1>c DEF LeaveStops
  <2>2. Calm /\ SameView
    BY <1>h, <1>k, <2>1 DEF Committed
  <2> QED
    BY <1>p, <2>1, <2>2
<1>4. ASSUME NEW r \in Rooms, TcJoinRoom(r) PROVE Goal
  <2>1. /\ UNCHANGED <<latest, held, ws_tx, forward, joining, answers, place>>
        /\ StillWanted' = FALSE /\ ClientRoom' = r /\ ws_tx # NoLink
        /\ SendWs(<<[kind |-> "join", room |-> r]>>)
    BY <1>4 DEF TcJoinRoom, StillWanted, ClientRoom, Committed
  <2>2. ~Astray
    BY <1>4, <1>c DEF TcJoinRoom
  <2>3. Undecided(answers[latest]) /\ joining[latest] = NoRoom /\ ~Busy /\ ws_tx = latest
    BY <1>c, <1>l, <1>n, <2>1, <2>2 DEF Running
  <2> DEFINE m == [kind |-> "join", room |-> r]
  <2>4. m \in Request /\ Settles(m) /\ Into(m) = r
    BY <1>q DEF Settles, Into
  <2>5. requests'[latest] = requests[latest] \o <<m>>
    BY <1>0, <1>l, <2>1, <2>3 DEF SendWs
  <2> HIDE DEF m
  <2>6. requests'[latest] = Append(requests[latest], m)
    <3>1. requests[latest] \in Seq(Request)
      BY <1>l, <1>t, <2>1
    <3> QED
      BY <2>4, <2>5, <3>1
  <2>7. RoomsFit(Append(requests[latest], m), answers[latest], place[latest], NoRoom,
                 FALSE, FALSE, r)
    BY <1>l, <1>t, <2>1, <2>3, <2>4, CommandSent
  <2> QED
    BY <1>g, <2>1, <2>3, <2>6, <2>7
<1>4b. ASSUME JoinStores PROVE Goal
  <2>1. /\ UNCHANGED <<latest, held, ws_tx, forward, joining, requests, answers, place>>
        /\ ~astray /\ host = "storing" /\ host' = "asking" /\ current_room' = entering
        /\ group_join_pending' = FALSE
    BY <1>4b, <1>c DEF JoinStores, RoomStored, NoLongerPending
  <2>2. SameView
    BY <1>z, <2>1 DEF StillWanted, ClientRoom, Committed
  <2> QED
    BY <1>k, <1>p, <2>1, <2>2
<1>r. ASSUME NEW m \in Request, ~RoomCommand(m), ws_tx \in Connections,
             requests' = [requests EXCEPT ![ws_tx] = Append(@, m)], Calm
      PROVE  RoomsFit(requests'[latest], answers[latest], place[latest], joining[latest],
                      Busy, StillWanted, ClientRoom)
  <2>1. latest \in Connections /\ ws_tx = latest
    BY <1>r DEF Calm, ConnectionsInv
  <2>2. requests'[latest] = Append(requests[latest], m)
    BY <1>0, <1>r, <2>1
  <2>3. RoomsFit(Append(requests[latest], m), answers[latest], place[latest], joining[latest],
                 Busy, StillWanted, ClientRoom)
    BY <1>i, <1>r, <1>t, <2>1, RequestIgnored DEF Fit
  <2> QED
    BY <2>2, <2>3
<1>a. ASSUME Calm, SameRest, requests' = Configured, UNCHANGED <<answers, place>> PROVE Goal
  <2>1. latest \in Connections /\ ws_tx = latest /\ ws_tx # NoLink
    BY <1>a, MobileAssumption DEF Calm, ConnectionsInv
  <2> DEFINE m == [kind |-> "config"]
  <2>2. m \in Request /\ ~RoomCommand(m)
    BY <1>q DEF RoomCommand
  <2>3. requests' = [requests EXCEPT ![ws_tx] = Append(@, m)]
    BY <1>a, <2>1 DEF Configured
  <2> HIDE DEF m
  <2>4. RoomsFit(requests'[latest], answers[latest], place[latest], joining[latest],
                 Busy, StillWanted, ClientRoom)
    BY <1>a, <1>r, <2>1, <2>2, <2>3
  <2> QED
    BY <1>a, <1>g, <2>4
<1>4c. ASSUME JoinAsks PROVE Goal
  <2>1. /\ UNCHANGED <<latest, held, ws_tx, forward, joining, answers, place,
                       group_join_pending, current_room>>
        /\ ~astray /\ host = "asking" /\ host' = "idle" /\ requests' = Configured
    BY <1>4c, <1>c DEF JoinAsks
  <2>2. Calm /\ SameView
    BY <1>h, <1>k, <2>1 DEF Committed
  <2> QED
    BY <1>a, <2>1, <2>2
<1>5. ASSUME NEW r \in Rooms, TcJoinGroupRoom(r) PROVE Goal
  <2>1. /\ UNCHANGED <<latest, held, ws_tx, forward, joining, answers, place>>
        /\ StillWanted' = TRUE /\ ClientRoom' = ClientRoom /\ ws_tx # NoLink
        /\ SendWs(<<[kind |-> "group", room |-> r]>>)
    <3>1. /\ UNCHANGED <<latest, held, ws_tx, forward, joining, answers, place, current_room>>
          /\ group_join_pending' = TRUE /\ ws_tx # NoLink /\ host = "idle" /\ host' = "idle"
          /\ SendWs(<<[kind |-> "group", room |-> r]>>)
      BY <1>5 DEF TcJoinGroupRoom
    <3> QED
      BY <1>b, <1>z, <3>1
  <2>2. ~Astray /\ ~astray /\ ~OnItsWay(requests, GroupJoin) /\ ~ToBeTaken(GroupJoin)
    BY <1>5, <1>c DEF TcJoinGroupRoom
  <2>3. Calm /\ Undecided(answers[latest]) /\ joining[latest] = NoRoom /\ ~Busy /\ ws_tx = latest
    BY <1>c, <1>k, <1>l, <1>n, <2>1, <2>2
  <2>4. \A i \in 1..Len(requests[latest]) : requests[latest][i].kind # "group"
    BY <1>l, <1>t, <2>1, <2>2 DEF OnItsWay, GroupJoin
  <2>5. NoneJoined(answers[latest])
    BY <1>l, <1>t, <2>1, <2>2 DEF ToBeTaken, GroupJoin, NoneJoined
  <2> DEFINE m == [kind |-> "group", room |-> r]
  <2>6. m \in Request /\ m.kind = "group"
    BY <1>q
  <2>7. requests'[latest] = requests[latest] \o <<m>>
    BY <1>0, <1>l, <2>1, <2>3 DEF SendWs
  <2> HIDE DEF m
  <2>8. requests'[latest] = Append(requests[latest], m)
    BY <1>l, <1>t, <2>1, <2>6, <2>7
  <2>9. RoomsFit(requests[latest], answers[latest], place[latest], NoRoom,
                 FALSE, StillWanted, ClientRoom)
    BY <1>i, <2>3 DEF Fit
  <2>t. requests[latest] \in Seq(Request) /\ StillWanted \in BOOLEAN
    BY <1>l, <1>t, <2>1
  <2>11. RoomsFit(Append(requests[latest], m), answers[latest], place[latest], NoRoom, FALSE, TRUE,
                  ClientRoom)
    BY <2>3, <2>4, <2>5, <2>6, <2>9, <2>t, GroupJoinSent
  <2>10. RoomsFit(requests'[latest], answers[latest], place[latest], NoRoom,
                  FALSE, TRUE, ClientRoom)
    BY <2>8, <2>11
  <2> QED
    BY <1>g, <2>1, <2>3, <2>10
<1>6. ASSUME NEW k \in Connections, ConnectionOpens(k) PROVE Goal
  <2>1. /\ k = latest /\ establishing[k] = "opening" /\ current_room' = NoRoom
        /\ UNCHANGED <<latest, held, host, forward, joining, requests, answers, place,
                       group_join_pending>>
        /\ ~astray
    BY <1>6, <1>c DEF ConnectionOpens
  <2>5. host' \notin {"storing", "leaving"}
    BY <1>c, <2>1 DEF CommittedInv, Committed
  <2>2. requests[k] = <<>> /\ answers[k] = <<>> /\ place[k] = NoRoom
    BY <2>1 DEF ConnectionsInv, Unopened
  <2>3. forward[k] # "working" /\ joining[k] = NoRoom
    BY <2>2 DEF HandlingInv
  <2>4. RoomsFit(<<>>, <<>>, NoRoom, NoRoom, FALSE, StillWanted', NoRoom)
    BY DEF RoomsFit, Undecided, NoneJoined, LeadsTo, GroupsFit
  <2>6. ClientRoom' = NoRoom
    BY <1>z, <2>1, <2>5
  <2> QED
    BY <1>g, <2>1, <2>2, <2>3, <2>4, <2>6
<1>7. ASSUME NEW k \in Connections, ConnectFails(k) PROVE Goal
  BY <1>7, <1>c, <1>k, <1>p, <1>w DEF ConnectFails
<1>8. ASSUME NEW k \in Connections, SendLogin(k) PROVE Goal
  <2>1. /\ UNCHANGED <<latest, held, ws_tx, forward, joining, answers, place>>
        /\ SameView /\ ~astray
    BY <1>8, <1>c, <1>w DEF SendLogin
  <2>2. Calm
    BY <1>k, <2>1
  <2>3. CASE ws_tx = NoLink
    BY <1>8, <1>p, <2>1, <2>2, <2>3 DEF SendLogin
  <2>4. CASE ws_tx # NoLink
    <3> DEFINE m == [kind |-> "login"]
    <3>1. m \in Request /\ ~RoomCommand(m) /\ ws_tx \in Connections
      BY <1>0, <1>q, <2>4 DEF RoomCommand, MCTypeOK
    <3>2. requests' = [requests EXCEPT ![ws_tx] = @ \o <<m>>]
      BY <1>8, <2>4 DEF SendLogin, SendWs
    <3> HIDE DEF m
    <3>3. \A s \in Seq(Request) : s \o <<m>> = Append(s, m)
      BY <3>1
    <3>4. requests' = [requests EXCEPT ![ws_tx] = Append(@, m)]
      BY <1>0, <3>1, <3>2, <3>3
    <3> QED
      BY <1>g, <1>r, <2>1, <2>2, <3>1, <3>4
  <2> QED
    BY <2>3, <2>4
<1>9. ASSUME NEW k \in Connections, SenderEnds(k) PROVE Goal
  BY <1>9, <1>c, <1>l DEF SenderEnds
<1>10. ASSUME NEW k \in Connections, ConnectionLost(k) PROVE Goal
  BY <1>10, <1>c, <1>l DEF ConnectionLost
<1>11. ASSUME NEW k \in Connections, AckArrives(k) PROVE Goal
  <2>1. /\ UNCHANGED <<latest, held, ws_tx, forward, joining, requests, place>>
        /\ SameView /\ ~astray
    BY <1>11, <1>c, <1>w DEF AckArrives
  <2>2. Calm
    BY <1>k, <2>1
  <2>3. CASE k # latest
    BY <1>11, <1>p, <2>1, <2>2, <2>3 DEF AckArrives
  <2>4. CASE k = latest
    <3>1. PICK n \in DOMAIN answers[latest] : answers[latest][n].kind = "ack"
                                  /\ answers' = [answers EXCEPT ![latest] = RemoveAt(@, n)]
      BY <1>11, <2>4 DEF AckArrives
    <3>2. answers'[latest] = RemoveAt(answers[latest], n) /\ n \in 1..Len(answers[latest])
      BY <1>0, <1>l, <1>t, <2>1, <3>1
    <3>4. Busy => Head(answers[latest]).kind # "ack"
      BY <1>l, <1>t, <2>1
    <3>5. Busy \in BOOLEAN
      OBVIOUS
    <3> HIDE DEF Busy
    <3>3. RoomsFit(requests[latest], RemoveAt(answers[latest], n), place[latest], joining[latest],
                   Busy, StillWanted, ClientRoom)
      BY <1>i, <1>l, <1>t, <2>1, <2>2, <3>1, <3>2, <3>4, <3>5, AckTaken DEF Fit
    <3> QED
      BY <1>g, <2>1, <3>2, <3>3 DEF Busy
  <2> QED
    BY <2>3, <2>4
<1>12. ASSUME NEW k \in Connections, TakeEvent(k) PROVE Goal
  <2> DEFINE taken == Head(answers[k]).kind = "joined" /\ StillWanted
  <2>1. /\ UNCHANGED <<latest, held, ws_tx, requests, answers, place>>
        /\ ~astray
        /\ forward[k] = "waiting" /\ answers[k] # <<>>
        /\ forward' = [forward EXCEPT ![k] = "working"]
        /\ joining' = [joining EXCEPT ![k] = IF taken THEN Head(answers[k]).room ELSE NoRoom]
        /\ StillWanted' = (StillWanted /\ ~taken) /\ ClientRoom' = ClientRoom
    <3> DEFINE fresh == Head(answers[k]).kind = "joined" /\ group_join_pending
    <3>1. /\ UNCHANGED <<latest, held, ws_tx, requests, answers, place, current_room, host,
                         entering>>
          /\ ~astray /\ (fresh => host = "idle")
          /\ forward[k] = "waiting" /\ answers[k] # <<>>
          /\ forward' = [forward EXCEPT ![k] = "working"]
          /\ joining' = [joining EXCEPT ![k] = IF fresh THEN Head(answers[k]).room ELSE NoRoom]
          /\ group_join_pending' = (group_join_pending /\ ~fresh)
      BY <1>12, <1>c DEF TakeEvent
    <3>2. fresh <=> taken
      BY <3>1 DEF StillWanted, Committed
    <3>3. ClientRoom' = ClientRoom /\ Committed' = Committed
      BY <3>1 DEF ClientRoom, Committed
    <3>4. StillWanted' = (StillWanted /\ ~taken)
      BY <3>1, <3>2, <3>3 DEF StillWanted
    <3> HIDE DEF fresh, taken
    <3>5. joining' = [joining EXCEPT ![k] = IF taken THEN Head(answers[k]).room ELSE NoRoom]
      <4>1. CASE taken
        BY <3>1, <3>2, <4>1
      <4>2. CASE ~taken
        BY <3>1, <3>2, <4>2
      <4> QED
        BY <4>1, <4>2
    <3> QED
      BY <3>1, <3>3, <3>4, <3>5
  <2>2. joining[k] = NoRoom
    BY <2>1 DEF HandlingInv
  <2>3. Calm
    <3>1. \A c \in Connections : joining'[c] = joining[c] \/ joining[c] = NoRoom
      BY <1>0, <2>1, <2>2 DEF MCTypeOK
    <3> QED
      BY <1>k, <2>1, <3>1
  <2>4. CASE k # latest
    <3>1. joining'[k] = NoRoom
      BY <1>c, <2>1, <2>4
    <3>2. Head(answers[k]).kind = "joined" => Head(answers[k]).room \in Rooms
      <4>1. Head(answers[k]) \in Answer
        BY <1>0, <2>1
      <4> QED
        BY <4>1 DEF Answer
    <3>3. ~taken
      BY <1>0, <2>1, <3>1, <3>2, MobileAssumption DEF MCTypeOK
    <3>4. joining' = joining /\ Busy' = Busy
      BY <1>0, <2>1, <2>2, <2>4, <3>3 DEF MCTypeOK
    <3>5. StillWanted' = StillWanted
      BY <1>l, <1>t, <2>1, <3>3
    <3> QED
      BY <1>p, <2>1, <2>3, <3>4, <3>5
  <2>5. CASE k = latest
    <3>1. /\ joining'[latest] = (IF taken THEN Head(answers[latest]).room ELSE NoRoom)
          /\ forward'[latest] = "working"
      BY <1>0, <1>l, <2>1, <2>5 DEF MCTypeOK
    <3>2. RoomsFit(requests[latest], answers[latest], place[latest], NoRoom,
                   FALSE, StillWanted, ClientRoom)
      <4>1. Busy = FALSE
        BY <2>1, <2>5
      <4> QED
        BY <1>i, <2>2, <2>3, <2>5, <4>1 DEF Fit
    <3>3. RoomsFit(requests[latest], answers[latest], place[latest],
                   IF taken THEN Head(answers[latest]).room ELSE NoRoom,
                   TRUE, StillWanted /\ ~taken, ClientRoom)
      BY <1>l, <1>t, <2>1, <2>5, <3>2, EventTaken
    <3> HIDE DEF taken
    <3> QED
      BY <1>g, <2>1, <3>1, <3>3
  <2> QED
    BY <2>4, <2>5
<1>m. ASSUME Calm, joining[latest] # NoRoom \/ ~Undecided(answers[latest])
      PROVE  host \notin {"storing", "leaving"}
  BY <1>m DEF CommittedInv, Calm, Committed
<1>13. ASSUME NEW k \in Connections, RoomJoined(k) PROVE Goal
  <2>1. /\ UNCHANGED <<latest, held, ws_tx, place, requests, call, group_join_pending>>
        /\ ~astray
        /\ forward[k] = "working" /\ Head(answers[k]).kind = "joined"
        /\ \E v \in {"waiting", "asking"} : forward' = [forward EXCEPT ![k] = v]
        /\ answers' = [answers EXCEPT ![k] = Tail(@)]
        /\ joining' = [joining EXCEPT ![k] = NoRoom]
        /\ \/ joining[k] = NoRoom /\ UNCHANGED current_room
           \/ joining[k] # NoRoom /\ ~Late(k) /\ current_room' = joining[k]
    <3>1. \/ joining[k] = NoRoom /\ UNCHANGED <<current_room, astray>>
          \/ joining[k] # NoRoom /\ astray' = (astray \/ Late(k)) /\ current_room' = joining[k]
      BY <1>13 DEF RoomJoined, RoomStored
    <3>2. /\ UNCHANGED <<latest, held, ws_tx, place, requests, call, group_join_pending>>
          /\ forward[k] = "working" /\ Head(answers[k]).kind = "joined"
          /\ \E v \in {"waiting", "asking"} : forward' = [forward EXCEPT ![k] = v]
          /\ answers' = [answers EXCEPT ![k] = Tail(@)]
          /\ joining' = [joining EXCEPT ![k] = NoRoom]
      BY <1>13 DEF RoomJoined, Handled
    <3>4. astray \in BOOLEAN /\ astray' = FALSE
      BY <1>0, <1>c DEF MCTypeOK
    <3>3. ~astray /\ (joining[k] # NoRoom => ~Late(k))
      <4>1. CASE joining[k] = NoRoom
        BY <3>1, <3>4, <4>1
      <4>2. CASE joining[k] # NoRoom
        <5>1. astray' = (astray \/ Late(k))
          BY <3>1, <4>2
        <5> QED
          BY <3>4, <5>1 DEF Late
      <4> QED
        BY <4>1, <4>2
    <3> QED
      BY <3>1, <3>2, <3>3
  <2>2. CASE k # latest
    <3>1. joining[k] = NoRoom /\ SameView
      BY <1>w, <2>1, <2>2 DEF Late
    <3>2. joining' = joining /\ Busy' = Busy /\ answers'[latest] = answers[latest]
      BY <1>0, <1>l, <2>1, <2>2, <3>1 DEF MCTypeOK
    <3>3. Calm
      BY <1>k, <2>1, <3>2
    <3> QED
      BY <1>p, <2>1, <3>1, <3>2, <3>3
  <2>3. CASE k = latest
    <3>1. /\ joining'[latest] = NoRoom
          /\ forward'[latest] # "working"
          /\ answers'[latest] = Tail(answers[latest])
      BY <1>0, <1>l, <2>1, <2>3 DEF MCTypeOK
    <3>2. Calm
      <4>1. \A c \in Connections : c # latest => joining'[c] = joining[c]
        BY <1>0, <2>1, <2>3 DEF MCTypeOK
      <4> QED
        BY <1>k, <2>1, <4>1
    <3>3. /\ answers[latest] \in Seq(Answer)
          /\ answers[latest] # <<>>
          /\ StillWanted \in BOOLEAN
          /\ RoomsFit(requests[latest], answers[latest], place[latest], joining[latest],
                      TRUE, StillWanted, ClientRoom)
      <4>1. Busy = TRUE
        BY <2>1, <2>3
      <4> QED
        BY <1>i, <1>l, <1>t, <2>1, <3>2, <4>1 DEF Fit
    <3>4. CASE joining[latest] = NoRoom /\ UNCHANGED current_room
      <4>1. RoomsFit(requests[latest], Tail(answers[latest]), place[latest], NoRoom,
                     FALSE, StillWanted, ClientRoom)
        BY <2>1, <2>3, <3>3, <3>4, JoinedIgnored
      <4>2. SameView
        BY <1>w, <2>1, <3>4
      <4> QED
        BY <1>g, <2>1, <3>1, <4>1, <4>2
    <3>5. CASE joining[latest] # NoRoom /\ current_room' = joining[latest]
      <4>0. Head(answers[latest]).kind = "joined"
        BY <2>1, <2>3
      <4>1. RoomsFit(requests[latest], Tail(answers[latest]), place[latest], NoRoom,
                     FALSE, StillWanted, joining[latest])
        BY <3>3, <3>5, <4>0, JoinedTaken
      <4>2. host \notin {"storing", "leaving"} /\ host' = host
        BY <1>m, <2>1, <3>2, <3>5
      <4>3. StillWanted' = StillWanted /\ ClientRoom' = joining[latest]
        BY <1>b, <1>z, <2>1, <3>5, <4>2
      <4> QED
        BY <1>g, <2>1, <3>1, <4>1, <4>3
    <3> QED
      BY <2>1, <2>3, <3>4, <3>5
  <2> QED
    BY <2>2, <2>3
<1>d. ASSUME forward[latest] = "working", Decision(Head(answers[latest])), Calm,
             latest \in Connections
      PROVE  /\ RoomsFit(requests[latest], Tail(answers[latest]), place[latest], NoRoom, FALSE,
                         StillWanted, Into(Head(answers[latest])))
             /\ host \notin {"storing", "leaving"}
  <2>1. Busy = TRUE
    BY <1>d
  <2>2. RoomsFit(requests[latest], answers[latest], place[latest], joining[latest],
                 TRUE, StillWanted, ClientRoom)
    BY <1>d, <1>i, <2>1 DEF Fit
  <2>3. ~Undecided(answers[latest])
    <3>1. answers[latest] \in Seq(Answer) /\ answers[latest] # <<>>
      BY <1>d, <1>t
    <3>2. Head(answers[latest]) = answers[latest][1] /\ 1 \in 1..Len(answers[latest])
      BY <3>1
    <3> QED
      BY <1>d, <3>2 DEF Undecided
  <2> QED
    BY <1>d, <1>m, <1>t, <2>2, <2>3, DecisionTaken
<1>14. ASSUME NEW k \in Connections, UserMoved(k) PROVE Goal
  <2>1. /\ UNCHANGED <<latest, held, ws_tx, place, joining, requests, host, group_join_pending>>
        /\ ~astray /\ k = latest
        /\ forward[k] = "working" /\ Head(answers[k]).kind = "moved"
        /\ forward' = [forward EXCEPT ![k] = "asking"]
        /\ answers' = [answers EXCEPT ![k] = Tail(@)]
        /\ current_room' = Head(answers[k]).room
    BY <1>14, <1>c DEF UserMoved, RoomStored, Handled, Late
  <2>2. /\ forward'[latest] = "asking" /\ answers'[latest] = Tail(answers[latest])
        /\ joining'[latest] = NoRoom
    BY <1>0, <1>l, <2>1 DEF MCTypeOK, HandlingInv
  <2>3. Calm
    BY <1>k, <2>1
  <2>4. Decision(Head(answers[latest])) /\ Into(Head(answers[latest])) = current_room'
    BY <2>1 DEF Decision, Into
  <2>5. /\ RoomsFit(requests[latest], Tail(answers[latest]), place[latest], NoRoom, FALSE,
                    StillWanted, current_room')
        /\ host \notin {"storing", "leaving"}
    BY <1>d, <1>l, <2>1, <2>3, <2>4
  <2>6. StillWanted' = StillWanted /\ ClientRoom' = current_room'
    BY <1>b, <1>z, <2>1, <2>5
  <2> QED
    BY <1>g, <2>1, <2>2, <2>5, <2>6
<1>f. ASSUME NEW k \in Connections, forward[k] # "working",
             forward' = [forward EXCEPT ![k] = "waiting"]
      PROVE  latest \in Connections => Busy' = Busy \/ latest' # latest
  BY <1>0, <1>f DEF MCTypeOK
<1>14b. ASSUME NEW k \in Connections, ForwardAsks(k) PROVE Goal
  <2>1. /\ UNCHANGED <<latest, held, ws_tx, joining, answers, place>> /\ ~astray /\ SameView
        /\ requests' = Configured
    BY <1>14b, <1>c, <1>w DEF ForwardAsks
  <2>2. Busy' = Busy
    BY <1>14b, <1>f, <1>l, <2>1 DEF ForwardAsks
  <2> QED
    BY <1>a, <1>k, <2>1, <2>2
<1>15. ASSUME NEW k \in Connections, PutOut(k) PROVE Goal
  <2>1. /\ UNCHANGED <<latest, held, ws_tx, requests, place, joining, host, group_join_pending>>
        /\ ~astray /\ k = latest
        /\ forward[k] = "working" /\ Head(answers[k]).kind = "kicked"
        /\ forward' = [forward EXCEPT ![k] = "stopping"]
        /\ answers' = [answers EXCEPT ![k] = Tail(@)]
        /\ current_room' = NoRoom
    BY <1>15, <1>c DEF PutOut, RoomLeft, Handled, Late
  <2>2. /\ forward'[latest] = "stopping" /\ answers'[latest] = Tail(answers[latest])
        /\ joining'[latest] = NoRoom
    BY <1>0, <1>l, <2>1 DEF MCTypeOK, HandlingInv
  <2>3. Calm
    BY <1>k, <2>1
  <2>5. Decision(Head(answers[latest])) /\ Into(Head(answers[latest])) = NoRoom
    BY <2>1 DEF Decision, Into
  <2>6. /\ RoomsFit(requests[latest], Tail(answers[latest]), place[latest], NoRoom, FALSE,
                    StillWanted, NoRoom)
        /\ host \notin {"storing", "leaving"}
    BY <1>d, <1>l, <2>1, <2>3, <2>5
  <2>7. StillWanted' = StillWanted /\ ClientRoom' = NoRoom
    BY <1>b, <1>z, <2>1, <2>6
  <2> QED
    BY <1>g, <2>1, <2>2, <2>6, <2>7
<1>15b. ASSUME NEW k \in Connections, ForwardStops(k) PROVE Goal
  <2>1. /\ UNCHANGED <<latest, held, ws_tx, joining, requests, answers, place>> /\ ~astray
        /\ SameView
    BY <1>15b, <1>c, <1>w DEF ForwardStops
  <2>2. Busy' = Busy
    BY <1>15b, <1>f, <1>l, <2>1 DEF ForwardStops
  <2> QED
    BY <1>k, <1>p, <2>1, <2>2
<1>15c. ASSUME NEW k \in Connections, LossStops(k) PROVE Goal
  <2>1. /\ UNCHANGED <<latest, held, ws_tx, receive_task, joining, requests, place>> /\ ~astray
        /\ SameView
        /\ forward[k] = "working" /\ Head(answers[k]).kind = "lost"
        /\ forward' = [forward EXCEPT ![k] = "clearing"]
        /\ answers' = [answers EXCEPT ![k] = Tail(@)]
    BY <1>15c, <1>c, <1>w DEF LossStops, Handled
  <2>2. k # latest
    <3>1. answers[k] \in Seq(Answer) /\ answers[k] # <<>>
      BY <1>0, <2>1 DEF HandlingInv
    <3>2. Head(answers[k]) = answers[k][1] /\ 1 \in 1..Len(answers[k])
      BY <3>1
    <3> QED
      BY <1>l, <2>1, <3>2 DEF LostInv
  <2>3. Busy' = Busy /\ answers'[latest] = answers[latest]
    BY <1>0, <1>l, <2>1, <2>2 DEF MCTypeOK
  <2> QED
    BY <1>k, <1>p, <2>1, <2>3
<1>15d. ASSUME NEW k \in Connections, LossClears(k) PROVE Goal
  <2>1. k = latest /\ UNCHANGED <<latest, receive_task>> /\ forward[k] = "clearing"
    BY <1>15d, <1>c DEF LossClears, Late
  <2> QED
    BY <1>l, <2>1 DEF LostInv
<1>16. ASSUME NEW k \in Connections, ForwardEnds(k) PROVE Goal
  <2>1. /\ UNCHANGED <<latest, held, ws_tx, requests, answers, place>> /\ SameView
        /\ ~astray /\ k \in cut /\ forward[k] = "waiting"
        /\ forward' = [forward EXCEPT ![k] = "gone"]
        /\ joining' = [joining EXCEPT ![k] = NoRoom]
    BY <1>16, <1>c, <1>w DEF ForwardEnds, Ends
  <2>2. k # latest
    BY <1>c, <2>1 DEF ConnectionsInv
  <2>3. joining[k] = NoRoom
    BY <2>1 DEF HandlingInv
  <2>4. joining' = joining /\ Busy' = Busy
    BY <1>0, <2>1, <2>2, <2>3 DEF MCTypeOK
  <2> QED
    BY <1>k, <1>p, <2>1, <2>4
<1>v. ASSUME NEW k \in Connections, NEW kind, Received(k, kind), ~astray
      PROVE  /\ UNCHANGED <<latest, held, ws_tx, joining, forward>>
             /\ SameView /\ Calm
             /\ k # latest => requests'[latest] = requests[latest]
             /\ requests'[k] = Tail(requests[k])
             /\ requests[k] \in Seq(Request)
             /\ requests[k] # <<>>
             /\ Head(requests[k]) \in Request /\ Head(requests[k]).kind = kind
             /\ receive_task[k]
  <2>1. /\ UNCHANGED <<latest, held, ws_tx, joining, forward>> /\ SameView
        /\ requests' = [requests EXCEPT ![k] = Tail(@)]
        /\ requests[k] # <<>> /\ Head(requests[k]).kind = kind /\ receive_task[k]
    BY <1>v, <1>w DEF Received
  <2> QED
    BY <1>0, <1>k, <1>l, <1>v, <2>1
<1>x. ASSUME NEW k \in Connections, NEW kind \in {"login", "config", "group"}, Received(k, kind),
             ~astray,
             UNCHANGED place
      PROVE  RoomsFit(requests'[latest], answers[latest], place[latest], joining[latest], Busy,
                      StillWanted, ClientRoom)
  <2>1. CASE k # latest
    BY <1>i, <1>v, <1>x, <2>1 DEF Fit
  <2>2. CASE k = latest
    <3>1. ~Settles(Head(requests[latest]))
      BY <1>v, <1>x, <2>2 DEF Settles
    <3>2. Busy \in BOOLEAN
      OBVIOUS
    <3> HIDE DEF Busy
    <3> QED
      BY <1>i, <1>t, <1>v, <1>x, <2>2, <3>1, <3>2, RequestDone DEF Fit
  <2> QED
    BY <2>1, <2>2
<1>y. ASSUME NEW k \in Connections, NEW kind \in {"join", "leave"}, Received(k, kind), ~astray,
             place' = [place EXCEPT ![k] = Into(Head(requests[k]))], UNCHANGED answers
      PROVE  Goal
  <2>1. CASE k # latest
    <3>1. place'[latest] = place[latest]
      BY <1>0, <1>l, <1>v, <1>y, <2>1 DEF MCTypeOK
    <3> QED
      BY <1>p, <1>v, <1>y, <2>1, <3>1
  <2>2. CASE k = latest
    <3>1. Settles(Head(requests[latest]))
      BY <1>v, <1>y, <2>2 DEF Settles
    <3>2. place'[latest] = Into(Head(requests[latest]))
      BY <1>0, <1>y, <2>2 DEF MCTypeOK
    <3>4. Busy \in BOOLEAN
      OBVIOUS
    <3> HIDE DEF Busy
    <3>3. RoomsFit(Tail(requests[latest]), answers[latest], Into(Head(requests[latest])),
                   joining[latest], Busy, StillWanted, ClientRoom)
      BY <1>i, <1>t, <1>v, <1>y, <2>2, <3>1, <3>4, CommandDone DEF Fit
    <3> QED
      BY <1>g, <1>v, <1>y, <2>2, <3>2, <3>3 DEF Busy
  <2> QED
    BY <2>1, <2>2
<1>17. ASSUME NEW k \in Connections, ServerLogin(k) PROVE Goal
  <2>1. Received(k, "login") /\ ~astray /\ UNCHANGED <<place, answers>>
    BY <1>17, <1>c DEF ServerLogin
  <2> QED
    BY <1>g, <1>v, <1>x, <2>1
<1>18. ASSUME NEW k \in Connections, ServerJoin(k) PROVE Goal
  <2>1. /\ Received(k, "join") /\ ~astray /\ UNCHANGED answers
        /\ place' = [place EXCEPT ![k] = Head(requests[k]).room]
    BY <1>18, <1>c DEF ServerJoin
  <2>2. Into(Head(requests[k])) = Head(requests[k]).room
    BY <2>1, <1>v DEF Into
  <2> QED
    BY <1>y, <2>1, <2>2
<1>s. ASSUME NEW k \in Connections, NEW m \in Answer, Send(k, m)
      PROVE  /\ k # latest' => answers'[latest'] = answers[latest']
             /\ k = latest' /\ forward[k] # "gone" => answers'[k] = Append(answers[k], m)
  BY <1>0, <1>l, <1>s DEF Send
<1>19. ASSUME NEW k \in Connections, ServerJoinGroup(k) PROVE Goal
  <2>1. Received(k, "group") /\ ~astray
    BY <1>19, <1>c DEF ServerJoinGroup
  <2> DEFINE m == [kind |-> "joined", room |-> Head(requests[k]).room]
  <2>2. CASE UNCHANGED <<place, answers>>
    BY <1>g, <1>v, <1>x, <2>1, <2>2
  <2>3. CASE place' = [place EXCEPT ![k] = Head(requests[k]).room] /\ Send(k, m)
    <3>1. m \in Answer /\ m.kind = "joined" /\ m.room = Head(requests[k]).room
      <4>1. Head(requests[k]) \in Request /\ Head(requests[k]).kind = "group"
        BY <1>v, <2>1
      <4>2. Head(requests[k]).room \in Rooms
        BY <4>1 DEF Request
      <4> QED
        BY <1>q, <4>2
    <3> HIDE DEF m
    <3>2. CASE k # latest
      <4>1. place'[latest] = place[latest] /\ answers'[latest] = answers[latest]
        BY <1>0, <1>l, <1>s, <1>v, <2>1, <2>3, <3>1, <3>2 DEF MCTypeOK
      <4> QED
        BY <1>p, <1>v, <2>1, <3>2, <4>1
    <3>3. CASE k = latest
      <4>1. /\ place'[latest] = m.room /\ answers'[latest] = Append(answers[latest], m)
            /\ requests'[latest] = Tail(requests[latest])
        <5>1. forward[latest] # "gone" /\ latest' = latest
          BY <1>l, <1>v, <2>1
        <5> QED
          BY <1>0, <1>s, <1>v, <2>1, <2>3, <3>1, <3>3, <5>1 DEF MCTypeOK
      <4>3. /\ requests[latest] \in Seq(Request) /\ requests[latest] # <<>>
            /\ Head(requests[latest]).kind = "group"
            /\ answers[latest] \in Seq(Answer) /\ StillWanted \in BOOLEAN
            /\ Busy => answers[latest] # <<>>
        BY <1>t, <1>v, <2>1, <3>3
      <4>4. Fit /\ Busy \in BOOLEAN
        BY <1>i, <1>v, <2>1
      <4> HIDE DEF Busy
      <4>2. RoomsFit(Tail(requests[latest]), Append(answers[latest], m), m.room, joining[latest],
                     Busy, StillWanted, ClientRoom)
        BY <3>1, <4>3, <4>4, GroupJoinDone DEF Fit
      <4> QED
        BY <1>g, <1>v, <2>1, <4>1, <4>2 DEF Busy
    <3> QED
      BY <3>2, <3>3
  <2> QED
    BY <1>19, <2>2, <2>3 DEF ServerJoinGroup
<1>20. ASSUME NEW k \in Connections, ServerLeave(k) PROVE Goal
  <2>1. /\ Received(k, "leave") /\ ~astray /\ UNCHANGED answers
        /\ place' = [place EXCEPT ![k] = NoRoom]
    BY <1>20, <1>c DEF ServerLeave
  <2>2. Into(Head(requests[k])) = NoRoom
    BY <2>1, <1>v DEF Into
  <2> QED
    BY <1>y, <2>1, <2>2
<1>21. ASSUME NEW k \in Connections, ServerConfig(k) PROVE Goal
  <2>1. Received(k, "config") /\ ~astray /\ UNCHANGED place
    BY <1>21, <1>c DEF ServerConfig
  <2> DEFINE m == [kind |-> "ack"]
  <2>2. RoomsFit(requests'[latest], answers[latest], place[latest], joining[latest], Busy,
                 StillWanted, ClientRoom)
    BY <1>x, <2>1
  <2>3. CASE UNCHANGED answers
    BY <1>g, <1>v, <2>1, <2>2, <2>3
  <2>4. CASE Send(k, m)
    <3>1. m \in Answer /\ m.kind = "ack"
      BY <1>q
    <3> HIDE DEF m
    <3>2. CASE k # latest
      <4>1. answers'[latest] = answers[latest]
        BY <1>s, <1>v, <2>1, <2>4, <3>1, <3>2
      <4> QED
        BY <1>g, <1>v, <2>1, <2>2, <4>1
    <3>3. CASE k = latest
      <4>1. latest' = latest /\ forward[latest] # "gone"
        BY <1>l, <1>v, <2>1
      <4>2. answers'[latest] = Append(answers[latest], m)
        BY <1>s, <2>4, <3>1, <3>3, <4>1
      <4>3. RoomsFit(requests'[latest], Append(answers[latest], m), place[latest],
                     joining[latest], Busy, StillWanted, ClientRoom)
        BY <1>t, <2>2, <3>1, <3>3, AnswerIgnored
      <4> QED
        BY <1>g, <1>v, <2>1, <4>2, <4>3
    <3> QED
      BY <3>2, <3>3
  <2> QED
    BY <1>21, <2>3, <2>4 DEF ServerConfig
<1>22. ASSUME NEW k \in Connections, Decides(k) PROVE Goal
  <2>1. /\ UNCHANGED <<latest, held, ws_tx, forward, joining, requests>> /\ SameView
        /\ ~astray /\ ~StillWanted /\ ~OnItsWay(requests, RoomCommand)
        /\ forward[k] # "gone"
    BY <1>22, <1>c, <1>w DEF Decides, StillWanted
  <2>2. Calm
    BY <1>k, <2>1
  <2>3. PICK m \in Answer : Decision(m) /\ Send(k, m) /\ place' = [place EXCEPT ![k] = Into(m)]
    <3>1. CASE \E r \in Rooms : /\ place' = [place EXCEPT ![k] = r]
                                /\ Send(k, [kind |-> "moved", room |-> r])
      <4> PICK r \in Rooms : /\ place' = [place EXCEPT ![k] = r]
                             /\ Send(k, [kind |-> "moved", room |-> r])
        BY <3>1
      <4> DEFINE m == [kind |-> "moved", room |-> r]
      <4>1. m \in Answer /\ Decision(m) /\ Into(m) = r
        BY <1>q DEF Decision, Into
      <4> QED
        BY <4>1
    <3>2. CASE place' = [place EXCEPT ![k] = NoRoom] /\ Send(k, [kind |-> "kicked"])
      <4> DEFINE m == [kind |-> "kicked"]
      <4>1. m \in Answer /\ Decision(m) /\ Into(m) = NoRoom
        BY <1>q DEF Decision, Into
      <4> QED
        BY <3>2, <4>1
    <3> QED
      BY <1>22, <3>1, <3>2 DEF Decides
  <2>4. CASE k # latest
    <3>1. place'[latest] = place[latest] /\ answers'[latest] = answers[latest]
      BY <1>0, <1>l, <1>s, <2>1, <2>3, <2>4 DEF MCTypeOK
    <3> QED
      BY <1>p, <2>1, <2>2, <3>1
  <2>5. CASE k = latest
    <3>1. place'[latest] = Into(m) /\ answers'[latest] = Append(answers[latest], m)
      BY <1>0, <1>s, <2>1, <2>3, <2>5 DEF MCTypeOK
    <3>2. NoCommand(requests[latest])
      BY <1>l, <1>t, <2>1 DEF OnItsWay, NoCommand
    <3>3. RoomsFit(requests[latest], Append(answers[latest], m), Into(m), joining[latest], Busy,
                   FALSE, ClientRoom)
      BY <1>l, <1>t, <2>1, <2>3, <3>2, DecisionSent
    <3>4. StillWanted' = FALSE
      BY <1>l, <1>t, <2>1
    <3> QED
      BY <1>g, <2>1, <3>1, <3>3, <3>4
  <2> QED
    BY <2>4, <2>5
<1>23. ASSUME UNCHANGED mcVars PROVE Goal
  BY <1>23, <1>c, <1>k, <1>p, <1>w DEF mcVars
<1>24. Goal
  BY <1>1, <1>1b, <1>2, <1>2b, <1>3, <1>3b, <1>3c, <1>4, <1>4b, <1>4c, <1>5, <1>6, <1>7, <1>8,
     <1>9, <1>10, <1>11, <1>12, <1>13, <1>14, <1>14b, <1>15, <1>15b, <1>15c, <1>15d, <1>16, <1>17,
     <1>18, <1>19, <1>20, <1>21, <1>22, <1>23 DEF MCNext
<1> QED
  BY <1>24 DEF Goal

(* With nothing on its way, the room tc_current_room reports is the one the
   server has the user in, whatever the host, the connections and the server did
   before, unless it is excused: with any number of calls, rooms and connections. *)
THEOREM RoomHeld == MCSpec => []RoomAgreed
<1>1. MCInit => LostInv /\ CommittedInv /\ RoomInv
  BY DEF MCInit, LostInv, CommittedInv, Committed, RoomInv, Calm
<1>2. MobileTypes /\ ConnectionsInv /\ HandlingInv /\ RoomInv => RoomAgreed
  <2> SUFFICES ASSUME MobileTypes, ConnectionsInv, HandlingInv, RoomInv, AllQuiet, ~astray
               PROVE  current_room = place[latest]
    BY DEF RoomAgreed
  <2>1. /\ held /\ ws_tx = latest /\ latest \in Connections
        /\ requests[latest] = <<>> /\ answers[latest] = <<>>
        /\ \A k \in Connections : joining[k] = NoRoom
    BY DEF AllQuiet, ConnectionsInv, HandlingInv
  <2>2. Calm
    BY <2>1 DEF Calm
  <2>3. Undecided(<<>>) /\ NoneJoined(<<>>)
    BY DEF Undecided, NoneJoined
  <2>4. LeadsTo(<<>>, place[latest], ClientRoom)
    BY <2>1, <2>2, <2>3 DEF RoomInv, RoomsFit
  <2>5. ClientRoom = current_room
    BY DEF AllQuiet, ClientRoom
  <2> QED
    BY <2>4, <2>5 DEF LeadsTo
<1> QED
  BY <1>1, <1>2, MobileInit, MobileTypeStep, ConnectionsStep, HandlingStep, LostStep,
     CommittedStep, RoomStep, PTL DEF MCSpec

----------------------------------------------------------------------------
(* The hub session: types *)

LEMMA GoTypes ==
  ASSUME HSTypeOK, NEW t \in Threads, NEW s \in Steps, Go(t, s)
  PROVE  at' \in [Threads -> Steps]
BY DEF Go, HSTypeOK

LEMMA BeginTypes ==
  ASSUME HSTypeOK, NEW t \in Threads, NEW c \in Call, Begin(t, c)
  PROVE  doing' \in [Threads -> Call] /\ calls' \in 0..MaxCalls
BY SessionAssumption DEF Begin, HSTypeOK

LEMMA MishapTypes ==
  ASSUME HSTypeOK, Mishap
  PROVE  mishaps' \in 0..MaxMishaps
BY SessionAssumption DEF Mishap, HSTypeOK

LEMMA ReleaseTypes ==
  ASSUME HSTypeOK, NEW t \in Threads, Release(t)
  PROVE  /\ mutex' \in [Procs -> Threads \cup {NoSession}]
         /\ flock' \in Threads \cup {NoSession}
         /\ at' \in [Threads -> Steps]
BY DEF Release, Go, Steps, HSTypeOK, Procs

LEMMA ContentsType ==
  ASSUME HSTypeOK
  PROVE  Contents \in Stored
BY DEF Contents, HSTypeOK, Stored

(* What the hub makes of a token that has a successor. *)
LEMMA ExchangedTypes ==
  ASSUME HSTypeOK, NEW k \in Token, hub[k.session].nr = k.nr => k.nr < MaxTokens
  PROVE  Exchanged(k) \in [Sessions -> [nr: 1..MaxTokens, live: BOOLEAN, compromised: BOOLEAN]]
<1>1. k.session \in Sessions /\ k.nr \in 1..MaxTokens
  BY DEF Token
<1>2. CASE hub[k.session].nr = k.nr
  <2>1. k.nr + 1 \in 1..MaxTokens
    BY <1>1, <1>2, SessionAssumption
  <2>2. Exchanged(k) \in {hub, [hub EXCEPT ![k.session].nr = k.nr + 1]}
    BY <1>2 DEF Exchanged
  <2> QED
    BY <1>1, <2>1, <2>2 DEF HSTypeOK
<1>3. CASE hub[k.session].nr # k.nr
  BY <1>1, <1>3 DEF Exchanged, HSTypeOK
<1> QED
  BY <1>2, <1>3

(* A refresh saves: the new token is on its way to the file. *)
Pending(t) == doing[t] = "access" /\ at[t] \in Saving

\* Reading precedes sending, with a token that was read, and saving.
Places ==
  \A t \in Threads :
    /\ at[t] \in {"read", "send"} => doing[t] = "access"
    /\ at[t] = "send" => token[t] \in Token
    /\ Pending(t) => want[t] \in Token

TypeInv == HSTypeOK /\ Places

LEMMA TypeInit == HSInit => TypeInv
<1> SUFFICES ASSUME HSInit PROVE TypeInv
  OBVIOUS
<1>1. 1 \in 1..MaxTokens /\ 0 \in 0..MaxCalls /\ 0 \in 0..MaxMishaps
  BY SessionAssumption
<1>2. hub \in [Sessions -> [nr: 1..MaxTokens, live: BOOLEAN, compromised: BOOLEAN]]
  BY <1>1 DEF HSInit
<1>3. file \in [token: Stored, whole: BOOLEAN] /\ NoSession \in Stored
  BY <1>1, SessionAssumption DEF HSInit, Stored, Token
<1> QED
  BY <1>1, <1>2, <1>3, SessionAssumption
     DEF HSInit, HSTypeOK, TypeInv, Places, Pending, Saving, Steps, Call

LEMMA TypeStep == TypeInv /\ [HSNext]_hsVars => TypeInv'
<1> SUFFICES ASSUME TypeInv, [HSNext]_hsVars PROVE TypeInv'
  OBVIOUS
<1> USE DEF TypeInv, Places, Pending, Saving
<1>1. ASSUME NEW t \in Threads, AccessToken(t) PROVE TypeInv'
  <2>1. doing' \in [Threads -> Call] /\ calls' \in 0..MaxCalls /\ at' \in [Threads -> Steps]
    BY <1>1, BeginTypes, GoTypes DEF AccessToken, Call, Steps
  <2> QED
    BY <1>1, <2>1 DEF AccessToken, Begin, Go, HSTypeOK
<1>2. ASSUME NEW t \in Threads, HubLogin(t) PROVE TypeInv'
  <2>1. doing' \in [Threads -> Call] /\ calls' \in 0..MaxCalls /\ at' \in [Threads -> Steps]
    BY <1>2, BeginTypes, GoTypes DEF HubLogin, Call, Steps
  <2>2. opened' \in Sessions /\ hub' = [hub EXCEPT ![opened'].live = TRUE]
    BY <1>2 DEF HubLogin
  <2>3. hub' \in [Sessions -> [nr: 1..MaxTokens, live: BOOLEAN, compromised: BOOLEAN]]
    <3> HIDE DEF TypeInv, Places
    <3>1. hub \in [Sessions -> [nr: 1..MaxTokens, live: BOOLEAN, compromised: BOOLEAN]]
      BY DEF HSTypeOK, TypeInv
    <3> QED
      BY <2>2, <3>1
  <2>4. [session |-> opened', nr |-> 1] \in Stored
    BY <2>2, SessionAssumption DEF Stored, Token
  <2>5. want' \in [Threads -> Stored]
    BY <1>2, <2>4 DEF HubLogin, HSTypeOK
  <2> QED
    BY <1>2, <2>1, <2>2, <2>3, <2>5 DEF HubLogin, Begin, Go, HSTypeOK
<1>3. ASSUME NEW t \in Threads, SaveSettings(t) \/ HubLogout(t) PROVE TypeInv'
  <2>1. doing' \in [Threads -> Call] /\ calls' \in 0..MaxCalls /\ at' \in [Threads -> Steps]
    BY <1>3, BeginTypes, GoTypes DEF SaveSettings, HubLogout, Call, Steps
  <2> QED
    BY <1>3, <2>1 DEF SaveSettings, HubLogout, Begin, Go, HSTypeOK
<1>4. ASSUME NEW t \in Threads, TakeMutex(t) PROVE TypeInv'
  <2>1. at' \in [Threads -> Steps]
    BY <1>4, GoTypes DEF TakeMutex, Steps
  <2> QED
    BY <1>4, <2>1 DEF TakeMutex, Go, HSTypeOK
<1>5. ASSUME NEW t \in Threads, LockFile(t) PROVE TypeInv'
  <2>1. at' \in [Threads -> Steps]
    BY <1>5, GoTypes DEF LockFile, Steps
  <2>2. mishaps' \in 0..MaxMishaps
    BY <1>5, MishapTypes DEF LockFile, HSTypeOK
  <2> QED
    BY <1>5, <2>1, <2>2 DEF LockFile, Go, HSTypeOK
<1>6. ASSUME NEW t \in Threads, ReadSession(t) PROVE TypeInv'
  <2>1. StoredToken(t) \in Stored
    BY ContentsType DEF StoredToken
  <2>2. /\ mutex' \in [Procs -> Threads \cup {NoSession}]
        /\ flock' \in Threads \cup {NoSession}
        /\ at' \in [Threads -> Steps]
    BY <1>6, ReleaseTypes, GoTypes DEF ReadSession, HSTypeOK, Steps
  <2>3. at'[t] = "send" => StoredToken(t) \in Token
    BY <1>6, <2>1 DEF ReadSession, Release, Go, HSTypeOK, Stored
  <2>4. /\ \A u \in Threads \ {t} : at'[u] = at[u]
        /\ at'[t] \in {"idle", "send"}
    BY <1>6 DEF ReadSession, Release, Go, HSTypeOK
  <2> QED
    BY <1>6, <2>1, <2>2, <2>3, <2>4 DEF ReadSession, HSTypeOK
<1>7. ASSUME NEW t \in Threads, Refresh(t) PROVE TypeInv'
  <2>1. token[t] \in Token
    BY <1>7 DEF Refresh
  <2>2. hub' \in [Sessions -> [nr: 1..MaxTokens, live: BOOLEAN, compromised: BOOLEAN]]
    <3>1. CASE hub[token[t].session].live
      BY <1>7, <2>1, <3>1, ExchangedTypes, SessionAssumption DEF Refresh, Current, Token
    <3>2. CASE ~hub[token[t].session].live
      BY <1>7, <3>2 DEF Refresh, Exchanged, HSTypeOK
    <3> QED
      BY <3>1, <3>2
  <2>3. want' \in [Threads -> Stored]
    <3>1. CASE want' = [want EXCEPT ![t] = NoSession]
      BY <3>1 DEF HSTypeOK, Stored
    <3>2. CASE /\ token[t].nr < MaxTokens
               /\ want' = [want EXCEPT ![t] = [token[t] EXCEPT !.nr = @ + 1]]
      <4>1. [token[t] EXCEPT !.nr = @ + 1] \in Token
        BY <2>1, <3>2, SessionAssumption DEF Token
      <4> QED
        BY <3>2, <4>1 DEF HSTypeOK, Stored
    <3> QED
      BY <1>7, <3>1, <3>2 DEF Refresh
  <2>4. at' \in [Threads -> Steps] /\ at' = [at EXCEPT ![t] = "load"]
    BY <1>7, GoTypes DEF Refresh, Steps, Go
  <2>5. doing' \in [Threads -> Call] /\ cache' \in [Procs -> BOOLEAN]
        /\ \A u \in Threads \ {t} : doing'[u] = doing[u]
    BY <1>7 DEF Refresh, HSTypeOK, Call
  <2>6. /\ doing'[t] = "access" => want'[t] \in Token
        /\ \A u \in Threads \ {t} : want'[u] = want[u]
    <3>1. CASE /\ doing' = [doing EXCEPT ![t] = "drop"]
               /\ want' = [want EXCEPT ![t] = NoSession]
      BY <3>1 DEF HSTypeOK
    <3>2. CASE /\ token[t].nr < MaxTokens
               /\ want' = [want EXCEPT ![t] = [token[t] EXCEPT !.nr = @ + 1]]
      <4>1. [token[t] EXCEPT !.nr = @ + 1] \in Token
        BY <2>1, <3>2, SessionAssumption DEF Token
      <4> QED
        BY <3>2, <4>1 DEF HSTypeOK
    <3> QED
      BY <1>7, <3>1, <3>2 DEF Refresh
  <2>7. HSTypeOK'
    BY <1>7, <2>2, <2>3, <2>4, <2>5 DEF Refresh, HSTypeOK
  <2>8. token' = token
    BY <1>7 DEF Refresh
  <2>9. \A u \in Threads \ {t} : at'[u] = at[u]
    BY <2>4 DEF HSTypeOK
  <2>10. at'[t] = "load"
    BY <2>4 DEF HSTypeOK
  <2> QED
    BY <2>5, <2>6, <2>7, <2>8, <2>9, <2>10
<1>8. ASSUME NEW t \in Threads, RefreshFails(t) PROVE TypeInv'
  <2>1. token[t] \in Token
    BY <1>8 DEF RefreshFails
  <2>2. hub' \in [Sessions -> [nr: 1..MaxTokens, live: BOOLEAN, compromised: BOOLEAN]]
    BY <1>8, <2>1, ExchangedTypes DEF RefreshFails, HSTypeOK
  <2>3. spoiled' \subseteq Sessions
    BY <1>8, <2>1 DEF RefreshFails, HSTypeOK, Token
  <2>4. mishaps' \in 0..MaxMishaps
    BY <1>8, MishapTypes DEF RefreshFails
  <2>5. /\ mutex' \in [Procs -> Threads \cup {NoSession}]
        /\ flock' \in Threads \cup {NoSession}
        /\ at' \in [Threads -> Steps] /\ at' = [at EXCEPT ![t] = "idle"]
    BY <1>8, ReleaseTypes DEF RefreshFails, Release, Go
  <2> QED
    BY <1>8, <2>2, <2>3, <2>4, <2>5 DEF RefreshFails, HSTypeOK
<1>9. ASSUME NEW t \in Threads, LoadConfig(t) PROVE TypeInv'
  <2>1. /\ mutex' \in [Procs -> Threads \cup {NoSession}]
        /\ flock' \in Threads \cup {NoSession}
        /\ at' \in [Threads -> Steps]
    BY <1>9, ReleaseTypes, GoTypes DEF LoadConfig, HSTypeOK, Steps
  <2>2. at' \in {[at EXCEPT ![t] = "idle"], [at EXCEPT ![t] = "truncate"]}
    BY <1>9 DEF LoadConfig, Release, Go
  <2>3. token' \in [Threads -> Stored] /\ want' \in [Threads -> Stored]
    BY <1>9, ContentsType DEF LoadConfig, HSTypeOK, Stored
  <2>4. \A u \in Threads \ {t} : token'[u] = token[u]
    BY <1>9 DEF LoadConfig, HSTypeOK
  <2>5. lost' \in [Procs -> BOOLEAN]
    BY <1>9 DEF LoadConfig, HSTypeOK
  <2> QED
    BY <1>9, <2>1, <2>2, <2>3, <2>4, <2>5 DEF LoadConfig, HSTypeOK
<1>10. ASSUME NEW t \in Threads, Truncate(t) PROVE TypeInv'
  <2>1. at' \in [Threads -> Steps]
    BY <1>10, GoTypes DEF Truncate, Steps
  <2>2. file' \in [token: Stored, whole: BOOLEAN]
    BY <1>10 DEF Truncate, HSTypeOK
  <2> QED
    BY <1>10, <2>1, <2>2 DEF Truncate, Go, HSTypeOK
<1>11. ASSUME NEW t \in Threads, Write(t) PROVE TypeInv'
  <2>1. want[t] \in Stored
    BY DEF HSTypeOK
  <2>2. file' \in [token: Stored, whole: BOOLEAN]
    <3>1. file' = [token |-> want[t], whole |-> TRUE] \/ file' = file
      BY <1>11 DEF Write, Content
    <3>2. file \in [token: Stored, whole: BOOLEAN]
      BY DEF HSTypeOK
    <3>3. [token |-> want[t], whole |-> TRUE] \in [token: Stored, whole: BOOLEAN]
      BY <2>1
    <3> QED
      BY <3>1, <3>2, <3>3, Zenon
  <2>3. spoiled' \subseteq Sessions
    <3>1. file.token \in Stored /\ spoiled \subseteq Sessions
      BY DEF HSTypeOK
    <3>2. \A k \in Stored \ {NoSession} : k.session \in Sessions
      BY DEF Stored, Token
    <3>3. spoiled' = spoiled \/ spoiled' = spoiled \cup Overwritten(t)
          \/ (want[t] # NoSession /\ spoiled' = spoiled \cup {want[t].session})
      BY <1>11 DEF Write
    <3> QED
      BY <2>1, <3>1, <3>2, <3>3 DEF Overwritten
  <2>4. mishaps' \in 0..MaxMishaps
    BY <1>11, MishapTypes DEF Write, HSTypeOK
  <2>5. /\ mutex' \in [Procs -> Threads \cup {NoSession}]
        /\ flock' \in Threads \cup {NoSession}
        /\ at' \in [Threads -> Steps]
    BY <1>11, ReleaseTypes, GoTypes DEF Write, HSTypeOK, Steps
  <2>6. at' \in {[at EXCEPT ![t] = "idle"], [at EXCEPT ![t] = "forget"]}
    BY <1>11 DEF Write, Release, Go
  <2>7. cache' \in [Procs -> BOOLEAN]
    BY <1>11 DEF Write, HSTypeOK
  <2>8. lost' \in [Procs -> BOOLEAN]
    BY <1>11 DEF Write, HSTypeOK
  <2>9. out' \in BOOLEAN
    BY <1>11 DEF Write, HSTypeOK
  <2> QED
    BY <1>11, <2>2, <2>3, <2>4, <2>5, <2>6, <2>7, <2>8, <2>9 DEF Write, HSTypeOK
<1>12. ASSUME NEW t \in Threads, Forget(t) PROVE TypeInv'
  <2>1. at' \in [Threads -> Steps]
    BY <1>12, GoTypes DEF Forget, Steps
  <2> QED
    BY <1>12, <2>1 DEF Forget, Go, HSTypeOK
<1>13. ASSUME NEW t \in Threads, TellHub(t) PROVE TypeInv'
  <2>1. at' \in [Threads -> Steps]
    BY <1>13, GoTypes DEF TellHub, Steps
  <2>2. hub' \in [Sessions -> [nr: 1..MaxTokens, live: BOOLEAN, compromised: BOOLEAN]]
    <3>1. hub' = hub \/ (Current(token[t]) /\ hub' = [hub EXCEPT ![token[t].session].live = FALSE])
      BY <1>13 DEF TellHub
    <3>2. Current(token[t]) => token[t].session \in Sessions
      BY DEF Current, HSTypeOK, Stored, Token
    <3>3. hub \in [Sessions -> [nr: 1..MaxTokens, live: BOOLEAN, compromised: BOOLEAN]]
      BY DEF HSTypeOK
    <3> HIDE DEF TypeInv
    <3> QED
      BY <3>1, <3>2, <3>3
  <2> QED
    BY <1>13, <2>1, <2>2 DEF TellHub, Go, HSTypeOK
<1>14. ASSUME NEW t \in Threads, TakeLost(t) PROVE TypeInv'
  BY <1>14 DEF TakeLost, HSTypeOK
<1>15. ASSUME NEW p \in Procs, Expire(p) PROVE TypeInv'
  BY <1>15 DEF Expire, HSTypeOK
<1>16. ASSUME NEW p \in Procs, Crash(p) PROVE TypeInv'
  <2>1. mishaps' \in 0..MaxMishaps
    BY <1>16, MishapTypes DEF Crash
  <2>2. at' \in [Threads -> Steps] /\ \A t \in Threads : at'[t] \in {at[t], "idle"}
    BY <1>16 DEF Crash, HSTypeOK, Steps
  <2>3. spoiled' \subseteq Sessions
    BY <1>16 DEF Crash, HSTypeOK, Active, Token
  <2>4. /\ mutex' \in [Procs -> Threads \cup {NoSession}]
        /\ flock' \in Threads \cup {NoSession}
        /\ cache' \in [Procs -> BOOLEAN] /\ lost' \in [Procs -> BOOLEAN]
    BY <1>16 DEF Crash, HSTypeOK
  <2> QED
    BY <1>16, <2>1, <2>2, <2>3, <2>4 DEF Crash, HSTypeOK
<1>17. CASE UNCHANGED hsVars
  BY <1>17 DEF hsVars, HSTypeOK
<1> QED
  BY <1>1, <1>2, <1>3, <1>4, <1>5, <1>6, <1>7, <1>8, <1>9, <1>10, <1>11, <1>12, <1>13, <1>14,
     <1>15, <1>16, <1>17 DEF HSNext

(* The types of HubSession, and what a thread holds where. *)
THEOREM HubSessionTypes == HSSpec => []HSTypeOK
<1>1. TypeInv => HSTypeOK
  BY DEF TypeInv
<1> QED
  BY <1>1, TypeInit, TypeStep, PTL DEF HSSpec

----------------------------------------------------------------------------
(* The hub session: the lock beside the file *)

InLock(t) == doing[t] \in Locked /\ at[t] \in {"read", "send"} \cup Saving

(* As long as the lock never failed, whoever is between taking it and giving it
   up holds it, in whatever process. *)
LockInv == spoiled # Sessions => \A t \in Threads : InLock(t) => flock = t

LEMMA LockInit == HSInit => LockInv
BY DEF HSInit, LockInv, InLock, Saving

(* One thread moves on inside the lock, or outside of it. *)
LEMMA LockKept ==
  ASSUME TypeInv, LockInv, NEW t \in Threads, flock' = flock, spoiled \subseteq spoiled',
         spoiled' \subseteq Sessions,
         \A u \in Threads \ {t} : at'[u] = at[u] /\ doing'[u] = doing[u],
         InLock(t)' => InLock(t)
  PROVE  LockInv'
BY DEF LockInv, InLock

(* One thread gives it up. *)
LEMMA LockReleased ==
  ASSUME TypeInv, LockInv, NEW t \in Threads, Release(t), spoiled \subseteq spoiled',
         spoiled' \subseteq Sessions, doing' = doing
  PROVE  LockInv'
<1>1. at' = [at EXCEPT ![t] = "idle"] /\ flock' = IF flock = t THEN NoSession ELSE flock
  BY DEF Release, Go
<1>2. \A u \in Threads : InLock(u)' => InLock(u) /\ u # t
  BY <1>1 DEF InLock, Saving, TypeInv, HSTypeOK
<1>3. spoiled' # Sessions => spoiled # Sessions
  BY DEF TypeInv, HSTypeOK
<1> QED
  BY <1>1, <1>2, <1>3 DEF LockInv

LEMMA LockStep == TypeInv /\ TypeInv' /\ LockInv /\ [HSNext]_hsVars => LockInv'
<1> SUFFICES ASSUME TypeInv, TypeInv', LockInv, [HSNext]_hsVars PROVE LockInv'
  OBVIOUS
<1>a. spoiled' \subseteq Sessions
  BY DEF TypeInv, HSTypeOK
<1>b. /\ DOMAIN at = Threads /\ DOMAIN doing = Threads
  BY DEF TypeInv, HSTypeOK
<1>1. ASSUME NEW t \in Threads, AccessToken(t) \/ HubLogin(t) \/ SaveSettings(t) \/ HubLogout(t)
      PROVE  LockInv'
  <2>1. /\ doing' \in {[doing EXCEPT ![t] = c] : c \in Call}
        /\ at' \in {[at EXCEPT ![t] = "mutex"], [at EXCEPT ![t] = "load"]}
        /\ at'[t] = "load" => doing'[t] \in {"settings", "logout"}
    BY <1>1, <1>b DEF AccessToken, HubLogin, SaveSettings, HubLogout, Begin, Go, Call
  <2>2. UNCHANGED <<flock, spoiled>>
    BY <1>1 DEF AccessToken, HubLogin, SaveSettings, HubLogout
  <2>3. ~InLock(t)'
    BY <2>1, <1>b DEF InLock, Saving, Locked
  <2> QED
    BY <2>1, <2>2, <2>3, <1>a, <1>b, LockKept
<1>2. ASSUME NEW t \in Threads, TakeMutex(t) PROVE LockInv'
  BY <1>2, <1>a, <1>b, LockKept DEF TakeMutex, Go, InLock, Saving
<1>3. ASSUME NEW t \in Threads, LockFile(t) PROVE LockInv'
  <2>1. CASE flock = NoSession /\ flock' = t /\ spoiled' = spoiled
    <3>1. spoiled # Sessions => \A u \in Threads : ~InLock(u)
      BY <2>1, SessionAssumption DEF LockInv
    <3>2. \A u \in Threads \ {t} : at'[u] = at[u] /\ doing'[u] = doing[u]
      BY <1>3, <1>b DEF LockFile, Go
    <3> QED
      BY <2>1, <3>1, <3>2 DEF LockInv, InLock
  <2>2. CASE spoiled' = Sessions
    BY <2>2 DEF LockInv
  <2> QED
    BY <1>3, <2>1, <2>2 DEF LockFile
<1>4. ASSUME NEW t \in Threads, ReadSession(t) PROVE LockInv'
  <2>1. CASE Release(t)
    BY <1>4, <1>a, <2>1, LockReleased DEF ReadSession
  <2>2. CASE Go(t, "send") /\ flock' = flock
    BY <1>4, <1>a, <1>b, <2>2, LockKept DEF ReadSession, Go, InLock, Saving
  <2> QED
    BY <1>4, <2>1, <2>2 DEF ReadSession
<1>5. ASSUME NEW t \in Threads, Refresh(t) PROVE LockInv'
  <2>1. at[t] = "send" /\ doing[t] = "access"
    BY <1>5 DEF Refresh, TypeInv, Places
  <2>2. /\ UNCHANGED <<flock, spoiled>> /\ at' = [at EXCEPT ![t] = "load"]
        /\ doing' \in {doing, [doing EXCEPT ![t] = "drop"]}
    BY <1>5 DEF Refresh, Go
  <2>3. InLock(t)
    BY <2>1 DEF InLock, Locked
  <2> QED
    BY <2>2, <2>3, <1>a, <1>b, LockKept
<1>6. ASSUME NEW t \in Threads, RefreshFails(t) PROVE LockInv'
  BY <1>6, <1>a, LockReleased DEF RefreshFails
<1>7. ASSUME NEW t \in Threads, LoadConfig(t) PROVE LockInv'
  <2>1. CASE Release(t)
    BY <1>7, <1>a, <2>1, LockReleased DEF LoadConfig
  <2>2. CASE flock' = flock /\ (Go(t, "idle") \/ Go(t, "truncate"))
    BY <1>7, <1>a, <1>b, <2>2, LockKept DEF LoadConfig, Go, InLock, Saving
  <2> QED
    BY <1>7, <2>1, <2>2 DEF LoadConfig
<1>8. ASSUME NEW t \in Threads, Truncate(t) PROVE LockInv'
  BY <1>8, <1>a, <1>b, LockKept DEF Truncate, Go, InLock, Saving
<1>9. ASSUME NEW t \in Threads, Write(t) PROVE LockInv'
  <2>1. spoiled \subseteq spoiled' /\ doing' = doing
    BY <1>9 DEF Write
  <2>2. CASE Release(t)
    BY <1>a, <2>1, <2>2, LockReleased
  <2>3. CASE flock' = flock /\ (Go(t, "idle") \/ Go(t, "forget"))
    BY <1>a, <1>b, <2>1, <2>3, LockKept DEF Go, InLock, Saving
  <2> QED
    BY <1>9, <2>2, <2>3 DEF Write
<1>10. ASSUME NEW t \in Threads, Forget(t) \/ TellHub(t) PROVE LockInv'
  BY <1>10, <1>a, <1>b, LockKept DEF Forget, TellHub, Go, InLock, Saving
<1>11. ASSUME NEW t \in Threads, TakeLost(t) PROVE LockInv'
  BY <1>11 DEF TakeLost, LockInv, InLock
<1>12. ASSUME NEW p \in Procs, Expire(p) PROVE LockInv'
  BY <1>12 DEF Expire, LockInv, InLock
<1>13. ASSUME NEW p \in Procs, Crash(p) PROVE LockInv'
  <2>1. spoiled' # Sessions => spoiled # Sessions
    BY <1>13, <1>a DEF Crash
  <2>2. \A t \in Threads : InLock(t)' => InLock(t) /\ ProcOf[t] # p
    BY <1>13, <1>b DEF Crash, InLock, Saving, Active
  <2>3. flock' = IF flock \in Active /\ ProcOf[flock] = p THEN NoSession ELSE flock
    BY <1>13 DEF Crash
  <2> QED
    BY <2>1, <2>2, <2>3 DEF LockInv
<1>14. CASE UNCHANGED hsVars
  BY <1>14 DEF hsVars, LockInv, InLock
<1> QED
  BY <1>1, <1>2, <1>3, <1>4, <1>5, <1>6, <1>7, <1>8, <1>9, <1>10, <1>11, <1>12, <1>13, <1>14
  DEF HSNext

----------------------------------------------------------------------------
(* The hub session: new sessions *)

Of(k, s) == k # NoSession /\ k.session = s

(* The hub has answered a login, and its session is not in the file yet. *)
LoggingIn(t) == doing[t] = "login" /\ at[t] # "idle"

\* Nobody but x has heard of session s, and nobody exchanged its first token.
OnlyWith(s, x) ==
  /\ hub[s].nr = 1 /\ ~Of(file.token, s)
  /\ \A t \in Threads : ~Of(token[t], s) /\ (t # x => ~Of(want[t], s))

(* A session no login has opened is known to nobody, one that a login is still
   storing to this login alone; so what it stores is current. *)
NewInv ==
  /\ \A s \in Sessions : s > opened => OnlyWith(s, NoSession)
  /\ \A t \in Threads : LoggingIn(t) =>
       want[t] \in Token /\ want[t].nr = 1 /\ OnlyWith(want[t].session, t)

LEMMA NewInit == HSInit => NewInv
<1> SUFFICES ASSUME HSInit PROVE NewInv
  OBVIOUS
<1>1. \A s \in Sessions : s > opened => s # 1
  BY SessionAssumption DEF HSInit
<1>2. \A t \in Threads : ~LoggingIn(t)
  BY DEF HSInit, LoggingIn
<1> QED
  BY <1>1, <1>2 DEF HSInit, NewInv, OnlyWith, Of

(* A step that exchanges no token and lets nobody learn a session but from the
   file or from itself. *)
LEMMA NewKept ==
  ASSUME TypeInv, NewInv, opened' = opened,
         \A s \in Sessions : hub'[s].nr = hub[s].nr,
         \A s \in Sessions : Of(file'.token, s) => Of(file.token, s) \/
           \E t \in Threads : Of(want[t], s) /\ ~LoggingIn(t)',
         \A t \in Threads, s \in Sessions :
           Of(token'[t], s) => Of(token[t], s) \/ Of(file.token, s),
         \A t \in Threads, s \in Sessions : Of(want'[t], s) => Of(want[t], s) \/ Of(file.token, s),
         \A t \in Threads : LoggingIn(t)' => LoggingIn(t) /\ want'[t] = want[t]
  PROVE  NewInv'
<1>1. ASSUME NEW s \in Sessions, s > opened PROVE OnlyWith(s, NoSession)'
  <2>1. OnlyWith(s, NoSession) /\ \A t \in Threads : ~Of(want[t], s)
    BY <1>1, SessionAssumption DEF NewInv, OnlyWith
  <2> QED
    BY <2>1 DEF OnlyWith
<1>2. ASSUME NEW t \in Threads, LoggingIn(t)'
      PROVE  want'[t] \in Token /\ want'[t].nr = 1 /\ OnlyWith(want[t].session, t)'
  <2>1. LoggingIn(t) /\ want'[t] = want[t]
    BY <1>2
  <2>2. want[t] \in Token /\ want[t].nr = 1 /\ OnlyWith(want[t].session, t)
    BY <2>1 DEF NewInv
  <2>3. want[t].session \in Sessions
    BY <2>2 DEF Token
  <2>4. ASSUME NEW u \in Threads, Of(want[u], want[t].session) PROVE u = t
    BY <2>2, <2>4 DEF OnlyWith
  <2>5. ~Of(file'.token, want[t].session)
    BY <1>2, <2>2, <2>3, <2>4 DEF OnlyWith
  <2> QED
    BY <2>1, <2>2, <2>3, <2>5 DEF OnlyWith
<1> QED
  BY <1>1, <1>2 DEF NewInv

(* A refresh of t exchanges a token it has read, and learns nothing more. *)
LEMMA NewExchanged ==
  ASSUME TypeInv, NewInv, NEW t \in Threads, UNCHANGED <<opened, file, token>>,
         \A s \in Sessions : ~Of(token[t], s) => hub'[s] = hub[s],
         \A s \in Sessions : Of(want'[t], s) => Of(token[t], s) \/ Of(want[t], s),
         \A u \in Threads \ {t} : want'[u] = want[u],
         \A u \in Threads : LoggingIn(u)' => LoggingIn(u) /\ u # t
  PROVE  NewInv'
<1>1. ASSUME NEW s \in Sessions, NEW x, x # t, OnlyWith(s, x) PROVE OnlyWith(s, x)'
  BY <1>1 DEF OnlyWith
<1>2. \A s \in Sessions : s > opened' => OnlyWith(s, NoSession)'
  BY <1>1, SessionAssumption DEF NewInv
<1>3. ASSUME NEW u \in Threads, LoggingIn(u)'
      PROVE  want'[u] \in Token /\ want'[u].nr = 1 /\ OnlyWith(want[u].session, u)'
  <2>1. u # t /\ want'[u] = want[u] /\ want[u] \in Token /\ want[u].nr = 1
        /\ OnlyWith(want[u].session, u)
    BY <1>3 DEF NewInv
  <2>2. want[u].session \in Sessions
    BY <2>1 DEF Token
  <2> QED
    BY <2>1, <2>2, <1>1
<1> QED
  BY <1>2, <1>3 DEF NewInv

LEMMA NewStep == TypeInv /\ NewInv /\ [HSNext]_hsVars => NewInv'
<1> SUFFICES ASSUME TypeInv, NewInv, [HSNext]_hsVars PROVE NewInv'
  OBVIOUS
<1>a. /\ DOMAIN at = Threads /\ DOMAIN doing = Threads
      /\ DOMAIN token = Threads /\ DOMAIN want = Threads
  BY DEF TypeInv, HSTypeOK
<1>1. ASSUME NEW t \in Threads, AccessToken(t) \/ SaveSettings(t) \/ HubLogout(t) PROVE NewInv'
  <2>1. \A u \in Threads : LoggingIn(u)' => LoggingIn(u)
    BY <1>1, <1>a DEF AccessToken, SaveSettings, HubLogout, Begin, Go, LoggingIn
  <2> QED
    BY <1>1, <2>1, NewKept DEF AccessToken, SaveSettings, HubLogout
<1>2. ASSUME NEW t \in Threads, HubLogin(t) PROVE NewInv'
  <2>0. PICK n \in Sessions : n = opened + 1
    BY <1>2 DEF HubLogin
  <2>1. /\ n > opened /\ opened' = n
        /\ \A s \in Sessions : s > n => s > opened /\ s # n
    BY <1>2, <2>0, SessionAssumption DEF HubLogin, TypeInv, HSTypeOK
  <2>2. \A s \in Sessions : hub'[s].nr = hub[s].nr
    BY <1>2 DEF HubLogin, TypeInv, HSTypeOK
  <2>3. want' = [want EXCEPT ![t] = [session |-> n, nr |-> 1]] /\ UNCHANGED <<file, token>>
    BY <1>2, <2>0 DEF HubLogin
  <2>4. [session |-> n, nr |-> 1] \in Token /\ [session |-> n, nr |-> 1].session = n
    BY <2>1, SessionAssumption DEF Token
  <2>5. \A u \in Threads \ {t} : (LoggingIn(u)' => LoggingIn(u)) /\ want'[u] = want[u]
    BY <1>2, <1>a, <2>3 DEF HubLogin, Begin, Go, LoggingIn
  <2>6. \A s \in Sessions : s # n => ~Of(want'[t], s)
    BY <1>a, <2>3, <2>4 DEF Of
  <2>7. OnlyWith(n, NoSession)
    BY <2>1 DEF NewInv
  <2>8. ASSUME NEW s \in Sessions, s > n PROVE OnlyWith(s, NoSession)'
    <3>1. s # n /\ OnlyWith(s, NoSession)
      BY <2>1, <2>8 DEF NewInv
    <3> QED
      BY <2>2, <2>3, <2>5, <2>6, <3>1, SessionAssumption DEF OnlyWith
  <2>9. OnlyWith(n, t)'
    <3>1. hub'[n].nr = 1 /\ UNCHANGED <<file, token>>
      BY <2>1, <2>2, <2>3, <2>7 DEF OnlyWith
    <3>2. ~Of(file'.token, n) /\ \A u \in Threads : ~Of(token'[u], n)
      BY <2>7, <3>1 DEF OnlyWith
    <3>3. \A u \in Threads : u # t => ~Of(want'[u], n)
      BY <2>5, <2>7, SessionAssumption DEF OnlyWith
    <3> QED
      BY <3>1, <3>2, <3>3 DEF OnlyWith
  <2>10. want'[t] = [session |-> n, nr |-> 1]
    BY <1>a, <2>3
  <2>11. ASSUME NEW u \in Threads \ {t}, LoggingIn(u)'
         PROVE  want'[u] \in Token /\ want'[u].nr = 1 /\ OnlyWith(want[u].session, u)'
    <3>1. want[u] \in Token /\ want[u].nr = 1 /\ OnlyWith(want[u].session, u) /\ want'[u] = want[u]
      BY <2>5, <2>11 DEF NewInv
    <3>2. want[u].session \in Sessions /\ want[u].session # n
      BY <2>7, <3>1, SessionAssumption DEF Token, OnlyWith, Of
    <3> QED
      BY <2>2, <2>3, <2>5, <2>6, <3>1, <3>2 DEF OnlyWith
  <2> QED
    BY <2>1, <2>4, <2>8, <2>9, <2>10, <2>11 DEF NewInv
<1>3. ASSUME NEW t \in Threads, TakeMutex(t) PROVE NewInv'
  <2>1. \A u \in Threads : LoggingIn(u)' => LoggingIn(u)
    BY <1>3, <1>a DEF TakeMutex, Go, LoggingIn
  <2> QED
    BY <1>3, <2>1, NewKept DEF TakeMutex
<1>4. ASSUME NEW t \in Threads, LockFile(t) PROVE NewInv'
  <2>1. \A u \in Threads : LoggingIn(u)' => LoggingIn(u)
    BY <1>4, <1>a DEF LockFile, Go, LoggingIn
  <2> QED
    BY <1>4, <2>1, NewKept DEF LockFile
<1>5. ASSUME NEW t \in Threads, ReadSession(t) PROVE NewInv'
  <2>1. \A u \in Threads : LoggingIn(u)' => LoggingIn(u)
    BY <1>5, <1>a DEF ReadSession, Release, Go, LoggingIn
  <2>2. token' = [token EXCEPT ![t] = Contents]
    BY <1>5 DEF ReadSession, StoredToken
  <2>3. \A s \in Sessions : Of(Contents, s) => Of(file.token, s)
    BY DEF Contents, Of
  <2> QED
    BY <1>5, <1>a, <2>1, <2>2, <2>3, NewKept DEF ReadSession
<1>6. ASSUME NEW t \in Threads, Refresh(t) PROVE NewInv'
  <2>1. at[t] = "send" /\ doing[t] = "access" /\ token[t] \in Token /\ token[t].session \in Sessions
    BY <1>6 DEF Refresh, TypeInv, Places, Token
  <2>2. \A s \in Sessions : ~Of(token[t], s) => hub'[s] = hub[s]
    BY <1>6, <2>1, SessionAssumption DEF Refresh, Exchanged, TypeInv, HSTypeOK, Of, Token
  <2>3. \A s \in Sessions : Of(want'[t], s) => Of(token[t], s)
    BY <1>6, <1>a, <2>1, SessionAssumption DEF Refresh, Of, Token
  <2>4. UNCHANGED <<opened, file, token>> /\ \A u \in Threads \ {t} : want'[u] = want[u]
    BY <1>6, <1>a DEF Refresh
  <2>5. \A u \in Threads : LoggingIn(u)' => LoggingIn(u) /\ u # t
    BY <1>6, <1>a, <2>1 DEF Refresh, Go, LoggingIn
  <2> QED
    BY <2>2, <2>3, <2>4, <2>5, NewExchanged
<1>7. ASSUME NEW t \in Threads, RefreshFails(t) PROVE NewInv'
  <2>1. at[t] = "send" /\ doing[t] = "access" /\ token[t] \in Token /\ token[t].session \in Sessions
    BY <1>7 DEF RefreshFails, TypeInv, Places, Token
  <2>2. \A s \in Sessions : ~Of(token[t], s) => hub'[s] = hub[s]
    BY <1>7, <2>1, SessionAssumption DEF RefreshFails, Exchanged, TypeInv, HSTypeOK, Of, Token
  <2>3. UNCHANGED <<opened, file, token, want>>
    BY <1>7 DEF RefreshFails
  <2>4. \A u \in Threads : LoggingIn(u)' => LoggingIn(u) /\ u # t
    BY <1>7, <1>a, <2>1 DEF RefreshFails, Release, Go, LoggingIn
  <2>5. \A s \in Sessions : Of(want'[t], s) => Of(want[t], s)
    BY <2>3
  <2> QED
    BY <2>2, <2>3, <2>4, <2>5, NewExchanged
<1>8. ASSUME NEW t \in Threads, LoadConfig(t) PROVE NewInv'
  <2>1. \A u \in Threads : LoggingIn(u)' => LoggingIn(u) /\ want'[u] = want[u]
    BY <1>8, <1>a DEF LoadConfig, Release, Go, LoggingIn
  <2>2. /\ token' \in {token, [token EXCEPT ![t] = Contents]}
        /\ want' \in {want, [want EXCEPT ![t] = Contents], [want EXCEPT ![t] = NoSession]}
    BY <1>8 DEF LoadConfig
  <2>3. \A s \in Sessions : ~Of(NoSession, s) /\ (Of(Contents, s) => Of(file.token, s))
    BY DEF Contents, Of
  <2>4. UNCHANGED <<hub, opened, file>>
    BY <1>8 DEF LoadConfig
  <2> QED
    BY <1>a, <2>1, <2>2, <2>3, <2>4, NewKept
<1>9. ASSUME NEW t \in Threads, Truncate(t) PROVE NewInv'
  <2>1. \A u \in Threads : LoggingIn(u)' => LoggingIn(u)
    BY <1>9, <1>a DEF Truncate, Go, LoggingIn
  <2>2. file'.token = file.token
    BY <1>9 DEF Truncate, TypeInv, HSTypeOK
  <2> QED
    BY <1>9, <2>1, <2>2, NewKept DEF Truncate
<1>10. ASSUME NEW t \in Threads, Write(t) PROVE NewInv'
  <2>1. /\ at' \in {[at EXCEPT ![t] = "idle"], [at EXCEPT ![t] = "forget"]}
        /\ doing[t] = "login" => at' = [at EXCEPT ![t] = "idle"]
    BY <1>10 DEF Write, Release, Go, Locked
  <2>2. UNCHANGED <<hub, opened, doing, token, want>>
    BY <1>10 DEF Write
  <2>3. ~LoggingIn(t)' /\ \A u \in Threads : LoggingIn(u)' => LoggingIn(u)
    BY <1>10, <1>a, <2>1, <2>2 DEF LoggingIn, Write
  <2>4. file' = file \/ file'.token = want[t]
    BY <1>10 DEF Write, Content
  <2> QED
    BY <2>2, <2>3, <2>4, NewKept
<1>11. ASSUME NEW t \in Threads, Forget(t) PROVE NewInv'
  <2>1. \A u \in Threads : LoggingIn(u)' => LoggingIn(u)
    BY <1>11, <1>a DEF Forget, Go, LoggingIn
  <2> QED
    BY <1>11, <2>1, NewKept DEF Forget
<1>12. ASSUME NEW t \in Threads, TellHub(t) PROVE NewInv'
  <2>1. \A u \in Threads : LoggingIn(u)' => LoggingIn(u)
    BY <1>12, <1>a DEF TellHub, Go, LoggingIn
  <2>2. \A s \in Sessions : hub'[s].nr = hub[s].nr
    BY <1>12 DEF TellHub, TypeInv, HSTypeOK
  <2> QED
    BY <1>12, <2>1, <2>2, NewKept DEF TellHub
<1>13. ASSUME NEW t \in Threads, TakeLost(t) PROVE NewInv'
  BY <1>13, NewKept DEF TakeLost, LoggingIn
<1>14. ASSUME NEW p \in Procs, Expire(p) PROVE NewInv'
  BY <1>14, NewKept DEF Expire, LoggingIn
<1>15. ASSUME NEW p \in Procs, Crash(p) PROVE NewInv'
  <2>1. \A u \in Threads : LoggingIn(u)' => LoggingIn(u)
    BY <1>15 DEF Crash, LoggingIn
  <2> QED
    BY <1>15, <2>1, NewKept DEF Crash
<1>16. CASE UNCHANGED hsVars
  BY <1>16, NewKept DEF hsVars, LoggingIn
<1> QED
  BY <1>1, <1>2, <1>3, <1>4, <1>5, <1>6, <1>7, <1>8, <1>9, <1>10, <1>11, <1>12, <1>13, <1>14,
     <1>15, <1>16 DEF HSNext

----------------------------------------------------------------------------
(* The hub session: what takes it away writes none *)

Writing == {"truncate", "write"}

ClearsInv ==
  \A t \in Threads :
    /\ doing[t] = "none" => at[t] = "idle"
    /\ doing[t] = "drop" => at[t] \in Saving \cup {"idle"}
    /\ doing[t] = "drop" /\ at[t] \in Saving => want[t] = NoSession
    /\ doing[t] = "logout" /\ at[t] \in Writing => want[t] = NoSession

(* One thread moves on in its call, with what it is going to write. *)
LEMMA ClearsKept ==
  ASSUME TypeInv, ClearsInv, NEW t \in Threads,
         \A u \in Threads \ {t} : at'[u] = at[u] /\ want'[u] = want[u] /\ doing'[u] = doing[u],
         doing'[t] = "none" => doing[t] = "none" /\ at'[t] = at[t],
         doing'[t] = "drop" => at'[t] \in Saving \cup {"idle"},
         doing'[t] = "drop" /\ at'[t] \in Saving => want'[t] = NoSession,
         doing'[t] = "logout" /\ at'[t] \in Writing => want'[t] = NoSession
  PROVE  ClearsInv'
BY DEF ClearsInv

LEMMA ClearsInit == HSInit => ClearsInv
BY DEF HSInit, ClearsInv

LEMMA ClearsStep == TypeInv /\ ClearsInv /\ [HSNext]_hsVars => ClearsInv'
<1> SUFFICES ASSUME TypeInv, ClearsInv, [HSNext]_hsVars PROVE ClearsInv'
  OBVIOUS
<1>a. /\ DOMAIN at = Threads /\ DOMAIN doing = Threads /\ DOMAIN want = Threads
  BY DEF TypeInv, HSTypeOK
<1> USE DEF Saving, Writing
<1>1. ASSUME NEW t \in Threads, AccessToken(t) \/ HubLogin(t) \/ SaveSettings(t) \/ HubLogout(t)
      PROVE  ClearsInv'
  <2>1. /\ doing'[t] \in {"access", "login", "settings", "logout"} /\ at'[t] \in {"mutex", "load"}
        /\ \A u \in Threads \ {t} : at'[u] = at[u] /\ want'[u] = want[u] /\ doing'[u] = doing[u]
    BY <1>1, <1>a DEF AccessToken, HubLogin, SaveSettings, HubLogout, Begin, Go
  <2> QED
    BY <2>1, ClearsKept
<1>2. ASSUME NEW t \in Threads, TakeMutex(t) \/ LockFile(t) \/ ReadSession(t) \/ RefreshFails(t)
      PROVE  ClearsInv'
  <2>1. /\ UNCHANGED <<doing, want>> /\ at[t] \in {"mutex", "flock", "read", "send"}
        /\ \E x \in {"flock", "read", "load", "idle", "send"} : at' = [at EXCEPT ![t] = x]
    BY <1>2 DEF TakeMutex, LockFile, ReadSession, RefreshFails, Release, Go
  <2>2. doing[t] \notin {"none", "drop"}
    BY <2>1 DEF ClearsInv
  <2> QED
    BY <1>a, <2>1, <2>2, ClearsKept
<1>3. ASSUME NEW t \in Threads, Refresh(t) PROVE ClearsInv'
  <2>1. at[t] = "send" /\ doing[t] = "access" /\ at' = [at EXCEPT ![t] = "load"]
    BY <1>3 DEF Refresh, TypeInv, Places, Go
  <2>2. \/ doing' = doing
        \/ doing' = [doing EXCEPT ![t] = "drop"] /\ want' = [want EXCEPT ![t] = NoSession]
    BY <1>3 DEF Refresh
  <2>3. \A u \in Threads \ {t} : want'[u] = want[u]
    BY <1>3, <1>a DEF Refresh
  <2> QED
    BY <1>a, <2>1, <2>2, <2>3, ClearsKept
<1>4. ASSUME NEW t \in Threads, LoadConfig(t) PROVE ClearsInv'
  <2>1. /\ doing' = doing /\ at[t] = "load"
        /\ at' \in {[at EXCEPT ![t] = "idle"], [at EXCEPT ![t] = "truncate"]}
    BY <1>4 DEF LoadConfig, Release, Go
  <2>2. /\ \A u \in Threads \ {t} : want'[u] = want[u]
        /\ doing[t] = "drop" => want' = want
        /\ doing[t] = "logout" /\ at'[t] = "truncate" => want'[t] = NoSession
    BY <1>4, <1>a DEF LoadConfig, Go
  <2> QED
    BY <1>a, <2>1, <2>2, ClearsKept DEF ClearsInv
<1>5. ASSUME NEW t \in Threads, Truncate(t) \/ Write(t) \/ Forget(t) \/ TellHub(t) PROVE ClearsInv'
  <2>1. /\ UNCHANGED <<doing, want>> /\ at[t] \in {"truncate", "write", "forget", "tell"}
        /\ \E x \in {"write", "idle", "forget", "tell"} : at' = [at EXCEPT ![t] = x]
        /\ at'[t] = "write" => at[t] = "truncate"
        /\ at'[t] = "forget" => doing[t] = "logout"
    BY <1>5, <1>a DEF Truncate, Write, Forget, TellHub, Release, Go
  <2>2. doing[t] # "none" /\ (at'[t] = "tell" => doing[t] # "drop")
    BY <1>5, <2>1 DEF ClearsInv, Truncate, Write, Forget, TellHub, Release, Go
  <2>3. \A u \in Threads \ {t} : at'[u] = at[u]
    BY <1>a, <2>1
  <2>4. at'[t] \in {"write", "idle", "forget", "tell"}
    BY <1>a, <2>1
  <2>5. doing[t] = "drop" => at'[t] \in Saving \cup {"idle"}
    BY <2>1, <2>2, <2>4
  <2>6. doing[t] \in {"drop", "logout"} /\ at'[t] \in Saving => want[t] = NoSession
    BY <2>1, <2>4 DEF ClearsInv
  <2> QED
    BY <2>1, <2>2, <2>3, <2>5, <2>6, ClearsKept
<1>6. ASSUME NEW t \in Threads, TakeLost(t) PROVE ClearsInv'
  BY <1>6 DEF TakeLost, ClearsInv
<1>7. ASSUME NEW p \in Procs, Expire(p) PROVE ClearsInv'
  BY <1>7 DEF Expire, ClearsInv
<1>8. ASSUME NEW p \in Procs, Crash(p) PROVE ClearsInv'
  <2>1. UNCHANGED <<doing, want>> /\ \A t \in Threads : at'[t] \in {at[t], "idle"}
    BY <1>8 DEF Crash
  <2> QED
    BY <2>1 DEF ClearsInv
<1>9. CASE UNCHANGED hsVars
  BY <1>9 DEF hsVars, ClearsInv
<1> QED
  BY <1>1, <1>2, <1>3, <1>4, <1>5, <1>6, <1>7, <1>8, <1>9 DEF HSNext

----------------------------------------------------------------------------
(* The hub session: no token twice *)

\* Of session s: what is sent or being saved is the current token.
SentCurrent(s)  == \A t \in Threads : at[t] = "send" /\ Of(token[t], s) => token[t].nr = hub[s].nr
SavedCurrent(s) == \A t \in Threads : Pending(t) /\ Of(want[t], s) => want[t].nr = hub[s].nr

(* The file has the current token, or a refresh that has the lock will put it
   there. *)
FileCurrent(s) ==
  Of(file.token, s) =>
    file.token.nr = hub[s].nr \/ \E t \in Threads : Pending(t) /\ Of(want[t], s)

SessionSafe(s) == ~hub[s].compromised /\ SentCurrent(s) /\ SavedCurrent(s) /\ FileCurrent(s)

SafeInv == \A s \in Sessions \ spoiled : SessionSafe(s)

LEMMA SafeInit == HSInit => SafeInv
<1> SUFFICES ASSUME HSInit, NEW s \in Sessions PROVE SessionSafe(s)
  BY DEF SafeInv
<1>1. ~hub[s].compromised /\ hub[s].nr = 1 /\ file.token.nr = 1
  BY DEF HSInit
<1>2. \A t \in Threads : at[t] = "idle"
  BY DEF HSInit
<1> QED
  BY <1>1, <1>2 DEF SessionSafe, SentCurrent, SavedCurrent, FileCurrent, Pending, Saving

(* A session is safe after a step that leaves its token, the token in the file
   and whatever thread sends or saves it as they were. *)
LEMMA SafeKept ==
  ASSUME NEW s \in Sessions, SessionSafe(s),
         hub'[s].nr = hub[s].nr, hub'[s].compromised = hub[s].compromised,
         Of(file'.token, s) => file'.token = file.token,
         \A t \in Threads : at'[t] = "send" => at[t] = "send" /\ token'[t] = token[t],
         \A t \in Threads : Pending(t)' => Pending(t) /\ want'[t] = want[t],
         \A t \in Threads : Pending(t) /\ Of(want[t], s) => Pending(t)' /\ want'[t] = want[t]
  PROVE  SessionSafe(s)'
BY DEF SessionSafe, SentCurrent, SavedCurrent, FileCurrent

(* Whoever is inside the lock is the only one who sends or saves. *)
LEMMA Alone ==
  ASSUME TypeInv, LockInv, spoiled # Sessions, NEW t \in Threads, InLock(t),
         NEW u \in Threads, at[u] \in {"read", "send"} \/ Pending(u)
  PROVE  u = t
<1>1. InLock(u)
  BY DEF TypeInv, Places, InLock, Pending, Locked
<1> QED
  BY <1>1 DEF LockInv

LEMMA SafeStep ==
  TypeInv /\ LockInv /\ NewInv /\ ClearsInv /\ SafeInv /\ [HSNext]_hsVars => SafeInv'
<1> SUFFICES ASSUME TypeInv, LockInv, NewInv, ClearsInv, SafeInv, [HSNext]_hsVars,
                    NEW s \in Sessions, s \notin spoiled'
             PROVE  SessionSafe(s)'
  BY DEF SafeInv
<1>a. /\ DOMAIN at = Threads /\ DOMAIN doing = Threads
      /\ DOMAIN token = Threads /\ DOMAIN want = Threads
  BY DEF TypeInv, HSTypeOK
<1>b. ASSUME s \notin spoiled PROVE SessionSafe(s) /\ spoiled # Sessions
  BY <1>b DEF SafeInv
<1> USE DEF Pending, Saving
<1>1. ASSUME NEW t \in Threads, AccessToken(t) \/ SaveSettings(t) \/ HubLogout(t)
      PROVE  SessionSafe(s)'
  <2>1. /\ at[t] = "idle" /\ at' \in {[at EXCEPT ![t] = "mutex"], [at EXCEPT ![t] = "load"]}
        /\ \A u \in Threads \ {t} : doing'[u] = doing[u]
        /\ at'[t] = "load" => doing'[t] \in {"settings", "logout"}
    BY <1>1, <1>a DEF AccessToken, SaveSettings, HubLogout, Begin, Go
  <2>2. UNCHANGED <<hub, file, token, want, spoiled>>
    BY <1>1 DEF AccessToken, SaveSettings, HubLogout
  <2> QED
    BY <1>a, <1>b, <2>1, <2>2, SafeKept
<1>2. ASSUME NEW t \in Threads, HubLogin(t) PROVE SessionSafe(s)'
  <2>1. /\ at[t] = "idle" /\ at' = [at EXCEPT ![t] = "mutex"]
        /\ \A u \in Threads \ {t} : doing'[u] = doing[u] /\ want'[u] = want[u]
    BY <1>2, <1>a DEF HubLogin, Begin, Go
  <2>2. UNCHANGED <<file, token, spoiled>>
    BY <1>2 DEF HubLogin
  <2>3. hub'[s].nr = hub[s].nr /\ hub'[s].compromised = hub[s].compromised
    BY <1>2 DEF HubLogin, TypeInv, HSTypeOK
  <2> QED
    BY <1>a, <1>b, <2>1, <2>2, <2>3, SafeKept
<1>3. ASSUME NEW t \in Threads, TakeMutex(t) \/ Forget(t) PROVE SessionSafe(s)'
  BY <1>3, <1>a, <1>b, SafeKept DEF TakeMutex, Forget, Go
<1>4. ASSUME NEW t \in Threads, LockFile(t) PROVE SessionSafe(s)'
  <2>1. s \notin spoiled
    BY <1>4 DEF LockFile
  <2>2. at[t] = "flock" /\ at' = [at EXCEPT ![t] = IF doing[t] = "access" THEN "read" ELSE "load"]
    BY <1>4 DEF LockFile, Go
  <2>3. UNCHANGED <<hub, file, doing, token, want>>
    BY <1>4 DEF LockFile
  <2> QED
    BY <1>a, <1>b, <2>1, <2>2, <2>3, SafeKept
<1>5. ASSUME NEW t \in Threads, ReadSession(t) PROVE SessionSafe(s)'
  <2>1. s \notin spoiled /\ UNCHANGED <<hub, file, doing, want>> /\ at[t] = "read"
    BY <1>5 DEF ReadSession
  <2>2. token' = [token EXCEPT ![t] = Contents] /\ doing[t] = "access"
    BY <1>5 DEF ReadSession, StoredToken, TypeInv, Places
  <2>3. at' \in {[at EXCEPT ![t] = "idle"], [at EXCEPT ![t] = "send"]}
    BY <1>5 DEF ReadSession, Release, Go
  <2>4. \A u \in Threads : ~Pending(u)
    <3>1. InLock(t)
      BY <2>1, <2>2 DEF InLock, Locked
    <3> QED
      BY <2>1, <3>1, <1>b, Alone
  <2>5. Of(Contents, s) => Contents.nr = hub[s].nr
    BY <2>1, <2>4, <1>b DEF SessionSafe, FileCurrent, Contents, Of
  <2> QED
    BY <1>a, <1>b, <2>1, <2>2, <2>3, <2>4, <2>5
    DEF SessionSafe, SentCurrent, SavedCurrent, FileCurrent
<1>6. ASSUME NEW t \in Threads, Refresh(t) PROVE SessionSafe(s)'
  <2> DEFINE k == token[t]
  <2>1. s \notin spoiled /\ UNCHANGED <<file, token>> /\ at[t] = "send" /\ doing[t] = "access"
        /\ k \in Token /\ k.session \in Sessions
    BY <1>6 DEF Refresh, TypeInv, Places, Token
  <2>2. \A u \in Threads : at[u] = "send" \/ Pending(u) => u = t
    <3>1. InLock(t)
      BY <2>1 DEF InLock, Locked
    <3> QED
      BY <2>1, <3>1, <1>b, Alone
  <2>3. at' = [at EXCEPT ![t] = "load"] /\ doing' \in {doing, [doing EXCEPT ![t] = "drop"]}
    BY <1>6 DEF Refresh, Go
  <2>4. \A u \in Threads : at'[u] # "send" /\ (Pending(u)' => u = t)
    BY <1>a, <2>2, <2>3
  <2>5. CASE k.session # s
    <3>1. hub'[s] = hub[s]
      BY <1>6, <2>1, <2>5 DEF Refresh, Exchanged, TypeInv, HSTypeOK
    <3>2. ~Pending(t) /\ ~Of(want'[t], s)
      BY <1>6, <1>a, <2>1, <2>5, SessionAssumption DEF Refresh, Of, Token
    <3> HIDE DEF k
    <3> QED
      BY <1>b, <2>1, <2>2, <2>4, <3>1, <3>2 DEF SessionSafe, SentCurrent, SavedCurrent, FileCurrent
  <2>6. CASE k.session = s
    <3>1. Current(k) /\ Of(k, s)
      BY <1>b, <2>1, <2>6, SessionAssumption DEF SessionSafe, SentCurrent, Current, Of, Token
    <3>2. CASE hub[s].live
      <4>1. hub' = [hub EXCEPT ![s].nr = @ + 1] /\ doing' = doing
            /\ want' = [want EXCEPT ![t] = [k EXCEPT !.nr = @ + 1]]
        BY <1>6, <2>6, <3>1, <3>2 DEF Refresh, Exchanged, Current
      <4>2. hub'[s].nr = hub[s].nr + 1 /\ hub'[s].compromised = hub[s].compromised
        BY <4>1 DEF TypeInv, HSTypeOK
      <4>3. want'[t] = [k EXCEPT !.nr = @ + 1]
        BY <4>1, <1>a
      <4>4. want'[t].session = s /\ want'[t].nr = hub'[s].nr /\ want'[t] # NoSession
        <5>1. k.nr < MaxTokens /\ k.nr = hub[s].nr
          BY <1>6, <2>6, <3>1, <3>2 DEF Refresh, Current
        <5>2. [k EXCEPT !.nr = @ + 1] \in Token
          BY <2>1, <5>1, SessionAssumption DEF Token
        <5> QED
          BY <2>1, <2>6, <4>2, <4>3, <5>1, <5>2, SessionAssumption DEF Token
      <4>5. Pending(t)'
        BY <1>a, <2>1, <2>3, <4>1
      <4> HIDE DEF k
      <4> QED
        BY <1>b, <2>1, <2>4, <4>2, <4>4, <4>5
        DEF SessionSafe, SentCurrent, SavedCurrent, FileCurrent, Of
    <3>3. CASE ~hub[s].live
      <4>1. hub' = hub /\ want' = [want EXCEPT ![t] = NoSession]
        BY <1>6, <2>6, <3>3 DEF Refresh, Exchanged
      <4>2. ~Of(want'[t], s) /\ ~Pending(t)
        BY <4>1, <1>a, <2>1 DEF Of
      <4> HIDE DEF k
      <4> QED
        BY <1>b, <2>1, <2>2, <2>4, <4>1, <4>2
        DEF SessionSafe, SentCurrent, SavedCurrent, FileCurrent
    <3> QED
      BY <3>2, <3>3
  <2> QED
    BY <2>5, <2>6
<1>7. ASSUME NEW t \in Threads, RefreshFails(t) PROVE SessionSafe(s)'
  <2>1. s \notin spoiled /\ UNCHANGED <<file, token, doing, want>> /\ at[t] = "send"
    BY <1>7 DEF RefreshFails
  <2>2. at' = [at EXCEPT ![t] = "idle"]
    BY <1>7 DEF RefreshFails, Release, Go
  <2>3. hub'[s] = hub[s]
    <3>1. hub' = hub \/ (hub' = Exchanged(token[t]) /\ s # token[t].session)
      BY <1>7 DEF RefreshFails
    <3> QED
      BY <3>1 DEF Exchanged, TypeInv, HSTypeOK
  <2> QED
    BY <1>a, <1>b, <2>1, <2>2, <2>3, SafeKept
<1>8. ASSUME NEW t \in Threads, LoadConfig(t) PROVE SessionSafe(s)'
  <2>1. s \notin spoiled /\ UNCHANGED <<hub, file, doing>> /\ at[t] = "load"
    BY <1>8 DEF LoadConfig
  <2>2. /\ at' \in {[at EXCEPT ![t] = "idle"], [at EXCEPT ![t] = "truncate"]}
        /\ doing[t] = "access" => at' = [at EXCEPT ![t] = "truncate"] /\ want' = want
    BY <1>8 DEF LoadConfig, Release, Go
  <2>3. \A u \in Threads \ {t} : token'[u] = token[u] /\ want'[u] = want[u]
    BY <1>8, <1>a DEF LoadConfig
  <2> QED
    BY <1>a, <1>b, <2>1, <2>2, <2>3, SafeKept
<1>9. ASSUME NEW t \in Threads, Truncate(t) PROVE SessionSafe(s)'
  <2>1. s \notin spoiled /\ UNCHANGED <<hub, doing, token, want>> /\ file'.token = file.token
    BY <1>9 DEF Truncate, TypeInv, HSTypeOK
  <2>2. at[t] = "truncate" /\ at' = [at EXCEPT ![t] = "write"]
    BY <1>9 DEF Truncate, Go
  <2> QED
    BY <1>a, <1>b, <2>1, <2>2, SafeKept
<1>10. ASSUME NEW t \in Threads, Write(t) PROVE SessionSafe(s)'
  <2>1. s \notin spoiled /\ UNCHANGED <<hub, doing, token, want>> /\ at[t] = "write"
    BY <1>10 DEF Write
  <2>2. at' \in {[at EXCEPT ![t] = "idle"], [at EXCEPT ![t] = "forget"]}
    BY <1>10 DEF Write, Release, Go
  <2>3. SessionSafe(s)
    BY <2>1, <1>b
  <2>4. CASE /\ file' = [token |-> want[t], whole |-> TRUE]
             /\ spoiled' = spoiled \cup Overwritten(t)
    <3>1. file'.token = want[t]
      BY <2>4
    <3>2. ASSUME Of(want[t], s) PROVE want[t].nr = hub[s].nr \/ want[t] = file.token
      <4>1. CASE doing[t] = "access"
        BY <2>1, <2>3, <3>2, <4>1 DEF SessionSafe, SavedCurrent
      <4>2. CASE doing[t] = "login"
        BY <2>1, <3>2, <4>2 DEF NewInv, LoggingIn, OnlyWith, Of
      <4>3. CASE doing[t] = "settings"
        BY <2>4, <3>2, <4>3 DEF Overwritten, Of
      <4>4. CASE doing[t] \in {"none", "drop", "logout"}
        BY <2>1, <3>2, <4>4 DEF ClearsInv, Writing, Of
      <4> QED
        BY <4>1, <4>2, <4>3, <4>4 DEF TypeInv, HSTypeOK, Call
    <3>3. \A u \in Threads : /\ at'[u] = "send" => at[u] = "send"
                             /\ Pending(u)' => Pending(u)
                             /\ Pending(u) /\ u # t => Pending(u)'
      BY <1>a, <2>1, <2>2
    <3>4. FileCurrent(s)'
      <4>1. ASSUME Of(want[t], s), want[t].nr # hub[s].nr
            PROVE  \E u \in Threads : Pending(u)' /\ Of(want[u], s)
        <5>1. \E u \in Threads : Pending(u) /\ Of(want[u], s)
          BY <2>3, <3>2, <4>1 DEF SessionSafe, FileCurrent
        <5>2. ~Pending(t)
          BY <2>3, <4>1 DEF SessionSafe, SavedCurrent
        <5> HIDE DEF Pending
        <5> QED
          BY <3>3, <5>1, <5>2
      <4> HIDE DEF Pending
      <4> QED
        BY <2>1, <3>1, <4>1 DEF FileCurrent, Of
    <3>5. SentCurrent(s)'
      BY <2>1, <2>3, <3>3 DEF SessionSafe, SentCurrent
    <3>6. SavedCurrent(s)'
      <4> HIDE DEF Pending
      <4> QED
        BY <2>1, <2>3, <3>3 DEF SessionSafe, SavedCurrent
    <3> QED
      BY <2>1, <2>3, <3>4, <3>5, <3>6 DEF SessionSafe
  <2>5. CASE file' = file /\ (Of(want[t], s) => s \in spoiled')
    BY <1>a, <2>1, <2>2, <2>3, <2>5, SafeKept
  <2> QED
    BY <1>10, <2>4, <2>5 DEF Write, Content, Of
<1>11. ASSUME NEW t \in Threads, TellHub(t) PROVE SessionSafe(s)'
  <2>1. s \notin spoiled /\ UNCHANGED <<file, doing, token, want>> /\ at[t] = "tell"
    BY <1>11 DEF TellHub
  <2>2. at' = [at EXCEPT ![t] = "idle"]
    BY <1>11 DEF TellHub, Go
  <2>3. hub'[s].nr = hub[s].nr /\ hub'[s].compromised = hub[s].compromised
    BY <1>11 DEF TellHub, TypeInv, HSTypeOK
  <2> QED
    BY <1>a, <1>b, <2>1, <2>2, <2>3, SafeKept
<1>12. ASSUME NEW t \in Threads, TakeLost(t) PROVE SessionSafe(s)'
  BY <1>12, <1>b, SafeKept DEF TakeLost
<1>13. ASSUME NEW p \in Procs, Expire(p) PROVE SessionSafe(s)'
  BY <1>13, <1>b, SafeKept DEF Expire
<1>14. ASSUME NEW p \in Procs, Crash(p) PROVE SessionSafe(s)'
  <2>1. s \notin spoiled /\ UNCHANGED <<hub, file, doing, token, want>>
    BY <1>14 DEF Crash
  <2>2. \A t \in Threads : at'[t] = at[t] \/ (at'[t] = "idle" /\ ProcOf[t] = p /\ t \in Active)
    BY <1>14 DEF Crash
  <2>3. \A t \in Active : ProcOf[t] = p /\ Pending(t) => want[t].session \in spoiled'
    BY <1>14 DEF Crash
  <2> QED
    BY <1>b, <2>1, <2>2, <2>3, SafeKept DEF Of, Active
<1>15. CASE UNCHANGED hsVars
  BY <1>15, <1>b, SafeKept DEF hsVars
<1> QED
  BY <1>1, <1>2, <1>3, <1>4, <1>5, <1>6, <1>7, <1>8, <1>9, <1>10, <1>11, <1>12, <1>13, <1>14,
     <1>15 DEF HSNext

(* hubsession.rs:3: no refresh token is shown to the hub twice, by whatever
   threads and processes, unless it was lost on its way or in a crash, was not
   saved, was overwritten by settings, or the lock beside the file failed. *)
THEOREM SessionIsSafe == HSSpec => []SessionSurvives
<1>1. SafeInv => SessionSurvives
  BY DEF SafeInv, SessionSafe, SessionSurvives
<1> QED
  BY <1>1, TypeInit, TypeStep, LockInit, LockStep, NewInit, NewStep, ClearsInit,
     ClearsStep, SafeInit, SafeStep, PTL
  DEF HSSpec

----------------------------------------------------------------------------
(* The hub session: logged out *)

(* A thread that can bring no session back: it stores no login, sends no token,
   and writes a file without a session. *)
Harmless(t) ==
  /\ doing[t] = "login" => at[t] = "idle"
  /\ at[t] # "send"
  /\ at[t] \in {"mutex", "flock"} => doing[t] = "access"
  /\ at[t] = "load" => doing[t] \in {"settings", "logout"}
  /\ at[t] \in Writing => want[t] = NoSession

(* Once a logout has written alone no thread can bring a session back, also
   not one that begins before the next login: it finds none. *)
OutInv == out => file.token = NoSession /\ \A t \in Threads : Harmless(t)

(* One thread moves on and stays harmless. *)
LEMMA OutKept ==
  ASSUME TypeInv, OutInv, out, NEW t \in Threads, file'.token = file.token,
         \A u \in Threads \ {t} : at'[u] = at[u] /\ want'[u] = want[u] /\ doing'[u] = doing[u],
         Harmless(t)'
  PROVE  OutInv'
BY DEF OutInv, Harmless

LEMMA OutStep == TypeInv /\ ClearsInv /\ OutInv /\ [HSNext]_hsVars => OutInv'
<1> SUFFICES ASSUME TypeInv, ClearsInv, OutInv, [HSNext]_hsVars, out' PROVE OutInv'
  BY DEF OutInv
<1>a. DOMAIN at = Threads /\ DOMAIN doing = Threads /\ DOMAIN want = Threads
  BY DEF TypeInv, HSTypeOK
<1>b. out => file.token = NoSession /\ Contents = NoSession /\ \A t \in Threads : Harmless(t)
  BY DEF OutInv, Contents
<1>1. ASSUME NEW t \in Threads, AccessToken(t) \/ HubLogin(t) \/ SaveSettings(t) \/ HubLogout(t)
      PROVE  OutInv'
  <2>1. /\ out /\ file' = file /\ want' = want
        /\ \/ doing' = [doing EXCEPT ![t] = "access"] /\ at' = [at EXCEPT ![t] = "mutex"]
           \/ /\ at' = [at EXCEPT ![t] = "load"]
              /\ \/ doing' = [doing EXCEPT ![t] = "settings"]
                 \/ doing' = [doing EXCEPT ![t] = "logout"]
    BY <1>1 DEF AccessToken, HubLogin, SaveSettings, HubLogout, Begin, Go
  <2>2. Harmless(t)'
    BY <1>a, <2>1 DEF Harmless, Writing
  <2> QED
    BY <1>a, <2>1, <2>2, OutKept
<1>2. ASSUME NEW t \in Threads, TakeMutex(t) \/ LockFile(t) \/ ReadSession(t) PROVE OutInv'
  <2>1. /\ out /\ UNCHANGED <<file, want, doing>> /\ at[t] \in {"mutex", "flock", "read"}
        /\ \E x \in {"flock", "read", "load", "idle", "send"} :
             /\ at' = [at EXCEPT ![t] = x]
             /\ x = "load" => doing[t] # "access"
             /\ x = "send" => Contents # NoSession
    BY <1>2 DEF TakeMutex, LockFile, ReadSession, StoredToken, Release, Go
  <2>2. doing[t] = "access"
    BY <1>b, <2>1 DEF Harmless, TypeInv, Places
  <2>3. Harmless(t)'
    BY <1>a, <1>b, <2>1, <2>2 DEF Harmless, Writing
  <2> QED
    BY <1>a, <2>1, <2>3, OutKept
<1>3. ASSUME NEW t \in Threads, Refresh(t) \/ RefreshFails(t) PROVE OutInv'
  <2>1. out /\ at[t] = "send"
    BY <1>3 DEF Refresh, RefreshFails
  <2> QED
    BY <1>b, <2>1 DEF Harmless
<1>4. ASSUME NEW t \in Threads, LoadConfig(t) PROVE OutInv'
  <2>1. out /\ at[t] = "load" /\ doing' = doing /\ file' = file
    BY <1>4 DEF LoadConfig
  <2>2. doing[t] \in {"settings", "logout"}
    BY <1>b, <2>1 DEF Harmless
  <2>3. /\ at' \in {[at EXCEPT ![t] = "idle"], [at EXCEPT ![t] = "truncate"]}
        /\ \A u \in Threads \ {t} : want'[u] = want[u]
        /\ at'[t] = "truncate" => want'[t] = NoSession
    BY <1>4, <1>a, <1>b, <2>1, <2>2 DEF LoadConfig, Go
  <2>4. Harmless(t)'
    BY <1>a, <2>1, <2>2, <2>3 DEF Harmless, Writing
  <2> QED
    BY <1>a, <2>1, <2>3, <2>4, OutKept
<1>5. ASSUME NEW t \in Threads, Truncate(t) PROVE OutInv'
  <2>1. /\ out /\ UNCHANGED <<want, doing>> /\ at[t] = "truncate"
        /\ at' = [at EXCEPT ![t] = "write"] /\ file'.token = file.token
    BY <1>5 DEF Truncate, Go, TypeInv, HSTypeOK
  <2>2. Harmless(t)'
    BY <1>a, <1>b, <2>1 DEF Harmless, Writing
  <2> QED
    BY <1>a, <2>1, <2>2, OutKept
<1>6. ASSUME NEW t \in Threads, Write(t) PROVE OutInv'
  <2>a. /\ UNCHANGED <<want, doing>> /\ at[t] = "write"
        /\ at' \in {[at EXCEPT ![t] = "idle"], [at EXCEPT ![t] = "forget"]}
    BY <1>6 DEF Write, Release, Go
  <2>b. file' = file \/ file' = [token |-> want[t], whole |-> TRUE]
    BY <1>6 DEF Write, Content
  <2>c. file' = file \/ file'.token = want[t]
    BY <2>b
  <2>1. out \/ (doing[t] = "logout" /\ Active = {t} /\ file'.token = want[t])
    <3>1. CASE UNCHANGED <<file, out>>
      BY <3>1
    <3>2. CASE /\ file' = [token |-> want[t], whole |-> TRUE]
               /\ out' = IF doing[t] = "logout" THEN Active = {t} ELSE out
      <4>1. doing[t] # "logout" => out
        BY <3>2
      <4>2. doing[t] = "logout" => Active = {t}
        BY <3>2
      <4>3. file'.token = want[t]
        BY <3>2
      <4> QED
        BY <4>1, <4>2, <4>3
    <3> QED
      BY <1>6, <3>1, <3>2 DEF Write, Content
  <2>2. want[t] = NoSession
    BY <1>b, <2>a, <2>1 DEF Harmless, ClearsInv, Writing
  <2>3. \A u \in Threads : (out => Harmless(u)) /\ (~out => u = t \/ at[u] = "idle")
    BY <1>b, <2>1 DEF Active
  <2>4. \A u \in Threads \ {t} : at'[u] = at[u] /\ Harmless(u)
    BY <1>a, <2>a, <2>3 DEF Harmless, Writing
  <2>5. at'[t] \in {"idle", "forget"} /\ (doing[t] = "login" => at'[t] = "idle")
    BY <1>6, <1>a, <2>a DEF Write, Release, Go, Locked
  <2>6. \A u \in Threads : Harmless(u)'
    BY <2>a, <2>4, <2>5 DEF Harmless, Writing
  <2>7. file'.token = NoSession
    BY <1>b, <2>c, <2>1, <2>2
  <2> QED
    BY <2>6, <2>7 DEF OutInv
<1>7. ASSUME NEW t \in Threads, Forget(t) \/ TellHub(t) \/ TakeLost(t) PROVE OutInv'
  <2>1. out /\ UNCHANGED <<want, doing, file>>
    BY <1>7 DEF Forget, TellHub, TakeLost
  <2>2. at' = at \/ at' = [at EXCEPT ![t] = "idle"]
        \/ (at[t] = "forget" /\ at' = [at EXCEPT ![t] = "tell"])
    BY <1>7 DEF Forget, TellHub, TakeLost, Go
  <2>3. Harmless(t)'
    BY <1>a, <1>b, <2>1, <2>2 DEF Harmless, Writing
  <2>4. \A u \in Threads \ {t} : at'[u] = at[u]
    BY <1>a, <2>2
  <2> QED
    BY <2>1, <2>3, <2>4, OutKept
<1>8. ASSUME NEW p \in Procs, Expire(p) \/ Crash(p) PROVE OutInv'
  <2>1. /\ out /\ UNCHANGED <<want, doing, file>>
        /\ \A u \in Threads : at'[u] \in {at[u], "idle"}
    BY <1>8 DEF Expire, Crash
  <2> QED
    BY <1>b, <2>1 DEF OutInv, Harmless, Writing
<1>9. CASE UNCHANGED hsVars
  BY <1>9 DEF hsVars, OutInv, Harmless
<1> QED
  BY <1>1, <1>2, <1>3, <1>4, <1>5, <1>6, <1>7, <1>8, <1>9 DEF HSNext

(* actions.rs:896: after a logout that nobody else was under way with no
   session comes back before the next login, by whatever refreshes, settings
   and logouts of however many processes. *)
THEOREM LogoutIsFinal == HSSpec => []LogoutHolds
<1>1. HSInit => OutInv
  BY DEF HSInit, OutInv
<1>2. OutInv => LogoutHolds
  BY DEF OutInv, LogoutHolds, Contents
<1> QED
  BY <1>1, <1>2, OutStep, TypeInit, TypeStep, ClearsInit, ClearsStep, PTL DEF HSSpec
=============================================================================

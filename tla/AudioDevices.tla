---------------------------- MODULE AudioDevices ----------------------------
(***************************************************************************)
(* Who has the microphone and the speaker of the client open: the owner    *)
(* threads of client/src/audio/capture.rs and playback.rs, and those who   *)
(* start and stop them -- the network task of a connection                 *)
(* (audio_config_ack in net/ws_client.rs), the user interface              *)
(* (restart_audio, do_disconnect, stop_audio_pipeline in actions.rs) and   *)
(* the task that connects.                                                 *)
(*                                                                         *)
(* A device is opened by a thread of its own while its starter waits or    *)
(* goes on; the sender that stops the thread is put into inner afterwards, *)
(* and dropping a sender stops its thread as well.  Connections themselves *)
(* are ClientConnection's; here one follows the other.                     *)
(***************************************************************************)
EXTENDS Naturals

CONSTANTS
  Links,          \* connections, 1..n
  Captures,       \* 1..n: captures started so far are 1..captures
  Playbacks,      \* likewise
  UserInterface,  \* who starts a capture that no connection starts
  NoDevice

\* NoDevice (None) is none of the devices that are opened.
ASSUME NoDeviceAssumption == NoDevice \notin Captures \cup Playbacks

VARIABLES
  connected, link,                 \* the connection there is, or the last one
  receiver,                        \* the receive task of each connection
  capturing,
  captures, mic, mic_by,           \* of each capture: its thread, and who started it
  capture_stream_stop,             \* the capture whose stop sender is in inner
  playbacks, speaker,
  playback_stream_stop,
  playback_tx,                     \* the playback that gets the sound
  stopped_mics, stopped_speakers,  \* told to stop, or their sender is dropped
  late,                            \* captures somebody still opened when the connection
                                   \* ended, or began to open after that
  raced                            \* playbacks begun while another was being opened

adVars == <<connected, link, receiver, capturing, captures, mic, mic_by, capture_stream_stop,
            playbacks, speaker, playback_stream_stop, playback_tx, stopped_mics,
            stopped_speakers, late, raced>>

microphones == <<capturing, captures, mic, mic_by, capture_stream_stop, stopped_mics, late>>
speakers    == <<playbacks, speaker, playback_stream_stop, playback_tx, stopped_speakers, raced>>
connection  == <<connected, link, receiver>>

Opening(c)    == mic[c] \in {"opening", "open"}
NowOpening    == {c \in Captures : Opening(c)}
StartingUp(p) == speaker[p] \in {"starting", "stored"}

ADInit ==
  /\ connected = FALSE /\ link = 0
  /\ receiver = [k \in Links |-> "none"]
  /\ capturing = FALSE /\ captures = 0
  /\ mic = [c \in Captures |-> "none"]
  /\ mic_by = [c \in Captures |-> UserInterface]
  /\ capture_stream_stop = NoDevice
  /\ playbacks = 0
  /\ speaker = [p \in Playbacks |-> "none"]
  /\ playback_stream_stop = NoDevice /\ playback_tx = NoDevice
  /\ stopped_mics = {} /\ stopped_speakers = {}
  /\ late = {} /\ raced = {}

(* A plausible slip: the sender is leaked, and its thread goes on. *)
LeftAlone(stopped) == stopped

\* A sender that is replaced is dropped, and its thread ends.
Replaced(stopped) == stopped \cup ({capture_stream_stop} \ {NoDevice})

(* start_capture_owned: a thread opens the device, the starter waits. *)
StartCapture(by) ==
  /\ captures + 1 \in Captures
  /\ captures' = captures + 1
  /\ mic' = [mic EXCEPT ![captures'] = "opening"]
  /\ mic_by' = [mic_by EXCEPT ![captures'] = by]

(* A plausible slip: as above. *)
SpeakersLeftAlone == stopped_speakers

SpeakersReplaced == stopped_speakers \cup ({playback_stream_stop} \ {NoDevice})

(* The owner thread of a playback takes the place of the last. *)
SpawnPlayback ==
  /\ playbacks + 1 \in Playbacks
  /\ playbacks' = playbacks + 1
  /\ speaker' = [speaker EXCEPT ![playbacks'] = "starting"]
  /\ stopped_speakers' = SpeakersReplaced
  /\ playback_stream_stop' = playbacks'
  /\ raced' = IF \E p \in Playbacks : StartingUp(p) THEN raced \cup {playbacks'} ELSE raced
  /\ UNCHANGED playback_tx

(* establish_session: a first connection opens a playback, a reconnection
   goes on with the one there is. *)
Establish ==
  /\ ~connected /\ link + 1 \in Links
  /\ link' = link + 1 /\ connected' = TRUE
  /\ receiver' = [receiver EXCEPT ![link'] = "idle"]
  /\ \/ SpawnPlayback
     \/ playback_stream_stop # NoDevice /\ UNCHANGED speakers
  /\ late' = {}
  /\ UNCHANGED <<capturing, captures, mic, mic_by, capture_stream_stop, stopped_mics>>

(* audio_config_ack: the network task opens the microphone unless there is
   one, and waits for it. *)
AudioConfigAck(k) ==
  /\ receiver[k] = "idle" /\ ~capturing
  /\ StartCapture(k)
  /\ receiver' = [receiver EXCEPT ![k] = "starting"]
  /\ late' = IF connected /\ k = link THEN late ELSE late \cup {captures'}
  /\ UNCHANGED <<connected, link, capturing, capture_stream_stop, stopped_mics, speakers>>

\* The network task that waited for c goes on.
Released(c) ==
  IF mic_by[c] = UserInterface THEN receiver ELSE [receiver EXCEPT ![mic_by[c]] = "idle"]

MicrophoneOpens(c) ==
  /\ mic[c] = "opening"
  /\ mic' = [mic EXCEPT ![c] = "open"]
  /\ UNCHANGED <<connection, capturing, captures, mic_by, capture_stream_stop, stopped_mics,
                 late, speakers>>

MicrophoneFails(c) ==
  /\ mic[c] = "opening"
  /\ mic' = [mic EXCEPT ![c] = "closed"]
  /\ receiver' = Released(c)
  /\ UNCHANGED <<connected, link, capturing, captures, mic_by, capture_stream_stop,
                 stopped_mics, late, speakers>>

(* The starter puts the sender into inner, whatever is there by now. *)
KeepCapture(c) ==
  /\ mic[c] = "open"
  /\ mic' = [mic EXCEPT ![c] = "running"]
  /\ capturing' = TRUE
  /\ stopped_mics' = Replaced(stopped_mics)
  /\ capture_stream_stop' = c
  /\ receiver' = Released(c)
  /\ UNCHANGED <<connected, link, captures, mic_by, late, speakers>>

CaptureEnds(c) ==
  /\ mic[c] = "running" /\ c \in stopped_mics
  /\ mic' = [mic EXCEPT ![c] = "closed"]
  /\ UNCHANGED <<connection, capturing, captures, mic_by, capture_stream_stop, stopped_mics,
                 late, speakers>>

StopCapture ==
  /\ stopped_mics' = stopped_mics \cup ({capture_stream_stop} \ {NoDevice})
  /\ capture_stream_stop' = NoDevice
  /\ capturing' = FALSE

(* restart_audio: other devices were chosen. *)
RestartAudio ==
  /\ connected
  /\ StopCapture
  /\ StartCapture(UserInterface)
  /\ SpawnPlayback
  /\ UNCHANGED <<connection, late>>

(* connection_lost: the receive task has ended; the playback goes on. *)
StopAudioPipeline ==
  /\ connected /\ receiver[link] = "idle"
  /\ connected' = FALSE
  /\ receiver' = [receiver EXCEPT ![link] = "closed"]
  /\ StopCapture
  /\ late' = late \cup NowOpening
  /\ UNCHANGED <<link, captures, mic, mic_by, speakers>>

(* do_disconnect, connected or between two connections; the receive task goes
   on until the server closes the socket. *)
DoDisconnect ==
  /\ connected \/ playback_stream_stop # NoDevice
  /\ connected' = FALSE
  /\ StopCapture
  /\ late' = late \cup NowOpening
  /\ stopped_speakers' = stopped_speakers \cup ({playback_stream_stop} \ {NoDevice})
  /\ playback_stream_stop' = NoDevice
  /\ UNCHANGED <<link, receiver, captures, mic, mic_by, playbacks, speaker, playback_tx, raced>>

ReceiverCloses(k) ==
  /\ receiver[k] = "idle" /\ ~(connected /\ k = link)
  /\ receiver' = [receiver EXCEPT ![k] = "closed"]
  /\ UNCHANGED <<connected, link, microphones, speakers>>

----------------------------------------------------------------------------
(* start_playback: the channel is put into the state before the device plays. *)
PlaybackStores(p) ==
  /\ speaker[p] = "starting"
  /\ speaker' = [speaker EXCEPT ![p] = "stored"]
  /\ playback_tx' = p
  /\ UNCHANGED <<connection, microphones, playbacks, playback_stream_stop, stopped_speakers, raced>>

PlaybackPlays(p) ==
  /\ speaker[p] = "stored"
  /\ speaker' = [speaker EXCEPT ![p] = "playing"]
  /\ UNCHANGED <<connection, microphones, playbacks, playback_stream_stop, playback_tx,
                 stopped_speakers, raced>>

(* A device that cannot be opened, or a playback told to stop. *)
PlaybackEnds(p) ==
  /\ StartingUp(p) \/ (speaker[p] = "playing" /\ p \in stopped_speakers)
  /\ speaker' = [speaker EXCEPT ![p] = "closed"]
  /\ UNCHANGED <<connection, microphones, playbacks, playback_stream_stop, playback_tx,
                 stopped_speakers, raced>>

ADNext ==
  \/ Establish \/ RestartAudio \/ StopAudioPipeline \/ DoDisconnect
  \/ \E k \in Links : AudioConfigAck(k) \/ ReceiverCloses(k)
  \/ \E c \in Captures :
       MicrophoneOpens(c) \/ MicrophoneFails(c) \/ KeepCapture(c) \/ CaptureEnds(c)
  \/ \E p \in Playbacks : PlaybackStores(p) \/ PlaybackPlays(p) \/ PlaybackEnds(p)

ADSpec == ADInit /\ [][ADNext]_adVars

----------------------------------------------------------------------------
(* Every variable has its type. *)
ADTypeOK ==
  /\ connected \in BOOLEAN /\ capturing \in BOOLEAN
  /\ link \in Links \cup {0}
  /\ receiver \in [Links -> {"none", "idle", "starting", "closed"}]
  /\ captures \in Captures \cup {0} /\ playbacks \in Playbacks \cup {0}
  /\ mic \in [Captures -> {"none", "opening", "open", "running", "closed"}]
  /\ mic_by \in [Captures -> Links \cup {UserInterface}]
  /\ speaker \in [Playbacks -> {"none", "starting", "stored", "playing", "closed"}]
  /\ capture_stream_stop \in Captures \cup {NoDevice}
  /\ playback_stream_stop \in Playbacks \cup {NoDevice}
  /\ playback_tx \in Playbacks \cup {NoDevice}
  /\ stopped_mics \subseteq Captures /\ late \subseteq Captures
  /\ stopped_speakers \subseteq Playbacks /\ raced \subseteq Playbacks

(* state.rs:109: an open microphone can be closed -- the sender that stops it
   is in inner -- or is closing, however starts and stops overlap; and without
   a connection none is open but one that somebody was still opening when the
   connection ended, or whose acknowledgement came after that. *)
MicrophoneOwned ==
  \A c \in Captures : mic[c] = "running" /\ c \notin stopped_mics =>
    /\ capture_stream_stop = c
    /\ connected \/ c \in late

(* An open speaker can be closed or is closing, and the one that stays gets
   the sound, once it is open -- unless it was begun while another still was
   being opened, which then may put its own channel in last. *)
SpeakerOwned ==
  \A p \in Playbacks : speaker[p] = "playing" /\ p \notin stopped_speakers =>
    /\ playback_stream_stop = p
    /\ p \in raced \/ playback_tx = p
=============================================================================

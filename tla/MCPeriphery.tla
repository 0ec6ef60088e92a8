----------------------------- MODULE MCPeriphery -----------------------------
(***************************************************************************)
(* The parts around the mixer, each on its own: the connector of RTSP       *)
(* sources, the commands of the window, its record button, the feed of its  *)
(* thumbnails, the capture of frames and the capture of sound. A behaviour  *)
(* is about one.                                                            *)
(***************************************************************************)
EXTENDS AlsaSource, TLC

CONSTANTS
  Connection, Guest, NULL,
  SourceId, Fade, QueueLen,
  MaxSources, PipeSize, NoFrames,
  Packet, Sequence, Header, FrameBlocks, Smallest, MaxFrame, MaxPackets, NoData, Garbage

ASSUME PeripheryAssumption ==
  /\ Connection \intersect Guest = {} /\ NULL \notin Connection \union Guest \union Nat
  /\ SourceId # {}
  /\ PipeSize \in Nat \ {0} /\ MaxSources \in Nat \ {0}
  /\ Packet \in Nat \ {0} /\ Sequence \in Nat \ {0} /\ Header \in Nat \ {0}
  /\ FrameBlocks \in Nat \ {0} /\ MaxPackets \in Nat \ {0}
  /\ Smallest \in Nat /\ MaxFrame \in Nat
  /\ Sequence + Header - 1 <= Smallest /\ Smallest <= FrameBlocks /\ FrameBlocks <= MaxFrame

VARIABLES
  unit,
  ui, stage, playing, add_conn_, add_error_, poll_pipe_, poll_exit_flag_, sources_, id_,
  last_put,
  win, handler, count, can_record, do_record, queue, ended, mixer_at, report, stale,
  source_count, stored, wakeup_pipe_, putting, updating, taken, left, thumbnails_,
  next_source_id_, waited,
  camera, overspill_, handle_open, fOurProfile, fInitialBlocksPresent,
  fSavedInitialBlocks, buffer, reading, delivered, sound

Links == INSTANCE Connector
Window == INSTANCE MixerWindow
Feed == INSTANCE MonitorFeed
Frames == INSTANCE Capture

link_vars == <<ui, stage, playing, add_conn_, add_error_, poll_pipe_, poll_exit_flag_,
               sources_, id_, last_put>>
window_vars == <<win, handler, count, can_record, do_record, queue, ended, mixer_at, report, stale>>
feed_vars == <<source_count, stored, wakeup_pipe_, putting, updating, taken, left,
               thumbnails_, next_source_id_, waited>>
capture_vars == <<camera, overspill_, handle_open, fOurProfile, fInitialBlocksPresent,
                  fSavedInitialBlocks, buffer, reading, delivered, sound>>

\* Sixteen frames at 48 kHz in 525/60, a hundredth of their length.
Cycle == <<16, 17, 16>>

\* Fades are reused and not told apart.
FadeSymmetry == Permutations(Fade)

PeripheryInit ==
  /\ unit \in {"connector", "window", "record", "feed", "capture", "alsa"}
  /\ Links!Init /\ Window!Init /\ Feed!Init /\ Frames!Init /\ Init
  /\ unit # "window" => ~win.fade_pending
  /\ unit # "capture" => camera = 0

ConnectorStep ==
  /\ unit = "connector" /\ Links!Next
  /\ UNCHANGED <<unit, window_vars, feed_vars, capture_vars, vars>>
\* Recording and effects share no member of the window: each is taken without the other.
WindowStep ==
  /\ \/ unit = "window" /\ UNCHANGED can_record /\ (Window!Mixing \/ Window!update)
     \/ unit = "record" /\ (Window!toggle_record \/ Window!update)
  /\ UNCHANGED <<unit, link_vars, feed_vars, capture_vars, vars>>
FeedStep ==
  /\ unit = "feed" /\ Feed!Next
  /\ UNCHANGED <<unit, link_vars, window_vars, capture_vars, vars>>
CaptureStep ==
  /\ unit = "capture" /\ Frames!Next
  /\ UNCHANGED <<unit, link_vars, window_vars, feed_vars, vars>>
AlsaStep ==
  /\ unit = "alsa" /\ Next
  /\ UNCHANGED <<unit, link_vars, window_vars, feed_vars, capture_vars>>

PeripheryNext == ConnectorStep \/ WindowStep \/ FeedStep \/ CaptureStep \/ AlsaStep

all_vars == <<unit, link_vars, window_vars, feed_vars, capture_vars, vars>>

(***************************************************************************)
(* The two threads of the connector run: neither the UI thread, once it has *)
(* begun to add a source, nor the event loop stops for ever.                *)
(***************************************************************************)
UIThread ==
  /\ unit = "connector"
  /\ Links!do_add_source \/ Links!Register \/ Links!Play \/ Links!Answer \/ Links!Unwind
  /\ UNCHANGED <<unit, window_vars, feed_vars, capture_vars, vars>>
EventLoop ==
  /\ unit = "connector" /\ Links!handle_request
  /\ UNCHANGED <<unit, window_vars, feed_vars, capture_vars, vars>>

PeripherySpec ==
  PeripheryInit /\ [][PeripheryNext]_all_vars /\ WF_all_vars(UIThread) /\ WF_all_vars(EventLoop)

(***************************************************************************)
(* connector.cpp: a connection and its slot among the mixer's sources       *)
(* belong together, through failed, refused and ended connections.          *)
(***************************************************************************)
ConnectionsKept == unit = "connector" => Links!ConnectionsKept

(***************************************************************************)
(* connector.cpp:172: whoever waits for the event loop to set a source up   *)
(* is woken, and the constructor ends.                                      *)
(***************************************************************************)
AddEnds == \A c \in Connection : ui.conn = c ~> ui.conn # c

(***************************************************************************)
(* mixer_window.cpp: the program, and what the buttons offer, are what the  *)
(* window remembers, and the frames for its thumbnails are neither          *)
(* forgotten nor handed out unevenly.                                       *)
(***************************************************************************)
WindowAgrees ==
  /\ unit \in {"window", "record"} => Window!ProgramAsChosen
  /\ unit = "feed" => Feed!WakeupOwed /\ Feed!RotaEven

(***************************************************************************)
(* DVVideoStreamFramer.cpp, dvsource-firewire.cpp, dvsource-alsa.c: blocks  *)
(* are put at their places in frames, whatever was lost between the chunks; *)
(* the framer finds the place of every block of an audio source's dummy     *)
(* frame; sound is never read beyond the buffer.                            *)
(***************************************************************************)
BlocksPlaced ==
  /\ unit = "capture" => Frames!FramesPlaced
  /\ unit = "alsa" =>
       /\ ReadsFit
       /\ \A seq_num \in 0..11, block_num \in 0..149 :
            Frames!block_place(dummy_block(seq_num, block_num)) = seq_num * 150 + block_num
=============================================================================

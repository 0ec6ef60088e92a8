----------------------------- MODULE MonitorFeed -----------------------------
(* mixer_window.cpp put_frames and update, dv_selector_widget.cpp: how frames
   come from the mixer thread to the thumbnails of the sources.  The mixer
   thread leaves the latest frames under frame_mutex_ and pokes the event loop
   through a pipe; update empties the pipe, takes the frames and draws the
   thumbnails in a rota, which it breaks off as soon as newer frames wait.   *)
EXTENDS Naturals

CONSTANTS
  MaxSources,   \* sources, numbered from 0
  PipeSize,     \* the wakeup pipe; neither end blocks
  NoFrames      \* a null mixed_dv_

VARIABLES
  source_count,      \* sources the mixer has
  stored,            \* source_dv_ and mixed_dv_: the sources that had a frame
  wakeup_pipe_,
  putting, updating, \* where the mixer thread is in put_frames, the UI in update
  taken,             \* source_dv in update
  left,              \* how many turns of its loop remain
  thumbnails_, next_source_id_,
  waited             \* of each source: thumbnails drawn since its last turn

put_vars == <<source_count, putting>>
draw_vars == <<taken, left, thumbnails_, next_source_id_, waited>>
vars == <<put_vars, stored, wakeup_pipe_, updating, draw_vars>>

Frames(n, present) == [count |-> n, present |-> present]

Init ==
  /\ source_count = 1
  /\ stored = NoFrames /\ wakeup_pipe_ = 0
  /\ putting = FALSE /\ updating = "idle"
  /\ taken = Frames(0, {}) /\ left = 0
  /\ thumbnails_ = 0 /\ next_source_id_ = 0
  /\ waited = [id \in 0..(MaxSources - 1) |-> 0]

AddSource ==
  /\ source_count < MaxSources
  /\ source_count' = source_count + 1
  /\ UNCHANGED <<putting, stored, wakeup_pipe_, updating, draw_vars>>

(* put_frames, under the lock.                                              *)
Store ==
  /\ ~putting
  /\ \E present \in SUBSET (0..(source_count - 1)) :
       stored' = Frames(source_count, present)
  /\ putting' = TRUE
  /\ UNCHANGED <<source_count, wakeup_pipe_, updating, draw_vars>>

Poke ==
  /\ putting
  /\ wakeup_pipe_' = IF wakeup_pipe_ < PipeSize THEN wakeup_pipe_ + 1 ELSE wakeup_pipe_
  /\ putting' = FALSE
  /\ UNCHANGED <<source_count, stored, updating, draw_vars>>

EmptyPipe ==
  /\ updating = "idle" /\ wakeup_pipe_ > 0
  /\ wakeup_pipe_' = 0
  /\ updating' = "emptied"
  /\ UNCHANGED <<put_vars, stored, draw_vars>>

(* The frames are taken; the selector makes room for new sources, which may
   fail and is tried again at the next update.                              *)
set_source_count(n) == IF n > thumbnails_ THEN {n, thumbnails_} ELSE {thumbnails_}

TakeFrames ==
  /\ updating = "emptied"
  /\ taken' = IF stored = NoFrames THEN Frames(0, {}) ELSE stored
  /\ stored' = NoFrames
  /\ left' = taken'.count
  /\ thumbnails_' \in set_source_count(taken'.count)
  /\ updating' = "drawing"
  /\ UNCHANGED <<put_vars, wakeup_pipe_, next_source_id_, waited>>

\* Slip: each update starts with the first source.
TurnAfresh == taken.count - left

Turn == IF next_source_id_ >= taken.count THEN 0 ELSE next_source_id_

DrawThumbnail ==
  /\ updating = "drawing" /\ left > 0
  /\ next_source_id_' = Turn + 1
  /\ IF Turn \in taken.present
     THEN /\ waited' = [id \in DOMAIN waited |->
                          IF id = Turn \/ id >= taken.count THEN 0 ELSE waited[id] + 1]
          /\ left' = IF stored # NoFrames THEN 0 ELSE left - 1
     ELSE /\ waited' = [waited EXCEPT ![Turn] = 0]
          /\ left' = left - 1
  /\ UNCHANGED <<put_vars, stored, wakeup_pipe_, updating, taken, thumbnails_>>

\* Slip: the pipe is emptied after the frames have been taken.
EndUpdateEmptying ==
  /\ updating = "drawing" /\ left = 0
  /\ updating' = "idle" /\ wakeup_pipe_' = 0
  /\ UNCHANGED <<put_vars, stored, draw_vars>>

EndUpdate ==
  /\ updating = "drawing" /\ left = 0
  /\ updating' = "idle"
  /\ UNCHANGED <<put_vars, stored, wakeup_pipe_, draw_vars>>

Next ==
  \/ AddSource \/ Store \/ Poke
  \/ EmptyPipe \/ TakeFrames \/ DrawThumbnail \/ EndUpdate

----------------------------------------------------------------------------
(* Frames that were put are never forgotten: until they are taken the event
   loop is about to be poked, has been, or is about to take them.           *)
WakeupOwed ==
  stored # NoFrames => putting \/ wakeup_pipe_ > 0 \/ updating = "emptied"

(* However often the rota is broken off, no source waits while more
   thumbnails are drawn than there are other sources.                       *)
RotaEven == \A id \in DOMAIN waited : waited[id] < source_count
=============================================================================

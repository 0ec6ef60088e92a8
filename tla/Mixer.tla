---------------------------------- MODULE Mixer ----------------------------------
(***************************************************************************)
(* The mixer (mixer.hpp, mixer.cpp): sources put frames in bounded queues,  *)
(* the clock thread takes one frame of each queue per tick together with a  *)
(* copy of the settings, and the mixer thread makes one mixed frame of each *)
(* such set and hands it to the sinks and to the monitor.                   *)
(*                                                                          *)
(* Every member function runs under one of the mutexes source_mutex_,       *)
(* mixer_mutex_ and sink_mutex_, which are never nested, so an action of    *)
(* this module is one critical section, with the unlocked code after it.    *)
(* Its callers are the server thread (one connection per source or sink),   *)
(* the window thread (the operator) and, at exit, the destructor.           *)
(*                                                                          *)
(* Source identifiers are counted from 1 here and from 0 in the code.  A    *)
(* frame is known by its number n; time (the length of a tick) is left to   *)
(* chance, and the progress of a timed fade is not modelled.                *)
(*                                                                          *)
(* A definition marked "slip" is no part of the specification: it is the    *)
(* one after it with a plausible mistake, which the properties must catch.  *)
(***************************************************************************)
EXTENDS Integers, Sequences, FiniteSets

CONSTANTS
  Source, Sink,             \* connections of sources and of sinks
  Recorder,                 \* the sinks that will record
  NULL,                     \* a null pointer
  System, Aspect, SampleRate,  \* video systems, frame aspects and audio sample rates
  FrameFormat,              \* formats of the frames that sources send
  Format,                   \* format settings the operator may choose
  VideoMix,                 \* video mixes the operator may choose
  AudioId,                  \* audio source ids the operator may choose
  RecordFlag,               \* settings of the record button the operator may choose
  CutUsed,                  \* whether the operator uses the cut button
  target_queue_len,         \* 2 in the code
  mixer_queue_len,          \* capacity of mixer_queue_, 10 in the code
  \* Bounds of the model, not of the code:
  MaxSources, MaxSinks,     \* slots in sources_ and in sinks_
  MaxFrames,                \* frames put by all the sources
  MaxTicks                  \* ticks of the clock

full_queue_len == target_queue_len * 2

Automatic == "auto"         \* dv_frame_aspect_auto, dv_sample_rate_auto
Invalid   == "invalid"      \* dv_sample_rate_invalid
Silence   == 0              \* in place of the number of a frame

Kind == {"simple", "pic_in_pic", "fade"}
Simple(id) == [kind |-> "simple", ids |-> {id}]
PicInPic(pri, sec) == [kind |-> "pic_in_pic", ids |-> {pri, sec}]
Fade(pri, sec) == [kind |-> "fade", ids |-> {pri, sec}]

ASSUME ConstantAssumption ==
  /\ target_queue_len \in Nat \ {0}
  /\ mixer_queue_len \in Nat \ {0}
  /\ MaxSources \in Nat /\ MaxSinks \in Nat /\ MaxFrames \in Nat /\ MaxTicks \in Nat
  /\ Recorder \subseteq Sink
  /\ NULL \notin Source /\ NULL \notin Sink /\ NULL \notin System
  /\ FrameFormat \subseteq [system : System, frame_aspect : Aspect,
                      sample_rate : SampleRate \cup {Invalid}]
  /\ Format \subseteq [system : System \cup {NULL}, frame_aspect : Aspect \cup {Automatic},
                 sample_rate : SampleRate \cup {Automatic}]
  /\ VideoMix \subseteq [kind : Kind, ids : (SUBSET (Nat \ {0})) \ {{}}]
  /\ AudioId \subseteq Nat \ {0}
  /\ RecordFlag \subseteq BOOLEAN
  /\ CutUsed \in BOOLEAN

VARIABLES
  \* under source_mutex_
  format_, settings_, sources_, clock_state_,
  \* under mixer_mutex_
  mixer_queue_, mixer_state_,
  \* under sink_mutex_
  sinks_, recorders_count_,
  \* the clock thread: where it is, and the mix_data it has selected
  clock_pc, clock_m,
  \* the mixer thread: where it is, whether m is set, its counter, the mixed frame it
  \* works on and the one before
  mixer_pc, holding, serial_num, mixed_dv, last_mixed_dv,
  \* the destructor, and a put_frame that has yet to notify the clock thread
  destroy_pc, notify_due,
  \* the connections: the id given to each, the last set_active of each source
  source_id, active, sink_id,
  \* what happened so far: frames put, ticks, sets dropped for want of room, frames
  \* handed to sinks or to the window, the serial number each sink saw last, whether the
  \* window has shown a frame, whether a cut is owed, whether the operator chose a format
  puts, ticks, dropped, shared, seen, shown, cut_due, reformatted

source_vars == <<format_, settings_, sources_, clock_state_>>
queue_vars  == <<mixer_queue_, mixer_state_>>
sink_vars   == <<sinks_, recorders_count_>>
clock_vars  == <<clock_pc, clock_m>>
mixer_vars  == <<mixer_pc, holding, serial_num, mixed_dv, last_mixed_dv>>
conn_vars   == <<source_id, active, sink_id>>
past_vars   == <<puts, ticks, dropped, shared, seen, shown, cut_due, reformatted>>

vars == <<format_, settings_, sources_, clock_state_, mixer_queue_, mixer_state_,
          sinks_, recorders_count_, clock_pc, clock_m,
          mixer_pc, holding, serial_num, mixed_dv, last_mixed_dv,
          destroy_pc, notify_due, source_id, active, sink_id,
          puts, ticks, dropped, shared, seen, shown, cut_due, reformatted>>
-----------------------------------------------------------------------------------
Init ==
  /\ format_ = [system |-> NULL, frame_aspect |-> Automatic, sample_rate |-> Automatic]
  /\ settings_ = [video_mix |-> Simple(1), audio_source_id |-> 1,
                  do_record |-> FALSE, cut_before |-> FALSE]
  /\ sources_ = <<>> /\ sinks_ = <<>> /\ mixer_queue_ = <<>>
  /\ clock_state_ = "wait" /\ mixer_state_ = "wait"
  /\ recorders_count_ = 0
  /\ clock_pc = "start" /\ clock_m = NULL
  /\ mixer_pc = "get" /\ holding = FALSE /\ serial_num = 0
  /\ mixed_dv = NULL /\ last_mixed_dv = NULL
  /\ destroy_pc = "no" /\ notify_due = FALSE
  /\ source_id = [s \in Source |-> 0]
  /\ active = [s \in Source |-> "none"]
  /\ sink_id = [k \in Sink |-> 0]
  /\ puts = 0 /\ ticks = 0 /\ dropped = FALSE
  /\ shared = {} /\ seen = [k \in Sink |-> -1] /\ shown = FALSE /\ cut_due = FALSE
  /\ reformatted = FALSE
-----------------------------------------------------------------------------------
(***************************************************************************)
(* Calls of the server thread.  It is one thread: no call starts while a    *)
(* put_frame has yet to notify the clock thread.                            *)
(***************************************************************************)
ServerIdle == destroy_pc = "no" /\ ~notify_due

AnySlot == DOMAIN sources_                              \* slip: the slot is not looked at
Vacant == {id \in DOMAIN sources_ : sources_[id].src = NULL}

\* The first vacant slot is reused, with the frames its last user left in it.
AddSource(s) ==
  /\ ServerIdle
  /\ source_id[s] = 0
  /\ \/ \E id \in Vacant :
          /\ \A i \in Vacant : id <= i
          /\ sources_' = [sources_ EXCEPT ![id].src = s]
          /\ source_id' = [source_id EXCEPT ![s] = id]
     \/ /\ Vacant = {}
        /\ Len(sources_) < MaxSources
        /\ sources_' = Append(sources_, [src |-> s, frames |-> <<>>])
        /\ source_id' = [source_id EXCEPT ![s] = Len(sources_) + 1]
  /\ active' = [active EXCEPT ![s] = "none"]
  /\ UNCHANGED <<format_, settings_, clock_state_, queue_vars, sink_vars, clock_vars,
                 mixer_vars, destroy_pc, notify_due, sink_id, past_vars>>

RemoveSource(s) ==
  /\ ServerIdle
  /\ source_id[s] # 0
  /\ sources_' = [sources_ EXCEPT ![source_id[s]].src = NULL]
  /\ source_id' = [source_id EXCEPT ![s] = 0]
  /\ UNCHANGED <<format_, settings_, clock_state_, queue_vars, sink_vars, clock_vars,
                 mixer_vars, destroy_pc, notify_due, active, sink_id, past_vars>>

\* put_frame on a full queue: the frame is dropped.
DropFrame(s) ==
  /\ ServerIdle
  /\ source_id[s] # 0
  /\ puts < MaxFrames
  /\ Len(sources_[source_id[s]].frames) = full_queue_len
  /\ puts' = puts + 1
  /\ UNCHANGED <<source_vars, queue_vars, sink_vars, clock_vars, mixer_vars, destroy_pc,
                 notify_due, conn_vars, ticks,
                 dropped, shared, seen, shown, cut_due, reformatted>>

\* Slip: each frame sets the system.
LastSelected(f) ==
  [system       |-> f.system,
   frame_aspect |-> IF format_.frame_aspect = Automatic THEN f.frame_aspect
                                                        ELSE format_.frame_aspect,
   sample_rate  |-> IF format_.sample_rate = Automatic /\ f.sample_rate # Invalid
                    THEN f.sample_rate ELSE format_.sample_rate]

\* The format settings after a frame of format f: what is still automatic is set.
AutoSelected(f) ==
  [system       |-> IF format_.system = NULL THEN f.system ELSE format_.system,
   frame_aspect |-> IF format_.frame_aspect = Automatic THEN f.frame_aspect
                                                        ELSE format_.frame_aspect,
   sample_rate  |-> IF format_.sample_rate = Automatic /\ f.sample_rate # Invalid
                    THEN f.sample_rate ELSE format_.sample_rate]

WrongFormat(f) == \/ AutoSelected(f).system # f.system
                  \/ AutoSelected(f).sample_rate # f.sample_rate

\* Slip: any source starts the clock.
AnyStarts(id) == clock_state_ = "wait" /\ Len(sources_[id].frames) + 1 = target_queue_len

\* Whether one more frame of source id starts the clock.
Starts(id) == /\ clock_state_ = "wait" /\ id = 1
              /\ Len(sources_[id].frames) + 1 = target_queue_len

\* put_frame on a queue with room.  The target_queue_len-th frame of the first source
\* starts the clock; from then on each frame is compared with the format settings.
QueueFrame(s, f) ==
  /\ ServerIdle
  /\ source_id[s] # 0
  /\ puts < MaxFrames
  /\ LET id      == source_id[s]
         running == Starts(id) \/ clock_state_ = "run"
         frame   == [n |-> puts + 1, system |-> f.system, sample_rate |-> f.sample_rate,
                     frame_aspect |-> IF running THEN AutoSelected(f).frame_aspect
                                                 ELSE f.frame_aspect,
                     format_error |-> IF ~running THEN "unset"
                                      ELSE IF WrongFormat(f) THEN "wrong" ELSE "right"]
     IN  /\ Len(sources_[id].frames) < full_queue_len
         /\ sources_' = [sources_ EXCEPT ![id].frames = Append(@, frame)]
         /\ clock_state_' = IF Starts(id) THEN "run" ELSE clock_state_
         /\ format_' = IF running THEN AutoSelected(f) ELSE format_
         /\ notify_due' = Starts(id)
  /\ puts' = puts + 1
  /\ UNCHANGED <<settings_, queue_vars, sink_vars, clock_vars, mixer_vars, destroy_pc,
                 conn_vars, ticks, dropped, shared, seen, shown, cut_due, reformatted>>

ClockUnwoken == clock_pc                                \* slip: the notify is forgotten
MixerUnwoken == mixer_pc
ClockWoken == IF clock_pc = "asleep" THEN "start" ELSE clock_pc
MixerWoken == IF mixer_pc = "asleep" THEN "get" ELSE mixer_pc

\* The rest of put_frame: notify_one after the mutex is unlocked.
NotifyClock ==
  /\ notify_due
  /\ notify_due' = FALSE
  /\ clock_pc' = ClockWoken
  /\ UNCHANGED <<source_vars, queue_vars, sink_vars, clock_m, mixer_vars, destroy_pc,
                 conn_vars, past_vars>>

AnySink(k)   == 1                                       \* slip: all the sinks are counted
Recorders(k) == IF k \in Recorder THEN 1 ELSE 0

AddSink(k) ==
  /\ ServerIdle
  /\ sink_id[k] = 0
  /\ Len(sinks_) < MaxSinks
  /\ sinks_' = Append(sinks_, k)
  /\ recorders_count_' = recorders_count_ + Recorders(k)
  /\ sink_id' = [sink_id EXCEPT ![k] = Len(sinks_) + 1]
  /\ seen' = [seen EXCEPT ![k] = -1]
  /\ UNCHANGED <<source_vars, queue_vars, clock_vars, mixer_vars, destroy_pc, notify_due,
                 source_id, active, puts, ticks,
                 dropped, shared, shown, cut_due, reformatted>>

\* Slip: the slot is not cleared.
RemoveSinkKeepsSlot(k) ==
  /\ ServerIdle
  /\ sink_id[k] # 0
  /\ recorders_count_' = recorders_count_ - Recorders(k)
  /\ sink_id' = [sink_id EXCEPT ![k] = 0]
  /\ UNCHANGED <<sinks_, source_vars, queue_vars, clock_vars, mixer_vars, destroy_pc,
                 notify_due, source_id, active, past_vars>>

RemoveSink(k) ==
  /\ ServerIdle
  /\ sink_id[k] # 0
  /\ sinks_' = [sinks_ EXCEPT ![sink_id[k]] = NULL]
  /\ recorders_count_' = recorders_count_ - Recorders(k)
  /\ sink_id' = [sink_id EXCEPT ![k] = 0]
  /\ UNCHANGED <<source_vars, queue_vars, clock_vars, mixer_vars, destroy_pc, notify_due,
                 source_id, active, past_vars>>
-----------------------------------------------------------------------------------
(***************************************************************************)
(* Calls of the window thread.  The selectors for sources appear when the   *)
(* window has been shown a first frame; the other controls are there from   *)
(* the start.  A call with an identifier out of range throws and changes    *)
(* nothing.                                                                 *)
(***************************************************************************)
Operable == destroy_pc = "no"

\* set_active of each of the registered sources of a mix.
Activated(act, mix, flag) ==
  [s \in Source |-> IF \E id \in mix.ids : sources_[id].src = s THEN flag ELSE act[s]]

\* Slip: the sources of the old mix are not told.
SetVideoMixOnly(mix) ==
  /\ Operable /\ shown
  /\ mix.ids \subseteq DOMAIN sources_
  /\ settings_' = [settings_ EXCEPT !.video_mix = mix]
  /\ active' = Activated(active, mix, "video")
  /\ UNCHANGED <<format_, sources_, clock_state_, queue_vars, sink_vars, clock_vars,
                 mixer_vars, destroy_pc, notify_due, source_id, sink_id, past_vars>>

SetVideoMix(mix) ==
  /\ Operable /\ shown
  /\ mix.ids \subseteq DOMAIN sources_              \* validate
  /\ settings_' = [settings_ EXCEPT !.video_mix = mix]
  /\ active' = Activated(Activated(active, settings_.video_mix, "none"), mix, "video")
  /\ UNCHANGED <<format_, sources_, clock_state_, queue_vars, sink_vars, clock_vars,
                 mixer_vars, destroy_pc, notify_due, source_id, sink_id, past_vars>>

\* Slip: the identifier is not checked.
SetAnyAudioSource(id) ==
  /\ Operable /\ shown
  /\ settings_' = [settings_ EXCEPT !.audio_source_id = id]
  /\ UNCHANGED <<format_, sources_, clock_state_, queue_vars, sink_vars, clock_vars,
                 mixer_vars, destroy_pc, notify_due, conn_vars, past_vars>>

SetAudioSource(id) ==
  /\ Operable /\ shown
  /\ id \in DOMAIN sources_
  /\ settings_' = [settings_ EXCEPT !.audio_source_id = id]
  /\ UNCHANGED <<format_, sources_, clock_state_, queue_vars, sink_vars, clock_vars,
                 mixer_vars, destroy_pc, notify_due, conn_vars, past_vars>>

SetFormat(f) ==
  /\ Operable
  /\ format_' = f
  /\ reformatted' = TRUE
  /\ UNCHANGED <<settings_, sources_, clock_state_, queue_vars, sink_vars, clock_vars,
                 mixer_vars, destroy_pc, notify_due, conn_vars,
                 puts, ticks, dropped, shared, seen, shown, cut_due>>

EnableRecord(flag) ==
  /\ Operable
  /\ settings_' = [settings_ EXCEPT !.do_record = flag]
  /\ UNCHANGED <<format_, sources_, clock_state_, queue_vars, sink_vars, clock_vars,
                 mixer_vars, destroy_pc, notify_due, conn_vars, past_vars>>

Cut ==
  /\ Operable /\ CutUsed
  /\ settings_' = [settings_ EXCEPT !.cut_before = TRUE]
  /\ cut_due' = TRUE
  /\ UNCHANGED <<format_, sources_, clock_state_, queue_vars, sink_vars, clock_vars,
                 mixer_vars, destroy_pc, notify_due, conn_vars,
                 puts, ticks, dropped, shared, seen, shown, reformatted>>
-----------------------------------------------------------------------------------
(***************************************************************************)
(* The clock thread, run_clock.                                             *)
(***************************************************************************)
\* Slip: a stop before the start is not noticed.
ClockStartOnRun ==
  /\ clock_pc = "start"
  /\ clock_pc' = IF clock_state_ # "run" THEN "asleep" ELSE "select"
  /\ active' = IF clock_state_ = "run" THEN Activated(active, settings_.video_mix, "video")
                                       ELSE active
  /\ UNCHANGED <<source_vars, queue_vars, sink_vars, clock_m, mixer_vars, destroy_pc,
                 notify_due, source_id, sink_id, past_vars>>

ClockStart ==
  /\ clock_pc = "start"
  /\ clock_pc' = IF clock_state_ = "wait" THEN "asleep" ELSE "select"
  /\ active' = IF clock_state_ = "run" THEN Activated(active, settings_.video_mix, "video")
                                       ELSE active
  /\ UNCHANGED <<source_vars, queue_vars, sink_vars, clock_m, mixer_vars, destroy_pc,
                 notify_due, source_id, sink_id, past_vars>>

ClockStop ==
  /\ clock_pc = "select" /\ clock_state_ = "stop"
  /\ clock_pc' = "done"
  /\ UNCHANGED <<source_vars, queue_vars, sink_vars, clock_m, mixer_vars, destroy_pc,
                 notify_due, conn_vars, past_vars>>

\* What a tick takes of a slot, and what it leaves.
Taken(slot)   == IF slot.frames = <<>> THEN NULL ELSE Head(slot.frames)
NotLeft(slot) == slot                                   \* slip: the frame is not popped
Left(slot)    == IF slot.frames = <<>> THEN slot ELSE [slot EXCEPT !.frames = Tail(@)]

\* Slip: the cut is reset before the settings are copied.
LateSelection == [source_frames |-> [id \in DOMAIN sources_ |-> Taken(sources_[id])],
                  format |-> format_, settings |-> [settings_ EXCEPT !.cut_before = FALSE]]

Selection == [source_frames |-> [id \in DOMAIN sources_ |-> Taken(sources_[id])],
              format |-> format_, settings |-> settings_]

\* A tick: the settings and one frame of each source that has one.
ClockSelect ==
  /\ clock_pc = "select" /\ clock_state_ # "stop"
  /\ ticks < MaxTicks
  /\ clock_m' = Selection
  /\ sources_' = [id \in DOMAIN sources_ |-> Left(sources_[id])]
  /\ settings_' = [settings_ EXCEPT !.cut_before = FALSE]
  /\ clock_pc' = "push"
  /\ ticks' = ticks + 1
  /\ UNCHANGED <<format_, clock_state_, queue_vars, sink_vars, mixer_vars, destroy_pc,
                 notify_due, conn_vars, puts,
                 dropped, shared, seen, shown, cut_due, reformatted>>

\* Slip: a full queue is taken for one with room.
ClockPushTooMany ==
  /\ clock_pc = "push"
  /\ Len(mixer_queue_) <= mixer_queue_len
  /\ mixer_queue_' = Append(mixer_queue_, clock_m)
  /\ mixer_state_' = "run"
  /\ clock_m' = NULL
  /\ clock_pc' = "notify"
  /\ UNCHANGED <<source_vars, sink_vars, mixer_vars, destroy_pc, notify_due, conn_vars,
                 past_vars>>

\* Slip: the oldest set of frames makes room for the new one.
ClockPushOver ==
  /\ clock_pc = "push"
  /\ mixer_queue_' = Append(IF Len(mixer_queue_) = mixer_queue_len THEN Tail(mixer_queue_)
                            ELSE mixer_queue_, clock_m)
  /\ mixer_state_' = "run"
  /\ clock_m' = NULL
  /\ clock_pc' = "notify"
  /\ UNCHANGED <<source_vars, sink_vars, mixer_vars, destroy_pc, notify_due, conn_vars,
                 past_vars>>

\* The end of the tick: the mixer thread gets the set of frames if there is room for it,
\* and is marked as running either way round of a stop.
ClockPush ==
  /\ clock_pc = "push"
  /\ Len(mixer_queue_) < mixer_queue_len
  /\ mixer_queue_' = Append(mixer_queue_, clock_m)
  /\ mixer_state_' = "run"
  /\ clock_m' = NULL
  /\ clock_pc' = "notify"
  /\ UNCHANGED <<source_vars, sink_vars, mixer_vars, destroy_pc, notify_due, conn_vars,
                 past_vars>>

ClockNotify ==
  /\ clock_pc = "notify"
  /\ clock_pc' = "select"
  /\ mixer_pc' = MixerWoken
  /\ UNCHANGED <<source_vars, queue_vars, sink_vars, clock_m, holding, serial_num, mixed_dv,
                 last_mixed_dv, destroy_pc, notify_due, conn_vars, past_vars>>

ClockDrop ==
  /\ clock_pc = "push"
  /\ Len(mixer_queue_) = mixer_queue_len
  /\ clock_m' = NULL
  /\ clock_pc' = "select"
  /\ dropped' = TRUE
  /\ UNCHANGED <<source_vars, queue_vars, sink_vars, mixer_vars, destroy_pc, notify_due,
                 conn_vars, puts, ticks, shared, seen, shown, cut_due, reformatted>>
-----------------------------------------------------------------------------------
(***************************************************************************)
(* The mixer thread, run_mixer.  m, the front of mixer_queue_, stays in the *)
(* queue and is used without the mutex until the next MixerGet pops it.     *)
(***************************************************************************)
m == Head(mixer_queue_)

\* Pops the set of frames just used, then takes the next, waits, or stops.
MixerGet ==
  /\ mixer_pc = "get"
  /\ mixer_queue_' = IF holding THEN Tail(mixer_queue_) ELSE mixer_queue_
  /\ \/ /\ mixer_state_ = "stop"
        /\ mixer_pc' = "done"
        /\ holding' = FALSE
     \/ /\ mixer_state_ # "stop"
        /\ mixer_queue_' = <<>>
        /\ mixer_pc' = "asleep"
        /\ holding' = FALSE
     \/ /\ mixer_state_ # "stop"
        /\ mixer_queue_' # <<>>
        /\ mixer_pc' = "mix"
        /\ holding' = TRUE
  /\ UNCHANGED <<source_vars, mixer_state_, sink_vars, clock_vars, serial_num, mixed_dv,
                 last_mixed_dv, destroy_pc, notify_due, conn_vars, past_vars>>

Present(id) == m.source_frames[id] # NULL               \* slip: any system will do

\* The frame of a source can be used if there is one and it has the system wanted.
Usable(id) == /\ m.source_frames[id] # NULL
              /\ m.source_frames[id].system = m.format.system

\* video_mix::apply.  A simple mix passes on the source frame itself, the others make a
\* new frame (n = 0) with the pictures of both; no frame if one is missing.
Applied ==
  LET ids == m.settings.video_mix.ids
      one == CHOOSE id \in ids : TRUE
  IN  IF \E id \in ids : ~Usable(id) THEN NULL
      ELSE IF m.settings.video_mix.kind = "simple"
      THEN [n |-> m.source_frames[one].n, picture |-> {m.source_frames[one].n},
            system |-> m.source_frames[one].system, audio |-> m.source_frames[one].n]
      ELSE [n |-> 0, picture |-> {m.source_frames[id].n : id \in ids},
            system |-> m.format.system, audio |-> Silence]

\* Slip: the last mixed frame itself.
PicturedAgain == IF Applied # NULL \/ last_mixed_dv = NULL THEN Applied
                 ELSE [n |-> last_mixed_dv.n, picture |-> last_mixed_dv.picture,
                       system |-> last_mixed_dv.system, audio |-> last_mixed_dv.audio]

\* Without a frame, a copy of the last mixed frame.
Pictured == IF Applied # NULL \/ last_mixed_dv = NULL THEN Applied
            ELSE [n |-> 0, picture |-> last_mixed_dv.picture,
                  system |-> last_mixed_dv.system, audio |-> last_mixed_dv.audio]

audio_source_dv == m.source_frames[m.settings.audio_source_id]

\* Whether the audio of the audio source's frame is used.
AudioUsed == /\ audio_source_dv # NULL
             /\ audio_source_dv.sample_rate = m.format.sample_rate

Audio == IF AudioUsed THEN audio_source_dv.n
         ELSE IF m.format.sample_rate \in {Automatic, Invalid} THEN Pictured.audio
         ELSE Silence

\* assert(dv_buffer_system(source) == system) in dv_buffer_dub_audio.
DubAllowed == AudioUsed /\ Pictured.n # audio_source_dv.n
                => audio_source_dv.system = Pictured.system

\* Makes the mixed frame.  Without a frame to repeat a null pointer is dereferenced, and
\* without DubAllowed the program aborts: the thread then makes no further step.
MixerMix ==
  /\ mixer_pc = "mix"
  /\ Pictured # NULL
  /\ DubAllowed
  /\ mixed_dv' = [n |-> Pictured.n, picture |-> Pictured.picture,
                  system |-> Pictured.system, audio |-> Audio,
                  serial_num |-> serial_num,
                  do_record |-> m.settings.do_record,
                  cut_before |-> m.settings.cut_before]
  /\ last_mixed_dv' = mixed_dv'
  /\ serial_num' = serial_num + 1
  /\ mixer_pc' = "sink"
  /\ UNCHANGED <<source_vars, queue_vars, sink_vars, clock_vars, holding, destroy_pc,
                 notify_due, conn_vars, past_vars>>

Registered == {k \in Sink : \E i \in DOMAIN sinks_ : sinks_[i] = k}

\* sink::put_frame of each registered sink.
MixerSink ==
  /\ mixer_pc = "sink"
  /\ seen' = [k \in Sink |-> IF k \in Registered THEN mixed_dv.serial_num ELSE seen[k]]
  /\ shared' = IF Registered = {} THEN shared ELSE shared \cup ({mixed_dv.n} \ {0})
  /\ cut_due' = (cut_due /\ ~mixed_dv.cut_before)
  /\ mixer_pc' = "monitor"
  /\ UNCHANGED <<source_vars, queue_vars, sink_vars, clock_vars, holding, serial_num,
                 mixed_dv, last_mixed_dv, destroy_pc, notify_due, conn_vars,
                 puts, ticks, dropped, shown, reformatted>>

\* monitor::put_frames: the window shows the source frames and the mixed frame.
MixerMonitor ==
  /\ mixer_pc = "monitor"
  /\ shown' = TRUE
  /\ shared' = shared \cup ({mixed_dv.n} \ {0})
                      \cup {m.source_frames[id].n : id \in {i \in DOMAIN m.source_frames :
                                                            m.source_frames[i] # NULL}}
  /\ mixed_dv' = NULL
  /\ mixer_pc' = "get"
  /\ UNCHANGED <<source_vars, queue_vars, sink_vars, clock_vars, holding, serial_num,
                 last_mixed_dv, destroy_pc, notify_due, conn_vars,
                 puts, ticks, dropped, seen, cut_due, reformatted>>
-----------------------------------------------------------------------------------
(***************************************************************************)
(* ~mixer, on the window thread, after the server and its connections have  *)
(* been destroyed.                                                          *)
(***************************************************************************)
DestroyClock ==
  /\ destroy_pc = "no" /\ ~notify_due
  /\ \A s \in Source : source_id[s] = 0
  /\ \A k \in Sink : sink_id[k] = 0
  /\ clock_state_' = "stop"
  /\ clock_pc' = ClockWoken
  /\ destroy_pc' = "clock"
  /\ UNCHANGED <<format_, settings_, sources_, queue_vars, sink_vars, clock_m, mixer_vars,
                 notify_due, conn_vars, past_vars>>

DestroyMixer ==
  /\ destroy_pc = "clock"
  /\ mixer_state_' = "stop"
  /\ mixer_pc' = MixerWoken
  /\ destroy_pc' = "join"
  /\ UNCHANGED <<source_vars, mixer_queue_, sink_vars, clock_vars, holding, serial_num,
                 mixed_dv, last_mixed_dv, notify_due, conn_vars, past_vars>>

DestroyJoin ==
  /\ destroy_pc = "join"
  /\ clock_pc = "done" /\ mixer_pc = "done"
  /\ destroy_pc' = "gone"
  /\ UNCHANGED <<source_vars, queue_vars, sink_vars, clock_vars, mixer_vars, notify_due,
                 conn_vars, past_vars>>
-----------------------------------------------------------------------------------
Server == \/ \E s \in Source : AddSource(s) \/ RemoveSource(s) \/ DropFrame(s)
          \/ \E s \in Source, f \in FrameFormat : QueueFrame(s, f)
          \/ \E k \in Sink : AddSink(k) \/ RemoveSink(k)
          \/ NotifyClock

Operator == \/ \E mix \in VideoMix : SetVideoMix(mix)
            \/ \E id \in AudioId : SetAudioSource(id)
            \/ \E f \in Format : SetFormat(f)
            \/ \E flag \in RecordFlag : EnableRecord(flag)
            \/ Cut

Clock == ClockStart \/ ClockStop \/ ClockSelect \/ ClockPush \/ ClockNotify \/ ClockDrop

MixerThread == MixerGet \/ MixerMix \/ MixerSink \/ MixerMonitor

Destroy == DestroyClock \/ DestroyMixer \/ DestroyJoin

Next == Server \/ Operator \/ Clock \/ MixerThread \/ Destroy

Spec == Init /\ [][Next]_vars

\* Each thread that can go on does so.  The destructor need not be called, but once it
\* is, it goes on; nobody has to connect, send or press anything.
Fairness == /\ WF_vars(Clock)
            /\ WF_vars(MixerThread)
            /\ WF_vars(NotifyClock)
            /\ WF_vars(DestroyMixer \/ DestroyJoin)

FairSpec == Spec /\ Fairness
-----------------------------------------------------------------------------------
(***************************************************************************)
(* Properties.                                                              *)
(***************************************************************************)
Ids      == 1..MaxSources
Frame    == [n : 1..MaxFrames, system : System, sample_rate : SampleRate \cup {Invalid},
             frame_aspect : Aspect, format_error : {"unset", "right", "wrong"}]
Slot     == [src : Source \cup {NULL}, frames : Seq(Frame)]
Formats  == [system : System \cup {NULL}, frame_aspect : Aspect \cup {Automatic},
             sample_rate : SampleRate \cup {Automatic}]
Settings == [video_mix : [kind : Kind, ids : (SUBSET (Nat \ {0})) \ {{}}],
             audio_source_id : Nat \ {0}, do_record : BOOLEAN, cut_before : BOOLEAN]
MixData  == [source_frames : Seq(Frame \cup {NULL}), format : Formats, settings : Settings]
Mixed    == [n : 0..MaxFrames, picture : SUBSET (1..MaxFrames), system : System,
             audio : 0..MaxFrames, serial_num : Nat, do_record : BOOLEAN, cut_before : BOOLEAN]
Picture  == [n : 0..MaxFrames, picture : SUBSET (1..MaxFrames), system : System,
             audio : 0..MaxFrames]
RunState == {"wait", "run", "stop"}

ASSUME NullAssumption == NULL \notin Frame /\ NULL \notin Picture /\ NULL \notin Mixed

TypeSource == /\ format_ \in Formats /\ settings_ \in Settings
              /\ sources_ \in Seq(Slot) /\ Len(sources_) <= MaxSources
              /\ clock_state_ \in RunState
TypeQueue  == /\ mixer_queue_ \in Seq(MixData) /\ Len(mixer_queue_) <= mixer_queue_len
              /\ mixer_state_ \in RunState
TypeSink   == /\ sinks_ \in Seq(Sink \cup {NULL}) /\ Len(sinks_) <= MaxSinks
              /\ recorders_count_ \in Int
TypeClock  == /\ clock_pc \in {"start", "asleep", "select", "push", "notify", "done"}
              /\ IF clock_pc = "push" THEN clock_m \in MixData ELSE clock_m = NULL
TypeMixer  == /\ mixer_pc \in {"get", "asleep", "mix", "sink", "monitor", "done"}
              /\ holding \in BOOLEAN /\ serial_num \in Nat
              /\ mixed_dv \in Mixed \cup {NULL} /\ last_mixed_dv \in Mixed \cup {NULL}
              /\ mixer_pc \in {"sink", "monitor"} => mixed_dv \in Mixed
TypeConn   == /\ source_id \in [Source -> 0..MaxSources] /\ sink_id \in [Sink -> 0..MaxSinks]
              /\ active \in [Source -> {"none", "video"}]
TypeRest   == /\ destroy_pc \in {"no", "clock", "join", "gone"} /\ notify_due \in BOOLEAN
              /\ puts \in 0..MaxFrames /\ ticks \in 0..MaxTicks
              /\ shared \subseteq 1..MaxFrames /\ seen \in [Sink -> Int]
              /\ dropped \in BOOLEAN /\ shown \in BOOLEAN /\ cut_due \in BOOLEAN
              /\ reformatted \in BOOLEAN

TypeOK == /\ TypeSource /\ TypeQueue /\ TypeSink /\ TypeClock
          /\ TypeMixer /\ TypeConn /\ TypeRest

\* The sets of frames that have been selected and not yet been mixed, oldest first.
Selected == mixer_queue_ \o (IF clock_pc = "push" THEN <<clock_m>> ELSE <<>>)

InRange(x) == /\ x.settings.audio_source_id \in DOMAIN x.source_frames
              /\ x.settings.video_mix.ids \subseteq DOMAIN x.source_frames

\* Every set of frames selected has a place for the sources its own settings name, so
\* the assert of run_clock holds and apply() reads inside source_frames, whatever was
\* chosen or connected between the selection and the mixing.
IdsInRange == \A i \in DOMAIN Selected : InRange(Selected[i])

\* The set of frames the mixer thread works on stays the front of mixer_queue_, unchanged,
\* while the clock thread pushes without knowing of it.
HeldFrontStable ==
    [][holding /\ mixer_pc # "get" => mixer_queue_ # <<>> /\ m' = m]_<<mixer_queue_, mixer_pc>>

\* The places on the way of the frames of a source to the mixer thread, and the frame at
\* each, if any: the sets of frames selected come first, oldest first, then its queue.
Places(id) == 1..(Len(Selected) + Len(sources_[id].frames))
FrameAt(id, k) ==
  IF k > Len(Selected) THEN sources_[id].frames[k - Len(Selected)]
  ELSE IF id \in DOMAIN Selected[k].source_frames THEN Selected[k].source_frames[id]
  ELSE NULL

\* Frames are mixed in the order in which they were put, and none twice: along the way of
\* a source through its queue, the clock thread and mixer_queue_ the numbers increase,
\* and no frame is on the way of two sources.
FramesInOrder ==
  \A id, other \in DOMAIN sources_ : \A i \in Places(id), j \in Places(other) :
    FrameAt(id, i) # NULL /\ FrameAt(other, j) # NULL =>
      IF id = other THEN i < j => FrameAt(id, i).n < FrameAt(other, j).n
                    ELSE FrameAt(id, i).n # FrameAt(other, j).n

\* A frame that a sink or the window has is never written again: run_mixer copies a
\* frame it repeats, and numbers only frames no one has yet.
SharedUntouched ==
  mixer_pc = "sink" =>
    /\ mixed_dv.n \notin shared
    /\ \A id \in DOMAIN m.source_frames :
         m.source_frames[id] # NULL => m.source_frames[id].n \notin shared

\* When a frame has to be repeated there is one to repeat.
RepeatHasFrame == mixer_pc = "mix" => Pictured # NULL

\* Audio is dubbed only between frames of the same video system.
DubSameSystem == mixer_pc = "mix" /\ Pictured # NULL => DubAllowed

\* The output changes its video system only when the operator has changed the format, and
\* then only to the system that the format settings of the tick ask for: a frame of another
\* system is never let through, whatever the sources send and whichever is selected.
SystemKept ==
  [][last_mixed_dv # NULL /\ last_mixed_dv'.system # last_mixed_dv.system
        => reformatted /\ last_mixed_dv'.system = m.format.system]_last_mixed_dv

\* A registered sink gets every mixed frame from its first on, in order and once; a sink
\* that is not registered gets none.
SinksConsecutive ==
  [][\A k \in Sink : seen'[k] # seen[k] =>
       \/ sink_id[k] = 0 /\ sink_id'[k] # 0 /\ seen'[k] = -1
       \/ sink_id[k] # 0 /\ (seen[k] = -1 \/ seen'[k] = seen[k] + 1)]_vars

\* can_record counts exactly the registered sinks that will record, so remove_sink's
\* assert holds through any order of connections and disconnections.
RecordersCounted == recorders_count_ = Cardinality({k \in Recorder : sink_id[k] # 0})

\* The flag of a cut that is owed is in the settings or in a set of frames on its way.
CutOnItsWay == \/ settings_.cut_before
               \/ \E i \in DOMAIN Selected : Selected[i].settings.cut_before

\* A cut asked for is not lost before it reaches the sinks, unless a set of frames was
\* dropped for want of room in mixer_queue_.
CutKeptOrDropped == cut_due /\ ~dropped => CutOnItsWay

\* Registered sources and slots agree: a slot is given to one source at a time.
SlotsAgree == \A s \in Source, id \in Ids :
                source_id[s] = id <=> id \in DOMAIN sources_ /\ sources_[id].src = s

\* No source is left lit: one that was last told it is active is in the video mix.
TallyNotStale ==
  \A s \in Source : source_id[s] # 0 /\ active[s] = "video"
                      => source_id[s] \in settings_.video_mix.ids

\* A set of frames handed over is mixed, unless the mixer is being destroyed first.
Pushed == serial_num + Len(mixer_queue_)
            - (IF mixer_pc \in {"sink", "monitor"} \/ (mixer_pc = "get" /\ holding)
               THEN 1 ELSE 0)

MixedEventually ==
  \A k \in 1..MaxTicks : (Pushed = k) ~> (serial_num >= k \/ destroy_pc # "no")

\* The clock thread heeds what is asked of it, however the notifications fall: it ticks once
\* the first source is ready, and the destructor gets past it.
ClockHeeds ==
  /\ clock_state_ = "run" ~> (clock_pc \in {"select", "push", "notify", "done"})
  /\ destroy_pc = "join" ~> clock_pc = "done"

\* Destroying the mixer ends: both threads stop if requested.
ShutdownCompletes == destroy_pc = "clock" ~> destroy_pc = "gone"
=================================================================================

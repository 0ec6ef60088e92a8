----------------------------- MODULE MixerWindow -----------------------------
(* mixer_window.cpp: the commands of the main window.  The window remembers
   what the user chose and asks the mixer for a video mix; a timed fade is
   carried out frame by frame on the mixer thread, which reports its end to
   the window (effect_status) without any lock.

   win is the window (with the widgets' states that guard its handlers), mix
   the mixer's setting.  A handler that asks for a mix does so in steps, and
   those of the mixer thread may come between any of them: what it does to
   the members before it asks, create_video_mix_*, which reads them, and
   set_video_mix with what is left to do after it.  What only the UI thread
   reads and writes is done with the step before.  The buttons of the effects
   are one radio group: making one active signals "toggled" on the old one,
   then on it.                                                              *)
EXTENDS Naturals, Sequences

CONSTANTS
  SourceId,     \* the sources
  Fade,         \* video_mix_fade objects, reused when nothing refers to them
  QueueLen      \* frames between the clock and the mixer thread

VARIABLES
  win,          \* the window's members
  handler,      \* the handler that runs, where it is, the mix it made and its tmp_id
  count,        \* the sources of the last frames it was given
  can_record, do_record,
  queue,        \* the mixes of the frames queued for the mixer thread
  ended,        \* fades whose timed_ is false
  mixer_at,     \* where the mixer thread is
  report,       \* the mix that effect_status made
  stale         \* history: a report has come since the handler made its mix

rec_vars == <<can_record, do_record>>
mix_vars == <<queue, ended, mixer_at, report, stale>>
vars == <<win, handler, count, rec_vars, mix_vars>>

----------------------------------------------------------------------------
(* Mixes.  A mix names its primary and secondary source.                    *)
NoMix == [kind |-> "none"]
Simple(id) == [kind |-> "simple", pri |-> id]
PicInPic(w) == [kind |-> "pip", pri |-> w.pri, sec |-> w.sec]
Fading(w, fade) == [kind |-> "fade", pri |-> w.pri, sec |-> w.fade_target, fade |-> fade]
Used(m) == {m[i].fade : i \in {j \in DOMAIN m : m[j].kind = "fade"}}
FreeFades == Fade \ Used(<<win.mix>> \o queue)

First == CHOOSE id \in SourceId : TRUE
Idle == [at |-> "idle", does |-> "nothing", mix |-> NoMix, tmp |-> First]

(* The constructor leaves fade_pending_ as the memory was.                  *)
Init ==
  /\ \E garbage \in BOOLEAN :
       win = [pri |-> First, sec |-> First, fade_target |-> First,
              pip_active |-> FALSE, pip_pending |-> FALSE, fade_pending |-> garbage,
              effect |-> "none", apply |-> FALSE, sel_enabled |-> FALSE,
              selected |-> FALSE, record |-> FALSE, cut |-> FALSE,
              mix |-> Simple(First)]
  /\ handler = Idle
  /\ count = 0
  /\ can_record = FALSE /\ do_record = FALSE
  /\ queue = <<>> /\ ended = {} /\ mixer_at = "mix" /\ report = NoMix /\ stale = FALSE

----------------------------------------------------------------------------
(* The handlers of the window, up to where they ask for a mix, if they do:
   the window then, and what asks.                                          *)
Done(w) == [win |-> w, does |-> "nothing"]
Asks(w, does) == [win |-> w, does |-> does]

cancel_effect(w) ==
  IF w.effect # "none" THEN Done(w)
  ELSE Asks([w EXCEPT !.pip_pending = FALSE, !.pip_active = FALSE, !.fade_pending = FALSE],
            "cancel_effect")

begin_pic_in_pic(w) ==
  [w EXCEPT !.sel_enabled = TRUE, !.pip_pending = TRUE, !.apply = TRUE]

\* Slip: a pending picture in picture stays pending.
begin_fade_too(w) == IF w.effect # "fade" THEN w ELSE [w EXCEPT !.fade_pending = TRUE]

begin_fade(w) ==
  IF w.effect # "fade" THEN w
  ELSE LET v == [w EXCEPT !.fade_pending = TRUE]
       IN  IF w.pip_pending
           THEN [v EXCEPT !.pip_pending = FALSE, !.sel_enabled = FALSE, !.apply = FALSE]
           ELSE v

toggled(w, button) ==
  CASE button = "none" -> cancel_effect(w)
    [] button = "pip"  -> Done(begin_pic_in_pic(w))
    [] button = "fade" -> Done(begin_fade(w))

\* The old button is no longer active: its handler asks for nothing.
set_active(w, button) ==
  IF w.effect = button THEN Done(w)
  ELSE toggled(toggled([w EXCEPT !.effect = button], w.effect).win, button)

on_updated_selection(w) == begin_pic_in_pic(set_active(w, "pip").win)

apply_effect(w) ==
  IF ~w.pip_pending THEN Done([w EXCEPT !.apply = FALSE])
  ELSE IF ~w.selected THEN Done(w)
  ELSE Asks([w EXCEPT !.pip_pending = FALSE, !.pip_active = TRUE], "apply_effect")

\* cancel_effect may ask for a mix of its own first.
set_pri_video_source(w, id) ==
  IF w.fade_pending THEN Asks([w EXCEPT !.fade_target = id], "fade")
  ELSE LET v == [w EXCEPT !.pri = id]
           x == [v EXCEPT !.pip_active = FALSE]
           u == set_active(x, "none")
       IN  IF ~(w.pip_active /\ id = w.sec) THEN Asks(v, "set_pri")
           ELSE IF w.pip_pending \/ u.does = "nothing" THEN Asks(x, "set_pri")
           ELSE Asks(u.win, "cancel_and_set_pri")

\* Slip: the picture in picture on air keeps its old secondary source.
set_sec_video_source_later(w, id) == Done([w EXCEPT !.sec = id])

set_sec_video_source(w, id) ==
  LET v == [w EXCEPT !.sec = id]
  IN  IF v.pip_active THEN Asks(v, "set_sec") ELSE Done(v)

----------------------------------------------------------------------------
(* A handler begins, ...                                                    *)
Begin(r) ==
  /\ win' = r.win
  /\ handler' = IF r.does = "nothing" THEN Idle ELSE [Idle EXCEPT !.at = "create", !.does = r.does]

Selector ==
  \E id \in SourceId :
    Begin(set_sec_video_source(win, id)) \/ Begin(set_pri_video_source(win, id))

\* Buttons work while they are sensitive.
Effects ==
  \/ count >= 1 /\ Begin(set_active(win, "none"))
  \/ count >= 2 /\ \E button \in {"pip", "fade"} : Begin(set_active(win, button))
  \/ win.apply /\ Begin(apply_effect(win))

(* Dragging in the display, which moves the selection even while it is not
   enabled; the corner buttons; "Select manually".                          *)
Selection ==
  \/ \E some \in BOOLEAN :
       \/ Begin(Done([win EXCEPT !.selected = some]))
       \/ /\ win.sel_enabled
          /\ Begin(Done(on_updated_selection([win EXCEPT !.selected = some])))
  \/ /\ count >= 2
     /\ \/ Begin(Done(on_updated_selection([win EXCEPT !.selected = TRUE, !.sel_enabled = TRUE])))
        \/ Begin(Done([win EXCEPT !.sel_enabled = TRUE]))

Command ==
  /\ handler = Idle
  /\ Selector \/ Effects \/ Selection
  /\ UNCHANGED <<count, rec_vars, mix_vars>>

(* ... switch_pri_sec_video_sources with the primary source as it finds it, ... *)
Switch ==
  /\ handler = Idle /\ count >= 2 /\ win.pri # win.sec
  /\ handler' = [Idle EXCEPT !.at = "switch", !.tmp = win.pri]
  /\ UNCHANGED <<win, count, rec_vars, mix_vars>>

Switched ==
  /\ handler.at = "switch"
  /\ LET v == [win EXCEPT !.pri = win.sec, !.sec = handler.tmp]
     IN  Begin(IF v.pip_active THEN Asks(v, "set_sec") ELSE Done(v))
  /\ UNCHANGED <<count, rec_vars, mix_vars>>

(* ... makes the mix it asks for, with a new object if it is a fade, ...    *)
Mixes(w, does) ==
  IF does = "fade" THEN {Fading(w, fade) : fade \in FreeFades}
  ELSE IF does \in {"cancel_effect", "cancel_and_set_pri"} \/ ~w.pip_active THEN {Simple(w.pri)}
  ELSE {PicInPic(w)}

create_video_mix ==
  /\ handler.at = "create"
  /\ \E mix \in Mixes(win, handler.does) :
       /\ handler' = [handler EXCEPT !.at = "set_video_mix", !.mix = mix]
       /\ ended' = ended \intersect Used(<<win.mix>> \o queue)
  /\ stale' = FALSE
  /\ UNCHANGED <<win, count, rec_vars, queue, mixer_at, report>>

(* ... and sets it.  cancel_effect then returns to set_pri_video_source, if
   it was called from there.                                                *)
Rest(w, does) ==
  CASE does \in {"cancel_effect", "cancel_and_set_pri", "apply_effect"} ->
         [w EXCEPT !.sel_enabled = FALSE, !.apply = FALSE]
    [] does = "fade" -> [w EXCEPT !.pip_active = FALSE]
    [] OTHER -> w

set_video_mix ==
  /\ handler.at = "set_video_mix"
  /\ win' = [Rest(win, handler.does) EXCEPT !.mix = handler.mix]
  /\ handler' = IF handler.does = "cancel_and_set_pri"
                THEN [Idle EXCEPT !.at = "create", !.does = "set_pri"] ELSE Idle
  /\ UNCHANGED <<count, rec_vars, mix_vars>>

toggle_record ==
  /\ handler = Idle /\ can_record
  /\ win' = [win EXCEPT !.record = ~@, !.cut = ~win.record]
  /\ do_record' = ~win.record
  /\ UNCHANGED <<handler, count, can_record, mix_vars>>

(* update: the buttons follow the number of sources and of recorders.       *)
update ==
  /\ handler = Idle
  /\ \E n \in {0, 1, 2}, can \in BOOLEAN :
       /\ count' = n /\ can_record' = can
       /\ IF win.record /\ ~can
          THEN win' = [win EXCEPT !.record = FALSE, !.cut = FALSE] /\ do_record' = FALSE
          ELSE UNCHANGED <<win, do_record>>
  /\ UNCHANGED <<handler, mix_vars>>

----------------------------------------------------------------------------
(* The clock queues frames with the mix of the moment; the mixer thread
   applies the mix of the front one.                                        *)
Clock ==
  /\ Len(queue) < QueueLen
  /\ queue' = Append(queue, win.mix)
  /\ UNCHANGED <<win, handler, count, rec_vars, ended, mixer_at, report, stale>>

GoesOn == Head(queue).kind = "fade" /\ Head(queue).fade \notin ended

Pop ==
  /\ queue' = Tail(queue)
  /\ mixer_at' = "mix"

(* apply of a fade that goes on only moves the progress bar.                *)
Mix ==
  /\ mixer_at = "mix" /\ queue # <<>>
  /\ Pop /\ UNCHANGED <<win, handler, count, rec_vars, ended, report, stale>>

(* The last step of a fade: apply clears timed_, status calls effect_status,
   which reads fade_pending_, ...                                           *)
FadeEnds ==
  /\ mixer_at = "mix" /\ queue # <<>> /\ GoesOn
  /\ ended' = ended \union {Head(queue).fade}
  /\ IF win.fade_pending THEN mixer_at' = "effect_status" /\ UNCHANGED queue ELSE Pop
  /\ UNCHANGED <<win, handler, count, rec_vars, report, stale>>

(* ... makes the target the primary source, ...                             *)
TargetReached ==
  /\ mixer_at = "effect_status"
  /\ win' = [win EXCEPT !.pri = win.fade_target]
  /\ mixer_at' = "create"
  /\ stale' = (stale \/ handler.at = "set_video_mix")
  /\ UNCHANGED <<handler, count, rec_vars, queue, ended, report>>

(* ... makes a mix of the primary source alone ...                          *)
ReportMade ==
  /\ mixer_at = "create"
  /\ report' = Simple(win.pri)
  /\ mixer_at' = "set_video_mix"
  /\ UNCHANGED <<win, handler, count, rec_vars, queue, ended, stale>>

(* ... and sets it.                                                         *)
FadeReplaced ==
  /\ mixer_at = "set_video_mix"
  /\ win' = [win EXCEPT !.mix = report]
  /\ report' = NoMix
  /\ Pop /\ UNCHANGED <<handler, count, rec_vars, ended, stale>>

\* The effects and the end of a fade; recording.
Mixing ==
  \/ Command \/ Switch \/ Switched \/ create_video_mix \/ set_video_mix
  \/ Clock \/ Mix \/ FadeEnds \/ TargetReached \/ ReportMade \/ FadeReplaced

Next == Mixing \/ toggle_record \/ update

----------------------------------------------------------------------------
\* Neither a handler nor a report is between its steps.
AtRest == handler = Idle /\ mixer_at \notin {"create", "set_video_mix"}

(* Between the handlers, whichever ran in which order and wherever the reports
   of the mixer thread came: a picture in picture on air is the active one, of
   the chosen sources, but for the primary one if a report changed it between
   its making and its setting (mixer_window.cpp:413); a fade on air leads to the source chosen last and the
   fade effect is still on; a pending picture in picture, and only that, can
   be applied, and its region can be drawn; recording is on exactly while the
   record button is pressed, and only then can it be cut.                   *)
ProgramAsChosen ==
  /\ AtRest /\ win.mix.kind = "pip" =>
       win.pip_active /\ win.mix.sec = win.sec /\ (win.mix.pri = win.pri \/ stale)
  /\ handler = Idle =>
       /\ win.mix.kind = "fade" =>
            win.fade_pending /\ ~win.pip_active /\ win.mix.sec = win.fade_target
       /\ win.apply = win.pip_pending
       /\ win.pip_pending => win.sel_enabled /\ win.effect = "pip"
  /\ win.record = do_record /\ win.cut = do_record
=============================================================================

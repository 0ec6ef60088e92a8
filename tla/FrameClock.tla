---------------------------------- MODULE FrameClock ----------------------------------
(***************************************************************************)
(* How run_clock of mixer.cpp sets its ticks by the frames of the audio     *)
(* source. Times are in nanoseconds and relative to the present tick: ages  *)
(* holds how long ago each frame in the queue of the audio source came,     *)
(* oldest first; until_next is when the next one is due, and held how long  *)
(* the network still keeps back what is due.                                *)
(***************************************************************************)
EXTENDS Integers, Sequences

CONSTANTS
  VideoSystem,     \* video systems, records with frame_rate_numer and frame_rate_denom
  Drift,           \* by how many parts in a thousand a source is slower than its system
  FirstTick,       \* how long after the frame that starts the clock the first tick comes
  Stall,           \* how long frames are kept back, in hundredths of an interval
  LastUpset,       \* the tick by which a stall or a switch of the audio source comes
  MaxTicks         \* ticks of the clock

full_queue_len   == 4
target_queue_len == 2

VARIABLES
  source,                  \* the audio source: its system and the interval of its frames
  ages, until_next, held,
  frame_interval, average_frame_interval,
  audio_source_system,     \* the system the clock has seen last, or none
  ticks, calm,             \* ticks so far, and since the last upset
  upset,                   \* there has been a stall or a switch
  missed, dropped          \* the last tick found no frame, or a frame found the queue full

vars == <<source, ages, until_next, held, frame_interval, average_frame_interval,
          audio_source_system, ticks, calm, upset, missed, dropped>>

NoSystem == [frame_rate_numer |-> 0, frame_rate_denom |-> 0]

standard_interval(system) ==
  (1000000000 \div system.frame_rate_numer) * system.frame_rate_denom

\* Sources whose clock is a little off.
Sources ==
  {[system |-> s, period |-> standard_interval(s) + (standard_interval(s) \div 1000) * d] :
     s \in VideoSystem, d \in Drift}

\* The clock starts when target_queue_len frames are queued.
Init ==
  /\ source \in Sources
  /\ \E t \in FirstTick : ages = <<source.period + t, t>> /\ until_next = source.period - t
  /\ held = 0 /\ frame_interval = 0 /\ average_frame_interval = 0
  /\ audio_source_system = NoSystem /\ ticks = 0 /\ calm = 0
  /\ upset = FALSE /\ missed = FALSE /\ dropped = FALSE
--------------------------------------------------------------------------------
\* The next frame interval and its average, by the delay of the frame taken.

Least(a, b)    == IF a < b THEN a ELSE b
Greatest(a, b) == IF a > b THEN a ELSE b

free_queue_time(interval, delay) == Greatest(full_queue_len * interval - delay, 0)

\* Slip: the delay itself is fed in, instead of the queue space that it leaves.
next_interval_delay(average, interval, delay) ==
  (average * 3 + (delay * 2) \div (2 * target_queue_len - 1)) \div 4

next_interval(average, interval, delay) ==
  (average * 3
     + (free_queue_time(interval, delay) * 2) \div (2 * (full_queue_len - target_queue_len) + 1))
  \div 4

next_average(average, interval) == (average * 15 + interval) \div 16
--------------------------------------------------------------------------------
\* Time goes on by dt: what was kept back comes when the stall is over, the rest when
\* it is due.
Come(dt, due, hold) ==
  LET n == IF hold > dt \/ due > dt THEN 0 ELSE (dt - due) \div source.period + 1
  IN  [k \in 1..n |-> dt - Greatest(due + (k - 1) * source.period, hold)]

\* put_frame queues what comes, as long as there is room.
Wait(dt, queue, hold) ==
  LET came == Come(dt, until_next, hold)
      all  == [i \in DOMAIN queue |-> queue[i] + dt] \o came
  IN  /\ ages' = SubSeq(all, 1, Least(Len(all), full_queue_len))
      /\ dropped' = (Len(all) > full_queue_len)
      /\ until_next' = until_next + Len(came) * source.period - dt
      /\ held' = Greatest(hold - dt, 0)

\* One round of run_clock: the frame of the audio source is taken, the interval set, and
\* the next tick waited for, with a stall that begins meanwhile.
Tick(stall) ==
  LET first    == audio_source_system # source.system
      interval == IF ages = <<>> THEN frame_interval
                  ELSE IF first THEN standard_interval(source.system)
                  ELSE next_interval(average_frame_interval, frame_interval, Head(ages))
      average  == IF ages = <<>> THEN average_frame_interval
                  ELSE IF first THEN interval
                  ELSE next_average(average_frame_interval, interval)
  IN  /\ ticks < MaxTicks
      /\ frame_interval' = interval /\ average_frame_interval' = average
      /\ audio_source_system' = IF ages = <<>> THEN audio_source_system ELSE source.system
      /\ missed' = (ages = <<>>)
      /\ Wait(interval, IF ages = <<>> THEN <<>> ELSE Tail(ages), Greatest(held, stall))
      /\ ticks' = ticks + 1
      /\ UNCHANGED source

Regular == Tick(0) /\ calm' = calm + 1 /\ UNCHANGED upset

Stalls == /\ ~upset /\ ticks <= LastUpset
          /\ \E s \in Stall : Tick((source.period \div 100) * s)
          /\ upset' = TRUE /\ calm' = 0

\* The operator takes the sound from another source, to whose frames the clock has paid no
\* heed, so that its queue may be empty or full.
Switch == /\ ~upset /\ ticks \in 1..LastUpset
          /\ source' \in Sources \ {source}
          /\ \E t \in FirstTick, n \in 0..full_queue_len :
               /\ ages' = [k \in 1..n |-> t + (n - k) * source'.period]
               /\ until_next' = source'.period - t
          /\ upset' = TRUE /\ calm' = 0
          /\ UNCHANGED <<held, frame_interval, average_frame_interval, audio_source_system,
                         ticks, missed, dropped>>

Next == Regular \/ Stalls \/ Switch

Spec == Init /\ [][Next]_vars
--------------------------------------------------------------------------------
\* The delay that the clock aims at, target_queue_len - 0.5 intervals, give or take a
\* twentieth of an interval.
OnTarget == /\ ages # <<>>
            /\ Head(ages) \in (source.period \div 100) * 145..(source.period \div 100) * 155
=================================================================================

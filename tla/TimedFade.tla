---------------------------------- MODULE TimedFade ----------------------------------
(***************************************************************************)
(* The progress of a timed fade (video_mix_fade of mixer.cpp): apply, which *)
(* the mixer thread calls for every set of frames, moves the scale from the *)
(* primary picture (0) to the secondary (255).                              *)
(***************************************************************************)
EXTENDS Integers

CONSTANTS
  Ms,              \* lengths of fades that are asked for, in ms
  FrameMs          \* lengths of a frame of the video systems, in whole ms

ASSUME FadeAssumption == Ms \subseteq Nat /\ FrameMs \subseteq Nat \ {0}

VARIABLES
  ms,                                          \* what was asked for
  timed_, scale_, bucketsize_, modulo_, ms_per_frame_,
  applied                                      \* calls of apply while timed_

vars == <<ms, timed_, scale_, bucketsize_, modulo_, ms_per_frame_, applied>>

\* The constructor, and validate, without which no fade is used.
Init ==
  /\ ms \in Ms /\ bucketsize_ = ms \div 255 /\ bucketsize_ # 0
  /\ timed_ = TRUE /\ scale_ = 0 /\ modulo_ = 0 /\ ms_per_frame_ = 0
  /\ applied = 0

\* Slip: what is left of a frame after whole steps is forgotten.
ApplyRounded(frame_ms) ==
  LET per_frame == IF ms_per_frame_ = 0 THEN frame_ms ELSE ms_per_frame_
      step      == per_frame \div bucketsize_
  IN  /\ timed_ /\ ms_per_frame_' = per_frame /\ modulo_' = 0
      /\ IF scale_ + step >= 255 THEN timed_' = FALSE /\ scale_' = 255
         ELSE scale_' = scale_ + step /\ UNCHANGED timed_
      /\ applied' = applied + 1
      /\ UNCHANGED <<ms, bucketsize_>>

\* A set of frames of a system with the given length of a frame.
Apply(frame_ms) ==
  LET per_frame == IF ms_per_frame_ = 0 THEN frame_ms ELSE ms_per_frame_
      val       == modulo_ + per_frame
      step      == val \div bucketsize_
  IN  /\ timed_ /\ ms_per_frame_' = per_frame /\ modulo_' = val % bucketsize_
      /\ IF scale_ + step >= 255 THEN timed_' = FALSE /\ scale_' = 255
         ELSE scale_' = scale_ + step /\ UNCHANGED timed_
      /\ applied' = applied + 1
      /\ UNCHANGED <<ms, bucketsize_>>

Next == \E frame_ms \in FrameMs : Apply(frame_ms)

Spec == Init /\ [][Next]_vars
--------------------------------------------------------------------------------
TypeOK ==
  /\ ms \in Ms /\ bucketsize_ \in Nat \ {0} /\ timed_ \in BOOLEAN /\ scale_ \in 0..255
  /\ modulo_ \in 0..bucketsize_ - 1 /\ ms_per_frame_ \in Nat /\ applied \in Nat
  /\ applied > 0 => ms_per_frame_ # 0

\* The time of the frames shown so far, each of the whole ms that the code counts for it.
elapsed == applied * ms_per_frame_

\* That time is in the scale and the remainder, to the millisecond, so steps neither get lost
\* nor come early however long the fade is.
Linear == timed_ => scale_ * bucketsize_ + modulo_ = elapsed

\* A fade ends with the frame in which its 255 steps are over.
EndsInTime ==
  IF timed_ THEN elapsed < 255 * bucketsize_
  ELSE /\ scale_ = 255
       /\ elapsed >= 255 * bucketsize_
       /\ elapsed - ms_per_frame_ < 255 * bucketsize_

\* Against the length that was asked for, a fade is at no frame behind it by a step of the
\* scale, and has ended by the frame in which that time is over; as a step is a whole number
\* of ms, it may be ahead, in proportion to the scale, by up to 254 ms at its end.
FadeTimed ==
  /\ timed_ => 255 * elapsed < (scale_ + 1) * ms
  /\ ~timed_ => scale_ = 255 /\ elapsed - ms_per_frame_ < ms
  /\ scale_ * (ms - 254) <= 255 * elapsed

\* "This slider has a millisecond resolution, but note that of course the effect has a
\* resolution of one frame" (doc/README:183): a fade ends within a frame of the time asked
\* for. It does not: 300 ms are over after 264, and the default of two seconds after 1815.
FadeOnTime == ~timed_ => elapsed > ms - ms_per_frame_ /\ elapsed < ms + ms_per_frame_
=================================================================================

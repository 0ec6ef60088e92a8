------------------------------ MODULE Frames_proofs ------------------------------
(***************************************************************************)
(* Proofs about the frames on their way through the mixer: that they keep   *)
(* their order, that no one writes to a frame that others read, that the    *)
(* output keeps its video system and that there is always a frame to repeat.*)
(*                                                                          *)
(* A frame of a source has a place, counted from the mixer thread: the sets *)
(* of frames selected come first, the queue of the source behind them.  The *)
(* invariant OrderInv is about the frames and their places, and a step only *)
(* moves them: Moved(f) says that whatever is at a place after the step was *)
(* at place f[k] before it.  A tick (ClockSelect) and a hand-over           *)
(* (ClockPush) move no frame, MixerGet moves all by one, ClockDrop those    *)
(* behind the set dropped, and only QueueFrame adds one, behind the others. *)
(***************************************************************************)
EXTENDS Mixer_proofs

Place == Nat \ {0}
Stay       == [k \in Place |-> k]
Skip(from) == [k \in Place |-> IF k >= from THEN k + 1 ELSE k]

Moved(f) ==
  \A id \in DOMAIN sources_' : \A k \in Places(id)' :
    FrameAt(id, k)' # NULL => /\ id \in DOMAIN sources_
                              /\ f[k] \in Places(id)
                              /\ FrameAt(id, k)' = FrameAt(id, f[k])

\* A set of frames has no more frames than there are slots.
Fits == \A k \in 1..Len(Selected) : Len(Selected[k].source_frames) <= Len(sources_)

\* No frame on the way has a number that is still to be given.
Numbered == \A id \in DOMAIN sources_ : \A k \in Places(id) :
              FrameAt(id, k) # NULL => FrameAt(id, k).n <= puts

\* Of the frames on the way, sinks and window have at most those of the front set, and
\* those only when the mixer thread has nothing more to do with them than to pop them.
Unused == /\ shared \subseteq 1..puts
          /\ \A id \in DOMAIN sources_ : \A k \in Places(id) :
               FrameAt(id, k) # NULL /\ FrameAt(id, k).n \in shared => k = 1 /\ FrontUsed

\* The mixed frame is a new one or a frame of the front set.
MixedFrom == mixer_pc \in {"sink", "monitor"} =>
               \/ mixed_dv.n = 0
               \/ \E id \in DOMAIN m.source_frames :
                    m.source_frames[id] # NULL /\ mixed_dv.n = m.source_frames[id].n

OrderInv == Fits /\ Numbered /\ FramesInOrder /\ Unused /\ MixedFrom

-----------------------------------------------------------------------------------
\* The sets of frames selected, and the queues behind them, are sequences.
LEMMA SelectedSeq ==
  ASSUME IInv
  PROVE  /\ Selected = IF clock_pc = "push" THEN Append(mixer_queue_, clock_m) ELSE mixer_queue_
         /\ Selected \in Seq(MixData) /\ Len(Selected) \in Nat
         /\ mixer_queue_ \in Seq(MixData) /\ Len(mixer_queue_) \in Nat
         /\ clock_pc = "push" => clock_m \in MixData
<1>1. /\ mixer_queue_ \in Seq(MixData) /\ Len(mixer_queue_) \in Nat
      /\ clock_pc = "push" => clock_m \in MixData
  BY LenProperties DEF IInv, TypeOK, TypeQueue, TypeClock
<1>2. CASE clock_pc = "push"
  <2>1. Selected = mixer_queue_ \o <<clock_m>>  BY <1>2 DEF Selected
  <2>2. Selected = Append(mixer_queue_, clock_m)  BY <1>1, <1>2, <2>1
  <2>3. Append(mixer_queue_, clock_m) \in Seq(MixData)  BY <1>1, <1>2
  <2> QED  BY <1>1, <1>2, <2>2, <2>3, LenProperties
<1>3. CASE clock_pc # "push"
  <2>1. Selected = mixer_queue_  BY <1>1, <1>3 DEF Selected
  <2> QED  BY <1>1, <1>3, <2>1
<1> QED  BY <1>2, <1>3

\* A tick adds a set of frames to those selected,
LEMMA SelectedTick ==
  ASSUME IInv, IInv', ClockSelect
  PROVE  Selected' = Append(Selected, Selection) /\ Selection \in MixData
<1>1. clock_pc = "select" /\ clock_pc' = "push" /\ clock_m' = Selection
      /\ mixer_queue_' = mixer_queue_
  BY DEF ClockSelect, queue_vars
<1>2. (/\ Selected = IF clock_pc = "push" THEN Append(mixer_queue_, clock_m) ELSE mixer_queue_
       /\ clock_pc = "push" => clock_m \in MixData)'
  BY SelectedSeq, PTL
<1> QED  BY <1>1, <1>2, SelectedSeq

\* ClockDrop takes the last of them away,
LEMMA SelectedDrop ==
  ASSUME IInv, IInv', ClockDrop
  PROVE  /\ Selected = Append(mixer_queue_, clock_m) /\ Selected' = mixer_queue_
         /\ clock_m \in MixData
<1>1. clock_pc = "push" /\ clock_pc' = "select" /\ mixer_queue_' = mixer_queue_
  BY DEF ClockDrop, queue_vars
<1>2. (Selected = IF clock_pc = "push" THEN Append(mixer_queue_, clock_m) ELSE mixer_queue_)'
  BY SelectedSeq, PTL
<1> QED  BY <1>1, <1>2, SelectedSeq

\* and the mixer thread the first.
LEMMA SelectedPop ==
  ASSUME IInv, IInv', MixerGet
  PROVE  /\ holding => Selected' = Tail(Selected) /\ Selected # <<>>
         /\ ~holding => Selected' = Selected
<1>1. /\ holding => mixer_queue_ # <<>> /\ mixer_queue_' = Tail(mixer_queue_)
      /\ ~holding => mixer_queue_' = mixer_queue_
      /\ clock_pc' = clock_pc /\ clock_m' = clock_m
  BY DEF IInv, Holds, MixerGet, clock_vars
<1>2. (Selected = IF clock_pc = "push" THEN Append(mixer_queue_, clock_m) ELSE mixer_queue_)'
  BY SelectedSeq, PTL
<1>3. CASE holding /\ clock_pc = "push"
  <2>1. Selected = Append(mixer_queue_, clock_m) /\ Selected' = Append(Tail(mixer_queue_), clock_m)
        /\ mixer_queue_ \in Seq(MixData) /\ clock_m \in MixData
    BY <1>1, <1>2, <1>3, SelectedSeq
  <2>2. Append(Tail(mixer_queue_), clock_m) = Tail(Append(mixer_queue_, clock_m))
    BY <1>1, <1>3, <2>1
  <2>3. Selected # <<>>  BY <2>1
  <2> QED  BY <1>3, <2>1, <2>2, <2>3
<1>4. CASE ~(holding /\ clock_pc = "push")
  BY <1>1, <1>2, <1>4, SelectedSeq
<1> QED  BY <1>3, <1>4

\* A set of frames selected is a sequence of frames and gaps.
LEMMA SetSeq ==
  IInv => \A k \in 1..Len(Selected) :
            /\ Selected[k] \in MixData
            /\ Selected[k].source_frames \in Seq(Frame \cup {NULL})
            /\ Len(Selected[k].source_frames) \in Nat
            /\ DOMAIN Selected[k].source_frames = 1..Len(Selected[k].source_frames)
<1> SUFFICES ASSUME IInv, NEW k \in 1..Len(Selected)
             PROVE  /\ Selected[k] \in MixData
                    /\ Selected[k].source_frames \in Seq(Frame \cup {NULL})
                    /\ Len(Selected[k].source_frames) \in Nat
                    /\ DOMAIN Selected[k].source_frames = 1..Len(Selected[k].source_frames)
  OBVIOUS
<1>1. Selected[k] \in MixData  BY SelectedSeq, ElementOfSeq
<1>2. Selected[k].source_frames \in Seq(Frame \cup {NULL})  BY <1>1 DEF MixData
<1> QED  BY <1>1, <1>2, LenProperties

\* The slots are a sequence, and so are their queues.
LEMMA SlotSeq ==
  ASSUME IInv
  PROVE  /\ sources_ \in Seq(Slot) /\ Len(sources_) \in Nat /\ DOMAIN sources_ = 1..Len(sources_)
         /\ \A id \in DOMAIN sources_ :
              sources_[id].frames \in Seq(Frame) /\ Len(sources_[id].frames) \in Nat
<1>1. sources_ \in Seq(Slot) /\ Len(sources_) \in Nat /\ DOMAIN sources_ = 1..Len(sources_)
  BY LenProperties DEF IInv, TypeOK, TypeSource
<1>2. \A id \in DOMAIN sources_ : sources_[id] \in Slot  BY <1>1, ElementOfSeq
<1>3. \A id \in DOMAIN sources_ : sources_[id].frames \in Seq(Frame)  BY <1>2 DEF Slot
<1> QED  BY <1>1, <1>3, LenProperties

\* Every place has a frame or nothing.
LEMMA FrameAtType ==
  IInv => \A id \in DOMAIN sources_ : \A k \in Places(id) :
            FrameAt(id, k) \in Frame \cup {NULL} /\ k \in Place
<1> SUFFICES ASSUME IInv, NEW id \in DOMAIN sources_, NEW k \in Places(id)
             PROVE  FrameAt(id, k) \in Frame \cup {NULL} /\ k \in Place
  OBVIOUS
<1>1. /\ Len(Selected) \in Nat /\ sources_[id].frames \in Seq(Frame)
      /\ Len(sources_[id].frames) \in Nat /\ Selected \in Seq(MixData)
  BY SelectedSeq, SlotSeq
<1>2. k \in Nat /\ k >= 1 /\ k <= Len(Selected) + Len(sources_[id].frames)
  BY <1>1 DEF Places
<1>3. CASE k > Len(Selected)
  <2>1. k - Len(Selected) \in 1..Len(sources_[id].frames)  BY <1>1, <1>2, <1>3
  <2>2. sources_[id].frames[k - Len(Selected)] \in Frame  BY <1>1, <2>1, ElementOfSeq
  <2> QED  BY <1>2, <1>3, <2>2 DEF FrameAt, Place
<1>4. CASE ~(k > Len(Selected))
  <2>1. k \in 1..Len(Selected)  BY <1>1, <1>2, <1>4
  <2>2. Selected[k].source_frames \in Seq(Frame \cup {NULL})  BY <2>1, SetSeq
  <2>3. id \in DOMAIN Selected[k].source_frames
          => Selected[k].source_frames[id] \in Frame \cup {NULL}
    BY <2>2, ElementOfSeq, LenProperties
  <2> QED  BY <1>2, <1>4, <2>3 DEF FrameAt, Place
<1> QED  BY <1>3, <1>4

\* Both ways of moving keep the order of the places.
LEMMA Moves ==
  ASSUME NEW from \in Place
  PROVE  /\ Stay \in [Place -> Place] /\ Skip(from) \in [Place -> Place]
         /\ \A i, j \in Place : i < j => Stay[i] < Stay[j] /\ Skip(from)[i] < Skip(from)[j]
<1>1. Stay \in [Place -> Place] /\ \A i, j \in Place : i < j => Stay[i] < Stay[j]
  BY DEF Stay, Place
<1>2. \A k \in Place : k + 1 \in Place  BY DEF Place
<1>3. Skip(from) \in [Place -> Place]  BY <1>2 DEF Skip
<1>4. \A i, j \in Place : i < j => Skip(from)[i] < Skip(from)[j]
  BY DEF Skip, Place
<1> QED  BY <1>1, <1>3, <1>4

\* Frames that move in step keep their order and their numbers.
LEMMA OrderMoved ==
  ASSUME IInv, IInv', OrderInv, puts <= puts',
         NEW f \in [Place -> Place], \A i, j \in Place : i < j => f[i] < f[j], Moved(f)
  PROVE  FramesInOrder' /\ Numbered'
<1>1. ASSUME NEW id \in DOMAIN sources_', NEW k \in Places(id)', FrameAt(id, k)' # NULL
      PROVE  /\ id \in DOMAIN sources_ /\ f[k] \in Places(id) /\ k \in Place
             /\ FrameAt(id, k)' = FrameAt(id, f[k]) /\ FrameAt(id, f[k]) # NULL
             /\ FrameAt(id, f[k]) \in Frame
  <2>1. /\ id \in DOMAIN sources_ /\ f[k] \in Places(id)
        /\ FrameAt(id, k)' = FrameAt(id, f[k]) /\ FrameAt(id, f[k]) # NULL
    BY <1>1 DEF Moved
  <2>2. FrameAt(id, f[k]) \in Frame  BY <2>1, FrameAtType
  <2>3. k \in Place  BY DEF Places, Place
  <2> QED  BY <2>1, <2>2, <2>3
<1>2. Numbered'
  <2> SUFFICES ASSUME NEW id \in DOMAIN sources_', NEW k \in Places(id)', FrameAt(id, k)' # NULL
               PROVE  FrameAt(id, k)'.n <= puts'
    BY DEF Numbered
  <2>1. FrameAt(id, f[k]).n <= puts  BY <1>1 DEF OrderInv, Numbered
  <2>2. FrameAt(id, f[k]).n \in Nat /\ puts \in Nat /\ puts' \in Nat
    BY <1>1, ConstantAssumption DEF Frame, IInv, TypeOK, TypeRest
  <2> QED  BY <1>1, <2>1, <2>2
<1>3. FramesInOrder'
  <2> SUFFICES ASSUME NEW id \in DOMAIN sources_', NEW other \in DOMAIN sources_',
                      NEW i \in Places(id)', NEW j \in Places(other)',
                      FrameAt(id, i)' # NULL, FrameAt(other, j)' # NULL
               PROVE  IF id = other THEN i < j => FrameAt(id, i)'.n < FrameAt(other, j)'.n
                                    ELSE FrameAt(id, i)'.n # FrameAt(other, j)'.n
    BY DEF FramesInOrder
  <2>1. i < j => f[i] < f[j]  BY <1>1
  <2>2. IF id = other THEN f[i] < f[j] => FrameAt(id, f[i]).n < FrameAt(other, f[j]).n
                      ELSE FrameAt(id, f[i]).n # FrameAt(other, f[j]).n
    BY <1>1 DEF OrderInv, FramesInOrder
  <2> QED  BY <1>1, <2>1, <2>2
<1> QED  BY <1>2, <1>3

\* So do the facts about the frames that others have, if what others have stays the same
\* and the front set is no other.
LEMMA UnusedMoved ==
  ASSUME IInv, IInv', OrderInv, puts <= puts', shared' = shared,
         NEW f \in [Place -> Place], Moved(f),
         \A k \in Place : f[k] = 1 /\ FrontUsed => k = 1 /\ FrontUsed'
  PROVE  Unused'
<1>1. shared' \subseteq 1..puts'
  BY ConstantAssumption DEF OrderInv, Unused, IInv, TypeOK, TypeRest
<1>2. ASSUME NEW id \in DOMAIN sources_', NEW k \in Places(id)', FrameAt(id, k)' # NULL,
             FrameAt(id, k)'.n \in shared'
      PROVE  k = 1 /\ FrontUsed'
  <2>1. /\ id \in DOMAIN sources_ /\ f[k] \in Places(id)
        /\ FrameAt(id, k)' = FrameAt(id, f[k]) /\ FrameAt(id, f[k]) # NULL
    BY <1>2 DEF Moved
  <2>2. f[k] = 1 /\ FrontUsed  BY <1>2, <2>1 DEF OrderInv, Unused
  <2>3. k \in Place  BY DEF Places, Place
  <2> QED  BY <2>2, <2>3
<1> QED  BY <1>1, <1>2 DEF Unused
-----------------------------------------------------------------------------------
\* A step that leaves the sets of frames selected and the queues alone moves no frame.
LEMMA WayStays ==
  ASSUME IInv, Fits, Selected' = Selected, sources_' \in Seq(Slot), Len(sources_) <= Len(sources_'),
         \A id \in 1..Len(sources_) : sources_'[id].frames = sources_[id].frames,
         \A id \in 1..Len(sources_') : id \notin 1..Len(sources_) => sources_'[id].frames = <<>>
  PROVE  Moved(Stay) /\ Fits'
<1>1. /\ Len(Selected) \in Nat /\ Selected \in Seq(MixData) /\ Len(sources_) \in Nat
      /\ DOMAIN sources_ = 1..Len(sources_)
  BY SelectedSeq, SlotSeq
<1>2. Len(sources_') \in Nat /\ DOMAIN sources_' = 1..Len(sources_')  BY LenProperties
<1>3. \A k \in 1..Len(Selected) : Len(Selected[k].source_frames) <= Len(sources_)
        /\ Len(Selected[k].source_frames) \in Nat
        /\ DOMAIN Selected[k].source_frames = 1..Len(Selected[k].source_frames)
  BY SetSeq DEF Fits
<1>4. Fits'  BY <1>1, <1>2, <1>3 DEF Fits
<1>5. Moved(Stay)
  <2> SUFFICES ASSUME NEW id \in DOMAIN sources_', NEW k \in Places(id)', FrameAt(id, k)' # NULL
               PROVE  /\ id \in DOMAIN sources_ /\ Stay[k] \in Places(id)
                      /\ FrameAt(id, k)' = FrameAt(id, Stay[k])
    BY DEF Moved
  <2>1. Stay[k] = k  BY DEF Places, Place, Stay
  <2>2. CASE id \in 1..Len(sources_)
    <3>1. sources_'[id].frames = sources_[id].frames  BY <2>2
    <3>2. FrameAt(id, k)' = FrameAt(id, k) /\ k \in Places(id)  BY <3>1 DEF FrameAt, Places
    <3> QED  BY <1>1, <2>1, <2>2, <3>2
  <2>3. CASE id \notin 1..Len(sources_)
    <3>1. sources_'[id].frames = <<>>  BY <1>2, <2>3
    <3>2. k \in 1..Len(Selected)  BY <1>1, <3>1 DEF Places
    <3>3. id \notin DOMAIN Selected[k].source_frames  BY <1>1, <1>2, <1>3, <2>3, <3>2
    <3>4. FrameAt(id, k)' = NULL  BY <1>1, <3>2, <3>3 DEF FrameAt
    <3> QED  BY <3>4
  <2> QED  BY <2>2, <2>3
<1> QED  BY <1>4, <1>5

\* A tick takes the head of each queue to the place behind the sets of frames selected,
\* which is where it was already.
LEMMA WayOfTick ==
  ASSUME IInv, IInv', Fits, ClockSelect
  PROVE  Moved(Stay) /\ Fits'
<1>1. /\ Len(Selected) \in Nat /\ Selected \in Seq(MixData) /\ Selected = mixer_queue_
      /\ Len(sources_) \in Nat /\ DOMAIN sources_ = 1..Len(sources_)
  BY SelectedSeq, SlotSeq DEF ClockSelect
<1>2. Selected' = Append(Selected, Selection) /\ Selection \in MixData  BY SelectedTick
<1>3. Len(Selected') = Len(Selected) + 1 /\ Selected'[Len(Selected) + 1] = Selection
      /\ \A k \in 1..Len(Selected) : Selected'[k] = Selected[k]
  BY <1>1, <1>2
<1>4. /\ sources_' = [id \in 1..Len(sources_) |-> Left(sources_[id])]
      /\ DOMAIN sources_' = 1..Len(sources_) /\ Len(sources_') = Len(sources_)
  <2>1. sources_' = [id \in 1..Len(sources_) |-> Left(sources_[id])]  BY <1>1 DEF ClockSelect
  <2> QED  BY <1>1, <2>1
<1>5. /\ Selection.source_frames = [id \in 1..Len(sources_) |-> Taken(sources_[id])]
      /\ DOMAIN Selection.source_frames = 1..Len(sources_)
      /\ Len(Selection.source_frames) = Len(sources_)
  <2>1. Selection.source_frames = [id \in 1..Len(sources_) |-> Taken(sources_[id])]
    BY <1>1 DEF Selection
  <2> HIDE DEF Selection
  <2> QED  BY <1>1, <2>1
<1> HIDE DEF Selection
<1>6. Fits'
  <2> SUFFICES ASSUME NEW k \in 1..Len(Selected')
               PROVE  Len(Selected'[k].source_frames) <= Len(sources_')
    BY DEF Fits
  <2>1. CASE k = Len(Selected) + 1  BY <1>1, <1>3, <1>4, <1>5, <2>1
  <2>2. CASE k \in 1..Len(Selected)  BY <1>3, <1>4, <2>2 DEF Fits
  <2> QED  BY <1>1, <1>3, <2>1, <2>2
<1>7. Moved(Stay)
  <2> SUFFICES ASSUME NEW id \in DOMAIN sources_', NEW k \in Places(id)', FrameAt(id, k)' # NULL
               PROVE  /\ id \in DOMAIN sources_ /\ Stay[k] \in Places(id)
                      /\ FrameAt(id, k)' = FrameAt(id, Stay[k])
    BY DEF Moved
  <2> DEFINE q == sources_[id].frames
             L == Len(Selected)
  <2>1. Stay[k] = k /\ id \in DOMAIN sources_ /\ id \in 1..Len(sources_)
    BY <1>1, <1>4 DEF Places, Place, Stay
  <2>2. q \in Seq(Frame) /\ Len(q) \in Nat  BY <2>1, SlotSeq
  <2>3. sources_'[id] = Left(sources_[id])  BY <1>4, <2>1
  <2>4. CASE k \in 1..L
    <3>1. FrameAt(id, k)' = FrameAt(id, k)  BY <1>1, <1>3, <2>4 DEF FrameAt
    <3>2. k \in Places(id)  BY <1>1, <2>2, <2>4 DEF Places
    <3> QED  BY <2>1, <3>1, <3>2
  <2>5. CASE k = L + 1
    <3>1. FrameAt(id, k)' = Taken(sources_[id])
      <4>1. ~(k > Len(Selected')) /\ Selected'[k] = Selection  BY <1>1, <1>3, <2>5
      <4>2. Selection.source_frames[id] = Taken(sources_[id])
            /\ id \in DOMAIN Selection.source_frames
        BY <1>5, <2>1
      <4> QED  BY <4>1, <4>2 DEF FrameAt
    <3>2. q # <<>> /\ FrameAt(id, k)' = Head(q)  BY <3>1 DEF Taken
    <3>3. Len(q) >= 1 /\ Head(q) = q[1]  BY <2>2, <3>2
    <3>4. k \in Places(id) /\ k > L /\ k - L = 1  BY <1>1, <2>2, <2>5, <3>3 DEF Places
    <3>5. FrameAt(id, k) = q[1]  BY <3>4 DEF FrameAt
    <3> QED  BY <2>1, <3>2, <3>3, <3>4, <3>5
  <2>6. CASE k \notin 1..L /\ k # L + 1
    <3>1. sources_'[id].frames = IF q = <<>> THEN q ELSE Tail(q)
      <4>1. sources_[id] \in Slot  BY <2>1, SlotSeq, ElementOfSeq
      <4> QED  BY <2>3, <4>1 DEF Left, Slot
    <3>2. k \in 1..(L + 1 + Len(sources_'[id].frames))  BY <1>3 DEF Places
    <3>3. q # <<>>
      <4> DEFINE n == Len(sources_'[id].frames)
      <4>1. q = <<>> => n = 0  BY <3>1
      <4>2. L \in Nat /\ k \in 1..(L + 1 + n)  BY <1>1, <3>2
      <4> HIDE DEF q, L, n
      <4> QED  BY <2>6, <4>1, <4>2
    <3>4. Len(Tail(q)) = Len(q) - 1 /\ \A i \in 1..Len(Tail(q)) : Tail(q)[i] = q[i + 1]
      BY <2>2, <3>3
    <3> DEFINE n == Len(Tail(q))
    <3>5. k - (L + 1) \in 1..n /\ (k - (L + 1)) + 1 = k - L /\ k > L /\ k > L + 1 /\ k - L <= n + 1
      <4>1. k \in 1..(L + 1 + n)  BY <3>1, <3>2, <3>3
      <4>2. L \in Nat /\ n \in Nat  BY <1>1, <2>2, <3>3
      <4> HIDE DEF q, L, n
      <4> QED  BY <2>6, <4>1, <4>2
    <3>6. FrameAt(id, k)' = Tail(q)[k - (L + 1)]  BY <1>3, <3>1, <3>3, <3>5 DEF FrameAt
    <3>7. FrameAt(id, k) = q[k - L]  BY <3>5 DEF FrameAt
    <3>8. k \in Places(id)  BY <1>1, <2>2, <3>4, <3>5 DEF Places
    <3> QED  BY <2>1, <3>4, <3>5, <3>6, <3>7, <3>8
  <2> QED  BY <2>4, <2>5, <2>6
<1> QED  BY <1>6, <1>7

\* When a set of frames is dropped, the frames behind it move up; one set is in front of it.
LEMMA WayOfDrop ==
  ASSUME IInv, IInv', Fits, ClockDrop
  PROVE  /\ Moved(Skip(Len(mixer_queue_) + 1)) /\ Fits'
         /\ Len(mixer_queue_) \in Nat \ {0}
<1> DEFINE L == Len(mixer_queue_)
<1>1. /\ Selected = Append(mixer_queue_, clock_m) /\ Selected' = mixer_queue_
      /\ mixer_queue_ \in Seq(MixData) /\ L \in Nat /\ clock_m \in MixData
  BY SelectedDrop, SelectedSeq
<1>2. L # 0  BY ConstantAssumption DEF ClockDrop
<1>3. Len(Selected) = L + 1 /\ Len(Selected') = L
      /\ \A k \in 1..L : Selected'[k] = Selected[k]
  BY <1>1
<1>4. sources_' = sources_  BY DEF ClockDrop, source_vars
<1>5. Fits'  BY <1>1, <1>3, <1>4 DEF Fits
<1>6. Moved(Skip(L + 1))
  <2> SUFFICES ASSUME NEW id \in DOMAIN sources_', NEW k \in Places(id)', FrameAt(id, k)' # NULL
               PROVE  /\ id \in DOMAIN sources_ /\ Skip(L + 1)[k] \in Places(id)
                      /\ FrameAt(id, k)' = FrameAt(id, Skip(L + 1)[k])
    BY DEF Moved
  <2> DEFINE q == sources_[id].frames
             n == Len(q)
  <2>1. id \in DOMAIN sources_ /\ n \in Nat  BY <1>4, SlotSeq
  <2>2. k \in Place /\ k \in 1..(L + n)
    <3>1. Places(id)' = 1..(L + n)  BY <1>3, <1>4 DEF Places
    <3> HIDE DEF L, n
    <3> QED  BY <3>1 DEF Place
  <2>3. Places(id) = 1..(L + 1 + n)  BY <1>3 DEF Places
  <2>4. CASE k <= L
    <3>1. Skip(L + 1)[k] = k /\ k \in 1..L /\ k \in 1..(L + 1 + n)
      <4> HIDE DEF L, n
      <4> QED  BY <1>1, <2>1, <2>2, <2>4 DEF Skip
    <3>2. FrameAt(id, k)' = FrameAt(id, k)
      <4>1. ~(k > Len(Selected)) /\ ~(k > Len(Selected'))  BY <1>1, <1>3, <3>1
      <4> QED  BY <1>3, <3>1, <4>1 DEF FrameAt
    <3> QED  BY <2>1, <2>3, <3>1, <3>2
  <2>5. CASE k > L
    <3>1. Skip(L + 1)[k] = k + 1 /\ k + 1 \in 1..(L + 1 + n) /\ (k + 1) - (L + 1) = k - L
          /\ k + 1 > L + 1
      <4> HIDE DEF L, n
      <4> QED  BY <1>1, <2>1, <2>2, <2>5 DEF Skip
    <3>2. FrameAt(id, k)' = q[k - L]  BY <1>3, <1>4, <2>5 DEF FrameAt
    <3>3. FrameAt(id, k + 1) = q[(k + 1) - (L + 1)]  BY <1>3, <3>1 DEF FrameAt
    <3> QED  BY <2>1, <2>3, <3>1, <3>2, <3>3
  <2> QED  BY <1>1, <2>2, <2>4, <2>5 DEF Place
<1> QED  BY <1>1, <1>2, <1>5, <1>6

\* When the mixer thread pops a set of frames, every frame moves up by one.
LEMMA WayOfPop ==
  ASSUME IInv, IInv', Fits, MixerGet, holding
  PROVE  Moved(Skip(1)) /\ Fits'
<1> DEFINE L == Len(Selected')
<1>1. /\ Selected \in Seq(MixData) /\ Selected' = Tail(Selected) /\ Selected # <<>>
  BY SelectedPop, SelectedSeq
<1>2. L \in Nat /\ Len(Selected) = L + 1 /\ \A k \in 1..L : Selected'[k] = Selected[k + 1]
  BY <1>1
<1>3. sources_' = sources_  BY DEF MixerGet, source_vars
<1>4. Fits'
  <2> SUFFICES ASSUME NEW k \in 1..L
               PROVE  Len(Selected'[k].source_frames) <= Len(sources_')
    BY DEF Fits
  <2>1. k + 1 \in 1..(L + 1)  BY <1>2
  <2> QED  BY <1>2, <1>3, <2>1 DEF Fits
<1>5. Moved(Skip(1))
  <2> SUFFICES ASSUME NEW id \in DOMAIN sources_', NEW k \in Places(id)', FrameAt(id, k)' # NULL
               PROVE  /\ id \in DOMAIN sources_ /\ Skip(1)[k] \in Places(id)
                      /\ FrameAt(id, k)' = FrameAt(id, Skip(1)[k])
    BY DEF Moved
  <2> DEFINE q == sources_[id].frames
             n == Len(q)
  <2>1. id \in DOMAIN sources_ /\ n \in Nat  BY <1>3, SlotSeq
  <2>2. k \in Place /\ k \in 1..(L + n)
    <3>1. Places(id)' = 1..(L + n)  BY <1>2, <1>3 DEF Places
    <3> HIDE DEF L, n
    <3> QED  BY <3>1 DEF Place
  <2>3. Places(id) = 1..(L + 1 + n)  BY <1>2 DEF Places
  <2>4. Skip(1)[k] = k + 1 /\ k + 1 \in 1..(L + 1 + n) /\ (k + 1) - (L + 1) = k - L
        /\ (k > L <=> k + 1 > L + 1) /\ (k <= L => k \in 1..L)
    <3> HIDE DEF L, n
    <3> QED  BY <1>2, <2>1, <2>2 DEF Skip, Place
  <2>5. FrameAt(id, k)' = FrameAt(id, k + 1)
    <3>1. CASE k > L
      <4>1. FrameAt(id, k)' = q[k - L]  BY <1>3, <3>1 DEF FrameAt
      <4>2. FrameAt(id, k + 1) = q[(k + 1) - (L + 1)]  BY <1>2, <2>4, <3>1 DEF FrameAt
      <4> QED  BY <2>4, <4>1, <4>2
    <3>2. CASE ~(k > L)
      <4>1. k \in 1..L  BY <1>2, <2>2, <2>4, <3>2 DEF Place
      <4>2. Selected'[k] = Selected[k + 1] /\ ~(k + 1 > Len(Selected))
        BY <1>2, <2>4, <3>2, <4>1
      <4> QED  BY <3>2, <4>2 DEF FrameAt
    <3> QED  BY <3>1, <3>2
  <2> QED  BY <2>1, <2>3, <2>4, <2>5
<1> QED  BY <1>4, <1>5

\* put_frame leaves the frames on the way where they are and adds one behind those of its
\* source.
LEMMA WayOfPut ==
  ASSUME IInv, IInv', Fits, NEW s \in Source, NEW f \in FrameFormat, QueueFrame(s, f)
  PROVE  /\ Fits' /\ Selected' = Selected /\ DOMAIN sources_' = DOMAIN sources_
         /\ source_id[s] \in DOMAIN sources_
         /\ \A id \in DOMAIN sources_ : \A k \in Places(id) :
              k \in Places(id)' /\ FrameAt(id, k)' = FrameAt(id, k)
         /\ \A id \in DOMAIN sources_ : \A k \in Places(id)' :
              k \notin Places(id) =>
                /\ id = source_id[s] /\ \A j \in Places(id) : j < k
                /\ k = Len(Selected) + Len(sources_[id].frames) + 1
                /\ FrameAt(id, k)'.n = puts + 1 /\ FrameAt(id, k)'.system = f.system
<1>0. PICK own \in DOMAIN sources_ : own = source_id[s]
  BY SlotOf, SlotSeq DEF QueueFrame
<1> DEFINE q == sources_[own].frames
           running == Starts(own) \/ clock_state_ = "run"
           frame == [n |-> puts + 1, system |-> f.system, sample_rate |-> f.sample_rate,
                     frame_aspect |-> IF running THEN AutoSelected(f).frame_aspect
                                                 ELSE f.frame_aspect,
                     format_error |-> IF ~running THEN "unset"
                                      ELSE IF WrongFormat(f) THEN "wrong" ELSE "right"]
           L == Len(Selected)
           n == Len(q)
<1>1. /\ own \in 1..Len(sources_) /\ own \in DOMAIN sources_
      /\ sources_' = [sources_ EXCEPT ![own].frames = Append(q, frame)]
      /\ DOMAIN sources_ = 1..Len(sources_) /\ Len(sources_) \in Nat
      /\ q \in Seq(Frame) /\ n \in Nat /\ L \in Nat /\ sources_ \in Seq(Slot)
  BY <1>0, SlotSeq, SelectedSeq DEF QueueFrame
<1>2. frame.n = puts + 1 /\ frame.system = f.system  OBVIOUS
<1> HIDE DEF frame
<1>3. /\ DOMAIN sources_' = DOMAIN sources_ /\ Len(sources_') = Len(sources_)
      /\ \A id \in DOMAIN sources_ : id # own => sources_'[id].frames = sources_[id].frames
      /\ sources_'[own].frames = Append(q, frame)
  <2>1. sources_[own] \in Slot  BY <1>1, ElementOfSeq
  <2>2. sources_'[own] = [sources_[own] EXCEPT !.frames = Append(q, frame)]  BY <1>1
  <2>3. sources_'[own].frames = Append(q, frame)  BY <2>1, <2>2 DEF Slot
  <2>4. /\ DOMAIN sources_' = DOMAIN sources_
        /\ \A id \in DOMAIN sources_ : id # own => sources_'[id] = sources_[id]
    BY <1>1
  <2>5. Len(sources_') = Len(sources_)
    <3>1. (DOMAIN sources_ = 1..Len(sources_) /\ Len(sources_) \in Nat)'
      BY SlotSeq, PTL
    <3> QED  BY <1>1, <2>4, <3>1
  <2> QED  BY <2>3, <2>4, <2>5
<1>4. /\ Len(Append(q, frame)) = n + 1 /\ Append(q, frame)[n + 1] = frame
      /\ \A i \in 1..n : Append(q, frame)[i] = q[i]
  BY <1>1
<1>5. Selected' = Selected  BY DEF QueueFrame, queue_vars, clock_vars, Selected
<1>6. Fits'  BY <1>3, <1>5 DEF Fits
<1>7. \A id \in DOMAIN sources_ : id # own =>
        Places(id)' = Places(id) /\ \A k \in Places(id) : FrameAt(id, k)' = FrameAt(id, k)
  BY <1>3, <1>5 DEF Places, FrameAt
<1>8. Places(own) = 1..(L + n) /\ Places(own)' = 1..(L + n + 1)
  <2>1. Places(own) = 1..(L + n) /\ Places(own)' = 1..(L + (n + 1))
    BY <1>3, <1>4, <1>5 DEF Places
  <2> HIDE DEF L, n
  <2> QED  BY <1>1, <2>1
<1>9. ASSUME NEW k \in Places(own)
      PROVE  k \in Places(own)' /\ FrameAt(own, k)' = FrameAt(own, k)
  <2>1. k \in Places(own)' /\ (k > L => k - L \in 1..n)
    <3> HIDE DEF L, n
    <3> QED  BY <1>1, <1>8
  <2>2. CASE k > L
    <3>1. FrameAt(own, k)' = Append(q, frame)[k - L]  BY <1>3, <1>5, <2>2 DEF FrameAt
    <3>2. FrameAt(own, k) = q[k - L]  BY <2>2 DEF FrameAt
    <3> QED  BY <1>4, <2>1, <2>2, <3>1, <3>2
  <2>3. CASE ~(k > L)  BY <1>5, <2>1, <2>3 DEF FrameAt
  <2> QED  BY <2>2, <2>3
<1>10. ASSUME NEW k \in Places(own)', k \notin Places(own)
       PROVE  /\ \A j \in Places(own) : j < k
              /\ k = L + n + 1
              /\ FrameAt(own, k)'.n = puts + 1 /\ FrameAt(own, k)'.system = f.system
  <2>1. k = L + n + 1 /\ k > L /\ k - L = n + 1 /\ \A j \in Places(own) : j < k
    <3>1. k \in 1..(L + n + 1) /\ k \notin 1..(L + n) /\ L \in Nat /\ n \in Nat
      BY <1>1, <1>8, <1>10
    <3> HIDE DEF L, n
    <3>2. k = L + n + 1  BY <3>1
    <3> QED  BY <1>1, <1>8, <3>2
  <2>2. FrameAt(own, k)' = frame  BY <1>3, <1>4, <1>5, <2>1 DEF FrameAt
  <2> QED  BY <1>2, <2>1, <2>2
<1> QED  BY <1>0, <1>3, <1>5, <1>6, <1>7, <1>9, <1>10
-----------------------------------------------------------------------------------
\* A step that moves no frame and hands none over.
Aside == /\ sources_' = sources_ /\ Selected' = Selected /\ puts <= puts'
         /\ shared' = shared /\ mixed_dv' = mixed_dv /\ last_mixed_dv' = last_mixed_dv
         /\ FrontUsed' <=> FrontUsed
         /\ mixer_pc' \in {"sink", "monitor"} => mixer_pc \in {"sink", "monitor"} /\ m' = m

\* What the invariant needs to know of the numbers.
LEMMA Counts ==
  IInv => puts \in Nat /\ MaxFrames \in Nat /\ shared \subseteq 1..MaxFrames
BY ConstantAssumption DEF IInv, TypeOK, TypeRest

\* Most calls and most steps of the clock thread are aside.
LEMMA AsideSteps ==
  ASSUME IInv, IInv',
         \/ \E s \in Source : DropFrame(s)
         \/ \E k \in Sink : AddSink(k) \/ RemoveSink(k)
         \/ NotifyClock \/ Operator
         \/ ClockStart \/ ClockStop \/ ClockPush \/ ClockNotify
         \/ Destroy \/ UNCHANGED vars
  PROVE  Aside
<1>1. puts \in Nat /\ puts <= puts /\ puts <= puts + 1  BY Counts
<1>2. ASSUME UNCHANGED <<sources_, queue_vars, shared, mixer_vars>>,
             puts <= puts', clock_m' = clock_m, clock_pc' = "push" <=> clock_pc = "push"
      PROVE  Aside
  BY <1>2 DEF Aside, Selected, queue_vars, mixer_vars, FrontUsed, m
<1>3. ASSUME UNCHANGED <<source_vars, mixer_queue_, clock_m, holding, mixed_dv, last_mixed_dv,
                         past_vars>>,
             mixer_pc' = MixerWoken, clock_pc' = "push" <=> clock_pc = "push"
      PROVE  Aside
  <2>1. FrontUsed' <=> FrontUsed  BY <1>3 DEF FrontUsed, MixerWoken, IInv, Holds
  <2>2. mixer_pc' \in {"sink", "monitor"} => mixer_pc \in {"sink", "monitor"}
    BY <1>3 DEF MixerWoken
  <2> QED  BY <1>1, <1>3, <2>1, <2>2 DEF Aside, Selected, source_vars, past_vars, m
<1>4. ASSUME NEW s \in Source, DropFrame(s) PROVE Aside
  BY <1>1, <1>2, <1>4 DEF DropFrame, source_vars, clock_vars
<1>5. ASSUME NEW k \in Sink, AddSink(k) \/ RemoveSink(k) PROVE Aside
  BY <1>1, <1>2, <1>5 DEF AddSink, RemoveSink, source_vars, clock_vars, past_vars
<1>6. CASE NotifyClock
  <2>1. clock_pc' = "push" <=> clock_pc = "push"  BY <1>6 DEF NotifyClock, ClockWoken
  <2> QED  BY <1>1, <1>2, <1>6, <2>1 DEF NotifyClock, source_vars, past_vars
<1>7. CASE Operator
  BY <1>1, <1>2, <1>7
     DEF Operator, SetVideoMix, SetAudioSource, SetFormat, EnableRecord, Cut, clock_vars, past_vars
<1>8. CASE ClockStart \/ ClockStop
  BY <1>1, <1>2, <1>8 DEF ClockStart, ClockStop, source_vars, past_vars
<1>9. CASE ClockPush
  <2>1. /\ clock_pc = "push" /\ clock_pc' = "notify" /\ mixer_queue_' = Append(mixer_queue_, clock_m)
        /\ UNCHANGED <<source_vars, mixer_vars, past_vars>>
    BY <1>9 DEF ClockPush
  <2>2. Selected' = mixer_queue_' /\ Selected = Append(mixer_queue_, clock_m)
    <3>1. (Selected = IF clock_pc = "push" THEN Append(mixer_queue_, clock_m)
                                           ELSE mixer_queue_)'
      BY SelectedSeq, PTL
    <3> QED  BY <2>1, <3>1, SelectedSeq
  <2>3. mixer_pc \in {"sink", "monitor"} => m' = m
    BY <1>9, PushedQueue DEF IInv, Holds
  <2> QED  BY <1>1, <2>1, <2>2, <2>3 DEF Aside, source_vars, mixer_vars, past_vars, FrontUsed
<1>10. CASE ClockNotify
  BY <1>3, <1>10 DEF ClockNotify, queue_vars
<1>11. CASE Destroy
  <2>1. CASE DestroyClock
    <3>1. clock_pc' = "push" <=> clock_pc = "push"  BY <2>1 DEF DestroyClock, ClockWoken
    <3> QED  BY <1>1, <1>2, <2>1, <3>1 DEF DestroyClock, past_vars
  <2>2. CASE DestroyMixer
    BY <1>3, <2>2 DEF DestroyMixer, clock_vars
  <2>3. CASE DestroyJoin
    BY <1>1, <1>2, <2>3 DEF DestroyJoin, source_vars, clock_vars, past_vars
  <2> QED  BY <1>11, <2>1, <2>2, <2>3 DEF Destroy
<1>12. CASE UNCHANGED vars
  BY <1>1, <1>2, <1>12 DEF vars, queue_vars, mixer_vars
<1> QED  BY <1>4, <1>5, <1>6, <1>7, <1>8, <1>9, <1>10, <1>11, <1>12

\* A step that moves no frame, though a source may come or go, keeps the invariant.
LEMMA OrderStays ==
  ASSUME IInv, IInv', OrderInv, Selected' = Selected, Len(sources_) <= Len(sources_'),
         \A id \in 1..Len(sources_) : sources_'[id].frames = sources_[id].frames,
         \A id \in 1..Len(sources_') : id \notin 1..Len(sources_) => sources_'[id].frames = <<>>,
         puts <= puts', shared' = shared, FrontUsed => FrontUsed', MixedFrom'
  PROVE  OrderInv'
<1>1. Stay \in [Place -> Place] /\ \A i, j \in Place : i < j => Stay[i] < Stay[j]
  BY Moves DEF Stay, Place
<1>2. sources_' \in Seq(Slot)
  <2>1. (sources_ \in Seq(Slot))'  BY SlotSeq, PTL
  <2> QED  BY <2>1
<1>3. Moved(Stay) /\ Fits'  BY <1>2, WayStays DEF OrderInv
<1>4. FramesInOrder' /\ Numbered'  BY <1>1, <1>3, OrderMoved
<1>5. \A k \in Place : Stay[k] = 1 /\ FrontUsed => k = 1 /\ FrontUsed'  BY DEF Stay
<1>6. Unused'  BY <1>1, <1>3, <1>5, UnusedMoved
<1> QED  BY <1>3, <1>4, <1>6 DEF OrderInv

LEMMA OrderAside ==
  ASSUME IInv, IInv', OrderInv, Aside
  PROVE  OrderInv'
<1>1. MixedFrom'
  BY DEF OrderInv, MixedFrom, Aside
<1>2. Len(sources_) <= Len(sources_)  BY SlotSeq
<1> QED  BY <1>1, <1>2, OrderStays DEF Aside

\* A source that comes finds the frames of the last user of its slot, or none; one that
\* goes leaves its frames.
LEMMA SourceKeeps ==
  ASSUME IInv, NEW s \in Source, AddSource(s) \/ RemoveSource(s)
  PROVE  /\ Len(sources_) <= Len(sources_')
         /\ \A id \in 1..Len(sources_) : sources_'[id].frames = sources_[id].frames
         /\ \A id \in 1..Len(sources_') : id \notin 1..Len(sources_) => sources_'[id].frames = <<>>
<1>1. /\ sources_ \in Seq(Slot) /\ Len(sources_) \in Nat /\ DOMAIN sources_ = 1..Len(sources_)
      /\ \A id \in 1..Len(sources_) : sources_[id] \in Slot
  BY SlotSeq, ElementOfSeq
<1> DEFINE Kept ==
             /\ Len(sources_) <= Len(sources_')
             /\ \A id \in 1..Len(sources_) : sources_'[id].frames = sources_[id].frames
             /\ \A id \in 1..Len(sources_') :
                  id \notin 1..Len(sources_) => sources_'[id].frames = <<>>
<1>2. Kept
  <2>1. ASSUME NEW id \in 1..Len(sources_), NEW owner \in Source \cup {NULL},
               sources_' = [sources_ EXCEPT ![id].src = owner]
        PROVE  Kept
    <3>1. sources_[id] \in Slot  BY <1>1
    <3>2. [sources_[id] EXCEPT !.src = owner].frames = sources_[id].frames
      BY <3>1 DEF Slot
    <3>3. Len(sources_') = Len(sources_)  BY <1>1, <2>1
    <3>4. \A i \in 1..Len(sources_) : sources_'[i].frames = sources_[i].frames
      BY <1>1, <2>1, <3>2
    <3> QED  BY <1>1, <3>3, <3>4
  <2>2. CASE AddSource(s)
    <3>1. CASE Vacant # {}
      <4>1. PICK id \in Vacant : sources_' = [sources_ EXCEPT ![id].src = s]
        BY <2>2, <3>1 DEF AddSource
      <4> QED  BY <1>1, <2>1, <4>1 DEF Vacant
    <3>2. CASE Vacant = {}
      <4>1. sources_' = Append(sources_, [src |-> s, frames |-> <<>>])
        BY <2>2, <3>2 DEF AddSource
      <4>2. [src |-> s, frames |-> <<>>].frames = <<>> /\ [src |-> s, frames |-> <<>>] \in Slot
        BY DEF Slot
      <4>3. /\ Len(sources_') = Len(sources_) + 1
            /\ sources_'[Len(sources_) + 1] = [src |-> s, frames |-> <<>>]
            /\ \A id \in 1..Len(sources_) : sources_'[id] = sources_[id]
        BY <1>1, <4>1, <4>2
      <4>4. \A id \in 1..Len(sources_') : id \notin 1..Len(sources_) => id = Len(sources_) + 1
        BY <1>1, <4>3
      <4> QED  BY <1>1, <4>2, <4>3, <4>4
    <3> QED  BY <3>1, <3>2
  <2>3. CASE RemoveSource(s)
    <3>1. PICK id \in 1..Len(sources_) : id = source_id[s]
      BY <2>3, SlotOf DEF RemoveSource
    <3>2. sources_' = [sources_ EXCEPT ![id].src = NULL]  BY <2>3, <3>1 DEF RemoveSource
    <3> QED  BY <2>1, <3>2
  <2> QED  BY <2>2, <2>3
<1> QED  BY <1>2

LEMMA OrderSource ==
  ASSUME IInv, IInv', OrderInv, NEW s \in Source, AddSource(s) \/ RemoveSource(s)
  PROVE  OrderInv'
<1>3. UNCHANGED <<queue_vars, clock_vars, mixer_vars, past_vars>>
  BY DEF AddSource, RemoveSource
<1>4. Selected' = Selected /\ (FrontUsed => FrontUsed')
  BY <1>3 DEF Selected, FrontUsed, queue_vars, clock_vars, mixer_vars
<1>5. puts <= puts' /\ shared' = shared  BY <1>3, Counts DEF past_vars
<1>6. MixedFrom'  BY <1>3 DEF OrderInv, MixedFrom, m, queue_vars, mixer_vars
<1> QED  BY <1>4, <1>5, <1>6, SourceKeeps, OrderStays

\* A frame put has a number no frame had, and comes behind those of its source.
LEMMA OrderPut ==
  ASSUME IInv, IInv', OrderInv, NEW s \in Source, NEW f \in FrameFormat, QueueFrame(s, f)
  PROVE  OrderInv'
<1>1. /\ Fits' /\ Selected' = Selected /\ DOMAIN sources_' = DOMAIN sources_
      /\ \A id \in DOMAIN sources_ : \A k \in Places(id) :
           k \in Places(id)' /\ FrameAt(id, k)' = FrameAt(id, k)
      /\ \A id \in DOMAIN sources_ : \A k \in Places(id)' :
           k \notin Places(id) =>
             /\ id = source_id[s] /\ \A j \in Places(id) : j < k
             /\ k = Len(Selected) + Len(sources_[id].frames) + 1
             /\ FrameAt(id, k)'.n = puts + 1
  BY WayOfPut DEF OrderInv
<1>2. /\ puts' = puts + 1 /\ shared' = shared /\ puts \in Nat
      /\ UNCHANGED <<queue_vars, mixer_vars>>
  BY Counts DEF QueueFrame
<1>3. ASSUME NEW id \in DOMAIN sources_, NEW k \in Places(id), FrameAt(id, k) # NULL
      PROVE  FrameAt(id, k).n \in Nat /\ FrameAt(id, k).n <= puts
  <2>1. FrameAt(id, k) \in Frame  BY <1>3, FrameAtType
  <2> QED  BY <1>3, <2>1, Counts DEF Frame, OrderInv, Numbered
<1>4. ASSUME NEW id \in DOMAIN sources_', NEW k \in Places(id)', FrameAt(id, k)' # NULL
      PROVE  /\ id \in DOMAIN sources_ /\ k \in Int
             /\ \/ /\ k \in Places(id) /\ FrameAt(id, k)' = FrameAt(id, k)
                   /\ FrameAt(id, k)'.n \in Nat /\ FrameAt(id, k)'.n <= puts
                \/ /\ k \notin Places(id) /\ id = source_id[s] /\ \A j \in Places(id) : j < k
                   /\ FrameAt(id, k)'.n = puts + 1
  <2>1. k \in Int  BY DEF Places
  <2> QED  BY <1>1, <1>3, <1>4, <2>1
<1>5. Numbered'
  BY <1>2, <1>4 DEF Numbered
<1>6. FramesInOrder'
  <2> SUFFICES ASSUME NEW id \in DOMAIN sources_', NEW other \in DOMAIN sources_',
                      NEW i \in Places(id)', NEW j \in Places(other)',
                      FrameAt(id, i)' # NULL, FrameAt(other, j)' # NULL
               PROVE  IF id = other THEN i < j => FrameAt(id, i)'.n < FrameAt(other, j)'.n
                                    ELSE FrameAt(id, i)'.n # FrameAt(other, j)'.n
    BY DEF FramesInOrder
  <2>1. CASE i \in Places(id) /\ j \in Places(other)
    <3>1. IF id = other THEN i < j => FrameAt(id, i).n < FrameAt(other, j).n
                        ELSE FrameAt(id, i).n # FrameAt(other, j).n
      BY <1>4, <2>1 DEF OrderInv, FramesInOrder
    <3> QED  BY <1>4, <2>1, <3>1
  <2>2. CASE i \notin Places(id) /\ j \in Places(other)
    <3>1. id = other => j < i  BY <1>4, <2>2
    <3> QED  BY <1>2, <1>4, <2>2, <3>1
  <2>3. CASE i \in Places(id) /\ j \notin Places(other)
    BY <1>2, <1>4, <2>3
  <2>4. CASE i \notin Places(id) /\ j \notin Places(other)
    <3>1. id = other /\ i = j /\ i \in Int  BY <1>1, <1>4, <2>4
    <3> QED  BY <3>1
  <2> QED  BY <2>1, <2>2, <2>3, <2>4
<1>7. Unused'
  <2>1. shared' \subseteq 1..puts'  BY <1>2 DEF OrderInv, Unused
  <2>2. FrontUsed' = FrontUsed  BY <1>2 DEF FrontUsed, mixer_vars
  <2> QED  BY <1>2, <1>4, <2>1, <2>2 DEF OrderInv, Unused
<1>8. MixedFrom'  BY <1>2 DEF OrderInv, MixedFrom, m, queue_vars, mixer_vars
<1> QED  BY <1>1, <1>5, <1>6, <1>7, <1>8 DEF OrderInv

\* A tick and a set of frames dropped for want of room keep it.
LEMMA OrderTick ==
  ASSUME IInv, IInv', OrderInv, ClockSelect \/ ClockDrop
  PROVE  OrderInv'
<1>1. puts' = puts /\ puts <= puts' /\ shared' = shared /\ UNCHANGED <<queue_vars, mixer_vars>>
  BY Counts DEF ClockSelect, ClockDrop
<1>2. FrontUsed' = FrontUsed /\ MixedFrom'
  BY <1>1 DEF OrderInv, FrontUsed, MixedFrom, m, queue_vars, mixer_vars
<1>3. CASE ClockSelect
  <2>1. Stay \in [Place -> Place] /\ \A i, j \in Place : i < j => Stay[i] < Stay[j]
    BY Moves DEF Stay, Place
  <2>2. Moved(Stay) /\ Fits'  BY <1>3, WayOfTick DEF OrderInv
  <2>3. FramesInOrder' /\ Numbered'  BY <1>1, <2>1, <2>2, OrderMoved
  <2>4. \A k \in Place : Stay[k] = 1 /\ FrontUsed => k = 1 /\ FrontUsed'  BY <1>2 DEF Stay
  <2>5. Unused'  BY <1>1, <2>1, <2>2, <2>4, UnusedMoved
  <2> QED  BY <1>2, <2>2, <2>3, <2>5 DEF OrderInv
<1>4. CASE ClockDrop
  <2> DEFINE f == Skip(Len(mixer_queue_) + 1)
  <2>1. Moved(f) /\ Fits' /\ Len(mixer_queue_) \in Nat \ {0}  BY <1>4, WayOfDrop DEF OrderInv
  <2>2. Len(mixer_queue_) + 1 \in Place  BY <2>1 DEF Place
  <2>3. f \in [Place -> Place] /\ \A i, j \in Place : i < j => f[i] < f[j]
    BY <2>2, Moves
  <2>4. \A k \in Place : f[k] = 1 => k = 1  BY <2>1 DEF Skip, Place
  <2> HIDE DEF f
  <2>5. FramesInOrder' /\ Numbered'  BY <1>1, <2>1, <2>3, OrderMoved
  <2>6. Unused'  BY <1>1, <1>2, <2>1, <2>3, <2>4, UnusedMoved
  <2> QED  BY <1>2, <2>1, <2>5, <2>6 DEF OrderInv
<1> QED  BY <1>3, <1>4

\* The pop of the front set keeps it: of the frames on the way no one has any then.
LEMMA OrderGet ==
  ASSUME IInv, IInv', OrderInv, MixerGet
  PROVE  OrderInv'
<1>1. /\ puts' = puts /\ puts <= puts' /\ shared' = shared /\ mixer_pc = "get"
      /\ mixer_pc' \notin {"sink", "monitor"}
  BY Counts DEF MixerGet, past_vars
<1>2. MixedFrom'  BY <1>1 DEF MixedFrom
<1>3. CASE holding
  <2>1. 1 \in Place  BY DEF Place
  <2>2. Skip(1) \in [Place -> Place] /\ \A i, j \in Place : i < j => Skip(1)[i] < Skip(1)[j]
    BY <2>1, Moves
  <2>3. Moved(Skip(1)) /\ Fits'  BY <1>3, WayOfPop DEF OrderInv
  <2>4. FramesInOrder' /\ Numbered'  BY <1>1, <2>2, <2>3, OrderMoved
  <2>5. \A k \in Place : Skip(1)[k] # 1  BY DEF Skip, Place
  <2>6. Unused'  BY <1>1, <2>2, <2>3, <2>5, UnusedMoved
  <2> QED  BY <1>2, <2>3, <2>4, <2>6 DEF OrderInv
<1>4. CASE ~holding
  <2>1. sources_' = sources_ /\ Selected' = Selected /\ ~FrontUsed
    BY <1>1, <1>4 DEF MixerGet, source_vars, clock_vars, Selected, FrontUsed
  <2>2. Len(sources_) <= Len(sources_)  BY SlotSeq
  <2> QED  BY <1>1, <1>2, <2>1, <2>2, OrderStays
<1> QED  BY <1>3, <1>4

\* The set of frames the mixer thread works on is the first of those selected.
LEMMA FrontSelected ==
  ASSUME IInv, holding
  PROVE  1 \in 1..Len(Selected) /\ Selected[1] = m
<1>1. m = mixer_queue_[1] /\ Len(mixer_queue_) \in Nat \ {0}  BY Front
<1>2. CASE clock_pc = "push"
  <2>1. /\ Selected = Append(mixer_queue_, clock_m)
        /\ mixer_queue_ \in Seq(MixData) /\ clock_m \in MixData
    BY <1>2, SelectedSeq
  <2> QED  BY <1>1, <2>1
<1>3. CASE clock_pc # "push"  BY <1>1, <1>3, SelectedSeq
<1> QED  BY <1>2, <1>3

\* What the mixer thread works on is at the first place.
LEMMA FrontPlace ==
  ASSUME IInv, Fits, holding
  PROVE  \A id \in DOMAIN m.source_frames :
           id \in DOMAIN sources_ /\ 1 \in Places(id) /\ FrameAt(id, 1) = m.source_frames[id]
<1>1. Len(Selected) \in Nat /\ Len(Selected) >= 1 /\ Selected[1] = m
  BY FrontSelected, SelectedSeq
<1> SUFFICES ASSUME NEW id \in DOMAIN m.source_frames
             PROVE  /\ id \in DOMAIN sources_ /\ 1 \in Places(id)
                    /\ FrameAt(id, 1) = m.source_frames[id]
  OBVIOUS
<1>2. 1 \in 1..Len(Selected)  BY <1>1
<1>3. /\ Len(m.source_frames) <= Len(sources_) /\ Len(m.source_frames) \in Nat
      /\ DOMAIN m.source_frames = 1..Len(m.source_frames)
  BY <1>1, <1>2, SetSeq DEF Fits
<1>4. id \in DOMAIN sources_ /\ Len(sources_[id].frames) \in Nat  BY <1>3, SlotSeq
<1>5. 1 \in Places(id)
  <2> DEFINE n == Len(sources_[id].frames)
             L == Len(Selected)
  <2>1. n \in Nat /\ L \in Nat /\ L >= 1  BY <1>1, <1>4
  <2> HIDE DEF n, L
  <2>2. 1 \in 1..(L + n)  BY <2>1
  <2> QED  BY <2>2 DEF Places, n, L
<1> QED  BY <1>1, <1>4, <1>5 DEF FrameAt

\* The mixed frame is a frame of the front set, a new one or a copy of the last one, and has
\* the video system asked for or that of the last one.
LEMMA PicturedFrom ==
  ASSUME IInv, holding, Pictured # NULL
  PROVE  /\ \/ Pictured.n = 0
            \/ \E id \in DOMAIN m.source_frames :
                 m.source_frames[id] # NULL /\ Pictured.n = m.source_frames[id].n
         /\ \/ Pictured.system = m.format.system
            \/ last_mixed_dv # NULL /\ Pictured.system = last_mixed_dv.system
<1> DEFINE ids == m.settings.video_mix.ids
           one == CHOOSE id \in ids : TRUE
           frames == m.source_frames
<1>1. m.settings \in Settings /\ ids \subseteq DOMAIN frames
  BY Front DEF MixData, InRange
<1>2. one \in ids
  <2>1. ids # {}  BY <1>1 DEF Settings
  <2> QED  BY <2>1
<1>3. CASE Applied # NULL
  <2>1. \A id \in ids : Usable(id)  BY <1>3 DEF Applied
  <2>2. one \in DOMAIN frames /\ frames[one] # NULL /\ frames[one].system = m.format.system
    BY <1>1, <1>2, <2>1 DEF Usable
  <2>3. Pictured = IF m.settings.video_mix.kind = "simple"
                   THEN [n |-> frames[one].n, picture |-> {frames[one].n},
                         system |-> frames[one].system, audio |-> frames[one].n]
                   ELSE [n |-> 0, picture |-> {frames[id].n : id \in ids},
                         system |-> m.format.system, audio |-> Silence]
    BY <1>3, <2>1 DEF Pictured, Applied
  <2> HIDE DEF ids, one, frames
  <2>4. Pictured.n \in {0, frames[one].n} /\ Pictured.system = m.format.system
    BY <2>2, <2>3
  <2> QED  BY <2>2, <2>4 DEF frames
<1>4. CASE Applied = NULL
  <2>1. last_mixed_dv # NULL  BY <1>4 DEF Pictured
  <2>2. Pictured = [n |-> 0, picture |-> last_mixed_dv.picture,
                    system |-> last_mixed_dv.system, audio |-> last_mixed_dv.audio]
    BY <1>4, <2>1 DEF Pictured
  <2> QED  BY <2>1, <2>2
<1> QED  BY <1>3, <1>4

\* The making of a mixed frame keeps it.
LEMMA OrderMix ==
  ASSUME IInv, IInv', OrderInv, MixerMix
  PROVE  OrderInv'
<1>1. holding /\ mixer_pc = "mix" /\ mixer_pc' = "sink" /\ Pictured # NULL
      /\ UNCHANGED <<source_vars, queue_vars, clock_vars, past_vars>>
  BY DEF IInv, Holds, MixerMix
<1>2. mixed_dv'.n = Pictured.n  BY DEF MixerMix
<1>3. MixedFrom'  BY <1>1, <1>2, PicturedFrom DEF MixedFrom, m, queue_vars
<1>4. Selected' = Selected /\ sources_' = sources_ /\ ~FrontUsed
  BY <1>1 DEF Selected, FrontUsed, source_vars, queue_vars, clock_vars
<1>5. Len(sources_) <= Len(sources_) /\ puts <= puts' /\ shared' = shared
  BY <1>1, SlotSeq, Counts DEF past_vars
<1> QED  BY <1>3, <1>4, <1>5, OrderStays

\* So does handing frames of the front set over, to the sinks or to the window.
LEMMA OrderShared ==
  ASSUME IInv, IInv', OrderInv, MixerSink \/ MixerMonitor
  PROVE  OrderInv'
<1> DEFINE frames == m.source_frames
           given == {frames[id].n : id \in {i \in DOMAIN frames : frames[i] # NULL}}
<1>1. /\ mixer_pc \in {"sink", "monitor"} /\ holding /\ FrontUsed'
      /\ UNCHANGED <<sources_, queue_vars, clock_vars, puts>>
  BY DEF IInv, Holds, MixerSink, MixerMonitor, FrontUsed, source_vars, past_vars
<1>2. mixed_dv.n \in {0} \cup given  BY <1>1 DEF OrderInv, MixedFrom
<1>3. shared' \subseteq shared \cup given
  BY <1>2 DEF MixerSink, MixerMonitor
<1>4. Selected' = Selected /\ m' = m
  BY <1>1 DEF Selected, m, queue_vars, clock_vars
<1>5. \A id \in DOMAIN sources_ :
        Places(id)' = Places(id) /\ \A k \in Places(id) : FrameAt(id, k)' = FrameAt(id, k)
  BY <1>1, <1>4 DEF Places, FrameAt
<1>6. Fits' /\ Numbered' /\ FramesInOrder'
  BY <1>1, <1>4, <1>5 DEF OrderInv, Fits, Numbered, FramesInOrder
<1>7. ASSUME NEW x \in given
      PROVE  \E id \in DOMAIN sources_ : /\ 1 \in Places(id) /\ FrameAt(id, 1) # NULL
                                         /\ FrameAt(id, 1).n = x
  <2>1. PICK id \in DOMAIN frames : frames[id] # NULL /\ x = frames[id].n  OBVIOUS
  <2> QED  BY <1>1, <2>1, FrontPlace DEF OrderInv
<1> HIDE DEF given
<1>8. Unused'
  <2>1. shared' \subseteq 1..puts'
    <3>1. ASSUME NEW x \in given PROVE x \in 1..puts
      <4>1. PICK id \in DOMAIN sources_ : /\ 1 \in Places(id) /\ FrameAt(id, 1) # NULL
                                          /\ FrameAt(id, 1).n = x
        BY <1>7
      <4>2. x \in 1..MaxFrames  BY <4>1, FrameAtType DEF Frame
      <4>3. x <= puts  BY <4>1 DEF OrderInv, Numbered
      <4> QED  BY <4>2, <4>3, Counts
    <3> QED  BY <1>1, <1>3, <3>1 DEF OrderInv, Unused
  <2>2. ASSUME NEW id \in DOMAIN sources_, NEW k \in Places(id), FrameAt(id, k) # NULL,
               FrameAt(id, k).n \in shared \cup given
        PROVE  k = 1
    <3>1. CASE FrameAt(id, k).n \in shared  BY <2>2, <3>1 DEF OrderInv, Unused
    <3>2. CASE FrameAt(id, k).n \in given
      <4>1. PICK other \in DOMAIN sources_ :
              /\ 1 \in Places(other) /\ FrameAt(other, 1) # NULL
              /\ FrameAt(other, 1).n = FrameAt(id, k).n
        BY <1>7, <3>2
      <4>2. id = other  BY <2>2, <4>1 DEF OrderInv, FramesInOrder
      <4>3. FrameAt(id, k).n \in Nat  BY <2>2, FrameAtType, Counts DEF Frame
      <4>4. ~(1 < k)  BY <2>2, <4>1, <4>2, <4>3 DEF OrderInv, FramesInOrder
      <4>5. k \in Place  BY <2>2, FrameAtType
      <4> QED  BY <4>4, <4>5 DEF Place
    <3> QED  BY <2>2, <3>1, <3>2
  <2> QED  BY <1>1, <1>3, <1>5, <2>1, <2>2 DEF Unused
<1>9. MixedFrom'
  <2>1. CASE MixerSink  BY <1>1, <1>4, <2>1 DEF OrderInv, MixedFrom, MixerSink
  <2>2. CASE MixerMonitor  BY <2>2 DEF MixedFrom, MixerMonitor
  <2> QED  BY <2>1, <2>2
<1> QED  BY <1>6, <1>8, <1>9 DEF OrderInv

\* At the start there is no frame.
LEMMA OrderInit == Init => OrderInv
<1> SUFFICES ASSUME Init PROVE OrderInv  OBVIOUS
<1>1. DOMAIN sources_ = {} /\ shared = {} /\ mixer_pc = "get"  BY DEF Init
<1>2. Len(Selected) = 0  BY DEF Init, Selected
<1> QED  BY <1>1, <1>2 DEF OrderInv, Fits, Numbered, FramesInOrder, Unused, MixedFrom

\* Every step keeps the order.
LEMMA OrderNext ==
  ASSUME IInv, IInv', OrderInv, [Next]_vars
  PROVE  OrderInv'
<1>1. CASE Server
  BY <1>1, OrderSource, OrderPut, OrderAside, AsideSteps DEF Server
<1>2. CASE Clock
  BY <1>2, OrderTick, OrderAside, AsideSteps DEF Clock
<1>3. CASE MixerThread
  BY <1>3, OrderGet, OrderMix, OrderShared DEF MixerThread
<1>4. CASE Operator \/ Destroy \/ UNCHANGED vars
  BY <1>4, OrderAside, AsideSteps
<1> QED  BY <1>1, <1>2, <1>3, <1>4 DEF Next

\* The frames on the way keep their places and their owners.
THEOREM OrderInvariance == Spec => [](IInv /\ OrderInv)
<1>1. Init => IInv /\ OrderInv  BY InitInv, OrderInit
<1>2. IInv /\ OrderInv /\ [Next]_vars => (IInv /\ OrderInv)'  BY NextInv, OrderNext
<1> QED  BY <1>1, <1>2, PTL DEF Spec

\* No frame is mixed before one put earlier by its source, nor twice, whichever sources share
\* a slot and wherever sets of frames are dropped.
THEOREM FramesKeepOrder == Spec => []FramesInOrder
<1>1. OrderInv => FramesInOrder  BY DEF OrderInv
<1> QED  BY <1>1, OrderInvariance, PTL

\* The mixer thread numbers, and dubs, only frames that neither a sink nor the window has.
THEOREM SharedKept == Spec => []SharedUntouched
<1>1. ASSUME IInv, OrderInv PROVE SharedUntouched
  <2> SUFFICES ASSUME mixer_pc = "sink"
               PROVE  /\ mixed_dv.n \notin shared
                      /\ \A id \in DOMAIN m.source_frames :
                           m.source_frames[id] # NULL => m.source_frames[id].n \notin shared
    BY DEF SharedUntouched
  <2>1. holding /\ ~FrontUsed  BY <1>1 DEF IInv, Holds, FrontUsed
  <2>2. \A id \in DOMAIN m.source_frames :
          m.source_frames[id] # NULL => m.source_frames[id].n \notin shared
    BY <1>1, <2>1, FrontPlace DEF OrderInv, Unused
  <2>3. 0 \notin shared  BY <1>1, Counts
  <2> QED  BY <1>1, <2>2, <2>3 DEF OrderInv, MixedFrom
<1>2. IInv /\ OrderInv => SharedUntouched  BY <1>1
<1> QED  BY <1>2, OrderInvariance, PTL
-----------------------------------------------------------------------------------
\* While the operator leaves the format alone, there is one video system: that of the
\* settings, of every set of frames selected and of the output.
SystemSet ==
  ~reformatted =>
    /\ \A k \in 1..Len(Selected) : Selected[k].format.system = format_.system
    /\ Len(Selected) > 0 \/ clock_state_ = "run" => format_.system # NULL
    /\ last_mixed_dv # NULL => last_mixed_dv.system = format_.system

\* At the start no set is selected and nothing is mixed.
LEMMA SystemInit == Init => SystemSet
<1> SUFFICES ASSUME Init PROVE SystemSet  OBVIOUS
<1>1. Len(Selected) = 0  BY DEF Init, Selected
<1> QED  BY <1>1 DEF Init, SystemSet

\* A frame put selects the system only when none has been selected.
LEMMA SystemPut ==
  ASSUME IInv, IInv', SystemSet, Selected' = Selected,
         NEW s \in Source, NEW f \in FrameFormat, QueueFrame(s, f)
  PROVE  SystemSet'
<1>1. /\ \/ format_' = format_ /\ clock_state_' = clock_state_ /\ clock_state_ # "run"
         \/ format_' = AutoSelected(f)
      /\ last_mixed_dv' = last_mixed_dv /\ reformatted' = reformatted
  BY DEF QueueFrame, mixer_vars
<1>2. CASE format_' = format_ /\ clock_state_' = clock_state_
  BY <1>1, <1>2 DEF SystemSet
<1>3. CASE format_' = AutoSelected(f)
  <2>1. /\ format_'.system = IF format_.system = NULL THEN f.system ELSE format_.system
        /\ f.system # NULL
    BY <1>3, ConstantAssumption DEF AutoSelected
  <2>2. last_mixed_dv # NULL => last_mixed_dv.system # NULL
    BY ConstantAssumption DEF IInv, TypeOK, TypeMixer, Mixed
  <2>3. \A k \in 1..Len(Selected) : Len(Selected) > 0  BY SelectedSeq
  <2> QED  BY <1>1, <2>1, <2>2, <2>3 DEF SystemSet
<1> QED  BY <1>1, <1>2, <1>3

\* Every step keeps to the one system.
LEMMA SystemNext ==
  ASSUME IInv, IInv', SystemSet, [Next]_vars
  PROVE  SystemSet'
<1>1. ASSUME UNCHANGED <<format_, reformatted, last_mixed_dv>>, Selected' = Selected,
             clock_state_' = "run" => clock_state_ = "run"
      PROVE  SystemSet'
  BY <1>1 DEF SystemSet
<1>2. ASSUME Aside, UNCHANGED <<format_, reformatted>>,
             clock_state_' = "run" => clock_state_ = "run"
      PROVE  SystemSet'
  BY <1>1, <1>2 DEF Aside
<1>3. CASE Server
  <2>1. ASSUME NEW s \in Source, AddSource(s) \/ RemoveSource(s) PROVE SystemSet'
    <3>1. UNCHANGED <<format_, clock_state_, queue_vars, clock_vars, mixer_vars, past_vars>>
      BY <2>1 DEF AddSource, RemoveSource
    <3> QED  BY <1>1, <3>1 DEF Selected, queue_vars, clock_vars, mixer_vars, past_vars
  <2>2. ASSUME NEW s \in Source, DropFrame(s) PROVE SystemSet'
    <3>1. Aside  BY <2>2, AsideSteps
    <3> QED  BY <1>2, <2>2, <3>1 DEF DropFrame, source_vars
  <2>3. ASSUME NEW s \in Source, NEW f \in FrameFormat, QueueFrame(s, f) PROVE SystemSet'
    <3>1. Selected' = Selected  BY <2>3 DEF QueueFrame, Selected, queue_vars, clock_vars
    <3> QED  BY <2>3, <3>1, SystemPut
  <2>4. ASSUME NEW k \in Sink, AddSink(k) \/ RemoveSink(k) PROVE SystemSet'
    <3>1. Aside  BY <2>4, AsideSteps
    <3> QED  BY <1>2, <2>4, <3>1 DEF AddSink, RemoveSink, source_vars, past_vars
  <2>5. CASE NotifyClock
    <3>1. Aside  BY <2>5, AsideSteps
    <3> QED  BY <1>2, <2>5, <3>1 DEF NotifyClock, source_vars, past_vars
  <2> QED  BY <1>3, <2>1, <2>2, <2>3, <2>4, <2>5 DEF Server
<1>4. CASE Operator
  <2>1. ASSUME NEW f \in Format, SetFormat(f) PROVE SystemSet'
    BY <2>1 DEF SetFormat, SystemSet
  <2>2. ASSUME ~\E f \in Format : SetFormat(f) PROVE SystemSet'
    <3>1. Aside  BY <1>4, AsideSteps
    <3>2. UNCHANGED <<format_, reformatted, clock_state_>>
      BY <1>4, <2>2 DEF Operator, SetVideoMix, SetAudioSource, EnableRecord, Cut, past_vars
    <3> QED  BY <1>2, <3>1, <3>2
  <2> QED  BY <2>1, <2>2
<1>5. CASE ClockStart \/ ClockStop \/ ClockPush \/ ClockNotify
  <2>1. Aside  BY <1>5, AsideSteps
  <2> QED  BY <1>2, <1>5, <2>1
           DEF ClockStart, ClockStop, ClockPush, ClockNotify, source_vars, past_vars
<1>6. CASE ClockSelect
  <2>1. /\ UNCHANGED <<format_, clock_state_, reformatted, last_mixed_dv>>
        /\ clock_state_ = "run"
    BY <1>6 DEF ClockSelect, mixer_vars, IInv, Ranges, Ticking, TypeOK, TypeSource, RunState
  <2>2. /\ Selected' = Append(Selected, Selection) /\ Selection.format = format_
        /\ Selected \in Seq(MixData) /\ Selection \in MixData /\ Len(Selected) \in Nat
    BY <1>6, SelectedTick, SelectedSeq DEF Selection
  <2> HIDE DEF Selection
  <2>3. /\ Len(Selected') = Len(Selected) + 1 /\ Selected'[Len(Selected) + 1] = Selection
        /\ \A k \in 1..Len(Selected) : Selected'[k] = Selected[k]
    BY <2>2
  <2>4. \A k \in 1..Len(Selected') : k \in 1..Len(Selected) \/ k = Len(Selected) + 1
    BY <2>2, <2>3
  <2> QED  BY <2>1, <2>2, <2>3, <2>4 DEF SystemSet
<1>7. CASE ClockDrop
  <2>1. UNCHANGED <<format_, clock_state_, reformatted, last_mixed_dv>>
    BY <1>7 DEF ClockDrop, mixer_vars, source_vars
  <2>2. /\ Selected = Append(Selected', clock_m) /\ Selected' \in Seq(MixData)
        /\ clock_m \in MixData
    BY <1>7, SelectedDrop, SelectedSeq
  <2>3. /\ Len(Selected) = Len(Selected') + 1 /\ Len(Selected') \in Nat
        /\ \A k \in 1..Len(Selected') : Selected'[k] = Selected[k] /\ k \in 1..Len(Selected)
    BY <2>2
  <2>4. Len(Selected') > 0 => Len(Selected) > 0  BY <2>3
  <2> QED  BY <2>1, <2>3, <2>4 DEF SystemSet
<1>8. CASE MixerGet
  <2>1. UNCHANGED <<format_, clock_state_, reformatted, last_mixed_dv>>
    BY <1>8 DEF MixerGet, past_vars, source_vars
  <2>2. CASE holding
    <3>1. Selected' = Tail(Selected) /\ Selected # <<>> /\ Selected \in Seq(MixData)
      BY <1>8, <2>2, SelectedPop, SelectedSeq
    <3>2. /\ Len(Selected) = Len(Selected') + 1 /\ Len(Selected') \in Nat
          /\ \A k \in 1..Len(Selected') :
               Selected'[k] = Selected[k + 1] /\ k + 1 \in 1..Len(Selected)
      BY <3>1
    <3>3. Len(Selected) > 0  BY <3>2
    <3> QED  BY <2>1, <3>2, <3>3 DEF SystemSet
  <2>3. CASE ~holding
    BY <1>1, <1>8, <2>1, <2>3, SelectedPop
  <2> QED  BY <2>2, <2>3
<1>9. CASE MixerMix
  <2>1. /\ holding /\ Pictured # NULL /\ last_mixed_dv'.system = Pictured.system
        /\ UNCHANGED <<source_vars, queue_vars, clock_vars, reformatted>>
    BY <1>9 DEF MixerMix, IInv, Holds, past_vars
  <2>2. Selected' = Selected /\ UNCHANGED <<format_, clock_state_>>
    BY <2>1 DEF Selected, source_vars, queue_vars, clock_vars
  <2>3. 1 \in 1..Len(Selected) /\ Selected[1] = m  BY <2>1, FrontSelected
  <2> QED  BY <2>1, <2>2, <2>3, PicturedFrom DEF SystemSet
<1>10. CASE MixerSink \/ MixerMonitor
  <2>1. UNCHANGED <<source_vars, queue_vars, clock_vars, reformatted, last_mixed_dv>>
    BY <1>10 DEF MixerSink, MixerMonitor
  <2> QED  BY <1>1, <2>1 DEF Selected, source_vars, queue_vars, clock_vars
<1>11. CASE Destroy
  <2>1. Aside  BY <1>11, AsideSteps
  <2>2. UNCHANGED <<format_, reformatted>> /\ (clock_state_' = "run" => clock_state_ = "run")
    BY <1>11 DEF Destroy, DestroyClock, DestroyMixer, DestroyJoin, source_vars, past_vars
  <2> QED  BY <1>2, <2>1, <2>2
<1>12. CASE UNCHANGED vars
  <2>1. Aside  BY <1>12, AsideSteps
  <2> QED  BY <1>2, <1>12, <2>1 DEF vars
<1> QED  BY <1>3, <1>4, <1>5, <1>6, <1>7, <1>8, <1>9, <1>10, <1>11, <1>12
         DEF Next, Clock, MixerThread

\* The output changes its video system only when the operator has chosen a format, and then
\* only to the system of the settings of the tick.
THEOREM SystemKeeps == Spec => SystemKept
<1> DEFINE A == last_mixed_dv # NULL /\ last_mixed_dv'.system # last_mixed_dv.system
                  => reformatted /\ last_mixed_dv'.system = m.format.system
<1>1. ASSUME IInv, SystemSet, [Next]_vars PROVE [A]_last_mixed_dv
  <2> SUFFICES ASSUME last_mixed_dv # NULL, last_mixed_dv'.system # last_mixed_dv.system
               PROVE  reformatted /\ last_mixed_dv'.system = m.format.system
    OBVIOUS
  <2>1. MixerMix
    <3>1. ~MixerMix => last_mixed_dv' = last_mixed_dv
      <4>1. Server => last_mixed_dv' = last_mixed_dv
        BY DEF Server, AddSource, RemoveSource, DropFrame, QueueFrame, AddSink, RemoveSink,
           NotifyClock, mixer_vars
      <4>2. Operator => last_mixed_dv' = last_mixed_dv
        BY DEF Operator, SetVideoMix, SetAudioSource, SetFormat, EnableRecord, Cut, mixer_vars
      <4>3. Clock => last_mixed_dv' = last_mixed_dv
        BY DEF Clock, ClockStart, ClockStop, ClockSelect, ClockPush, ClockNotify, ClockDrop,
           mixer_vars
      <4>4. MixerThread /\ ~MixerMix => last_mixed_dv' = last_mixed_dv
        BY DEF MixerThread, MixerGet, MixerSink, MixerMonitor
      <4>5. Destroy => last_mixed_dv' = last_mixed_dv
        BY DEF Destroy, DestroyClock, DestroyMixer, DestroyJoin, mixer_vars
      <4> QED  BY <1>1, <4>1, <4>2, <4>3, <4>4, <4>5 DEF Next, vars
    <3> QED  BY <3>1
  <2>2. holding /\ Pictured # NULL /\ last_mixed_dv'.system = Pictured.system
    BY <1>1, <2>1 DEF MixerMix, IInv, Holds
  <2>3. last_mixed_dv'.system = m.format.system  BY <1>1, <2>2, PicturedFrom
  <2>4. 1 \in 1..Len(Selected) /\ Selected[1] = m  BY <1>1, <2>2, FrontSelected
  <2> QED  BY <1>1, <2>3, <2>4 DEF SystemSet
<1>2. IInv /\ SystemSet /\ [Next]_vars => [A]_last_mixed_dv  BY <1>1
<1>3. Init => IInv /\ SystemSet  BY InitInv, SystemInit
<1>4. IInv /\ SystemSet /\ [Next]_vars => (IInv /\ SystemSet)'  BY NextInv, SystemNext
<1> QED  BY <1>2, <1>3, <1>4, PTL DEF Spec, SystemKept
-----------------------------------------------------------------------------------
\* Until the first frame is mixed, the mix is the one of source 1 alone, and the first tick
\* has, or will find, a frame of it; a frame is shown, or its set popped, once it is mixed.
FirstFrame ==
  /\ shown \/ FrontUsed \/ mixer_pc = "sink" => last_mixed_dv # NULL
  /\ last_mixed_dv = NULL =>
       /\ settings_.video_mix = Simple(1)
       /\ \A k \in 1..Len(Selected) : Selected[k].settings.video_mix = Simple(1)
       /\ Len(Selected) > 0 => Selected[1].source_frames[1] # NULL
       /\ Len(Selected) = 0 /\ clock_state_ = "run" => sources_[1].frames # <<>>

\* There is no set of frames at the start.
LEMMA FirstInit == Init => FirstFrame
<1> SUFFICES ASSUME Init PROVE FirstFrame  OBVIOUS
<1>1. Len(Selected) = 0  BY DEF Init, Selected
<1>2. ~shown /\ mixer_pc = "get" /\ ~holding /\ clock_state_ = "wait"
      /\ settings_.video_mix = Simple(1)
  BY DEF Init
<1> QED  BY <1>1, <1>2 DEF FirstFrame, FrontUsed

\* A step that selects nothing, takes nothing and does not start the clock keeps it.
LEMMA FirstStays ==
  ASSUME IInv, FirstFrame, Selected' = Selected, FrontUsed' <=> FrontUsed,
         mixer_pc' = "sink" => mixer_pc \in {"sink", "monitor"},
         last_mixed_dv' = last_mixed_dv, shown' = shown,
         settings_'.video_mix = settings_.video_mix,
         clock_state_' = "run" => clock_state_ = "run",
         1 \in 1..Len(sources_) => sources_'[1].frames = sources_[1].frames
  PROVE  FirstFrame'
<1>1. clock_state_ = "run" => 1 \in 1..Len(sources_)
  BY SlotSeq DEF IInv, Ranges
<1>2. mixer_pc = "monitor" => FrontUsed  BY DEF FrontUsed
<1> QED  BY <1>1, <1>2 DEF FirstFrame

\* Frames put do not take away the first, and the one that starts the clock is of source 1.
LEMMA FirstPut ==
  ASSUME IInv, IInv', FirstFrame, NEW s \in Source, NEW f \in FrameFormat, QueueFrame(s, f)
  PROVE  FirstFrame'
<1>1. /\ UNCHANGED <<settings_, mixer_vars, shown>> /\ Selected' = Selected
      /\ (FrontUsed' <=> FrontUsed)
  BY DEF QueueFrame, Selected, FrontUsed, queue_vars, clock_vars, mixer_vars
<1>2. PICK id \in DOMAIN sources_ : id = source_id[s]
  BY SlotOf, SlotSeq DEF QueueFrame
<1>3. PICK frame : sources_' = [sources_ EXCEPT ![id].frames = Append(sources_[id].frames, frame)]
  BY <1>2 DEF QueueFrame
<1>4. \A i \in DOMAIN sources_ : /\ i = id => sources_'[i].frames = Append(sources_[id].frames, frame)
                                 /\ i # id => sources_'[i].frames = sources_[i].frames
  <2>1. sources_[id] \in Slot  BY <1>2, SlotSeq, ElementOfSeq
  <2>2. sources_'[id] = [sources_[id] EXCEPT !.frames = Append(sources_[id].frames, frame)]
    BY <1>2, <1>3
  <2>3. sources_'[id].frames = Append(sources_[id].frames, frame)  BY <2>1, <2>2 DEF Slot
  <2> QED  BY <1>2, <1>3, <2>3
<1>5. Append(sources_[id].frames, frame) # <<>>  BY <1>2, SlotSeq
<1>6. clock_state_' = "run" => 1 \in DOMAIN sources_ /\ (clock_state_ = "run" \/ id = 1)
  <2>1. clock_state_' = "run" => clock_state_ = "run" \/ id = 1
    BY <1>2 DEF QueueFrame, Starts
  <2>2. clock_state_ = "run" => 1 \in DOMAIN sources_  BY SlotSeq DEF IInv, Ranges
  <2> QED  BY <1>2, <2>1, <2>2
<1>7. last_mixed_dv = NULL /\ Len(Selected) = 0 /\ clock_state_' = "run"
        => sources_'[1].frames # <<>>
  <2>1. CASE id = 1  BY <1>4, <1>5, <1>6, <2>1
  <2>2. CASE id # 1  BY <1>4, <1>6, <2>2 DEF FirstFrame
  <2> QED  BY <2>1, <2>2
<1> QED  BY <1>1, <1>7 DEF FirstFrame, mixer_vars

\* The first tick takes a frame of source 1.
LEMMA FirstTick ==
  ASSUME IInv, IInv', FirstFrame, ClockSelect
  PROVE  FirstFrame'
<1>1. /\ clock_state_ = "run" /\ UNCHANGED <<mixer_vars, shown>> /\ (FrontUsed' <=> FrontUsed)
      /\ settings_'.video_mix = settings_.video_mix
  BY DEF ClockSelect, FrontUsed, mixer_vars, IInv, Ranges, Ticking, TypeOK, TypeSource,
     RunState, Settings
<1>2. /\ Selected' = Append(Selected, Selection) /\ Selection.settings = settings_
      /\ Selected \in Seq(MixData) /\ Selection \in MixData /\ Len(Selected) \in Nat
  BY SelectedTick, SelectedSeq DEF Selection
<1>3. 1 \in DOMAIN sources_ /\ sources_[1].frames \in Seq(Frame)
  BY <1>1, SlotSeq DEF IInv, Ranges
<1>4. sources_[1].frames # <<>> => Selection.source_frames[1] # NULL
  <2>1. Selection.source_frames[1] = Taken(sources_[1])  BY <1>3 DEF Selection
  <2>2. sources_[1].frames # <<>> => Head(sources_[1].frames) \in Frame  BY <1>3
  <2> QED  BY <2>1, <2>2, NullAssumption DEF Taken
<1> HIDE DEF Selection
<1>5. /\ Len(Selected') = Len(Selected) + 1 /\ Selected'[Len(Selected) + 1] = Selection
      /\ \A k \in 1..Len(Selected) : Selected'[k] = Selected[k]
  BY <1>2
<1>6. \A k \in 1..Len(Selected') : k \in 1..Len(Selected) \/ k = Len(Selected) + 1
  BY <1>2, <1>5
<1>7. last_mixed_dv = NULL => Selected'[1].source_frames[1] # NULL
  <2>1. CASE Len(Selected) = 0  BY <1>1, <1>4, <1>5, <2>1 DEF FirstFrame
  <2>2. CASE Len(Selected) > 0
    <3>1. 1 \in 1..Len(Selected)  BY <1>2, <2>2
    <3> QED  BY <1>5, <2>2, <3>1 DEF FirstFrame
  <2> QED  BY <1>2, <2>1, <2>2
<1>8. Len(Selected') # 0  BY <1>2, <1>5
<1> QED  BY <1>1, <1>2, <1>5, <1>6, <1>7, <1>8 DEF FirstFrame, mixer_vars

\* Every set that comes to the front before a frame is mixed has one to mix.
LEMMA FirstNext ==
  ASSUME IInv, IInv', FirstFrame, [Next]_vars
  PROVE  FirstFrame'
<1>1. ASSUME Aside, shown' = shown, settings_'.video_mix = settings_.video_mix,
             clock_state_' = "run" => clock_state_ = "run"
      PROVE  FirstFrame'
  BY <1>1, FirstStays DEF Aside
<1>2. CASE Server
  <2>1. ASSUME NEW s \in Source, AddSource(s) \/ RemoveSource(s) PROVE FirstFrame'
    <3>1. UNCHANGED <<settings_, clock_state_, queue_vars, clock_vars, mixer_vars, past_vars>>
      BY <2>1 DEF AddSource, RemoveSource
    <3>2. 1 \in 1..Len(sources_) => sources_'[1].frames = sources_[1].frames
      BY <2>1, SourceKeeps
    <3> QED  BY <3>1, <3>2, FirstStays
             DEF Selected, FrontUsed, queue_vars, clock_vars, mixer_vars, past_vars
  <2>2. ASSUME NEW s \in Source, DropFrame(s) PROVE FirstFrame'
    <3>1. Aside  BY <2>2, AsideSteps
    <3> QED  BY <1>1, <2>2, <3>1 DEF DropFrame, source_vars
  <2>3. ASSUME NEW s \in Source, NEW f \in FrameFormat, QueueFrame(s, f) PROVE FirstFrame'
    BY <2>3, FirstPut
  <2>4. ASSUME NEW k \in Sink, AddSink(k) \/ RemoveSink(k) PROVE FirstFrame'
    <3>1. Aside  BY <2>4, AsideSteps
    <3> QED  BY <1>1, <2>4, <3>1 DEF AddSink, RemoveSink, source_vars, past_vars
  <2>5. CASE NotifyClock
    <3>1. Aside  BY <2>5, AsideSteps
    <3> QED  BY <1>1, <2>5, <3>1 DEF NotifyClock, source_vars, past_vars
  <2> QED  BY <1>2, <2>1, <2>2, <2>3, <2>4, <2>5 DEF Server
<1>3. CASE Operator
  <2>1. Aside  BY <1>3, AsideSteps
  <2>2. shown' = shown /\ clock_state_' = clock_state_
    BY <1>3 DEF Operator, SetVideoMix, SetAudioSource, SetFormat, EnableRecord, Cut, past_vars
  <2>3. CASE \E mix \in VideoMix : SetVideoMix(mix)
    <3>1. last_mixed_dv # NULL  BY <2>3 DEF SetVideoMix, FirstFrame
    <3> QED  BY <2>1, <2>2, <3>1 DEF FirstFrame, Aside
  <2>4. CASE ~\E mix \in VideoMix : SetVideoMix(mix)
    <3>1. settings_'.video_mix = settings_.video_mix
      BY <1>3, <2>4 DEF Operator, SetAudioSource, SetFormat, EnableRecord, Cut, IInv, TypeOK,
         TypeSource, Settings
    <3> QED  BY <1>1, <2>1, <2>2, <3>1
  <2> QED  BY <2>3, <2>4
<1>4. CASE ClockStart \/ ClockStop \/ ClockPush \/ ClockNotify
  <2>1. Aside  BY <1>4, AsideSteps
  <2> QED  BY <1>1, <1>4, <2>1
           DEF ClockStart, ClockStop, ClockPush, ClockNotify, source_vars, past_vars
<1>5. CASE ClockSelect  BY <1>5, FirstTick
<1>6. CASE ClockDrop
  <2>1. UNCHANGED <<settings_, clock_state_, mixer_vars, shown, sources_>>
        /\ (FrontUsed' <=> FrontUsed)
    BY <1>6 DEF ClockDrop, mixer_vars, source_vars, FrontUsed
  <2>2. /\ Selected = Append(Selected', clock_m) /\ Selected' \in Seq(MixData)
        /\ clock_m \in MixData /\ Len(Selected') \in Nat \ {0}
    <3>1. Len(mixer_queue_) \in Nat \ {0}
      BY <1>6, SelectedSeq, ConstantAssumption DEF ClockDrop
    <3> QED  BY <1>6, <3>1, SelectedDrop, SelectedSeq
  <2>3. /\ Len(Selected) > 0 /\ 1 \in 1..Len(Selected')
        /\ \A k \in 1..Len(Selected') : Selected'[k] = Selected[k] /\ k \in 1..Len(Selected)
    BY <2>2
  <2>4. Len(Selected') # 0  BY <2>2
  <2> QED  BY <2>1, <2>3, <2>4 DEF FirstFrame, mixer_vars
<1>7. CASE MixerGet
  <2>1. UNCHANGED <<source_vars, shown, last_mixed_dv>> /\ ~FrontUsed' /\ mixer_pc' # "sink"
    BY <1>7 DEF MixerGet, past_vars, FrontUsed
  <2>2. CASE holding
    <3>1. last_mixed_dv # NULL  BY <1>7, <2>2 DEF MixerGet, FirstFrame, FrontUsed
    <3> QED  BY <2>1, <3>1 DEF FirstFrame
  <2>3. CASE ~holding
    <3>1. ~FrontUsed /\ Selected' = Selected
      BY <1>7, <2>3, SelectedPop DEF MixerGet, FrontUsed
    <3> QED  BY <2>1, <3>1, FirstStays DEF source_vars
  <2> QED  BY <2>2, <2>3
<1>8. CASE MixerMix
  <2>1. last_mixed_dv' # NULL
    <3>1. mixer_pc' = "sink" /\ last_mixed_dv' = mixed_dv'  BY <1>8 DEF MixerMix
    <3>2. (mixer_pc \in {"sink", "monitor"} => mixed_dv \in Mixed)'
      BY DEF IInv, TypeOK, TypeMixer
    <3> QED  BY <3>1, <3>2, NullAssumption
  <2> QED  BY <2>1 DEF FirstFrame
<1>9. CASE MixerSink \/ MixerMonitor
  <2>1. last_mixed_dv # NULL
    BY <1>9 DEF MixerSink, MixerMonitor, FirstFrame, FrontUsed
  <2>2. last_mixed_dv' = last_mixed_dv  BY <1>9 DEF MixerSink, MixerMonitor
  <2> QED  BY <2>1, <2>2 DEF FirstFrame
<1>10. CASE Destroy
  <2>1. Aside  BY <1>10, AsideSteps
  <2>2. UNCHANGED <<settings_, shown>> /\ (clock_state_' = "run" => clock_state_ = "run")
    BY <1>10 DEF Destroy, DestroyClock, DestroyMixer, DestroyJoin, source_vars, past_vars
  <2> QED  BY <1>1, <2>1, <2>2
<1>11. CASE UNCHANGED vars
  <2>1. Aside  BY <1>11, AsideSteps
  <2> QED  BY <1>1, <1>11, <2>1 DEF vars
<1> QED  BY <1>2, <1>3, <1>4, <1>5, <1>6, <1>7, <1>8, <1>9, <1>10, <1>11
         DEF Next, Clock, MixerThread
-----------------------------------------------------------------------------------
\* All frames on the way, and the settings, are of one video system.
Alike(sys) ==
  /\ \A id \in DOMAIN sources_ : \A k \in Places(id) :
       FrameAt(id, k) # NULL => FrameAt(id, k).system = sys
  /\ ~reformatted => format_.system \in {NULL, sys}

\* Every step but a put_frame only moves frames.
LEMMA WayNext ==
  ASSUME IInv, IInv', Fits, [Next]_vars, ~\E s \in Source, f \in FrameFormat : QueueFrame(s, f)
  PROVE  \E f \in [Place -> Place] : Moved(f)
<1>1. Stay \in [Place -> Place]  BY DEF Stay, Place
<1>2. ASSUME Selected' = Selected, sources_' = sources_ PROVE Moved(Stay)
  <2>1. sources_' \in Seq(Slot) /\ Len(sources_) <= Len(sources_')  BY <1>2, SlotSeq
  <2> QED  BY <1>2, <2>1, WayStays
<1>3. CASE ClockSelect  BY <1>1, <1>3, WayOfTick
<1>4. CASE ClockDrop
  <2>1. Moved(Skip(Len(mixer_queue_) + 1)) /\ Len(mixer_queue_) + 1 \in Place
    BY <1>4, WayOfDrop DEF Place
  <2> QED  BY <2>1, Moves
<1>5. CASE MixerGet
  <2>1. CASE holding
    <3>1. Moved(Skip(1)) /\ 1 \in Place  BY <1>5, <2>1, WayOfPop DEF Place
    <3> QED  BY <3>1, Moves
  <2>2. CASE ~holding
    <3>1. Selected' = Selected /\ sources_' = sources_
      BY <1>5, <2>2, SelectedPop DEF MixerGet, source_vars
    <3> QED  BY <1>1, <1>2, <3>1
  <2> QED  BY <2>1, <2>2
<1>6. ASSUME NEW s \in Source, AddSource(s) \/ RemoveSource(s)
      PROVE  Moved(Stay)
  <2>1. Selected' = Selected
    BY <1>6 DEF AddSource, RemoveSource, Selected, queue_vars, clock_vars
  <2>2. (sources_ \in Seq(Slot))'  BY SlotSeq, PTL
  <2> QED  BY <1>6, <2>1, <2>2, SourceKeeps, WayStays
<1>7. CASE MixerMix \/ MixerSink \/ MixerMonitor
  <2>1. Selected' = Selected /\ sources_' = sources_
    BY <1>7 DEF MixerMix, MixerSink, MixerMonitor, Selected, source_vars, queue_vars, clock_vars
  <2> QED  BY <1>1, <1>2, <2>1
<1>8. ASSUME Aside PROVE Moved(Stay)  BY <1>2, <1>8 DEF Aside
<1> QED
  BY <1>1, <1>3, <1>4, <1>5, <1>6, <1>7, <1>8, AsideSteps DEF Next, Server, Clock, MixerThread

\* No step brings in another system, as long as the operator sets no format.
LEMMA AlikeNext ==
  ASSUME NEW sys \in System, \A f \in FrameFormat : f.system = sys,
         IInv, IInv', Fits, Alike(sys), [Next]_vars
  PROVE  Alike(sys)'
<1>1. CASE \E s \in Source, f \in FrameFormat : QueueFrame(s, f)
  <2>1. PICK s \in Source, f \in FrameFormat : QueueFrame(s, f)  BY <1>1
  <2>2. /\ DOMAIN sources_' = DOMAIN sources_
        /\ \A id \in DOMAIN sources_ : \A k \in Places(id) :
             k \in Places(id)' /\ FrameAt(id, k)' = FrameAt(id, k)
        /\ \A id \in DOMAIN sources_ : \A k \in Places(id)' :
             k \notin Places(id) => FrameAt(id, k)'.system = f.system
    BY <2>1, WayOfPut
  <2>3. format_' \in {format_, AutoSelected(f)} /\ reformatted' = reformatted
    BY <2>1 DEF QueueFrame
  <2>4. AutoSelected(f).system \in {f.system, format_.system}  BY DEF AutoSelected
  <2> QED  BY <2>2, <2>3, <2>4 DEF Alike
<1>2. CASE ~\E s \in Source, f \in FrameFormat : QueueFrame(s, f)
  <2>1. PICK f \in [Place -> Place] : Moved(f)  BY <1>2, WayNext
  <2>2. reformatted' \/ (format_' = format_ /\ reformatted' = reformatted)
    <3>1. Server => format_' = format_ /\ reformatted' = reformatted
      BY <1>2 DEF Server, AddSource, RemoveSource, DropFrame, AddSink, RemoveSink, NotifyClock,
         source_vars, past_vars
    <3>2. Operator => reformatted' \/ (format_' = format_ /\ reformatted' = reformatted)
      BY DEF Operator, SetVideoMix, SetAudioSource, SetFormat, EnableRecord, Cut, past_vars
    <3>3. Clock => format_' = format_ /\ reformatted' = reformatted
      BY DEF Clock, ClockStart, ClockStop, ClockSelect, ClockPush, ClockNotify, ClockDrop,
         source_vars, past_vars
    <3>4. MixerThread => format_' = format_ /\ reformatted' = reformatted
      BY DEF MixerThread, MixerGet, MixerMix, MixerSink, MixerMonitor, source_vars, past_vars
    <3>5. Destroy => format_' = format_ /\ reformatted' = reformatted
      BY DEF Destroy, DestroyClock, DestroyMixer, DestroyJoin, source_vars, past_vars
    <3> QED  BY <3>1, <3>2, <3>3, <3>4, <3>5 DEF Next, vars
  <2> QED  BY <2>1, <2>2 DEF Alike, Moved
<1> QED  BY <1>1, <1>2

\* What the mixer makes of the first tick is a picture.
LEMMA FirstPictured ==
  ASSUME NEW sys \in System, IInv, Fits, SystemSet, FirstFrame, Alike(sys),
         ~reformatted, mixer_pc = "mix", last_mixed_dv = NULL
  PROVE  Pictured # NULL
<1>1. holding  BY DEF IInv, Holds
<1>2. 1 \in 1..Len(Selected) /\ Selected[1] = m  BY <1>1, FrontSelected
<1>3. m \in MixData /\ InRange(m)  BY <1>1, Front
<1>4. Len(Selected) > 0  BY <1>2, SelectedSeq
<1>5. m.settings.video_mix = Simple(1) /\ m.source_frames[1] # NULL
  BY <1>2, <1>4 DEF FirstFrame
<1>6. m.format.system = sys  BY <1>2, <1>4 DEF SystemSet, Alike
<1>7. 1 \in DOMAIN m.source_frames  BY <1>3, <1>5 DEF InRange, Simple
<1>8. m.source_frames[1].system = sys /\ m.source_frames[1] \in Frame
  <2>1. 1 \in DOMAIN sources_ /\ 1 \in Places(1) /\ FrameAt(1, 1) = m.source_frames[1]
    BY <1>1, <1>7, FrontPlace
  <2> QED  BY <1>5, <2>1, FrameAtType DEF Alike
<1>9. \A id \in m.settings.video_mix.ids : Usable(id) /\ id = 1
  BY <1>5, <1>6, <1>8 DEF Simple, Usable
<1>10. m.settings.video_mix.kind = "simple" /\ (CHOOSE id \in m.settings.video_mix.ids : TRUE) = 1
  BY <1>5 DEF Simple
<1>11. Applied = [n |-> m.source_frames[1].n, picture |-> {m.source_frames[1].n},
                  system |-> m.source_frames[1].system, audio |-> m.source_frames[1].n]
  BY <1>9, <1>10 DEF Applied
<1>12. Applied \in Picture
  BY <1>8, <1>11, ConstantAssumption DEF Frame, Picture
<1> QED  BY <1>12, NullAssumption DEF Pictured

\* As long as all sources send one video system and the operator leaves the format alone, a
\* frame that is missing is never missed before there is one to repeat.
THEOREM RepeatSafe ==
  ASSUME NEW sys \in System, \A f \in FrameFormat : f.system = sys
  PROVE  Spec => [](reformatted \/ RepeatHasFrame)
<1> DEFINE Inv == IInv /\ OrderInv /\ SystemSet /\ FirstFrame /\ Alike(sys)
<1>1. Init => Inv
  <2>1. Init => Alike(sys)  BY DEF Init, Alike
  <2> QED  BY <2>1, InitInv, OrderInit, SystemInit, FirstInit
<1>2. Inv /\ [Next]_vars => Inv'
  <2> SUFFICES ASSUME Inv, [Next]_vars PROVE Inv'  OBVIOUS
  <2>1. IInv'  BY NextInv
  <2>2. OrderInv' /\ SystemSet' /\ FirstFrame'  BY <2>1, OrderNext, SystemNext, FirstNext
  <2>3. Alike(sys)'  BY <2>1, AlikeNext DEF OrderInv
  <2> QED  BY <2>1, <2>2, <2>3
<1>3. Inv => reformatted \/ RepeatHasFrame
  <2> SUFFICES ASSUME Inv, ~reformatted, mixer_pc = "mix" PROVE Pictured # NULL
    BY DEF RepeatHasFrame
  <2>1. CASE last_mixed_dv = NULL  BY <2>1, FirstPictured DEF OrderInv
  <2>2. CASE last_mixed_dv # NULL
    <3>1. ASSUME Applied # NULL PROVE Pictured # NULL  BY <3>1 DEF Pictured
    <3>2. ASSUME Applied = NULL PROVE Pictured # NULL
      <4>1. Pictured = [n |-> 0, picture |-> last_mixed_dv.picture,
                        system |-> last_mixed_dv.system, audio |-> last_mixed_dv.audio]
        BY <2>2, <3>2 DEF Pictured
      <4>2. last_mixed_dv \in Mixed /\ 0 \in 0..MaxFrames
        BY <2>2, ConstantAssumption DEF IInv, TypeOK, TypeMixer
      <4>3. Pictured \in Picture  BY <4>1, <4>2 DEF Mixed, Picture
      <4> QED  BY <4>3, NullAssumption
    <3> QED  BY <3>1, <3>2
  <2> QED  BY <2>1, <2>2
<1> HIDE DEF Inv
<1> QED  BY <1>1, <1>2, <1>3, PTL DEF Spec
=================================================================================

--------------------------- MODULE Recording_proofs ---------------------------
(***************************************************************************)
(* Proof that the stream to a sink implements Recording: within a file the  *)
(* frames follow each other without a gap, for any queue, any sizes of      *)
(* header, frame and socket, and any number of frames.                      *)
(*                                                                          *)
(* To the invariant of SinkStream_proofs, which follows single frames,      *)
(* Order adds how they succeed each other, from the queue (Growing) past    *)
(* the sender (SenderDue), along the wire (ChainDue) to the reader          *)
(* (ReaderDue) and into the files (FilesDue). At each of these places a     *)
(* frame either continues the one before it or says that it does not.       *)
(***************************************************************************)
EXTENDS SinkStream_proofs

\* The front of the queue is partly sent, or sent and not yet popped.
InMessage == frame_pos_ # 0 \/ (finished_frame /\ ~Skipped)

\* The frame after the last one popped is to go to the file that this one is in.
Continued == ~will_record_ \/ is_recording_

\* The number and the flag of the last frame of which anything was sent.
SentN    == IF wire = <<>> THEN reading ELSE wire[Len(wire)].n
SentFlag == IF wire = <<>> THEN flag ELSE wire[Len(wire)].flag

\* Only an overflow leaves a gap between frames in the queue, or after them.
Growing ==
  /\ \A i \in 1..Len(queue_) - 1 :
       /\ queue_[i].n < queue_[i + 1].n
       /\ queue_[i + 1].n = queue_[i].n + 1 \/ queue_[i + 1].overflow_before
  /\ queue_ # <<>> => queue_[Len(queue_)].n = Len(puts) \/ overflowed_

\* What was sent last is the front of the queue; or the front follows it, unless there was
\* an overflow or the file has been closed.
SenderDue ==
  /\ InMessage => SentN = elem.n /\ SentFlag = Flag
  /\ ~InMessage =>
       /\ ~Continued => SentN = 0 \/ SentFlag = Stop
       /\ queue_ # <<>> => /\ SentN < elem.n
                           /\ Continued => elem.n = SentN + 1 \/ elem.overflow_before
       /\ queue_ = <<>> => /\ SentN <= Len(puts)
                           /\ Continued => SentN = Len(puts) \/ overflowed_

\* v may come after frame n with flag f: without a flag it is the next one.
Due(n, f, v) ==
  v.at = 0 => /\ n < v.n
              /\ v.flag = None /\ f # Stop /\ n # 0 => v.n = n + 1

ChainDue == \A i \in 1..Len(wire) - 1 : Due(wire[i].n, wire[i].flag, wire[i + 1])

ReaderDue == wire # <<>> => Due(reading, flag, wire[1])

\* The last file ends with frame n, if it has any.
EndsWith(n) ==
  LET last == files[Len(files)] IN last # <<>> => last[Len(last)] = n

FilesDue ==
  /\ \A i \in 1..Len(files) : \A j \in 1..Len(files[i]) :
       files[i][j] <= reading /\ (buf_pos # 0 => files[i][j] < reading)
  /\ buf_pos = 0 /\ file => reading # 0 /\ flag # Stop /\ EndsWith(reading)
  /\ buf_pos \in 1..HeaderSize - 1 /\ file /\ flag = None => EndsWith(reading - 1)
  /\ buf_pos >= HeaderSize => file /\ EndsWith(reading - 1)

Order == ~is_raw_ => Growing /\ SenderDue /\ ChainDue /\ ReaderDue /\ FilesDue

\* There is nothing to succeed anything yet.
LEMMA InitOrder == Init => Order
<1> SUFFICES ASSUME Init PROVE Order  OBVIOUS
<1>1. Growing  BY DEF Init, Growing
<1>2. SenderDue
  BY DEF Init, SenderDue, InMessage, SentN, Continued
<1>3. ChainDue /\ ReaderDue  BY DEF Init, ChainDue, ReaderDue
<1>4. ~is_raw_ => FilesDue
  BY ConstantAssumption DEF Init, FilesDue, Start
<1> QED  BY <1>1, <1>2, <1>3, <1>4 DEF Order

\* What was sent last is a frame and one of the flags, or nothing.
LEMMA SentType == IInv => SentN \in 0..MaxFrames /\ SentFlag \in Flags
<1> SUFFICES ASSUME IInv PROVE SentN \in 0..MaxFrames /\ SentFlag \in Flags  OBVIOUS
<1>1. reading \in 0..MaxFrames /\ flag \in Flags  BY DEF IInv, TypeOK, TypeSink
<1>2. wire \in Seq(Unit) /\ Len(wire) \in Nat  BY LenProperties DEF IInv, TypeOK, TypeServer
<1>3. wire # <<>> => wire[Len(wire)] \in Unit  BY <1>2, EmptySeq
<1>4. wire # <<>> => wire[Len(wire)].n \in 0..MaxFrames /\ wire[Len(wire)].flag \in Flags
  BY <1>3, ConstantAssumption DEF Unit, Frame
<1> QED  BY <1>1, <1>4 DEF SentN, SentFlag

\* A part of Order whose variables a step leaves alone still holds after it.
LEMMA UnmovedOrder ==
  ASSUME Order, ~is_raw_, UNCHANGED kind_vars
  PROVE  /\ UNCHANGED <<queue_vars, puts>> => Growing'
         /\ UNCHANGED <<queue_vars, puts, finished_frame, is_recording_, frame_pos_, wire,
                        reading, flag>> => SenderDue'
         /\ UNCHANGED wire => ChainDue'
         /\ UNCHANGED <<wire, reading, flag>> => ReaderDue'
         /\ UNCHANGED sink_vars => FilesDue'
<1> USE DEF Order, kind_vars
<1>1. UNCHANGED <<queue_vars, puts>> => Growing'  BY DEF Growing, queue_vars
<1>2. UNCHANGED <<queue_vars, puts, finished_frame, is_recording_, frame_pos_, wire,
                  reading, flag>> => SenderDue'
  BY DEF SenderDue, InMessage, Continued, SentN, SentFlag, Skipped, Flag, elem, queue_vars
<1>3. UNCHANGED wire => ChainDue'  BY DEF ChainDue, Due
<1>4. UNCHANGED <<wire, reading, flag>> => ReaderDue'  BY DEF ReaderDue, Due
<1>5. UNCHANGED sink_vars => FilesDue'  BY DEF FilesDue, EndsWith, sink_vars
<1> QED  BY <1>1, <1>2, <1>3, <1>4, <1>5
--------------------------------------------------------------------------------
\* A frame put is the next in the queue, or the one after it tells of the overflow.
LEMMA PutFrameOrder ==
  ASSUME IInv, Order, ~is_raw_, NEW record \in BOOLEAN, NEW cut \in BOOLEAN,
         PutFrame(record, cut)
  PROVE  Order'
<1> USE ConstantAssumption
<1> DEFINE n == Len(puts) + 1
           e == Element(n, record, cut)
<1>1. /\ queue_ \in Seq(Elem) /\ Len(queue_) \in Nat /\ Len(puts) \in Nat /\ Len(puts') = n
  <2>1. puts \in Seq(Put) /\ puts' = Append(puts, [do_record |-> record, cut_before |-> cut,
                                                    kept |-> ~full])
    BY DEF PutFrame, IInv, TypeOK, TypeQueue
  <2>2. full \in BOOLEAN  BY DEF full
  <2>3. Len(puts') = n /\ Len(puts) \in Nat  BY <2>1, <2>2, AppendProperties, LenProperties DEF Put
  <2> QED  BY <2>3, LenProperties DEF IInv, TypeOK, TypeQueue
<1>2. UNCHANGED <<kind_vars, server_vars, wire, sink_vars>> /\ ~is_raw_'
  BY DEF PutFrame, kind_vars
<1>3. overflowed_' = full /\ queue_' = IF full THEN queue_ ELSE Append(queue_, e)
  BY DEF PutFrame
<1>4. Growing /\ SenderDue  BY DEF Order
<1>5. ChainDue' /\ ReaderDue' /\ FilesDue'  BY <1>2, UnmovedOrder DEF sink_vars
<1>6. UNCHANGED <<will_record_, finished_frame, is_recording_, frame_pos_, SentN, SentFlag, Continued>>
  BY <1>2 DEF kind_vars, server_vars, sink_vars, SentN, SentFlag, Continued
<1>7. ASSUME full PROVE Growing' /\ SenderDue'
  <2>1. queue_ # <<>> /\ queue_' = queue_ /\ overflowed_' = TRUE
    <3>1. Len(queue_) # 0  BY <1>1, <1>7 DEF full
    <3>2. full = TRUE  BY <1>7 DEF full
    <3>3. overflowed_' = TRUE  BY <1>3, <3>2
    <3> QED  BY <1>3, <1>7, <3>1, <3>3, EmptySeq
  <2>2. UNCHANGED <<InMessage, elem, Flag>>  BY <1>6, <2>1 DEF InMessage, Skipped, elem, Flag
  <2>3. Growing'  BY <1>4, <2>1 DEF Growing
  <2>4. SenderDue'  BY <1>4, <1>6, <2>1, <2>2 DEF SenderDue
  <2> QED  BY <2>3, <2>4
<1>8. ASSUME ~full PROVE Growing' /\ SenderDue'
  <2>1. e \in Elem /\ e.n = n /\ e.overflow_before = overflowed_
    BY <1>1 DEF Element, Elem, PutFrame, IInv, TypeOK, TypeQueue, Frame
  <2>2. /\ queue_' = Append(queue_, e) /\ Len(queue_') = Len(queue_) + 1 /\ queue_' # <<>>
        /\ \A i \in 1..Len(queue_) : queue_'[i] = queue_[i]
        /\ queue_'[Len(queue_) + 1] = e
    BY <1>1, <1>3, <1>8, <2>1, AppendProperties
  <2>3. elem' = IF queue_ = <<>> THEN e ELSE elem
    <3>1. Head(Append(queue_, e)) = IF queue_ = <<>> THEN e ELSE Head(queue_)
      BY <1>1, <2>1, HeadTailAppend
    <3> QED  BY <2>2, <3>1 DEF elem
  <2>4. queue_ # <<>> => /\ Len(queue_) \in 1..Len(queue_)
                         /\ queue_[Len(queue_)].n \in 1..Len(puts)
    BY <1>1, EmptySeq DEF IInv, Queued
  <2>5. Growing'
    <3>1. queue_'[Len(queue_')].n = Len(puts')  BY <1>1, <2>1, <2>2
    <3>2. ASSUME NEW i \in 1..Len(queue_') - 1
          PROVE  /\ queue_'[i].n < queue_'[i + 1].n
                 /\ queue_'[i + 1].n = queue_'[i].n + 1 \/ queue_'[i + 1].overflow_before
      <4>1. CASE i < Len(queue_)
        <5>1. i \in 1..Len(queue_) - 1 /\ queue_'[i] = queue_[i] /\ queue_'[i + 1] = queue_[i + 1]
          BY <1>1, <2>2, <4>1
        <5> QED  BY <1>4, <5>1 DEF Growing
      <4>2. CASE i = Len(queue_)
        <5>1. queue_ # <<>> /\ queue_'[i] = queue_[Len(queue_)] /\ queue_'[i + 1] = e
          BY <1>1, <2>2, <4>2, EmptySeq
        <5>2. queue_[Len(queue_)].n = Len(puts) \/ overflowed_  BY <1>4, <5>1 DEF Growing
        <5> QED  BY <1>1, <2>1, <2>4, <5>1, <5>2
      <4> QED  BY <1>1, <2>2, <4>1, <4>2
    <3> QED  BY <3>1, <3>2 DEF Growing
  <2>6. SenderDue'
    <3>1. CASE queue_ = <<>>
      <4>1. ~InMessage /\ ~InMessage'  BY <1>6, <3>1 DEF InMessage, IInv, Sending
      <4>2. SentN <= Len(puts) /\ (Continued => SentN = Len(puts) \/ overflowed_)
            /\ (~Continued => SentN = 0 \/ SentFlag = Stop)
        BY <1>4, <3>1, <4>1 DEF SenderDue
      <4>3. SentN \in Nat  BY SentType
      <4>4. elem'.n = n /\ elem'.overflow_before = overflowed_  BY <2>1, <2>3, <3>1
      <4>5. SentN < n /\ (Continued => n = SentN + 1 \/ overflowed_)  BY <1>1, <4>2, <4>3
      <4> HIDE DEF n
      <4> QED  BY <1>6, <2>2, <4>1, <4>2, <4>4, <4>5 DEF SenderDue
    <3>2. CASE queue_ # <<>>
      <4>1. elem' = elem  BY <2>3, <3>2
      <4>2. UNCHANGED <<InMessage, Flag>>  BY <1>6, <4>1 DEF InMessage, Skipped, Flag
      <4> QED  BY <1>4, <1>6, <2>2, <3>2, <4>1, <4>2 DEF SenderDue
    <3> QED  BY <3>1, <3>2
  <2> QED  BY <2>5, <2>6
<1> QED  BY <1>5, <1>7, <1>8 DEF Order
--------------------------------------------------------------------------------
\* do_send moves on in the queue.
LEMMA TakeFrameOrder ==
  ASSUME IInv, Order, ~is_raw_, TakeFrame
  PROVE  Order'
<1>1. /\ UNCHANGED <<kind_vars, overflowed_, puts, frame_pos_, wire, sink_vars>> /\ ~is_raw_'
      /\ ~finished_frame'
      /\ queue_' = IF finished_frame THEN Tail(queue_) ELSE queue_
      /\ is_recording_' = IF finished_frame /\ will_record_ THEN elem.do_record ELSE is_recording_
  BY DEF TakeFrame, kind_vars, mixer_vars
<1>2. Growing /\ SenderDue  BY DEF Order
<1>3. ChainDue' /\ ReaderDue' /\ FilesDue'  BY <1>1, UnmovedOrder DEF sink_vars
<1>4. UNCHANGED <<will_record_, SentN, SentFlag, Len(puts)>>
  BY <1>1 DEF kind_vars, sink_vars, SentN, SentFlag
<1>5. CASE ~finished_frame
  <2>1. UNCHANGED <<queue_, is_recording_, finished_frame, elem, Flag, InMessage, Continued>>
    <3>1. finished_frame' = finished_frame
      BY <1>1, <1>5 DEF IInv, TypeOK, TypeServer, TakeFrame
    <3>2. UNCHANGED <<queue_, is_recording_, elem, Flag>>
      BY <1>1, <1>5 DEF elem, Flag
    <3>3. UNCHANGED <<InMessage, Continued>>
      BY <1>1, <1>4, <3>1, <3>2 DEF InMessage, Skipped, Continued
    <3> QED  BY <3>1, <3>2, <3>3
  <2>2. Growing'  BY <1>1, <1>2, <2>1 DEF Growing
  <2>3. SenderDue'  BY <1>1, <1>2, <1>4, <2>1 DEF SenderDue
  <2> QED  BY <1>3, <2>2, <2>3 DEF Order
<1>6. CASE finished_frame
  <2>1. queue_ # <<>> /\ frame_pos_ = 0  BY <1>6 DEF IInv, Sending
  <2>2. queue_ \in Seq(Elem) /\ Len(queue_) \in Nat /\ Len(puts) \in Nat
    BY LenProperties DEF IInv, TypeOK, TypeQueue
  <2>3. /\ queue_' \in Seq(Elem) /\ Len(queue_') = Len(queue_) - 1 /\ Len(queue_) >= 1
        /\ \A i \in 1..Len(queue_') : queue_'[i] = queue_[i + 1]
    BY <1>1, <1>6, <2>1, <2>2, HeadTailProperties, EmptySeq
  <2>4. elem = queue_[1] /\ elem \in Elem /\ elem.n \in 1..Len(puts)
    BY <2>1, Front DEF IInv, Queued
  <2>5. queue_' # <<>> => /\ Len(queue_) - 1 >= 1 /\ 1 \in 1..Len(queue_) - 1
                          /\ elem' = queue_[2] /\ elem'.n \in Nat
                          /\ elem.n < elem'.n
                          /\ elem'.n = elem.n + 1 \/ elem'.overflow_before
    <3>1. SUFFICES ASSUME queue_' # <<>>
                   PROVE  /\ Len(queue_) - 1 >= 1 /\ 1 \in 1..Len(queue_) - 1
                          /\ elem' = queue_[2] /\ elem'.n \in Nat
                          /\ elem.n < elem'.n
                          /\ elem'.n = elem.n + 1 \/ elem'.overflow_before
      OBVIOUS
    <3>2. Len(queue_') # 0  BY <2>3, <3>1, EmptySeq
    <3>3. Len(queue_) - 1 >= 1 /\ 1 \in 1..Len(queue_) - 1 /\ 2 \in 1..Len(queue_)
          /\ 1 \in 1..Len(queue_')
      BY <2>2, <2>3, <3>2
    <3>4. elem' = queue_'[1]  BY <2>3, <3>1 DEF elem
    <3>5. elem' = queue_[2]  BY <2>3, <3>3, <3>4
    <3>6. queue_[2].n \in 1..Len(puts)  BY <3>3 DEF IInv, Queued
    <3>7. queue_[1].n < queue_[1 + 1].n
          /\ (queue_[1 + 1].n = queue_[1].n + 1 \/ queue_[1 + 1].overflow_before)
      BY <1>2, <3>3 DEF Growing
    <3> QED  BY <2>4, <3>3, <3>5, <3>6, <3>7
  <2>6. Growing'
    <3>1. ASSUME NEW i \in 1..Len(queue_') - 1
          PROVE  /\ queue_'[i].n < queue_'[i + 1].n
                 /\ queue_'[i + 1].n = queue_'[i].n + 1 \/ queue_'[i + 1].overflow_before
      <4>1. i + 1 \in 1..Len(queue_) - 1 /\ i \in 1..Len(queue_') /\ i + 1 \in 1..Len(queue_')
        BY <2>2, <2>3
      <4>2. /\ queue_[i + 1].n < queue_[i + 1 + 1].n
            /\ queue_[i + 1 + 1].n = queue_[i + 1].n + 1 \/ queue_[i + 1 + 1].overflow_before
        BY <1>2, <4>1 DEF Growing
      <4> QED  BY <2>3, <4>1, <4>2
    <3>2. queue_' # <<>> => queue_'[Len(queue_')].n = Len(puts') \/ overflowed_'
      <4>1. queue_' # <<>> => queue_'[Len(queue_')] = queue_[Len(queue_)]
        BY <2>2, <2>3, <2>5
      <4> QED  BY <1>1, <1>2, <1>4, <2>1, <4>1 DEF Growing
    <3> QED  BY <3>1, <3>2 DEF Growing
  <2>7. queue_' = <<>> => elem.n = Len(puts) \/ overflowed_
    <3>1. queue_' = <<>> => Len(queue_) = 1  BY <2>2, <2>3
    <3> QED  BY <1>2, <2>1, <2>4, <3>1 DEF Growing
  <2>8. ~InMessage'  BY <1>1, <2>1 DEF InMessage
  <2>9. SentN \in Nat  BY SentType
  <2>10. CASE Skipped
    <3>1. ~Continued /\ ~InMessage /\ ~Continued'
      BY <1>1, <1>4, <1>6, <2>1, <2>10 DEF Skipped, Continued, InMessage
    <3>2. SentN < elem.n /\ (SentN = 0 \/ SentFlag = Stop)
      BY <1>2, <2>1, <3>1 DEF SenderDue
    <3>3. queue_' # <<>> => SentN < elem'.n  BY <2>4, <2>5, <2>9, <3>2
    <3>4. SentN <= Len(puts)  BY <2>2, <2>4, <2>9, <3>2
    <3>5. SenderDue'  BY <1>4, <2>8, <3>1, <3>2, <3>3, <3>4 DEF SenderDue
    <3> QED  BY <1>3, <2>6, <3>5 DEF Order
  <2>11. CASE ~Skipped
    <3>1. SentN = elem.n /\ SentFlag = Flag  BY <1>2, <1>6, <2>11 DEF SenderDue, InMessage
    <3>2. ~Continued' => SentFlag = Stop
      BY <1>1, <1>4, <1>6, <2>11, <3>1 DEF Continued, Skipped, Flag
    <3>3. queue_' # <<>> => SentN < elem'.n /\ (elem'.n = SentN + 1 \/ elem'.overflow_before)
      BY <2>5, <3>1
    <3>4. SentN <= Len(puts) /\ (queue_' = <<>> => SentN = Len(puts) \/ overflowed_)
      BY <2>2, <2>4, <2>7, <3>1
    <3>5. overflowed_' = overflowed_  BY <1>1
    <3>6. SenderDue'  BY <1>4, <2>8, <3>2, <3>3, <3>4, <3>5 DEF SenderDue
    <3> QED  BY <1>3, <2>6, <3>6 DEF Order
  <2> QED  BY <2>10, <2>11
<1> QED  BY <1>5, <1>6

\* A frame that is not for the file is passed over; what was sent last stays so.
LEMMA SkipFrameOrder ==
  ASSUME IInv, Order, ~is_raw_, SkipFrame
  PROVE  Order'
<1>1. /\ UNCHANGED <<kind_vars, queue_vars, puts, is_recording_, frame_pos_, wire, sink_vars>>
      /\ serve_pc = "write" /\ Skipped /\ ~is_raw_'
  BY DEF SkipFrame, kind_vars, mixer_vars
<1>2. UNCHANGED <<queue_, overflowed_, elem, Flag, Skipped, Continued, SentN, SentFlag>>
  BY <1>1 DEF elem, Flag, Skipped, Continued, SentN, SentFlag, queue_vars, kind_vars, sink_vars
<1>3. ~InMessage /\ ~InMessage'
  <2>1. frame_pos_ = 0 /\ ~finished_frame  BY <1>1 DEF IInv, Sending
  <2> QED  BY <1>1, <1>2, <2>1 DEF InMessage
<1>4. SenderDue'  BY <1>1, <1>2, <1>3 DEF Order, SenderDue
<1>5. Growing' /\ ChainDue' /\ ReaderDue' /\ FilesDue'  BY <1>1, UnmovedOrder DEF sink_vars
<1> QED  BY <1>4, <1>5 DEF Order
--------------------------------------------------------------------------------
\* What is written to the socket, for a stream with headers: more of the front of the queue,
\* whose first unit may come after what was sent last.
LEMMA WriteFrameOrder ==
  ASSUME IInv, Order, ~is_raw_, WriteFrame
  PROVE  Order'
<1> USE ConstantAssumption
<1>1. /\ UNCHANGED <<kind_vars, queue_vars, puts, is_recording_, sink_vars>>
      /\ serve_pc = "write" /\ ~Skipped /\ queue_ # <<>> /\ ~is_raw_'
      /\ finished_frame' \in BOOLEAN
  BY DEF WriteFrame, IInv, Sending, kind_vars, mixer_vars
<1>2. PICK k \in 1..SocketRoom :
        /\ frame_pos_ + k <= Len(Units)
        /\ wire' = wire \o SubSeq(Units, frame_pos_ + 1, frame_pos_ + k)
        /\ finished_frame' = (frame_pos_ + k = Len(Units))
        /\ frame_pos_' = new_pos(frame_pos_ + k)
  BY DEF WriteFrame
<1>3. /\ elem = queue_[1] /\ elem \in Elem /\ Flag \in Flags
      /\ Past = IF Flag = Stop THEN HeaderSize ELSE HeaderSize + BodySize
  BY <1>1, Front, FlagFits
<1>4. /\ frame_pos_ \in Nat /\ First = 0 /\ Past - First = Past /\ Past \in Nat
      /\ frame_pos_ < Past
  BY <1>1, <1>3 DEF IInv, Sending, TypeOK, TypeServer, First, Start
<1> DEFINE Here(i) == [n |-> elem.n, at |-> i - 1, flag |-> Flag]
           sent == SubSeq(Units, frame_pos_ + 1, frame_pos_ + k)
<1>5. /\ Len(Units) = Past
      /\ \A i \in 1..Past : Units[i] = Here(i) /\ Here(i) \in Unit
  <2>1. Units = [i \in 1..Past |-> Here(i)]
    <3>1. \A i \in 1..Past : First + i - 1 = i - 1  BY <1>4
    <3>2. 1..Past - First = 1..Past  BY <1>4
    <3> QED  BY <3>1, <3>2 DEF Units
  <2>2. ASSUME NEW i \in 1..Past PROVE Here(i) \in Unit
    <3>1. elem.n \in Frame  BY <1>3 DEF Elem
    <3>2. i - 1 \in 0..HeaderSize + BodySize - 1  BY <1>3, <1>4, <2>2
    <3> QED  BY <1>3, <3>1, <3>2 DEF Unit
  <2>3. Units \in Seq(Unit)
    <3> HIDE DEF Here
    <3> QED  BY <1>4, <2>1, <2>2, IsASeq
  <2>4. DOMAIN Units = 1..Past  BY <2>1
  <2>5. DOMAIN Units = 1..Len(Units) /\ Len(Units) \in Nat  BY <2>3, LenProperties
  <2> QED  BY <1>4, <2>1, <2>2, <2>4, <2>5
<1>6. /\ sent \in Seq(Unit) /\ Len(sent) = k
      /\ \A i \in 1..k : sent[i] = Here(frame_pos_ + i)
  <2> DEFINE a == frame_pos_ + 1
             b == frame_pos_ + k
  <2>1. a \in Int /\ b \in Int /\ a <= b  BY <1>4
  <2>2. \A i \in a..b : i \in 1..Past  BY <1>2, <1>4, <1>5
  <2>3. \A i \in a..b : Units[i] \in Unit  BY <1>5, <2>2
  <2>4. b - a + 1 = k /\ \A i \in 1..k : a + i - 1 = frame_pos_ + i /\ frame_pos_ + i \in 1..Past
    BY <1>2, <1>4, <1>5
  <2>5. sent = SubSeq(Units, a, b)  OBVIOUS
  <2> HIDE DEF a, b, sent, Here
  <2>6. /\ SubSeq(Units, a, b) \in Seq(Unit)
        /\ Len(SubSeq(Units, a, b)) = b - a + 1
        /\ \A i \in 1..b - a + 1 : SubSeq(Units, a, b)[i] = Units[a + i - 1]
    BY <2>1, <2>3, SubSeqProperties
  <2> QED  BY <1>5, <2>4, <2>5, <2>6
<1>7. wire \in Seq(Unit) /\ Len(wire) \in Nat
  BY LenProperties DEF IInv, TypeOK, TypeServer
<1>8. /\ wire' \in Seq(Unit) /\ Len(wire') = Len(wire) + k /\ wire' # <<>>
      /\ \A i \in 1..Len(wire) : wire'[i] = wire[i]
      /\ \A i \in 1..k : wire'[Len(wire) + i] = Here(frame_pos_ + i)
  <2> HIDE DEF Here, sent
  <2>1. /\ wire' \in Seq(Unit) /\ Len(wire') = Len(wire) + k
        /\ \A i \in 1..Len(wire) + k :
             wire'[i] = IF i <= Len(wire) THEN wire[i] ELSE sent[i - Len(wire)]
    <3>1. wire' = wire \o sent  BY <1>2 DEF sent
    <3> QED  BY <1>6, <1>7, <3>1, ConcatProperties
  <2>2. \A i \in 1..Len(wire) : wire'[i] = wire[i]  BY <1>7, <2>1
  <2>3. ASSUME NEW i \in 1..k PROVE wire'[Len(wire) + i] = Here(frame_pos_ + i)
    <3>1. Len(wire) + i \in 1..Len(wire) + k /\ ~(Len(wire) + i <= Len(wire))
          /\ (Len(wire) + i) - Len(wire) = i
      BY <1>7
    <3> QED  BY <1>6, <2>1, <3>1
  <2>4. wire' # <<>>  BY <1>7, <2>1, EmptySeq
  <2> QED  BY <2>1, <2>2, <2>3, <2>4
\* The first unit sent may come after what was sent before, and the others begin no frame.
<1>9. Due(SentN, SentFlag, Here(frame_pos_ + 1))
  <2>1. CASE frame_pos_ # 0
    BY <1>4, <2>1 DEF Due
  <2>2. CASE frame_pos_ = 0
    <3>1. ~InMessage  BY <1>1, <2>2 DEF InMessage, IInv, Sending
    <3>2. /\ ~Continued => SentN = 0 \/ SentFlag = Stop
          /\ SentN < elem.n
          /\ Continued => elem.n = SentN + 1 \/ elem.overflow_before
      BY <1>1, <3>1 DEF Order, SenderDue
    <3>3. Flag = None => ~elem.overflow_before
      BY DEF Flag, None, Stop, Overflow, CutFlag
    <3> QED  BY <3>2, <3>3 DEF Due
  <2> QED  BY <2>1, <2>2
<1>10. \A i \in 2..k : Here(frame_pos_ + i).at # 0  BY <1>4
<1>11. /\ SentN = IF wire = <<>> THEN reading ELSE wire[Len(wire)].n
       /\ SentFlag = IF wire = <<>> THEN flag ELSE wire[Len(wire)].flag
       /\ wire = <<>> <=> Len(wire) = 0
  BY <1>7, EmptySeq DEF SentN, SentFlag
<1>12. SentN' = elem.n /\ SentFlag' = Flag
  <2>1. wire'[Len(wire')] = Here(frame_pos_ + k)  BY <1>8
  <2> QED  BY <1>8, <2>1 DEF SentN, SentFlag
<1> HIDE DEF Here, sent
<1>13. ChainDue'
  <2>1. SUFFICES ASSUME NEW i \in 1..Len(wire) + k - 1
                 PROVE  Due(wire'[i].n, wire'[i].flag, wire'[i + 1])
    BY <1>8 DEF ChainDue, Due
  <2>2. CASE i < Len(wire)
    <3>1. i \in 1..Len(wire) - 1 /\ wire'[i] = wire[i] /\ wire'[i + 1] = wire[i + 1]
      BY <1>7, <1>8, <2>2
    <3> QED  BY <3>1 DEF Order, ChainDue
  <2>3. CASE i = Len(wire)
    <3>1. wire'[i] = wire[Len(wire)] /\ wire'[i + 1] = Here(frame_pos_ + 1)  BY <1>7, <1>8, <2>3
    <3> QED  BY <1>7, <1>9, <1>11, <2>3, <3>1
  <2>4. CASE i > Len(wire)
    <3> DEFINE j == i + 1 - Len(wire)
    <3>1. j \in 2..k /\ i + 1 = Len(wire) + j  BY <1>7, <2>1, <2>4
    <3> HIDE DEF j
    <3>2. wire'[i + 1].at # 0  BY <1>8, <1>10, <3>1
    <3> QED  BY <3>2 DEF Due
  <2> QED  BY <1>7, <2>2, <2>3, <2>4
<1>14. ReaderDue'
  <2>1. UNCHANGED <<reading, flag>>  BY <1>1 DEF sink_vars
  <2>2. CASE wire = <<>>
    <3>1. Len(wire) = 0 /\ wire'[0 + 1] = Here(frame_pos_ + 1)  BY <1>8, <1>11, <2>2
    <3> QED  BY <1>9, <1>11, <2>1, <2>2, <3>1 DEF ReaderDue, Due
  <2>3. CASE wire # <<>>
    <3>1. wire'[1] = wire[1]  BY <1>7, <1>8, <1>11, <2>3
    <3> QED  BY <2>1, <2>3, <3>1 DEF Order, ReaderDue, Due
  <2> QED  BY <2>2, <2>3
<1>15. SenderDue'
  <2>1. UNCHANGED <<queue_, elem, Flag, Skipped>>
    BY <1>1 DEF queue_vars, kind_vars, elem, Flag, Skipped
  <2>2. InMessage'
    <3>1. frame_pos_' = IF frame_pos_ + k = Past THEN 0 ELSE frame_pos_ + k
      BY <1>2, <1>5 DEF new_pos
    <3>2. CASE frame_pos_ + k = Past  BY <1>1, <1>2, <1>5, <2>1, <3>2 DEF InMessage
    <3>3. CASE frame_pos_ + k # Past
      <4>1. frame_pos_' # 0  BY <1>4, <3>1, <3>3
      <4> QED  BY <4>1 DEF InMessage
    <3> QED  BY <3>2, <3>3
  <2> QED  BY <1>12, <2>1, <2>2 DEF SenderDue
<1>16. Growing' /\ FilesDue'  BY <1>1, UnmovedOrder
<1> QED  BY <1>13, <1>14, <1>15, <1>16 DEF Order
--------------------------------------------------------------------------------
\* The steps of the server thread that only move on in serve leave Order alone, as does the
\* rest of put_frame.
LEMMA WaitingOrder ==
  ASSUME IInv, Order, ~is_raw_,
         ScheduleSend \/ Poll \/ ReadMessages \/ WriteBlocked \/ SentAll \/ UNCHANGED vars
  PROVE  Order'
<1>1. UNCHANGED <<kind_vars, queue_vars, puts, finished_frame, is_recording_, frame_pos_, wire,
                  sink_vars>>
  BY DEF ScheduleSend, Poll, ReadMessages, WriteBlocked, SentAll, vars, mixer_vars, server_vars,
         kind_vars, queue_vars, sink_vars
<1>2. UNCHANGED <<reading, flag>>  BY <1>1 DEF sink_vars
<1> QED  BY <1>1, <1>2, UnmovedOrder DEF Order

\* What the sink reads may come after what it has read; and so may what it reads next.
LEMMA ReceiveOrder ==
  ASSUME IInv, Order, ~is_raw_, Receive,
         UNCHANGED <<kind_vars, queue_vars, mixer_vars, poll_vars, server_vars>>
  PROVE  /\ Due(reading, flag, unit)
         /\ reading' = unit.n /\ flag' = unit.flag
              => Growing' /\ SenderDue' /\ ChainDue' /\ ReaderDue'
<1>1. wire # <<>> /\ wire' = Tail(wire)  BY DEF Receive
<1>2. wire \in Seq(Unit)  BY DEF IInv, TypeOK, TypeServer
<1>3. /\ wire' \in Seq(Unit) /\ Len(wire') = Len(wire) - 1 /\ Len(wire) \in Nat \ {0}
      /\ \A i \in 1..Len(wire') : wire'[i] = wire[i + 1]
      /\ unit = wire[1]
      /\ wire' = <<>> => Len(wire) = 1
  <2>1. /\ wire' \in Seq(Unit) /\ Len(wire') = Len(wire) - 1 /\ Len(wire) \in Nat \ {0}
        /\ \A i \in 1..Len(wire') : wire'[i] = wire[i + 1]
        /\ unit = wire[1]
    BY <1>1, <1>2, HeadTailProperties, EmptySeq DEF unit
  <2>2. wire' = <<>> => Len(wire') = 0  BY EmptySeq
  <2>3. wire' = <<>> => Len(wire) = 1  BY <2>1, <2>2
  <2> QED  BY <2>1, <2>3
<1>4. Due(reading, flag, unit)  BY <1>1, <1>3 DEF Order, ReaderDue
<1>5. ASSUME reading' = unit.n, flag' = unit.flag
      PROVE  Growing' /\ SenderDue' /\ ChainDue' /\ ReaderDue'
  <2>1. UNCHANGED <<queue_, overflowed_, puts, finished_frame, is_recording_, frame_pos_, is_raw_,
                    will_record_>>
    BY DEF kind_vars, queue_vars, mixer_vars, server_vars
  <2>2. Growing'  BY <2>1, UnmovedOrder DEF queue_vars
  <2>3. SentN' = SentN /\ SentFlag' = SentFlag
    <3>1. CASE wire' = <<>>
      <4>1. wire[Len(wire)] = unit  BY <1>3, <3>1
      <4> QED  BY <1>1, <1>5, <3>1, <4>1 DEF SentN, SentFlag
    <3>2. CASE wire' # <<>>
      <4>1. wire'[Len(wire')] = wire[Len(wire)]  BY <1>3, <3>2
      <4> QED  BY <1>1, <3>2, <4>1 DEF SentN, SentFlag
    <3> QED  BY <3>1, <3>2
  <2>4. UNCHANGED <<elem, Flag, InMessage, Continued>>
    <3>1. UNCHANGED <<elem, Flag, Skipped>>  BY <2>1 DEF elem, Flag, Skipped
    <3> QED  BY <2>1, <3>1 DEF InMessage, Continued
  <2>5. SenderDue'  BY <2>1, <2>3, <2>4 DEF Order, SenderDue
  <2>6. ChainDue'
    <3>1. SUFFICES ASSUME NEW i \in 1..Len(wire') - 1
                   PROVE  Due(wire'[i].n, wire'[i].flag, wire'[i + 1])
      BY DEF ChainDue, Due
    <3>2. /\ i + 1 \in 1..Len(wire) - 1 /\ wire'[i] = wire[i + 1]
          /\ wire'[i + 1] = wire[i + 1 + 1]
      BY <1>3
    <3> QED  BY <3>2 DEF Order, ChainDue
  <2>7. ReaderDue'
    <3>1. SUFFICES ASSUME wire' # <<>> PROVE Due(reading', flag', wire'[1])
      BY DEF ReaderDue, Due
    <3>2. 1 \in 1..Len(wire) - 1 /\ wire'[1] = wire[1 + 1]
      <4>1. Len(wire') # 0  BY <1>3, <3>1, EmptySeq
      <4> QED  BY <1>3, <4>1
    <3>3. Due(wire[1].n, wire[1].flag, wire[1 + 1])  BY <3>2 DEF Order, ChainDue
    <3> QED  BY <1>3, <1>5, <3>2, <3>3
  <2> QED  BY <2>2, <2>5, <2>6, <2>7
<1> QED  BY <1>4, <1>5

\* A header that is read is of a frame after all those in the files, and without a flag it
\* is of the frame after the last of them.
LEMMA HeaderOrder ==
  ASSUME IInv, Order, ~is_raw_, Receive, buf_pos < HeaderSize,
         UNCHANGED <<kind_vars, queue_vars, mixer_vars, poll_vars, server_vars>>
  PROVE  /\ \A i \in 1..Len(files) : \A j \in 1..Len(files[i]) : files[i][j] < unit.n
         /\ unit.flag = None /\ file => EndsWith(unit.n - 1)
         /\ buf_pos # 0 => unit.flag = flag
<1> USE ConstantAssumption
<1>1. /\ unit.at = buf_pos /\ Start = 0 /\ unit.n \in Nat
      /\ buf_pos # 0 => unit.n = reading /\ unit.flag = flag
  BY Places DEF Frame
<1>2. FilesDue /\ Due(reading, flag, unit)  BY ReceiveOrder DEF Order
<1>3. buf_pos \in Nat /\ reading \in Nat  BY DEF IInv, TypeOK, TypeSink
<1>4. \A i \in 1..Len(files) : \A j \in 1..Len(files[i]) : files[i][j] \in Nat
  BY DEF IInv, Filed
<1>5. CASE buf_pos = 0
  <2>1. /\ reading < unit.n
        /\ unit.flag = None /\ flag # Stop /\ reading # 0 => unit.n = reading + 1
    BY <1>1, <1>2, <1>5 DEF Due
  <2>2. \A i \in 1..Len(files) : \A j \in 1..Len(files[i]) : files[i][j] < unit.n
    BY <1>1, <1>2, <1>3, <1>4, <2>1 DEF FilesDue
  <2>3. ASSUME unit.flag = None, file PROVE EndsWith(unit.n - 1)
    <3>1. reading # 0 /\ flag # Stop /\ EndsWith(reading)  BY <1>2, <1>5, <2>3 DEF FilesDue
    <3>2. unit.n - 1 = reading  BY <1>3, <2>1, <2>3, <3>1
    <3> QED  BY <3>1, <3>2
  <2> QED  BY <1>5, <2>2, <2>3
<1>6. CASE buf_pos # 0
  <2>1. buf_pos \in 1..HeaderSize - 1  BY <1>3, <1>6
  <2>2. \A i \in 1..Len(files) : \A j \in 1..Len(files[i]) : files[i][j] < unit.n
    BY <1>1, <1>2, <1>6 DEF FilesDue
  <2>3. unit.flag = None /\ file => EndsWith(unit.n - 1)
    BY <1>1, <1>2, <1>6, <2>1 DEF FilesDue
  <2> QED  BY <1>1, <1>6, <2>2, <2>3
<1> QED  BY <1>5, <1>6

\* A header that is not complete leaves the files alone.
LEMMA ReadHeaderOrder ==
  ASSUME IInv, Order, ~is_raw_, ReadHeader
  PROVE  Order' /\ UNCHANGED <<is_raw_, file, files>>
<1> USE ConstantAssumption
<1>1. /\ Receive
      /\ UNCHANGED <<kind_vars, queue_vars, mixer_vars, poll_vars, server_vars>>
      /\ UNCHANGED <<file, files>>
      /\ buf_pos < HeaderSize - 1 /\ buf_pos' = buf_pos + 1 /\ reading' = unit.n
      /\ flag' = IF buf_pos = 0 THEN unit.flag ELSE flag
  BY DEF ReadHeader
<1>2. buf_pos \in Nat  BY DEF IInv, TypeOK, TypeSink
<1>3. buf_pos < HeaderSize /\ ~(buf_pos' >= HeaderSize) /\ buf_pos' # 0  BY <1>1, <1>2
<1>4. /\ \A i \in 1..Len(files) : \A j \in 1..Len(files[i]) : files[i][j] < unit.n
      /\ unit.flag = None /\ file => EndsWith(unit.n - 1)
      /\ flag' = unit.flag
  BY <1>1, <1>3, HeaderOrder
<1>5. FilesDue'
  <2>1. ASSUME NEW i \in 1..Len(files), NEW j \in 1..Len(files[i])
        PROVE  files[i][j] <= unit.n
    <3>1. files[i][j] \in Nat  BY DEF IInv, Filed
    <3>2. unit.n \in Nat  BY <1>1, Places DEF Frame
    <3> QED  BY <1>4, <3>1, <3>2
  <2>2. flag' = None /\ file => EndsWith(reading - 1)'
    <3>1. flag' = None /\ file => EndsWith(unit.n - 1)  BY <1>4
    <3> QED  BY <1>1, <3>1 DEF EndsWith
  <2> QED  BY <1>1, <1>3, <1>4, <2>1, <2>2 DEF FilesDue
<1>6. Growing' /\ SenderDue' /\ ChainDue' /\ ReaderDue'  BY <1>1, <1>4, ReceiveOrder
<1>7. is_raw_' = is_raw_  BY <1>1 DEF kind_vars
<1> QED  BY <1>1, <1>5, <1>6, <1>7 DEF Order

\* A complete header closes the file, creates one, or continues it.
LEMMA EndHeaderOrder ==
  ASSUME IInv, Order, ~is_raw_, EndHeader
  PROVE  /\ Order' /\ ~is_raw_'
         /\ \/ file' = FALSE /\ UNCHANGED files
            \/ file' = TRUE /\ files' = Append(files, <<>>)
            \/ UNCHANGED <<file, files>>
<1> USE ConstantAssumption
<1>1. /\ Receive
      /\ UNCHANGED <<kind_vars, queue_vars, mixer_vars, poll_vars, server_vars>>
      /\ buf_pos = HeaderSize - 1 /\ reading' = unit.n
      /\ flag' = IF buf_pos = 0 THEN unit.flag ELSE flag
  BY DEF EndHeader
<1>2. buf_pos < HeaderSize  BY <1>1
<1>3. /\ \A i \in 1..Len(files) : \A j \in 1..Len(files[i]) : files[i][j] < unit.n
      /\ unit.flag = None /\ file => EndsWith(unit.n - 1)
      /\ flag' = unit.flag
  BY <1>1, <1>2, HeaderOrder
<1>4. unit.n \in Nat  BY <1>1, Places DEF Frame
<1>5. Growing' /\ SenderDue' /\ ChainDue' /\ ReaderDue'  BY <1>1, <1>3, ReceiveOrder
<1>6. ~is_raw_'  BY <1>1 DEF kind_vars
<1>7. CASE flag' = Stop /\ file' = FALSE /\ buf_pos' = 0 /\ UNCHANGED files
  <2>1. \A i \in 1..Len(files) : \A j \in 1..Len(files[i]) : files[i][j] <= unit.n
    <3>1. \A i \in 1..Len(files) : \A j \in 1..Len(files[i]) : files[i][j] \in Nat
      BY DEF IInv, Filed
    <3> QED  BY <1>3, <1>4, <3>1
  <2>2. FilesDue'  BY <1>1, <1>7, <2>1 DEF FilesDue
  <2> QED  BY <1>5, <1>6, <1>7, <2>2 DEF Order
<1>8. CASE /\ flag' # Stop
           /\ file' = TRUE
           /\ files' = Append(files, <<>>)
           /\ buf_pos' = HeaderSize
  <2>1. files \in Seq(Seq(Frame)) /\ Len(files) \in Nat /\ <<>> \in Seq(Frame)
    BY FileDomains, EmptySeq
  <2>2. /\ Len(files') = Len(files) + 1
        /\ \A i \in 1..Len(files) : files'[i] = files[i]
        /\ files'[Len(files')] = <<>>
    BY <1>8, <2>1, AppendProperties
  <2>3. ASSUME NEW i \in 1..Len(files'), NEW j \in 1..Len(files'[i])
        PROVE  files'[i][j] < unit.n
    <3>1. i # Len(files')  BY <2>2, <2>3, EmptySeq
    <3>2. i \in 1..Len(files) /\ files'[i] = files[i]  BY <2>1, <2>2, <3>1
    <3> QED  BY <1>3, <3>2
  <2>4. ASSUME NEW i \in 1..Len(files'), NEW j \in 1..Len(files'[i])
        PROVE  files'[i][j] <= unit.n
    <3>1. files'[i][j] \in Nat
      <4>1. IInv'  BY EndHeaderInv
      <4>2. files'[i][j] \in 1..Len(puts')  BY <4>1 DEF IInv, Filed
      <4> QED  BY <4>2
    <3> QED  BY <1>4, <2>3, <3>1
  <2>5. EndsWith(reading - 1)'  BY <2>2 DEF EndsWith
  <2>6. FilesDue'  BY <1>1, <1>8, <2>3, <2>4, <2>5 DEF FilesDue
  <2> QED  BY <1>5, <1>6, <1>8, <2>6 DEF Order
<1>9. CASE flag' = None /\ file /\ buf_pos' = HeaderSize /\ UNCHANGED <<file, files>>
  <2>1. EndsWith(unit.n - 1)  BY <1>3, <1>9
  <2>2. EndsWith(reading - 1)'  BY <1>1, <1>9, <2>1 DEF EndsWith
  <2>3. \A i \in 1..Len(files) : \A j \in 1..Len(files[i]) : files[i][j] <= unit.n
    <3>1. \A i \in 1..Len(files) : \A j \in 1..Len(files[i]) : files[i][j] \in Nat
      BY DEF IInv, Filed
    <3> QED  BY <1>3, <1>4, <3>1
  <2>4. FilesDue'  BY <1>1, <1>3, <1>9, <2>2, <2>3 DEF FilesDue
  <2> QED  BY <1>5, <1>6, <1>9, <2>4 DEF Order
<1> QED  BY <1>7, <1>8, <1>9 DEF EndHeader

\* So does a frame that is not complete.
LEMMA ReadBodyOrder ==
  ASSUME IInv, Order, ~is_raw_, ReadBody
  PROVE  Order' /\ UNCHANGED <<is_raw_, file, files>>
<1> USE ConstantAssumption
<1>1. /\ Receive
      /\ UNCHANGED <<kind_vars, queue_vars, mixer_vars, poll_vars, server_vars>>
      /\ UNCHANGED <<file, files, flag>>
      /\ buf_pos \in HeaderSize..HeaderSize + BodySize - 2
      /\ buf_pos' = buf_pos + 1 /\ reading' = unit.n
  BY DEF ReadBody
<1>2. buf_pos # 0 /\ buf_pos >= HeaderSize /\ buf_pos' # 0 /\ buf_pos' >= HeaderSize
      /\ buf_pos' \notin 1..HeaderSize - 1
  BY <1>1
<1>3. unit.n = reading /\ unit.flag = flag
  BY <1>1, <1>2, Places DEF Start
<1>4. FilesDue'
  <2>1. FilesDue /\ reading' = reading  BY <1>1, <1>3 DEF Order
  <2> QED  BY <1>1, <1>2, <2>1 DEF FilesDue, EndsWith
<1>5. Growing' /\ SenderDue' /\ ChainDue' /\ ReaderDue'  BY <1>1, <1>3, ReceiveOrder
<1>6. is_raw_' = is_raw_  BY <1>1 DEF kind_vars
<1> QED  BY <1>1, <1>4, <1>5, <1>6 DEF Order

\* A complete frame is later than all in the files, and follows the last of its file.
LEMMA EndBodyOrder ==
  ASSUME IInv, Order, ~is_raw_, EndBody
  PROVE  /\ Order' /\ ~is_raw_'
         /\ file /\ file' /\ unit.n \in Frame
         /\ files' = [files EXCEPT ![Len(files)] = Append(@, unit.n)]
         /\ \A i \in 1..Len(files) : \A j \in 1..Len(files[i]) : files[i][j] < unit.n
         /\ files[Len(files)] # <<>> =>
              unit.n = files[Len(files)][Len(files[Len(files)])] + 1
<1> USE ConstantAssumption
<1>1. /\ Receive
      /\ UNCHANGED <<kind_vars, queue_vars, mixer_vars, poll_vars, server_vars>>
      /\ UNCHANGED <<file, flag>>
      /\ buf_pos = HeaderSize + BodySize - 1
      /\ buf_pos' = Start /\ reading' = unit.n
      /\ files' = [files EXCEPT ![Len(files)] = Append(@, unit.n)]
  BY DEF EndBody
<1>2. buf_pos # 0 /\ buf_pos >= HeaderSize /\ Start = 0  BY <1>1 DEF Start
<1>3. /\ unit.n = reading /\ unit.flag = flag /\ unit.n \in Frame /\ unit.n \in Nat
      /\ unit.n # 0 /\ unit.at = buf_pos
  BY <1>1, <1>2, Places DEF Frame
<1>4. flag # Stop
  <2>1. unit.at < End(unit) /\ unit.at \in Nat
    <3>1. Truthful(unit)  BY <1>1, Received
    <3>2. End(unit) \in Int  BY DEF End
    <3> QED  BY <1>2, <3>1, <3>2 DEF Truthful
  <2> QED  BY <1>2, <1>3, <2>1 DEF End
<1>5. /\ file /\ EndsWith(unit.n - 1)
      /\ \A i \in 1..Len(files) : \A j \in 1..Len(files[i]) : files[i][j] < unit.n
  BY <1>2, <1>3 DEF Order, FilesDue
<1>6. /\ files \in Seq(Seq(Frame)) /\ Len(files) \in Nat
      /\ \A i \in 1..Len(files) : files[i] \in Seq(Frame) /\ Len(files[i]) \in Nat
      /\ \A i \in 1..Len(files) : \A j \in 1..Len(files[i]) : files[i][j] \in Nat
  BY FileDomains DEF IInv, Filed
<1> DEFINE last == Len(files)
           grown == Append(files[last], unit.n)
<1>7. last \in 1..Len(files)
  <2>1. files # <<>>  BY <1>2 DEF IInv, Filed
  <2> QED  BY <1>6, <2>1, EmptySeq
<1>8. /\ grown \in Seq(Frame) /\ Len(grown) = Len(files[last]) + 1
      /\ \A j \in 1..Len(files[last]) : grown[j] = files[last][j]
      /\ grown[Len(files[last]) + 1] = unit.n
  BY <1>3, <1>6, <1>7, AppendProperties
<1>9. /\ Len(files') = Len(files)
      /\ \A i \in 1..Len(files) : files'[i] = IF i = last THEN grown ELSE files[i]
  <2>1. files' = [files EXCEPT ![last] = grown]  BY <1>1
  <2> HIDE DEF grown, last
  <2> QED  BY <1>6, <1>7, <1>8, <2>1, ExceptSeq
<1>10. unit.n = files[last][Len(files[last])] + 1 \/ files[last] = <<>>
  <2>1. ASSUME files[last] # <<>>
        PROVE  unit.n = files[last][Len(files[last])] + 1
    <3>1. Len(files[last]) \in 1..Len(files[last])  BY <1>6, <1>7, <2>1, EmptySeq
    <3>2. files[last][Len(files[last])] \in Nat  BY <1>6, <1>7, <3>1
    <3>3. files[last][Len(files[last])] = unit.n - 1  BY <1>5, <2>1 DEF EndsWith
    <3> QED  BY <1>3, <3>2, <3>3
  <2> QED  BY <2>1
<1>11. FilesDue'
  <2>1. ASSUME NEW i \in 1..Len(files'), NEW j \in 1..Len(files'[i])
        PROVE  files'[i][j] <= unit.n
    <3> HIDE DEF last, grown
    <3>1. CASE i # last
      <4>1. files'[i] = files[i] /\ i \in 1..Len(files)  BY <1>9, <2>1, <3>1
      <4>2. files[i][j] < unit.n /\ files[i][j] \in Nat  BY <1>5, <1>6, <2>1, <4>1
      <4> QED  BY <1>3, <4>1, <4>2
    <3>2. CASE i = last
      <4>1. files'[i] = grown /\ j \in 1..Len(files[last]) + 1  BY <1>7, <1>8, <1>9, <2>1, <3>2
      <4>2. CASE j \in 1..Len(files[last])
        <5>1. files[last][j] < unit.n /\ files[last][j] \in Nat  BY <1>5, <1>6, <1>7, <4>2
        <5> QED  BY <1>3, <1>8, <4>1, <4>2, <5>1
      <4>3. CASE j = Len(files[last]) + 1
        BY <1>3, <1>8, <4>1, <4>3
      <4>4. Len(files[last]) \in Nat  BY <1>6, <1>7
      <4> QED  BY <4>1, <4>2, <4>3, <4>4
    <3> QED  BY <3>1, <3>2
  <2>2. EndsWith(reading)'
    <3> HIDE DEF last, grown
    <3>1. files'[last] = grown  BY <1>7, <1>9
    <3>2. files'[Len(files')] = grown  BY <1>9, <3>1 DEF last
    <3> QED  BY <1>1, <1>8, <3>2 DEF EndsWith
  <2>3. buf_pos' = 0  BY <1>1, <1>2
  <2>4. reading' # 0 /\ flag' # Stop  BY <1>1, <1>3, <1>4
  <2> QED  BY <1>1, <2>1, <2>2, <2>3, <2>4 DEF FilesDue
<1>12. Growing' /\ SenderDue' /\ ChainDue' /\ ReaderDue'  BY <1>1, <1>3, ReceiveOrder
<1>13. ~is_raw_'  BY <1>1 DEF kind_vars
<1> QED  BY <1>1, <1>3, <1>5, <1>10, <1>11, <1>12, <1>13 DEF Order
--------------------------------------------------------------------------------
\* The variables of the recording that the stream implements.
Recording_vars == <<IF is_raw_ THEN <<>> ELSE files, ~is_raw_ /\ file>>

\* Each step of the stream keeps Order, and is a step of the recording or none.
LEMMA NextOrder ==
  ASSUME IInv, Order, [Next]_vars
  PROVE  Order' /\ [Recorded!Next]_Recording_vars
<1>1. is_raw_' = is_raw_
  BY DEF Next, MixerThread, ServerThread, DoSend, SinkProcess, vars, kind_vars, PutFrame,
         ScheduleSend, Poll, ReadMessages, TakeFrame, SkipFrame, WriteFrame, WriteBlocked, SentAll,
         ReadHeader, EndHeader, ReadBody, EndBody
<1>2. UNCHANGED <<file, files>> => UNCHANGED Recording_vars  BY <1>1 DEF Recording_vars
<1>3. CASE is_raw_  BY <1>1, <1>3 DEF Order, Recording_vars
<1>4. CASE ~is_raw_
  <2>1. CASE \E record, cut \in BOOLEAN : PutFrame(record, cut)
    <3>1. UNCHANGED <<file, files>>  BY <2>1 DEF PutFrame, sink_vars
    <3> QED  BY <1>2, <1>4, <2>1, <3>1, PutFrameOrder
  <2>2. CASE ScheduleSend \/ Poll \/ ReadMessages \/ WriteBlocked \/ SentAll \/ UNCHANGED vars
    <3>1. UNCHANGED <<file, files>>
      BY <2>2 DEF ScheduleSend, Poll, ReadMessages, WriteBlocked, SentAll, sink_vars, vars
    <3> QED  BY <1>2, <1>4, <2>2, <3>1, WaitingOrder
  <2>3. CASE TakeFrame
    <3>1. UNCHANGED <<file, files>>  BY <2>3 DEF TakeFrame, sink_vars
    <3> QED  BY <1>2, <1>4, <2>3, <3>1, TakeFrameOrder
  <2>4. CASE SkipFrame
    <3>1. UNCHANGED <<file, files>>  BY <2>4 DEF SkipFrame, sink_vars
    <3> QED  BY <1>2, <1>4, <2>4, <3>1, SkipFrameOrder
  <2>5. CASE WriteFrame
    <3>1. UNCHANGED <<file, files>>  BY <2>5 DEF WriteFrame, sink_vars
    <3> QED  BY <1>2, <1>4, <2>5, <3>1, WriteFrameOrder
  <2>6. CASE ReadHeader  BY <1>2, <1>4, <2>6, ReadHeaderOrder
  <2>7. CASE EndHeader
    <3>1. /\ Order'
          /\ \/ file' = FALSE /\ UNCHANGED files
             \/ file' = TRUE /\ files' = Append(files, <<>>)
             \/ UNCHANGED <<file, files>>
      BY <1>4, <2>7, EndHeaderOrder
    <3>2. CASE file' = FALSE /\ UNCHANGED files
      <4>1. Recorded!Close  BY <1>1, <1>4, <3>2 DEF Recorded!Close
      <4> QED  BY <3>1, <4>1 DEF Recorded!Next
    <3>3. CASE file' = TRUE /\ files' = Append(files, <<>>)
      <4>1. Recorded!Create  BY <1>1, <1>4, <3>3 DEF Recorded!Create
      <4> QED  BY <3>1, <4>1 DEF Recorded!Next
    <3>4. CASE UNCHANGED <<file, files>>  BY <1>2, <3>1, <3>4
    <3> QED  BY <3>1, <3>2, <3>3, <3>4
  <2>8. CASE ReadBody  BY <1>2, <1>4, <2>8, ReadBodyOrder
  <2>9. CASE EndBody
    <3>1. /\ Order'
          /\ file /\ file' /\ unit.n \in Frame
          /\ files' = [files EXCEPT ![Len(files)] = Append(@, unit.n)]
          /\ \A i \in 1..Len(files) : \A j \in 1..Len(files[i]) : files[i][j] < unit.n
          /\ files[Len(files)] # <<>> =>
               unit.n = files[Len(files)][Len(files[Len(files)])] + 1
      BY <1>4, <2>9, EndBodyOrder
    <3>2. /\ DOMAIN files = 1..Len(files)
          /\ \A i \in 1..Len(files) : DOMAIN files[i] = 1..Len(files[i])
      BY FileDomains
    <3>3. Recorded!Later(unit.n)  BY <1>4, <3>1, <3>2 DEF Recorded!Later
    <3>4. Recorded!Follows(unit.n)  BY <1>4, <3>1 DEF Recorded!Follows
    <3>5. Recorded!Write(unit.n)
      <4>1. file' = file  BY <2>9 DEF EndBody
      <4> QED  BY <1>1, <1>4, <3>1, <3>3, <3>4, <4>1 DEF Recorded!Write
    <3> QED  BY <3>1, <3>5 DEF Recorded!Next
  <2> QED
    BY <2>1, <2>2, <2>3, <2>4, <2>5, <2>6, <2>7, <2>8, <2>9
    DEF Next, MixerThread, ServerThread, DoSend, SinkProcess
<1> QED  BY <1>3, <1>4

\* A stream with headers is read as a recording: within each of its files the frames follow
\* each other, however they were dropped, skipped or cut off on their way.
THEOREM Refinement == Spec => ImplementsRecording
<1>1. Init => Order /\ Recorded!Init
  BY InitOrder DEF Init, Recorded!Init
<1>2. IInv /\ Order /\ [Next]_vars => Order' /\ [Recorded!Next]_Recording_vars
  BY NextOrder
<1> QED  BY <1>1, <1>2, Invariance, PTL DEF Spec, ImplementsRecording, Recorded!Spec, Recording_vars
================================================================================

--------------------------- MODULE SinkStream_proofs ---------------------------
(***************************************************************************)
(* Proofs about the stream to a sink, for any queue, any sizes of header,   *)
(* frame and socket, and any number of frames.                              *)
(*                                                                          *)
(* The inductive invariant follows the frames: those in the queue are as    *)
(* they were put (Queued); the units on the wire are what was sent of them  *)
(* (Sent), each the successor of the one before (Chain); the next to be     *)
(* sent succeeds the last of them (SenderEnd), and the reader stands before *)
(* the first (ReaderEnd), or before the next to be sent if there is none    *)
(* (Meeting).                                                               *)
(***************************************************************************)
EXTENDS SinkStream, SequenceTheorems, TLAPS

Pending == messages + (IF put_pc = "wake" THEN 1 ELSE 0)

\* A message is on its way only for a frame that the server thread does not know of.
Wakeups ==
  /\ WakeupAhead
  /\ queue_ = <<>> => Pending = 0 /\ (pollout => serve_pc = "sent_all")
  /\ Pending <= 1
  /\ pollout /\ serve_pc # "sent_all" => Pending = 0
  /\ serve_pc \in {"lock", "write"} => pollout
  /\ serve_pc = "messages" /\ sock_ready => pollout
  /\ serve_pc = "messages" /\ pipe_ready => messages > 0

Sending ==
  /\ serve_pc = "write" => queue_ # <<>>
  /\ finished_frame => serve_pc = "lock" /\ queue_ # <<>> /\ frame_pos_ = 0
  /\ frame_pos_ # 0 => queue_ # <<>> /\ ~Skipped
  /\ queue_ # <<>> => frame_pos_ < Past - First
  /\ is_recording_ => will_record_

Queued ==
  \A i \in 1..Len(queue_) :
    /\ queue_[i].n \in 1..Len(puts)
    /\ queue_[i].do_record = puts[queue_[i].n].do_record
    /\ queue_[i].cut_before = puts[queue_[i].n].cut_before

\* Where the message of a unit ends, and the place of the unit after it.
End(u)   == IF u.flag = Stop THEN HeaderSize ELSE HeaderSize + BodySize
After(u) == IF u.at + 1 = End(u) THEN Start ELSE u.at + 1

\* What a unit that was sent says is so.
Truthful(u) ==
  /\ u.n \in 1..Len(puts)
  /\ u.at \in Start..End(u) - 1
  /\ is_raw_ => u.flag # Stop
  /\ will_record_ /\ u.at >= HeaderSize => puts[u.n].do_record
  /\ u.flag = None => ~puts[u.n].cut_before

Sent == \A i \in 1..Len(wire) : Truthful(wire[i])

\* v is the unit after u.
Succeeds(u, v) ==
  /\ v.at = After(u)
  /\ v.at # Start => v.n = u.n /\ v.flag = u.flag

Chain == \A i \in 1..Len(wire) - 1 : Succeeds(wire[i], wire[i + 1])

\* The place of the next unit to be sent.
SendAt == Start + frame_pos_

SenderEnd ==
  wire # <<>> => /\ SendAt = After(wire[Len(wire)])
                 /\ SendAt # Start => /\ wire[Len(wire)].n = elem.n
                                      /\ wire[Len(wire)].flag = Flag

\* The sink is about to read the unit at a place, of a frame and with a flag.
Expects(at, n, f) ==
  /\ at = buf_pos
  /\ buf_pos # Start => n = reading /\ (~is_raw_ => f = flag)

ReaderEnd == wire # <<>> => Expects(wire[1].at, wire[1].n, wire[1].flag)

Meeting == wire = <<>> => /\ SendAt = buf_pos
                          /\ buf_pos # Start => Expects(SendAt, elem.n, Flag)

Filed ==
  /\ \A i \in 1..Len(files) : \A j \in 1..Len(files[i]) : files[i][j] \in 1..Len(puts)
  /\ file \/ buf_pos >= HeaderSize => files # <<>>
  /\ buf_pos # Start => reading \in 1..Len(puts)
  /\ ~is_raw_ /\ buf_pos # Start /\ flag = None => ~puts[reading].cut_before
  /\ ~is_raw_ /\ buf_pos >= HeaderSize /\ flag # None => files[Len(files)] = <<>>
  /\ OnlyRecorded
  /\ CutHonoured

IInv == TypeOK /\ Wakeups /\ Sending /\ Queued /\ Sent /\ Chain /\ SenderEnd /\ ReaderEnd
        /\ Meeting /\ Filed

\* The stream that has not begun satisfies the invariant.
LEMMA InitInv == Init => IInv
<1> USE ConstantAssumption
<1> SUFFICES ASSUME Init PROVE IInv  OBVIOUS
<1>1. TypeQueue
  <2>1. queue_ \in Seq(Elem) /\ Len(queue_) = 0 /\ puts \in Seq(Put) /\ Len(puts) = 0
    BY EmptySeq DEF Init
  <2>2. queue_len \in Nat /\ MaxFrames \in Nat  BY ConstantAssumption
  <2>3. Len(queue_) <= queue_len /\ Len(puts) <= MaxFrames  BY <2>1, <2>2
  <2>4. put_pc \in {"idle", "wake"} /\ overflowed_ \in BOOLEAN  BY DEF Init
  <2>5. is_raw_ \in BOOLEAN /\ will_record_ \in BOOLEAN /\ ~(is_raw_ /\ will_record_)
    BY DEF Init
  <2> QED  BY <2>1, <2>3, <2>4, <2>5 DEF TypeQueue
<1>2. TypeServer
  <2>1. wire \in Seq(Unit) /\ Len(wire) = 0  BY EmptySeq DEF Init
  <2>2. Len(wire) <= SocketRoom  BY <2>1
  <2>3. frame_pos_ \in 0..HeaderSize + BodySize - 1  BY DEF Init
  <2> QED  BY <2>1, <2>2, <2>3 DEF Init, TypeServer
<1>3. TypeSink
  <2>1. <<>> \in Seq(Frame)  BY EmptySeq
  <2>2. files \in Seq(Seq(Frame))  BY <2>1 DEF Init
  <2> QED  BY <2>2 DEF Init, TypeSink, Start, Flags
<1>4. Wakeups  BY DEF Init, Wakeups, WakeupAhead, Pending
<1>5. Sending /\ Queued  BY DEF Init, Sending, Queued
<1>6. Sent /\ Chain /\ SenderEnd /\ ReaderEnd  BY DEF Init, Sent, Chain, SenderEnd, ReaderEnd
<1>7. Meeting  BY DEF Init, Meeting, SendAt, Start
<1>8. Filed
  <2>1. \A i \in 1..Len(files) : files[i] = <<>>  BY DEF Init
  <2>2. DOMAIN files = 1..Len(files)  BY <1>3, LenProperties DEF TypeSink
  <2>3. \A i \in 1..Len(files) : DOMAIN files[i] = {}  BY <2>1
  <2>4. OnlyRecorded /\ CutHonoured  BY <2>2, <2>3 DEF OnlyRecorded, CutHonoured
  <2>5. file \/ buf_pos >= HeaderSize => files # <<>>  BY DEF Init, Start
  <2>6. buf_pos = Start  BY DEF Init
  <2>7. ~(~is_raw_ /\ buf_pos >= HeaderSize)  BY DEF Init, Start
  <2> QED  BY <2>1, <2>4, <2>5, <2>6, <2>7 DEF Filed
<1> QED  BY <1>1, <1>2, <1>3, <1>4, <1>5, <1>6, <1>7, <1>8 DEF IInv, TypeOK
--------------------------------------------------------------------------------
\* A part of the invariant whose variables a step leaves alone still holds after it.
LEMMA Unmoved ==
  ASSUME IInv, UNCHANGED kind_vars
  PROVE  /\ UNCHANGED <<queue_vars, mixer_vars>> => TypeQueue'
         /\ UNCHANGED sink_vars => TypeSink'
         /\ UNCHANGED <<queue_, put_pc, poll_vars, serve_pc, pipe_ready, sock_ready>> => Wakeups'
         /\ UNCHANGED <<queue_, serve_pc, finished_frame, is_recording_, frame_pos_>> => Sending'
         /\ UNCHANGED <<queue_, puts>> => Queued'
         /\ UNCHANGED <<wire, puts>> => Sent' /\ Chain'
         /\ UNCHANGED <<wire, queue_, is_recording_, frame_pos_>> => SenderEnd'
         /\ UNCHANGED <<wire, sink_vars>> => ReaderEnd'
         /\ UNCHANGED <<wire, queue_, is_recording_, frame_pos_, sink_vars>> => Meeting'
         /\ UNCHANGED <<sink_vars, puts>> => Filed'
<1> USE DEF IInv, kind_vars
<1>1. UNCHANGED <<queue_vars, mixer_vars>> => TypeQueue'
  BY DEF TypeOK, TypeQueue, queue_vars, mixer_vars
<1>2. UNCHANGED sink_vars => TypeSink'
  BY DEF TypeOK, TypeSink, sink_vars
<1>3. UNCHANGED <<queue_, put_pc, poll_vars, serve_pc, pipe_ready, sock_ready>> => Wakeups'
  BY DEF Wakeups, WakeupAhead, Pending, poll_vars
<1>4. UNCHANGED <<queue_, serve_pc, finished_frame, is_recording_, frame_pos_>> => Sending'
  BY DEF Sending, Skipped, Past, First, Start, elem
<1>5. UNCHANGED <<queue_, puts>> => Queued'
  BY DEF Queued
<1>6. UNCHANGED <<wire, puts>> => Sent' /\ Chain'
  BY DEF Sent, Truthful, Chain, Succeeds, After, End, Start
<1>7. UNCHANGED <<wire, queue_, is_recording_, frame_pos_>> => SenderEnd'
  BY DEF SenderEnd, SendAt, After, End, Start, Flag, elem
<1>8. UNCHANGED <<wire, sink_vars>> => ReaderEnd'
  BY DEF ReaderEnd, Expects, Start, sink_vars
<1>9. UNCHANGED <<wire, queue_, is_recording_, frame_pos_, sink_vars>> => Meeting'
  BY DEF Meeting, Expects, SendAt, Start, Flag, elem, sink_vars
<1>10. UNCHANGED <<sink_vars, puts>> => Filed'
  BY DEF Filed, OnlyRecorded, CutHonoured, Start, sink_vars
<1> QED  BY <1>1, <1>2, <1>3, <1>4, <1>5, <1>6, <1>7, <1>8, <1>9, <1>10

\* The types of what the server thread has.
LEMMA UnmovedServer ==
  ASSUME IInv, UNCHANGED <<poll_vars, server_vars, wire>>
  PROVE  TypeServer'
BY DEF IInv, TypeOK, TypeServer, poll_vars, server_vars

\* The front of a queue that is not empty.
LEMMA Front ==
  ASSUME IInv, queue_ # <<>>
  PROVE  elem = queue_[1] /\ elem \in Elem /\ 1 \in 1..Len(queue_)
<1>1. queue_ \in Seq(Elem)  BY DEF IInv, TypeOK, TypeQueue
<1>2. Len(queue_) \in Nat \ {0}  BY <1>1, EmptySeq
<1> QED  BY <1>1, <1>2, ElementOfSeq DEF elem

\* The flag of a frame that is sent tells whether it follows its header.
LEMMA FlagFits ==
  ASSUME IInv, queue_ # <<>>, ~Skipped
  PROVE  /\ Flag \in Flags
         /\ Past = IF Flag = Stop THEN HeaderSize ELSE HeaderSize + BodySize
         /\ is_raw_ => Flag # Stop
         /\ will_record_ /\ Flag # Stop => elem.do_record
         /\ Flag = None => ~elem.cut_before
<1>1. elem \in Elem  BY Front
<1>2. is_recording_ => will_record_  BY DEF IInv, Sending
<1>3. ~(is_raw_ /\ will_record_)  BY DEF IInv, TypeOK, TypeQueue
<1>4. Flag = Stop <=> is_recording_ /\ ~elem.do_record
  BY DEF Flag, Stop, Overflow, CutFlag, None
<1>5. Flag = None => ~elem.cut_before
  BY DEF Flag, Stop, Overflow, CutFlag, None
<1>6. Flag \in Flags  BY DEF Flag, Flags
<1>7. Past = IF Flag = Stop THEN HeaderSize ELSE HeaderSize + BodySize
  BY <1>2, <1>4 DEF Past, Skipped
<1> QED  BY <1>2, <1>3, <1>4, <1>5, <1>6, <1>7 DEF Skipped
--------------------------------------------------------------------------------

\* The number and the place of what is sent next stay, when the queue grows at its end.
LEMMA PutFrameInv ==
  ASSUME IInv, NEW record \in BOOLEAN, NEW cut \in BOOLEAN, PutFrame(record, cut)
  PROVE  IInv'
<1> USE ConstantAssumption
<1> DEFINE n == Len(puts) + 1
           p == [do_record |-> record, cut_before |-> cut, kept |-> ~full]
           e == Element(n, record, cut)
<1>1. /\ queue_ \in Seq(Elem) /\ Len(queue_) \in Nat
      /\ puts \in Seq(Put) /\ Len(puts) \in Nat /\ n \in Frame
  BY LenProperties DEF IInv, TypeOK, TypeQueue, PutFrame, Frame
<1>2. p \in Put /\ e \in Elem
  <2>1. full \in BOOLEAN  BY DEF full
  <2> QED  BY <1>1, <2>1 DEF Put, Elem, Element, IInv, TypeOK, TypeQueue
<1>3. /\ puts' = Append(puts, p)
      /\ queue_' = IF full THEN queue_ ELSE Append(queue_, e)
  BY DEF PutFrame
<1>4. /\ puts' \in Seq(Put) /\ Len(puts') = n /\ puts'[n] = p
      /\ \A i \in 1..Len(puts) : i \in 1..Len(puts') /\ puts'[i] = puts[i]
  BY <1>1, <1>2, <1>3, AppendProperties
<1>5. /\ Append(queue_, e) \in Seq(Elem) /\ Len(Append(queue_, e)) = Len(queue_) + 1
      /\ Append(queue_, e) # <<>>
      /\ \A i \in 1..Len(queue_) : Append(queue_, e)[i] = queue_[i]
      /\ Append(queue_, e)[Len(queue_) + 1] = e
  BY <1>1, <1>2, AppendProperties
<1>6. queue_ # <<>> => queue_' # <<>> /\ elem' = elem
  <2>1. Head(Append(queue_, e)) = IF queue_ = <<>> THEN e ELSE Head(queue_)
    BY <1>1, HeadTailAppend
  <2> QED  BY <1>3, <1>5, <2>1 DEF elem
<1>7. UNCHANGED <<kind_vars, poll_vars, server_vars, wire, sink_vars>>  BY DEF PutFrame
<1>8. TypeQueue'
  <2>1. queue_' \in Seq(Elem)  BY <1>1, <1>3, <1>5
  <2>2. Len(queue_') <= queue_len  BY <1>1, <1>3, <1>5 DEF full, IInv, TypeOK, TypeQueue
  <2>3. overflowed_' \in BOOLEAN  BY DEF PutFrame, full
  <2>4. put_pc' \in {"idle", "wake"}  BY DEF PutFrame
  <2>5. Len(puts') <= MaxFrames  BY <1>1, <1>4 DEF PutFrame
  <2> QED  BY <1>4, <1>7, <2>1, <2>2, <2>3, <2>4, <2>5
           DEF TypeQueue, kind_vars, IInv, TypeOK
<1>9. TypeServer' /\ TypeSink'  BY <1>7, UnmovedServer, Unmoved
<1>10. Wakeups'
  <2>1. put_pc' = IF ~full /\ queue_ = <<>> THEN "wake" ELSE "idle"
    BY DEF PutFrame, was_empty
  <2>2. put_pc = "idle" /\ messages \in Nat  BY DEF PutFrame, IInv, TypeOK, TypeServer
  <2>3. full => queue_ # <<>>  BY <1>1, EmptySeq DEF full
  <2>4. CASE queue_ = <<>>
    <3>1. queue_' # <<>> /\ put_pc' = "wake"  BY <1>3, <1>5, <2>1, <2>3, <2>4
    <3>2. messages = 0 /\ (pollout => serve_pc = "sent_all")
          /\ serve_pc \notin {"write"}
      BY <2>2, <2>4 DEF IInv, Wakeups, Pending, Sending
    <3> QED  BY <1>7, <3>1, <3>2 DEF Wakeups, WakeupAhead, Pending, poll_vars, server_vars, IInv
  <2>5. CASE queue_ # <<>>
    <3>1. put_pc' = "idle" /\ queue_' # <<>>  BY <1>6, <2>1, <2>5
    <3> QED  BY <1>7, <2>2, <2>5, <3>1
             DEF Wakeups, WakeupAhead, Pending, poll_vars, server_vars, IInv
  <2> QED  BY <2>4, <2>5
<1>11. Sending'
  <2>1. UNCHANGED <<serve_pc, finished_frame, frame_pos_, is_recording_, is_raw_, will_record_>>
    BY <1>7 DEF server_vars, kind_vars
  <2>2. CASE queue_ # <<>>
    BY <1>6, <2>1, <2>2 DEF IInv, Sending, Skipped, Past, First, Start
  <2>3. CASE queue_ = <<>>
    <3>1. frame_pos_ = 0 /\ ~finished_frame /\ serve_pc # "write"
      BY <2>3 DEF IInv, Sending, TypeOK, TypeServer
    <3>2. 0 < (Past - First)'  BY <2>1 DEF Past, First, Start, IInv, TypeOK, TypeQueue
    <3> QED  BY <2>1, <3>1, <3>2 DEF IInv, Sending
  <2> QED  BY <2>2, <2>3
<1>12. Queued'
  <2>1. SUFFICES ASSUME NEW i \in 1..Len(queue_')
                 PROVE  /\ queue_'[i].n \in 1..Len(puts')
                        /\ queue_'[i].do_record = puts'[queue_'[i].n].do_record
                        /\ queue_'[i].cut_before = puts'[queue_'[i].n].cut_before
    BY DEF Queued
  <2>2. CASE i \in 1..Len(queue_)
    <3>1. queue_'[i] = queue_[i]  BY <1>3, <1>5, <2>2
    <3> QED  BY <1>4, <2>2, <3>1 DEF IInv, Queued
  <2>3. CASE i \notin 1..Len(queue_)
    <3>1. queue_'[i] = e  BY <1>1, <1>3, <1>5, <2>1, <2>3
    <3>2. e.n = n /\ e.do_record = record /\ e.cut_before = cut  BY DEF Element
    <3> QED  BY <1>1, <1>4, <3>1, <3>2
  <2> QED  BY <2>2, <2>3
<1>13. Sent'
  <2>1. SUFFICES ASSUME NEW i \in 1..Len(wire) PROVE Truthful(wire[i])'
    BY <1>7 DEF Sent
  <2>2. Truthful(wire[i])  BY DEF IInv, Sent
  <2> QED  BY <1>4, <1>7, <2>2 DEF Truthful, kind_vars, Start, End
<1>14. Chain'  BY <1>7 DEF IInv, Chain, Succeeds, After, End, Start, kind_vars
<1>15. SenderEnd'
  <2>1. UNCHANGED <<SendAt, Start, frame_pos_, is_recording_, wire>>
    BY <1>7 DEF SendAt, Start, server_vars, kind_vars
  <2>2. SendAt # Start => queue_ # <<>>
    BY DEF SendAt, Start, IInv, Sending, TypeOK, TypeServer
  <2>3. queue_ # <<>> => Flag' = Flag  BY <1>6, <2>1 DEF Flag
  <2>4. \A u : After(u)' = After(u)  BY <1>7 DEF After, End, Start, kind_vars
  <2>5. CASE SendAt = Start
    BY <2>1, <2>4, <2>5 DEF SenderEnd, IInv, After, End
  <2>6. CASE SendAt # Start
    BY <1>6, <2>1, <2>2, <2>3, <2>6 DEF SenderEnd, IInv, After, End
  <2> QED  BY <2>5, <2>6
<1>16. ReaderEnd'  BY <1>7, Unmoved
<1>17. Meeting'
  <2>1. UNCHANGED <<SendAt, Start, is_recording_, wire, buf_pos, reading, flag, is_raw_>>
    BY <1>7 DEF SendAt, Start, server_vars, kind_vars, sink_vars
  <2>2. SendAt # Start => queue_ # <<>>
    BY DEF SendAt, Start, IInv, Sending, TypeOK, TypeServer
  <2>3. queue_ # <<>> => Flag' = Flag  BY <1>6, <2>1 DEF Flag
  <2> QED  BY <1>6, <2>1, <2>2, <2>3 DEF Meeting, Expects, IInv
<1>18. Filed'
  <2>1. UNCHANGED <<is_raw_, will_record_, file, files, buf_pos, flag, reading>>
    BY <1>7 DEF kind_vars, sink_vars
  <2>2. files \in Seq(Seq(Frame))  BY DEF IInv, TypeOK, TypeSink
  <2>3. DOMAIN files = 1..Len(files)  BY <2>2, LenProperties
  <2>4. \A i \in 1..Len(files) : DOMAIN files[i] = 1..Len(files[i])
    <3>1. \A i \in 1..Len(files) : files[i] \in Seq(Frame)  BY <2>2, ElementOfSeq
    <3> QED  BY <3>1, LenProperties
  <2>5. \A i \in 1..Len(files) : \A j \in DOMAIN files[i] : puts'[files[i][j]] = puts[files[i][j]]
    BY <1>4, <2>4 DEF IInv, Filed
  <2>6. OnlyRecorded'
    <3>1. OnlyRecorded  BY DEF IInv, Filed
    <3> QED  BY <2>1, <2>3, <2>5, <3>1 DEF OnlyRecorded
  <2>7. CutHonoured'
    <3>1. CutHonoured  BY DEF IInv, Filed
    <3> QED  BY <2>1, <2>3, <2>5, <3>1 DEF CutHonoured
  <2> QED  BY <1>4, <2>1, <2>6, <2>7 DEF IInv, Filed, Start
<1> QED  BY <1>8, <1>9, <1>10, <1>11, <1>12, <1>13, <1>14, <1>15, <1>16, <1>17, <1>18
         DEF IInv, TypeOK
--------------------------------------------------------------------------------
\* The message that put_frame writes wakes the server thread (connection::schedule_send).
LEMMA ScheduleSendInv == IInv /\ ScheduleSend => IInv'
<1> SUFFICES ASSUME IInv, ScheduleSend PROVE IInv'  OBVIOUS
<1>1. UNCHANGED <<kind_vars, queue_vars, pollout, server_vars, wire, sink_vars, puts>>
  BY DEF ScheduleSend
<1>2. put_pc = "wake" /\ put_pc' = "idle" /\ messages \in Nat /\ messages' = messages + 1
  BY DEF ScheduleSend, IInv, TypeOK, TypeServer
<1>3. TypeQueue'
  BY <1>1, <1>2 DEF IInv, TypeOK, TypeQueue, kind_vars, queue_vars
<1>4. TypeServer'
  BY <1>1, <1>2 DEF IInv, TypeOK, TypeServer, server_vars
<1>5. Wakeups'
  BY <1>1, <1>2 DEF IInv, Wakeups, WakeupAhead, Pending, queue_vars, server_vars
<1>6. /\ TypeSink' /\ Sending' /\ Queued' /\ Sent' /\ Chain' /\ SenderEnd' /\ ReaderEnd'
      /\ Meeting' /\ Filed'
  BY <1>1, Unmoved DEF queue_vars, server_vars
<1> QED  BY <1>3, <1>4, <1>5, <1>6 DEF IInv, TypeOK

\* poll only reports what is there.
LEMMA PollInv == IInv /\ Poll => IInv'
<1> SUFFICES ASSUME IInv, Poll PROVE IInv'  OBVIOUS
<1>1. UNCHANGED <<kind_vars, queue_vars, mixer_vars, poll_vars, finished_frame, is_recording_,
                  frame_pos_, wire, sink_vars>>
  BY DEF Poll
<1>2. /\ serve_pc = "poll" /\ serve_pc' = "messages"
      /\ pipe_ready' = (messages > 0)
      /\ sock_ready' = (pollout /\ Len(wire) < SocketRoom)
  BY DEF Poll
<1>3. TypeServer'
  <2>1. pipe_ready' \in BOOLEAN /\ sock_ready' \in BOOLEAN  BY <1>2
  <2> QED  BY <1>1, <1>2, <2>1 DEF IInv, TypeOK, TypeServer, poll_vars
<1>4. Wakeups'
  BY <1>1, <1>2 DEF IInv, Wakeups, WakeupAhead, Pending, queue_vars, mixer_vars, poll_vars
<1>5. Sending'
  BY <1>1, <1>2 DEF IInv, Sending, Skipped, Past, First, Start, elem, queue_vars, kind_vars
<1>6. /\ TypeQueue' /\ TypeSink' /\ Queued' /\ Sent' /\ Chain' /\ SenderEnd' /\ ReaderEnd'
      /\ Meeting' /\ Filed'
  BY <1>1, Unmoved DEF queue_vars, mixer_vars
<1> QED  BY <1>3, <1>4, <1>5, <1>6 DEF IInv, TypeOK

\* Messages read from the pipe become POLLOUT, so that no wakeup is lost in between.
LEMMA ReadMessagesInv == IInv /\ ReadMessages => IInv'
<1> SUFFICES ASSUME IInv, ReadMessages PROVE IInv'  OBVIOUS
<1>1. UNCHANGED <<kind_vars, queue_vars, mixer_vars, pipe_ready, sock_ready, finished_frame,
                  is_recording_, frame_pos_, wire, sink_vars>>
  BY DEF ReadMessages
<1>2. /\ serve_pc = "messages" /\ serve_pc' = IF sock_ready THEN "lock" ELSE "poll"
      /\ messages' = IF pipe_ready THEN 0 ELSE messages
      /\ pollout' = (pollout \/ pipe_ready)
  BY DEF ReadMessages
<1>3. messages \in Nat /\ pollout \in BOOLEAN /\ pipe_ready \in BOOLEAN /\ sock_ready \in BOOLEAN
  BY DEF IInv, TypeOK, TypeServer
<1>4. TypeServer'
  <2>1. pollout' \in BOOLEAN  BY <1>2
  <2>2. messages' \in Nat  BY <1>2, <1>3
  <2>3. serve_pc' \in {"poll", "messages", "lock", "write", "sent_all"}  BY <1>2
  <2> QED  BY <1>1, <2>1, <2>2, <2>3 DEF IInv, TypeOK, TypeServer
<1>5. Wakeups'
  <2>1. UNCHANGED <<queue_, put_pc>>  BY <1>1 DEF queue_vars, mixer_vars
  <2>2. CASE pipe_ready
    <3>1. messages > 0 /\ Pending <= 1  BY <1>2, <2>2 DEF IInv, Wakeups
    <3>2. put_pc # "wake" /\ messages = 1 /\ Pending = 1  BY <1>3, <3>1 DEF Pending
    <3>3. queue_ # <<>>  BY <3>2 DEF IInv, Wakeups
    <3>4. Pending' = 0  BY <1>2, <2>1, <2>2, <3>2 DEF Pending
    <3>5. pollout' /\ serve_pc' \in {"lock", "poll"}  BY <1>2, <2>2
    <3> QED  BY <2>1, <3>3, <3>4, <3>5 DEF Wakeups, WakeupAhead
  <2>3. CASE ~pipe_ready
    <3>1. UNCHANGED <<messages, Pending, put_pc, queue_>>  BY <1>2, <2>1, <2>3 DEF Pending
    <3>2. pollout' = pollout  BY <1>2, <1>3, <2>3
    <3>3. serve_pc' = "lock" => pollout  BY <1>2 DEF IInv, Wakeups
    <3>4. queue_ = <<>> => ~pollout  BY <1>2 DEF IInv, Wakeups
    <3>5. serve_pc' \in {"lock", "poll"}  BY <1>2
    <3> QED  BY <1>2, <3>1, <3>2, <3>3, <3>4, <3>5 DEF IInv, Wakeups, WakeupAhead
  <2> QED  BY <2>2, <2>3
<1>6. Sending'
  BY <1>1, <1>2 DEF IInv, Sending, Skipped, Past, First, Start, elem, queue_vars, kind_vars
<1>7. /\ TypeQueue' /\ TypeSink' /\ Queued' /\ Sent' /\ Chain' /\ SenderEnd' /\ ReaderEnd'
      /\ Meeting' /\ Filed'
  BY <1>1, Unmoved DEF queue_vars, mixer_vars
<1> QED  BY <1>4, <1>5, <1>6, <1>7 DEF IInv, TypeOK

\* An empty queue is seen under its mutex, so whoever puts the next frame sends a message.
LEMMA SentAllInv == IInv /\ SentAll => IInv'
<1> SUFFICES ASSUME IInv, SentAll PROVE IInv'  OBVIOUS
<1>1. UNCHANGED <<kind_vars, queue_vars, mixer_vars, messages, pipe_ready, sock_ready,
                  finished_frame, is_recording_, frame_pos_, wire, sink_vars>>
  BY DEF SentAll
<1>2. serve_pc = "sent_all" /\ serve_pc' = "poll" /\ ~pollout'  BY DEF SentAll
<1>3. TypeServer'  BY <1>1, <1>2 DEF SentAll, IInv, TypeOK, TypeServer
<1>4. Wakeups'
  BY <1>1, <1>2 DEF IInv, Wakeups, WakeupAhead, Pending, queue_vars, mixer_vars
<1>5. Sending'
  BY <1>1, <1>2 DEF IInv, Sending, Skipped, Past, First, Start, elem, queue_vars, kind_vars
<1>6. /\ TypeQueue' /\ TypeSink' /\ Queued' /\ Sent' /\ Chain' /\ SenderEnd' /\ ReaderEnd'
      /\ Meeting' /\ Filed'
  BY <1>1, Unmoved DEF queue_vars, mixer_vars
<1> QED  BY <1>3, <1>4, <1>5, <1>6 DEF IInv, TypeOK

\* A write that takes nothing leaves what is to be sent as it was.
LEMMA WriteBlockedInv == IInv /\ WriteBlocked => IInv'
<1> SUFFICES ASSUME IInv, WriteBlocked PROVE IInv'  OBVIOUS
<1>1. UNCHANGED <<kind_vars, queue_vars, mixer_vars, poll_vars, pipe_ready, sock_ready,
                  finished_frame, is_recording_, frame_pos_, wire, sink_vars>>
  BY DEF WriteBlocked
<1>2. serve_pc = "write" /\ serve_pc' = "poll"  BY DEF WriteBlocked
<1>3. TypeServer'  BY <1>1, <1>2 DEF IInv, TypeOK, TypeServer, poll_vars
<1>4. Wakeups'
  BY <1>1, <1>2 DEF IInv, Wakeups, WakeupAhead, Pending, queue_vars, mixer_vars, poll_vars
<1>5. Sending'
  BY <1>1, <1>2 DEF IInv, Sending, Skipped, Past, First, Start, elem, queue_vars, kind_vars
<1>6. /\ TypeQueue' /\ TypeSink' /\ Queued' /\ Sent' /\ Chain' /\ SenderEnd' /\ ReaderEnd'
      /\ Meeting' /\ Filed'
  BY <1>1, Unmoved DEF queue_vars, mixer_vars
<1> QED  BY <1>3, <1>4, <1>5, <1>6 DEF IInv, TypeOK

\* A frame that is skipped before a recording is not one that was sent in part.
LEMMA SkipFrameInv == IInv /\ SkipFrame => IInv'
<1> SUFFICES ASSUME IInv, SkipFrame PROVE IInv'  OBVIOUS
<1>1. UNCHANGED <<kind_vars, queue_vars, mixer_vars, poll_vars, pipe_ready, sock_ready,
                  is_recording_, frame_pos_, wire, sink_vars>>
  BY DEF SkipFrame
<1>2. serve_pc = "write" /\ serve_pc' = "lock" /\ finished_frame' = TRUE /\ Skipped
  BY DEF SkipFrame
<1>3. TypeServer'  BY <1>1, <1>2 DEF IInv, TypeOK, TypeServer, poll_vars
<1>4. Wakeups'
  BY <1>1, <1>2 DEF IInv, Wakeups, WakeupAhead, Pending, queue_vars, mixer_vars, poll_vars
<1>5. Sending'
  BY <1>1, <1>2 DEF IInv, Sending, Skipped, Past, First, Start, elem, queue_vars, kind_vars
<1>6. /\ TypeQueue' /\ TypeSink' /\ Queued' /\ Sent' /\ Chain' /\ SenderEnd' /\ ReaderEnd'
      /\ Meeting' /\ Filed'
  BY <1>1, Unmoved DEF queue_vars, mixer_vars
<1> QED  BY <1>3, <1>4, <1>5, <1>6 DEF IInv, TypeOK

\* The header made for the front of the queue announces it.
LEMMA TakeFrameInv == IInv /\ TakeFrame => IInv'
<1> SUFFICES ASSUME IInv, TakeFrame PROVE IInv'  OBVIOUS
<1> USE ConstantAssumption
<1>1. UNCHANGED <<kind_vars, overflowed_, mixer_vars, poll_vars, pipe_ready, sock_ready,
                  frame_pos_, wire, sink_vars>>
  BY DEF TakeFrame
<1>2. /\ serve_pc = "lock" /\ ~finished_frame'
      /\ serve_pc' = IF queue_' = <<>> THEN "sent_all" ELSE "write"
      /\ queue_' = IF finished_frame THEN Tail(queue_) ELSE queue_
      /\ is_recording_' = IF finished_frame /\ will_record_ THEN elem.do_record
                          ELSE is_recording_
  BY DEF TakeFrame
<1>3. queue_ \in Seq(Elem) /\ Len(queue_) \in Nat /\ Len(queue_) <= queue_len
  BY LenProperties DEF IInv, TypeOK, TypeQueue
<1>4. finished_frame => queue_ # <<>> /\ frame_pos_ = 0  BY DEF IInv, Sending
<1>5. finished_frame => /\ Tail(queue_) \in Seq(Elem) /\ Len(Tail(queue_)) = Len(queue_) - 1
                        /\ \A i \in 1..Len(Tail(queue_)) : Tail(queue_)[i] = queue_[i + 1]
  BY <1>3, <1>4, HeadTailProperties
<1>6. is_recording_' \in BOOLEAN
  <2>1. finished_frame => elem.do_record \in BOOLEAN  BY <1>4, Front DEF Elem
  <2> QED  BY <1>2, <2>1 DEF IInv, TypeOK, TypeServer
<1>7. TypeQueue'
  BY <1>1, <1>2, <1>3, <1>5 DEF IInv, TypeOK, TypeQueue, kind_vars, mixer_vars
<1>8. TypeServer'
  BY <1>1, <1>2, <1>6 DEF IInv, TypeOK, TypeServer, poll_vars, TakeFrame
<1>9. Wakeups'
  <2>1. pollout /\ Pending = 0  BY <1>2 DEF IInv, Wakeups
  <2>2. pollout' /\ Pending' = 0  BY <1>1, <2>1 DEF Pending, poll_vars, mixer_vars
  <2> QED  BY <1>2, <2>2 DEF Wakeups, WakeupAhead
<1>10. Sending'
  <2>1. UNCHANGED <<is_raw_, will_record_, frame_pos_>>  BY <1>1 DEF kind_vars
  <2>2. is_recording_' => will_record_'  BY <1>2, <2>1 DEF IInv, Sending
  <2>3. CASE finished_frame
    <3>1. frame_pos_' = 0  BY <1>4, <2>1, <2>3
    <3>2. 0 < (Past - First)'  BY <2>1 DEF Past, First, Start, IInv, TypeOK, TypeQueue
    <3> QED  BY <1>2, <2>2, <3>1, <3>2 DEF Sending
  <2>4. CASE ~finished_frame
    BY <1>2, <2>1, <2>2, <2>4 DEF IInv, Sending, Skipped, Past, First, Start, elem
  <2> QED  BY <2>3, <2>4
<1>11. Queued'
  BY <1>1, <1>2, <1>3, <1>5 DEF IInv, Queued, mixer_vars
<1>12. TypeSink' /\ Sent' /\ Chain' /\ ReaderEnd' /\ Filed'
  BY <1>1, Unmoved DEF mixer_vars
<1>13. SenderEnd' /\ Meeting'
  <2>1. CASE finished_frame
    <3>1. SendAt = Start /\ (SendAt = Start)' /\ Start' = Start
      BY <1>1, <1>4, <2>1 DEF SendAt, Start, kind_vars
    <3>2. SenderEnd'  BY <1>1, <3>1 DEF IInv, SenderEnd, After, End
    <3>3. Meeting'
      BY <1>1, <3>1 DEF IInv, Meeting, sink_vars
    <3> QED  BY <3>2, <3>3
  <2>2. CASE ~finished_frame  BY <1>1, <1>2, <2>2, Unmoved
  <2> QED  BY <2>1, <2>2
<1> QED  BY <1>7, <1>8, <1>9, <1>10, <1>11, <1>12, <1>13 DEF IInv, TypeOK
--------------------------------------------------------------------------------
\* The units that are sent in one write: each says the truth, the first succeeds what is
\* before it, and the next to be sent succeeds the last.
LEMMA WriteFrameInv == IInv /\ WriteFrame => IInv'
<1> SUFFICES ASSUME IInv, WriteFrame PROVE IInv'  OBVIOUS
<1> USE ConstantAssumption
<1>1. UNCHANGED <<kind_vars, queue_vars, mixer_vars, poll_vars, pipe_ready, sock_ready,
                  is_recording_, sink_vars>>
  BY DEF WriteFrame
<1>2. PICK k \in 1..SocketRoom :
        /\ Len(wire) + k <= SocketRoom
        /\ frame_pos_ + k <= Len(Units)
        /\ wire' = wire \o SubSeq(Units, frame_pos_ + 1, frame_pos_ + k)
        /\ finished_frame' = (frame_pos_ + k = Len(Units))
        /\ frame_pos_' = new_pos(frame_pos_ + k)
  BY DEF WriteFrame
<1>3. /\ serve_pc = "write" /\ ~Skipped /\ queue_ # <<>>
      /\ serve_pc' = IF finished_frame' THEN "lock" ELSE "poll"
  BY DEF WriteFrame, IInv, Sending
<1>4. /\ elem = queue_[1] /\ elem \in Elem /\ 1 \in 1..Len(queue_)
      /\ Flag \in Flags
      /\ Past = IF Flag = Stop THEN HeaderSize ELSE HeaderSize + BodySize
      /\ is_raw_ => Flag # Stop
      /\ will_record_ /\ Flag # Stop => elem.do_record
      /\ Flag = None => ~elem.cut_before
  BY <1>3, Front, FlagFits
<1>5. frame_pos_ \in Nat /\ frame_pos_ < Past - First /\ First = Start /\ Start \in {0, HeaderSize}
      /\ Past - First \in Nat /\ Past \in Nat
  BY <1>3, <1>4 DEF IInv, Sending, TypeOK, TypeServer, TypeQueue, First, Start
<1> DEFINE Here(i) == [n |-> elem.n, at |-> First + i - 1, flag |-> Flag]
           sent == SubSeq(Units, frame_pos_ + 1, frame_pos_ + k)
<1>6. /\ Len(Units) = Past - First
      /\ \A i \in 1..Past - First : Units[i] = Here(i) /\ Here(i) \in Unit
  <2>1. Units = [i \in 1..Past - First |-> Here(i)]  BY DEF Units
  <2>2. ASSUME NEW i \in 1..Past - First PROVE Here(i) \in Unit
    <3>1. elem.n \in Frame  BY <1>4 DEF Elem
    <3>2. First + i - 1 \in 0..HeaderSize + BodySize - 1  BY <1>4, <1>5, <2>2
    <3> QED  BY <1>4, <3>1, <3>2 DEF Unit
  <2>3. Len(Units) = Past - First
    <3>1. Units \in Seq(Unit)
      <4> HIDE DEF Here
      <4> QED  BY <1>5, <2>1, <2>2, IsASeq
    <3>2. DOMAIN Units = 1..Past - First  BY <2>1
    <3>3. DOMAIN Units = 1..Len(Units) /\ Len(Units) \in Nat  BY <3>1, LenProperties
    <3> QED  BY <1>5, <3>2, <3>3
  <2> QED  BY <2>1, <2>2, <2>3
<1>7. frame_pos_ + k <= Past - First  BY <1>2, <1>6
<1>8. /\ sent \in Seq(Unit) /\ Len(sent) = k
      /\ \A i \in 1..k : sent[i] = Here(frame_pos_ + i)
  <2> HIDE DEF Here
  <2>1. frame_pos_ + 1 \in Int /\ frame_pos_ + k \in Int /\ frame_pos_ + 1 <= frame_pos_ + k
    BY <1>5
  <2>2. \A i \in frame_pos_ + 1 .. frame_pos_ + k : Units[i] \in Unit
    BY <1>5, <1>6, <1>7
  <2>3. /\ sent \in Seq(Unit)
        /\ Len(sent) = k
        /\ \A i \in 1..k : sent[i] = Units[frame_pos_ + i]
    <3> DEFINE a == frame_pos_ + 1
               b == frame_pos_ + k
    <3>1. a \in Int /\ b \in Int /\ a <= b  BY <2>1
    <3>2. \A i \in a .. b : Units[i] \in Unit  BY <2>2
    <3>3. b - a + 1 = k /\ \A i \in 1..k : a + i - 1 = frame_pos_ + i  BY <1>5
    <3>4. sent = SubSeq(Units, a, b)  OBVIOUS
    <3> HIDE DEF a, b, sent
    <3>5. /\ SubSeq(Units, a, b) \in Seq(Unit)
          /\ Len(SubSeq(Units, a, b)) = b - a + 1
          /\ \A i \in 1..b - a + 1 : SubSeq(Units, a, b)[i] = Units[a + i - 1]
      BY <3>1, <3>2, SubSeqProperties
    <3> QED  BY <3>3, <3>4, <3>5
  <2>4. \A i \in 1..k : frame_pos_ + i \in 1..Past - First  BY <1>5, <1>7
  <2> QED  BY <1>6, <2>3, <2>4
<1>9. wire \in Seq(Unit) /\ Len(wire) \in Nat
  BY LenProperties DEF IInv, TypeOK, TypeServer
<1>10. /\ wire' \in Seq(Unit) /\ Len(wire') = Len(wire) + k
       /\ \A i \in 1..Len(wire) + k :
            wire'[i] = IF i <= Len(wire) THEN wire[i] ELSE Here(frame_pos_ + i - Len(wire))
  <2> HIDE DEF Here, sent
  <2>1. /\ wire' \in Seq(Unit) /\ Len(wire') = Len(wire) + k
        /\ \A i \in 1..Len(wire) + k :
             wire'[i] = IF i <= Len(wire) THEN wire[i] ELSE sent[i - Len(wire)]
    <3>1. wire' = wire \o sent  BY <1>2 DEF sent
    <3> QED  BY <1>8, <1>9, <3>1, ConcatProperties
  <2>2. ASSUME NEW i \in 1..Len(wire) + k, i > Len(wire)
        PROVE  sent[i - Len(wire)] = Here(frame_pos_ + i - Len(wire))
    <3>1. i - Len(wire) \in 1..k /\ frame_pos_ + (i - Len(wire)) = frame_pos_ + i - Len(wire)
      BY <1>5, <1>9, <2>2
    <3> QED  BY <1>8, <3>1
  <2> QED  BY <1>9, <2>1, <2>2
<1>11. /\ End(Here(1)) = Past
       /\ \A i \in 1..Past - First : Here(i).at = Start + i - 1 /\ Here(i).n = elem.n
                                     /\ Here(i).flag = Flag /\ End(Here(i)) = Past
  BY <1>4, <1>5 DEF End
<1>12. UNCHANGED <<is_raw_, will_record_, queue_, puts, is_recording_, Start, First, Past, elem, Flag>>
       /\ \A u : After(u)' = After(u) /\ End(u)' = End(u)
  BY <1>1 DEF kind_vars, queue_vars, mixer_vars, Start, First, Past, elem, Flag, After, End
<1>13. frame_pos_' = IF frame_pos_ + k = Past - First THEN 0 ELSE frame_pos_ + k
  BY <1>2, <1>6 DEF new_pos
<1>14. TypeServer'
  <2>1. finished_frame' \in BOOLEAN /\ serve_pc' \in {"poll", "messages", "lock", "write", "sent_all"}
    BY <1>2, <1>3
  <2>2. frame_pos_' \in 0..HeaderSize + BodySize - 1
    BY <1>4, <1>5, <1>7, <1>13
  <2> QED  BY <1>1, <1>2, <1>10, <2>1, <2>2 DEF IInv, TypeOK, TypeServer, poll_vars
<1>15. Wakeups'
  BY <1>1, <1>3 DEF IInv, Wakeups, WakeupAhead, Pending, queue_vars, mixer_vars, poll_vars
<1>16. Sending'
  <2>1. finished_frame' => serve_pc' = "lock" /\ frame_pos_' = 0
    BY <1>2, <1>3, <1>6, <1>13
  <2>2. frame_pos_' < Past - First  BY <1>5, <1>7, <1>13
  <2>3. ~Skipped'  BY <1>3, <1>12 DEF Skipped
  <2>4. serve_pc' # "write"  BY <1>3
  <2> QED  BY <1>3, <1>12, <2>1, <2>2, <2>3, <2>4 DEF IInv, Sending
<1>17. Sent'
  <2>1. SUFFICES ASSUME NEW i \in 1..Len(wire) + k PROVE Truthful(wire[i])'
    BY <1>10 DEF Sent
  <2>2. CASE i <= Len(wire)
    <3>1. Truthful(wire[i]) /\ wire'[i] = wire[i]  BY <1>9, <1>10, <2>2 DEF IInv, Sent
    <3> QED  BY <1>12, <3>1 DEF Truthful
  <2>3. CASE i > Len(wire)
    <3>1. PICK j \in 1..Past - First : wire'[i] = Here(j)
      <4>1. frame_pos_ + i - Len(wire) \in 1..Past - First  BY <1>5, <1>7, <1>9, <2>3
      <4> QED  BY <1>10, <2>3, <4>1
    <3>2. /\ elem.n \in 1..Len(puts) /\ elem.do_record = puts[elem.n].do_record
          /\ elem.cut_before = puts[elem.n].cut_before
      BY <1>4 DEF IInv, Queued
    <3>3. Here(j).at \in Start..Past - 1  BY <1>5, <1>11
    <3>4. Here(j).at >= HeaderSize => Flag # Stop  BY <1>4, <3>3
    <3> HIDE DEF Here
    <3> QED  BY <1>4, <1>11, <1>12, <3>1, <3>2, <3>3, <3>4 DEF Truthful
  <2> QED  BY <1>9, <2>2, <2>3
<1> HIDE DEF Here
<1>18. \A j \in 1..Past - First :
         After(Here(j)) = IF j = Past - First THEN Start ELSE Start + j
  BY <1>5, <1>11 DEF After
<1>19. Chain'
  <2>1. SUFFICES ASSUME NEW i \in 1..Len(wire) + k - 1
                 PROVE  Succeeds(wire[i], wire[i + 1])'
    BY <1>10 DEF Chain
  <2>2. CASE i + 1 <= Len(wire)
    <3>1. Succeeds(wire[i], wire[i + 1])  BY <1>9, <2>2 DEF IInv, Chain
    <3>2. wire'[i] = wire[i] /\ wire'[i + 1] = wire[i + 1]  BY <1>9, <1>10, <2>2
    <3> QED  BY <1>12, <3>1, <3>2 DEF Succeeds
  <2>3. CASE i = Len(wire)
    <3>1. wire'[i] = wire[Len(wire)] /\ wire'[i + 1] = Here(frame_pos_ + 1)
      <4>1. i + 1 \in 1..Len(wire) + k /\ frame_pos_ + (i + 1) - Len(wire) = frame_pos_ + 1
        BY <1>5, <1>9, <2>3
      <4> QED  BY <1>9, <1>10, <2>3, <4>1
    <3>2. wire # <<>>  BY <1>9, <2>3, EmptySeq
    <3>3. Here(frame_pos_ + 1).at = SendAt  /\ Here(frame_pos_ + 1).n = elem.n
          /\ Here(frame_pos_ + 1).flag = Flag
      BY <1>5, <1>7, <1>11 DEF SendAt
    <3> QED  BY <1>12, <3>1, <3>2, <3>3 DEF IInv, SenderEnd, Succeeds
  <2>4. CASE i > Len(wire)
    <3> DEFINE j == frame_pos_ + i - Len(wire)
    <3>1. j \in 1..Past - First - 1 /\ frame_pos_ + (i + 1) - Len(wire) = j + 1
      BY <1>5, <1>7, <1>9, <2>4
    <3>2. wire'[i] = Here(j) /\ wire'[i + 1] = Here(j + 1)  BY <1>9, <1>10, <2>4, <3>1
    <3> HIDE DEF j
    <3>3. After(Here(j)) = Start + j /\ Here(j + 1).at = Start + j
          /\ Here(j + 1).n = Here(j).n /\ Here(j + 1).flag = Here(j).flag
      BY <1>5, <1>11, <1>18, <3>1
    <3> QED  BY <1>12, <3>2, <3>3 DEF Succeeds
  <2> QED  BY <1>9, <2>2, <2>3, <2>4
<1>20. SenderEnd'
  <2>1. wire'[Len(wire')] = Here(frame_pos_ + k)
    <3>1. Len(wire) + k \in 1..Len(wire) + k /\ ~(Len(wire) + k <= Len(wire))
          /\ frame_pos_ + (Len(wire) + k) - Len(wire) = frame_pos_ + k
      BY <1>5, <1>9
    <3> QED  BY <1>10, <3>1
  <2>2. frame_pos_ + k \in 1..Past - First  BY <1>5, <1>7
  <2>3. After(Here(frame_pos_ + k)) = Start + frame_pos_'  BY <1>5, <1>13, <1>18, <2>2
  <2> QED  BY <1>11, <1>12, <2>1, <2>2, <2>3 DEF SenderEnd, SendAt
<1>21. ReaderEnd' /\ Meeting'
  <2>1. UNCHANGED <<buf_pos, reading, flag>>  BY <1>1 DEF sink_vars
  <2>2. wire' # <<>>  BY <1>9, <1>10, EmptySeq
  <2>3. CASE wire # <<>>
    <3>1. wire'[1] = wire[1]
      <4>1. Len(wire) >= 1  BY <1>9, <2>3, EmptySeq
      <4> QED  BY <1>9, <1>10, <4>1
    <3> QED  BY <1>12, <2>1, <2>2, <2>3, <3>1 DEF IInv, ReaderEnd, Meeting, Expects
  <2>4. CASE wire = <<>>
    <3>1. wire'[1] = Here(frame_pos_ + 1)
      <4>1. Len(wire) = 0  BY <2>4
      <4> QED  BY <1>5, <1>10, <4>1
    <3>2. Here(frame_pos_ + 1).at = SendAt  /\ Here(frame_pos_ + 1).n = elem.n
          /\ Here(frame_pos_ + 1).flag = Flag
      BY <1>5, <1>7, <1>11 DEF SendAt
    <3> QED  BY <1>12, <2>1, <2>2, <2>4, <3>1, <3>2 DEF IInv, ReaderEnd, Meeting, Expects
  <2> QED  BY <2>3, <2>4
<1>22. TypeQueue' /\ TypeSink' /\ Queued' /\ Filed'
  BY <1>1, Unmoved DEF queue_vars, mixer_vars
<1> QED  BY <1>14, <1>15, <1>16, <1>17, <1>19, <1>20, <1>21, <1>22 DEF IInv, TypeOK
--------------------------------------------------------------------------------
\* What the sink reads is the unit it expects, and what it will read next succeeds it.
LEMMA Received ==
  ASSUME IInv, Receive,
         UNCHANGED <<kind_vars, queue_vars, mixer_vars, poll_vars, server_vars>>
  PROVE  /\ TypeQueue' /\ TypeServer' /\ Wakeups' /\ Sending' /\ Queued' /\ Sent' /\ Chain'
         /\ SenderEnd'
         /\ unit \in Unit /\ Truthful(unit) /\ Expects(unit.at, unit.n, unit.flag)
         /\ wire' # <<>> => Succeeds(unit, wire'[1])
         /\ wire' = <<>> => /\ SendAt = After(unit)
                            /\ SendAt # Start => unit.n = elem.n /\ unit.flag = Flag
<1> USE ConstantAssumption
<1>1. wire # <<>> /\ wire' = Tail(wire)  BY DEF Receive
<1>2. wire \in Seq(Unit)  BY DEF IInv, TypeOK, TypeServer
<1>3. /\ wire' \in Seq(Unit) /\ Len(wire') = Len(wire) - 1 /\ Len(wire) \in Nat \ {0}
      /\ \A i \in 1..Len(wire') : wire'[i] = wire[i + 1]
      /\ unit = wire[1] /\ unit \in Unit
  BY <1>1, <1>2, HeadTailProperties, EmptySeq DEF unit
<1>4. Truthful(unit) /\ Expects(unit.at, unit.n, unit.flag)
  BY <1>1, <1>3 DEF IInv, Sent, ReaderEnd
<1>5. UNCHANGED <<is_raw_, will_record_, queue_, puts, is_recording_, frame_pos_, Start, elem, Flag,
                  SendAt>>
      /\ \A u : After(u)' = After(u) /\ End(u)' = End(u)
  BY DEF kind_vars, queue_vars, mixer_vars, server_vars, Start, elem, Flag, SendAt, After, End
<1>6. wire' # <<>> => Succeeds(unit, wire'[1])
  <2>1. wire' # <<>> => 1 \in 1..Len(wire') /\ 1 \in 1..Len(wire) - 1  BY <1>3, EmptySeq
  <2> QED  BY <1>3, <2>1 DEF IInv, Chain
<1>7. wire' = <<>> => Len(wire) = 1
  BY <1>3, EmptySeq
<1>8. wire' = <<>> => /\ SendAt = After(unit)
                      /\ SendAt # Start => unit.n = elem.n /\ unit.flag = Flag
  BY <1>1, <1>3, <1>7 DEF IInv, SenderEnd
<1>9. TypeQueue' /\ Wakeups' /\ Sending' /\ Queued'
  BY Unmoved DEF queue_vars, mixer_vars, poll_vars, server_vars
<1>10. TypeServer'
  BY <1>3 DEF IInv, TypeOK, TypeServer, poll_vars, server_vars
<1>11. Sent'
  <2>1. SUFFICES ASSUME NEW i \in 1..Len(wire') PROVE Truthful(wire[i])'  BY DEF Sent
  <2>2. Truthful(wire[i + 1]) /\ wire'[i] = wire[i + 1]  BY <1>3 DEF IInv, Sent
  <2> QED  BY <1>5, <2>2 DEF Truthful
<1>12. Chain'
  <2>1. SUFFICES ASSUME NEW i \in 1..Len(wire') - 1 PROVE Succeeds(wire[i], wire[i + 1])'
    BY DEF Chain
  <2>2. Succeeds(wire[i + 1], wire[i + 1 + 1]) /\ wire'[i] = wire[i + 1]
        /\ wire'[i + 1] = wire[i + 1 + 1]
    BY <1>3 DEF IInv, Chain
  <2> QED  BY <1>5, <2>2 DEF Succeeds
<1>13. SenderEnd'
  <2>1. wire' # <<>> => wire'[Len(wire')] = wire[Len(wire)]
    BY <1>3, EmptySeq
  <2> QED  BY <1>1, <1>5, <2>1 DEF IInv, SenderEnd
<1> QED  BY <1>3, <1>4, <1>6, <1>8, <1>9, <1>10, <1>11, <1>12, <1>13

\* So a sink that then expects the successor is in step.
LEMMA NextExpected ==
  ASSUME IInv, Receive,
         UNCHANGED <<kind_vars, queue_vars, mixer_vars, poll_vars, server_vars>>,
         buf_pos' = After(unit), reading' = unit.n,
         ~is_raw_ /\ buf_pos' # Start => flag' = unit.flag
  PROVE  ReaderEnd' /\ Meeting'
<1>1. /\ wire' # <<>> => Succeeds(unit, wire'[1])
      /\ wire' = <<>> => /\ SendAt = After(unit)
                         /\ SendAt # Start => unit.n = elem.n /\ unit.flag = Flag
  BY Received
<1>2. UNCHANGED <<is_raw_, Start, elem, Flag, SendAt>>
  BY DEF kind_vars, queue_vars, server_vars, Start, elem, Flag, SendAt
<1>3. ReaderEnd'
  BY <1>1, <1>2 DEF ReaderEnd, Expects, Succeeds
<1>4. Meeting'
  BY <1>1, <1>2 DEF Meeting, Expects
<1> QED  BY <1>3, <1>4

\* Where the units of the reader's places end.
LEMMA Places ==
  ASSUME IInv, Receive,
         UNCHANGED <<kind_vars, queue_vars, mixer_vars, poll_vars, server_vars>>
  PROVE  /\ unit.at = buf_pos /\ unit.flag \in Flags /\ unit.n \in Frame /\ unit.n \in 1..Len(puts)
         /\ buf_pos >= Start /\ (buf_pos < HeaderSize => ~is_raw_ /\ Start = 0)
         /\ buf_pos # Start => unit.n = reading /\ (~is_raw_ => unit.flag = flag)
         /\ buf_pos < HeaderSize - 1 => After(unit) = buf_pos + 1
         /\ buf_pos = HeaderSize - 1 => After(unit) = IF unit.flag = Stop THEN 0 ELSE HeaderSize
         /\ buf_pos \in HeaderSize..HeaderSize + BodySize - 2 => After(unit) = buf_pos + 1
         /\ buf_pos = HeaderSize + BodySize - 1 => After(unit) = Start
<1> USE ConstantAssumption
<1>1. unit \in Unit /\ Truthful(unit) /\ Expects(unit.at, unit.n, unit.flag)
  BY Received
<1>2. buf_pos \in Nat /\ unit.at = buf_pos  BY <1>1 DEF Expects, IInv, TypeOK, TypeSink
<1>3. Start = IF is_raw_ THEN HeaderSize ELSE 0  BY DEF Start
<1>4. buf_pos >= Start /\ buf_pos < End(unit)
  BY <1>1, <1>2, <1>3 DEF Truthful, End
<1>5. buf_pos >= HeaderSize => End(unit) = HeaderSize + BodySize
  BY <1>2, <1>4 DEF End
<1>6. buf_pos < HeaderSize - 1 => After(unit) = buf_pos + 1
  BY <1>2 DEF After, End
<1>7. buf_pos = HeaderSize - 1 => After(unit) = IF unit.flag = Stop THEN 0 ELSE HeaderSize
  BY <1>2, <1>3, <1>4 DEF After, End
<1>8. buf_pos \in HeaderSize..HeaderSize + BodySize - 2 => After(unit) = buf_pos + 1
  BY <1>2, <1>5 DEF After
<1>9. buf_pos = HeaderSize + BodySize - 1 => After(unit) = Start
  BY <1>2, <1>5 DEF After
<1>10. unit.flag \in Flags /\ unit.n \in Frame /\ unit.n \in 1..Len(puts)
  BY <1>1 DEF Unit, Truthful
<1>11. buf_pos # Start => unit.n = reading /\ (~is_raw_ => unit.flag = flag)
  BY <1>1 DEF Expects
<1> QED  BY <1>2, <1>3, <1>4, <1>6, <1>7, <1>8, <1>9, <1>10, <1>11
--------------------------------------------------------------------------------
\* The files are sequences of sequences.
LEMMA FileDomains ==
  ASSUME IInv
  PROVE  /\ files \in Seq(Seq(Frame)) /\ Len(files) \in Nat /\ DOMAIN files = 1..Len(files)
         /\ \A i \in 1..Len(files) : /\ files[i] \in Seq(Frame) /\ Len(files[i]) \in Nat
                                     /\ DOMAIN files[i] = 1..Len(files[i])
<1>1. files \in Seq(Seq(Frame))  BY DEF IInv, TypeOK, TypeSink
<1>2. \A i \in 1..Len(files) : files[i] \in Seq(Frame)  BY <1>1, ElementOfSeq
<1> QED  BY <1>1, <1>2, LenProperties

\* The sink reads a unit of a header where it expects one.
LEMMA ReadHeaderInv == IInv /\ ReadHeader => IInv'
<1> SUFFICES ASSUME IInv, ReadHeader PROVE IInv'  OBVIOUS
<1> USE ConstantAssumption
<1>1. /\ Receive
      /\ UNCHANGED <<kind_vars, queue_vars, mixer_vars, poll_vars, server_vars>>
      /\ UNCHANGED <<file, files>>
      /\ buf_pos < HeaderSize - 1 /\ buf_pos' = buf_pos + 1 /\ reading' = unit.n
      /\ flag' = IF buf_pos = 0 THEN unit.flag ELSE flag
  BY DEF ReadHeader
<1>2. buf_pos \in Nat  BY DEF IInv, TypeOK, TypeSink
<1>3. /\ unit.flag \in Flags /\ unit.n \in Frame /\ unit.n \in 1..Len(puts)
      /\ Start = 0 /\ ~is_raw_
      /\ After(unit) = buf_pos + 1
      /\ buf_pos # 0 => unit.flag = flag
  BY <1>1, <1>2, Places
<1>4. flag' = unit.flag  BY <1>1, <1>3
<1>5. Truthful(unit)  BY <1>1, Received
<1>6. ReaderEnd' /\ Meeting'  BY <1>1, <1>3, <1>4, NextExpected
<1>7. TypeSink'
  <2>1. buf_pos' \in 0..HeaderSize + BodySize - 1  BY <1>1, <1>2
  <2> QED  BY <1>1, <1>3, <1>4, <2>1 DEF IInv, TypeOK, TypeSink, Frame
<1>8. Filed'
  <2>1. UNCHANGED <<puts, is_raw_, will_record_, files, file>>
    BY <1>1 DEF kind_vars, mixer_vars
  <2>2. buf_pos' < HeaderSize /\ ~(buf_pos' >= HeaderSize)  BY <1>1, <1>2
  <2>3. unit.flag = None => ~puts[unit.n].cut_before  BY <1>5 DEF Truthful
  <2>4. OnlyRecorded' /\ CutHonoured'
    BY <2>1 DEF OnlyRecorded, CutHonoured, IInv, Filed
  <2> QED  BY <1>1, <1>3, <1>4, <2>1, <2>2, <2>3, <2>4 DEF IInv, Filed
<1> QED  BY <1>1, <1>6, <1>7, <1>8, Received DEF IInv, TypeOK

\* A complete header decides whether the sink begins a new file.
LEMMA EndHeaderInv == IInv /\ EndHeader => IInv'
<1> SUFFICES ASSUME IInv, EndHeader PROVE IInv'  OBVIOUS
<1> USE ConstantAssumption
<1>1. /\ Receive
      /\ UNCHANGED <<kind_vars, queue_vars, mixer_vars, poll_vars, server_vars>>
      /\ buf_pos = HeaderSize - 1 /\ reading' = unit.n
      /\ flag' = IF buf_pos = 0 THEN unit.flag ELSE flag
  BY DEF EndHeader
<1>2. buf_pos \in Nat /\ file \in BOOLEAN  BY DEF IInv, TypeOK, TypeSink
<1>3. /\ unit.flag \in Flags /\ unit.n \in Frame /\ unit.n \in 1..Len(puts)
      /\ Start = 0 /\ ~is_raw_
      /\ After(unit) = IF unit.flag = Stop THEN 0 ELSE HeaderSize
      /\ buf_pos # 0 => unit.flag = flag
  BY <1>1, <1>2, Places
<1>4. flag' = unit.flag  BY <1>1, <1>3
<1>5. UNCHANGED <<puts, is_raw_, will_record_, Start>>
  BY <1>1 DEF kind_vars, mixer_vars, Start
<1>6. unit.flag = None => ~puts[unit.n].cut_before
  BY <1>1, Received DEF Truthful
<1>7. /\ files \in Seq(Seq(Frame)) /\ Len(files) \in Nat /\ DOMAIN files = 1..Len(files)
      /\ \A i \in 1..Len(files) : DOMAIN files[i] = 1..Len(files[i])
  BY FileDomains
<1>8. buf_pos' = After(unit) /\ TypeSink' /\ Filed'
  <2>1. CASE flag' = Stop /\ file' = FALSE /\ buf_pos' = 0 /\ UNCHANGED files
    <3>1. TypeSink'
      <4>1. buf_pos' \in 0..HeaderSize + BodySize - 1  BY <2>1
      <4>2. flag' \in Flags /\ reading' \in 0..MaxFrames  BY <1>1, <1>3, <1>4 DEF Frame
      <4>3. file' \in BOOLEAN  BY <2>1
      <4> QED  BY <1>7, <2>1, <4>1, <4>2, <4>3 DEF TypeSink
    <3>2. OnlyRecorded' /\ CutHonoured'
      BY <1>5, <2>1 DEF OnlyRecorded, CutHonoured, IInv, Filed
    <3>3. Filed'  BY <1>3, <1>5, <2>1, <3>2 DEF IInv, Filed
    <3> QED  BY <1>3, <1>4, <2>1, <3>1, <3>3
  <2>2. CASE /\ flag' # Stop
             /\ file' = TRUE
             /\ files' = Append(files, <<>>)
             /\ buf_pos' = HeaderSize
    <3>1. <<>> \in Seq(Frame)  BY EmptySeq
    <3>2. /\ files' \in Seq(Seq(Frame)) /\ files' # <<>> /\ Len(files') = Len(files) + 1
          /\ \A i \in 1..Len(files) : files'[i] = files[i]
          /\ files'[Len(files')] = <<>>
      BY <1>7, <2>2, <3>1, AppendProperties
    <3>3. DOMAIN files' = 1..Len(files) + 1  BY <3>2, LenProperties
    <3>4. \A i \in 1..Len(files') : (i \in 1..Len(files) /\ files'[i] = files[i]) \/ files'[i] = <<>>
      BY <1>7, <3>2, SMTT(60)
    <3>5. TypeSink'  BY <1>1, <1>3, <1>4, <2>2, <3>2 DEF IInv, TypeOK, TypeSink, Frame
    <3>6. \A i \in 1..Len(files') : \A j \in DOMAIN files'[i] :
            i \in DOMAIN files /\ j \in DOMAIN files[i] /\ files'[i][j] = files[i][j]
      BY <1>7, <3>4
    <3>7. OnlyRecorded' /\ CutHonoured'
      BY <1>5, <3>2, <3>3, <3>6 DEF OnlyRecorded, CutHonoured, IInv, Filed
    <3>8. \A i \in 1..Len(files') : \A j \in 1..Len(files'[i]) : files'[i][j] \in 1..Len(puts)
      BY <3>4 DEF IInv, Filed
    <3>9. Filed'
      BY <1>1, <1>3, <1>4, <1>5, <1>6, <3>2, <3>7, <3>8 DEF Filed
    <3> QED  BY <1>3, <1>4, <2>2, <3>5, <3>9
  <2>3. CASE flag' = None /\ file /\ buf_pos' = HeaderSize /\ UNCHANGED <<file, files>>
    <3>1. TypeSink'  BY <1>1, <1>3, <1>4, <2>3 DEF IInv, TypeOK, TypeSink, Frame
    <3>2. OnlyRecorded' /\ CutHonoured'
      BY <1>5, <2>3 DEF OnlyRecorded, CutHonoured, IInv, Filed
    <3>3. Filed'  BY <1>1, <1>3, <1>4, <1>5, <1>6, <2>3, <3>2 DEF IInv, Filed
    <3>4. None # Stop  BY DEF None, Stop
    <3> QED  BY <1>3, <1>4, <2>3, <3>1, <3>3, <3>4
  <2> QED  BY <2>1, <2>2, <2>3 DEF EndHeader
<1>9. ReaderEnd' /\ Meeting'  BY <1>1, <1>4, <1>8, NextExpected
<1> QED  BY <1>1, <1>8, <1>9, Received DEF IInv, TypeOK

\* The sink reads a unit of the frame whose header it has read.
LEMMA ReadBodyInv == IInv /\ ReadBody => IInv'
<1> SUFFICES ASSUME IInv, ReadBody PROVE IInv'  OBVIOUS
<1> USE ConstantAssumption
<1>1. /\ Receive
      /\ UNCHANGED <<kind_vars, queue_vars, mixer_vars, poll_vars, server_vars>>
      /\ UNCHANGED <<file, files, flag>>
      /\ buf_pos \in HeaderSize..HeaderSize + BodySize - 2
      /\ buf_pos' = buf_pos + 1 /\ reading' = unit.n
  BY DEF ReadBody
<1>2. /\ unit.n \in Frame /\ unit.n \in 1..Len(puts)
      /\ After(unit) = buf_pos + 1
      /\ buf_pos # Start => unit.n = reading /\ (~is_raw_ => unit.flag = flag)
  BY <1>1, Places
<1>3. ~is_raw_ => buf_pos # Start /\ unit.n = reading /\ unit.flag = flag
  BY <1>1, <1>2 DEF Start
<1>4. ReaderEnd' /\ Meeting'  BY <1>1, <1>2, <1>3, NextExpected
<1>5. TypeSink'
  <2>1. buf_pos' \in 0..HeaderSize + BodySize - 1  BY <1>1
  <2> QED  BY <1>1, <1>2, <2>1 DEF IInv, TypeOK, TypeSink, Frame
<1>6. Filed'
  <2>1. UNCHANGED <<puts, is_raw_, will_record_, files, file, flag, Start>>
    BY <1>1 DEF kind_vars, mixer_vars, Start
  <2>2. buf_pos >= HeaderSize /\ buf_pos' >= HeaderSize  BY <1>1
  <2>3. OnlyRecorded' /\ CutHonoured'
    BY <2>1 DEF OnlyRecorded, CutHonoured, IInv, Filed
  <2> QED  BY <1>1, <1>2, <1>3, <2>1, <2>2, <2>3 DEF IInv, Filed
<1> QED  BY <1>1, <1>4, <1>5, <1>6, Received DEF IInv, TypeOK

\* A complete frame is written to the file that its header decided on.
LEMMA EndBodyInv == IInv /\ EndBody => IInv'
<1> SUFFICES ASSUME IInv, EndBody PROVE IInv'  OBVIOUS
<1> USE ConstantAssumption
<1>1. /\ Receive
      /\ UNCHANGED <<kind_vars, queue_vars, mixer_vars, poll_vars, server_vars>>
      /\ UNCHANGED <<file, flag>>
      /\ buf_pos = HeaderSize + BodySize - 1
      /\ buf_pos' = Start /\ reading' = unit.n
      /\ files' = [files EXCEPT ![Len(files)] = Append(@, unit.n)]
  BY DEF EndBody
<1>2. /\ unit.n \in Frame /\ unit.n \in 1..Len(puts) /\ unit.at = buf_pos
      /\ After(unit) = Start
      /\ buf_pos # Start => unit.n = reading /\ (~is_raw_ => unit.flag = flag)
  BY <1>1, Places
<1>3. UNCHANGED <<puts, is_raw_, will_record_, Start>>
  BY <1>1 DEF kind_vars, mixer_vars, Start
<1>4. ReaderEnd' /\ Meeting'  BY <1>1, <1>2, <1>3, NextExpected
<1>5. buf_pos >= HeaderSize /\ (~is_raw_ => buf_pos # Start /\ unit.flag = flag)
  BY <1>1, <1>2 DEF Start
<1>6. /\ will_record_ => puts[unit.n].do_record
      /\ unit.flag = None => ~puts[unit.n].cut_before
  BY <1>1, <1>2, <1>5, Received DEF Truthful
<1>7. /\ files \in Seq(Seq(Frame)) /\ Len(files) \in Nat /\ DOMAIN files = 1..Len(files)
      /\ \A i \in 1..Len(files) : files[i] \in Seq(Frame) /\ Len(files[i]) \in Nat
                                  /\ DOMAIN files[i] = 1..Len(files[i])
  BY FileDomains
<1> DEFINE last == Len(files)
           grown == Append(files[last], unit.n)
<1>8. last \in 1..Len(files)
  <2>1. files # <<>>  BY <1>5 DEF IInv, Filed
  <2> QED  BY <1>7, <2>1, EmptySeq
<1>9. /\ grown \in Seq(Frame) /\ Len(grown) = Len(files[last]) + 1
      /\ \A j \in 1..Len(files[last]) : grown[j] = files[last][j]
      /\ grown[Len(files[last]) + 1] = unit.n
  BY <1>2, <1>7, <1>8, AppendProperties
<1>10. /\ files' \in Seq(Seq(Frame)) /\ Len(files') = Len(files)
       /\ \A i \in 1..Len(files) : files'[i] = IF i = last THEN grown ELSE files[i]
  <2>1. files' = [files EXCEPT ![last] = grown]  BY <1>1
  <2> HIDE DEF grown, last
  <2> QED  BY <1>7, <1>8, <1>9, <2>1, ExceptSeq
<1>11. /\ DOMAIN files' = 1..Len(files)
       /\ \A i \in 1..Len(files) : DOMAIN files'[i] = 1..Len(files'[i])
  <2>1. \A i \in 1..Len(files) : files'[i] \in Seq(Frame)  BY <1>7, <1>9, <1>10
  <2> QED  BY <1>10, <2>1, LenProperties
\* A frame that is in a file now was there, or has just been written.
<1>12. ASSUME NEW i \in 1..Len(files), NEW j \in 1..Len(files'[i])
       PROVE  \/ j \in 1..Len(files[i]) /\ files'[i][j] = files[i][j]
              \/ i = last /\ j = Len(files[last]) + 1 /\ files'[i][j] = unit.n
  <2> HIDE DEF grown, last
  <2>1. CASE i # last
    <3>1. files'[i] = files[i]  BY <1>10, <2>1
    <3> QED  BY <1>12, <3>1
  <2>2. CASE i = last
    <3>1. files'[i] = grown /\ j \in 1..Len(files[last]) + 1
      BY <1>9, <1>10, <1>12, <2>2
    <3>2. Len(files[last]) \in Nat  BY <1>7, <1>8
    <3>3. j \in 1..Len(files[last]) \/ j = Len(files[last]) + 1  BY <3>1, <3>2
    <3> QED  BY <1>9, <2>2, <3>1, <3>3
  <2> QED  BY <2>1, <2>2
<1>13. TypeSink'
  <2>1. buf_pos' \in 0..HeaderSize + BodySize - 1  BY <1>1 DEF Start
  <2> QED  BY <1>1, <1>2, <1>10, <2>1 DEF IInv, TypeOK, TypeSink, Frame
<1>14. OnlyRecorded'
  <2>1. SUFFICES ASSUME will_record_, NEW i \in 1..Len(files), NEW j \in 1..Len(files'[i])
                 PROVE  puts[files'[i][j]].do_record
    BY <1>3, <1>11 DEF OnlyRecorded
  <2>2. CASE j \in 1..Len(files[i]) /\ files'[i][j] = files[i][j]
    BY <1>7, <2>1, <2>2 DEF IInv, Filed, OnlyRecorded
  <2>3. CASE files'[i][j] = unit.n  BY <1>6, <2>1, <2>3
  <2> QED  BY <1>12, <2>1, <2>2, <2>3
<1>15. CutHonoured'
  <2>1. SUFFICES ASSUME ~is_raw_, NEW i \in 1..Len(files), NEW j \in 1..Len(files'[i]), j > 1
                 PROVE  ~puts[files'[i][j]].cut_before
    BY <1>3, <1>11 DEF CutHonoured
  <2>2. CASE j \in 1..Len(files[i]) /\ files'[i][j] = files[i][j]
    BY <1>7, <2>1, <2>2 DEF IInv, Filed, CutHonoured
  <2>3. CASE i = last /\ j = Len(files[last]) + 1 /\ files'[i][j] = unit.n
    <3>1. flag # None => files[last] = <<>>  BY <1>5, <2>1 DEF IInv, Filed
    <3>2. flag = None  BY <2>1, <2>3, <3>1
    <3> QED  BY <1>5, <1>6, <2>1, <2>3, <3>2
  <2> QED  BY <1>12, <2>1, <2>2, <2>3
<1>16. Filed'
  <2>1. \A i \in 1..Len(files') : \A j \in 1..Len(files'[i]) : files'[i][j] \in 1..Len(puts)
    BY <1>2, <1>10, <1>12 DEF IInv, Filed
  <2>2. files' # <<>>  BY <1>8, <1>10
  <2>3. ~is_raw_ => ~(buf_pos' >= HeaderSize)  BY <1>1 DEF Start
  <2> QED  BY <1>1, <1>3, <1>14, <1>15, <2>1, <2>2, <2>3 DEF Filed
<1> QED  BY <1>1, <1>4, <1>13, <1>16, Received DEF IInv, TypeOK
--------------------------------------------------------------------------------
\* The invariant holds in every state of the stream, between the mixer thread, the server
\* thread and the sink.
THEOREM Invariance == Spec => []IInv
<1>1. IInv /\ [Next]_vars => IInv'
  <2> SUFFICES ASSUME IInv, [Next]_vars PROVE IInv'  OBVIOUS
  <2>1. CASE \E record, cut \in BOOLEAN : PutFrame(record, cut)  BY <2>1, PutFrameInv
  <2>2. CASE ScheduleSend  BY <2>2, ScheduleSendInv
  <2>3. CASE Poll  BY <2>3, PollInv
  <2>4. CASE ReadMessages  BY <2>4, ReadMessagesInv
  <2>5. CASE TakeFrame  BY <2>5, TakeFrameInv
  <2>6. CASE SkipFrame  BY <2>6, SkipFrameInv
  <2>7. CASE WriteFrame  BY <2>7, WriteFrameInv
  <2>8. CASE WriteBlocked  BY <2>8, WriteBlockedInv
  <2>9. CASE SentAll  BY <2>9, SentAllInv
  <2>10. CASE ReadHeader  BY <2>10, ReadHeaderInv
  <2>11. CASE EndHeader  BY <2>11, EndHeaderInv
  <2>12. CASE ReadBody  BY <2>12, ReadBodyInv
  <2>13. CASE EndBody  BY <2>13, EndBodyInv
  <2>14. CASE UNCHANGED vars
    <3>1. UNCHANGED <<kind_vars, queue_vars, mixer_vars, poll_vars, server_vars, wire, sink_vars>>
      BY <2>14 DEF vars, kind_vars, queue_vars, mixer_vars, poll_vars, server_vars, sink_vars
    <3>2. UNCHANGED <<queue_, put_pc, puts, serve_pc, pipe_ready, sock_ready, finished_frame,
                      is_recording_, frame_pos_>>
      BY <2>14 DEF vars
    <3> QED  BY <3>1, <3>2, Unmoved, UnmovedServer DEF IInv, TypeOK
  <2> QED
    BY <2>1, <2>2, <2>3, <2>4, <2>5, <2>6, <2>7, <2>8, <2>9, <2>10, <2>11, <2>12, <2>13, <2>14
    DEF Next, MixerThread, ServerThread, DoSend, SinkProcess
<1> QED  BY InitInv, <1>1, PTL DEF Spec

\* The types of the variables, among them the lengths of the queue and of what is in the
\* socket.
THEOREM TypeCorrect == Spec => []TypeOK
<1>1. IInv => TypeOK  BY DEF IInv
<1> QED  BY Invariance, <1>1, PTL

\* put_frame's test for an empty queue and the clearing of POLLOUT by the server thread
\* leave no frame in the queue that nobody will look for.
THEOREM NoLostWakeup == Spec => []WakeupAhead
<1>1. IInv => WakeupAhead  BY DEF IInv, Wakeups
<1> QED  BY Invariance, <1>1, PTL

\* At most one message for a sink is in the pipe or about to be, so that the pipe is
\* bounded by the number of sinks.
THEOREM PipeBounded == Spec => []MessagesFew
<1>1. IInv => MessagesFew  BY DEF IInv, Wakeups, Pending, MessagesFew
<1> QED  BY Invariance, <1>1, PTL

\* However writes and reads are split, sink and server agree on where frames begin.
THEOREM StreamInStep == Spec => []InStep
<1>1. IInv => InStep
  <2>1. wire # <<>> => unit = wire[1]
    BY DEF unit, IInv, TypeOK, TypeServer
  <2> QED  BY <2>1 DEF IInv, ReaderEnd, Expects, InStep
<1> QED  BY Invariance, <1>1, PTL

\* A cut survives the queue, its overflow and the end of a recording.
THEOREM CutsHonoured == Spec => []CutHonoured
<1>1. IInv => CutHonoured  BY DEF IInv, Filed
<1> QED  BY Invariance, <1>1, PTL

\* What a recording sink writes was to be recorded.
THEOREM RecordedOnly == Spec => []OnlyRecorded
<1>1. IInv => OnlyRecorded  BY DEF IInv, Filed
<1> QED  BY Invariance, <1>1, PTL
================================================================================

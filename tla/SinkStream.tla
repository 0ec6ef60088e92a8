------------------------------ MODULE SinkStream ------------------------------
(***************************************************************************)
(* The stream to one sink: the mixer thread puts frames in the queue of the *)
(* connection and wakes the server thread through the message pipe; the     *)
(* server thread sends what the socket takes, a header and a frame at a     *)
(* time (server.cpp, sink_connection and serve); the sink reads them and    *)
(* writes files (dvsink-files.c).                                           *)
(*                                                                          *)
(* Frames are known by their number, the count of put_frame so far.  A unit *)
(* stands for some bytes of a header or of a frame: a write ends between    *)
(* any two.  Connections that fail are left to module Server.               *)
(*                                                                          *)
(* A definition marked "slip" is no part of the specification: it is the    *)
(* one after it with a plausible mistake, which the properties must catch.  *)
(***************************************************************************)
EXTENDS Integers, Sequences

CONSTANTS
  queue_len,                \* capacity of queue_, 30 in the code
  HeaderSize, BodySize,     \* units of a header and of a frame
  \* Bounds of the model, not of the code:
  SocketRoom,               \* units sent and not yet read
  MaxFrames                 \* frames put

\* SINK_FRAME_CUT_STOP, _OVERFLOW and _CUT
Stop == "S"
Overflow == "O"
CutFlag == "C"
None == "0"

ASSUME ConstantAssumption ==
  /\ queue_len \in Nat \ {0}
  /\ HeaderSize \in Nat \ {0} /\ BodySize \in Nat \ {0}
  /\ SocketRoom \in Nat \ {0} /\ MaxFrames \in Nat

VARIABLES
  \* what the sink asked for, constant
  is_raw_, will_record_,
  \* under mutex_
  queue_, overflowed_,
  \* the mixer thread, in the middle of put_frame or not
  put_pc,
  \* messages in the pipe that name the connection, and its events & POLLOUT
  messages, pollout,
  \* the server thread: where it is, the revents of its last poll, and do_send
  serve_pc, pipe_ready, sock_ready, finished_frame, is_recording_, frame_pos_,
  \* units sent and not yet read
  wire,
  \* the sink: units read of the frame it reads, the flag in its header, its number,
  \* whether a file is open, and the frames in each file
  buf_pos, flag, reading, file, files,
  \* the frames put so far, and whether there was room for them
  puts

mixer_vars  == <<put_pc, puts>>
queue_vars  == <<queue_, overflowed_>>
poll_vars   == <<messages, pollout>>
server_vars == <<serve_pc, pipe_ready, sock_ready, finished_frame, is_recording_, frame_pos_>>
sink_vars   == <<buf_pos, flag, reading, file, files>>
kind_vars   == <<is_raw_, will_record_>>

vars == <<is_raw_, will_record_, queue_, overflowed_, put_pc, messages, pollout,
          serve_pc, pipe_ready, sock_ready, finished_frame, is_recording_, frame_pos_,
          wire, buf_pos, flag, reading, file, files, puts>>
--------------------------------------------------------------------------------
\* Where a message starts, for the sink: a raw stream has no headers.
Start == IF is_raw_ THEN HeaderSize ELSE 0

\* A raw stream has no files; what reads it is given every frame.
Init ==
  /\ is_raw_ \in BOOLEAN /\ will_record_ \in BOOLEAN /\ ~(is_raw_ /\ will_record_)
  /\ queue_ = <<>> /\ overflowed_ = FALSE
  /\ put_pc = "idle" /\ puts = <<>>
  /\ messages = 0 /\ pollout = FALSE
  /\ serve_pc = "poll" /\ pipe_ready = FALSE /\ sock_ready = FALSE
  /\ finished_frame = FALSE /\ is_recording_ = FALSE /\ frame_pos_ = 0
  /\ wire = <<>>
  /\ buf_pos = Start /\ flag = None /\ reading = 0
  /\ file = is_raw_ /\ files = IF is_raw_ THEN << <<>> >> ELSE <<>>
--------------------------------------------------------------------------------
(***************************************************************************)
(* sink_connection::put_frame, on the mixer thread.                         *)
(***************************************************************************)
Element(n, record, cut) == [n |-> n, do_record |-> record, cut_before |-> cut,
                            overflow_before |-> overflowed_]

\* slip: room for one more than the queue holds
full_late == Len(queue_) > queue_len

full == Len(queue_) >= queue_len

\* slip: tested when the frame is in the queue
was_empty_late == queue_' = <<>>

\* slip: wakes the server thread for every frame
was_empty_always == TRUE

was_empty == queue_ = <<>>

PutFrame(record, cut) ==
  /\ put_pc = "idle"
  /\ Len(puts) < MaxFrames
  /\ queue_' = IF full THEN queue_ ELSE Append(queue_, Element(Len(puts) + 1, record, cut))
  /\ overflowed_' = full
  /\ put_pc' = IF ~full /\ was_empty THEN "wake" ELSE "idle"
  /\ puts' = Append(puts, [do_record |-> record, cut_before |-> cut, kept |-> ~full])
  /\ UNCHANGED <<kind_vars, poll_vars, server_vars, wire, sink_vars>>

\* After the mutex is unlocked: schedule_send.
ScheduleSend ==
  /\ put_pc = "wake"
  /\ put_pc' = "idle"
  /\ messages' = messages + 1
  /\ UNCHANGED <<kind_vars, queue_vars, pollout, server_vars, wire, sink_vars, puts>>
--------------------------------------------------------------------------------
(***************************************************************************)
(* serve, on the server thread, as far as it concerns this connection.      *)
(***************************************************************************)
Poll ==
  /\ serve_pc = "poll"
  /\ pipe_ready' = (messages > 0)
  /\ sock_ready' = (pollout /\ Len(wire) < SocketRoom)
  /\ pipe_ready' \/ sock_ready'
  /\ serve_pc' = "messages"
  /\ UNCHANGED <<kind_vars, queue_vars, mixer_vars, poll_vars, finished_frame, is_recording_,
                 frame_pos_, wire, sink_vars>>

\* Reads the messages, then looks at the connections with the revents of the poll.
ReadMessages ==
  /\ serve_pc = "messages"
  /\ messages' = IF pipe_ready THEN 0 ELSE messages
  /\ pollout' = (pollout \/ pipe_ready)
  /\ serve_pc' = IF sock_ready THEN "lock" ELSE "poll"
  /\ UNCHANGED <<kind_vars, queue_vars, mixer_vars, pipe_ready, sock_ready, finished_frame,
                 is_recording_, frame_pos_, wire, sink_vars>>

(***************************************************************************)
(* do_send.  elem is a copy of the front of queue_, which only this thread  *)
(* pops.                                                                    *)
(***************************************************************************)
elem == Head(queue_)

\* Under the mutex: pops the frame that is finished, then takes the next.
TakeFrame ==
  /\ serve_pc = "lock"
  /\ is_recording_' = IF finished_frame /\ will_record_ THEN elem.do_record ELSE is_recording_
  /\ queue_' = IF finished_frame THEN Tail(queue_) ELSE queue_
  /\ finished_frame' = FALSE
  /\ serve_pc' = IF queue_' = <<>> THEN "sent_all" ELSE "write"
  /\ UNCHANGED <<kind_vars, overflowed_, mixer_vars, poll_vars, pipe_ready, sock_ready,
                 frame_pos_, wire, sink_vars>>

Skipped == will_record_ /\ ~is_recording_ /\ ~elem.do_record

SkipFrame ==
  /\ serve_pc = "write" /\ Skipped
  /\ finished_frame' = TRUE
  /\ serve_pc' = "lock"
  /\ UNCHANGED <<kind_vars, queue_vars, mixer_vars, poll_vars, pipe_ready, sock_ready,
                 is_recording_, frame_pos_, wire, sink_vars>>

\* slip: an overflow is not flagged
FlagWithoutOverflow == IF is_recording_ /\ ~elem.do_record THEN Stop
                       ELSE IF elem.cut_before THEN CutFlag
                       ELSE None

Flag == IF is_recording_ /\ ~elem.do_record THEN Stop
        ELSE IF elem.overflow_before THEN Overflow
        ELSE IF elem.cut_before THEN CutFlag
        ELSE None

\* The units to send of a frame: at is the place of a unit in a message with a header.
First == Start
Past  == IF ~will_record_ \/ elem.do_record THEN HeaderSize + BodySize ELSE HeaderSize
Units == [i \in 1..(Past - First) |-> [n |-> elem.n, at |-> First + i - 1, flag |-> Flag]]

\* slip: forgets how much of a frame is sent
new_pos_zero(pos) == 0

new_pos(pos) == IF pos = Len(Units) THEN 0 ELSE pos

\* writev takes some units, at most as many as there is room for.
WriteFrame ==
  /\ serve_pc = "write" /\ ~Skipped
  /\ \E k \in 1..SocketRoom :
       /\ Len(wire) + k <= SocketRoom
       /\ frame_pos_ + k <= Len(Units)
       /\ wire' = wire \o SubSeq(Units, frame_pos_ + 1, frame_pos_ + k)
       /\ finished_frame' = (frame_pos_ + k = Len(Units))
       /\ frame_pos_' = new_pos(frame_pos_ + k)
  /\ serve_pc' = IF finished_frame' THEN "lock" ELSE "poll"
  /\ UNCHANGED <<kind_vars, queue_vars, mixer_vars, poll_vars, pipe_ready, sock_ready,
                 is_recording_, sink_vars>>

\* slip: taken for sent_all
WriteBlockedSentAll ==
  /\ serve_pc = "write" /\ ~Skipped
  /\ Len(wire) = SocketRoom
  /\ serve_pc' = "sent_all"
  /\ UNCHANGED <<kind_vars, queue_vars, mixer_vars, poll_vars, pipe_ready, sock_ready,
                 finished_frame, is_recording_, frame_pos_, wire, sink_vars>>

\* writev returns EWOULDBLOCK.
WriteBlocked ==
  /\ serve_pc = "write" /\ ~Skipped
  /\ Len(wire) = SocketRoom
  /\ serve_pc' = "poll"
  /\ UNCHANGED <<kind_vars, queue_vars, mixer_vars, poll_vars, pipe_ready, sock_ready,
                 finished_frame, is_recording_, frame_pos_, wire, sink_vars>>

\* serve, when do_send has returned sent_all.
SentAll ==
  /\ serve_pc = "sent_all"
  /\ pollout' = FALSE
  /\ serve_pc' = "poll"
  /\ UNCHANGED <<kind_vars, queue_vars, mixer_vars, messages, pipe_ready, sock_ready,
                 finished_frame, is_recording_, frame_pos_, wire, sink_vars>>
--------------------------------------------------------------------------------
(***************************************************************************)
(* The sink: transfer_frames of dvsink-files, which asks to record.  A sink *)
(* that does not is no part of the program: it is taken to follow           *)
(* protocol.h, with a new file at each cut.                                 *)
(***************************************************************************)
Receive == wire # <<>> /\ wire' = Tail(wire)
unit == Head(wire)

ReadHeader ==
  /\ buf_pos < HeaderSize - 1
  /\ Receive
  /\ buf_pos' = buf_pos + 1
  /\ flag' = IF buf_pos = 0 THEN unit.flag ELSE flag
  /\ reading' = unit.n
  /\ UNCHANGED <<kind_vars, queue_vars, mixer_vars, poll_vars, server_vars, file, files>>

\* The last unit of a header: opens and closes files as necessary.
EndHeader ==
  /\ buf_pos = HeaderSize - 1
  /\ Receive
  /\ flag' = IF buf_pos = 0 THEN unit.flag ELSE flag
  /\ reading' = unit.n
  /\ \/ /\ flag' = Stop
        /\ file' = FALSE
        /\ buf_pos' = 0
        /\ UNCHANGED files
     \/ /\ flag' # Stop
        /\ flag' # None \/ ~file
        /\ file' = TRUE
        /\ files' = Append(files, <<>>)
        /\ buf_pos' = HeaderSize
     \/ /\ flag' = None /\ file
        /\ buf_pos' = HeaderSize
        /\ UNCHANGED <<file, files>>
  /\ UNCHANGED <<kind_vars, queue_vars, mixer_vars, poll_vars, server_vars>>

ReadBody ==
  /\ buf_pos \in HeaderSize..HeaderSize + BodySize - 2
  /\ Receive
  /\ buf_pos' = buf_pos + 1
  /\ reading' = unit.n
  /\ UNCHANGED <<kind_vars, queue_vars, mixer_vars, poll_vars, server_vars, flag, file, files>>

\* The last unit of a frame, which is then written to the file.
EndBody ==
  /\ buf_pos = HeaderSize + BodySize - 1
  /\ Receive
  /\ reading' = unit.n
  /\ buf_pos' = Start
  /\ files' = [files EXCEPT ![Len(files)] = Append(@, unit.n)]
  /\ UNCHANGED <<kind_vars, queue_vars, mixer_vars, poll_vars, server_vars, flag, file>>
--------------------------------------------------------------------------------
MixerThread == ScheduleSend \/ \E record, cut \in BOOLEAN : PutFrame(record, cut)
DoSend      == TakeFrame \/ SkipFrame \/ WriteFrame \/ WriteBlocked
ServerThread == Poll \/ ReadMessages \/ DoSend \/ SentAll
SinkProcess == ReadHeader \/ EndHeader \/ ReadBody \/ EndBody

Next == MixerThread \/ ServerThread \/ SinkProcess

Spec == Init /\ [][Next]_vars

\* The server thread runs, a put_frame that has begun ends, and the sink keeps reading.
Fairness == WF_vars(ServerThread) /\ WF_vars(ScheduleSend) /\ WF_vars(SinkProcess)

FairSpec == Spec /\ Fairness
--------------------------------------------------------------------------------
Flags == {Stop, Overflow, CutFlag, None}
Frame == 1..MaxFrames
Unit  == [n : Frame, at : 0..HeaderSize + BodySize - 1, flag : Flags]
Elem  == [n : Frame, do_record : BOOLEAN, cut_before : BOOLEAN, overflow_before : BOOLEAN]
Put   == [do_record : BOOLEAN, cut_before : BOOLEAN, kept : BOOLEAN]

TypeQueue ==
  /\ is_raw_ \in BOOLEAN /\ will_record_ \in BOOLEAN /\ ~(is_raw_ /\ will_record_)
  /\ queue_ \in Seq(Elem) /\ Len(queue_) <= queue_len /\ overflowed_ \in BOOLEAN
  /\ put_pc \in {"idle", "wake"} /\ puts \in Seq(Put) /\ Len(puts) <= MaxFrames

TypeServer ==
  /\ messages \in Nat /\ pollout \in BOOLEAN
  /\ serve_pc \in {"poll", "messages", "lock", "write", "sent_all"}
  /\ pipe_ready \in BOOLEAN /\ sock_ready \in BOOLEAN
  /\ finished_frame \in BOOLEAN /\ is_recording_ \in BOOLEAN
  /\ frame_pos_ \in 0..HeaderSize + BodySize - 1
  /\ wire \in Seq(Unit) /\ Len(wire) <= SocketRoom

TypeSink ==
  /\ buf_pos \in 0..HeaderSize + BodySize - 1 /\ flag \in Flags /\ reading \in 0..MaxFrames
  /\ file \in BOOLEAN /\ files \in Seq(Seq(Frame))

TypeOK == TypeQueue /\ TypeServer /\ TypeSink

\* A frame in the queue is never forgotten: POLLOUT is set and will not be cleared before
\* the queue is looked at again, or a message is in the pipe or about to be.
WakeupAhead ==
  queue_ # <<>> => \/ pollout /\ serve_pc # "sent_all"
                   \/ messages > 0
                   \/ put_pc = "wake"

\* The pipe holds at most one message for a sink, however fast frames come and however
\* late the server thread reads: a put_frame that finds the queue empty finds the message
\* of the one before it read.  So the pipe does not fill, and the write in schedule_send,
\* whose failure would end the program, does not fail for that.
MessagesFew == messages + (IF put_pc = "wake" THEN 1 ELSE 0) <= 1

\* However writes are split, the sink reads headers and frames where they begin: the
\* next unit is the one it expects, and belongs to the frame it is reading.
InStep ==
  wire # <<>> => /\ unit.at = buf_pos
                 /\ buf_pos # Start => unit.n = reading

\* A cut asked for is a cut in the recording, also when the frame that carried it was
\* dropped: a frame marked as a cut is the first of its file, if it is in one.
CutHonoured ==
  ~is_raw_ => \A i \in DOMAIN files : \A j \in DOMAIN files[i] :
                j > 1 => ~puts[files[i][j]].cut_before

\* A sink that records has exactly frames to be recorded in its files.
OnlyRecorded ==
  will_record_ => \A i \in DOMAIN files : \A j \in DOMAIN files[i] :
                    puts[files[i][j]].do_record

\* A frame there was room for reaches the sink, if it is to have it.
Delivered ==
  \A n \in Frame :
    (n <= Len(puts) /\ puts[n].kept /\ (will_record_ => puts[n].do_record))
      ~> (\E i \in DOMAIN files : \E j \in DOMAIN files[i] : files[i][j] = n)

\* Seen as recordings, the streams with headers leave nothing out within a file: frames
\* dropped, skipped or cut off are flagged.
Recorded == INSTANCE Recording WITH files <- IF is_raw_ THEN <<>> ELSE files,
                                    file <- ~is_raw_ /\ file

ImplementsRecording == Recorded!Spec
================================================================================

--------------------------------- MODULE Server ---------------------------------
(***************************************************************************)
(* The server thread (server.cpp): it accepts connections, receives         *)
(* greetings and frames, sends what connections have been asked to send, and *)
(* drops connections.  The threads of the mixer ask through a pipe with the *)
(* numbers of descriptors, which are reused when connections come and go.   *)
(*                                                                          *)
(* A client connects at most once, so that it also names its connection     *)
(* object.  A source that does not want activation messages is one that     *)
(* set_active does nothing to.  What a sink is sent is reduced to whether it *)
(* has frames queued: the rest is module SinkStream.                        *)
(*                                                                          *)
(* A definition marked "slip" is no part of the specification: it is the    *)
(* one after it with a plausible mistake, which the properties must catch.  *)
(***************************************************************************)
EXTENDS Integers, Sequences, SequencesExt, FiniteSets

CONSTANTS
  Client,
  FD,                       \* numbers of descriptors
  message_quit,             \* in the pipe, no descriptor
  GREETING_SIZE, DIF_SEQUENCE_SIZE,
  ACT_MSG_SIZE,             \* of an activation message
  RestSize,                 \* of a frame, after its first sequence
  \* Bounds of the model, not of the code:
  MaxUnits,                 \* units read from a client
  MaxCalls                  \* calls of put_frame and set_active

\* The system does not run out of descriptors.
ASSUME ConstantAssumption ==
  /\ message_quit \notin FD
  /\ IsFiniteSet(FD) /\ IsFiniteSet(Client) /\ Cardinality(FD) >= Cardinality(Client)
  /\ GREETING_SIZE \in Nat \ {0} /\ DIF_SEQUENCE_SIZE \in Nat \ {0} /\ RestSize \in Nat \ {0}
  /\ ACT_MSG_SIZE \in Nat \ {0}
  /\ MaxUnits \in Nat /\ MaxCalls \in Nat

VARIABLES
  \* serve: where it is, its connections, the entry of each in poll_fds, and revents of
  \* the pipe and of the listening socket
  serve_pc, i, connections, poll_fds, pipe_ready, listen_ready,
  \* connection objects: kind is "none" without one; size is that of receive_buffer_, and
  \* act_message_ is as last written, "nothing" before that.  act_message_pos_ is that of the
  \* object that do_send is called of: between calls it is 0, or has no value yet
  kind, socket_, size, first_sequence_, act_flags_, act_message_, act_message_pos_, queued,
  \* the pipe, and whether a put_frame or set_active of the mixer is about to write to it
  message_pipe_, call, calls,
  \* clients: those not yet accepted, and how they are connected
  backlog, net,
  \* history: units read, frames put, and whether the object was ever to send
  read, frames, asked

serve_rest  == <<i, connections, poll_fds, pipe_ready, listen_ready>>
serve_vars  == <<serve_pc, serve_rest>>
conn_vars   == <<kind, socket_, size, first_sequence_>>
act_vars    == <<act_flags_, act_message_, act_message_pos_, queued>>
call_vars   == <<message_pipe_, call, calls>>
client_vars == <<backlog, net>>
past_vars   == <<read, frames, asked>>

vars == <<serve_pc, i, connections, poll_fds, pipe_ready, listen_ready, kind, socket_, size,
          first_sequence_, act_flags_, act_message_, act_message_pos_, queued, message_pipe_,
          call, calls, backlog, net, read, frames, asked>>

Kind == {"source", "sink"}
--------------------------------------------------------------------------------
Init ==
  /\ serve_pc = "poll" /\ i = 1 /\ connections = <<>> /\ poll_fds = <<>>
  /\ pipe_ready = FALSE /\ listen_ready = FALSE
  /\ kind = [c \in Client |-> "none"] /\ socket_ = [c \in Client |-> message_quit]
  /\ size = [c \in Client |-> 0] /\ first_sequence_ = [c \in Client |-> TRUE]
  /\ act_flags_ = [c \in Client |-> "inactive"] /\ act_message_ = [c \in Client |-> "nothing"]
  /\ act_message_pos_ = 0 /\ queued = [c \in Client |-> FALSE]
  /\ message_pipe_ = <<>> /\ call = [c \in Client |-> FALSE] /\ calls = 0
  /\ backlog = <<>> /\ net = [c \in Client |-> "away"]
  /\ read = [c \in Client |-> 0] /\ frames = [c \in Client |-> 0]
  /\ asked = [c \in Client |-> FALSE]
--------------------------------------------------------------------------------
(***************************************************************************)
(* Clients.                                                                 *)
(***************************************************************************)
Connect(c) ==
  /\ net[c] = "away"
  /\ net' = [net EXCEPT ![c] = "open"]
  /\ backlog' = Append(backlog, c)
  /\ UNCHANGED <<serve_vars, conn_vars, act_vars, call_vars, past_vars>>

Leave(c) ==
  /\ net[c] = "open"
  /\ net' = [net EXCEPT ![c] = "gone"]
  /\ UNCHANGED <<serve_vars, conn_vars, act_vars, call_vars, backlog, past_vars>>
--------------------------------------------------------------------------------
(***************************************************************************)
(* Calls of the mixer, which holds a mutex from before the object is found  *)
(* until the call is over.                                                  *)
(***************************************************************************)
Call(c) ==
  /\ ~call[c] /\ calls < MaxCalls
  /\ call' = [call EXCEPT ![c] = TRUE]
  /\ asked' = [asked EXCEPT ![c] = TRUE]
  /\ calls' = calls + 1
  /\ UNCHANGED <<serve_vars, conn_vars, act_message_, act_message_pos_, message_pipe_,
                 client_vars, read, frames>>

set_active(c, flag) ==
  /\ kind[c] = "source"
  /\ act_flags_' = [act_flags_ EXCEPT ![c] = flag]
  /\ UNCHANGED queued
  /\ Call(c)

\* Nothing changes for a sink that has a frame queued.
put_frame(c) ==
  /\ kind[c] = "sink" /\ ~queued[c]
  /\ queued' = [queued EXCEPT ![c] = TRUE]
  /\ UNCHANGED act_flags_
  /\ Call(c)

schedule_send(c) ==
  /\ call[c]
  /\ call' = [call EXCEPT ![c] = FALSE]
  /\ message_pipe_' = Append(message_pipe_, socket_[c])
  /\ UNCHANGED <<serve_vars, conn_vars, act_vars, calls, client_vars, past_vars>>

\* The destructor of server, before it waits for the thread.
Quit ==
  /\ message_quit \notin ToSet(message_pipe_)
  /\ serve_pc \notin {"return", "done"}
  /\ message_pipe_' = Append(message_pipe_, message_quit)
  /\ UNCHANGED <<serve_vars, conn_vars, act_vars, call, calls, client_vars, past_vars>>
--------------------------------------------------------------------------------
(***************************************************************************)
(* serve.                                                                   *)
(***************************************************************************)
\* "hup" stands for POLLHUP and POLLERR, one of the ways in which a client goes.  A
\* socket without room for a message is reported too: do_send then finds it blocked.
Revents(j) ==
  LET c   == connections[j]
      out == IF poll_fds[j].pollout THEN {"out"} ELSE {}
  IN  IF net[c] = "gone" THEN {{"hup"}, {"in"}}
      ELSE {out} \cup IF read[c] < MaxUnits THEN {{"in"} \cup out} ELSE {}

Poll ==
  /\ serve_pc = "poll"
  /\ \E r \in [DOMAIN poll_fds -> SUBSET {"hup", "in", "out"}] :
       /\ \A j \in DOMAIN r : r[j] \in Revents(j)
       /\ poll_fds' = [j \in DOMAIN r |-> [poll_fds[j] EXCEPT !.revents = r[j]]]
       /\ message_pipe_ # <<>> \/ backlog # <<>> \/ \E j \in DOMAIN r : r[j] # {}
  /\ pipe_ready' = (message_pipe_ # <<>>)
  /\ listen_ready' = (backlog # <<>>)
  /\ serve_pc' = "messages"
  /\ UNCHANGED <<i, connections, conn_vars, act_vars, call_vars, client_vars, past_vars>>

\* slip: looks at the first message only
ReadFirst(m) == m = Head(message_pipe_)

Read(m) == m \in ToSet(message_pipe_)

\* All messages: the pipe holds fewer than one read takes.  After message_quit nothing
\* is done with the rest.
ReadMessages ==
  /\ serve_pc = "messages"
  /\ \/ /\ pipe_ready
        /\ message_pipe_' = <<>>
        /\ poll_fds' = [j \in DOMAIN poll_fds |->
                          [poll_fds[j] EXCEPT !.pollout = @ \/ Read(poll_fds[j].fd)]]
        /\ serve_pc' = IF Read(message_quit) THEN "return" ELSE "listen"
     \/ /\ ~pipe_ready
        /\ serve_pc' = "listen"
        /\ UNCHANGED <<message_pipe_, poll_fds>>
  /\ pipe_ready' = FALSE
  /\ UNCHANGED <<i, connections, listen_ready, conn_vars, act_vars, call, calls,
                 client_vars, past_vars>>

\* The system gives the new socket any number that no object of the server has.
free(fd) == \A c \in Client : kind[c] # "none" => socket_[c] # fd

\* slip: asks for POLLOUT from the start
new_poll_fd_out(fd) == [fd |-> fd, pollout |-> TRUE, revents |-> {}]

new_poll_fd(fd) == [fd |-> fd, pollout |-> FALSE, revents |-> {}]

\* accept fails if the client has gone.
Accept ==
  /\ serve_pc = "listen"
  /\ \/ /\ listen_ready
        /\ \E fd \in FD :
             /\ free(fd)
             /\ connections' = Append(connections, Head(backlog))
             /\ poll_fds' = Append(poll_fds, new_poll_fd(fd))
             /\ kind' = [kind EXCEPT ![Head(backlog)] = "unknown"]
             /\ socket_' = [socket_ EXCEPT ![Head(backlog)] = fd]
        /\ backlog' = Tail(backlog)
     \/ /\ listen_ready /\ net[Head(backlog)] = "gone"
        /\ backlog' = Tail(backlog)
        /\ UNCHANGED <<connections, poll_fds, kind, socket_>>
     \/ /\ ~listen_ready
        /\ UNCHANGED <<connections, poll_fds, kind, socket_, backlog>>
  /\ serve_pc' = "clients" /\ listen_ready' = FALSE
  /\ UNCHANGED <<i, pipe_ready, size, first_sequence_, act_vars, call_vars, net, past_vars>>

\* The connection that the loop over the clients is at, and its revents.
Visiting == serve_pc = "clients" /\ i <= Len(connections)
this     == connections[i]
revents  == poll_fds[i].revents

\* slip: a call that has begun is not waited for
InCallIgnored == FALSE

InCall == call[this]

\* slip: takes out the entry of the connection before
EntriesLeftShort == RemoveAt(poll_fds, IF i = 1 THEN 1 ELSE i - 1)

EntriesLeft == RemoveAt(poll_fds, i)

\* The destructor takes the object out of the mixer, which waits for a call to end, and
\* closes the socket.  What is left of it has its initial values.
Drop ==
  /\ ~InCall
  /\ connections' = RemoveAt(connections, i)
  /\ poll_fds' = EntriesLeft
  /\ kind' = [kind EXCEPT ![this] = "none"]
  /\ size' = [size EXCEPT ![this] = 0]
  /\ first_sequence_' = [first_sequence_ EXCEPT ![this] = TRUE]
  /\ act_flags_' = [act_flags_ EXCEPT ![this] = "inactive"]
  /\ act_message_' = [act_message_ EXCEPT ![this] = "nothing"]
  /\ queued' = [queued EXCEPT ![this] = FALSE]
  /\ net' = [net EXCEPT ![this] = "gone"]
  /\ read' = [read EXCEPT ![this] = 0]
  /\ frames' = [frames EXCEPT ![this] = 0]
  /\ asked' = [asked EXCEPT ![this] = FALSE]
  /\ act_message_pos_' = 0
  /\ UNCHANGED <<i, pipe_ready, listen_ready, socket_, call_vars, backlog>>

\* The revents of a connection are not looked at again.
Keep ==
  /\ i' = i + 1
  /\ poll_fds' = [poll_fds EXCEPT ![i].revents = {}]
  /\ UNCHANGED <<connections, pipe_ready, listen_ready>>

HangUp ==
  /\ Visiting /\ "hup" \in revents
  /\ Drop /\ UNCHANGED serve_pc

Receiving == Visiting /\ "hup" \notin revents /\ "in" \in revents

\* get_receive_buffer, if the last buffer is full.
wanted ==
  IF size[this] # 0 THEN size[this]
  ELSE CASE kind[this] = "unknown" -> GREETING_SIZE
         [] kind[this] = "sink"    -> 1
         [] OTHER -> IF first_sequence_[this] THEN DIF_SEQUENCE_SIZE ELSE RestSize

\* slip: reads more than there is room for
ReadsAny == 1..MaxUnits

\* What read can return: the size of the buffer, or less.
Reads == 1..wanted

\* handle_complete_receive returns 0: a sink goes on, or the greeting is not known.
Unwelcome == kind[this] \in {"sink", "unknown"}

\* slip: takes the end of the stream for an empty socket
EndIgnored == FALSE

EndOfStream == net[this] = "gone"

DropReceiving ==
  /\ Receiving
  /\ Unwelcome \/ EndOfStream
  /\ Drop /\ UNCHANGED serve_pc

\* slip: expects the rest of a frame ever after
NextIsRest == FALSE

next_is_first == ~first_sequence_[this]

Received(n) ==
  /\ read[this] + n <= MaxUnits
  /\ read' = [read EXCEPT ![this] = @ + n]
  /\ size' = [size EXCEPT ![this] = wanted - n]
  /\ \/ /\ n # wanted
        /\ UNCHANGED <<kind, first_sequence_, frames>>
     \/ /\ n = wanted /\ kind[this] = "unknown"
        /\ \E k \in Kind : kind' = [kind EXCEPT ![this] = k]
        /\ UNCHANGED <<first_sequence_, frames>>
     \/ /\ n = wanted /\ kind[this] = "source"
        /\ first_sequence_' = [first_sequence_ EXCEPT ![this] = next_is_first]
        /\ frames' = [frames EXCEPT ![this] = IF first_sequence_[this] THEN @ ELSE @ + 1]
        /\ UNCHANGED kind

Receive ==
  /\ Receiving
  /\ \E n \in Reads : Received(n)
  /\ Keep
  /\ UNCHANGED <<serve_pc, socket_, act_vars, call_vars, client_vars, asked>>

\* The read returns EWOULDBLOCK.  A buffer that was got for it is the one got next time.
ReceiveBlocked ==
  /\ Receiving /\ net[this] = "open"
  /\ Keep
  /\ UNCHANGED <<serve_pc, conn_vars, act_vars, call_vars, client_vars, past_vars>>
--------------------------------------------------------------------------------
(***************************************************************************)
(* do_send.                                                                 *)
(***************************************************************************)
Sending == Visiting /\ revents = {"out"}

\* There is no do_send for the kind, or the write fails.
SendFailed == kind[this] = "unknown" \/ net[this] = "gone"

DropSending ==
  /\ Sending /\ SendFailed
  /\ Drop /\ UNCHANGED serve_pc

\* act_message_pos_ when do_send begins: it is not initialised, and any number from
\* ACT_MSG_SIZE on is like ACT_MSG_SIZE.
Positions == IF act_message_[this] = "nothing" THEN 0..ACT_MSG_SIZE ELSE {0}

\* The message that is written: one is generated only at position 0.  What else is in the memory
\* differs from any flags, as the flags that are not those of the moment do.
Messages(pos) ==
  IF pos = 0 THEN {act_flags_[this]} ELSE {"active", "inactive"}

\* source_connection::do_send up to its second look at the flags.  It writes from the start of
\* the message whatever the position is, and the write takes a part of it or all.
SendActive ==
  /\ Sending /\ kind[this] = "source"
  /\ \E pos \in Positions, n \in 1..ACT_MSG_SIZE :
       /\ act_message_pos_' = pos + n
       /\ \E m \in Messages(pos) : act_message_' = [act_message_ EXCEPT ![this] = m]
  /\ serve_pc' = "sent"
  /\ UNCHANGED <<serve_rest, conn_vars, act_flags_, queued, call_vars, client_vars,
                 past_vars>>

sent_message == act_message_pos_ = ACT_MSG_SIZE

Same == act_message_[this] = act_flags_[this]

Compare ==
  /\ serve_pc = "sent" /\ sent_message
  /\ act_message_pos_' = 0
  /\ \/ Same  /\ serve_pc' = "sent_all" /\ UNCHANGED serve_rest
     \/ ~Same /\ serve_pc' = "clients" /\ Keep
  /\ UNCHANGED <<conn_vars, act_flags_, act_message_, queued, call_vars, client_vars, past_vars>>

\* Any other position is send_failed.
DropUnsent ==
  /\ serve_pc = "sent" /\ ~sent_message
  /\ Drop /\ serve_pc' = "clients"

\* sink_connection::do_send, with no frames left or with some.
SendFrames ==
  /\ Sending /\ kind[this] = "sink"
  /\ \/ /\ serve_pc' = "sent_all"
        /\ queued' = [queued EXCEPT ![this] = FALSE]
        /\ UNCHANGED serve_rest
     \/ /\ Keep
        /\ UNCHANGED <<serve_pc, queued>>
  /\ UNCHANGED <<conn_vars, act_flags_, act_message_, act_message_pos_, call_vars, client_vars,
                 past_vars>>

\* The write returns EWOULDBLOCK.
SendBlocked ==
  /\ Sending /\ kind[this] # "unknown"
  /\ Keep
  /\ UNCHANGED <<serve_pc, conn_vars, act_vars, call_vars, client_vars, past_vars>>

\* do_send has returned sent_all.
SentAll ==
  /\ serve_pc = "sent_all"
  /\ poll_fds' = [poll_fds EXCEPT ![i].pollout = FALSE, ![i].revents = {}]
  /\ serve_pc' = "clients" /\ i' = i + 1
  /\ UNCHANGED <<connections, pipe_ready, listen_ready, conn_vars, act_vars, call_vars, client_vars,
                 past_vars>>
--------------------------------------------------------------------------------
Pass ==
  /\ Visiting /\ revents = {}
  /\ Keep
  /\ UNCHANGED <<serve_pc, conn_vars, act_vars, call_vars, client_vars, past_vars>>

EndTurn ==
  /\ serve_pc = "clients" /\ i > Len(connections)
  /\ serve_pc' = "poll" /\ i' = 1
  /\ UNCHANGED <<connections, poll_fds, pipe_ready, listen_ready, conn_vars, act_vars, call_vars,
                 client_vars, past_vars>>

\* serve returns, which destroys its connections.
Return ==
  /\ serve_pc = "return"
  /\ \/ connections # <<>> /\ Drop /\ UNCHANGED serve_pc
     \/ connections = <<>> /\ serve_pc' = "done"
        /\ UNCHANGED <<serve_rest, conn_vars, act_vars, call_vars, client_vars, past_vars>>
--------------------------------------------------------------------------------
Clients    == \E c \in Client : Connect(c) \/ Leave(c)
MixerCalls == \E c \in Client : \/ put_frame(c)
                               \/ \E flag \in {"active", "inactive"} : set_active(c, flag)
Schedules  == \E c \in Client : schedule_send(c)
Visit      == \/ HangUp \/ DropReceiving \/ Receive \/ ReceiveBlocked \/ DropSending
              \/ SendActive \/ Compare \/ DropUnsent \/ SendFrames \/ SendBlocked \/ SentAll \/ Pass
Serve      == Poll \/ ReadMessages \/ Accept \/ Visit \/ EndTurn \/ Return

Next == Clients \/ MixerCalls \/ Schedules \/ Quit \/ Serve

Spec == Init /\ [][Next]_vars

\* The server thread runs, and a call that has begun ends.
Fairness == WF_vars(Serve) /\ WF_vars(Schedules)

FairSpec == Spec /\ Fairness
--------------------------------------------------------------------------------
Event == {"hup", "in", "out"}

TypeOK ==
  /\ serve_pc \in {"poll", "messages", "listen", "clients", "sent", "sent_all",
                   "return", "done"}
  /\ i \in 1..Cardinality(Client) + 1 /\ connections \in Seq(Client)
  /\ poll_fds \in Seq([fd : FD, pollout : BOOLEAN, revents : SUBSET Event])
  /\ pipe_ready \in BOOLEAN /\ listen_ready \in BOOLEAN
  /\ kind \in [Client -> Kind \cup {"none", "unknown"}]
  /\ socket_ \in [Client -> FD \cup {message_quit}]
  /\ size \in [Client -> Nat] /\ first_sequence_ \in [Client -> BOOLEAN]
  /\ act_flags_ \in [Client -> {"active", "inactive"}]
  /\ act_message_ \in [Client -> {"active", "inactive", "nothing"}]
  /\ act_message_pos_ \in 0..2 * ACT_MSG_SIZE
  /\ queued \in [Client -> BOOLEAN]
  /\ message_pipe_ \in Seq(FD \cup {message_quit})
  /\ call \in [Client -> BOOLEAN] /\ calls \in 0..MaxCalls
  /\ backlog \in Seq(Client) /\ net \in [Client -> {"away", "open", "gone"}]
  /\ read \in [Client -> 0..MaxUnits] /\ frames \in [Client -> Nat]
  /\ asked \in [Client -> BOOLEAN]

\* The two vectors of serve go together, whatever is dropped and accepted in a turn: the
\* j-th entry to poll is that of the socket of the j-th connection, and no connection
\* object that the mixer can call has lost its place.
FdsAgree ==
  /\ Len(poll_fds) = Len(connections)
  /\ \A j \in DOMAIN connections : poll_fds[j].fd = socket_[connections[j]]
  /\ ToSet(connections) = {c \in Client : kind[c] # "none"}
  /\ IsInjective(connections)

\* A message written for a connection that is gone never reaches the next one with its
\* number: who is asked to send was asked itself.  An object of unknown kind asked to
\* send would be dropped, and a source that was not told would send flags with no value.
AskedToSend ==
  \A j \in DOMAIN connections : poll_fds[j].pollout => asked[connections[j]]

\* There is something to send: a frame, or flags that differ from what was written last.
Owed(c) == \/ kind[c] = "sink" /\ queued[c]
           \/ kind[c] = "source" /\ asked[c] /\ act_message_[c] # act_flags_[c]

\* What is owed to a client is not forgotten while the server runs: a call is about to write a
\* message, it is in the pipe, or POLLOUT is set and not about to be cleared.
SendAhead ==
  serve_pc \notin {"return", "done"} =>
    \A j \in DOMAIN connections :
      Owed(connections[j]) => \/ call[connections[j]]
                              \/ socket_[connections[j]] \in ToSet(message_pipe_)
                              \/ poll_fds[j].pollout /\ ~(serve_pc = "sent_all" /\ i = j)

\* Units that the object has taken of a greeting, or of a frame that is not yet put.
Pending(c) ==
  LET taken(n) == IF size[c] = 0 THEN 0 ELSE n - size[c]
  IN  IF kind[c] = "unknown" THEN taken(GREETING_SIZE)
      ELSE IF first_sequence_[c] THEN taken(DIF_SEQUENCE_SIZE)
      ELSE DIF_SEQUENCE_SIZE + taken(RestSize)

\* However the stream is split into reads, frames begin where the greeting or the last frame
\* ended, and each is put once.
FramesAligned ==
  \A c \in Client :
    kind[c] \in {"unknown", "source"} =>
      read[c] = Pending(c)
              + (IF kind[c] = "unknown" THEN 0 ELSE GREETING_SIZE)
              + frames[c] * (DIF_SEQUENCE_SIZE + RestSize)

\* What a client does that it should not, or leaves.
Cause(c) ==
  \/ net[c] = "gone"
  \/ kind[c] \in {"unknown", "sink"} /\ this = c /\ "in" \in revents

\* do_send of a source fails although the write did not: the socket took a part of the message,
\* or the position was one that nobody gave it.
Torn(c)      == serve_pc = "sent" /\ this = c /\ act_message_pos_ < ACT_MSG_SIZE
Misplaced(c) == serve_pc = "sent" /\ this = c /\ act_message_pos_ > ACT_MSG_SIZE

Dropped(c) == kind[c] # "none" /\ kind'[c] = "none" /\ serve_pc # "return"

\* While the server runs, a connection is dropped only if its client gave cause, or for an
\* activation message that was torn or misplaced (server.cpp:485, 477): neither what the other
\* connections and the mixer do, nor a message about a number that has changed hands, costs a
\* client its connection.
KeptWithoutCause ==
  [][\A c \in Client : Dropped(c) => Cause(c) \/ Torn(c) \/ Misplaced(c)]_vars

\* The destructor returns: the server thread sees the message among all others, and drops
\* its connections in spite of calls of the mixer.
QuitEnds == (message_quit \in ToSet(message_pipe_)) ~> (serve_pc = "done")

\* A client that leaves is dropped, and its descriptor closed.
LeaverDropped ==
  \A c \in Client : (kind[c] # "none" /\ net[c] # "open") ~> (kind[c] = "none")
=================================================================================

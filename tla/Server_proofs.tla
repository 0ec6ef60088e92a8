-------------------------------- MODULE Server_proofs --------------------------------
(***************************************************************************)
(* Proofs about the server thread. The invariant says what connects the     *)
(* three places that know a connection: the vectors of serve, the objects   *)
(* and the numbers of descriptors in the pipe.                              *)
(***************************************************************************)
EXTENDS Server, FiniteSetTheorems, SequenceTheorems, TLAPS

\* The parts of TypeOK, by the groups of variables of the actions.
PollFd == [fd : FD, pollout : BOOLEAN, revents : SUBSET Event]
TypeServe == /\ serve_pc \in {"poll", "messages", "listen", "clients", "sent", "sent_all",
                              "return", "done"}
             /\ i \in Nat \ {0} /\ connections \in Seq(Client) /\ poll_fds \in Seq(PollFd)
             /\ pipe_ready \in BOOLEAN /\ listen_ready \in BOOLEAN
TypeObject == /\ kind \in [Client -> Kind \cup {"none", "unknown"}]
              /\ socket_ \in [Client -> FD \cup {message_quit}]
              /\ size \in [Client -> Nat] /\ first_sequence_ \in [Client -> BOOLEAN]
TypeAct    == /\ act_flags_ \in [Client -> {"active", "inactive"}]
              /\ act_message_ \in [Client -> {"active", "inactive", "nothing"}]
              /\ act_message_pos_ \in 0..2 * ACT_MSG_SIZE
              /\ queued \in [Client -> BOOLEAN]
TypeCall   == /\ message_pipe_ \in Seq(FD \cup {message_quit})
              /\ call \in [Client -> BOOLEAN] /\ calls \in 0..MaxCalls
TypeClient == backlog \in Seq(Client) /\ net \in [Client -> {"away", "open", "gone"}]
TypePast   == /\ read \in [Client -> 0..MaxUnits] /\ frames \in [Client -> Nat]
              /\ asked \in [Client -> BOOLEAN]
Types == TypeServe /\ TypeObject /\ TypeAct /\ TypeCall /\ TypeClient /\ TypePast

\* The client has a connection object.
Live(c) == kind[c] # "none"

\* The vectors of serve have a place for every object, and the loop is at one of them.
Places ==
  /\ Len(poll_fds) = Len(connections)
  /\ \A j, k \in 1..Len(connections) : connections[j] = connections[k] => j = k
  /\ \A c \in Client : Live(c) <=> \E j \in 1..Len(connections) : connections[j] = c
  /\ i <= Len(connections) + 1
  /\ serve_pc \in {"sent", "sent_all"} => i <= Len(connections)
  /\ serve_pc = "sent" => kind[connections[i]] = "source"
  /\ serve_pc \in {"poll", "messages", "listen", "return", "done"} => i = 1

\* What the entry of a connection in poll_fds says is true of it.
Entry(c, e) == /\ e.fd = socket_[c]
               /\ e.pollout => asked[c]
               /\ "hup" \in e.revents => net[c] = "gone"
               /\ "out" \in e.revents => e.pollout
Entries == \A j \in 1..Len(connections) : Entry(connections[j], poll_fds[j])

\* What the parts of an object and its messages have to do with each other.
Object(c) ==
  /\ Live(c) => socket_[c] \in FD /\ net[c] # "away"
  /\ call[c] => asked[c]
  /\ asked[c] => kind[c] \in Kind
  /\ queued[c] => kind[c] = "sink"
  /\ Live(c) /\ socket_[c] \in ToSet(message_pipe_) => asked[c]
Objects == \A c \in Client : Object(c)

\* No two objects have the same descriptor.
Numbers == \A c, d \in Client : Live(c) /\ Live(d) /\ socket_[c] = socket_[d] => c = d

\* Clients that are not yet accepted have no object.
Waiting ==
  /\ \A j, k \in 1..Len(backlog) : backlog[j] = backlog[k] => j = k
  /\ \A j \in 1..Len(backlog) : ~Live(backlog[j]) /\ net[backlog[j]] # "away"
  /\ listen_ready => backlog # <<>>

\* From the reading of the pipe to accept, no message is about a connection that is gone.
PipeFresh ==
  serve_pc = "listen" \/ (serve_pc = "messages" /\ ~pipe_ready) =>
    \A m \in ToSet(message_pipe_) : m = message_quit \/ \E c \in Client : Live(c) /\ socket_[c] = m

\* The same as SendAhead, of one connection.
Ahead(j) ==
  LET c == connections[j]
  IN  Owed(c) => \/ call[c]
                 \/ socket_[c] \in ToSet(message_pipe_)
                 \/ poll_fds[j].pollout /\ ~(serve_pc = "sent_all" /\ i = j)
AllAhead == serve_pc \notin {"return", "done"} => \A j \in 1..Len(connections) : Ahead(j)

\* Where an object is in the stream of its client.
Stream(c) ==
  /\ kind[c] = "none" => size[c] = 0 /\ first_sequence_[c] = TRUE /\ frames[c] = 0 /\ read[c] = 0
  /\ kind[c] = "unknown" =>
       first_sequence_[c] = TRUE /\ frames[c] = 0 /\ read[c] = Pending(c)
  /\ kind[c] = "source" =>
       read[c] = Pending(c) + GREETING_SIZE + frames[c] * (DIF_SEQUENCE_SIZE + RestSize)
Streams == \A c \in Client : Stream(c)

IInv == Types /\ Places /\ Entries /\ Objects /\ Numbers /\ Waiting /\ PipeFresh /\ AllAhead
          /\ Streams

-----------------------------------------------------------------------------------
\* Sequences.

LEMMA Appended ==
  ASSUME NEW S, NEW s \in Seq(S), NEW e \in S
  PROVE  /\ Append(s, e) \in Seq(S)
         /\ Len(Append(s, e)) = Len(s) + 1 /\ Len(s) \in Nat
         /\ Append(s, e)[Len(s) + 1] = e
         /\ \A j \in 1..Len(s) : Append(s, e)[j] = s[j]
         /\ ToSet(Append(s, e)) = ToSet(s) \cup {e}
<1>1. /\ Append(s, e) \in Seq(S) /\ Len(Append(s, e)) = Len(s) + 1 /\ Len(s) \in Nat
      /\ Append(s, e)[Len(s) + 1] = e
      /\ \A j \in 1..Len(s) : Append(s, e)[j] = s[j]
  OBVIOUS
<1>2. DOMAIN s = 1..Len(s) /\ DOMAIN Append(s, e) = 1..(Len(s) + 1)  BY <1>1
<1>3. ToSet(Append(s, e)) = ToSet(s) \cup {e}
  <2>1. ASSUME NEW x \in ToSet(Append(s, e)) PROVE x \in ToSet(s) \cup {e}
    BY <1>1, <1>2, <2>1 DEF ToSet
  <2>2. ASSUME NEW x \in ToSet(s) \cup {e} PROVE x \in ToSet(Append(s, e))
    BY <1>1, <1>2, <2>2 DEF ToSet
  <2> QED  BY <2>1, <2>2
<1> QED  BY <1>1, <1>3

\* The place in s of what RemoveAt leaves at place j.
Place(k, j) == IF j < k THEN j ELSE j + 1

LEMMA Removed ==
  ASSUME NEW S, NEW s \in Seq(S), NEW k \in 1..Len(s)
  PROVE  /\ RemoveAt(s, k) \in Seq(S)
         /\ Len(RemoveAt(s, k)) = Len(s) - 1
         /\ \A j \in 1..Len(s) - 1 : RemoveAt(s, k)[j] = s[Place(k, j)]
<1> DEFINE a == SubSeq(s, 1, k - 1)
           b == SubSeq(s, k + 1, Len(s))
<1>1. Len(s) \in Nat /\ k \in Nat /\ k >= 1 /\ k <= Len(s)  BY LenProperties
<1>2. /\ a \in Seq(S) /\ Len(a) = k - 1
      /\ \A j \in 1..k - 1 : a[j] = s[j]
  BY <1>1
<1>3. /\ b \in Seq(S) /\ Len(b) = Len(s) - k
      /\ \A j \in 1..Len(s) - k : b[j] = s[k + j]
  BY <1>1
<1>4. RemoveAt(s, k) = a \o b  BY DEF RemoveAt
<1> HIDE DEF a, b
<1>5. /\ a \o b \in Seq(S) /\ Len(a \o b) = Len(a) + Len(b)
      /\ \A j \in 1..Len(a) + Len(b) : (a \o b)[j] = IF j <= Len(a) THEN a[j] ELSE b[j - Len(a)]
  BY <1>2, <1>3, ConcatProperties
<1>6. ASSUME NEW j \in 1..Len(s) - 1 PROVE (a \o b)[j] = s[Place(k, j)]
  <2>1. CASE j < k  BY <1>1, <1>2, <1>3, <1>5, <2>1 DEF Place
  <2>2. CASE ~(j < k)
    <3>1. (a \o b)[j] = b[j - (k - 1)]  BY <1>1, <1>2, <1>3, <1>5, <2>2
    <3>2. j - (k - 1) \in 1..Len(s) - k  BY <1>1, <2>2
    <3>3. b[j - (k - 1)] = s[k + (j - (k - 1))]  BY <1>3, <3>2
    <3>4. k + (j - (k - 1)) = j + 1  BY <1>1
    <3> QED  BY <2>2, <3>1, <3>3, <3>4 DEF Place
  <2> QED  BY <2>1, <2>2
<1> QED  BY <1>1, <1>2, <1>3, <1>4, <1>5, <1>6

\* A sequence without repetitions is no longer than there are clients.
LEMMA NoLonger ==
  ASSUME NEW s \in Seq(Client), \A j, k \in 1..Len(s) : s[j] = s[k] => j = k
  PROVE  Len(s) <= Cardinality(Client) /\ Cardinality(Client) \in Nat
<1>1. Len(s) \in Nat /\ s \in [1..Len(s) -> Client]  BY LenProperties
<1>2. IsFiniteSet(Client)  BY ConstantAssumption
<1>3. Cardinality(Client) \in Nat  BY <1>2, FS_CardinalityType
<1>4. IsFiniteSet(1..Len(s)) /\ Cardinality(1..Len(s)) = Len(s)
  <2>1. 1 \in Int /\ Len(s) \in Int  BY <1>1
  <2>2. IsFiniteSet(1..Len(s)) /\ Cardinality(1..Len(s)) = IF 1 > Len(s) THEN 0 ELSE Len(s) - 1 + 1
    BY <2>1, FS_Interval
  <2> QED  BY <1>1, <2>2
<1>5. ASSUME Cardinality(Client) < Cardinality(1..Len(s)) PROVE FALSE
  <2>1. \E x, y \in 1..Len(s) : x # y /\ s[x] = s[y]
    BY <1>1, <1>2, <1>4, <1>5, FS_PigeonHole
  <2> QED  BY <2>1
<1> QED  BY <1>1, <1>3, <1>4, <1>5

-----------------------------------------------------------------------------------
\* What the invariant implies.

LEMMA TypeImplied == Types /\ Places => TypeOK
<1> SUFFICES ASSUME Types, Places PROVE TypeOK  OBVIOUS
<1>1. connections \in Seq(Client) /\ Len(connections) \in Nat  BY LenProperties DEF Types, TypeServe
<1>2. Len(connections) <= Cardinality(Client) /\ Cardinality(Client) \in Nat
  BY <1>1, NoLonger DEF Places
<1>3. i \in 1..Cardinality(Client) + 1
  BY <1>1, <1>2 DEF Types, TypeServe, Places
<1> QED  BY <1>3 DEF Types, TypeServe, TypeObject, TypeAct, TypeCall, TypeClient, TypePast,
                     PollFd, TypeOK

LEMMA InvImplies ==
  ASSUME IInv
  PROVE  TypeOK /\ FdsAgree /\ AskedToSend /\ SendAhead /\ FramesAligned
<1>1. TypeOK  BY TypeImplied DEF IInv
<1>2. DOMAIN connections = 1..Len(connections)  BY DEF IInv, Types, TypeServe
<1>3. FdsAgree
  <2>1. IsInjective(connections)  BY <1>2 DEF IInv, Places, IsInjective
  <2>2. ToSet(connections) = {c \in Client : kind[c] # "none"}
    <3>1. \A j \in 1..Len(connections) : connections[j] \in Client
      BY DEF IInv, Types, TypeServe
    <3> QED  BY <1>2, <3>1 DEF IInv, Places, Live, ToSet
  <2> QED  BY <1>2, <2>1, <2>2 DEF IInv, Places, Entries, Entry, FdsAgree
<1>4. AskedToSend  BY <1>2 DEF IInv, Entries, Entry, AskedToSend
<1>5. SendAhead  BY <1>2 DEF IInv, AllAhead, Ahead, SendAhead
<1>6. FramesAligned
  <2> SUFFICES ASSUME NEW c \in Client, kind[c] \in {"unknown", "source"}
               PROVE  read[c] = Pending(c)
                              + (IF kind[c] = "unknown" THEN 0 ELSE GREETING_SIZE)
                              + frames[c] * (DIF_SEQUENCE_SIZE + RestSize)
    BY DEF FramesAligned
  <2>1. Stream(c)  BY DEF IInv, Streams
  <2>2. CASE kind[c] = "source"  BY <2>1, <2>2 DEF Stream
  <2>3. CASE kind[c] = "unknown"
    <3>1. frames[c] = 0 /\ read[c] = Pending(c) /\ read[c] \in Nat
      BY <2>1, <2>3 DEF Stream, IInv, Types, TypePast
    <3>2. 0 * (DIF_SEQUENCE_SIZE + RestSize) = 0  BY ConstantAssumption
    <3> QED  BY <2>3, <3>1, <3>2
  <2> QED  BY <2>2, <2>3
<1> QED  BY <1>1, <1>3, <1>4, <1>5, <1>6

LEMMA InitInv == Init => IInv
<1> SUFFICES ASSUME Init PROVE IInv  OBVIOUS
<1>1. Types
  <2>1. TypeServe
    <3>1. connections \in Seq(Client) /\ poll_fds \in Seq(PollFd)  BY DEF Init
    <3>2. i \in Nat \ {0} /\ serve_pc = "poll" /\ pipe_ready = FALSE /\ listen_ready = FALSE
      BY DEF Init
    <3> QED  BY <3>1, <3>2 DEF TypeServe
  <2>2. TypeObject  BY DEF Init, TypeObject
  <2>3. TypeAct  BY ConstantAssumption DEF Init, TypeAct
  <2>4. TypeCall  BY ConstantAssumption DEF Init, TypeCall
  <2>5. TypeClient  BY DEF Init, TypeClient
  <2>6. TypePast  BY ConstantAssumption DEF Init, TypePast
  <2> QED  BY <2>1, <2>2, <2>3, <2>4, <2>5, <2>6 DEF Types
<1>2. Places  BY DEF Init, Places, Live
<1>3. Entries /\ Objects /\ Numbers /\ Waiting /\ PipeFresh /\ AllAhead
  BY DEF Init, Entries, Objects, Object, Numbers, Waiting, PipeFresh, AllAhead, Live
<1>4. Streams  BY DEF Init, Streams, Stream
<1> QED  BY <1>1, <1>2, <1>3, <1>4 DEF IInv

-----------------------------------------------------------------------------------
\* A part of the invariant whose variables a step leaves alone still holds after it.
LEMMA UnmovedTypes ==
  ASSUME IInv
  PROVE  /\ UNCHANGED serve_vars => TypeServe'
         /\ UNCHANGED conn_vars => TypeObject'
         /\ UNCHANGED act_vars => TypeAct'
         /\ UNCHANGED call_vars => TypeCall'
         /\ UNCHANGED client_vars => TypeClient'
         /\ UNCHANGED past_vars => TypePast'
<1>1. UNCHANGED serve_vars => TypeServe'
  BY DEF IInv, Types, TypeServe, serve_vars, serve_rest
<1>2. UNCHANGED conn_vars => TypeObject'  BY DEF IInv, Types, TypeObject, conn_vars
<1>3. UNCHANGED act_vars => TypeAct'  BY DEF IInv, Types, TypeAct, act_vars
<1>4. UNCHANGED call_vars => TypeCall'  BY DEF IInv, Types, TypeCall, call_vars
<1>5. UNCHANGED client_vars => TypeClient'  BY DEF IInv, Types, TypeClient, client_vars
<1>6. UNCHANGED past_vars => TypePast'  BY DEF IInv, Types, TypePast, past_vars
<1> QED  BY <1>1, <1>2, <1>3, <1>4, <1>5, <1>6

LEMMA UnmovedFacts ==
  ASSUME IInv
  PROVE  /\ UNCHANGED <<serve_pc, i, connections, poll_fds, kind>> => Places'
         /\ UNCHANGED <<connections, poll_fds, socket_, asked, net>> => Entries'
         /\ UNCHANGED <<kind, socket_, net, call, asked, queued, message_pipe_>> => Objects'
         /\ UNCHANGED <<kind, socket_>> => Numbers'
         /\ UNCHANGED <<backlog, kind, net, listen_ready>> => Waiting'
         /\ UNCHANGED <<serve_pc, pipe_ready, message_pipe_, kind, socket_>> => PipeFresh'
         /\ UNCHANGED <<serve_pc, i, connections, poll_fds, kind, act_vars, asked, call, socket_,
                        message_pipe_>> => AllAhead'
         /\ UNCHANGED <<kind, size, first_sequence_, frames, read>> => Streams'
<1>1. UNCHANGED <<serve_pc, i, connections, poll_fds, kind>> => Places'
  BY DEF IInv, Places, Live
<1>2. UNCHANGED <<connections, poll_fds, socket_, asked, net>> => Entries'
  BY DEF IInv, Entries, Entry
<1>3. UNCHANGED <<kind, socket_, net, call, asked, queued, message_pipe_>> => Objects'
  BY DEF IInv, Objects, Object, Live
<1>4. UNCHANGED <<kind, socket_>> => Numbers'  BY DEF IInv, Numbers, Live
<1>5. UNCHANGED <<backlog, kind, net, listen_ready>> => Waiting'  BY DEF IInv, Waiting, Live
<1>6. UNCHANGED <<serve_pc, pipe_ready, message_pipe_, kind, socket_>> => PipeFresh'
  BY DEF IInv, PipeFresh, Live
<1>7. UNCHANGED <<serve_pc, i, connections, poll_fds, kind, act_vars, asked, call, socket_,
                  message_pipe_>> => AllAhead'
  BY DEF IInv, AllAhead, Ahead, Owed, act_vars
<1>8. UNCHANGED <<kind, size, first_sequence_, frames, read>> => Streams'
  BY DEF IInv, Streams, Stream, Pending
<1> QED  BY <1>1, <1>2, <1>3, <1>4, <1>5, <1>6, <1>7, <1>8

-----------------------------------------------------------------------------------
\* Clients.

LEMMA ConnectStep ==
  ASSUME IInv, NEW c \in Client, Connect(c)
  PROVE  IInv'
<1>1. backlog \in Seq(Client) /\ net \in [Client -> {"away", "open", "gone"}]
  BY DEF IInv, Types, TypeClient
<1>2. /\ backlog' \in Seq(Client) /\ Len(backlog') = Len(backlog) + 1 /\ Len(backlog) \in Nat
      /\ backlog'[Len(backlog) + 1] = c
      /\ \A j \in 1..Len(backlog) : backlog'[j] = backlog[j]
  BY <1>1, Appended DEF Connect
<1>3. net[c] = "away" /\ net' = [net EXCEPT ![c] = "open"]  BY DEF Connect
<1>4. ~Live(c)  BY <1>3 DEF IInv, Objects, Object
<1>5. TypeClient'  BY <1>1, <1>2, <1>3 DEF TypeClient
<1>6. Entries'
  <2>1. \A j \in 1..Len(connections) : connections[j] # c /\ connections[j] \in Client
    BY <1>4 DEF IInv, Places, Types, TypeServe
  <2> QED  BY <1>1, <1>3, <2>1 DEF IInv, Entries, Entry, Connect, serve_vars, serve_rest,
                                  conn_vars, past_vars
<1>7. Objects'
  BY <1>1, <1>3, <1>4 DEF IInv, Objects, Object, Live, Connect, conn_vars, act_vars, call_vars, past_vars
<1>8. Waiting'
  <2>1. \A j \in 1..Len(backlog) : backlog[j] # c /\ backlog[j] \in Client
    BY <1>1, <1>3 DEF IInv, Waiting
  <2>2. kind' = kind  BY DEF Connect, conn_vars
  <2>3. \A j \in 1..Len(backlog') : j = Len(backlog) + 1 \/ j \in 1..Len(backlog)  BY <1>2
  <2>4. \A j, k \in 1..Len(backlog') : backlog'[j] = backlog'[k] => j = k
    BY <1>2, <2>1, <2>3 DEF IInv, Waiting
  <2>5. \A j \in 1..Len(backlog') : kind'[backlog'[j]] = "none" /\ net'[backlog'[j]] # "away"
    BY <1>1, <1>2, <1>3, <1>4, <2>1, <2>2, <2>3 DEF IInv, Waiting, Live
  <2>6. backlog' # <<>>  BY <1>2
  <2> QED  BY <2>4, <2>5, <2>6 DEF Waiting, Live
<1>9. /\ TypeServe' /\ TypeObject' /\ TypeAct' /\ TypeCall' /\ TypePast'
      /\ Places' /\ Numbers' /\ PipeFresh' /\ AllAhead' /\ Streams'
  BY UnmovedTypes, UnmovedFacts
     DEF Connect, serve_vars, serve_rest, conn_vars, call_vars, past_vars
<1> QED  BY <1>5, <1>6, <1>7, <1>8, <1>9 DEF IInv, Types

LEMMA LeaveStep ==
  ASSUME IInv, NEW c \in Client, Leave(c)
  PROVE  IInv'
<1>1. net \in [Client -> {"away", "open", "gone"}] /\ net' = [net EXCEPT ![c] = "gone"]
      /\ backlog' = backlog /\ backlog \in Seq(Client)
  BY DEF IInv, Types, TypeClient, Leave
<1>2. TypeClient'  BY <1>1 DEF TypeClient
<1>3. Entries'
  <2>1. \A j \in 1..Len(connections) : connections[j] \in Client
    BY DEF IInv, Types, TypeServe
  <2> QED  BY <1>1, <2>1 DEF IInv, Entries, Entry, Leave, serve_vars, serve_rest,
                             conn_vars, past_vars
<1>4. Objects'
  BY <1>1 DEF IInv, Objects, Object, Live, Leave, conn_vars, act_vars, call_vars, past_vars
<1>5. Waiting'
  <2>1. \A j \in 1..Len(backlog) : backlog[j] \in Client  BY <1>1
  <2> QED  BY <1>1, <2>1 DEF IInv, Waiting, Live, Leave, conn_vars, serve_vars, serve_rest
<1>6. /\ TypeServe' /\ TypeObject' /\ TypeAct' /\ TypeCall' /\ TypePast'
      /\ Places' /\ Numbers' /\ PipeFresh' /\ AllAhead' /\ Streams'
  BY UnmovedTypes, UnmovedFacts
     DEF Leave, serve_vars, serve_rest, conn_vars, call_vars, past_vars
<1> QED  BY <1>2, <1>3, <1>4, <1>5, <1>6 DEF IInv, Types

-----------------------------------------------------------------------------------
\* Calls of the mixer.

\* What set_active and put_frame have in common: the object will be asked to send.
LEMMA CallStep ==
  ASSUME IInv, NEW c \in Client, Call(c), kind[c] \in Kind, TypeAct',
         \A d \in Client \ {c} : act_flags_'[d] = act_flags_[d] /\ queued'[d] = queued[d],
         queued'[c] => kind[c] = "sink"
  PROVE  IInv'
<1>1. /\ call \in [Client -> BOOLEAN] /\ calls \in 0..MaxCalls /\ MaxCalls \in Nat
      /\ asked \in [Client -> BOOLEAN]
  BY ConstantAssumption DEF IInv, Types, TypeCall, TypePast
<1>2. /\ call' = [call EXCEPT ![c] = TRUE] /\ asked' = [asked EXCEPT ![c] = TRUE]
      /\ calls < MaxCalls /\ calls' = calls + 1
  BY DEF Call
<1>3. UNCHANGED <<serve_vars, conn_vars, act_message_, act_message_pos_, message_pipe_, client_vars, read, frames>>
  BY DEF Call
<1>4. TypeCall'
  <2>1. calls' \in 0..MaxCalls  BY <1>1, <1>2
  <2> QED  BY <1>1, <1>2, <1>3, <2>1 DEF TypeCall, IInv, Types
<1>5. TypePast'  BY <1>1, <1>2, <1>3 DEF TypePast, IInv, Types
<1>6. \A j \in 1..Len(connections) : connections[j] \in Client  BY DEF IInv, Types, TypeServe
<1>7. Entries'
  BY <1>1, <1>2, <1>3, <1>6 DEF IInv, Entries, Entry, serve_vars, serve_rest, conn_vars, client_vars
<1>8. Objects'
  BY <1>1, <1>2, <1>3 DEF IInv, Objects, Object, Live, conn_vars, client_vars
<1>9. AllAhead'
  <2> SUFFICES ASSUME serve_pc \notin {"return", "done"}, NEW j \in 1..Len(connections)
               PROVE  Ahead(j)'
    BY <1>3 DEF AllAhead, serve_vars, serve_rest
  <2>1. Ahead(j)  BY DEF IInv, AllAhead
  <2>2. CASE connections[j] = c
    <3>1. call'[c]  BY <1>1, <1>2
    <3> QED  BY <1>3, <2>2, <3>1 DEF Ahead, serve_vars, serve_rest
  <2>3. CASE connections[j] # c
    <3>1. Owed(connections[j])' = Owed(connections[j])
      BY <1>1, <1>2, <1>3, <1>6, <2>3 DEF Owed, serve_vars, serve_rest, conn_vars
    <3> QED  BY <1>1, <1>2, <1>3, <1>6, <2>1, <2>3, <3>1
             DEF Ahead, serve_vars, serve_rest, conn_vars
  <2> QED  BY <2>2, <2>3
<1>10. /\ TypeServe' /\ TypeObject' /\ TypeClient'
       /\ Places' /\ Numbers' /\ Waiting' /\ PipeFresh' /\ Streams'
  BY <1>3, UnmovedTypes, UnmovedFacts
     DEF serve_vars, serve_rest, conn_vars, client_vars
<1> QED  BY <1>4, <1>5, <1>7, <1>8, <1>9, <1>10 DEF IInv, Types

LEMMA MixerStep ==
  ASSUME IInv, MixerCalls
  PROVE  IInv'
<1>1. TypeAct /\ Objects  BY DEF IInv, Types
<1>2. ASSUME NEW c \in Client, put_frame(c) PROVE IInv'
  <2>1. kind[c] \in Kind /\ Call(c) /\ kind[c] = "sink"  BY <1>2 DEF put_frame, Kind
  <2>2. queued' = [queued EXCEPT ![c] = TRUE] /\ act_flags_' = act_flags_
      /\ UNCHANGED <<act_message_, act_message_pos_>>
    BY <1>2, <2>1 DEF put_frame, Call
  <2>3. TypeAct'  BY <1>1, <2>2 DEF TypeAct
  <2>4. \A d \in Client \ {c} : act_flags_'[d] = act_flags_[d] /\ queued'[d] = queued[d]
    BY <1>1, <2>2 DEF TypeAct
  <2> QED  BY <2>1, <2>3, <2>4, CallStep
<1>3. ASSUME NEW c \in Client, NEW flag \in {"active", "inactive"}, set_active(c, flag) PROVE IInv'
  <2>1. kind[c] \in Kind /\ Call(c)  BY <1>3 DEF set_active, Kind
  <2>2. act_flags_' = [act_flags_ EXCEPT ![c] = flag] /\ queued' = queued
      /\ UNCHANGED <<act_message_, act_message_pos_>>
    BY <1>3, <2>1 DEF set_active, Call
  <2>3. TypeAct'  BY <1>1, <2>2 DEF TypeAct
  <2>4. \A d \in Client \ {c} : act_flags_'[d] = act_flags_[d] /\ queued'[d] = queued[d]
    BY <1>1, <2>2 DEF TypeAct
  <2>5. queued'[c] => kind[c] = "sink"  BY <1>1, <2>2 DEF Objects, Object
  <2> QED  BY <2>1, <2>3, <2>4, <2>5, CallStep
<1> QED  BY <1>2, <1>3 DEF MixerCalls

LEMMA ScheduleStep ==
  ASSUME IInv, NEW c \in Client, schedule_send(c)
  PROVE  IInv'
<1>1. /\ call \in [Client -> BOOLEAN] /\ message_pipe_ \in Seq(FD \cup {message_quit})
      /\ socket_[c] \in FD \cup {message_quit}
  BY DEF IInv, Types, TypeCall, TypeObject
<1>2. /\ call[c] /\ call' = [call EXCEPT ![c] = FALSE] /\ calls' = calls
      /\ message_pipe_' = Append(message_pipe_, socket_[c])
      /\ UNCHANGED <<serve_vars, conn_vars, act_vars, client_vars, past_vars>>
  BY DEF schedule_send
<1>3. /\ message_pipe_' \in Seq(FD \cup {message_quit})
      /\ ToSet(message_pipe_') = ToSet(message_pipe_) \cup {socket_[c]}
  BY <1>1, <1>2, Appended
<1>4. asked[c] /\ Live(c)
  BY <1>2 DEF IInv, Objects, Object, Live, Kind
<1>5. TypeCall'  BY <1>1, <1>2, <1>3 DEF TypeCall, IInv, Types
<1>6. Objects'
  <2> SUFFICES ASSUME NEW d \in Client PROVE Object(d)'  BY DEF Objects
  <2>1. Object(d)  BY DEF IInv, Objects
  <2>2. Live(d) /\ socket_[d] = socket_[c] => d = c  BY <1>4 DEF IInv, Numbers
  <2> QED  BY <1>1, <1>2, <1>3, <1>4, <2>1, <2>2 DEF Object, Live, conn_vars, act_vars, client_vars, past_vars
<1>7. PipeFresh'
  BY <1>2, <1>3, <1>4 DEF IInv, PipeFresh, Live, serve_vars, serve_rest, conn_vars
<1>8. AllAhead'
  <2> SUFFICES ASSUME serve_pc \notin {"return", "done"}, NEW j \in 1..Len(connections)
               PROVE  Ahead(j)'
    BY <1>2 DEF AllAhead, serve_vars, serve_rest
  <2>1. Ahead(j) /\ connections[j] \in Client  BY DEF IInv, AllAhead, Types, TypeServe
  <2>2. Owed(connections[j])' = Owed(connections[j])
    BY <1>2 DEF Owed, serve_vars, serve_rest, conn_vars, act_vars, past_vars
  <2> QED  BY <1>1, <1>2, <1>3, <2>1, <2>2 DEF Ahead, serve_vars, serve_rest, conn_vars
<1>9. /\ TypeServe' /\ TypeObject' /\ TypeAct' /\ TypeClient' /\ TypePast'
      /\ Places' /\ Entries' /\ Numbers' /\ Waiting' /\ Streams'
  BY <1>2, UnmovedTypes, UnmovedFacts
     DEF serve_vars, serve_rest, conn_vars, client_vars, past_vars
<1> QED  BY <1>5, <1>6, <1>7, <1>8, <1>9 DEF IInv, Types

LEMMA QuitStep ==
  ASSUME IInv, Quit
  PROVE  IInv'
<1>1. /\ message_pipe_ \in Seq(FD \cup {message_quit}) /\ message_quit \in FD \cup {message_quit}
      /\ message_quit \notin FD
  BY ConstantAssumption DEF IInv, Types, TypeCall
<1>2. /\ message_pipe_' = Append(message_pipe_, message_quit)
      /\ UNCHANGED <<serve_vars, conn_vars, act_vars, call, calls, client_vars, past_vars>>
  BY DEF Quit
<1>3. /\ message_pipe_' \in Seq(FD \cup {message_quit})
      /\ ToSet(message_pipe_') = ToSet(message_pipe_) \cup {message_quit}
  BY <1>1, <1>2, Appended
<1>4. TypeCall'  BY <1>2, <1>3 DEF TypeCall, IInv, Types
<1>5. Objects'
  BY <1>1, <1>2, <1>3 DEF IInv, Objects, Object, Live, conn_vars, act_vars, client_vars, past_vars
<1>6. PipeFresh'
  BY <1>2, <1>3 DEF IInv, PipeFresh, Live, serve_vars, serve_rest, conn_vars
<1>7. AllAhead'
  <2> SUFFICES ASSUME serve_pc \notin {"return", "done"}, NEW j \in 1..Len(connections)
               PROVE  Ahead(j)'
    BY <1>2 DEF AllAhead, serve_vars, serve_rest
  <2>1. Ahead(j)  BY DEF IInv, AllAhead
  <2>2. Owed(connections[j])' = Owed(connections[j])
    BY <1>2 DEF Owed, serve_vars, serve_rest, conn_vars, act_vars, past_vars
  <2> QED  BY <1>2, <1>3, <2>1, <2>2 DEF Ahead, serve_vars, serve_rest, conn_vars
<1>8. /\ TypeServe' /\ TypeObject' /\ TypeAct' /\ TypeClient' /\ TypePast'
      /\ Places' /\ Entries' /\ Numbers' /\ Waiting' /\ Streams'
  BY <1>2, UnmovedTypes, UnmovedFacts
     DEF serve_vars, serve_rest, conn_vars, client_vars, past_vars
<1> QED  BY <1>4, <1>5, <1>6, <1>7, <1>8 DEF IInv, Types

-----------------------------------------------------------------------------------
\* serve: the pipe and the listening socket.

\* What the invariant says of the two vectors of serve.
LEMMA Vectors ==
  ASSUME IInv
  PROVE  /\ connections \in Seq(Client) /\ poll_fds \in Seq(PollFd)
         /\ Len(connections) \in Nat /\ Len(poll_fds) = Len(connections)
         /\ DOMAIN connections = 1..Len(connections) /\ DOMAIN poll_fds = 1..Len(connections)
         /\ \A j \in 1..Len(connections) :
              /\ connections[j] \in Client /\ Live(connections[j])
              /\ poll_fds[j] \in PollFd
<1>1. connections \in Seq(Client) /\ poll_fds \in Seq(PollFd) /\ Len(poll_fds) = Len(connections)
  BY DEF IInv, Types, TypeServe, Places
<1>2. /\ Len(connections) \in Nat
      /\ DOMAIN connections = 1..Len(connections) /\ DOMAIN poll_fds = 1..Len(connections)
  BY <1>1
<1>3. ASSUME NEW j \in 1..Len(connections)
      PROVE  connections[j] \in Client /\ Live(connections[j]) /\ poll_fds[j] \in PollFd
  <2>1. connections[j] \in Client /\ poll_fds[j] \in PollFd  BY <1>1, <1>2
  <2> QED  BY <2>1 DEF IInv, Places
<1> QED  BY <1>1, <1>2, <1>3

LEMMA PollStep ==
  ASSUME IInv, Poll
  PROVE  IInv'
<1>1. PICK r \in [DOMAIN poll_fds -> SUBSET {"hup", "in", "out"}] :
        /\ \A j \in DOMAIN r : r[j] \in Revents(j)
        /\ poll_fds' = [j \in DOMAIN r |-> [poll_fds[j] EXCEPT !.revents = r[j]]]
  BY DEF Poll
<1>2. /\ pipe_ready' = (message_pipe_ # <<>>) /\ listen_ready' = (backlog # <<>>)
      /\ serve_pc = "poll" /\ serve_pc' = "messages"
      /\ UNCHANGED <<i, connections, conn_vars, act_vars, call_vars, client_vars, past_vars>>
  BY DEF Poll
<1>3. \A j \in 1..Len(connections) :
        /\ poll_fds'[j] \in PollFd /\ poll_fds'[j].revents = r[j]
        /\ poll_fds'[j].fd = poll_fds[j].fd /\ poll_fds'[j].pollout = poll_fds[j].pollout
  BY <1>1, Vectors DEF PollFd, Event
<1>4. poll_fds' \in Seq(PollFd) /\ Len(poll_fds') = Len(connections)
  <2>1. DOMAIN poll_fds' = 1..Len(connections)  BY <1>1, Vectors
  <2>2. poll_fds' \in [1..Len(connections) -> PollFd]  BY <1>1, <1>3, <2>1, Vectors
  <2> QED  BY <2>2, Vectors
<1>5. TypeServe'  BY <1>2, <1>4 DEF TypeServe, IInv, Types
<1>6. Places'
  BY <1>2, <1>4 DEF IInv, Places, Live, conn_vars
<1>7. Entries'
  <2> SUFFICES ASSUME NEW j \in 1..Len(connections) PROVE Entry(connections[j], poll_fds[j])'
    BY <1>2 DEF Entries
  <2>1. Entry(connections[j], poll_fds[j])  BY DEF IInv, Entries
  <2>2. r[j] \in Revents(j)  BY <1>1, Vectors
  <2>3. "hup" \in r[j] => net[connections[j]] = "gone"  BY <2>2 DEF Revents
  <2>4. "out" \in r[j] => poll_fds[j].pollout  BY <2>2 DEF Revents
  <2> QED  BY <1>2, <1>3, <2>1, <2>3, <2>4 DEF Entry, conn_vars, client_vars, past_vars
<1>8. Waiting'  BY <1>2 DEF IInv, Waiting, Live, conn_vars, client_vars
<1>9. PipeFresh'
  <2>1. message_pipe_ = <<>> => ToSet(message_pipe_) = {}  BY DEF ToSet
  <2> QED  BY <1>2, <2>1 DEF PipeFresh, call_vars
<1>10. AllAhead'
  <2> SUFFICES ASSUME NEW j \in 1..Len(connections) PROVE Ahead(j)'
    BY <1>2 DEF AllAhead
  <2>1. Ahead(j)  BY <1>2 DEF IInv, AllAhead
  <2> QED  BY <1>2, <1>3, <2>1 DEF Ahead, Owed, conn_vars, act_vars, call_vars, past_vars
<1>11. TypeObject' /\ TypeAct' /\ TypeCall' /\ TypeClient' /\ TypePast' /\ Objects' /\ Numbers' /\ Streams'
  BY <1>2, UnmovedTypes, UnmovedFacts DEF conn_vars, act_vars, call_vars, client_vars, past_vars
<1> QED  BY <1>5, <1>6, <1>7, <1>8, <1>9, <1>10, <1>11 DEF IInv, Types

LEMMA ReadMessagesStep ==
  ASSUME IInv, ReadMessages
  PROVE  IInv'
<1>1. /\ serve_pc = "messages" /\ pipe_ready' = FALSE /\ serve_pc' \in {"return", "listen"}
      /\ UNCHANGED <<i, connections, listen_ready, conn_vars, act_vars, call, calls, client_vars,
                     past_vars>>
  BY DEF ReadMessages
<1>2. CASE pipe_ready
  <2>1. /\ message_pipe_' = <<>>
        /\ poll_fds' = [j \in DOMAIN poll_fds |->
                          [poll_fds[j] EXCEPT !.pollout = @ \/ Read(poll_fds[j].fd)]]
    BY <1>2 DEF ReadMessages
  <2>2. \A j \in 1..Len(connections) :
          /\ poll_fds'[j] \in PollFd /\ poll_fds'[j].revents = poll_fds[j].revents
          /\ poll_fds'[j].fd = poll_fds[j].fd
          /\ poll_fds'[j].pollout = (poll_fds[j].pollout \/ Read(poll_fds[j].fd))
    <3> SUFFICES ASSUME NEW j \in 1..Len(connections)
                 PROVE  /\ poll_fds'[j] \in PollFd /\ poll_fds'[j].revents = poll_fds[j].revents
                        /\ poll_fds'[j].fd = poll_fds[j].fd
                        /\ poll_fds'[j].pollout = (poll_fds[j].pollout \/ Read(poll_fds[j].fd))
      OBVIOUS
    <3> DEFINE out == poll_fds[j].pollout \/ Read(poll_fds[j].fd)
    <3>1. poll_fds[j] \in PollFd /\ poll_fds'[j] = [poll_fds[j] EXCEPT !.pollout = out]
      BY <2>1, Vectors
    <3>2. out \in BOOLEAN  OBVIOUS
    <3> HIDE DEF out
    <3>3. /\ poll_fds'[j] \in PollFd /\ poll_fds'[j].revents = poll_fds[j].revents
          /\ poll_fds'[j].fd = poll_fds[j].fd /\ poll_fds'[j].pollout = out
      BY <3>1, <3>2 DEF PollFd
    <3> QED  BY <3>3 DEF out
  <2>3. poll_fds' \in Seq(PollFd) /\ Len(poll_fds') = Len(connections)
    <3>1. DOMAIN poll_fds' = 1..Len(connections)  BY <2>1, Vectors
    <3>2. poll_fds' \in [1..Len(connections) -> PollFd]  BY <2>1, <2>2, <3>1, Vectors
    <3> QED  BY <3>2, Vectors
  <2>4. ToSet(message_pipe_') = {}  BY <2>1 DEF ToSet
  <2>5. TypeServe'  BY <1>1, <2>3 DEF TypeServe, IInv, Types
  <2>6. TypeCall'  BY <1>1, <2>1 DEF TypeCall, IInv, Types
  <2>7. Places'  BY <1>1, <2>3 DEF IInv, Places, Live, conn_vars
  <2>8. Entries'
    <3> SUFFICES ASSUME NEW j \in 1..Len(connections) PROVE Entry(connections[j], poll_fds[j])'
      BY <1>1 DEF Entries
    <3>1. Entry(connections[j], poll_fds[j]) /\ Object(connections[j])
      BY Vectors DEF IInv, Entries, Objects
    <3>2. Read(poll_fds[j].fd) => asked[connections[j]]
      BY <3>1, Vectors DEF Read, Entry, Object
    <3> QED  BY <1>1, <2>2, <3>1, <3>2 DEF Entry, conn_vars, client_vars, past_vars
  <2>9. Objects'
    BY <1>1, <2>4 DEF IInv, Objects, Object, Live, conn_vars, act_vars, client_vars, past_vars
  <2>10. PipeFresh'  BY <2>4 DEF PipeFresh
  <2>11. AllAhead'
    <3> SUFFICES ASSUME NEW j \in 1..Len(connections) PROVE Ahead(j)'
      BY <1>1 DEF AllAhead
    <3>1. Ahead(j) /\ Entry(connections[j], poll_fds[j])  BY <1>1 DEF IInv, AllAhead, Entries
    <3>2. Owed(connections[j])' = Owed(connections[j])
      BY <1>1 DEF Owed, conn_vars, act_vars, past_vars
    <3>3. serve_pc' # "sent_all"  BY <1>1
    <3> QED  BY <1>1, <2>2, <3>1, <3>2, <3>3 DEF Ahead, Entry, Read
  <2>12. Numbers' /\ Waiting' /\ Streams' /\ TypeObject' /\ TypeAct' /\ TypeClient' /\ TypePast'
    BY <1>1, UnmovedTypes, UnmovedFacts DEF conn_vars, act_vars, client_vars, past_vars
  <2> QED  BY <2>5, <2>6, <2>7, <2>8, <2>9, <2>10, <2>11, <2>12 DEF IInv, Types
<1>3. CASE ~pipe_ready
  <2>1. serve_pc' = "listen" /\ UNCHANGED <<message_pipe_, poll_fds>>
    BY <1>3 DEF ReadMessages
  <2>2. TypeServe'  BY <1>1, <2>1 DEF TypeServe, IInv, Types
  <2>3. Places'  BY <1>1, <2>1 DEF IInv, Places, Live, conn_vars
  <2>4. PipeFresh'  BY <1>1, <1>3, <2>1 DEF IInv, PipeFresh, Live, conn_vars
  <2>5. AllAhead'
    <3> SUFFICES ASSUME NEW j \in 1..Len(connections) PROVE Ahead(j)'
      BY <1>1 DEF AllAhead
    <3>1. Ahead(j)  BY <1>1 DEF IInv, AllAhead
    <3> QED  BY <1>1, <2>1, <3>1 DEF Ahead, Owed, conn_vars, act_vars, past_vars
  <2>6. /\ Entries' /\ Objects' /\ Numbers' /\ Waiting' /\ Streams'
        /\ TypeObject' /\ TypeAct' /\ TypeCall' /\ TypeClient' /\ TypePast'
    BY <1>1, <2>1, UnmovedTypes, UnmovedFacts
       DEF conn_vars, act_vars, call_vars, client_vars, past_vars
  <2> QED  BY <2>2, <2>3, <2>4, <2>5, <2>6 DEF IInv, Types
<1> QED  BY <1>2, <1>3

LEMMA AcceptStep ==
  ASSUME IInv, Accept
  PROVE  IInv'
<1>1. /\ serve_pc = "listen" /\ serve_pc' = "clients" /\ listen_ready' = FALSE
      /\ UNCHANGED <<i, pipe_ready, size, first_sequence_, act_vars, call_vars, net, past_vars>>
  BY DEF Accept
<1>2. i = 1 /\ i' = 1  BY <1>1 DEF IInv, Places
<1>3. PipeFresh'  BY <1>1 DEF PipeFresh
<1>4. ASSUME listen_ready, backlog' = Tail(backlog)
      PROVE  /\ Head(backlog) \in Client /\ ~Live(Head(backlog)) /\ net[Head(backlog)] # "away"
             /\ TypeClient'
             /\ \A j \in 1..Len(backlog') : /\ backlog'[j] \in Client
                                            /\ backlog'[j] # Head(backlog)
                                            /\ ~Live(backlog'[j]) /\ net[backlog'[j]] # "away"
             /\ \A j, k \in 1..Len(backlog') : backlog'[j] = backlog'[k] => j = k
  <2>1. backlog \in Seq(Client) /\ backlog # <<>>  BY <1>4 DEF IInv, Types, TypeClient, Waiting
  <2>2. /\ Head(backlog) = backlog[1] /\ backlog' \in Seq(Client)
        /\ Len(backlog) \in Nat \ {0} /\ Len(backlog') = Len(backlog) - 1
        /\ \A j \in 1..Len(backlog) - 1 : backlog'[j] = backlog[j + 1]
    BY <1>4, <2>1, HeadTailProperties, EmptySeq
  <2>3. \A j \in 1..Len(backlog') : j + 1 \in 1..Len(backlog) /\ j + 1 # 1  BY <2>2
  <2>4. 1 \in 1..Len(backlog)  BY <2>2
  <2>5. \A j \in 1..Len(backlog) : backlog[j] \in Client  BY <2>1
  <2>6. /\ \A j, k \in 1..Len(backlog) : backlog[j] = backlog[k] => j = k
        /\ \A j \in 1..Len(backlog) : ~Live(backlog[j]) /\ net[backlog[j]] # "away"
    BY DEF IInv, Waiting
  <2>7. TypeClient'  BY <1>1, <2>2 DEF TypeClient, IInv, Types
  <2> QED  BY <2>2, <2>3, <2>4, <2>5, <2>6, <2>7, SMTT(60)
<1>5. CASE /\ listen_ready
           /\ \E fd \in FD : /\ free(fd)
                             /\ connections' = Append(connections, Head(backlog))
                             /\ poll_fds' = Append(poll_fds, new_poll_fd(fd))
                             /\ kind' = [kind EXCEPT ![Head(backlog)] = "unknown"]
                             /\ socket_' = [socket_ EXCEPT ![Head(backlog)] = fd]
           /\ backlog' = Tail(backlog)
  <2> DEFINE h == Head(backlog)
  <2>1. PICK fd \in FD : /\ free(fd)
                         /\ connections' = Append(connections, h)
                         /\ poll_fds' = Append(poll_fds, new_poll_fd(fd))
                         /\ kind' = [kind EXCEPT ![h] = "unknown"]
                         /\ socket_' = [socket_ EXCEPT ![h] = fd]
    BY <1>5
  <2>2. /\ h \in Client /\ ~Live(h) /\ net[h] # "away"
        /\ TypeClient'
        /\ \A j \in 1..Len(backlog') : /\ backlog'[j] \in Client
                                       /\ backlog'[j] # h
                                       /\ ~Live(backlog'[j]) /\ net[backlog'[j]] # "away"
        /\ \A j, k \in 1..Len(backlog') : backlog'[j] = backlog'[k] => j = k
    BY <1>4, <1>5
  <2> HIDE DEF h
  <2>3. new_poll_fd(fd) \in PollFd  BY DEF new_poll_fd, PollFd, Event
  <2> DEFINE n == Len(connections) + 1
  <2>4. /\ connections' \in Seq(Client) /\ Len(connections') = n /\ n \in Nat
        /\ connections'[n] = h
        /\ \A j \in 1..Len(connections) : connections'[j] = connections[j]
    BY <2>1, <2>2, Vectors, Appended
  <2>5. /\ poll_fds' \in Seq(PollFd) /\ Len(poll_fds') = n
        /\ poll_fds'[n] = new_poll_fd(fd)
        /\ \A j \in 1..Len(connections) : poll_fds'[j] = poll_fds[j]
    BY <2>1, <2>3, Vectors, Appended
  <2>6. \A j \in 1..n : j = n \/ (j \in 1..Len(connections) /\ j # n)  BY Vectors
  <2>7. \A j \in 1..Len(connections) : connections[j] \in Client /\ connections[j] # h /\ j \in 1..n
    BY <2>2, Vectors
  <2>8. n \in 1..n  BY <2>4
  <2> HIDE DEF n
  <2>9. /\ kind \in [Client -> Kind \cup {"none", "unknown"}]
        /\ socket_ \in [Client -> FD \cup {message_quit}]
        /\ size \in [Client -> Nat] /\ first_sequence_ \in [Client -> BOOLEAN]
    BY DEF IInv, Types, TypeObject
  <2>10. /\ kind'[h] = "unknown" /\ socket_'[h] = fd
         /\ \A d \in Client \ {h} : kind'[d] = kind[d] /\ socket_'[d] = socket_[d]
    BY <2>1, <2>2, <2>9
  <2>11. TypeServe'
    BY <1>1, <2>4, <2>5 DEF TypeServe, IInv, Types
  <2>12. TypeObject'
    BY <1>1, <2>1, <2>2, <2>9 DEF TypeObject
  <2>13. Places'
    <3>1. Len(poll_fds') = Len(connections')  BY <2>4, <2>5
    <3>2. \A j, k \in 1..n : connections'[j] = connections'[k] => j = k
      BY <2>4, <2>6, <2>7 DEF IInv, Places
    <3>3. ASSUME NEW c \in Client PROVE Live(c)' <=> \E j \in 1..n : connections'[j] = c
      <4>1. CASE c = h  BY <2>4, <2>8, <2>10, <4>1 DEF Live
      <4>2. CASE c # h
        <5>1. Live(c)' <=> Live(c)  BY <2>10, <4>2 DEF Live
        <5>2. Live(c) <=> \E j \in 1..Len(connections) : connections[j] = c  BY DEF IInv, Places
        <5> QED  BY <2>4, <2>6, <2>7, <4>2, <5>1, <5>2
      <4> QED  BY <4>1, <4>2
    <3>4. i' <= n + 1  BY <1>2, <2>4
    <3> QED  BY <1>1, <1>2, <2>4, <3>1, <3>2, <3>3, <3>4 DEF Places
  <2>14. Entries'
    <3> SUFFICES ASSUME NEW j \in 1..n PROVE Entry(connections[j], poll_fds[j])'
      BY <2>4 DEF Entries
    <3>1. CASE j = n  BY <2>4, <2>5, <2>10, <3>1 DEF Entry, new_poll_fd
    <3>2. CASE j \in 1..Len(connections)
      <4>1. Entry(connections[j], poll_fds[j])  BY <3>2 DEF IInv, Entries
      <4> QED  BY <1>1, <2>4, <2>5, <2>7, <2>10, <3>2, <4>1 DEF Entry, past_vars
    <3> QED  BY <2>6, <3>1, <3>2
  <2>15. fd \notin ToSet(message_pipe_)
    BY <1>1, <2>1, ConstantAssumption DEF IInv, PipeFresh, free, Live
  <2>16. Objects'
    <3> SUFFICES ASSUME NEW d \in Client PROVE Object(d)'  BY DEF Objects
    <3>1. Object(d)  BY DEF IInv, Objects
    <3>2. CASE d = h
      <4>1. ~asked[h] /\ ~call[h] /\ ~queued[h]
        BY <2>2, <3>1, <3>2 DEF Object, Live, Kind
      <4> QED  BY <1>1, <2>2, <2>10, <2>15, <3>2, <4>1 DEF Object, Live, act_vars, call_vars, past_vars
    <3>3. CASE d # h
      BY <1>1, <2>10, <3>1, <3>3 DEF Object, Live, act_vars, call_vars, past_vars
    <3> QED  BY <3>2, <3>3
  <2>17. Numbers'
    <3>1. \A d \in Client \ {h} : Live(d) => socket_[d] # fd  BY <2>1 DEF free, Live
    <3>2. \A c, d \in Client : Live(c) /\ Live(d) /\ socket_[c] = socket_[d] => c = d
      BY DEF IInv, Numbers
    <3> QED  BY <2>10, <3>1, <3>2 DEF Numbers, Live
  <2>18. Waiting'
    BY <1>1, <2>2, <2>10 DEF Waiting, Live
  <2>19. AllAhead'
    <3> SUFFICES ASSUME NEW j \in 1..n PROVE Ahead(j)'  BY <2>4 DEF AllAhead
    <3>1. CASE j = n  BY <2>4, <2>10, <3>1 DEF Ahead, Owed
    <3>2. CASE j \in 1..Len(connections)
      <4>1. Ahead(j)  BY <1>1, <3>2 DEF IInv, AllAhead
      <4>2. connections'[j] = connections[j] /\ connections[j] \in Client \ {h} /\ poll_fds'[j] = poll_fds[j]
        BY <2>4, <2>5, <2>7, <3>2
      <4>3. Owed(connections[j])' = Owed(connections[j])
        BY <1>1, <2>10, <4>2 DEF Owed, act_vars, past_vars
      <4> QED  BY <1>1, <2>10, <4>1, <4>2, <4>3 DEF Ahead, call_vars
    <3> QED  BY <2>6, <3>1, <3>2
  <2>20. Streams'
    <3> SUFFICES ASSUME NEW d \in Client PROVE Stream(d)'  BY DEF Streams
    <3>1. Stream(d)  BY DEF IInv, Streams
    <3>2. CASE d = h
      <4>1. size[h] = 0 /\ first_sequence_[h] = TRUE /\ frames[h] = 0 /\ read[h] = 0
        BY <2>2, <3>1, <3>2 DEF Stream, Live
      <4> QED  BY <1>1, <2>10, <3>2, <4>1 DEF Stream, Pending, past_vars
    <3>3. CASE d # h
      <4>1. kind'[d] = kind[d]  BY <2>10, <3>3
      <4> QED  BY <1>1, <3>1, <4>1 DEF Stream, Pending, past_vars
    <3> QED  BY <3>2, <3>3
  <2>21. TypeAct' /\ TypeCall' /\ TypePast'  BY <1>1, UnmovedTypes
  <2> QED  BY <1>3, <2>2, <2>11, <2>12, <2>13, <2>14, <2>16, <2>17, <2>18, <2>19, <2>20, <2>21
           DEF IInv, Types
<1>6. CASE /\ listen_ready /\ net[Head(backlog)] = "gone" /\ backlog' = Tail(backlog)
           /\ UNCHANGED <<connections, poll_fds, kind, socket_>>
  <2>1. TypeServe'  BY <1>1, <1>6 DEF TypeServe, IInv, Types
  <2>2. TypeClient' /\ Waiting'
    <3>1. TypeClient'  BY <1>4, <1>6
    <3>2. Waiting'  BY <1>1, <1>4, <1>6 DEF Waiting, Live
    <3> QED  BY <3>1, <3>2
  <2>3. Places'  BY <1>1, <1>2, <1>6 DEF IInv, Places, Live
  <2>4. AllAhead'
    BY <1>1, <1>6 DEF IInv, AllAhead, Ahead, Owed, act_vars, call_vars, past_vars
  <2>5. TypeObject' /\ TypeAct' /\ TypeCall' /\ TypePast' /\ Entries' /\ Objects' /\ Numbers' /\ Streams'
    BY <1>1, <1>6, UnmovedTypes, UnmovedFacts DEF conn_vars, act_vars, call_vars, past_vars
  <2> QED  BY <1>3, <2>1, <2>2, <2>3, <2>4, <2>5 DEF IInv, Types
<1>7. CASE ~listen_ready /\ UNCHANGED <<connections, poll_fds, kind, socket_, backlog>>
  <2>1. TypeServe'  BY <1>1, <1>7 DEF TypeServe, IInv, Types
  <2>2. TypeClient'  BY <1>1, <1>7, UnmovedTypes DEF client_vars
  <2>3. Waiting'  BY <1>1, <1>7 DEF IInv, Waiting, Live
  <2>4. Places'  BY <1>1, <1>2, <1>7 DEF IInv, Places, Live
  <2>5. AllAhead'
    BY <1>1, <1>7 DEF IInv, AllAhead, Ahead, Owed, act_vars, call_vars, past_vars
  <2>6. TypeObject' /\ TypeAct' /\ TypeCall' /\ TypePast' /\ Entries' /\ Objects' /\ Numbers' /\ Streams'
    BY <1>1, <1>7, UnmovedTypes, UnmovedFacts DEF conn_vars, act_vars, call_vars, past_vars
  <2> QED  BY <1>3, <2>1, <2>2, <2>3, <2>4, <2>5, <2>6 DEF IInv, Types
<1> QED  BY <1>5, <1>6, <1>7 DEF Accept

-----------------------------------------------------------------------------------
\* serve: the loop over the clients.

LEMMA PlaceFits ==
  ASSUME NEW n \in Nat, NEW k \in 1..n
  PROVE  /\ \A j \in 1..n - 1 : Place(k, j) \in 1..n /\ Place(k, j) # k
         /\ \A j, l \in 1..n - 1 : Place(k, j) = Place(k, l) => j = l
         /\ \A m \in 1..n : m # k => \E j \in 1..n - 1 : Place(k, j) = m
<1>1. \A j \in 1..n - 1 : Place(k, j) \in 1..n /\ Place(k, j) # k  BY DEF Place
<1>2. \A j, l \in 1..n - 1 : Place(k, j) = Place(k, l) => j = l  BY DEF Place
<1>3. ASSUME NEW m \in 1..n, m # k PROVE \E j \in 1..n - 1 : Place(k, j) = m
  <2>1. CASE m < k
    <3>1. m \in 1..n - 1 /\ Place(k, m) = m  BY <2>1 DEF Place
    <3> QED  BY <3>1
  <2>2. CASE ~(m < k)
    <3>1. m - 1 \in 1..n - 1 /\ Place(k, m - 1) = m  BY <1>3, <2>2 DEF Place
    <3> QED  BY <3>1
  <2> QED  BY <2>1, <2>2
<1> QED  BY <1>1, <1>2, <1>3

LEMMA DropStep ==
  ASSUME IInv, Drop, serve_pc \in {"clients", "sent", "return"}, i <= Len(connections),
         serve_pc' = IF serve_pc = "return" THEN "return" ELSE "clients"
  PROVE  IInv'
<1> DEFINE c == connections[i]
           n == Len(connections)
<1>1. /\ ~call[c] /\ connections' = RemoveAt(connections, i) /\ poll_fds' = RemoveAt(poll_fds, i)
      /\ kind' = [kind EXCEPT ![c] = "none"] /\ size' = [size EXCEPT ![c] = 0]
      /\ first_sequence_' = [first_sequence_ EXCEPT ![c] = TRUE]
      /\ act_flags_' = [act_flags_ EXCEPT ![c] = "inactive"]
      /\ act_message_' = [act_message_ EXCEPT ![c] = "nothing"]
      /\ queued' = [queued EXCEPT ![c] = FALSE] /\ net' = [net EXCEPT ![c] = "gone"]
      /\ read' = [read EXCEPT ![c] = 0] /\ frames' = [frames EXCEPT ![c] = 0]
      /\ asked' = [asked EXCEPT ![c] = FALSE]
      /\ act_message_pos_' = 0
      /\ UNCHANGED <<i, pipe_ready, listen_ready, socket_, call_vars, backlog>>
  BY DEF Drop, InCall, this, EntriesLeft
<1>2. i \in 1..n /\ n \in Nat
  BY Vectors DEF IInv, Types, TypeServe
<1>3. c \in Client /\ Live(c)  BY <1>2, Vectors
<1>4. /\ connections' \in Seq(Client) /\ Len(connections') = n - 1
      /\ \A j \in 1..n - 1 : connections'[j] = connections[Place(i, j)]
  BY <1>1, <1>2, Vectors, Removed
<1>5. /\ poll_fds' \in Seq(PollFd) /\ Len(poll_fds') = n - 1
      /\ \A j \in 1..n - 1 : poll_fds'[j] = poll_fds[Place(i, j)]
  <2>1. poll_fds \in Seq(PollFd) /\ Len(poll_fds) = n /\ poll_fds' = RemoveAt(poll_fds, i)
    BY <1>1, Vectors
  <2> HIDE DEF n
  <2>2. i \in 1..Len(poll_fds)  BY <1>2, <2>1
  <2> QED  BY <2>1, <2>2, Removed
<1>6. /\ \A j \in 1..n - 1 : Place(i, j) \in 1..n /\ Place(i, j) # i
      /\ \A j, k \in 1..n - 1 : Place(i, j) = Place(i, k) => j = k
      /\ \A m \in 1..n : m # i => \E j \in 1..n - 1 : Place(i, j) = m
  BY <1>2, PlaceFits
<1>7. \A j, k \in 1..n : connections[j] = connections[k] => j = k
  BY DEF IInv, Places
<1>8. \A j \in 1..n - 1 : connections'[j] \in Client /\ connections'[j] # c
  BY <1>2, <1>4, <1>6, <1>7, Vectors
<1>9. Types  BY DEF IInv
<1> HIDE DEF c, n
<1>10. /\ kind'[c] = "none" /\ size'[c] = 0 /\ first_sequence_'[c] = TRUE
       /\ queued'[c] = FALSE /\ net'[c] = "gone" /\ read'[c] = 0 /\ frames'[c] = 0
       /\ asked'[c] = FALSE
  BY <1>1, <1>3, <1>9 DEF Types, TypeObject, TypeAct, TypeClient, TypePast
<1>11. \A d \in Client \ {c} :
         /\ kind'[d] = kind[d] /\ size'[d] = size[d] /\ first_sequence_'[d] = first_sequence_[d]
         /\ act_flags_'[d] = act_flags_[d] /\ act_message_'[d] = act_message_[d]
         /\ queued'[d] = queued[d] /\ net'[d] = net[d] /\ read'[d] = read[d]
         /\ frames'[d] = frames[d] /\ asked'[d] = asked[d]
  BY <1>1, <1>9 DEF Types, TypeObject, TypeAct, TypeClient, TypePast
<1>12. Types'
  <2>1. TypeServe'  BY <1>1, <1>4, <1>5, <1>9 DEF Types, TypeServe
  <2>2. TypeObject'  BY <1>1, <1>9 DEF Types, TypeObject
  <2>3. TypeAct'
    <3>1. act_message_pos_' \in 0..2 * ACT_MSG_SIZE  BY <1>1, ConstantAssumption
    <3>2. /\ act_flags_' \in [Client -> {"active", "inactive"}]
          /\ act_message_' \in [Client -> {"active", "inactive", "nothing"}]
          /\ queued' \in [Client -> BOOLEAN]
      BY <1>1, <1>9 DEF Types, TypeAct
    <3> QED  BY <3>1, <3>2 DEF TypeAct
  <2>4. TypeClient'  BY <1>1, <1>9 DEF Types, TypeClient
  <2>5. TypePast'
    <3>1. 0 \in 0..MaxUnits /\ 0 \in Nat  BY ConstantAssumption
    <3>2. read' \in [Client -> 0..MaxUnits] /\ frames' \in [Client -> Nat] /\ asked' \in [Client -> BOOLEAN]
      BY <1>1, <1>9, <3>1 DEF Types, TypePast
    <3> QED  BY <3>2 DEF TypePast
  <2>6. TypeCall'  BY <1>1, UnmovedTypes
  <2> QED  BY <2>1, <2>2, <2>3, <2>4, <2>5, <2>6 DEF Types
<1>13. Places'
  <2>1. \A j, k \in 1..n - 1 : connections'[j] = connections'[k] => j = k
    BY <1>4, <1>6, <1>7
  <2>2. ASSUME NEW d \in Client PROVE Live(d)' <=> \E j \in 1..n - 1 : connections'[j] = d
    <3>1. CASE d = c  BY <1>8, <1>10, <3>1 DEF Live
    <3>2. CASE d # c
      <4>1. Live(d)' <=> Live(d)  BY <1>11, <3>2 DEF Live
      <4>2. Live(d) <=> \E m \in 1..n : connections[m] = d  BY DEF IInv, Places, n
      <4>3. ASSUME NEW m \in 1..n, connections[m] = d
            PROVE  \E j \in 1..n - 1 : connections'[j] = d
        <5>1. m # i  BY <3>2, <4>3 DEF c
        <5> QED  BY <1>4, <1>6, <4>3, <5>1
      <4>4. ASSUME NEW j \in 1..n - 1, connections'[j] = d
            PROVE  \E m \in 1..n : connections[m] = d
        BY <1>4, <1>6, <4>4
      <4> QED  BY <4>1, <4>2, <4>3, <4>4
    <3> QED  BY <3>1, <3>2
  <2>3. i' <= (n - 1) + 1  BY <1>1, <1>2
  <2>4. serve_pc \in {"return"} => i = 1  BY DEF IInv, Places
  <2> QED  BY <1>1, <1>4, <1>5, <2>1, <2>2, <2>3, <2>4 DEF Places
<1>14. Entries'
  <2> SUFFICES ASSUME NEW j \in 1..n - 1 PROVE Entry(connections[j], poll_fds[j])'
    BY <1>4 DEF Entries
  <2>1. Entry(connections[Place(i, j)], poll_fds[Place(i, j)])
    BY <1>6 DEF IInv, Entries, n
  <2> QED  BY <1>1, <1>4, <1>5, <1>8, <1>11, <2>1 DEF Entry
<1>15. Objects'
  <2> SUFFICES ASSUME NEW d \in Client PROVE Object(d)'  BY DEF Objects
  <2>1. Object(d)  BY DEF IInv, Objects
  <2>2. CASE d = c  BY <1>1, <1>10, <2>2 DEF Object, Live, call_vars
  <2>3. CASE d # c  BY <1>1, <1>11, <2>1, <2>3 DEF Object, Live, call_vars
  <2> QED  BY <2>2, <2>3
<1>16. Numbers'
  BY <1>1, <1>10, <1>11 DEF IInv, Numbers, Live
<1>17. Waiting'
  <2>1. \A j \in 1..Len(backlog) : backlog[j] \in Client \ {c}
    BY <1>3, <1>9 DEF IInv, Waiting, Types, TypeClient
  <2> QED  BY <1>1, <1>11, <2>1 DEF IInv, Waiting, Live
<1>18. PipeFresh'  BY <1>1 DEF PipeFresh
<1>19. AllAhead'
  <2> SUFFICES ASSUME serve_pc' = "clients", NEW j \in 1..n - 1 PROVE Ahead(j)'
    BY <1>1, <1>4 DEF AllAhead
  <2>1. Ahead(Place(i, j)) /\ Place(i, j) # i  BY <1>6 DEF IInv, AllAhead, n
  <2>2. Owed(connections[j])' = Owed(connections[Place(i, j)])
    BY <1>4, <1>8, <1>11 DEF Owed
  <2> QED  BY <1>1, <1>4, <1>5, <2>1, <2>2 DEF Ahead, call_vars
<1>20. Streams'
  <2> SUFFICES ASSUME NEW d \in Client PROVE Stream(d)'  BY DEF Streams
  <2>1. Stream(d)  BY DEF IInv, Streams
  <2>2. CASE d = c  BY <1>10, <2>2 DEF Stream
  <2>3. CASE d # c  BY <1>11, <2>1, <2>3 DEF Stream, Pending
  <2> QED  BY <2>2, <2>3
<1> QED  BY <1>12, <1>13, <1>14, <1>15, <1>16, <1>17, <1>18, <1>19, <1>20 DEF IInv

\* The loop goes on to the next connection.
LEMMA KeepFacts ==
  ASSUME IInv, Keep, i <= Len(connections), serve_pc' = "clients"
  PROVE  /\ TypeServe' /\ PipeFresh' /\ connections' = connections
         /\ Len(poll_fds') = Len(connections) /\ i' <= Len(connections) + 1
         /\ \A j \in 1..Len(connections) : poll_fds'[j].pollout = poll_fds[j].pollout
         /\ UNCHANGED <<socket_, asked, net>> => Entries'
<1>1. /\ i' = i + 1 /\ poll_fds' = [poll_fds EXCEPT ![i].revents = {}]
      /\ UNCHANGED <<connections, pipe_ready, listen_ready>>
  BY DEF Keep
<1>2. i \in 1..Len(connections)  BY Vectors DEF IInv, Types, TypeServe
<1>3. /\ DOMAIN poll_fds' = 1..Len(connections)
      /\ \A j \in 1..Len(connections) :
           poll_fds'[j] = IF j = i THEN [poll_fds[i] EXCEPT !.revents = {}] ELSE poll_fds[j]
  BY <1>1, <1>2, Vectors
<1>4. \A j \in 1..Len(connections) :
        /\ poll_fds'[j] \in PollFd /\ poll_fds'[j].fd = poll_fds[j].fd
        /\ poll_fds'[j].pollout = poll_fds[j].pollout
        /\ poll_fds'[j].revents = {} \/ poll_fds'[j].revents = poll_fds[j].revents
  <2> SUFFICES ASSUME NEW j \in 1..Len(connections)
               PROVE  /\ poll_fds'[j] \in PollFd /\ poll_fds'[j].fd = poll_fds[j].fd
                      /\ poll_fds'[j].pollout = poll_fds[j].pollout
                      /\ poll_fds'[j].revents = {} \/ poll_fds'[j].revents = poll_fds[j].revents
    OBVIOUS
  <2>1. poll_fds[j] \in PollFd  BY Vectors
  <2>2. CASE j = i  BY <1>3, <2>1, <2>2 DEF PollFd
  <2>3. CASE j # i  BY <1>3, <2>1, <2>3
  <2> QED  BY <2>2, <2>3
<1>5. poll_fds' \in Seq(PollFd) /\ Len(poll_fds') = Len(connections)
  <2>1. poll_fds' \in [1..Len(connections) -> PollFd]  BY <1>1, <1>3, <1>4, Vectors
  <2> QED  BY <2>1, Vectors
<1>6. TypeServe'
  <2>1. i' \in Nat \ {0}  BY <1>1, <1>2
  <2> QED  BY <1>1, <1>5, <2>1 DEF TypeServe, IInv, Types
<1>7. PipeFresh'  BY DEF PipeFresh
<1>8. i' <= Len(connections) + 1  BY <1>1, <1>2, Vectors
<1>9. ASSUME UNCHANGED <<socket_, asked, net>> PROVE Entries'
  <2> SUFFICES ASSUME NEW j \in 1..Len(connections) PROVE Entry(connections[j], poll_fds[j])'
    BY <1>1 DEF Entries
  <2>1. Entry(connections[j], poll_fds[j])  BY DEF IInv, Entries
  <2> QED  BY <1>1, <1>4, <1>9, <2>1 DEF Entry
<1> QED  BY <1>1, <1>4, <1>5, <1>6, <1>7, <1>8, <1>9

\* Nothing changes but that.
LEMMA KeepStep ==
  ASSUME IInv, Keep, i <= Len(connections), serve_pc \in {"clients", "sent"},
         serve_pc' = "clients", TypeAct', UNCHANGED <<act_flags_, act_message_, queued>>,
         UNCHANGED <<conn_vars, call_vars, client_vars, past_vars>>
  PROVE  IInv'
<1>1. /\ TypeServe' /\ PipeFresh' /\ connections' = connections
      /\ Len(poll_fds') = Len(connections) /\ i' <= Len(connections) + 1
      /\ \A j \in 1..Len(connections) : poll_fds'[j].pollout = poll_fds[j].pollout
      /\ listen_ready' = listen_ready
  BY KeepFacts DEF Keep
<1>2. Entries'  BY KeepFacts DEF conn_vars, past_vars, client_vars
<1>3. Places'  BY <1>1 DEF IInv, Places, Live, conn_vars
<1>4. AllAhead'
  <2> SUFFICES ASSUME NEW j \in 1..Len(connections) PROVE Ahead(j)'
    BY <1>1 DEF AllAhead
  <2>1. Ahead(j)  BY DEF IInv, AllAhead
  <2> QED  BY <1>1, <2>1 DEF Ahead, Owed, conn_vars, call_vars, past_vars
<1>5. /\ TypeObject' /\ TypeCall' /\ TypeClient' /\ TypePast'
      /\ Objects' /\ Numbers' /\ Waiting' /\ Streams'
  BY <1>1, UnmovedTypes, UnmovedFacts DEF conn_vars, call_vars, client_vars, past_vars
<1> QED  BY <1>1, <1>2, <1>3, <1>4, <1>5 DEF IInv, Types

LEMMA Times ==
  ASSUME NEW m \in Nat, NEW k \in Nat
  PROVE  (m + 1) * k = m * k + k /\ m * k \in Nat /\ 0 * k = 0
OBVIOUS

LEMMA ReceiveStep ==
  ASSUME IInv, Receive
  PROVE  IInv'
<1>1. PICK n \in 1..wanted : Received(n)  BY DEF Receive, Reads
<1>2. /\ serve_pc = "clients" /\ i <= Len(connections) /\ Keep
      /\ UNCHANGED <<serve_pc, socket_, act_vars, call_vars, client_vars, asked>>
  BY DEF Receive, Receiving, Visiting
<1>3. i \in 1..Len(connections)  BY <1>2, Vectors DEF IInv, Types, TypeServe
<1>. PICK c \in Client : c = connections[i]  BY <1>3, Vectors
<1>4. this = c /\ Live(c)  BY <1>3, Vectors DEF this
<1>5. /\ TypeServe' /\ PipeFresh' /\ connections' = connections
      /\ Len(poll_fds') = Len(connections) /\ i' <= Len(connections) + 1
      /\ \A j \in 1..Len(connections) : poll_fds'[j].pollout = poll_fds[j].pollout
      /\ listen_ready' = listen_ready
  BY <1>2, KeepFacts DEF Keep
<1>6. Entries'  BY <1>2, KeepFacts DEF client_vars
<1>7. Types  BY DEF IInv
<1>8. /\ kind \in [Client -> Kind \cup {"none", "unknown"}]
      /\ size \in [Client -> Nat] /\ first_sequence_ \in [Client -> BOOLEAN]
      /\ read \in [Client -> 0..MaxUnits] /\ frames \in [Client -> Nat]
  BY <1>7 DEF Types, TypeObject, TypePast
<1> DEFINE s == size[c]
           f == first_sequence_[c]
           w == wanted
<1>9. /\ GREETING_SIZE \in Nat \ {0} /\ DIF_SEQUENCE_SIZE \in Nat \ {0} /\ RestSize \in Nat \ {0}
      /\ MaxUnits \in Nat
  BY ConstantAssumption
<1>10. /\ s \in Nat /\ read[c] \in Nat /\ frames[c] \in Nat /\ f \in BOOLEAN
       /\ kind[c] \in Kind \cup {"unknown"}
  BY <1>4, <1>8, <1>9 DEF Live
<1>11. w = IF s # 0 THEN s
           ELSE CASE kind[c] = "unknown" -> GREETING_SIZE
                  [] kind[c] = "sink"    -> 1
                  [] OTHER -> IF f THEN DIF_SEQUENCE_SIZE ELSE RestSize
  BY <1>4 DEF wanted
<1>12. w \in Nat \ {0}  BY <1>9, <1>10, <1>11 DEF Kind
<1>13. /\ read[c] + n <= MaxUnits /\ read' = [read EXCEPT ![c] = read[c] + n]
       /\ size' = [size EXCEPT ![c] = w - n]
       /\ \/ /\ n # w
             /\ UNCHANGED <<kind, first_sequence_, frames>>
          \/ /\ n = w /\ kind[c] = "unknown"
             /\ \E k \in Kind : kind' = [kind EXCEPT ![c] = k]
             /\ UNCHANGED <<first_sequence_, frames>>
          \/ /\ n = w /\ kind[c] = "source"
             /\ first_sequence_' = [first_sequence_ EXCEPT ![c] = ~f]
             /\ frames' = [frames EXCEPT ![c] = IF f THEN frames[c] ELSE frames[c] + 1]
             /\ UNCHANGED kind
  BY <1>1, <1>4 DEF Received, next_is_first
<1> HIDE DEF s, f, w
<1>14. n \in 1..w /\ n \in Nat /\ w - n \in Nat /\ read[c] + n \in 0..MaxUnits
  BY <1>9, <1>10, <1>12, <1>13 DEF w
<1>15. /\ kind' \in [Client -> Kind \cup {"none", "unknown"}]
       /\ size' \in [Client -> Nat] /\ first_sequence_' \in [Client -> BOOLEAN]
       /\ read' \in [Client -> 0..MaxUnits] /\ frames' \in [Client -> Nat]
  <2>1. size' \in [Client -> Nat] /\ read' \in [Client -> 0..MaxUnits]
    BY <1>4, <1>8, <1>13, <1>14
  <2>2. kind' \in [Client -> Kind \cup {"none", "unknown"}]
    BY <1>4, <1>8, <1>13
  <2>3. first_sequence_' \in [Client -> BOOLEAN]  BY <1>4, <1>8, <1>10, <1>13
  <2>4. frames' \in [Client -> Nat]
    <3>1. (IF f THEN frames[c] ELSE frames[c] + 1) \in Nat  BY <1>10
    <3> QED  BY <1>4, <1>8, <1>13, <3>1
  <2> QED  BY <2>1, <2>2, <2>3, <2>4
<1>16. Types'
  <2>1. TypeObject'
    <3>1. socket_' \in [Client -> FD \cup {message_quit}]  BY <1>2, <1>7 DEF Types, TypeObject
    <3> QED  BY <1>15, <3>1 DEF TypeObject
  <2>2. TypePast'
    <3>1. asked' \in [Client -> BOOLEAN]  BY <1>2, <1>7 DEF Types, TypePast
    <3> QED  BY <1>15, <3>1 DEF TypePast
  <2>3. TypeAct' /\ TypeCall' /\ TypeClient'  BY <1>2, UnmovedTypes DEF act_vars
  <2> QED  BY <1>5, <2>1, <2>2, <2>3 DEF Types
<1>17. \A d \in Client \ {c} :
         /\ kind'[d] = kind[d] /\ size'[d] = size[d] /\ first_sequence_'[d] = first_sequence_[d]
         /\ read'[d] = read[d] /\ frames'[d] = frames[d]
  BY <1>4, <1>8, <1>13
<1>18. kind'[c] = kind[c] \/ (kind[c] = "unknown" /\ kind'[c] \in Kind)
  BY <1>4, <1>8, <1>13
<1>19. \A d \in Client : Live(d)' <=> Live(d)
  BY <1>4, <1>17, <1>18 DEF Live, Kind
<1>20. Object(c) /\ (kind[c] = "unknown" => ~asked[c] /\ ~queued[c])
  BY <1>4 DEF IInv, Objects, Object, Kind
<1>21. Places'
  <2>1. \A d \in Client : Live(d) <=> \E j \in 1..Len(connections) : connections[j] = d
    BY DEF IInv, Places
  <2> QED  BY <1>2, <1>5, <1>19, <2>1 DEF IInv, Places
<1>22. Objects'
  <2> SUFFICES ASSUME NEW d \in Client PROVE Object(d)'  BY DEF Objects
  <2>1. Object(d)  BY DEF IInv, Objects
  <2>2. CASE d = c
    BY <1>2, <1>18, <1>19, <1>20, <2>2 DEF Object, call_vars, client_vars, act_vars
  <2>3. CASE d # c
    BY <1>2, <1>17, <2>1, <2>3 DEF Object, Live, call_vars, client_vars, act_vars
  <2> QED  BY <2>2, <2>3
<1>23. Numbers'  BY <1>2, <1>19 DEF IInv, Numbers
<1>24. Waiting'
  <2>1. \A j \in 1..Len(backlog) : backlog[j] \in Client  BY <1>7 DEF Types, TypeClient
  <2> QED  BY <1>2, <1>5, <1>19, <2>1 DEF IInv, Waiting, client_vars
<1>25. AllAhead'
  <2> SUFFICES ASSUME NEW j \in 1..Len(connections) PROVE Ahead(j)'
    BY <1>5 DEF AllAhead
  <2>1. Ahead(j) /\ connections[j] \in Client  BY <1>2, Vectors DEF IInv, AllAhead
  <2>2. Owed(connections[j])' => Owed(connections[j])
    <3>1. CASE connections[j] = c
      BY <1>2, <1>5, <1>18, <1>20, <3>1 DEF Owed, Kind, act_vars
    <3>2. CASE connections[j] # c
      BY <1>2, <1>5, <1>17, <2>1, <3>2 DEF Owed, act_vars
    <3> QED  BY <3>1, <3>2
  <2> QED  BY <1>2, <1>5, <2>1, <2>2 DEF Ahead, call_vars
<1>26. Stream(c)'
  <2>1. Stream(c) /\ kind[c] # "none"  BY <1>4 DEF IInv, Streams, Live
  <2>2. read'[c] = read[c] + n /\ size'[c] = w - n  BY <1>4, <1>8, <1>13
  <2>3. CASE n # w
    <3>1. kind'[c] = kind[c] /\ first_sequence_'[c] = f /\ frames'[c] = frames[c] /\ w - n # 0
      BY <1>12, <1>13, <1>14, <2>3 DEF f
    <3>2. CASE kind[c] = "unknown"
      <4>1. f = TRUE /\ frames[c] = 0 /\ read[c] = IF s = 0 THEN 0 ELSE GREETING_SIZE - s
        BY <2>1, <3>2 DEF Stream, Pending, f, s
      <4>2. w = IF s # 0 THEN s ELSE GREETING_SIZE  BY <1>11, <3>2
      <4>3. read'[c] = GREETING_SIZE - (w - n)
        BY <1>9, <1>10, <1>14, <2>2, <4>1, <4>2
      <4>4. Pending(c)' = GREETING_SIZE - (w - n)  BY <2>2, <3>1, <3>2 DEF Pending
      <4> QED  BY <3>1, <3>2, <4>1, <4>3, <4>4 DEF Stream
    <3>3. CASE kind[c] = "source"
      <4> DEFINE u == IF f THEN DIF_SEQUENCE_SIZE ELSE RestSize
                 b == IF f THEN 0 ELSE DIF_SEQUENCE_SIZE
                 q == frames[c] * (DIF_SEQUENCE_SIZE + RestSize)
      <4>1. q \in Nat  BY <1>9, <1>10, Times
      <4>2. Pending(c) = b + (IF s = 0 THEN 0 ELSE u - s)
        BY <1>9, <1>10, <3>3 DEF Pending, f, s
      <4>3. read[c] = Pending(c) + GREETING_SIZE + q  BY <2>1, <3>3 DEF Stream
      <4>4. w = IF s # 0 THEN s ELSE u  BY <1>11, <3>3
      <4>5. Pending(c)' = b + (u - (w - n))
        BY <1>9, <1>10, <1>14, <2>2, <3>1, <3>3 DEF Pending
      <4>7. u \in Nat /\ b \in Nat  BY <1>9
      <4> HIDE DEF q, u, b
      <4>8. read'[c] = Pending(c)' + GREETING_SIZE + q
        BY <1>9, <1>10, <1>14, <2>2, <4>1, <4>2, <4>3, <4>4, <4>5, <4>7
      <4>9. read'[c] = Pending(c)' + GREETING_SIZE
                         + frames'[c] * (DIF_SEQUENCE_SIZE + RestSize)
        BY <3>1, <4>8 DEF q
      <4> QED  BY <3>1, <3>3, <4>9 DEF Stream
    <3>4. CASE kind[c] = "sink"  BY <3>1, <3>4 DEF Stream
    <3> QED  BY <1>10, <3>2, <3>3, <3>4 DEF Kind
  <2>4. CASE n = w /\ kind[c] = "unknown"
    <3>1. /\ kind'[c] \in Kind /\ first_sequence_'[c] = f /\ frames'[c] = frames[c]
          /\ size'[c] = 0
      BY <1>4, <1>8, <1>12, <1>13, <2>2, <2>4 DEF f
    <3>2. f = TRUE /\ frames[c] = 0 /\ read[c] = IF s = 0 THEN 0 ELSE GREETING_SIZE - s
      BY <2>1, <2>4 DEF Stream, Pending, f, s
    <3>3. w = IF s # 0 THEN s ELSE GREETING_SIZE  BY <1>11, <2>4
    <3>4. read'[c] = GREETING_SIZE
      BY <1>9, <1>10, <1>14, <2>2, <2>4, <3>2, <3>3
    <3>5. kind'[c] = "source" => Pending(c)' = 0  BY <3>1, <3>2 DEF Pending
    <3>6. 0 * (DIF_SEQUENCE_SIZE + RestSize) = 0  BY <1>9, Times
    <3>7. kind'[c] = "source" =>
            read'[c] = Pending(c)' + GREETING_SIZE + frames'[c] * (DIF_SEQUENCE_SIZE + RestSize)
      BY <1>9, <3>1, <3>2, <3>4, <3>5, <3>6
    <3> QED  BY <3>1, <3>7 DEF Stream, Kind
  <2>5. CASE n = w /\ kind[c] = "source"
    <3> DEFINE k == DIF_SEQUENCE_SIZE + RestSize
    <3>1. /\ kind'[c] = "source" /\ first_sequence_'[c] = ~f /\ size'[c] = 0
          /\ frames'[c] = IF f THEN frames[c] ELSE frames[c] + 1
      BY <1>4, <1>8, <1>12, <1>13, <2>2, <2>5
    <3>2. read[c] = Pending(c) + GREETING_SIZE + frames[c] * k  BY <2>1, <2>5 DEF Stream
    <3>3. k \in Nat /\ frames[c] * k \in Nat /\ (frames[c] + 1) * k = frames[c] * k + k
      BY <1>9, <1>10, Times
    <3>4. CASE f
      <4>1. Pending(c) = (IF s = 0 THEN 0 ELSE DIF_SEQUENCE_SIZE - s)
        BY <2>5, <3>4 DEF Pending, f, s
      <4>2. w = IF s # 0 THEN s ELSE DIF_SEQUENCE_SIZE  BY <1>11, <2>5, <3>4
      <4>3. Pending(c)' = DIF_SEQUENCE_SIZE
        <5>1. first_sequence_'[c] = FALSE /\ kind'[c] # "unknown" /\ size'[c] = 0
          BY <3>1, <3>4
        <5>2. DIF_SEQUENCE_SIZE + 0 = DIF_SEQUENCE_SIZE  BY <1>9
        <5> QED  BY <5>1, <5>2 DEF Pending
      <4> HIDE DEF k
      <4>4. read'[c] = Pending(c)' + GREETING_SIZE + frames[c] * k
        BY <1>9, <1>10, <2>2, <2>5, <3>2, <3>3, <4>1, <4>2, <4>3
      <4>5. read'[c] = Pending(c)' + GREETING_SIZE
                         + frames'[c] * (DIF_SEQUENCE_SIZE + RestSize)
        BY <3>1, <3>4, <4>4 DEF k
      <4> QED  BY <3>1, <4>5 DEF Stream
    <3>5. CASE ~f
      <4>1. Pending(c) = DIF_SEQUENCE_SIZE + (IF s = 0 THEN 0 ELSE RestSize - s)
        BY <2>5, <3>5 DEF Pending, f, s
      <4>2. w = IF s # 0 THEN s ELSE RestSize  BY <1>11, <2>5, <3>5
      <4>3. Pending(c)' = 0  BY <3>1, <3>5 DEF Pending
      <4>4. read'[c] = Pending(c)' + GREETING_SIZE + (frames[c] * k + k)
        BY <1>9, <1>10, <2>2, <2>5, <3>2, <3>3, <4>1, <4>2, <4>3
      <4>5. read'[c] = Pending(c)' + GREETING_SIZE + frames'[c] * k
        BY <3>1, <3>3, <3>5, <4>4
      <4> QED  BY <3>1, <4>5 DEF Stream
    <3> QED  BY <1>10, <3>4, <3>5
  <2> QED  BY <1>13, <2>3, <2>4, <2>5
<1>27. Streams'
  <2> SUFFICES ASSUME NEW d \in Client \ {c} PROVE Stream(d)'  BY <1>26 DEF Streams
  <2>1. Stream(d)  BY DEF IInv, Streams
  <2> QED  BY <1>17, <2>1 DEF Stream, Pending
<1> QED  BY <1>5, <1>6, <1>16, <1>21, <1>22, <1>23, <1>24, <1>25, <1>27 DEF IInv

LEMMA SendActiveStep ==
  ASSUME IInv, SendActive
  PROVE  IInv'
<1>. PICK c \in Client : c = connections[i] /\ i \in 1..Len(connections)
  BY Vectors DEF SendActive, Sending, Visiting, IInv, Types, TypeServe
<1>1. /\ serve_pc = "clients" /\ serve_pc' = "sent" /\ this = c /\ kind[c] = "source"
      /\ "out" \in poll_fds[i].revents
      /\ UNCHANGED <<serve_rest, conn_vars, act_flags_, queued, call_vars, client_vars, past_vars>>
  BY DEF SendActive, Sending, Visiting, this, revents
<1>2. PICK pos \in Positions, n \in 1..ACT_MSG_SIZE :
        /\ act_message_pos_' = pos + n
        /\ \E m \in Messages(pos) : act_message_' = [act_message_ EXCEPT ![this] = m]
  BY DEF SendActive
<1>3. PICK m \in Messages(pos) : act_message_' = [act_message_ EXCEPT ![c] = m]
  BY <1>1, <1>2
<1>4. Types  BY DEF IInv
<1>5. m \in {"active", "inactive"}  BY <1>1, <1>3, <1>4 DEF Messages, Types, TypeAct
<1>6. act_message_'[c] = m /\ \A d \in Client \ {c} : act_message_'[d] = act_message_[d]
  BY <1>3, <1>4 DEF Types, TypeAct
<1>7. TypeServe'  BY <1>1, <1>4 DEF Types, TypeServe, serve_rest
<1>8. TypeAct'
  <2>1. act_message_pos_' \in 0..2 * ACT_MSG_SIZE
    BY <1>2, ConstantAssumption DEF Positions
  <2> QED  BY <1>1, <1>3, <1>4, <1>5, <2>1 DEF Types, TypeAct
<1>9. Places'  BY <1>1, Vectors DEF IInv, Places, Live, serve_rest, conn_vars
<1>10. AllAhead'
  <2> SUFFICES ASSUME NEW j \in 1..Len(connections) PROVE Ahead(j)'
    BY <1>1 DEF AllAhead, serve_rest
  <2>1. Ahead(j) /\ connections[j] \in Client  BY <1>1, Vectors DEF IInv, AllAhead
  <2>2. ASSUME Owed(c)' PROVE Owed(c)
    <3>1. CASE pos = 0  BY <1>1, <1>3, <1>6, <2>2, <3>1 DEF Owed, Messages, conn_vars
    <3>2. CASE pos # 0
      <4>1. act_message_[c] = "nothing"  BY <1>1, <1>2, <3>2 DEF Positions
      <4>2. act_flags_[c] # "nothing" /\ asked[c]
        BY <1>1, <1>4, <2>2 DEF Owed, Types, TypeAct, conn_vars, past_vars
      <4> QED  BY <1>1, <4>1, <4>2 DEF Owed
    <3> QED  BY <3>1, <3>2
  <2>3. Owed(connections[j])' => Owed(connections[j])
    BY <1>1, <1>6, <2>1, <2>2 DEF Owed, serve_rest, conn_vars, past_vars
  <2> QED  BY <1>1, <2>1, <2>3 DEF Ahead, serve_rest, conn_vars, call_vars
<1>11. /\ TypeObject' /\ TypeCall' /\ TypeClient' /\ TypePast'
      /\ Entries' /\ Objects' /\ Numbers' /\ Waiting' /\ Streams'
  BY <1>1, UnmovedTypes, UnmovedFacts DEF serve_rest, conn_vars, call_vars, client_vars, past_vars
<1>12. PipeFresh'  BY <1>1 DEF PipeFresh
<1> QED  BY <1>7, <1>8, <1>9, <1>10, <1>11, <1>12 DEF IInv, Types

\* The step to sent_all: nothing is owed to this connection.
LEMMA SentStep ==
  ASSUME IInv, serve_pc \in {"clients", "sent"}, i <= Len(connections), serve_pc' = "sent_all",
         ~Owed(connections[i])', TypeAct',
         \A j \in 1..Len(connections) : j # i => Owed(connections[j])' = Owed(connections[j]),
         \A c \in Client : queued'[c] => queued[c],
         UNCHANGED <<serve_rest, conn_vars, call_vars, client_vars, past_vars>>
  PROVE  IInv'
<1>1. TypeServe'  BY DEF IInv, Types, TypeServe, serve_rest
<1>2. Places'  BY Vectors DEF IInv, Places, Live, serve_rest, conn_vars
<1>3. Objects'
  BY DEF IInv, Objects, Object, Live, conn_vars, call_vars, client_vars, past_vars
<1>4. AllAhead'
  <2> SUFFICES ASSUME NEW j \in 1..Len(connections) PROVE Ahead(j)'
    BY DEF AllAhead, serve_rest
  <2>1. Ahead(j)  BY DEF IInv, AllAhead
  <2>2. connections' = connections /\ i' = i  BY DEF serve_rest
  <2>3. CASE j = i  BY <2>2, <2>3 DEF Ahead
  <2>4. CASE j # i  BY <2>1, <2>2, <2>4 DEF Ahead, serve_rest, conn_vars, call_vars
  <2> QED  BY <2>3, <2>4
<1>5. /\ TypeObject' /\ TypeCall' /\ TypeClient' /\ TypePast'
      /\ Entries' /\ Numbers' /\ Waiting' /\ Streams'
  BY UnmovedTypes, UnmovedFacts DEF serve_rest, conn_vars, call_vars, client_vars, past_vars
<1>6. PipeFresh'  BY DEF PipeFresh
<1> QED  BY <1>1, <1>2, <1>3, <1>4, <1>5, <1>6 DEF IInv, Types

LEMMA CompareStep ==
  ASSUME IInv, Compare
  PROVE  IInv'
<1>1. /\ serve_pc = "sent" /\ act_message_pos_' = 0
      /\ UNCHANGED <<conn_vars, act_flags_, act_message_, queued, call_vars, client_vars, past_vars>>
  BY DEF Compare
<1>2. i <= Len(connections) /\ kind[connections[i]] = "source"  BY <1>1 DEF IInv, Places
<1>3. TypeAct'  BY <1>1, ConstantAssumption DEF IInv, Types, TypeAct
<1>4. CASE Same /\ serve_pc' = "sent_all" /\ UNCHANGED serve_rest
  <2>1. ~Owed(connections[i])'
    BY <1>1, <1>2, <1>4 DEF Owed, Same, this, serve_rest, conn_vars
  <2>2. \A j \in 1..Len(connections) : Owed(connections[j])' = Owed(connections[j])
    BY <1>1, <1>4 DEF Owed, serve_rest, conn_vars, past_vars
  <2> QED  BY <1>1, <1>2, <1>3, <1>4, <2>1, <2>2, SentStep
<1>5. CASE serve_pc' = "clients" /\ Keep  BY <1>1, <1>2, <1>3, <1>5, KeepStep
<1> QED  BY <1>4, <1>5 DEF Compare

LEMMA DropUnsentStep ==
  ASSUME IInv, DropUnsent
  PROVE  IInv'
<1>1. i <= Len(connections) /\ serve_pc = "sent" /\ serve_pc' = "clients" /\ Drop
  BY DEF DropUnsent, IInv, Places
<1> QED  BY <1>1, DropStep

LEMMA SendFramesStep ==
  ASSUME IInv, SendFrames
  PROVE  IInv'
<1>. PICK c \in Client : c = connections[i] /\ i \in 1..Len(connections)
  BY Vectors DEF SendFrames, Sending, Visiting, IInv, Types, TypeServe
<1>1. /\ serve_pc = "clients" /\ this = c /\ kind[c] = "sink"
      /\ UNCHANGED <<conn_vars, act_flags_, act_message_, act_message_pos_, call_vars, client_vars,
                     past_vars>>
  BY DEF SendFrames, Sending, Visiting, this
<1>2. i <= Len(connections)  BY Vectors
<1>3. CASE /\ serve_pc' = "sent_all" /\ queued' = [queued EXCEPT ![c] = FALSE]
           /\ UNCHANGED serve_rest
  <2>1. TypeAct  BY DEF IInv, Types
  <2>2. TypeAct'  BY <1>1, <1>3, <2>1 DEF TypeAct
  <2>3. ~queued'[c] /\ \A d \in Client \ {c} : queued'[d] = queued[d]
    BY <1>3, <2>1 DEF TypeAct
  <2>4. ~Owed(connections[i])'  BY <1>1, <1>3, <2>3 DEF Owed, serve_rest, conn_vars
  <2>5. ASSUME NEW j \in 1..Len(connections), j # i
        PROVE  Owed(connections[j])' = Owed(connections[j])
    <3>1. connections[j] \in Client \ {c}  BY <2>5, Vectors DEF IInv, Places
    <3> QED  BY <1>1, <1>3, <2>3, <3>1 DEF Owed, serve_rest, conn_vars, past_vars
  <2>6. \A d \in Client : queued'[d] => queued[d]  BY <2>3
  <2> QED  BY <1>1, <1>2, <1>3, <2>2, <2>4, <2>5, <2>6, SentStep
<1>4. CASE Keep /\ UNCHANGED <<serve_pc, queued>>
  <2>1. TypeAct'  BY <1>1, <1>4, UnmovedTypes DEF act_vars
  <2> QED  BY <1>1, <1>2, <1>4, <2>1, KeepStep
<1> QED  BY <1>1, <1>3, <1>4 DEF SendFrames

LEMMA SentAllStep ==
  ASSUME IInv, SentAll
  PROVE  IInv'
<1>1. /\ serve_pc = "sent_all" /\ serve_pc' = "clients" /\ i' = i + 1
      /\ poll_fds' = [poll_fds EXCEPT ![i].pollout = FALSE, ![i].revents = {}]
      /\ UNCHANGED <<connections, pipe_ready, listen_ready, conn_vars, act_vars, call_vars,
                     client_vars, past_vars>>
  BY DEF SentAll
<1>2. i \in 1..Len(connections) /\ i' \in Nat \ {0} /\ i' <= Len(connections) + 1
  BY <1>1, Vectors DEF IInv, Types, TypeServe, Places
<1>3. /\ DOMAIN poll_fds' = 1..Len(connections)
      /\ \A j \in 1..Len(connections) :
           poll_fds'[j] = IF j = i THEN [poll_fds[i] EXCEPT !.pollout = FALSE, !.revents = {}]
                          ELSE poll_fds[j]
  BY <1>1, <1>2, Vectors
<1>4. \A j \in 1..Len(connections) :
        /\ poll_fds'[j] \in PollFd /\ poll_fds'[j].fd = poll_fds[j].fd
        /\ IF j = i THEN poll_fds'[j].pollout = FALSE /\ poll_fds'[j].revents = {}
           ELSE poll_fds'[j] = poll_fds[j]
  <2> SUFFICES ASSUME NEW j \in 1..Len(connections)
               PROVE  /\ poll_fds'[j] \in PollFd /\ poll_fds'[j].fd = poll_fds[j].fd
                      /\ IF j = i THEN poll_fds'[j].pollout = FALSE /\ poll_fds'[j].revents = {}
                         ELSE poll_fds'[j] = poll_fds[j]
    OBVIOUS
  <2>1. poll_fds[j] \in PollFd  BY Vectors
  <2>2. CASE j = i  BY <1>3, <2>1, <2>2 DEF PollFd
  <2>3. CASE j # i  BY <1>3, <2>1, <2>3
  <2> QED  BY <2>2, <2>3
<1>5. poll_fds' \in Seq(PollFd) /\ Len(poll_fds') = Len(connections)
  <2>1. poll_fds' \in [1..Len(connections) -> PollFd]  BY <1>1, <1>3, <1>4, Vectors
  <2> QED  BY <2>1, Vectors
<1>6. TypeServe'  BY <1>1, <1>2, <1>5 DEF TypeServe, IInv, Types
<1>7. Places'  BY <1>1, <1>2, <1>5 DEF IInv, Places, Live, conn_vars
<1>8. Entries'
  <2> SUFFICES ASSUME NEW j \in 1..Len(connections) PROVE Entry(connections[j], poll_fds[j])'
    BY <1>1 DEF Entries
  <2>1. Entry(connections[j], poll_fds[j])  BY DEF IInv, Entries
  <2>2. CASE j = i  BY <1>1, <1>4, <2>1, <2>2 DEF Entry, conn_vars, client_vars, past_vars
  <2>3. CASE j # i  BY <1>1, <1>4, <2>1, <2>3 DEF Entry, conn_vars, client_vars, past_vars
  <2> QED  BY <2>2, <2>3
<1>9. AllAhead'
  <2> SUFFICES ASSUME NEW j \in 1..Len(connections) PROVE Ahead(j)'
    BY <1>1 DEF AllAhead
  <2>1. Ahead(j)  BY <1>1 DEF IInv, AllAhead
  <2>2. Owed(connections[j])' = Owed(connections[j])
    BY <1>1 DEF Owed, conn_vars, act_vars, past_vars
  <2>3. CASE j = i  BY <1>1, <2>1, <2>2, <2>3 DEF Ahead, conn_vars, call_vars
  <2>4. CASE j # i  BY <1>1, <1>4, <2>1, <2>2, <2>4 DEF Ahead, conn_vars, call_vars
  <2> QED  BY <2>3, <2>4
<1>10. PipeFresh'  BY <1>1 DEF PipeFresh
<1>11. /\ TypeObject' /\ TypeAct' /\ TypeCall' /\ TypeClient' /\ TypePast'
       /\ Objects' /\ Numbers' /\ Waiting' /\ Streams'
  BY <1>1, UnmovedTypes, UnmovedFacts DEF conn_vars, act_vars, call_vars, client_vars, past_vars
<1> QED  BY <1>6, <1>7, <1>8, <1>9, <1>10, <1>11 DEF IInv, Types

LEMMA EndTurnStep ==
  ASSUME IInv, EndTurn
  PROVE  IInv'
<1>1. /\ serve_pc = "clients" /\ serve_pc' = "poll" /\ i' = 1
      /\ UNCHANGED <<connections, poll_fds, pipe_ready, listen_ready, conn_vars, act_vars, call_vars,
                     client_vars, past_vars>>
  BY DEF EndTurn
<1>2. TypeServe'  BY <1>1 DEF TypeServe, IInv, Types
<1>3. Places'  BY <1>1, Vectors DEF IInv, Places, Live, conn_vars
<1>4. AllAhead'
  <2> SUFFICES ASSUME NEW j \in 1..Len(connections) PROVE Ahead(j)'
    BY <1>1 DEF AllAhead
  <2>1. Ahead(j)  BY <1>1 DEF IInv, AllAhead
  <2> QED  BY <1>1, <2>1 DEF Ahead, Owed, conn_vars, act_vars, call_vars, past_vars
<1>5. PipeFresh'  BY <1>1 DEF PipeFresh
<1>6. /\ TypeObject' /\ TypeAct' /\ TypeCall' /\ TypeClient' /\ TypePast'
      /\ Entries' /\ Objects' /\ Numbers' /\ Waiting' /\ Streams'
  BY <1>1, UnmovedTypes, UnmovedFacts DEF conn_vars, act_vars, call_vars, client_vars, past_vars
<1> QED  BY <1>2, <1>3, <1>4, <1>5, <1>6 DEF IInv, Types

LEMMA ReturnStep ==
  ASSUME IInv, Return
  PROVE  IInv'
<1>1. serve_pc = "return" /\ i = 1  BY DEF Return, IInv, Places
<1>2. CASE connections # <<>> /\ Drop /\ UNCHANGED serve_pc
  <2>1. i <= Len(connections)  BY <1>1, <1>2, Vectors, EmptySeq
  <2> QED  BY <1>1, <1>2, <2>1, DropStep
<1>3. CASE /\ serve_pc' = "done"
           /\ UNCHANGED <<serve_rest, conn_vars, act_vars, call_vars, client_vars, past_vars>>
  <2>1. TypeServe'  BY <1>3 DEF TypeServe, IInv, Types, serve_rest
  <2>2. Places'  BY <1>1, <1>3 DEF IInv, Places, Live, conn_vars, serve_rest
  <2>3. AllAhead' /\ PipeFresh'  BY <1>3 DEF AllAhead, PipeFresh
  <2>4. /\ TypeObject' /\ TypeAct' /\ TypeCall' /\ TypeClient' /\ TypePast'
        /\ Entries' /\ Objects' /\ Numbers' /\ Waiting' /\ Streams'
    BY <1>3, UnmovedTypes, UnmovedFacts
       DEF serve_rest, conn_vars, act_vars, call_vars, client_vars, past_vars
  <2> QED  BY <2>1, <2>2, <2>3, <2>4 DEF IInv, Types
<1> QED  BY <1>2, <1>3 DEF Return

LEMMA VisitStep ==
  ASSUME IInv, Visit
  PROVE  IInv'
<1>1. CASE HangUp \/ DropReceiving \/ DropSending
  <2>1. Drop /\ serve_pc = "clients" /\ serve_pc' = serve_pc /\ i <= Len(connections)
    BY <1>1 DEF HangUp, DropReceiving, DropSending, Receiving, Sending, Visiting
  <2> QED  BY <2>1, DropStep
<1>2. CASE ReceiveBlocked \/ SendBlocked \/ Pass
  <2>1. /\ serve_pc = "clients" /\ serve_pc' = "clients" /\ i <= Len(connections) /\ Keep
        /\ UNCHANGED <<conn_vars, act_vars, call_vars, client_vars, past_vars>>
    BY <1>2 DEF ReceiveBlocked, SendBlocked, Pass, Receiving, Sending, Visiting
  <2>2. TypeAct' /\ UNCHANGED <<act_flags_, act_message_, queued>>
    BY <2>1, UnmovedTypes DEF act_vars
  <2> QED  BY <2>1, <2>2, KeepStep
<1> QED  BY <1>1, <1>2, ReceiveStep, SendActiveStep, CompareStep, DropUnsentStep, SendFramesStep,
            SentAllStep DEF Visit

LEMMA Stutter == IInv /\ UNCHANGED vars => IInv'
<1> SUFFICES ASSUME IInv, UNCHANGED vars PROVE IInv'  OBVIOUS
<1>1. UNCHANGED <<serve_vars, serve_rest, conn_vars, act_vars, call_vars, client_vars, past_vars>>
  BY DEF vars, serve_vars, serve_rest, conn_vars, act_vars, call_vars, client_vars, past_vars
<1>2. /\ TypeServe' /\ TypeObject' /\ TypeAct' /\ TypeCall' /\ TypeClient' /\ TypePast'
  BY <1>1, UnmovedTypes
<1>3. /\ Places' /\ Entries' /\ Objects' /\ Numbers' /\ Waiting' /\ PipeFresh' /\ AllAhead' /\ Streams'
  BY <1>1, UnmovedFacts DEF vars, act_vars
<1> QED  BY <1>2, <1>3 DEF IInv, Types

LEMMA NextStep == IInv /\ [Next]_vars => IInv'
<1> SUFFICES ASSUME IInv, [Next]_vars PROVE IInv'  OBVIOUS
<1>1. CASE Clients
  <2>1. PICK c \in Client : Connect(c) \/ Leave(c)  BY <1>1 DEF Clients
  <2> QED  BY <2>1, ConnectStep, LeaveStep
<1>2. CASE MixerCalls  BY <1>2, MixerStep
<1>3. CASE Schedules  BY <1>3, ScheduleStep DEF Schedules
<1>4. CASE Quit  BY <1>4, QuitStep
<1>5. CASE Serve
  BY <1>5, PollStep, ReadMessagesStep, AcceptStep, VisitStep, EndTurnStep, ReturnStep DEF Serve
<1>6. CASE UNCHANGED vars  BY <1>6, Stutter
<1> QED  BY <1>1, <1>2, <1>3, <1>4, <1>5, <1>6 DEF Next

LEMMA Invariance == Spec => []IInv
BY InitInv, NextStep, PTL DEF Spec

-----------------------------------------------------------------------------------
\* Every variable of the server keeps its type, however many clients come and go.
THEOREM TypeCorrect == Spec => []TypeOK
<1>1. IInv => TypeOK  BY InvImplies
<1> QED  BY <1>1, Invariance, PTL

\* For any number of clients and of calls: the entry of poll_fds at the place of a
\* connection in serve's other vector is that of its socket, through every accept and every
\* drop in the middle of the loop over both, and both hold exactly the objects there are.
THEOREM VectorsAgree == Spec => []FdsAgree
<1>1. IInv => FdsAgree  BY InvImplies
<1> QED  BY <1>1, Invariance, PTL

\* A number in the pipe never makes the server send on a connection that nobody asked to
\* send, although the system gives numbers of closed sockets to new ones: between the
\* reading of the pipe and accept, every number in the pipe is that of an open socket.
THEOREM OnlyAsked == Spec => []AskedToSend
<1>1. IInv => AskedToSend  BY InvImplies
<1> QED  BY <1>1, Invariance, PTL

\* A frame or a change of flags that comes while do_send runs is not lost when the server
\* then clears POLLOUT: the message that was written for it is still in the pipe.
THEOREM NothingForgotten == Spec => []SendAhead
<1>1. IInv => SendAhead  BY InvImplies
<1> QED  BY <1>1, Invariance, PTL

\* For all sizes of the greeting and the parts of a frame, and all ways in which read cuts the
\* stream, a source's frames begin where the greeting or the frame before ended.
THEOREM FramesCut == Spec => []FramesAligned
<1>1. IInv => FramesAligned  BY InvImplies
<1> QED  BY <1>1, Invariance, PTL

\* Only a drop takes an object away, and only that of the connection the loop is at.
LEMMA OnlyDrops ==
  ASSUME IInv, [Next]_vars, NEW c \in Client, Dropped(c)
  PROVE  c = this /\ (HangUp \/ DropReceiving \/ DropSending \/ DropUnsent)
<1>1. kind \in [Client -> Kind \cup {"none", "unknown"}]  BY DEF IInv, Types, TypeObject
<1>2. kind' # kind /\ Live(c) /\ kind'[c] = "none"  BY DEF Dropped, Live
<1>3. ASSUME Receive PROVE FALSE
  <2>1. \/ kind' = kind
        \/ \E k \in Kind : kind' = [kind EXCEPT ![this] = k]
    BY <1>3 DEF Receive, Received
  <2>2. PICK k \in Kind : kind' = [kind EXCEPT ![this] = k]  BY <1>2, <2>1
  <2> QED  BY <1>1, <1>2, <2>2 DEF Live, Kind
<1>4. ASSUME Accept PROVE FALSE
  <2>1. kind' = [kind EXCEPT ![Head(backlog)] = "unknown"]  BY <1>2, <1>4 DEF Accept
  <2> QED  BY <1>1, <1>2, <2>1 DEF Live
<1>5. ASSUME Drop PROVE c = this  BY <1>1, <1>2, <1>5 DEF Drop, Live
<1>6. CASE HangUp \/ DropReceiving \/ DropSending \/ DropUnsent
  BY <1>5, <1>6 DEF HangUp, DropReceiving, DropSending, DropUnsent
<1>7. ASSUME Return PROVE FALSE  BY <1>7 DEF Return, Dropped
<1>8. CASE Clients
  BY <1>2, <1>8 DEF Clients, Connect, Leave, conn_vars
<1>9. CASE MixerCalls \/ Schedules
  BY <1>2, <1>9 DEF MixerCalls, Schedules, put_frame, set_active, Call, schedule_send, conn_vars
<1>10. CASE Quit \/ Poll \/ ReadMessages \/ EndTurn
  BY <1>2, <1>10 DEF Quit, Poll, ReadMessages, EndTurn, conn_vars
<1>11. CASE ReceiveBlocked \/ SendActive \/ Compare \/ SendFrames \/ SendBlocked \/ SentAll \/ Pass
  BY <1>2, <1>11 DEF ReceiveBlocked, SendActive, Compare, SendFrames, SendBlocked, SentAll, Pass,
                     conn_vars
<1>12. CASE UNCHANGED vars  BY <1>2, <1>12 DEF vars
<1> QED  BY <1>3, <1>4, <1>6, <1>7, <1>8, <1>9, <1>10, <1>11, <1>12 DEF Next, Serve, Visit

LEMMA CauseGiven ==
  ASSUME IInv, [Next]_vars, NEW c \in Client, Dropped(c)
  PROVE  Cause(c) \/ Torn(c) \/ Misplaced(c)
<1>1. c = this /\ (HangUp \/ DropReceiving \/ DropSending \/ DropUnsent)  BY OnlyDrops
<1>2. CASE DropUnsent
  <2>1. act_message_pos_ \in Nat /\ ACT_MSG_SIZE \in Nat
    BY ConstantAssumption DEF IInv, Types, TypeAct
  <2> QED  BY <1>1, <1>2, <2>1 DEF DropUnsent, sent_message, Torn, Misplaced
<1> SUFFICES ASSUME HangUp \/ DropReceiving \/ DropSending PROVE Cause(c)
  BY <1>1, <1>2
<1>3. Entry(c, poll_fds[i]) /\ i \in 1..Len(connections)
  <2>1. i \in 1..Len(connections)
    BY Vectors DEF HangUp, DropReceiving, DropSending, Receiving, Sending, Visiting, IInv, Types,
                   TypeServe
  <2> QED  BY <1>1, <2>1 DEF IInv, Entries, this
<1>4. CASE HangUp  BY <1>1, <1>3, <1>4 DEF HangUp, Entry, Cause, revents
<1>5. CASE DropReceiving
  BY <1>1, <1>5 DEF DropReceiving, Receiving, Unwelcome, EndOfStream, Cause
<1>6. CASE DropSending
  <2>1. asked[c]  BY <1>1, <1>3, <1>6 DEF DropSending, Sending, Entry, revents
  <2>2. kind[c] # "unknown"  BY <2>1 DEF IInv, Objects, Object, Kind
  <2> QED  BY <1>1, <1>6, <2>2 DEF DropSending, SendFailed, Cause
<1> QED  BY <1>4, <1>5, <1>6

\* A client that stays and keeps to the protocol is not dropped, whatever the other clients
\* and the mixer do at the same time, except for an activation message that the socket took a
\* part of, or whose position has no value: POLLOUT is only set for one that was asked, so
\* that do_send is not called for an unknown kind.
THEOREM KeptUnlessCause == Spec => KeptWithoutCause
<1>1. IInv /\ [Next]_vars =>
        [\A c \in Client : Dropped(c) => Cause(c) \/ Torn(c) \/ Misplaced(c)]_vars
  BY CauseGiven
<1> QED  BY <1>1, Invariance, PTL DEF Spec, KeptWithoutCause
=====================================================================================

------------------------------ MODULE Connector ------------------------------
(* connector.cpp: sources that are fetched over RTSP.  The UI thread builds a
   source_connection; the part of its constructor that touches the liveMedia
   event loop is done by the loop's own thread, on request, while the UI
   thread waits.  From the PLAY request on, that thread also delivers frames.

   Each connection has one slot among the mixer's sources, shared with the
   sources that come through the server ("guests").                          *)
EXTENDS Naturals, Sequences

CONSTANTS
  Connection,   \* the source_connection objects, one per sources_dialog::add_source
  Guest,        \* sources the server registers with the same mixer
  NULL          \* a null pointer, and an id that was never assigned

VARIABLES
  ui,              \* where the UI thread is in add_source
  stage,           \* of each connection: "none", "made", "reading" or "gone"
  playing,         \* connections whose server was told to PLAY
  add_conn_, add_error_, poll_pipe_, poll_exit_flag_,
  sources_, id_,
  last_put         \* of the last frame put: its connection, the holder of the slot, and
                   \* whether the connection was refused and not yet unwound

ui_vars == <<ui, stage, playing>>
add_vars == <<add_conn_, add_error_, poll_pipe_>>
mixer_vars == <<sources_, id_>>
vars == <<ui_vars, add_vars, poll_exit_flag_, mixer_vars, last_put>>

At(p, c) == [at |-> p, conn |-> c]
Idle == At("idle", NULL)

Init ==
  /\ ui = Idle
  /\ stage = [c \in Connection |-> "none"]
  /\ playing = {}
  /\ add_conn_ = NULL /\ add_error_ = FALSE /\ poll_pipe_ = 0
  /\ poll_exit_flag_ = FALSE
  /\ sources_ = <<>>
  /\ id_ = [c \in Connection |-> NULL]
  /\ last_put = NULL

----------------------------------------------------------------------------
(* The mixer's slots.                                                       *)
mixer_add_source(s) ==
  LET vacant == {i \in DOMAIN sources_ : sources_[i] = NULL}
      id == IF vacant = {} THEN Len(sources_) + 1
            ELSE CHOOSE i \in vacant : \A j \in vacant : i <= j
  IN  [id |-> id,
       sources |-> [i \in 1..(Len(sources_) + IF vacant = {} THEN 1 ELSE 0) |->
                      IF i = id THEN s ELSE sources_[i]]]

mixer_remove_source(id) == [sources_ EXCEPT ![id] = NULL]

(* The constructor has thrown: its members are destroyed, which closes the
   session, but not by ~source_connection.                                  *)
Discard(c) ==
  /\ stage' = [stage EXCEPT ![c] = "gone"]
  /\ playing' = playing \ {c}
  /\ ui' = Idle

----------------------------------------------------------------------------
(* The UI thread.                                                           *)
Describe(c) ==
  /\ ui = Idle /\ ~poll_exit_flag_ /\ stage[c] = "none"
  /\ \/ /\ ui' = At("ask", c)
        /\ stage' = [stage EXCEPT ![c] = "made"]
        /\ UNCHANGED playing
     \/ Discard(c)
  /\ UNCHANGED <<add_vars, poll_exit_flag_, mixer_vars, last_put>>

do_add_source ==
  /\ ui.at = "ask"
  /\ add_conn_' = ui.conn
  /\ poll_pipe_' = poll_pipe_ + 1
  /\ ui' = At("wait", ui.conn)
  /\ UNCHANGED <<stage, playing, add_error_, poll_exit_flag_, mixer_vars, last_put>>

Register ==
  /\ ui.at = "woken"
  /\ IF add_error_
     THEN Discard(ui.conn) /\ UNCHANGED mixer_vars
     ELSE LET added == mixer_add_source(ui.conn)
          IN  /\ sources_' = added.sources
              /\ id_' = [id_ EXCEPT ![ui.conn] = added.id]
              /\ ui' = At("play", ui.conn)
              /\ UNCHANGED <<stage, playing>>
  /\ UNCHANGED <<add_vars, poll_exit_flag_, last_put>>

\* Slip: the source stays registered.
RefusedKept ==
  /\ UNCHANGED sources_
  /\ ui' = At("refused", ui.conn)

\* The slot is given up first; what the event loop has of the connection goes only when
\* the exception is on its way (Unwind).
Refused ==
  /\ sources_' = mixer_remove_source(id_[ui.conn])
  /\ ui' = At("refused", ui.conn)

Play ==
  /\ ui.at = "play"
  /\ \/ /\ playing' = playing \union {ui.conn}
        /\ ui' = At("answer", ui.conn)
        /\ UNCHANGED sources_
     \/ Refused /\ UNCHANGED playing
  /\ UNCHANGED <<stage, id_, add_vars, poll_exit_flag_, last_put>>

Answer ==
  /\ ui.at = "answer"
  /\ \/ ui' = Idle /\ UNCHANGED sources_
     \/ Refused
  /\ UNCHANGED <<stage, playing, id_, add_vars, poll_exit_flag_, last_put>>

Unwind ==
  /\ ui.at = "refused"
  /\ Discard(ui.conn)
  /\ UNCHANGED <<add_vars, poll_exit_flag_, mixer_vars, last_put>>

----------------------------------------------------------------------------
(* The thread of the event loop.                                            *)
\* Slip: whoever waits is not woken when the event loop cannot add the source.
handle_request_unwoken ==
  /\ poll_pipe_ > 0
  /\ poll_pipe_' = poll_pipe_ - 1
  /\ \/ /\ ~poll_exit_flag_
        /\ stage' = [stage EXCEPT ![add_conn_] = "reading"]
        /\ add_error_' = FALSE /\ ui' = At("woken", ui.conn)
     \/ UNCHANGED <<ui, stage, add_error_>>
  /\ UNCHANGED <<playing, add_conn_, poll_exit_flag_, mixer_vars, last_put>>

handle_request ==
  /\ poll_pipe_ > 0
  /\ poll_pipe_' = poll_pipe_ - 1
  /\ IF poll_exit_flag_
     THEN UNCHANGED <<ui, stage, add_error_>>
     ELSE /\ \/ /\ stage' = [stage EXCEPT ![add_conn_] = "reading"]
                /\ add_error_' = FALSE
             \/ /\ UNCHANGED stage
                /\ add_error_' = TRUE
          /\ ui' = At("woken", ui.conn)
  /\ UNCHANGED <<playing, add_conn_, poll_exit_flag_, mixer_vars, last_put>>

Refusing(c) == ui.at = "refused" /\ ui.conn = c

handle_frame(c) ==
  /\ stage[c] = "reading" /\ c \in playing /\ ~poll_exit_flag_
  /\ \/ last_put' = [conn |-> c,
                     holder |-> IF id_[c] \in DOMAIN sources_
                                THEN sources_[id_[c]] ELSE NULL,
                     refused |-> Refusing(c)]
     \/ UNCHANGED last_put           \* size mismatch
  /\ UNCHANGED <<ui_vars, add_vars, poll_exit_flag_, mixer_vars>>

handle_close(c) ==
  /\ stage[c] = "reading" /\ c \in playing /\ ui.conn # c /\ ~poll_exit_flag_
  /\ sources_' = mixer_remove_source(id_[c])
  /\ stage' = [stage EXCEPT ![c] = "gone"]
  /\ playing' = playing \ {c}
  /\ UNCHANGED <<ui, add_vars, poll_exit_flag_, id_, last_put>>

----------------------------------------------------------------------------
Destroy ==
  /\ ui = Idle /\ ~poll_exit_flag_
  /\ poll_exit_flag_' = TRUE
  /\ poll_pipe_' = poll_pipe_ + 1
  /\ UNCHANGED <<ui_vars, add_conn_, add_error_, mixer_vars, last_put>>

Join(g) ==
  /\ \A i \in DOMAIN sources_ : sources_[i] # g
  /\ sources_' = mixer_add_source(g).sources
  /\ UNCHANGED <<ui_vars, add_vars, poll_exit_flag_, id_, last_put>>

Leave(g) ==
  /\ \E i \in DOMAIN sources_ :
       sources_[i] = g /\ sources_' = mixer_remove_source(i)
  /\ UNCHANGED <<ui_vars, add_vars, poll_exit_flag_, id_, last_put>>

Next ==
  \/ do_add_source \/ Register \/ Play \/ Answer \/ Unwind \/ handle_request \/ Destroy
  \/ \E c \in Connection : Describe(c) \/ handle_frame(c) \/ handle_close(c)
  \/ \E g \in Guest : Join(g) \/ Leave(g)

----------------------------------------------------------------------------
SlotsOf(c) == {i \in DOMAIN sources_ : sources_[i] = c}

Registered(c) == stage[c] = "reading" /\ id_[c] # NULL /\ ~Refusing(c)

(* Connections and slots belong together: a frame goes into the slot its own
   connection holds, unless that one is being refused, which gives the slot up
   before the frames end (connector.cpp:80); a connection that
   failed, was refused or ended holds none; one that is registered holds
   exactly the slot of its id_; and none plays without a session.           *)
ConnectionsKept ==
  /\ last_put # NULL => last_put.holder = last_put.conn \/ last_put.refused
  /\ \A c \in Connection : SlotsOf(c) = IF Registered(c) THEN {id_[c]} ELSE {}
  /\ playing \subseteq {c \in Connection : stage[c] = "reading" /\ id_[c] # NULL}
=============================================================================

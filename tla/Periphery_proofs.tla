------------------------------ MODULE Periphery_proofs ------------------------------
(***************************************************************************)
(* Proofs about the parts around the mixer, in the order of MCPeriphery.    *)
(* Each part has an invariant of its own, and at the end a step of one part *)
(* leaves the others alone.                                                 *)
(***************************************************************************)
EXTENDS MCPeriphery, WellFoundedInduction, SequenceTheorems, FiniteSetTheorems, TLAPS

----------------------------------------------------------------------------
(* The connector.                                                           *)
Holder == Connection \union Guest \union {NULL}

LinkTypes ==
  /\ ui \in [at : {"idle", "ask", "wait", "woken", "play", "answer", "refused"},
             conn : Connection \union {NULL}]
  /\ (ui.at = "idle") <=> (ui.conn = NULL)
  /\ stage \in [Connection -> {"none", "made", "reading", "gone"}]
  /\ playing \subseteq Connection
  /\ add_conn_ \in Connection \union {NULL} /\ add_error_ \in BOOLEAN
  /\ poll_pipe_ \in Nat /\ poll_exit_flag_ \in BOOLEAN
  /\ sources_ \in Seq(Holder)
  /\ id_ \in [Connection -> Nat \union {NULL}]

\* The event loop is asked once for each connection, and not after it was told to stop.
Asked ==
  /\ poll_exit_flag_ => ui.at = "idle"
  /\ ~poll_exit_flag_ => poll_pipe_ = IF ui.at = "wait" THEN 1 ELSE 0
  /\ ui.at = "wait" => add_conn_ = ui.conn

\* What the connection being built has is what its constructor has come to; the others have
\* a slot if they have a session.
Building ==
  /\ ui.at \in {"ask", "wait"} => stage[ui.conn] = "made" /\ id_[ui.conn] = NULL
  /\ ui.at = "woken" => /\ stage[ui.conn] = IF add_error_ THEN "made" ELSE "reading"
                        /\ id_[ui.conn] = NULL
  /\ ui.at \in {"play", "answer", "refused"} => stage[ui.conn] = "reading" /\ id_[ui.conn] # NULL
  /\ \A c \in Connection \ {ui.conn} : stage[c] = "reading" => id_[c] # NULL
  /\ \A c \in Connection : stage[c] = "none" => id_[c] = NULL

\* A connection has the slot of its id_, and no other, while it is registered.
Slotted ==
  \A c \in Connection : Links!SlotsOf(c) = IF Links!Registered(c) THEN {id_[c]} ELSE {}

Played ==
  /\ last_put # NULL => last_put.holder = last_put.conn \/ last_put.refused
  /\ playing \subseteq {c \in Connection : stage[c] = "reading" /\ id_[c] # NULL}

LinkInv == LinkTypes /\ Asked /\ Building /\ Slotted /\ Played

\* A set of numbers that has any has a least one.
LEMMA LeastNumber ==
  ASSUME NEW T, T \subseteq Nat, T # {}
  PROVE  \E i \in T : \A j \in T : i <= j
<1> DEFINE R == OpToRel(<, Nat)
<1>1. IsWellFoundedOn(R, Nat)  BY NatLessThanWellFounded
<1>2. R = {ss \in Nat \X Nat : ss[1] < ss[2]}  BY DEF OpToRel
<1> HIDE DEF R
<1>3. PICK i \in T : \A j \in T : ~(<<j, i>> \in R)  BY <1>1, WFMin
<1>4. \A j \in T : <<j, i>> \in R <=> j < i  BY <1>2
<1>5. \A j \in T : i \in Nat /\ j \in Nat /\ ~(j < i)  BY <1>3, <1>4
<1> QED  BY <1>5

\* add_source fills one vacant or new slot and leaves the others.
LEMMA AddsOne ==
  ASSUME sources_ \in Seq(Holder), NEW s \in Connection \union Guest
  PROVE  LET added == Links!mixer_add_source(s)
         IN  /\ added.sources \in Seq(Holder) /\ added.id \in Nat
             /\ added.id \in DOMAIN added.sources /\ added.sources[added.id] = s
             /\ added.id \in DOMAIN sources_ => sources_[added.id] = NULL
             /\ \A i \in DOMAIN sources_ : i \in DOMAIN added.sources
             /\ \A i \in DOMAIN added.sources :
                  i # added.id => i \in DOMAIN sources_ /\ added.sources[i] = sources_[i]
<1> DEFINE n == Len(sources_)
           vacant == {i \in DOMAIN sources_ : sources_[i] = NULL}
           id == IF vacant = {} THEN n + 1 ELSE CHOOSE i \in vacant : \A j \in vacant : i <= j
           len == n + IF vacant = {} THEN 1 ELSE 0
           new == [i \in 1..len |-> IF i = id THEN s ELSE sources_[i]]
<1>1. n \in Nat /\ DOMAIN sources_ = 1..n /\ \A i \in 1..n : sources_[i] \in Holder
  OBVIOUS
<1>2. Links!mixer_add_source(s) = [id |-> id, sources |-> new]
  BY Zenon DEF Links!mixer_add_source
<1>3. vacant # {} => id \in vacant
  <2>1. SUFFICES ASSUME vacant # {} PROVE \E i \in vacant : \A j \in vacant : i <= j  OBVIOUS
  <2>2. vacant \subseteq Nat  BY <1>1
  <2> QED  BY <2>1, <2>2, LeastNumber
<1>4. id \in 1..len /\ len \in Nat /\ n <= len  BY <1>1, <1>3
<1>5. \A i \in 1..len : i # id => i \in 1..n  BY <1>1, <1>3
<1>6. id \in 1..n => sources_[id] = NULL  BY <1>1, <1>3
<1>7. DOMAIN sources_ = 1..n  BY <1>1
<1> HIDE DEF n, id, len, vacant
<1>8. \A i \in 1..len : new[i] = IF i = id THEN s ELSE sources_[i]  OBVIOUS
<1>9. \A i \in 1..len : new[i] \in Holder  BY <1>1, <1>5, <1>8 DEF Holder
<1>10. new \in Seq(Holder) /\ DOMAIN new = 1..len  BY <1>4, <1>9
<1> HIDE DEF new
<1> DEFINE added == Links!mixer_add_source(s)
<1>11. added.id = id /\ added.sources = new  BY <1>2
<1> HIDE DEF added
<1>12. /\ \A i \in 1..n : i \in 1..len
  BY <1>1, <1>4
<1>13. id \in Nat /\ new[id] = s  BY <1>4, <1>8
<1> QED  BY <1>4, <1>5, <1>6, <1>7, <1>8, <1>10, <1>11, <1>12, <1>13 DEF added
LEMMA LinkInit == Links!Init => LinkInv
<1> SUFFICES ASSUME Links!Init PROVE LinkInv  OBVIOUS
<1>1. /\ ui = [at |-> "idle", conn |-> NULL] /\ stage = [c \in Connection |-> "none"]
      /\ playing = {} /\ add_conn_ = NULL /\ add_error_ = FALSE /\ poll_pipe_ = 0
      /\ poll_exit_flag_ = FALSE /\ sources_ = <<>> /\ id_ = [c \in Connection |-> NULL]
      /\ last_put = NULL
  BY DEF Links!Init, Links!Idle, Links!At
<1>2. add_error_ \in BOOLEAN /\ poll_exit_flag_ \in BOOLEAN  BY <1>1, Zenon
<1>3. LinkTypes  BY <1>1, <1>2 DEF LinkTypes, Holder
<1>4. Asked /\ Building /\ Played  BY <1>1, PeripheryAssumption DEF Asked, Building, Played
<1>5. Slotted  BY <1>1 DEF Slotted, Links!SlotsOf, Links!Registered, Links!Refusing
<1> QED  BY <1>3, <1>4, <1>5 DEF LinkInv

\* The slots of everyone else stay when one is filled, ...
LEMMA SlotsAdded ==
  ASSUME sources_ \in Seq(Holder), NEW s \in Connection \union Guest, NEW c \in Connection,
         sources_' = Links!mixer_add_source(s).sources
  PROVE  Links!SlotsOf(c)' = IF c = s THEN Links!SlotsOf(c) \union {Links!mixer_add_source(s).id}
                             ELSE Links!SlotsOf(c)
<1> DEFINE added == Links!mixer_add_source(s)
           id == added.id
           new == added.sources
<1>1. /\ id \in DOMAIN new /\ new[id] = s
      /\ id \in DOMAIN sources_ => sources_[id] = NULL
      /\ \A i \in DOMAIN sources_ : i \in DOMAIN new
      /\ \A i \in DOMAIN new : i # id => i \in DOMAIN sources_ /\ new[i] = sources_[i]
  BY AddsOne
<1>2. sources_' = new  OBVIOUS
<1> HIDE DEF id, new, added
<1>3. c # NULL  BY PeripheryAssumption
<1>4. \A i : i \in Links!SlotsOf(c)' <=> i \in DOMAIN new /\ new[i] = c
  BY <1>2 DEF Links!SlotsOf
<1>5. \A i : i \in Links!SlotsOf(c) <=> i \in DOMAIN sources_ /\ sources_[i] = c
  BY DEF Links!SlotsOf
<1>6. \A i : i \in Links!SlotsOf(c)' <=> i \in Links!SlotsOf(c) \/ (c = s /\ i = id)
  BY <1>1, <1>3, <1>4, <1>5
<1>7. Links!SlotsOf(c)' = IF c = s THEN Links!SlotsOf(c) \union {id} ELSE Links!SlotsOf(c)
  <2>1. CASE c = s
    <3>1. \A i : i \in Links!SlotsOf(c)' <=> i \in Links!SlotsOf(c) \union {id}
      BY <1>6, <2>1
    <3> QED  BY <2>1, <3>1
  <2>2. CASE c # s
    <3>1. \A i : i \in Links!SlotsOf(c)' <=> i \in Links!SlotsOf(c)
      BY <1>6, <2>2
    <3> QED  BY <2>2, <3>1
  <2> QED  BY <2>1, <2>2
<1> QED  BY <1>7 DEF id, added

\* ... and when one is vacated.
LEMMA SlotsRemoved ==
  ASSUME sources_ \in Seq(Holder), NEW id \in DOMAIN sources_,
         sources_' = Links!mixer_remove_source(id)
  PROVE  /\ sources_' \in Seq(Holder)
         /\ \A c \in Connection : Links!SlotsOf(c)' = Links!SlotsOf(c) \ {id}
<1>1. sources_' = [sources_ EXCEPT ![id] = NULL]  BY DEF Links!mixer_remove_source
<1>2. sources_' \in Seq(Holder)  BY <1>1 DEF Holder
<1>3. /\ DOMAIN sources_' = DOMAIN sources_
      /\ \A i \in DOMAIN sources_ : sources_'[i] = IF i = id THEN NULL ELSE sources_[i]
  BY <1>1
<1>4. ASSUME NEW c \in Connection PROVE Links!SlotsOf(c)' = Links!SlotsOf(c) \ {id}
  <2>1. c # NULL  BY PeripheryAssumption
  <2>2. \A i : i \in Links!SlotsOf(c)' <=> i \in DOMAIN sources_' /\ sources_'[i] = c
    BY DEF Links!SlotsOf
  <2>3. \A i : i \in Links!SlotsOf(c) <=> i \in DOMAIN sources_ /\ sources_[i] = c
    BY DEF Links!SlotsOf
  <2>4. \A i : i \in Links!SlotsOf(c)' <=> i \in Links!SlotsOf(c) \ {id}
    BY <1>3, <2>1, <2>2, <2>3
  <2> QED  BY <2>4
<1> QED  BY <1>2, <1>4

LEMMA SlotsStay ==
  sources_' = sources_ => \A c \in Connection : Links!SlotsOf(c)' = Links!SlotsOf(c)
BY DEF Links!SlotsOf

\* The slot of a registered connection.
LEMMA OwnSlot ==
  ASSUME Slotted, NEW c \in Connection, Links!Registered(c)
  PROVE  id_[c] \in DOMAIN sources_ /\ sources_[id_[c]] = c
<1>1. id_[c] \in Links!SlotsOf(c)  BY DEF Slotted
<1> QED  BY <1>1 DEF Links!SlotsOf

\* A connection that ends or is refused leaves its slot, and no one else's.
LEMMA LeavesSlot ==
  ASSUME LinkInv, NEW c \in Connection, Links!Registered(c), ~Links!Registered(c)',
         \A k \in Connection : k # c => (Links!Registered(k)' <=> Links!Registered(k)),
         sources_' = Links!mixer_remove_source(id_[c]), id_' = id_
  PROVE  Slotted' /\ sources_' \in Seq(Holder)
<1>0. LinkTypes /\ Slotted  BY DEF LinkInv
<1>1. id_[c] \in DOMAIN sources_ /\ sources_[id_[c]] = c  BY <1>0, OwnSlot
<1>2. /\ sources_' \in Seq(Holder)
      /\ \A k \in Connection : Links!SlotsOf(k)' = Links!SlotsOf(k) \ {id_[c]}
  BY <1>0, <1>1, SlotsRemoved DEF LinkTypes
<1>3. ASSUME NEW k \in Connection
      PROVE  Links!SlotsOf(k)' = IF Links!Registered(k)' THEN {id_'[k]} ELSE {}
  <2>1. Links!SlotsOf(k) = IF Links!Registered(k) THEN {id_[k]} ELSE {}
    BY <1>0 DEF Slotted
  <2>2. Links!SlotsOf(k)' = Links!SlotsOf(k) \ {id_[c]}  BY <1>2
  <2>3. CASE k = c  BY <2>1, <2>2, <2>3
  <2>4. CASE k # c
    <3>1. id_[c] \notin Links!SlotsOf(k)  BY <1>1, <2>4 DEF Links!SlotsOf
    <3> QED  BY <2>1, <2>2, <2>4, <3>1
  <2> QED  BY <2>3, <2>4
<1> QED  BY <1>2, <1>3 DEF Slotted

\* What the steps that leave the slots alone keep.
LEMMA SlotsKept ==
  ASSUME LinkInv, UNCHANGED sources_,
         \A c \in Connection : (Links!Registered(c)' <=> Links!Registered(c)) /\ id_'[c] = id_[c]
  PROVE  Slotted'
<1>0. Slotted  BY DEF LinkInv
<1> QED  BY <1>0, SlotsStay DEF Slotted

LEMMA LinkDescribe ==
  ASSUME LinkInv, NEW c \in Connection, Links!Describe(c)
  PROVE  LinkInv'
<1> USE DEF Links!add_vars, Links!mixer_vars
<1>0. LinkTypes /\ Asked /\ Building /\ Slotted /\ Played  BY DEF LinkInv
<1>1. /\ ui.at = "idle" /\ ui.conn = NULL /\ ~poll_exit_flag_ /\ stage[c] = "none" /\ id_[c] = NULL
      /\ \A k \in Connection : stage[k] = "reading" => id_[k] # NULL
  BY <1>0, PeripheryAssumption
     DEF Links!Describe, Links!Idle, Links!At, Building, LinkTypes
<1>2. UNCHANGED <<add_conn_, add_error_, poll_pipe_, poll_exit_flag_, sources_, id_, last_put>>
  BY DEF Links!Describe
<1>3. PICK s \in {"made", "gone"} :
        /\ stage' = [stage EXCEPT ![c] = s] /\ playing' \subseteq playing
        /\ \/ s = "made" /\ ui' = [at |-> "ask", conn |-> c]
           \/ s = "gone" /\ ui' = [at |-> "idle", conn |-> NULL]
  BY <1>1 DEF Links!Describe, Links!Discard, Links!Idle, Links!At
<1>4. /\ stage' \in [Connection -> {"none", "made", "reading", "gone"}] /\ stage'[c] = s
      /\ \A k \in Connection : k # c => stage'[k] = stage[k]
  BY <1>0, <1>3 DEF LinkTypes
<1>5. LinkTypes'  BY <1>0, <1>2, <1>3, <1>4, PeripheryAssumption DEF LinkTypes
<1>6. Asked'  BY <1>0, <1>1, <1>2, <1>3 DEF Asked
<1>7. Building'
  <2>1. CASE s = "made"  BY <1>0, <1>1, <1>2, <1>3, <1>4, <2>1 DEF Building
  <2>2. CASE s = "gone"  BY <1>0, <1>1, <1>2, <1>3, <1>4, <2>2 DEF Building
  <2> QED  BY <2>1, <2>2
<1>8. Slotted'  BY <1>1, <1>2, <1>3, <1>4, SlotsKept DEF Links!Registered, Links!Refusing
<1>9. Played'  BY <1>0, <1>1, <1>2, <1>3, <1>4 DEF Played
<1> QED  BY <1>5, <1>6, <1>7, <1>8, <1>9 DEF LinkInv

LEMMA LinkAsk == LinkInv /\ Links!do_add_source => LinkInv'
<1> SUFFICES ASSUME LinkInv, Links!do_add_source PROVE LinkInv'  OBVIOUS
<1> USE DEF Links!mixer_vars
<1>0. LinkTypes /\ Asked /\ Building /\ Slotted /\ Played  BY DEF LinkInv
<1>1. /\ ui.at = "ask" /\ add_conn_' = ui.conn /\ poll_pipe_' = poll_pipe_ + 1
      /\ ui' = [at |-> "wait", conn |-> ui.conn]
      /\ UNCHANGED <<stage, playing, add_error_, poll_exit_flag_, sources_, id_, last_put>>
  BY DEF Links!do_add_source, Links!At
<1>2. ui.conn \in Connection  BY <1>0, <1>1 DEF LinkTypes
<1>3. LinkTypes'  BY <1>0, <1>1, <1>2, PeripheryAssumption DEF LinkTypes
<1>4. Asked'  BY <1>0, <1>1 DEF Asked
<1>5. Building'  BY <1>0, <1>1 DEF Building
<1>6. Slotted'  BY <1>1, SlotsKept DEF Links!Registered, Links!Refusing
<1>7. Played'  BY <1>0, <1>1 DEF Played
<1> QED  BY <1>3, <1>4, <1>5, <1>6, <1>7 DEF LinkInv

LEMMA LinkRegister == LinkInv /\ Links!Register => LinkInv'
<1> SUFFICES ASSUME LinkInv, Links!Register PROVE LinkInv'  OBVIOUS
<1> USE DEF Links!add_vars, Links!mixer_vars
<1> DEFINE c == ui.conn
<1>0. LinkTypes /\ Asked /\ Building /\ Slotted /\ Played  BY DEF LinkInv
<1>1. /\ ui.at = "woken" /\ c \in Connection /\ id_[c] = NULL /\ ~poll_exit_flag_
      /\ stage[c] = IF add_error_ THEN "made" ELSE "reading"
      /\ UNCHANGED <<add_conn_, add_error_, poll_pipe_, poll_exit_flag_, last_put>>
  BY <1>0 DEF Links!Register, LinkTypes, Asked, Building
<1>2. CASE add_error_
  <2>1. /\ stage' = [stage EXCEPT ![c] = "gone"] /\ playing' = playing \ {c}
        /\ ui' = [at |-> "idle", conn |-> NULL] /\ UNCHANGED <<sources_, id_>>
    BY <1>2 DEF Links!Register, Links!Discard, Links!Idle, Links!At
  <2>2. /\ stage' \in [Connection -> {"none", "made", "reading", "gone"}] /\ stage'[c] = "gone"
        /\ \A k \in Connection : k # c => stage'[k] = stage[k]
    BY <1>0, <1>1, <2>1 DEF LinkTypes
  <2>3. LinkTypes'  BY <1>0, <1>1, <2>1, <2>2, PeripheryAssumption DEF LinkTypes
  <2>4. Asked'  BY <1>0, <1>1, <2>1 DEF Asked
  <2>5. Building'  BY <1>0, <1>1, <2>1, <2>2 DEF Building
  <2>6. Slotted'  BY <1>1, <2>1, <2>2, SlotsKept DEF Links!Registered, Links!Refusing
  <2>7. Played'  BY <1>0, <1>1, <2>1, <2>2 DEF Played
  <2> QED  BY <2>3, <2>4, <2>5, <2>6, <2>7 DEF LinkInv
<1>3. CASE ~add_error_
  <2> DEFINE added == Links!mixer_add_source(c)
  <2>1. /\ sources_' = added.sources /\ id_' = [id_ EXCEPT ![c] = added.id]
        /\ ui' = [at |-> "play", conn |-> c] /\ UNCHANGED <<stage, playing>>
    BY <1>3 DEF Links!Register, Links!At
  <2>2. sources_ \in Seq(Holder) /\ c \in Connection \union Guest  BY <1>0, <1>1 DEF LinkTypes
  <2>3. added.sources \in Seq(Holder) /\ added.id \in Nat  BY <2>2, AddsOne
  <2>4. \A k \in Connection :
          Links!SlotsOf(k)' = IF k = c THEN Links!SlotsOf(k) \union {added.id} ELSE Links!SlotsOf(k)
    BY <2>1, <2>2, SlotsAdded
  <2> HIDE DEF added
  <2>5. added.id # NULL /\ stage[c] = "reading"  BY <1>1, <1>3, <2>3, PeripheryAssumption
  <2>6. id_' \in [Connection -> Nat \union {NULL}] /\ id_'[c] = added.id
        /\ \A k \in Connection : k # c => id_'[k] = id_[k]
    BY <1>0, <1>1, <2>1, <2>3 DEF LinkTypes
  <2>7. LinkTypes'  BY <1>0, <1>1, <2>1, <2>3, <2>6, PeripheryAssumption DEF LinkTypes
  <2>8. Asked'  BY <1>0, <1>1, <2>1 DEF Asked
  <2>9. Building'  BY <1>0, <1>1, <2>1, <2>5, <2>6 DEF Building
  <2>10. ASSUME NEW k \in Connection
         PROVE  Links!SlotsOf(k)' = IF Links!Registered(k)' THEN {id_'[k]} ELSE {}
    <3>1. Links!SlotsOf(k) = IF Links!Registered(k) THEN {id_[k]} ELSE {}
      BY <1>0 DEF Slotted
    <3>2. CASE k = c
      <4>1. Links!SlotsOf(k) = {} /\ Links!Registered(k)'
        BY <1>1, <2>1, <2>5, <2>6, <3>1, <3>2 DEF Links!Registered, Links!Refusing
      <4> QED  BY <2>4, <2>6, <3>2, <4>1
    <3>3. CASE k # c
      <4>1. Links!Registered(k)' <=> Links!Registered(k)
        BY <1>1, <2>1, <2>6, <3>3 DEF Links!Registered, Links!Refusing
      <4> QED  BY <2>4, <2>6, <3>1, <3>3, <4>1
    <3> QED  BY <3>2, <3>3
  <2>11. Slotted'  BY <2>10 DEF Slotted
  <2>12. Played'  BY <1>0, <1>1, <2>1, <2>5, <2>6 DEF Played
  <2> QED  BY <2>7, <2>8, <2>9, <2>11, <2>12 DEF LinkInv
<1> QED  BY <1>2, <1>3

\* The server refuses to play, or answers that it will not.
LEMMA LinkRefused ==
  ASSUME LinkInv, Links!Refused, ui.at \in {"play", "answer"},
         UNCHANGED <<stage, playing, id_, add_conn_, add_error_, poll_pipe_, poll_exit_flag_,
                     last_put>>
  PROVE  LinkInv'
<1> DEFINE c == ui.conn
<1>0. LinkTypes /\ Asked /\ Building /\ Slotted /\ Played  BY DEF LinkInv
<1>1. c \in Connection /\ stage[c] = "reading" /\ id_[c] # NULL /\ ~poll_exit_flag_
  BY <1>0 DEF LinkTypes, Building, Asked
<1>2. ui' = [at |-> "refused", conn |-> c] /\ sources_' = Links!mixer_remove_source(id_[c])
  BY DEF Links!Refused, Links!At
<1>3. /\ Links!Registered(c) /\ ~Links!Registered(c)'
      /\ \A k \in Connection : k # c => (Links!Registered(k)' <=> Links!Registered(k))
  BY <1>1, <1>2 DEF Links!Registered, Links!Refusing
<1>4. Slotted' /\ sources_' \in Seq(Holder)  BY <1>1, <1>2, <1>3, LeavesSlot
<1>5. LinkTypes'  BY <1>0, <1>1, <1>2, <1>4, PeripheryAssumption DEF LinkTypes
<1>6. Asked'  BY <1>0, <1>1, <1>2 DEF Asked
<1>7. Building'  BY <1>0, <1>1, <1>2 DEF Building
<1>8. Played'  BY <1>0 DEF Played
<1> QED  BY <1>4, <1>5, <1>6, <1>7, <1>8 DEF LinkInv

LEMMA LinkPlay == LinkInv /\ (Links!Play \/ Links!Answer) => LinkInv'
<1> SUFFICES ASSUME LinkInv, Links!Play \/ Links!Answer PROVE LinkInv'  OBVIOUS
<1> USE DEF Links!add_vars, Links!mixer_vars
<1> DEFINE c == ui.conn
<1>0. LinkTypes /\ Asked /\ Building /\ Slotted /\ Played  BY DEF LinkInv
<1>1. /\ ui.at \in {"play", "answer"}
      /\ UNCHANGED <<stage, id_, add_conn_, add_error_, poll_pipe_, poll_exit_flag_, last_put>>
  BY DEF Links!Play, Links!Answer
<1>2. CASE Links!Refused /\ UNCHANGED playing  BY <1>1, <1>2, LinkRefused
<1>3. CASE ~(Links!Refused /\ UNCHANGED playing)
  <2>1. /\ UNCHANGED sources_
        /\ \/ playing' = playing \union {c} /\ ui' = [at |-> "answer", conn |-> c]
           \/ playing' = playing /\ ui' = [at |-> "idle", conn |-> NULL]
    BY <1>3 DEF Links!Play, Links!Answer, Links!Idle, Links!At
  <2>2. c \in Connection /\ stage[c] = "reading" /\ id_[c] # NULL /\ ~poll_exit_flag_
    BY <1>0, <1>1 DEF LinkTypes, Building, Asked
  <2>3. LinkTypes'  BY <1>0, <1>1, <2>1, <2>2, PeripheryAssumption DEF LinkTypes
  <2>4. Asked'  BY <1>0, <1>1, <2>1 DEF Asked
  <2>5. Building'  BY <1>0, <1>1, <2>1, <2>2 DEF Building
  <2>6. Slotted'  BY <1>1, <2>1, SlotsKept DEF Links!Registered, Links!Refusing
  <2>7. Played'  BY <1>0, <1>1, <2>1, <2>2 DEF Played
  <2> QED  BY <2>3, <2>4, <2>5, <2>6, <2>7 DEF LinkInv
<1> QED  BY <1>2, <1>3

\* The exception ends the session of a connection that has no slot any more.
LEMMA LinkUnwind == LinkInv /\ Links!Unwind => LinkInv'
<1> SUFFICES ASSUME LinkInv, Links!Unwind PROVE LinkInv'  OBVIOUS
<1> USE DEF Links!add_vars, Links!mixer_vars
<1> DEFINE c == ui.conn
<1>0. LinkTypes /\ Asked /\ Building /\ Slotted /\ Played  BY DEF LinkInv
<1>1. /\ ui.at = "refused" /\ stage' = [stage EXCEPT ![c] = "gone"] /\ playing' = playing \ {c}
      /\ ui' = [at |-> "idle", conn |-> NULL]
      /\ UNCHANGED <<add_conn_, add_error_, poll_pipe_, poll_exit_flag_, sources_, id_, last_put>>
  BY DEF Links!Unwind, Links!Discard, Links!Idle, Links!At
<1>2. c \in Connection /\ stage[c] = "reading" /\ id_[c] # NULL /\ ~poll_exit_flag_
  BY <1>0, <1>1 DEF LinkTypes, Building, Asked
<1>3. /\ stage' \in [Connection -> {"none", "made", "reading", "gone"}] /\ stage'[c] = "gone"
      /\ \A k \in Connection : k # c => stage'[k] = stage[k]
  BY <1>0, <1>1, <1>2 DEF LinkTypes
<1>4. LinkTypes'  BY <1>0, <1>1, <1>3, PeripheryAssumption DEF LinkTypes
<1>5. Asked'  BY <1>0, <1>1, <1>2 DEF Asked
<1>6. Building'  BY <1>0, <1>1, <1>3 DEF Building
<1>7. Slotted'  BY <1>1, <1>3, SlotsKept DEF Links!Registered, Links!Refusing
<1>8. Played'  BY <1>0, <1>1, <1>3 DEF Played
<1> QED  BY <1>4, <1>5, <1>6, <1>7, <1>8 DEF LinkInv

LEMMA LinkRequest == LinkInv /\ Links!handle_request => LinkInv'
<1> SUFFICES ASSUME LinkInv, Links!handle_request PROVE LinkInv'  OBVIOUS
<1> USE DEF Links!mixer_vars
<1> DEFINE c == ui.conn
<1>0. LinkTypes /\ Asked /\ Building /\ Slotted /\ Played  BY DEF LinkInv
<1>1. /\ poll_pipe_ > 0 /\ poll_pipe_' = poll_pipe_ - 1 /\ poll_pipe_' \in Nat
      /\ UNCHANGED <<playing, add_conn_, poll_exit_flag_, sources_, id_, last_put>>
  BY <1>0 DEF Links!handle_request, LinkTypes
<1>2. CASE poll_exit_flag_
  <2>1. UNCHANGED <<ui, stage, add_error_>>  BY <1>2 DEF Links!handle_request
  <2>2. LinkTypes'  BY <1>0, <1>1, <2>1 DEF LinkTypes
  <2>3. Asked' /\ Building' /\ Played'  BY <1>0, <1>1, <1>2, <2>1 DEF Asked, Building, Played
  <2>4. Slotted'  BY <1>1, <2>1, SlotsKept DEF Links!Registered, Links!Refusing
  <2> QED  BY <2>2, <2>3, <2>4 DEF LinkInv
<1>3. CASE ~poll_exit_flag_
  <2>1. ui.at = "wait" /\ poll_pipe_ = 1 /\ add_conn_ = c  BY <1>0, <1>1, <1>3 DEF Asked
  <2>2. c \in Connection /\ stage[c] = "made" /\ id_[c] = NULL
    BY <1>0, <2>1 DEF LinkTypes, Building
  <2>3. /\ ui' = [at |-> "woken", conn |-> c]
        /\ \/ stage' = [stage EXCEPT ![c] = "reading"] /\ add_error_' = FALSE
           \/ stage' = stage /\ add_error_' = TRUE
    BY <1>3, <2>1 DEF Links!handle_request, Links!At
  <2>4. /\ stage' \in [Connection -> {"none", "made", "reading", "gone"}]
        /\ stage'[c] = IF add_error_' THEN "made" ELSE "reading"
        /\ \A k \in Connection : k # c => stage'[k] = stage[k]
    BY <1>0, <2>2, <2>3 DEF LinkTypes
  <2>5. add_error_' \in BOOLEAN  BY <2>3, Zenon
  <2>6. LinkTypes'  BY <1>0, <1>1, <2>2, <2>3, <2>4, <2>5, PeripheryAssumption DEF LinkTypes
  <2>7. Asked'  BY <1>0, <1>1, <1>3, <2>1, <2>3 DEF Asked
  <2>8. Building'  BY <1>0, <1>1, <2>2, <2>3, <2>4 DEF Building
  <2>9. Slotted'
    <3>1. \A k \in Connection : (Links!Registered(k)' <=> Links!Registered(k)) /\ id_'[k] = id_[k]
      BY <1>1, <2>1, <2>2, <2>3, <2>4 DEF Links!Registered, Links!Refusing
    <3> QED  BY <1>1, <3>1, SlotsKept
  <2>10. Played'  BY <1>0, <1>1, <2>2, <2>4 DEF Played
  <2> QED  BY <2>6, <2>7, <2>8, <2>9, <2>10 DEF LinkInv
<1> QED  BY <1>2, <1>3

LEMMA LinkFrame ==
  ASSUME LinkInv, NEW c \in Connection, Links!handle_frame(c)
  PROVE  LinkInv'
<1> USE DEF Links!ui_vars, Links!add_vars, Links!mixer_vars
<1>0. LinkTypes /\ Asked /\ Building /\ Slotted /\ Played  BY DEF LinkInv
<1>1. /\ stage[c] = "reading" /\ c \in playing
      /\ UNCHANGED <<ui, stage, playing, add_conn_, add_error_, poll_pipe_, poll_exit_flag_,
                     sources_, id_>>
  BY DEF Links!handle_frame
<1>2. id_[c] # NULL  BY <1>0, <1>1 DEF Played
<1>4. last_put' = last_put \/ (last_put'.conn = last_put'.holder \/ last_put'.refused)
  <2>1. CASE Links!Refusing(c)  BY <2>1 DEF Links!handle_frame
  <2>2. CASE ~Links!Refusing(c)
    <3>1. id_[c] \in DOMAIN sources_ /\ sources_[id_[c]] = c
      BY <1>0, <1>1, <1>2, <2>2, OwnSlot DEF Links!Registered
    <3> QED  BY <3>1 DEF Links!handle_frame
  <2> QED  BY <2>1, <2>2
<1>5. LinkTypes' /\ Asked' /\ Building'  BY <1>0, <1>1 DEF LinkTypes, Asked, Building
<1>6. Slotted'  BY <1>1, SlotsKept DEF Links!Registered, Links!Refusing
<1>7. Played'  BY <1>0, <1>1, <1>4 DEF Played
<1> QED  BY <1>5, <1>6, <1>7 DEF LinkInv

LEMMA LinkClose ==
  ASSUME LinkInv, NEW c \in Connection, Links!handle_close(c)
  PROVE  LinkInv'
<1> USE DEF Links!add_vars
<1>0. LinkTypes /\ Asked /\ Building /\ Slotted /\ Played  BY DEF LinkInv
<1>1. /\ stage[c] = "reading" /\ c \in playing /\ ui.conn # c
      /\ sources_' = Links!mixer_remove_source(id_[c])
      /\ stage' = [stage EXCEPT ![c] = "gone"] /\ playing' = playing \ {c}
      /\ UNCHANGED <<ui, add_conn_, add_error_, poll_pipe_, poll_exit_flag_, id_, last_put>>
  BY DEF Links!handle_close
<1>2. id_[c] # NULL  BY <1>0, <1>1 DEF Played
<1>3. /\ stage' \in [Connection -> {"none", "made", "reading", "gone"}] /\ stage'[c] = "gone"
      /\ \A k \in Connection : k # c => stage'[k] = stage[k]
  BY <1>0, <1>1 DEF LinkTypes
<1>9. /\ Links!Registered(c) /\ ~Links!Registered(c)'
      /\ \A k \in Connection : k # c => (Links!Registered(k)' <=> Links!Registered(k))
  BY <1>1, <1>2, <1>3 DEF Links!Registered, Links!Refusing
<1>4. Slotted' /\ sources_' \in Seq(Holder)  BY <1>1, <1>9, LeavesSlot
<1>5. LinkTypes'  BY <1>0, <1>1, <1>3, <1>4 DEF LinkTypes
<1>6. ui.at # "idle" => ui.conn \in Connection  BY <1>0 DEF LinkTypes
<1>7. Asked'  BY <1>0, <1>1 DEF Asked
<1>8. Building'  BY <1>0, <1>1, <1>3, <1>6 DEF Building
<1>10. Played'  BY <1>0, <1>1, <1>3 DEF Played
<1> QED  BY <1>4, <1>5, <1>7, <1>8, <1>10 DEF LinkInv

LEMMA LinkDestroy == LinkInv /\ Links!Destroy => LinkInv'
<1> SUFFICES ASSUME LinkInv, Links!Destroy PROVE LinkInv'  OBVIOUS
<1> USE DEF Links!ui_vars, Links!mixer_vars
<1>0. LinkTypes /\ Asked /\ Building /\ Slotted /\ Played  BY DEF LinkInv
<1>1. /\ ui.at = "idle" /\ poll_exit_flag_' = TRUE /\ poll_pipe_' = poll_pipe_ + 1
      /\ UNCHANGED <<ui, stage, playing, add_conn_, add_error_, sources_, id_, last_put>>
  BY DEF Links!Destroy, Links!Idle, Links!At
<1>2. poll_exit_flag_' \in BOOLEAN  BY <1>1, Zenon
<1>3. LinkTypes'  BY <1>0, <1>1, <1>2 DEF LinkTypes
<1>4. Asked' /\ Building' /\ Played'  BY <1>0, <1>1 DEF Asked, Building, Played
<1>5. Slotted'  BY <1>1, SlotsKept DEF Links!Registered, Links!Refusing
<1> QED  BY <1>3, <1>4, <1>5 DEF LinkInv

LEMMA LinkGuest ==
  ASSUME LinkInv, NEW g \in Guest, Links!Join(g) \/ Links!Leave(g)
  PROVE  LinkInv'
<1> USE DEF Links!ui_vars, Links!add_vars
<1>0. LinkTypes /\ Asked /\ Building /\ Slotted /\ Played  BY DEF LinkInv
<1>1. UNCHANGED <<ui, stage, playing, add_conn_, add_error_, poll_pipe_, poll_exit_flag_,
                  id_, last_put>>
  BY DEF Links!Join, Links!Leave
<1>2. sources_ \in Seq(Holder) /\ g \notin Connection  BY <1>0, PeripheryAssumption DEF LinkTypes
<1>3. sources_' \in Seq(Holder) /\ \A c \in Connection : Links!SlotsOf(c)' = Links!SlotsOf(c)
  <2>1. CASE Links!Join(g)
    <3>1. sources_' = Links!mixer_add_source(g).sources  BY <2>1 DEF Links!Join
    <3>2. sources_' \in Seq(Holder)  BY <1>2, <3>1, AddsOne
    <3>3. \A c \in Connection : Links!SlotsOf(c)' = Links!SlotsOf(c)
      BY <1>2, <3>1, SlotsAdded
    <3> QED  BY <3>2, <3>3
  <2>2. CASE Links!Leave(g)
    <3>1. PICK i \in DOMAIN sources_ :
            sources_[i] = g /\ sources_' = Links!mixer_remove_source(i)
      BY <2>2 DEF Links!Leave
    <3>2. /\ sources_' \in Seq(Holder)
          /\ \A c \in Connection : Links!SlotsOf(c)' = Links!SlotsOf(c) \ {i}
      BY <1>2, <3>1, SlotsRemoved
    <3>3. \A c \in Connection : i \notin Links!SlotsOf(c)  BY <1>2, <3>1 DEF Links!SlotsOf
    <3> QED  BY <3>2, <3>3
  <2> QED  BY <2>1, <2>2
<1>4. LinkTypes' /\ Asked' /\ Building' /\ Played'
  BY <1>0, <1>1, <1>3 DEF LinkTypes, Asked, Building, Played
<1>5. Slotted'  BY <1>0, <1>1, <1>3 DEF Slotted, Links!Registered, Links!Refusing
<1> QED  BY <1>4, <1>5 DEF LinkInv

LEMMA LinkNext == LinkInv /\ Links!Next => LinkInv'
BY LinkDescribe, LinkAsk, LinkRegister, LinkPlay, LinkUnwind, LinkRequest, LinkFrame, LinkClose,
   LinkDestroy, LinkGuest DEF Links!Next

LEMMA LinkRight == LinkInv => Links!ConnectionsKept
BY DEF LinkInv, Slotted, Played, Links!ConnectionsKept

----------------------------------------------------------------------------
(* The window's commands.  A window between handlers is right when what it    *)
(* shows is what it remembers.  Each handler keeps that, and so do the        *)
(* handlers it calls, or asks for a mix with what is needed to be right again *)
(* when the mix is set.                                                       *)
Buttons == {"none", "pip", "fade"}

Mix ==
  [kind : {"simple"}, pri : SourceId]
    \union [kind : {"pip"}, pri : SourceId, sec : SourceId]
    \union [kind : {"fade"}, pri : SourceId, sec : SourceId, fade : Fade]

Windows ==
  [pri : SourceId, sec : SourceId, fade_target : SourceId,
   pip_active : BOOLEAN, pip_pending : BOOLEAN, fade_pending : BOOLEAN,
   effect : Buttons, apply : BOOLEAN, sel_enabled : BOOLEAN,
   selected : BOOLEAN, record : BOOLEAN, cut : BOOLEAN, mix : Mix]

Cancels == {"cancel_effect", "cancel_and_set_pri"}
Asking  == Cancels \union {"apply_effect", "set_pri", "fade", "set_sec"}
Reports == {"create", "set_video_mix"}

Handlers ==
  [at : {"idle", "switch", "create", "set_video_mix"}, does : Asking \union {"nothing"},
   mix : Mix \union {Window!NoMix}, tmp : SourceId]

\* What ProgramAsChosen says of a window.
Shown(w) == w.mix.kind = "pip" =>
              w.pip_active /\ w.mix.sec = w.sec /\ (w.mix.pri = w.pri \/ stale)
Faded(w) == w.mix.kind = "fade" =>
              w.fade_pending /\ ~w.pip_active /\ w.mix.sec = w.fade_target
Offered(w) == w.apply = w.pip_pending /\ (w.pip_pending => w.sel_enabled /\ w.effect = "pip")

\* What a handler that asks for a mix has made sure of, ...
Ready(w, does) ==
  /\ does \in {"set_pri", "set_sec", "fade"} => Offered(w)
  /\ does \in Cancels \union {"apply_effect"} => ~w.pip_pending
  /\ does = "fade" => w.fade_pending

\* ... and what it then knows of the mix it has made.
Made(w, does, mix) ==
  /\ mix \in Mix
  /\ mix.kind = "pip" =>
       w.pip_active /\ mix.sec = w.sec /\ (mix.pri = w.pri \/ stale) /\ does # "fade"
  /\ mix.kind = "fade" => does = "fade" /\ mix.sec = w.fade_target

\* A handler that leads from w to v keeps what the program and the buttons show.
Keeps(w, v) ==
  /\ v \in Windows /\ v.record = w.record /\ v.cut = w.cut
  /\ Offered(v) /\ Faded(v) /\ (Shown(w) => Shown(v))

Begins(w, r) ==
  IF r.does = "nothing" THEN Keeps(w, r.win)
  ELSE /\ r.win \in Windows /\ r.win.record = w.record /\ r.win.cut = w.cut
       /\ r.does \in Asking /\ Ready(r.win, r.does)

Right == Offered(win) /\ Faded(win) /\ (mixer_at \notin Reports => Shown(win))

WindowInv ==
  /\ win \in Windows /\ handler \in Handlers /\ do_record \in BOOLEAN
  /\ handler.at \in {"idle", "switch"} => Right
  /\ handler.at \in {"create", "set_video_mix"} =>
       handler.does \in Asking /\ Ready(win, handler.does)
  /\ handler.at = "set_video_mix" => Made(win, handler.does, handler.mix)
  /\ mixer_at = "set_video_mix" => report \in Mix /\ report.kind = "simple"
  /\ win.record = do_record /\ win.cut = do_record

LEMMA SimpleMix == \A id \in SourceId : Window!Simple(id) \in Mix /\ Window!Simple(id).kind = "simple"
BY DEF Window!Simple, Mix

LEMMA PicInPicMix ==
  ASSUME NEW w \in Windows
  PROVE  LET mix == Window!PicInPic(w)
         IN  mix \in Mix /\ mix.kind = "pip" /\ mix.pri = w.pri /\ mix.sec = w.sec
BY DEF Window!PicInPic, Mix, Windows

LEMMA FadeMix ==
  ASSUME NEW w \in Windows, NEW fade \in Fade
  PROVE  LET mix == Window!Fading(w, fade)
         IN  mix \in Mix /\ mix.kind = "fade" /\ mix.sec = w.fade_target
BY DEF Window!Fading, Mix, Windows

\* What a handler that asks for nothing leads to.
LEMMA DoneBegins ==
  ASSUME NEW w, NEW v, Keeps(w, v)
  PROVE  Begins(w, Window!Done(v)) /\ Window!Done(v).win = v
BY DEF Begins, Window!Done

LEMMA AsksBegins ==
  ASSUME NEW w, NEW v \in Windows, v.record = w.record, v.cut = w.cut,
         NEW does \in Asking, Ready(v, does)
  PROVE  Begins(w, Window!Asks(v, does)) /\ Window!Asks(v, does).win = v
BY DEF Begins, Window!Asks, Asking, Cancels

\* The handlers that the buttons of one group call on each other.
LEMMA CancelKeeps ==
  ASSUME NEW w \in Windows, w.effect = "none"
  PROVE  LET r == Window!cancel_effect(w)
         IN  Begins(w, r) /\ r.does = "cancel_effect" /\ r.win.effect = "none"
<1> DEFINE v == [w EXCEPT !.pip_pending = FALSE, !.pip_active = FALSE, !.fade_pending = FALSE]
<1>1. /\ v \in Windows /\ v.record = w.record /\ v.cut = w.cut /\ v.pip_pending = FALSE
      /\ v.effect = "none"
  BY DEF Windows
<1>2. Window!cancel_effect(w) = Window!Asks(v, "cancel_effect")  BY DEF Window!cancel_effect
<1> HIDE DEF v
<1>3. Ready(v, "cancel_effect")  BY <1>1 DEF Ready, Cancels
<1>4. "cancel_effect" \in Asking  BY DEF Asking, Cancels
<1>5. Begins(w, Window!Asks(v, "cancel_effect")) /\ Window!Asks(v, "cancel_effect").win = v
  BY <1>1, <1>3, <1>4, AsksBegins
<1>6. Window!Asks(v, "cancel_effect").does = "cancel_effect"  BY DEF Window!Asks
<1> QED  BY <1>1, <1>2, <1>5, <1>6

LEMMA BeginKeeps ==
  ASSUME NEW w \in Windows, Faded(w), w.effect = "pip"
  PROVE  LET v == Window!begin_pic_in_pic(w) IN Keeps(w, v) /\ v.effect = "pip"
BY DEF Window!begin_pic_in_pic, Windows, Keeps, Offered, Faded, Shown

LEMMA FadeKeeps ==
  ASSUME NEW w \in Windows, Faded(w), w.effect = "fade", w.apply = w.pip_pending
  PROVE  LET v == Window!begin_fade(w) IN Keeps(w, v) /\ v.effect = "fade"
BY DEF Window!begin_fade, Windows, Keeps, Offered, Faded, Shown

\* A button that was active is signalled first; the handler of the new one repairs what that
\* one did.
LEMMA ActiveKeeps ==
  ASSUME NEW w \in Windows, Offered(w), Faded(w), NEW button \in Buttons
  PROVE  LET r == Window!set_active(w, button)
         IN  /\ Begins(w, r) /\ r.win.effect = button
             /\ r.does = IF button = "none" /\ w.effect # "none" THEN "cancel_effect" ELSE "nothing"
<1> DEFINE r == Window!set_active(w, button)
           u == [w EXCEPT !.effect = button]
           t == Window!toggled(u, w.effect).win
<1>1. CASE w.effect = button
  <2>1. r = Window!Done(w)  BY <1>1 DEF Window!set_active
  <2>2. Keeps(w, w)  BY DEF Keeps
  <2> QED  BY <1>1, <2>1, <2>2, DoneBegins DEF Window!Done
<1>2. CASE w.effect # button
  <2>1. /\ u \in Windows /\ u.effect = button /\ u.mix = w.mix /\ u.pip_active = w.pip_active
        /\ u.pri = w.pri /\ u.sec = w.sec /\ u.fade_pending = w.fade_pending
        /\ u.fade_target = w.fade_target /\ u.record = w.record /\ u.cut = w.cut
        /\ u.apply = w.apply /\ u.pip_pending = w.pip_pending
    BY DEF Windows
  <2>2. r = Window!toggled(t, button)  BY <1>2 DEF Window!set_active
  <2>3. w.effect \in Buttons  BY DEF Windows
  <2> HIDE DEF u
  <2>4. /\ t \in Windows /\ t.effect = button /\ t.mix = u.mix /\ t.pip_active = u.pip_active
        /\ t.pri = u.pri /\ t.sec = u.sec /\ t.fade_pending = u.fade_pending
        /\ t.fade_target = u.fade_target /\ t.record = u.record /\ t.cut = u.cut
        /\ t.apply = t.pip_pending
    <3>1. CASE w.effect = "none"
      BY <1>2, <2>1, <3>1 DEF Window!toggled, Window!cancel_effect, Window!Done, Offered
    <3>2. CASE w.effect = "pip"
      BY <1>2, <2>1, <3>2 DEF Window!toggled, Window!begin_pic_in_pic, Window!Done, Windows
    <3>3. CASE w.effect = "fade"
      BY <1>2, <2>1, <3>3 DEF Window!toggled, Window!begin_fade, Window!Done, Offered
    <3> QED  BY <2>3, <3>1, <3>2, <3>3 DEF Buttons
  <2> HIDE DEF t
  <2>5. Faded(t) /\ (Shown(w) => Shown(t)) /\ t.record = w.record /\ t.cut = w.cut
    BY <2>1, <2>4 DEF Faded, Shown
  <2>6. CASE button = "none"
    <3>1. r = Window!cancel_effect(t)  BY <2>2, <2>6 DEF Window!toggled
    <3>2. Begins(t, r) /\ r.does = "cancel_effect" /\ r.win.effect = "none"
      BY <2>4, <2>6, <3>1, CancelKeeps
    <3> QED  BY <1>2, <2>5, <2>6, <3>2 DEF Begins
  <2>7. CASE button = "pip"
    <3> DEFINE v == Window!begin_pic_in_pic(t)
    <3>1. r = Window!Done(v)  BY <2>2, <2>7 DEF Window!toggled
    <3>2. Keeps(t, v) /\ v.effect = "pip"  BY <2>4, <2>5, <2>7, BeginKeeps
    <3> HIDE DEF v
    <3>3. Keeps(w, v)  BY <2>5, <3>2 DEF Keeps
    <3> QED  BY <2>7, <3>1, <3>2, <3>3, DoneBegins DEF Window!Done
  <2>8. CASE button = "fade"
    <3> DEFINE v == Window!begin_fade(t)
    <3>1. r = Window!Done(v)  BY <2>2, <2>8 DEF Window!toggled
    <3>2. Keeps(t, v) /\ v.effect = "fade"  BY <2>4, <2>5, <2>8, FadeKeeps
    <3> HIDE DEF v
    <3>3. Keeps(w, v)  BY <2>5, <3>2 DEF Keeps
    <3> QED  BY <2>8, <3>1, <3>2, <3>3, DoneBegins DEF Window!Done
  <2> QED  BY <2>6, <2>7, <2>8 DEF Buttons
<1> QED  BY <1>1, <1>2

LEMMA UpdatedKeeps ==
  ASSUME NEW w \in Windows, Offered(w), Faded(w)
  PROVE  Keeps(w, Window!on_updated_selection(w))
<1> DEFINE v == Window!set_active(w, "pip").win
<1>1. Keeps(w, v) /\ v.effect = "pip"  BY ActiveKeeps DEF Buttons, Begins
<1> HIDE DEF v
<1>2. Keeps(v, Window!begin_pic_in_pic(v))  BY <1>1, BeginKeeps DEF Keeps
<1>3. Window!on_updated_selection(w) = Window!begin_pic_in_pic(v)
  BY DEF Window!on_updated_selection, v
<1> QED  BY <1>1, <1>2, <1>3 DEF Keeps

LEMMA ApplyBegins ==
  ASSUME NEW w \in Windows, Offered(w), Faded(w), w.apply
  PROVE  Begins(w, Window!apply_effect(w))
<1>1. w.pip_pending  BY DEF Offered
<1>2. CASE ~w.selected
  <2>1. Window!apply_effect(w) = Window!Done(w)  BY <1>1, <1>2 DEF Window!apply_effect
  <2>2. Keeps(w, w)  BY DEF Keeps
  <2> QED  BY <2>1, <2>2, DoneBegins
<1>3. CASE w.selected
  <2> DEFINE v == [w EXCEPT !.pip_pending = FALSE, !.pip_active = TRUE]
  <2>1. v \in Windows /\ v.record = w.record /\ v.cut = w.cut /\ ~v.pip_pending
    BY DEF Windows
  <2>2. Window!apply_effect(w) = Window!Asks(v, "apply_effect")
    BY <1>1, <1>3 DEF Window!apply_effect
  <2> HIDE DEF v
  <2>3. Ready(v, "apply_effect")  BY <2>1 DEF Ready
  <2> QED  BY <2>1, <2>2, <2>3, AsksBegins DEF Asking
<1> QED  BY <1>2, <1>3 DEF Windows

LEMMA PrimaryBegins ==
  ASSUME NEW w \in Windows, Offered(w), Faded(w), NEW id \in SourceId
  PROVE  Begins(w, Window!set_pri_video_source(w, id))
<1> DEFINE r == Window!set_pri_video_source(w, id)
<1>1. CASE w.fade_pending
  <2> DEFINE v == [w EXCEPT !.fade_target = id]
  <2>1. /\ v \in Windows /\ v.record = w.record /\ v.cut = w.cut /\ v.fade_pending
        /\ v.apply = w.apply /\ v.pip_pending = w.pip_pending
        /\ v.sel_enabled = w.sel_enabled /\ v.effect = w.effect
    BY <1>1 DEF Windows
  <2>2. r = Window!Asks(v, "fade")  BY <1>1 DEF Window!set_pri_video_source
  <2> HIDE DEF v
  <2>3. Ready(v, "fade")  BY <2>1 DEF Ready, Offered, Cancels
  <2> QED  BY <2>1, <2>2, <2>3, AsksBegins DEF Asking
<1>2. CASE ~w.fade_pending
  <2> DEFINE v == [w EXCEPT !.pri = id]
             x == [v EXCEPT !.pip_active = FALSE]
             u == Window!set_active(x, "none")
  <2>1. /\ v \in Windows /\ v.mix = w.mix /\ v.fade_pending = w.fade_pending
        /\ v.apply = w.apply /\ v.pip_pending = w.pip_pending
        /\ v.sel_enabled = w.sel_enabled /\ v.effect = w.effect
        /\ v.record = w.record /\ v.cut = w.cut
    BY DEF Windows
  <2>2. /\ x \in Windows /\ x.mix = w.mix /\ x.fade_pending = w.fade_pending
        /\ x.apply = w.apply /\ x.pip_pending = w.pip_pending
        /\ x.sel_enabled = w.sel_enabled /\ x.effect = w.effect
        /\ x.record = w.record /\ x.cut = w.cut
    BY DEF Windows
  <2>3. r = IF ~(w.pip_active /\ id = w.sec) THEN Window!Asks(v, "set_pri")
            ELSE IF w.pip_pending \/ u.does = "nothing" THEN Window!Asks(x, "set_pri")
            ELSE Window!Asks(u.win, "cancel_and_set_pri")
    BY <1>2 DEF Window!set_pri_video_source
  <2> HIDE DEF v, x
  <2>4. Offered(v) /\ Offered(x) /\ Faded(x)  BY <1>2, <2>1, <2>2 DEF Offered, Faded
  <2>5. Begins(w, Window!Asks(v, "set_pri")) /\ Begins(w, Window!Asks(x, "set_pri"))
    <3>1. Ready(v, "set_pri") /\ Ready(x, "set_pri")  BY <2>4 DEF Ready, Cancels
    <3> QED  BY <2>1, <2>2, <3>1, AsksBegins DEF Asking
  <2>6. CASE u.does # "nothing"
    <3>1. Begins(x, u) /\ u.does = "cancel_effect"
      BY <2>2, <2>4, <2>6, ActiveKeeps DEF Buttons
    <3> HIDE DEF u
    <3>2. /\ u.win \in Windows /\ u.win.record = w.record /\ u.win.cut = w.cut
          /\ Ready(u.win, "cancel_effect")
      BY <2>2, <3>1 DEF Begins
    <3>3. Ready(u.win, "cancel_and_set_pri")  BY <3>2 DEF Ready, Cancels
    <3>4. Begins(w, Window!Asks(u.win, "cancel_and_set_pri"))
      BY <3>2, <3>3, AsksBegins DEF Asking, Cancels
    <3> QED  BY <2>3, <2>5, <3>4
  <2>7. CASE u.does = "nothing"
    <3> HIDE DEF u
    <3> QED  BY <2>3, <2>5, <2>7
  <2> QED  BY <2>6, <2>7
<1> QED  BY <1>1, <1>2 DEF Windows

\* The secondary source is another one, and perhaps the primary source too.
LEMMA SecondaryBegins ==
  ASSUME NEW w \in Windows, Offered(w), Faded(w), NEW pri \in SourceId, NEW sec \in SourceId
  PROVE  LET v == [w EXCEPT !.pri = pri, !.sec = sec]
         IN  Begins(w, IF v.pip_active THEN Window!Asks(v, "set_sec") ELSE Window!Done(v))
<1> DEFINE v == [w EXCEPT !.pri = pri, !.sec = sec]
<1>1. /\ v \in Windows /\ v.mix = w.mix /\ v.pip_active = w.pip_active
      /\ v.fade_pending = w.fade_pending /\ v.fade_target = w.fade_target
      /\ v.apply = w.apply /\ v.pip_pending = w.pip_pending
      /\ v.sel_enabled = w.sel_enabled /\ v.effect = w.effect
      /\ v.record = w.record /\ v.cut = w.cut
  BY DEF Windows
<1> HIDE DEF v
<1>2. CASE v.pip_active
  <2>1. Ready(v, "set_sec")  BY <1>1 DEF Ready, Offered, Cancels
  <2> QED  BY <1>1, <1>2, <2>1, AsksBegins DEF Asking, v
<1>3. CASE ~v.pip_active
  <2>1. Keeps(w, v)  BY <1>1, <1>3 DEF Keeps, Offered, Faded, Shown
  <2> QED  BY <1>3, <2>1, DoneBegins DEF v
<1> QED  BY <1>2, <1>3

\* A drag only changes the selection.
LEMMA SelectionKeeps ==
  ASSUME NEW w \in Windows, Offered(w), Faded(w), NEW some \in BOOLEAN, NEW enabled \in BOOLEAN,
         enabled = w.sel_enabled \/ enabled = TRUE
  PROVE  /\ Keeps(w, [w EXCEPT !.selected = some, !.sel_enabled = enabled])
         /\ Keeps(w, [w EXCEPT !.selected = some])
         /\ Keeps(w, [w EXCEPT !.sel_enabled = TRUE])
BY DEF Windows, Keeps, Offered, Faded, Shown

LEMMA KeepsOn ==
  ASSUME NEW w, NEW v, NEW u, Keeps(w, v), Keeps(v, u)
  PROVE  Keeps(w, u)
BY DEF Keeps

\* A handler that is right before is right after, or is ready to ask for a mix.
LEMMA BeginStep ==
  ASSUME WindowInv, handler.at \in {"idle", "switch"}, NEW r, Window!Begin(r), Begins(win, r),
         UNCHANGED <<do_record, mixer_at, report, stale>>
  PROVE  WindowInv'
<1>1. Window!First \in SourceId  BY PeripheryAssumption DEF Window!First
<1>2. win' = r.win  BY DEF Window!Begin
<1>3. CASE r.does = "nothing"
  <2>1. handler' = Window!Idle  BY <1>3 DEF Window!Begin
  <2>2. handler' \in Handlers /\ handler'.at = "idle"  BY <1>1, <2>1 DEF Window!Idle, Handlers
  <2>3. Keeps(win, win')  BY <1>2, <1>3 DEF Begins
  <2>4. Right'  BY <2>3 DEF WindowInv, Right, Keeps, Offered, Faded, Shown
  <2> QED  BY <2>2, <2>3, <2>4 DEF WindowInv, Keeps
<1>4. CASE r.does # "nothing"
  <2>1. handler' = [Window!Idle EXCEPT !.at = "create", !.does = r.does]
    BY <1>4 DEF Window!Begin
  <2>2. /\ win' \in Windows /\ win'.record = win.record /\ win'.cut = win.cut
        /\ r.does \in Asking /\ Ready(win', r.does)
    BY <1>2, <1>4 DEF Begins
  <2>3. handler' \in Handlers /\ handler'.at = "create" /\ handler'.does = r.does
    BY <1>1, <2>1, <2>2 DEF Window!Idle, Handlers
  <2>4. Ready(win, handler.does)'  BY <2>2, <2>3 DEF Ready, Offered
  <2> QED  BY <2>2, <2>3, <2>4 DEF WindowInv
<1> QED  BY <1>3, <1>4

LEMMA CommandStep == WindowInv /\ Window!Command => WindowInv'
<1> SUFFICES ASSUME WindowInv, Window!Command PROVE WindowInv'  OBVIOUS
<1> USE DEF Window!rec_vars, Window!mix_vars
<1>1. handler.at = "idle"  BY DEF Window!Command, Window!Idle
<1>2. win \in Windows /\ Offered(win) /\ Faded(win)  BY <1>1 DEF WindowInv, Right
<1>3. UNCHANGED <<do_record, mixer_at, report, stale>>  BY DEF Window!Command
<1>4. SUFFICES \E r : Window!Begin(r) /\ Begins(win, r)  BY <1>1, <1>3, BeginStep
<1>5. CASE Window!Selector
  <2>1. PICK id \in SourceId :
          \/ Window!Begin(Window!set_sec_video_source(win, id))
          \/ Window!Begin(Window!set_pri_video_source(win, id))
    BY <1>5 DEF Window!Selector
  <2>2. Begins(win, Window!set_pri_video_source(win, id))  BY <1>2, PrimaryBegins
  <2>3. Begins(win, Window!set_sec_video_source(win, id))
    <3>1. [win EXCEPT !.pri = win.pri, !.sec = id] = [win EXCEPT !.sec = id] /\ win.pri \in SourceId
      BY <1>2 DEF Windows
    <3> QED  BY <1>2, <3>1, SecondaryBegins DEF Window!set_sec_video_source
  <2> QED  BY <2>1, <2>2, <2>3
<1>6. CASE Window!Effects
  <2>1. \/ \E button \in Buttons : Window!Begin(Window!set_active(win, button))
        \/ win.apply /\ Window!Begin(Window!apply_effect(win))
    BY <1>6 DEF Window!Effects, Buttons
  <2> QED  BY <1>2, <2>1, ActiveKeeps, ApplyBegins
<1>7. CASE Window!Selection
  <2>1. PICK some \in BOOLEAN :
          \/ Window!Begin(Window!Done([win EXCEPT !.selected = some]))
          \/ Window!Begin(Window!Done([win EXCEPT !.sel_enabled = TRUE]))
          \/ Window!Begin(Window!Done(Window!on_updated_selection([win EXCEPT !.selected = some])))
          \/ Window!Begin(Window!Done(Window!on_updated_selection(
               [win EXCEPT !.selected = TRUE, !.sel_enabled = TRUE])))
    BY <1>7 DEF Window!Selection
  <2> DEFINE v == [win EXCEPT !.selected = some]
             u == [win EXCEPT !.selected = TRUE, !.sel_enabled = TRUE]
             e == [win EXCEPT !.sel_enabled = TRUE]
  <2>2. win.sel_enabled \in BOOLEAN  BY <1>2 DEF Windows
  <2>3. Keeps(win, v) /\ Keeps(win, u) /\ Keeps(win, e)  BY <1>2, <2>2, SelectionKeeps
  <2>4. PICK w \in {v, e, Window!on_updated_selection(v), Window!on_updated_selection(u)} :
          Window!Begin(Window!Done(w))
    BY <2>1
  <2> HIDE DEF v, u, e
  <2>5. Keeps(v, Window!on_updated_selection(v)) /\ Keeps(u, Window!on_updated_selection(u))
    BY <2>3, UpdatedKeeps DEF Keeps
  <2>6. /\ Keeps(win, Window!on_updated_selection(v))
        /\ Keeps(win, Window!on_updated_selection(u))
    BY <2>3, <2>5, KeepsOn
  <2>7. Keeps(win, w)  BY <2>3, <2>4, <2>6
  <2> QED  BY <2>4, <2>7, DoneBegins
<1> QED  BY <1>5, <1>6, <1>7 DEF Window!Command

LEMMA SwitchStep == WindowInv /\ (Window!Switch \/ Window!Switched) => WindowInv'
<1> SUFFICES ASSUME WindowInv, Window!Switch \/ Window!Switched PROVE WindowInv'  OBVIOUS
<1> USE DEF Window!rec_vars, Window!mix_vars
<1>1. win \in Windows /\ handler \in Handlers /\ Window!First \in SourceId
  BY PeripheryAssumption DEF WindowInv, Window!First
<1>2. CASE Window!Switch
  <2>1. /\ handler = Window!Idle /\ handler' = [Window!Idle EXCEPT !.at = "switch", !.tmp = win.pri]
        /\ UNCHANGED <<win, do_record, mixer_at, report, stale>>
    BY <1>2 DEF Window!Switch
  <2>2. handler' \in Handlers /\ handler.at = "idle" /\ handler'.at = "switch"
    BY <1>1, <2>1 DEF Window!Idle, Handlers, Windows
  <2>3. Right'  BY <2>1, <2>2 DEF WindowInv, Right, Offered, Faded, Shown
  <2> QED  BY <2>1, <2>2, <2>3 DEF WindowInv
<1>3. CASE Window!Switched
  <2> DEFINE v == [win EXCEPT !.pri = win.sec, !.sec = handler.tmp]
             r == IF v.pip_active THEN Window!Asks(v, "set_sec") ELSE Window!Done(v)
  <2>1. /\ handler.at = "switch" /\ Window!Begin(r)
        /\ UNCHANGED <<do_record, mixer_at, report, stale>>
    BY <1>3 DEF Window!Switched
  <2>2. Offered(win) /\ Faded(win)  BY <2>1 DEF WindowInv, Right
  <2>3. win.sec \in SourceId /\ handler.tmp \in SourceId  BY <1>1 DEF Windows, Handlers
  <2>4. Begins(win, r)  BY <1>1, <2>2, <2>3, SecondaryBegins
  <2> HIDE DEF r
  <2> QED  BY <2>1, <2>4, BeginStep
<1> QED  BY <1>2, <1>3

\* The mix is of the window as it is now; ...
LEMMA CreateStep == WindowInv /\ Window!create_video_mix => WindowInv'
<1> SUFFICES ASSUME WindowInv, Window!create_video_mix PROVE WindowInv'  OBVIOUS
<1> USE DEF Window!rec_vars
<1>1. PICK mix \in Window!Mixes(win, handler.does) :
        handler' = [handler EXCEPT !.at = "set_video_mix", !.mix = mix]
  BY DEF Window!create_video_mix
<1>2. /\ handler.at = "create" /\ UNCHANGED <<win, do_record, mixer_at, report>>
  BY DEF Window!create_video_mix
<1>3. /\ win \in Windows /\ handler \in Handlers /\ handler.does \in Asking
      /\ Ready(win, handler.does)
  BY <1>2 DEF WindowInv
<1>4. /\ mix \in Mix
      /\ mix.kind = "pip" =>
           win.pip_active /\ mix.sec = win.sec /\ mix.pri = win.pri /\ handler.does # "fade"
      /\ mix.kind = "fade" => handler.does = "fade" /\ mix.sec = win.fade_target
  <2>1. CASE handler.does = "fade"
    <3>1. PICK fade \in Fade : mix = Window!Fading(win, fade)
      BY <1>1, <2>1 DEF Window!Mixes, Window!FreeFades
    <3>2. mix \in Mix /\ mix.kind = "fade" /\ mix.sec = win.fade_target  BY <1>3, <3>1, FadeMix
    <3> QED  BY <2>1, <3>2
  <2>2. CASE handler.does # "fade" /\ (handler.does \in Cancels \/ ~win.pip_active)
    <3>1. mix = Window!Simple(win.pri) /\ win.pri \in SourceId
      BY <1>1, <1>3, <2>2 DEF Window!Mixes, Cancels, Windows
    <3>2. mix \in Mix /\ mix.kind = "simple"  BY <3>1, SimpleMix
    <3> QED  BY <3>2
  <2>3. CASE handler.does # "fade" /\ ~(handler.does \in Cancels \/ ~win.pip_active)
    <3>1. mix = Window!PicInPic(win)  BY <1>1, <2>3 DEF Window!Mixes, Cancels
    <3>2. mix \in Mix /\ mix.kind = "pip" /\ mix.pri = win.pri /\ mix.sec = win.sec
      BY <1>3, <3>1, PicInPicMix
    <3> QED  BY <2>3, <3>2
  <2> QED  BY <2>1, <2>2, <2>3
<1>5. /\ handler' \in Handlers /\ handler'.at = "set_video_mix"
      /\ handler'.does = handler.does /\ handler'.mix = mix
  BY <1>1, <1>3, <1>4 DEF Handlers
<1>6. Made(win, handler.does, handler.mix)'  BY <1>2, <1>4, <1>5 DEF Made
<1>7. Ready(win, handler.does)'  BY <1>2, <1>3, <1>5 DEF Ready, Offered
<1> QED  BY <1>2, <1>3, <1>5, <1>6, <1>7 DEF WindowInv

\* ... once it is set the window is right again, whatever was on air before.
LEMMA SetStep == WindowInv /\ Window!set_video_mix => WindowInv'
<1> SUFFICES ASSUME WindowInv, Window!set_video_mix PROVE WindowInv'  OBVIOUS
<1> USE DEF Window!rec_vars, Window!mix_vars
<1> DEFINE does == handler.does
           rest == Window!Rest(win, does)
<1>1. /\ handler.at = "set_video_mix" /\ win' = [rest EXCEPT !.mix = handler.mix]
      /\ UNCHANGED <<do_record, mixer_at, report, stale>>
      /\ handler' = IF does = "cancel_and_set_pri"
                    THEN [Window!Idle EXCEPT !.at = "create", !.does = "set_pri"] ELSE Window!Idle
  BY DEF Window!set_video_mix
<1>2. /\ win \in Windows /\ handler \in Handlers /\ does \in Asking /\ Ready(win, does)
      /\ Made(win, does, handler.mix)
  BY <1>1 DEF WindowInv
<1>3. /\ rest \in Windows /\ rest.pri = win.pri /\ rest.sec = win.sec
      /\ rest.fade_target = win.fade_target /\ rest.fade_pending = win.fade_pending
      /\ rest.pip_pending = win.pip_pending /\ rest.effect = win.effect
      /\ rest.record = win.record /\ rest.cut = win.cut
      /\ rest.pip_active = IF does = "fade" THEN FALSE ELSE win.pip_active
      /\ IF does \in Cancels \union {"apply_effect"}
         THEN rest.apply = FALSE
         ELSE rest.apply = win.apply /\ rest.sel_enabled = win.sel_enabled
  <2>1. CASE does \in Cancels \union {"apply_effect"}
    BY <1>2, <2>1 DEF Window!Rest, Cancels, Windows
  <2>2. CASE does = "fade"  BY <1>2, <2>2 DEF Window!Rest, Cancels, Windows
  <2>3. CASE does \in {"set_pri", "set_sec"}
    <3>1. does # "fade" /\ does \notin Cancels \union {"apply_effect"}
      BY <2>3 DEF Cancels
    <3>2. rest = win  BY <2>3 DEF Window!Rest
    <3> HIDE DEF rest, does
    <3> QED  BY <1>2, <3>1, <3>2
  <2> QED  BY <1>2, <2>1, <2>2, <2>3 DEF Asking
<1> HIDE DEF rest
<1>4. Offered(rest)
  <2> HIDE DEF does
  <2>1. CASE does \in Cancels \union {"apply_effect"}
    <3>1. rest.apply = FALSE /\ ~win.pip_pending  BY <1>2, <1>3, <2>1 DEF Ready
    <3>2. win.pip_pending \in BOOLEAN  BY <1>2 DEF Windows
    <3> QED  BY <1>3, <3>1, <3>2 DEF Offered
  <2>2. CASE does \notin Cancels \union {"apply_effect"}
    <3>1. does \in {"set_pri", "set_sec", "fade"}  BY <1>2, <2>2 DEF Asking
    <3>2. Offered(win)  BY <1>2, <3>1 DEF Ready
    <3>3. rest.apply = win.apply /\ rest.sel_enabled = win.sel_enabled  BY <1>3, <2>2
    <3> QED  BY <1>3, <3>2, <3>3 DEF Offered
  <2> QED  BY <2>1, <2>2
<1>5. /\ win' \in Windows /\ win'.mix = handler.mix /\ win'.pri = rest.pri /\ win'.sec = rest.sec
      /\ win'.fade_target = rest.fade_target /\ win'.fade_pending = rest.fade_pending
      /\ win'.pip_pending = rest.pip_pending /\ win'.effect = rest.effect
      /\ win'.record = rest.record /\ win'.cut = rest.cut /\ win'.pip_active = rest.pip_active
      /\ win'.apply = rest.apply /\ win'.sel_enabled = rest.sel_enabled
  BY <1>1, <1>2, <1>3 DEF Made, Windows
<1>6. Offered(win')  BY <1>4, <1>5 DEF Offered
<1>7. Faded(win') /\ (handler.mix.kind = "pip" =>
        rest.pip_active /\ handler.mix.sec = win.sec /\ (handler.mix.pri = win.pri \/ stale))
  BY <1>2, <1>3, <1>5 DEF Faded, Made, Ready
<1>8. Right'  BY <1>1, <1>3, <1>5, <1>6, <1>7 DEF Right, Offered, Faded, Shown
<1>9. Window!First \in SourceId  BY PeripheryAssumption DEF Window!First
<1>10. CASE does = "cancel_and_set_pri"
  <2>1. handler' = [Window!Idle EXCEPT !.at = "create", !.does = "set_pri"]  BY <1>1, <1>10
  <2>2. handler' \in Handlers /\ handler'.at = "create" /\ handler'.does = "set_pri"
    BY <1>9, <2>1 DEF Window!Idle, Handlers, Asking
  <2>3. Ready(win, handler.does)' /\ handler'.does \in Asking
    BY <1>6, <2>2 DEF Ready, Offered, Cancels, Asking
  <2> QED  BY <1>1, <1>2, <1>3, <1>5, <2>2, <2>3 DEF WindowInv
<1>11. CASE does # "cancel_and_set_pri"
  <2>1. handler' = Window!Idle  BY <1>1, <1>11
  <2>2. handler' \in Handlers /\ handler'.at = "idle"  BY <1>9, <2>1 DEF Window!Idle, Handlers
  <2> QED  BY <1>1, <1>2, <1>3, <1>5, <1>8, <2>2 DEF WindowInv
<1> QED  BY <1>10, <1>11

LEMMA WindowInit == Window!Init => WindowInv
<1> SUFFICES ASSUME Window!Init PROVE WindowInv  OBVIOUS
<1>1. Window!First \in SourceId  BY PeripheryAssumption DEF Window!First
<1>2. PICK garbage \in BOOLEAN :
        win = [pri |-> Window!First, sec |-> Window!First, fade_target |-> Window!First,
               pip_active |-> FALSE, pip_pending |-> FALSE, fade_pending |-> garbage,
               effect |-> "none", apply |-> FALSE, sel_enabled |-> FALSE,
               selected |-> FALSE, record |-> FALSE, cut |-> FALSE,
               mix |-> Window!Simple(Window!First)]
  BY DEF Window!Init
<1>3. Window!Simple(Window!First) \in Mix /\ Window!Simple(Window!First).kind = "simple"
  BY <1>1, SimpleMix
<1>4. win \in Windows /\ win.mix = Window!Simple(Window!First) /\ win.apply = FALSE
      /\ win.pip_pending = FALSE /\ win.record = FALSE /\ win.cut = FALSE
  BY <1>1, <1>2, <1>3 DEF Windows, Buttons
<1>5. do_record = FALSE /\ handler = Window!Idle /\ mixer_at = "mix"  BY DEF Window!Init
<1>6. handler \in Handlers /\ handler.at = "idle"  BY <1>1, <1>5 DEF Window!Idle, Handlers
<1>7. Right  BY <1>3, <1>4 DEF Right, Offered, Faded, Shown
<1> QED  BY <1>4, <1>5, <1>6, <1>7 DEF WindowInv

\* Recording touches nothing else.
LEMMA RecordStep == WindowInv /\ (Window!toggle_record \/ Window!update) => WindowInv'
<1> SUFFICES ASSUME WindowInv, Window!toggle_record \/ Window!update PROVE WindowInv'  OBVIOUS
<1> USE DEF Window!mix_vars
<1>1. /\ handler.at = "idle" /\ UNCHANGED <<handler, mixer_at, report, stale>>
  BY DEF Window!toggle_record, Window!update, Window!Idle
<1>2. win \in Windows /\ Right  BY <1>1 DEF WindowInv
<1>3. CASE UNCHANGED <<win, do_record>>
  BY <1>1, <1>3 DEF WindowInv, Right, Offered, Faded, Shown
<1>4. CASE ~UNCHANGED <<win, do_record>>
  <2>1. PICK on \in BOOLEAN :
          win' = [win EXCEPT !.record = on, !.cut = on] /\ do_record' = on
    <3>1. CASE Window!toggle_record
      <4>1. /\ win' = [win EXCEPT !.record = ~win.record, !.cut = ~win.record]
            /\ do_record' = ~win.record
        BY <3>1 DEF Window!toggle_record
      <4> QED  BY <4>1
    <3>2. CASE Window!update  BY <1>4, <3>2 DEF Window!update
    <3> QED  BY <3>1, <3>2
  <2>2. /\ win' \in Windows /\ win'.record = on /\ win'.cut = on
        /\ win'.mix = win.mix /\ win'.pip_active = win.pip_active /\ win'.pri = win.pri
        /\ win'.sec = win.sec /\ win'.fade_pending = win.fade_pending
        /\ win'.fade_target = win.fade_target
        /\ win'.apply = win.apply /\ win'.pip_pending = win.pip_pending
        /\ win'.sel_enabled = win.sel_enabled /\ win'.effect = win.effect
    BY <1>2, <2>1 DEF Windows
  <2>3. Right'  BY <1>1, <1>2, <2>2 DEF Right, Offered, Faded, Shown
  <2> QED  BY <1>1, <2>1, <2>2, <2>3 DEF WindowInv
<1> QED  BY <1>3, <1>4

\* The report moves the primary source, which makes what the UI thread has in hand stale, ...
LEMMA ReachedStep == WindowInv /\ Window!TargetReached => WindowInv'
<1> SUFFICES ASSUME WindowInv, Window!TargetReached PROVE WindowInv'  OBVIOUS
<1> USE DEF Window!rec_vars
<1>1. /\ win' = [win EXCEPT !.pri = win.fade_target] /\ mixer_at' = "create"
      /\ stale' = (stale \/ handler.at = "set_video_mix")
      /\ UNCHANGED <<handler, do_record, report>>
  BY DEF Window!TargetReached
<1>2. /\ win' \in Windows /\ win'.record = win.record /\ win'.cut = win.cut
      /\ win'.mix = win.mix /\ win'.pip_active = win.pip_active /\ win'.sec = win.sec
      /\ win'.fade_pending = win.fade_pending /\ win'.fade_target = win.fade_target
      /\ win'.apply = win.apply /\ win'.pip_pending = win.pip_pending
      /\ win'.sel_enabled = win.sel_enabled /\ win'.effect = win.effect
  BY <1>1 DEF WindowInv, Windows
<1>3. Right => Right'  BY <1>1, <1>2 DEF Right, Reports, Offered, Faded
<1>4. Ready(win, handler.does) => Ready(win, handler.does)'  BY <1>1, <1>2 DEF Ready, Offered
<1>5. handler.at = "set_video_mix" /\ Made(win, handler.does, handler.mix)
        => Made(win, handler.does, handler.mix)'
  BY <1>1, <1>2 DEF Made
<1> QED  BY <1>1, <1>2, <1>3, <1>4, <1>5 DEF WindowInv

\* ... and ends with a source alone on air.
LEMMA ReportStep == WindowInv /\ (Window!ReportMade \/ Window!FadeReplaced) => WindowInv'
<1> SUFFICES ASSUME WindowInv, Window!ReportMade \/ Window!FadeReplaced PROVE WindowInv'  OBVIOUS
<1> USE DEF Window!rec_vars
<1>1. CASE Window!ReportMade
  <2>1. /\ report' = Window!Simple(win.pri) /\ mixer_at = "create" /\ mixer_at' = "set_video_mix"
        /\ UNCHANGED <<win, handler, do_record, stale>>
    BY <1>1 DEF Window!ReportMade
  <2>2. win.pri \in SourceId  BY DEF WindowInv, Windows
  <2>3. report' \in Mix /\ report'.kind = "simple"  BY <2>1, <2>2, SimpleMix
  <2>4. Right => Right'  BY <2>1 DEF Right, Reports, Offered, Faded
  <2>5. Ready(win, handler.does) => Ready(win, handler.does)'  BY <2>1 DEF Ready, Offered
  <2>6. Made(win, handler.does, handler.mix) => Made(win, handler.does, handler.mix)'
    BY <2>1 DEF Made
  <2> QED  BY <2>1, <2>3, <2>4, <2>5, <2>6 DEF WindowInv
<1>2. CASE Window!FadeReplaced
  <2>1. /\ win' = [win EXCEPT !.mix = report] /\ mixer_at = "set_video_mix" /\ mixer_at' = "mix"
        /\ UNCHANGED <<handler, do_record, stale>>
    BY <1>2 DEF Window!FadeReplaced, Window!Pop
  <2>2. report \in Mix /\ report.kind = "simple"  BY <2>1 DEF WindowInv
  <2>3. /\ win' \in Windows /\ win'.record = win.record /\ win'.cut = win.cut
        /\ win'.mix = report /\ win'.pip_active = win.pip_active /\ win'.sec = win.sec
        /\ win'.pri = win.pri
        /\ win'.fade_pending = win.fade_pending /\ win'.fade_target = win.fade_target
        /\ win'.apply = win.apply /\ win'.pip_pending = win.pip_pending
        /\ win'.sel_enabled = win.sel_enabled /\ win'.effect = win.effect
    BY <2>1, <2>2 DEF WindowInv, Windows
  <2>4. Right => Right'  BY <2>1, <2>2, <2>3 DEF Right, Offered, Faded, Shown
  <2>5. Ready(win, handler.does) => Ready(win, handler.does)'
    BY <2>1, <2>3 DEF Ready, Offered
  <2>6. Made(win, handler.does, handler.mix) => Made(win, handler.does, handler.mix)'
    BY <2>1, <2>3 DEF Made
  <2> QED  BY <2>1, <2>3, <2>4, <2>5, <2>6 DEF WindowInv
<1> QED  BY <1>1, <1>2

LEMMA WindowNext == WindowInv /\ Window!Next => WindowInv'
<1> SUFFICES ASSUME WindowInv, Window!Next PROVE WindowInv'  OBVIOUS
<1> USE DEF Window!rec_vars
<1>1. CASE Window!Clock \/ Window!Mix \/ Window!FadeEnds
  <2>1. /\ UNCHANGED <<win, handler, do_record, report, stale>>
        /\ mixer_at' = mixer_at \/ (mixer_at = "mix" /\ mixer_at' \notin Reports)
    BY <1>1 DEF Window!Clock, Window!Mix, Window!FadeEnds, Window!Pop, Reports
  <2>2. Right => Right'  BY <2>1 DEF Right, Reports, Offered, Faded, Shown
  <2>3. Ready(win, handler.does) => Ready(win, handler.does)'  BY <2>1 DEF Ready, Offered
  <2>4. Made(win, handler.does, handler.mix) => Made(win, handler.does, handler.mix)'
    BY <2>1 DEF Made
  <2> QED  BY <2>1, <2>2, <2>3, <2>4 DEF WindowInv, Reports
<1> QED  BY <1>1, CommandStep, SwitchStep, CreateStep, SetStep, RecordStep, ReachedStep, ReportStep
         DEF Window!Next, Window!Mixing

LEMMA WindowRight == WindowInv => Window!ProgramAsChosen
BY DEF WindowInv, Right, Reports, Offered, Faded, Shown, Window!ProgramAsChosen, Window!AtRest,
       Window!Idle

----------------------------------------------------------------------------
(* The thumbnails.                                                          *)
FeedTypes ==
  /\ source_count \in 1..MaxSources
  /\ stored = NoFrames \/ stored \in [count : 0..MaxSources, present : SUBSET (0..MaxSources)]
  /\ wakeup_pipe_ \in Nat
  /\ putting \in BOOLEAN /\ updating \in {"idle", "emptied", "drawing"}
  /\ taken \in [count : 0..MaxSources, present : SUBSET (0..MaxSources)] /\ left \in 0..taken.count
  /\ next_source_id_ \in Nat /\ waited \in [0..(MaxSources - 1) -> Nat]

Counts ==
  /\ taken.count <= source_count
  /\ stored # NoFrames => taken.count <= stored.count /\ stored.count <= source_count

Rota(n) ==
  /\ taken.count # 0 => n <= taken.count
  /\ stored # NoFrames => n <= stored.count
  /\ next_source_id_ <= n
  /\ \A id \in 0..(MaxSources - 1) :
       waited[id] <= IF id < next_source_id_ THEN next_source_id_ - 1 - id
                     ELSE IF id < n THEN next_source_id_ + n - 1 - id ELSE 0

FeedInv == FeedTypes /\ Counts /\ Feed!WakeupOwed /\ \E n \in 0..source_count : Rota(n)


LEMMA FeedInit == Feed!Init => FeedInv
<1> SUFFICES ASSUME Feed!Init PROVE FeedInv  OBVIOUS
<1>0. taken \in [count : 0..MaxSources, present : SUBSET (0..MaxSources)] /\ taken.count = 0
  BY PeripheryAssumption DEF Feed!Init, Feed!Frames
<1>a. waited \in [0..(MaxSources - 1) -> Nat] /\ source_count \in 1..MaxSources
  BY PeripheryAssumption DEF Feed!Init
<1>b. /\ stored = NoFrames /\ wakeup_pipe_ = 0 /\ putting = FALSE /\ updating = "idle"
      /\ left = 0 /\ next_source_id_ = 0
  BY DEF Feed!Init
<1>c. left \in 0..taken.count /\ wakeup_pipe_ \in Nat /\ next_source_id_ \in Nat  BY <1>0, <1>b
<1>d. putting \in BOOLEAN  BY <1>b, Zenon
<1>1. FeedTypes  BY <1>0, <1>a, <1>b, <1>c, <1>d DEF FeedTypes
<1>2. Counts /\ Feed!WakeupOwed  BY DEF Feed!Init, Counts, Feed!WakeupOwed, Feed!Frames
<1>3. Rota(0)  BY PeripheryAssumption DEF Feed!Init, Rota, Feed!Frames
<1> QED  BY <1>1, <1>2, <1>3 DEF FeedInv, FeedTypes

LEMMA FeedTypesNext == FeedInv /\ Feed!Next => FeedTypes'
<1> SUFFICES ASSUME FeedInv, Feed!Next PROVE FeedTypes'  OBVIOUS
<1> USE PeripheryAssumption DEF Feed!put_vars, Feed!draw_vars
<1>0. FeedTypes /\ Counts  BY DEF FeedInv
<1>1. CASE Feed!AddSource  BY <1>0, <1>1 DEF Feed!AddSource, FeedTypes
<1>2. CASE Feed!Store
  <2>1. PICK present \in SUBSET (0..(source_count - 1)) : stored' = Feed!Frames(source_count, present)
    BY <1>2 DEF Feed!Store
  <2>2. stored' \in [count : 0..MaxSources, present : SUBSET (0..MaxSources)]
    BY <1>0, <2>1 DEF Feed!Frames, FeedTypes
  <2> QED  BY <1>0, <1>2, <2>2 DEF Feed!Store, FeedTypes
<1>3. CASE Feed!Poke
  <2>1. wakeup_pipe_' \in {wakeup_pipe_, wakeup_pipe_ + 1} /\ putting' = FALSE
    BY <1>3 DEF Feed!Poke
  <2>2. wakeup_pipe_' \in Nat  BY <1>0, <2>1 DEF FeedTypes
  <2> QED  BY <1>0, <1>3, <2>1, <2>2 DEF Feed!Poke, FeedTypes
<1>4. CASE Feed!EmptyPipe  BY <1>0, <1>4 DEF Feed!EmptyPipe, FeedTypes
<1>5. CASE Feed!TakeFrames
  <2>1. taken' \in [count : 0..MaxSources, present : SUBSET (0..MaxSources)]
    BY <1>0, <1>5 DEF Feed!TakeFrames, FeedTypes, Feed!Frames
  <2> QED  BY <1>0, <1>5, <2>1 DEF Feed!TakeFrames, FeedTypes
<1>6. CASE Feed!DrawThumbnail
  <2>1. Feed!Turn \in Nat  BY <1>0 DEF Feed!Turn, FeedTypes
  <2>2. left' \in 0..taken.count  BY <1>0, <1>6 DEF Feed!DrawThumbnail, FeedTypes
  <2>3. waited' \in [0..(MaxSources - 1) -> Nat]
    <3>1. CASE Feed!Turn \in taken.present
      <4>1. waited' = [id \in DOMAIN waited |->
                         IF id = Feed!Turn \/ id >= taken.count THEN 0 ELSE waited[id] + 1]
        BY <1>6, <3>1 DEF Feed!DrawThumbnail
      <4>2. \A id \in DOMAIN waited : waited[id] + 1 \in Nat  BY <1>0 DEF FeedTypes
      <4> QED  BY <1>0, <4>1, <4>2 DEF FeedTypes
    <3>2. CASE Feed!Turn \notin taken.present
      BY <1>0, <1>6, <3>2 DEF Feed!DrawThumbnail, FeedTypes
    <3> QED  BY <3>1, <3>2
  <2> QED  BY <1>0, <1>6, <2>1, <2>2, <2>3 DEF Feed!DrawThumbnail, FeedTypes
<1>7. CASE Feed!EndUpdate  BY <1>0, <1>7 DEF Feed!EndUpdate, FeedTypes
<1> QED  BY <1>1, <1>2, <1>3, <1>4, <1>5, <1>6, <1>7 DEF Feed!Next

\* A wakeup is lost only when the pipe is full of others.
LEMMA WakeupNext == FeedTypes /\ Feed!WakeupOwed /\ Feed!Next => Feed!WakeupOwed'
BY PeripheryAssumption
   DEF FeedTypes, Feed!WakeupOwed, Feed!Next, Feed!put_vars, Feed!draw_vars, Feed!AddSource,
       Feed!Store, Feed!Poke, Feed!EmptyPipe, Feed!TakeFrames, Feed!DrawThumbnail, Feed!EndUpdate

\* A draw moves the rota on by one and has counted the waits of the sources in it.
LEMMA DrawRota ==
  ASSUME FeedInv, Feed!DrawThumbnail, NEW n \in 0..source_count, Rota(n)
  PROVE  Rota(taken.count)'
<1> USE DEF Feed!put_vars
<1>0. FeedTypes /\ Counts  BY DEF FeedInv
<1>1. /\ taken.count \in Nat /\ n \in Nat /\ n <= taken.count /\ taken.count # 0
      /\ next_source_id_ \in Nat /\ next_source_id_ <= n /\ taken' = taken /\ stored' = stored
      /\ stored # NoFrames => taken.count <= stored.count
  BY <1>0 DEF FeedTypes, Counts, Rota, Feed!DrawThumbnail
<1>2. next_source_id_' = Feed!Turn + 1  BY DEF Feed!DrawThumbnail
<1>3. \/ Feed!Turn = next_source_id_ /\ next_source_id_ < taken.count
      \/ Feed!Turn = 0 /\ next_source_id_ = taken.count /\ n = taken.count
  BY <1>1 DEF Feed!Turn
<1>4. ASSUME NEW id \in 0..(MaxSources - 1)
      PROVE  waited'[id] <= IF id < next_source_id_' THEN next_source_id_' - 1 - id
               ELSE IF id < taken.count THEN next_source_id_' + taken.count - 1 - id ELSE 0
  <2>1. /\ waited[id] \in Nat
        /\ waited[id] <= IF id < next_source_id_ THEN next_source_id_ - 1 - id
                         ELSE IF id < n THEN next_source_id_ + n - 1 - id ELSE 0
    BY <1>0 DEF FeedTypes, Rota
  <2>2. \/ waited'[id] = 0 /\ (id = Feed!Turn \/ id >= taken.count)
        \/ waited'[id] \in {waited[id], waited[id] + 1} /\ id # Feed!Turn /\ id < taken.count
        \/ waited'[id] = waited[id] /\ id # Feed!Turn
    <3>1. CASE Feed!Turn \in taken.present
      BY <1>0, <2>1, <3>1 DEF Feed!DrawThumbnail, FeedTypes
    <3>2. CASE Feed!Turn \notin taken.present
      BY <1>0, <2>1, <3>2 DEF Feed!DrawThumbnail, FeedTypes
    <3> QED  BY <3>1, <3>2
  <2> DEFINE w == waited[id]
             w2 == waited'[id]
             c == taken.count
             x == next_source_id_
             t == Feed!Turn
             x2 == next_source_id_'
  <2>3. id \in Nat  BY <1>0 DEF FeedTypes
  <2> SUFFICES w2 <= IF id < x2 THEN x2 - 1 - id ELSE IF id < c THEN x2 + c - 1 - id ELSE 0
    OBVIOUS
  <2>4. /\ w \in Nat /\ c \in Nat /\ x \in Nat /\ n \in Nat /\ n <= c /\ c # 0 /\ x <= n
        /\ x2 = t + 1
        /\ (t = x /\ x < c) \/ (t = 0 /\ x = c /\ n = c)
        /\ w <= IF id < x THEN x - 1 - id ELSE IF id < n THEN x + n - 1 - id ELSE 0
        /\ \/ w2 = 0 /\ (id = t \/ id >= c)
           \/ w2 \in {w, w + 1} /\ id # t /\ id < c
           \/ w2 = w /\ id # t
    BY <1>1, <1>2, <1>3, <2>1, <2>2
  <2> HIDE DEF w, w2, c, x, t, x2
  <2> QED  BY <2>3, <2>4
<1> QED  BY <1>1, <1>2, <1>3, <1>4 DEF Rota

LEMMA RotaNext ==
  ASSUME FeedInv, Feed!Next, FeedTypes', NEW n \in 0..source_count, Rota(n)
  PROVE  Counts' /\ \E k \in 0..source_count' : Rota(k)'
<1> USE DEF Feed!put_vars, Feed!draw_vars
<1>0. FeedTypes /\ Counts  BY DEF FeedInv
<1>1. CASE Feed!AddSource
  <2>1. n \in 0..source_count'  BY <1>0, <1>1 DEF Feed!AddSource, FeedTypes
  <2>2. Rota(n)' /\ Counts'  BY <1>0, <1>1 DEF Feed!AddSource, FeedTypes, Counts, Rota
  <2> QED  BY <2>1, <2>2
<1>2. CASE Feed!Store
  <2>1. stored'.count = source_count /\ source_count' = source_count
    BY <1>2 DEF Feed!Store, Feed!Frames
  <2>2. Rota(n)' /\ Counts'  BY <1>0, <1>2, <2>1 DEF Feed!Store, FeedTypes, Counts, Rota
  <2> QED  BY <2>1, <2>2
<1>3. CASE Feed!Poke  BY <1>0, <1>3 DEF Feed!Poke, FeedTypes, Counts, Rota
<1>4. CASE Feed!EmptyPipe  BY <1>0, <1>4 DEF Feed!EmptyPipe, FeedTypes, Counts, Rota
<1>5. CASE Feed!TakeFrames
  <2>1. /\ stored' = NoFrames /\ source_count' = source_count
        /\ taken'.count \in Nat /\ taken'.count <= source_count
        /\ taken'.count # 0 => n <= taken'.count
        /\ next_source_id_' = next_source_id_ /\ waited' = waited
    BY <1>0, <1>5 DEF Feed!TakeFrames, FeedTypes, Counts, Rota, Feed!Frames
  <2>2. Rota(n)' /\ Counts'  BY <1>0, <2>1 DEF FeedTypes, Counts, Rota
  <2> QED  BY <2>1, <2>2
<1>6. CASE Feed!DrawThumbnail
  <2>1. taken' = taken /\ source_count' = source_count /\ stored' = stored
    BY <1>6 DEF Feed!DrawThumbnail
  <2>2. Counts' /\ taken.count \in 0..source_count  BY <1>0, <2>1 DEF Counts, FeedTypes
  <2>3. Rota(taken.count)'  BY <1>6, DrawRota
  <2>4. PICK k \in 0..source_count : k = taken.count  BY <2>2
  <2>5. Rota(k)'  BY <2>1, <2>3, <2>4
  <2> QED  BY <2>1, <2>2, <2>5
<1>7. CASE Feed!EndUpdate  BY <1>0, <1>7 DEF Feed!EndUpdate, FeedTypes, Counts, Rota
<1> QED  BY <1>1, <1>2, <1>3, <1>4, <1>5, <1>6, <1>7 DEF Feed!Next

LEMMA FeedNext == FeedInv /\ Feed!Next => FeedInv'
<1> SUFFICES ASSUME FeedInv, Feed!Next PROVE FeedInv'  OBVIOUS
<1>1. FeedTypes'  BY FeedTypesNext
<1>2. Feed!WakeupOwed'  BY WakeupNext DEF FeedInv
<1>3. PICK n \in 0..source_count : Rota(n)  BY DEF FeedInv
<1>4. Counts' /\ \E k \in 0..source_count' : Rota(k)'  BY <1>1, <1>3, RotaNext
<1> QED  BY <1>1, <1>2, <1>4 DEF FeedInv

LEMMA FeedRight == FeedInv => Feed!WakeupOwed /\ Feed!RotaEven
<1> SUFFICES ASSUME FeedInv, NEW id \in DOMAIN waited PROVE waited[id] < source_count
  BY DEF FeedInv, Feed!RotaEven
<1>1. PICK n \in 0..source_count : Rota(n)  BY DEF FeedInv
<1>2. FeedTypes  BY DEF FeedInv
<1>3. id \in Nat /\ waited[id] \in Nat /\ source_count \in Nat \ {0} /\ next_source_id_ \in Nat
  BY <1>2, PeripheryAssumption DEF FeedTypes
<1>4. /\ next_source_id_ <= n
      /\ waited[id] <= IF id < next_source_id_ THEN next_source_id_ - 1 - id
                       ELSE IF id < n THEN next_source_id_ + n - 1 - id ELSE 0
  BY <1>1, <1>2 DEF Rota, FeedTypes
<1>5. CASE id < next_source_id_  BY <1>1, <1>3, <1>4, <1>5
<1>6. CASE id >= next_source_id_ /\ id < n  BY <1>1, <1>3, <1>4, <1>6
<1>7. CASE id >= next_source_id_ /\ id >= n  BY <1>1, <1>3, <1>4, <1>7
<1> QED  BY <1>1, <1>3, <1>5, <1>6, <1>7

----------------------------------------------------------------------------
(* Frames from the camera.                                                  *)
Block == 0..(FrameBlocks - 1)
Content == Block \union {NoData, Garbage}

SourceTypes == camera \in Block /\ overspill_ \in Seq(Block)

FrameTypes ==
  /\ fOurProfile \in BOOLEAN
  /\ fSavedInitialBlocks \in Seq(Content)
  /\ Len(fSavedInitialBlocks) <= Frames!DV_SAVED_INITIAL_BLOCKS_SIZE
  /\ reading \in {"profile", "frame", "nobody"}
  /\ buffer \in Seq(Content) /\ delivered \in Seq(Content)
  /\ sound \in [now : BOOLEAN, then : BOOLEAN]

\* Every block of a frame is at its place, or lost.
Placed(frame) == \A i \in DOMAIN frame : frame[i] \in {i - 1, NoData}

\* The frame so far, and the frame before it.
Filled ==
  /\ reading # "frame" => buffer = <<>>
  /\ Len(buffer) <= Frames!totFrameSize
  /\ sound.now => Placed(buffer)
  /\ Len(delivered) <= FrameBlocks
  /\ sound.then => Placed(delivered)

CaptureInv == SourceTypes /\ FrameTypes /\ Filled

LEMMA FrameSizes == /\ FrameBlocks \in Nat \ {0} /\ MaxFrame \in Nat /\ FrameBlocks <= MaxFrame
               /\ Frames!totFrameSize \in Nat /\ Frames!totFrameSize <= FrameBlocks
               /\ Frames!DV_SAVED_INITIAL_BLOCKS_SIZE \in Nat
               /\ Frames!DV_SAVED_INITIAL_BLOCKS_SIZE <= Frames!totFrameSize
BY PeripheryAssumption DEF Frames!totFrameSize, Frames!DV_SAVED_INITIAL_BLOCKS_SIZE

\* How much is asked for fits in the frame.
LEMMA MaxSize ==
  ASSUME FrameTypes, Filled
  PROVE  /\ Frames!fMaxSize \in Nat
         /\ reading = "profile" => Frames!fMaxSize = Frames!DV_SAVED_INITIAL_BLOCKS_SIZE
         /\ reading = "frame" => Len(buffer) + Frames!fMaxSize = Frames!totFrameSize
<1> DEFINE total == Frames!totFrameSize
           saved == Frames!DV_SAVED_INITIAL_BLOCKS_SIZE
           n == Len(buffer)
<1>1. n \in Nat /\ n <= total  BY DEF FrameTypes, Filled
<1>2. /\ total \in Nat /\ saved \in Nat /\ MaxFrame \in Nat /\ total <= MaxFrame
  BY FrameSizes
<1>3. Frames!fMaxSize = IF reading = "profile" THEN saved
                        ELSE (IF total < MaxFrame THEN total ELSE MaxFrame) - n
  BY DEF Frames!fMaxSize, Frames!Least
<1> HIDE DEF total, saved, n
<1>4. Frames!fMaxSize \in Nat /\ (reading # "profile" => n + Frames!fMaxSize = total)
  BY <1>1, <1>2, <1>3
<1> QED  BY <1>3, <1>4 DEF saved, total, n

\* The beginning of what came, as long as there is room.
LEMMA Beginning ==
  ASSUME NEW S, NEW s \in Seq(S), NEW max \in Nat
  PROVE  LET t == SubSeq(s, 1, Frames!Least(Len(s), max))
         IN  /\ t \in Seq(S) /\ Len(t) <= max /\ Len(t) <= Len(s)
<1> DEFINE n == Len(s)
           k == Frames!Least(n, max)
<1>1. n \in Nat /\ \A i \in 1..n : s[i] \in S  OBVIOUS
<1>2. k = IF n < max THEN n ELSE max  BY DEF Frames!Least
<1> HIDE DEF n, k
<1>3. k \in Nat /\ k <= n /\ k <= max  BY <1>1, <1>2
<1>4. \A i \in 1..k : s[i] \in S  BY <1>1, <1>3
<1>5. /\ SubSeq(s, 1, k) \in Seq(S)
      /\ Len(SubSeq(s, 1, k)) = IF 1 <= k THEN k - 1 + 1 ELSE 0
  BY <1>3, <1>4, SubSeqProperties
<1> QED  BY <1>3, <1>5 DEF n, k

\* Filler is a sequence.
LEMMA Filler ==
  ASSUME NEW n \in Nat, NEW x \in Content
  PROVE  /\ [i \in 1..n |-> x] \in Seq(Content) /\ Len([i \in 1..n |-> x]) = n
         /\ \A i \in 1..n : [k \in 1..n |-> x][i] = x
<1> DEFINE f == [i \in 1..n |-> x]
<1>1. f \in [1..n -> Content]  OBVIOUS
<1> HIDE DEF f
<1>2. f \in Seq(Content) /\ Len(f) = n  BY <1>1
<1> QED  BY <1>2 DEF f

\* Realigning gives a frame that ends at pos and has at each place what it had, or nothing.
LEMMA RealignedTo ==
  ASSUME buffer \in Seq(Content), NEW pos \in Nat
  PROVE  LET r == Frames!Realigned(pos)
         IN  /\ r \in Seq(Content) /\ Len(r) = pos
             /\ \A i \in 1..pos : \/ r[i] = NoData
                                  \/ Len(buffer) <= pos /\ i \in 1..Len(buffer) /\ r[i] = buffer[i]
<1> DEFINE n == Len(buffer)
           kept == IF pos < n THEN <<>> ELSE buffer
           k == Len(kept)
           gap == [i \in 1..(pos - k) |-> NoData]
           r == kept \o gap
<1>1. Frames!Realigned(pos) = r  BY DEF Frames!Realigned
<1>2. n \in Nat /\ \A i \in 1..n : buffer[i] \in Content  OBVIOUS
<1>3. kept \in Seq(Content) /\ k \in Nat /\ k <= pos  BY <1>2
<1>4. k # 0 => n <= pos /\ k = n /\ kept = buffer  BY <1>2
<1> HIDE DEF kept, k, n
<1>5. pos - k \in Nat /\ NoData \in Content  BY <1>3 DEF Content
<1>6. gap \in Seq(Content) /\ Len(gap) = pos - k /\ \A i \in 1..(pos - k) : gap[i] = NoData
  BY <1>5, Filler
<1> HIDE DEF gap
<1>7. /\ r \in Seq(Content) /\ Len(r) = Len(kept) + Len(gap)
      /\ \A i \in 1..(Len(kept) + Len(gap)) :
           r[i] = IF i <= Len(kept) THEN kept[i] ELSE gap[i - Len(kept)]
  BY <1>3, <1>6, ConcatProperties
<1> HIDE DEF r
<1>8. Len(kept) = k  BY DEF k
<1>9. Len(r) = pos  BY <1>3, <1>6, <1>7, <1>8
<1>10. ASSUME NEW i \in 1..pos
       PROVE  r[i] = NoData \/ (n <= pos /\ i \in 1..n /\ r[i] = buffer[i])
  <2>1. r[i] = IF i <= k THEN kept[i] ELSE gap[i - k]  BY <1>3, <1>6, <1>7, <1>8
  <2>2. CASE i <= k  BY <1>3, <1>4, <2>1, <2>2
  <2>3. CASE ~(i <= k)
    <3>1. i - k \in 1..(pos - k)  BY <1>3, <2>3
    <3> QED  BY <1>6, <2>1, <2>3, <3>1
  <2> QED  BY <2>2, <2>3
<1> QED  BY <1>1, <1>7, <1>9, <1>10 DEF n

\* A chunk in one piece that begins at its place and ends in its frame is at its places.
LEMMA PieceAtPlace ==
  ASSUME NEW chunk \in Seq(Block), Frames!InOnePiece(chunk), NEW i \in 1..Len(chunk),
         chunk[1] + Len(chunk) <= FrameBlocks
  PROVE  chunk[i] = chunk[1] + i - 1
<1> DEFINE n == Len(chunk)
           b == chunk[1]
<1>1. n \in Nat /\ i \in 1..n /\ b \in Block /\ b + n <= FrameBlocks  OBVIOUS
<1>2. chunk[i] = (b + i - 1) % FrameBlocks  BY DEF Frames!InOnePiece
<1> HIDE DEF n, b
<1>3. b + i - 1 \in 0..(FrameBlocks - 1)  BY <1>1, PeripheryAssumption DEF Block
<1>4. (b + i - 1) % FrameBlocks = b + i - 1  BY <1>3, PeripheryAssumption, SMT
<1> QED  BY <1>2, <1>4 DEF b
\* A chunk that is joined to a frame leaves it no longer than a frame, and, when the chunk is a
\* good one, with every block at its place.
LEMMA Joining ==
  ASSUME CaptureInv, reading = "frame", NEW chunk \in Seq(Block), Len(chunk) <= Frames!fMaxSize,
         NEW total \in Nat, Frames!totFrameSize <= total, total <= FrameBlocks,
         NEW pos \in Nat, pos = Frames!position(chunk),
         NEW moved \in BOOLEAN, moved <=> pos # Len(buffer) /\ pos + Len(chunk) <= total
  PROVE  LET joined == (IF moved THEN Frames!Realigned(pos) ELSE buffer) \o chunk
         IN  /\ joined \in Seq(Content) /\ Len(joined) <= total
             /\ /\ sound.now \/ (moved /\ pos < Len(buffer))
                /\ fOurProfile /\ Frames!InOnePiece(chunk) /\ pos + Len(chunk) <= total
                => Placed(joined)
<1> DEFINE front == IF moved THEN Frames!Realigned(pos) ELSE buffer
           joined == front \o chunk
           n == Len(buffer)
           f == Len(front)
           k == Len(chunk)
           r == Frames!Realigned(pos)
<1>0. FrameTypes /\ Filled  BY DEF CaptureInv
<1>1. /\ buffer \in Seq(Content) /\ n \in Nat /\ k \in Nat /\ n + k <= total
      /\ DOMAIN buffer = 1..n
  <2>1. buffer \in Seq(Content) /\ n \in Nat /\ k \in Nat /\ DOMAIN buffer = 1..n
    BY <1>0 DEF FrameTypes
  <2>2. n + Frames!fMaxSize = Frames!totFrameSize /\ Frames!fMaxSize \in Nat
    BY <1>0, MaxSize
  <2>3. k <= Frames!fMaxSize /\ Frames!totFrameSize \in Nat  BY FrameSizes
  <2> HIDE DEF n, k
  <2> QED  BY <2>1, <2>2, <2>3
<1>2. /\ r \in Seq(Content) /\ Len(r) = pos
      /\ \A i \in 1..pos : r[i] = NoData \/ (n <= pos /\ i \in 1..n /\ r[i] = buffer[i])
  BY <1>1, RealignedTo
<1>3. /\ front \in Seq(Content) /\ f = (IF moved THEN pos ELSE n)
  BY <1>1, <1>2
<1>4. chunk \in Seq(Content)  BY DEF Content
<1>5. \A i \in 1..f : (moved => front[i] = r[i]) /\ (~moved => front[i] = buffer[i])
  OBVIOUS
<1> HIDE DEF front
<1>6. /\ joined \in Seq(Content) /\ Len(joined) = f + k
      /\ \A i \in 1..(f + k) : joined[i] = IF i <= f THEN front[i] ELSE chunk[i - f]
  BY <1>3, <1>4, ConcatProperties
<1>7. DOMAIN joined = 1..(f + k)  BY <1>6
<1> HIDE DEF joined, r
<1>8. f \in Nat /\ f + k <= total
  <2>1. pos + k <= total \/ ~moved  OBVIOUS
  <2> HIDE DEF n, f, k
  <2> QED  BY <1>1, <1>3, <2>1
<1>9. ASSUME sound.now \/ (moved /\ pos < n), fOurProfile, Frames!InOnePiece(chunk),
             pos + k <= total
      PROVE  Placed(joined)
  <2>1. f = pos  BY <1>3, <1>9
  <2>2. ASSUME NEW i \in 1..f PROVE front[i] \in {i - 1, NoData}
    <3>1. CASE ~moved
      <4>1. sound.now /\ n = f /\ front[i] = buffer[i]  BY <1>3, <1>5, <1>9, <3>1
      <4>2. Placed(buffer)  BY <1>0, <4>1 DEF Filled
      <4> HIDE DEF n, f
      <4> QED  BY <1>1, <4>1, <4>2 DEF Placed
    <3>2. CASE moved /\ pos < n
      <4>1. front[i] = r[i] /\ ~(n <= pos)  BY <1>1, <1>5, <3>2
      <4>2. i \in 1..pos  BY <2>1
      <4> HIDE DEF n, f
      <4> QED  BY <1>2, <4>1, <4>2
    <3>3. CASE moved /\ ~(pos < n)
      <4>1. sound.now /\ front[i] = r[i]  BY <1>5, <1>9, <3>3
      <4>2. Placed(buffer)  BY <1>0, <4>1 DEF Filled
      <4>3. i \in 1..pos  BY <2>1
      <4> HIDE DEF n, f
      <4> QED  BY <1>1, <1>2, <4>1, <4>2, <4>3 DEF Placed
    <3> QED  BY <3>1, <3>2, <3>3
  <2>3. ASSUME NEW i \in 1..k PROVE chunk[i] = pos + i - 1
    <3>1. k # 0 /\ chunk # <<>>  BY <1>1
    <3>2. pos = chunk[1]  BY <1>9, <3>1 DEF Frames!position
    <3>3. chunk[1] + Len(chunk) <= FrameBlocks
      <4>1. chunk[1] + k <= FrameBlocks
        <5>1. pos + k <= total /\ total <= FrameBlocks  BY <1>9
        <5> HIDE DEF k
        <5> QED  BY <1>1, <3>2, <5>1, PeripheryAssumption
      <4> QED  BY <4>1
    <3>4. chunk[i] = chunk[1] + i - 1  BY <1>9, <3>3, PieceAtPlace
    <3> QED  BY <3>2, <3>4
  <2>4. ASSUME NEW i \in 1..(f + k) PROVE joined[i] \in {i - 1, NoData}
    <3>1. joined[i] = IF i <= f THEN front[i] ELSE chunk[i - f]  BY <1>6
    <3> HIDE DEF f, k, n
    <3>2. CASE i <= f
      <4>1. i \in 1..f  BY <1>1, <1>8, <3>2
      <4> QED  BY <2>2, <3>1, <3>2, <4>1
    <3>3. CASE ~(i <= f)
      <4>1. i - f \in 1..k  BY <1>1, <1>8, <3>3
      <4>2. chunk[i - f] = pos + (i - f) - 1  BY <2>3, <4>1
      <4>3. pos + (i - f) - 1 = i - 1  BY <1>8, <2>1
      <4> QED  BY <3>1, <3>3, <4>2, <4>3
    <3> QED  BY <3>2, <3>3
  <2> QED  BY <1>7, <2>4 DEF Placed
<1>10. Len(joined) <= total  BY <1>6, <1>8
<1> QED  BY <1>6, <1>9, <1>10 DEF joined, front, n, k

LEMMA PositionType ==
  ASSUME FrameTypes, NEW chunk \in Seq(Block)
  PROVE  Frames!position(chunk) \in Nat
<1>1. Len(buffer) \in Nat  BY DEF FrameTypes
<1>2. chunk # <<>> => chunk[1] \in Nat  BY PeripheryAssumption DEF Block
<1> QED  BY <1>1, <1>2, Zenon DEF Frames!position

\* What the framer does with the data it has got.
LEMMA GotFrame ==
  ASSUME CaptureInv, reading = "frame", NEW chunk \in Seq(Block),
         Len(chunk) <= Frames!fMaxSize, NEW truncated,
         Frames!afterGettingFrame(chunk, truncated)
  PROVE  FrameTypes' /\ Filled'
<1> DEFINE pos == Frames!position(chunk)
           known == fOurProfile \/ (Frames!Long(chunk) /\ Frames!HeaderIn(chunk))
           total == IF known THEN FrameBlocks ELSE Smallest
           fits == pos + Len(chunk) <= total
           moved == pos # Len(buffer) /\ fits
           joined == (IF moved THEN Frames!Realigned(pos) ELSE buffer) \o chunk
           more == Len(joined) < total /\ Len(joined) < MaxFrame /\ ~truncated
           good == /\ sound.now \/ (moved /\ pos < Len(buffer))
                   /\ fOurProfile /\ Frames!InOnePiece(chunk) /\ fits
<1>0. FrameTypes /\ Filled  BY DEF CaptureInv
<1>1. /\ fOurProfile' = known
      /\ more => /\ buffer' = joined /\ sound' = [sound EXCEPT !.now = good]
                 /\ delivered' = delivered /\ reading' = reading
      /\ ~more => /\ buffer' = <<>> /\ delivered' = joined
                  /\ sound' = [now |-> TRUE, then |-> good] /\ reading' = "nobody"
      /\ fSavedInitialBlocks' = fSavedInitialBlocks
  BY Zenon DEF Frames!afterGettingFrame, Frames!saved_vars
<1>2. pos \in Nat  BY <1>0, PositionType
<1>3. known \in BOOLEAN /\ good \in BOOLEAN /\ moved \in BOOLEAN
  BY <1>0, Zenon DEF FrameTypes
<1>4. total \in Nat /\ Frames!totFrameSize <= total /\ total <= FrameBlocks
  BY PeripheryAssumption DEF Frames!totFrameSize
<1>5. Frames!totFrameSize' = total  BY <1>1 DEF Frames!totFrameSize
<1> HIDE DEF total, known
<1>6. /\ joined \in Seq(Content) /\ Len(joined) <= total
      /\ good => Placed(joined)
  BY <1>2, <1>3, <1>4, Joining
<1> HIDE DEF pos, joined, more, moved, fits, good
<1>7. /\ fOurProfile' \in BOOLEAN /\ fSavedInitialBlocks' \in Seq(Content)
      /\ Len(fSavedInitialBlocks') <= Frames!DV_SAVED_INITIAL_BLOCKS_SIZE
      /\ sound \in [now : BOOLEAN, then : BOOLEAN]
      /\ delivered \in Seq(Content) /\ Len(delivered) <= FrameBlocks
      /\ sound.then => Placed(delivered)
  BY <1>0, <1>1, <1>3 DEF FrameTypes, Filled
<1>8. Frames!DV_SAVED_INITIAL_BLOCKS_SIZE' = Frames!DV_SAVED_INITIAL_BLOCKS_SIZE
  BY DEF Frames!DV_SAVED_INITIAL_BLOCKS_SIZE
<1>9. CASE more
  <2>1. sound' \in [now : BOOLEAN, then : BOOLEAN] /\ sound'.now = good /\ sound'.then = sound.then
    BY <1>1, <1>3, <1>7, <1>9
  <2>2. FrameTypes'  BY <1>1, <1>6, <1>7, <1>8, <1>9, <2>1 DEF FrameTypes
  <2>3. Filled'  BY <1>1, <1>5, <1>6, <1>7, <1>9, <2>1 DEF Filled, Placed
  <2> QED  BY <2>2, <2>3
<1>10. CASE ~more
  <2>1. sound' \in [now : BOOLEAN, then : BOOLEAN] /\ sound'.now = TRUE /\ sound'.then = good
    <3>1. sound' = [now |-> TRUE, then |-> good]  BY <1>1, <1>10
    <3>2. sound'.now = TRUE /\ sound'.then = good  BY <3>1, Zenon
    <3> QED  BY <1>3, <3>1, <3>2, Zenon
  <2>2. FrameTypes'  BY <1>1, <1>6, <1>7, <1>8, <1>10, <2>1 DEF FrameTypes
  <2>3. Len(buffer') = 0 /\ DOMAIN buffer' = {} /\ Len(delivered') <= FrameBlocks
    <3>1. Len(joined) \in Nat  BY <1>6
    <3>2. Len(joined) <= FrameBlocks  BY <1>4, <1>6, <3>1, PeripheryAssumption
    <3> QED  BY <1>1, <1>10, <3>2
  <2>4. Placed(buffer)' /\ (sound'.then => Placed(delivered)')
    BY <1>1, <1>6, <1>10, <2>1, <2>3 DEF Placed
  <2> QED  BY <1>1, <1>4, <1>5, <1>10, <2>2, <2>3, <2>4 DEF Filled
<1> QED  BY <1>9, <1>10

LEMMA GotProfile ==
  ASSUME CaptureInv, reading = "profile", NEW chunk \in Seq(Block),
         Len(chunk) <= Frames!fMaxSize, Frames!afterGettingProfile(chunk)
  PROVE  FrameTypes' /\ Filled'
<1> DEFINE n == Len(chunk)
           saved == Frames!DV_SAVED_INITIAL_BLOCKS_SIZE
           fill == [i \in 1..(saved - n) |-> Garbage]
<1>0. FrameTypes /\ Filled  BY DEF CaptureInv
<1>1. n \in Nat /\ n <= saved /\ saved \in Nat /\ chunk \in Seq(Content)
  BY <1>0, MaxSize, FrameSizes DEF Content
<1>2. /\ fSavedInitialBlocks' = chunk \o fill
      /\ fOurProfile' = (Frames!Long(chunk) /\ Frames!HeaderIn(chunk))
      /\ reading' = "nobody" /\ UNCHANGED <<buffer, delivered, sound>>
  BY DEF Frames!afterGettingProfile
<1>3. fOurProfile' \in BOOLEAN  BY <1>2, Zenon
<1> HIDE DEF saved, n
<1>4. saved - n \in Nat  BY <1>1
<1>5. fill \in Seq(Content) /\ Len(fill) = saved - n  BY <1>4, Filler DEF Content
<1> HIDE DEF fill
<1>6. fSavedInitialBlocks' \in Seq(Content) /\ Len(fSavedInitialBlocks') = Len(chunk) + Len(fill)
  BY <1>1, <1>2, <1>5, ConcatProperties
<1>7. Len(fSavedInitialBlocks') = saved  BY <1>1, <1>5, <1>6 DEF n
<1>8. Len(fSavedInitialBlocks') <= Frames!DV_SAVED_INITIAL_BLOCKS_SIZE
  BY <1>1, <1>7 DEF saved
<1>9. FrameTypes'
  BY <1>0, <1>2, <1>3, <1>6, <1>8 DEF FrameTypes, Frames!DV_SAVED_INITIAL_BLOCKS_SIZE
<1>10. buffer' = <<>> /\ Frames!totFrameSize' \in Nat
  BY <1>0, <1>2, PeripheryAssumption DEF Filled, Frames!totFrameSize
<1>11. Len(buffer') <= Frames!totFrameSize'  BY <1>10
<1>12. Filled'  BY <1>0, <1>2, <1>10, <1>11 DEF Filled, Placed
<1> QED  BY <1>9, <1>12

LEMMA GotKeeps ==
  ASSUME CaptureInv, reading # "nobody", NEW chunk \in Seq(Block),
         Len(chunk) <= Frames!fMaxSize, NEW truncated, Frames!Got(chunk, truncated)
  PROVE  FrameTypes' /\ Filled'
<1>1. reading \in {"profile", "frame"}  BY DEF CaptureInv, FrameTypes
<1> QED  BY <1>1, GotFrame, GotProfile DEF Frames!Got

\* What the camera sends are blocks.
LEMMA PacketsType ==
  ASSUME camera \in Block, NEW n \in Nat, NEW lost \in SUBSET (1..n)
  PROVE  /\ Frames!packets(n, lost) \in Seq(Block)
         /\ (camera + Packet * Frames!ahead(lost, n)) % FrameBlocks \in Block
<1>1. ASSUME NEW x \in Int PROVE x % FrameBlocks \in Block
  BY PeripheryAssumption, Z3 DEF Block
<1>2. ASSUME NEW i \in Int PROVE Frames!ahead(lost, i) \in Int
  <2>1. IsFiniteSet(1..i)  BY FS_Interval
  <2>2. IsFiniteSet(lost \intersect (1..i))  BY <2>1, FS_Intersection
  <2>3. Cardinality(lost \intersect (1..i)) \in Nat  BY <2>2, FS_CardinalityType
  <2>4. Frames!Cardinality(lost \intersect (1..i)) = Cardinality(lost \intersect (1..i))
    BY DEF Frames!Cardinality, Cardinality
  <2> QED  BY <2>3, <2>4 DEF Frames!ahead
<1>3. camera \in Int /\ Packet \in Int  BY PeripheryAssumption DEF Block
<1>4. ASSUME NEW k \in Int
      PROVE  (camera + Packet * (Frames!ahead(lost, ((k - 1) \div Packet) + 1) - 1)
                + ((k - 1) % Packet)) % FrameBlocks \in Block
  <2>1. (k - 1) \div Packet \in Int /\ (k - 1) % Packet \in Int  BY PeripheryAssumption, Z3
  <2> DEFINE q == (k - 1) \div Packet
             m == (k - 1) % Packet
  <2>2. q \in Int /\ m \in Int  BY <2>1
  <2> HIDE DEF q, m
  <2>3. Frames!ahead(lost, q + 1) \in Int  BY <1>2, <2>2
  <2> DEFINE a == Frames!ahead(lost, q + 1)
  <2>4. a \in Int  BY <2>3
  <2> HIDE DEF a
  <2>5. camera + Packet * (a - 1) + m \in Int  BY <1>3, <2>2, <2>4
  <2>6. (camera + Packet * (a - 1) + m) % FrameBlocks \in Block  BY <1>1, <2>5
  <2> QED  BY <2>6 DEF a, q, m
<1>5. n * Packet \in Nat  BY PeripheryAssumption
<1> DEFINE len == n * Packet
           p == Frames!packets(n, lost)
<1>6. DOMAIN p = 1..len /\ \A k \in 1..len : p[k] \in Block
  BY <1>4 DEF Frames!packets
<1>7. p = [k \in 1..len |-> p[k]]  BY DEF Frames!packets
<1> HIDE DEF len, p
<1>8. p \in [1..len -> Block] /\ len \in Nat  BY <1>5, <1>6, <1>7 DEF len
<1>9. p \in Seq(Block)  BY <1>8
<1>10. Frames!ahead(lost, n) \in Int  BY <1>2
<1>11. camera + Packet * Frames!ahead(lost, n) \in Int  BY <1>3, <1>10
<1> QED  BY <1>1, <1>9, <1>11 DEF p

\* What the source hands over fits, and so does what it keeps.
LEMMA Received ==
  ASSUME NEW blocks \in Seq(Block), Frames!fMaxSize \in Nat
  PROVE  /\ Frames!received(blocks) \in Seq(Block)
         /\ Len(Frames!received(blocks)) <= Frames!fMaxSize
         /\ Frames!spilled(blocks) \in Seq(Block)
<1>1. ASSUME NEW max \in Nat PROVE Frames!Room(max) \in Nat /\ Frames!Room(max) <= max
  <2>1. max % Packet \in 0..max  BY PeripheryAssumption, Z3
  <2> DEFINE m == max % Packet
  <2>2. m \in 0..max  BY <2>1
  <2> HIDE DEF m
  <2>3. max - m \in Nat /\ max - m <= max  BY <2>2
  <2> QED  BY <2>3 DEF Frames!Room, m
<1> DEFINE t == Frames!received(blocks)
           n == Len(blocks)
           k == Len(t)
           u == Frames!rest(blocks)
<1>2. t \in Seq(Block) /\ k <= Frames!fMaxSize /\ k <= n
  <2> DEFINE room == Frames!Room(Frames!fMaxSize)
  <2>1. room \in Nat /\ room <= Frames!fMaxSize  BY <1>1
  <2> HIDE DEF room
  <2>2. /\ SubSeq(blocks, 1, Frames!Least(Len(blocks), room)) \in Seq(Block)
        /\ Len(SubSeq(blocks, 1, Frames!Least(Len(blocks), room))) <= room
        /\ Len(SubSeq(blocks, 1, Frames!Least(Len(blocks), room))) <= Len(blocks)
    BY <2>1, Beginning
  <2>3. t = SubSeq(blocks, 1, Frames!Least(Len(blocks), room))
    BY DEF Frames!received, room
  <2>4. t \in Seq(Block) /\ k <= room /\ k <= n  BY <2>2, <2>3
  <2>5. k \in Nat  BY <2>4
  <2> HIDE DEF t, k
  <2> QED  BY <2>1, <2>4, <2>5
<1>3. n \in Nat /\ k \in Nat /\ \A i \in 1..n : blocks[i] \in Block  BY <1>2
<1>4. u = SubSeq(blocks, k + 1, n)  BY DEF Frames!rest
<1> HIDE DEF t, k, n
<1>5. k + 1 \in Int /\ n \in Int /\ \A i \in (k + 1)..n : blocks[i] \in Block  BY <1>3
<1>6. u \in Seq(Block)  BY <1>4, <1>5, SubSeqProperties
<1> HIDE DEF u
<1> DEFINE room == Frames!Room(MaxFrame)
<1>7. room \in Nat  BY <1>1, FrameSizes
<1> HIDE DEF room
<1>8. SubSeq(u, 1, Frames!Least(Len(u), room)) \in Seq(Block)  BY <1>6, <1>7, Beginning
<1>9. Frames!spilled(blocks) \in Seq(Block)  BY <1>8 DEF Frames!spilled, u, room
<1> QED  BY <1>2, <1>9 DEF t, k

LEMMA CaptureInit == Frames!Init => CaptureInv
<1> SUFFICES ASSUME Frames!Init PROVE CaptureInv  OBVIOUS
<1>1. /\ camera \in Block /\ overspill_ = <<>> /\ fOurProfile = FALSE
      /\ fSavedInitialBlocks = <<>> /\ buffer = <<>> /\ reading = "profile"
      /\ delivered = <<>> /\ sound = [now |-> TRUE, then |-> FALSE]
  BY DEF Frames!Init, Block
<1>2. fOurProfile \in BOOLEAN /\ sound \in [now : BOOLEAN, then : BOOLEAN] /\ sound.then = FALSE
  BY <1>1
<1>3. <<>> \in Seq(Block) /\ <<>> \in Seq(Content) /\ Len(<<>>) = 0 /\ DOMAIN <<>> = {}
  OBVIOUS
<1>4. SourceTypes /\ FrameTypes  BY <1>1, <1>2, <1>3, FrameSizes DEF SourceTypes, FrameTypes
<1>5. Filled  BY <1>1, <1>2, <1>3, FrameSizes DEF Filled, Placed
<1> QED  BY <1>4, <1>5 DEF CaptureInv

LEMMA CaptureNext == CaptureInv /\ Frames!Next => CaptureInv'
<1> SUFFICES ASSUME CaptureInv, Frames!Next PROVE CaptureInv'  OBVIOUS
<1> USE DEF Frames!source_vars, Frames!saved_vars, Frames!frame_vars
<1>0. SourceTypes /\ FrameTypes /\ Filled  BY DEF CaptureInv
<1>a. Frames!DV_SAVED_INITIAL_BLOCKS_SIZE' = Frames!DV_SAVED_INITIAL_BLOCKS_SIZE
  BY DEF Frames!DV_SAVED_INITIAL_BLOCKS_SIZE
<1>1. CASE Frames!try_open
  <2>1. UNCHANGED <<camera, overspill_, fOurProfile, fSavedInitialBlocks, buffer, delivered,
                    sound, reading>>
    BY <1>1 DEF Frames!try_open
  <2>2. SourceTypes' /\ FrameTypes'  BY <1>0, <1>a, <2>1 DEF SourceTypes, FrameTypes
  <2>3. Filled'  BY <1>0, <2>1 DEF Filled, Placed, Frames!totFrameSize
  <2> QED  BY <2>2, <2>3 DEF CaptureInv
<1>2. CASE Frames!doGetNextFrame
  <2>1. /\ reading' = "frame"
        /\ \/ buffer' = fSavedInitialBlocks /\ sound' = [sound EXCEPT !.now = FALSE]
           \/ buffer' = <<>> /\ sound' = [sound EXCEPT !.now = TRUE]
        /\ UNCHANGED <<camera, overspill_, fSavedInitialBlocks, fOurProfile, delivered>>
    <3>1. CASE fInitialBlocksPresent
      <4>1. (~fInitialBlocksPresent) = FALSE  BY <3>1
      <4> QED  BY <1>2, <3>1, <4>1 DEF Frames!doGetNextFrame
    <3>2. CASE ~fInitialBlocksPresent
      <4>1. (~fInitialBlocksPresent) = TRUE  BY <3>2
      <4> QED  BY <1>2, <3>2, <4>1 DEF Frames!doGetNextFrame
    <3> QED  BY <3>1, <3>2
  <2>2. sound \in [now : BOOLEAN, then : BOOLEAN]  BY <1>0 DEF FrameTypes
  <2>3. /\ sound' \in [now : BOOLEAN, then : BOOLEAN] /\ sound'.then = sound.then
        /\ (buffer' = fSavedInitialBlocks /\ sound'.now = FALSE) \/ buffer' = <<>>
    BY <2>1, <2>2
  <2>4. buffer' \in Seq(Content) /\ (buffer' = <<>> => Len(buffer') = 0 /\ DOMAIN buffer' = {})
    <3>1. CASE buffer' = fSavedInitialBlocks  BY <1>0, <3>1 DEF FrameTypes
    <3>2. CASE buffer' = <<>>  BY <3>2
    <3> QED  BY <2>1, <3>1, <3>2
  <2>5. SourceTypes' /\ FrameTypes'
    BY <1>0, <1>a, <2>1, <2>3, <2>4 DEF SourceTypes, FrameTypes
  <2>6. Frames!totFrameSize' = Frames!totFrameSize  BY <2>1 DEF Frames!totFrameSize
  <2>7. Len(buffer') <= Frames!totFrameSize
    <3> DEFINE b == Len(buffer')
               total == Frames!totFrameSize
               saved == Frames!DV_SAVED_INITIAL_BLOCKS_SIZE
    <3>1. b \in Nat /\ (b <= saved \/ b = 0)  BY <1>0, <2>1, <2>4 DEF FrameTypes
    <3>2. total \in Nat /\ saved \in Nat /\ saved <= total  BY FrameSizes
    <3> HIDE DEF b, total, saved
    <3>3. b <= total  BY <3>1, <3>2
    <3> QED  BY <3>3 DEF b, total
  <2>8. Filled'  BY <1>0, <2>1, <2>3, <2>4, <2>6, <2>7 DEF Filled, Placed
  <2> QED  BY <2>5, <2>8 DEF CaptureInv
<1>3. CASE Frames!Overspilled
  <2> DEFINE chunk == SubSeq(overspill_, 1, Frames!Least(Len(overspill_), Frames!fMaxSize))
  <2>1. Frames!fMaxSize \in Nat  BY <1>0, MaxSize
  <2>2. chunk \in Seq(Block) /\ Len(chunk) <= Frames!fMaxSize
    BY <1>0, <2>1, Beginning DEF SourceTypes
  <2> DEFINE truncated == Len(overspill_) > Frames!fMaxSize
  <2>3. Frames!Got(chunk, truncated)  BY <1>3, Zenon DEF Frames!Overspilled
  <2> HIDE DEF chunk, truncated
  <2>4. FrameTypes' /\ Filled'  BY <1>3, <2>2, <2>3, GotKeeps DEF Frames!Overspilled
  <2>5. SourceTypes'  BY <1>0, <1>3 DEF Frames!Overspilled, SourceTypes
  <2> QED  BY <2>4, <2>5 DEF CaptureInv
<1>4. CASE Frames!poll
  <2>0. PICK n \in 1..MaxPackets : \E lost \in SUBSET (1..n) :
          LET blocks == Frames!packets(n, lost)
          IN  /\ Frames!Got(Frames!received(blocks),
                            Frames!spilled(blocks) # Frames!rest(blocks))
              /\ overspill_' = Frames!spilled(blocks)
              /\ camera' = (camera + Packet * Frames!ahead(lost, n)) % FrameBlocks
    BY <1>4, Zenon DEF Frames!poll
  <2>1. PICK lost \in SUBSET (1..n) :
          LET blocks == Frames!packets(n, lost)
          IN  /\ Frames!Got(Frames!received(blocks),
                            Frames!spilled(blocks) # Frames!rest(blocks))
              /\ overspill_' = Frames!spilled(blocks)
              /\ camera' = (camera + Packet * Frames!ahead(lost, n)) % FrameBlocks
    BY <2>0, Zenon
  <2> DEFINE blocks == Frames!packets(n, lost)
             truncated == Frames!spilled(blocks) # Frames!rest(blocks)
  <2>2. n \in Nat  BY PeripheryAssumption
  <2>3. blocks \in Seq(Block) /\ (camera + Packet * Frames!ahead(lost, n)) % FrameBlocks \in Block
    BY <1>0, <2>2, PacketsType DEF SourceTypes
  <2>4. /\ Frames!Got(Frames!received(blocks), truncated)
        /\ overspill_' = Frames!spilled(blocks) /\ camera' \in Block
    BY <2>1, <2>3
  <2> HIDE DEF blocks
  <2>5. Frames!fMaxSize \in Nat  BY <1>0, MaxSize
  <2>6. /\ Frames!received(blocks) \in Seq(Block) /\ Frames!spilled(blocks) \in Seq(Block)
        /\ Len(Frames!received(blocks)) <= Frames!fMaxSize
    BY <2>3, <2>5, Received
  <2> HIDE DEF truncated
  <2>7. FrameTypes' /\ Filled'  BY <1>4, <2>4, <2>6, GotKeeps DEF Frames!poll
  <2>8. SourceTypes'  BY <2>4, <2>6 DEF SourceTypes
  <2> QED  BY <2>7, <2>8 DEF CaptureInv
<1> QED  BY <1>1, <1>2, <1>3, <1>4 DEF Frames!Next

LEMMA CaptureRight == CaptureInv => Frames!FramesPlaced
<1> SUFFICES ASSUME CaptureInv PROVE Frames!FramesPlaced  OBVIOUS
<1>1. FrameTypes /\ Filled  BY DEF CaptureInv
<1>2. Len(buffer) \in Nat /\ Len(delivered) \in Nat  BY <1>1 DEF FrameTypes
<1>3. Len(buffer) <= FrameBlocks /\ Len(delivered) <= FrameBlocks
  <2> DEFINE n == Len(buffer)
             total == Frames!totFrameSize
  <2>1. n \in Nat /\ n <= total /\ total \in Nat /\ total <= FrameBlocks
    BY <1>1, <1>2, FrameSizes DEF Filled
  <2> HIDE DEF n, total
  <2>2. n <= FrameBlocks  BY <2>1, PeripheryAssumption
  <2> QED  BY <1>1, <2>2 DEF n, Filled
<1>4. Len(buffer) <= MaxFrame /\ Len(delivered) <= MaxFrame
  <2> DEFINE n == Len(buffer)
             d == Len(delivered)
  <2>1. n \in Nat /\ d \in Nat /\ n <= FrameBlocks /\ d <= FrameBlocks  BY <1>2, <1>3
  <2> HIDE DEF n, d
  <2>2. n <= MaxFrame /\ d <= MaxFrame  BY <2>1, FrameSizes
  <2> QED  BY <2>2 DEF n, d
<1> QED  BY <1>1, <1>3, <1>4 DEF Filled, Placed, Frames!FramesPlaced

----------------------------------------------------------------------------
(* Sound from the ALSA device.                                              *)
\* The room that is not kept for what a read returns beyond what is wanted.
Wanted == IF delay_size >= MinBuffer THEN delay_size ELSE MinBuffer

LEMMA Sizes ==
  /\ Wanted \in Nat /\ buffer_size = Wanted + (hw_frame_count - 1) /\ buffer_size \in Nat
  /\ delay_size <= Wanted /\ MinBuffer <= Wanted
  BY AlsaAssumption DEF Wanted, buffer_size

\* The cycle has a count for every frame, and none is larger than the least buffer.
LEMMA CountType ==
  ASSUME serial_num \in 0..(Len(std_cycle) - 1)
  PROVE  frame_count \in 1..MinBuffer
<1>1. Len(std_cycle) \in Nat /\ std_cycle \in [1..Len(std_cycle) -> 1..MinBuffer]
  BY AlsaAssumption
<1>2. serial_num + 1 \in 1..Len(std_cycle)  BY <1>1
<1> QED  BY <1>1, <1>2 DEF frame_count

\* While samples are wanted there is room for all that a read may return.
LEMMA RoomToRead ==
  ASSUME TypeOK, Wanting
  PROVE  avail_count + hw_frame_count <= buffer_size
<1>1. frame_count \in 1..MinBuffer  BY CountType DEF TypeOK
<1>2. MinBuffer \in Nat /\ delay_size \in Nat /\ hw_frame_count \in Nat \ {0}  BY AlsaAssumption
<1>3. avail_count \in Nat  BY Sizes DEF TypeOK
<1>4. avail_count < Wanted  BY <1>1, <1>2, <1>3, Sizes DEF Wanting
<1> QED  BY <1>2, <1>3, <1>4, Sizes

LEMMA InitType == Init => TypeOK
<1>1. Len(std_cycle) \in Nat \ {0}  BY AlsaAssumption
<1> QED  BY <1>1, Sizes DEF Init, TypeOK

LEMMA NextType == TypeOK /\ [Next]_vars => TypeOK'
<1> SUFFICES ASSUME TypeOK, [Next]_vars PROVE TypeOK'  OBVIOUS
<1>1. CASE UNCHANGED vars  BY <1>1 DEF vars, TypeOK, buffer_size
<1>2. CASE Read
  <2>1. PICK rc \in 1..hw_frame_count : avail_count' = avail_count + rc  BY <1>2 DEF Read
  <2>2. avail_count + hw_frame_count <= buffer_size  BY <1>2, RoomToRead DEF Read
  <2>3. avail_count \in Nat /\ hw_frame_count \in Nat  BY AlsaAssumption, Sizes DEF TypeOK
  <2>4. avail_count' \in 0..buffer_size  BY <2>1, <2>2, <2>3, Sizes
  <2> QED  BY <1>2, <2>4 DEF Read, TypeOK
<1>3. CASE Send
  <2>1. frame_count \in 1..MinBuffer  BY CountType DEF TypeOK
  <2>2. avail_count \in Nat /\ avail_count <= buffer_size  BY Sizes DEF TypeOK
  <2>3. avail_count >= frame_count  BY <1>3, <2>1, <2>2, AlsaAssumption DEF Send, Wanting
  <2>4. avail_count' \in 0..buffer_size
    BY <1>3, <2>1, <2>2, <2>3, Sizes, AlsaAssumption DEF Send
  <2>5. Len(std_cycle) \in Nat \ {0}  BY AlsaAssumption
  <2>6. serial_num' \in 0..(Len(std_cycle) - 1)  BY <1>3, <2>5 DEF Send, TypeOK
  <2> QED  BY <2>4, <2>6 DEF TypeOK
<1> QED  BY <1>1, <1>2, <1>3 DEF Next

LEMMA Invariance == Spec => []TypeOK
<1>1. Init => TypeOK  BY InitType
<1>2. TypeOK /\ [Next]_vars => TypeOK'  BY NextType
<1> QED  BY <1>1, <1>2, PTL DEF Spec

\* The samples that dvsource-alsa holds never go beyond its buffer.
THEOREM TypeCorrect == Spec => []TypeOK
BY Invariance

\* Before every snd_pcm_readi the buffer has room for all the samples asked for, however
\* many the reads before returned and whatever the delay is.
THEOREM ReadsInBuffer == Spec => []ReadsFit
<1>1. TypeOK => ReadsFit  BY RoomToRead DEF ReadsFit
<1> QED  BY <1>1, Invariance, PTL

\* The ID of each block of the dummy frame says where the block is.
LEMMA DummyPlaced ==
  ASSUME NEW seq_num \in 0..11, NEW block_num \in 0..149
  PROVE  Frames!block_place(dummy_block(seq_num, block_num)) = seq_num * 150 + block_num
<1> DEFINE seq == seq_num * 16 + 7
           video == block_num - 7
<1>1. seq \div 16 = seq_num  BY Z3
<1> HIDE DEF seq
<1>2. ASSUME NEW first, NEW n,
             dummy_block(seq_num, block_num) = <<first, seq, n>>
      PROVE  Frames!block_place(dummy_block(seq_num, block_num))
               = seq_num * 150
                 + (CASE first \div 32 = 0 /\ n = 0   -> 0
                      [] first \div 32 = 1 /\ n < 2   -> 1 + n
                      [] first \div 32 = 2 /\ n < 3   -> 3 + n
                      [] first \div 32 = 3 /\ n < 9   -> 6 + n * 16
                      [] first \div 32 = 4 /\ n < 135 -> 7 + n + (n \div 15)
                      [] OTHER -> 150)
  BY <1>1, <1>2 DEF Frames!block_place
<1>3. /\ 31 \div 32 = 0 /\ 63 \div 32 = 1 /\ 86 \div 32 = 2 /\ 118 \div 32 = 3 /\ 150 \div 32 = 4
  BY Z3
<1>4. CASE block_num = 0
  <2>1. dummy_block(seq_num, block_num) = <<31, seq, 0>>  BY <1>4 DEF dummy_block, seq
  <2> QED  BY <1>2, <1>3, <1>4, <2>1
<1>5. CASE block_num \in 1..2
  <2>1. dummy_block(seq_num, block_num) = <<63, seq, block_num - 1>>
    BY <1>5 DEF dummy_block, seq
  <2> QED  BY <1>2, <1>3, <1>5, <2>1
<1>6. CASE block_num \in 3..5
  <2>1. dummy_block(seq_num, block_num) = <<86, seq, block_num - 3>>
    BY <1>6 DEF dummy_block, seq
  <2> QED  BY <1>2, <1>3, <1>6, <2>1
<1>7. CASE block_num > 5 /\ block_num % 16 = 6
  <2> DEFINE n == block_num \div 16
  <2>1. dummy_block(seq_num, block_num) = <<118, seq, n>>  BY <1>7 DEF dummy_block, seq
  <2>2. n \in 0..8 /\ 6 + n * 16 = block_num  BY <1>7, Z3
  <2> HIDE DEF n
  <2> QED  BY <1>2, <1>3, <2>1, <2>2
<1>8. CASE block_num > 5 /\ block_num % 16 # 6
  <2> DEFINE n == video - (video \div 16)
  <2>1. dummy_block(seq_num, block_num) = <<150, seq, n>>  BY <1>8 DEF dummy_block, seq
  <2>2. n \in 0..134 /\ 7 + n + (n \div 15) = block_num  BY <1>8, Z3
  <2> HIDE DEF n
  <2> QED  BY <1>2, <1>3, <2>1, <2>2
<1> QED  BY <1>4, <1>5, <1>6, <1>7, <1>8, Z3

----------------------------------------------------------------------------
(* All of them.                                                             *)
PeripheryInv == LinkInv /\ WindowInv /\ FeedInv /\ CaptureInv /\ TypeOK

LEMMA LinkStays == LinkInv /\ UNCHANGED link_vars => LinkInv'
BY DEF link_vars, LinkInv, LinkTypes, Asked, Building, Slotted, Played, Links!SlotsOf,
       Links!Registered, Links!Refusing

LEMMA WindowStays == WindowInv /\ UNCHANGED window_vars => WindowInv'
BY DEF window_vars, WindowInv, Right, Reports, Offered, Faded, Shown, Ready, Made

LEMMA FeedStays == FeedInv /\ UNCHANGED feed_vars => FeedInv'
BY DEF feed_vars, FeedInv, FeedTypes, Counts, Rota, Feed!WakeupOwed

LEMMA CaptureStays == CaptureInv /\ UNCHANGED capture_vars => CaptureInv'
BY DEF capture_vars, CaptureInv, SourceTypes, FrameTypes, Filled, Placed, Frames!totFrameSize,
       Frames!DV_SAVED_INITIAL_BLOCKS_SIZE

LEMMA SoundStays == TypeOK /\ UNCHANGED vars => TypeOK'
BY NextType

LEMMA PeripheryNextInv == PeripheryInv /\ [PeripheryNext]_all_vars => PeripheryInv'
<1> SUFFICES ASSUME PeripheryInv, [PeripheryNext]_all_vars PROVE PeripheryInv'  OBVIOUS
<1>0. LinkInv /\ WindowInv /\ FeedInv /\ CaptureInv /\ TypeOK  BY DEF PeripheryInv
<1>1. CASE ConnectorStep
  <2>1. /\ Links!Next /\ UNCHANGED window_vars /\ UNCHANGED feed_vars
        /\ UNCHANGED capture_vars /\ UNCHANGED vars
    BY <1>1 DEF ConnectorStep
  <2> QED
    BY <1>0, <2>1, LinkNext, WindowStays, FeedStays, CaptureStays, SoundStays DEF PeripheryInv
<1>2. CASE WindowStep
  <2>1. /\ Window!Next /\ UNCHANGED link_vars /\ UNCHANGED feed_vars
        /\ UNCHANGED capture_vars /\ UNCHANGED vars
    BY <1>2 DEF WindowStep, Window!Next
  <2> QED
    BY <1>0, <2>1, LinkStays, WindowNext, FeedStays, CaptureStays, SoundStays DEF PeripheryInv
<1>3. CASE FeedStep
  <2>1. /\ Feed!Next /\ UNCHANGED link_vars /\ UNCHANGED window_vars
        /\ UNCHANGED capture_vars /\ UNCHANGED vars
    BY <1>3 DEF FeedStep
  <2> QED
    BY <1>0, <2>1, LinkStays, WindowStays, FeedNext, CaptureStays, SoundStays DEF PeripheryInv
<1>4. CASE CaptureStep
  <2>1. /\ Frames!Next /\ UNCHANGED link_vars /\ UNCHANGED window_vars
        /\ UNCHANGED feed_vars /\ UNCHANGED vars
    BY <1>4 DEF CaptureStep
  <2> QED
    BY <1>0, <2>1, LinkStays, WindowStays, FeedStays, CaptureNext, SoundStays DEF PeripheryInv
<1>5. CASE AlsaStep
  <2>1. /\ Next /\ UNCHANGED link_vars /\ UNCHANGED window_vars
        /\ UNCHANGED feed_vars /\ UNCHANGED capture_vars
    BY <1>5 DEF AlsaStep
  <2> QED
    BY <1>0, <2>1, LinkStays, WindowStays, FeedStays, CaptureStays, NextType DEF PeripheryInv
<1>6. CASE UNCHANGED all_vars
  <2>1. /\ UNCHANGED link_vars /\ UNCHANGED window_vars /\ UNCHANGED feed_vars
        /\ UNCHANGED capture_vars /\ UNCHANGED vars
    BY <1>6 DEF all_vars
  <2> QED
    BY <1>0, <2>1, LinkStays, WindowStays, FeedStays, CaptureStays, SoundStays DEF PeripheryInv
<1> QED  BY <1>1, <1>2, <1>3, <1>4, <1>5, <1>6 DEF PeripheryNext

\* The invariants of all parts hold together.
THEOREM PeripheryInvariance == PeripherySpec => []PeripheryInv
<1>1. PeripheryInit => PeripheryInv
  BY LinkInit, WindowInit, FeedInit, CaptureInit, InitType DEF PeripheryInit, PeripheryInv
<1>2. PeripheryInv /\ [PeripheryNext]_all_vars => PeripheryInv'  BY PeripheryNextInv
<1> QED  BY <1>1, <1>2, PTL DEF PeripherySpec

\* However requests, answers, frames and ends of sessions interleave on the two threads, and
\* whatever else registers with the mixer, a connection has its own slot, and only while it
\* has a session; its frames go there.
THEOREM ConnectionsKeep == PeripherySpec => []ConnectionsKept
<1>1. PeripheryInv => ConnectionsKept  BY LinkRight DEF PeripheryInv, ConnectionsKept
<1> QED  BY <1>1, PeripheryInvariance, PTL

\* For any number of sources and fades, in whatever order the handlers run and between whichever
\* of their steps the end of a fade is reported: the program and the buttons are what the window
\* remembers, but for the primary source of a picture in picture that was made before a report.
\* Frames that were put wait for no one, and the rota of thumbnails passes over no source.
THEOREM WindowAgreed == PeripherySpec => []WindowAgrees
<1>1. PeripheryInv => WindowAgrees  BY WindowRight, FeedRight DEF PeripheryInv, WindowAgrees
<1> QED  BY <1>1, PeripheryInvariance, PTL

\* For any sizes of packets, frames and requests, and whatever packets are lost: the blocks of a
\* frame made of sound chunks are at their places; sound is read into the buffer only; and each
\* block of the dummy frame has the ID of its place.
THEOREM BlocksInPlace == PeripherySpec => []BlocksPlaced
<1>1. ASSUME PeripheryInv PROVE BlocksPlaced
  <2>1. Frames!FramesPlaced  BY <1>1, CaptureRight DEF PeripheryInv
  <2>2. ReadsFit  BY <1>1, RoomToRead DEF PeripheryInv, ReadsFit
  <2> QED  BY <2>1, <2>2, DummyPlaced DEF BlocksPlaced
<1> QED  BY <1>1, PeripheryInvariance, PTL
=============================================================================

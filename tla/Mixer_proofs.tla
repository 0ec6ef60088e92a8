------------------------------ MODULE Mixer_proofs ------------------------------
(***************************************************************************)
(* Proofs about the mixer, for any numbers of sources, sinks, frames and    *)
(* ticks, any queue lengths and any choices of the operator.                *)
(*                                                                          *)
(* The inductive invariant IInv joins the types with what the properties    *)
(* rest on: what the settings name exists once the clock runs (Ranges), the *)
(* mixer thread holds the front of a non-empty queue (Holds), registered    *)
(* sources and sinks are those in the slots (SlotsAgree, SinksAgree), no    *)
(* source is left lit (TallyNotStale), the recorders are counted (Counted), *)
(* each sink was last given the previous frame (Told), and the flag of a    *)
(* cut that is owed is in front of the mixer thread (CutAhead).             *)
(***************************************************************************)
EXTENDS Mixer, SequenceTheorems, FiniteSetTheorems, TLAPS

Ticking == {"select", "push", "notify"}

SettingsFit == \A id \in settings_.video_mix.ids \cup {settings_.audio_source_id} :
                 id \in 1..Len(sources_) \/ id = 1

Ranges == /\ SettingsFit
          /\ clock_state_ = "run" => Len(sources_) >= 1
          /\ clock_pc \in Ticking => clock_state_ # "wait"
          /\ \A i \in 1..Len(mixer_queue_) : InRange(mixer_queue_[i])
          /\ clock_pc = "push" => InRange(clock_m)

Holds == /\ holding => mixer_queue_ # <<>>
         /\ mixer_pc \in {"mix", "sink", "monitor"} => holding
         /\ mixer_pc = "asleep" => ~holding

SinksAgree == \A k \in Sink, i \in 1..MaxSinks :
                sink_id[k] = i <=> i \in 1..Len(sinks_) /\ sinks_[i] = k

Recording == {k \in Recorder : sink_id[k] # 0}
Counted   == IsFiniteSet(Recording) /\ recorders_count_ = Cardinality(Recording)

\* The number of the last frame that the sinks have.
Latest == IF mixer_pc = "sink" THEN serial_num - 2 ELSE serial_num - 1

Told == /\ mixer_pc = "sink" => mixed_dv.serial_num = serial_num - 1
        /\ \A k \in Sink : sink_id[k] # 0 /\ seen[k] # -1 => seen[k] = Latest

SinkFacts == SinksAgree /\ Counted /\ Told

\* Whether the sinks have had the mixed frame of the front of mixer_queue_.
FrontUsed == mixer_pc = "monitor" \/ (mixer_pc = "get" /\ holding)

QueueCut == \E i \in 1..Len(mixer_queue_) :
              mixer_queue_[i].settings.cut_before /\ (FrontUsed => i # 1)

CutAhead == /\ mixer_pc = "sink" => mixed_dv.cut_before = m.settings.cut_before
            /\ cut_due /\ ~dropped =>
                 \/ settings_.cut_before
                 \/ clock_pc = "push" /\ clock_m.settings.cut_before
                 \/ QueueCut

IInv == TypeOK /\ Ranges /\ Holds /\ SlotsAgree /\ TallyNotStale /\ SinkFacts /\ CutAhead

\* A new mixer satisfies the invariant: the settings name source 1, which may be missing
\* because the clock does not run.
LEMMA InitInv == Init => IInv
<1> USE ConstantAssumption
<1> SUFFICES ASSUME Init PROVE IInv  OBVIOUS
<1>1. TypeSource
  <2>1. settings_ \in Settings
    <3>1. {1} \in (SUBSET (Nat \ {0})) \ {{}}  BY SMT
    <3>2. "simple" \in Kind  BY DEF Kind
    <3> QED  BY <3>1, <3>2 DEF Init, Settings, Simple
  <2>2. format_ \in Formats
    <3>1. Automatic \in Aspect \cup {Automatic} /\ Automatic \in SampleRate \cup {Automatic}  OBVIOUS
    <3> QED  BY <3>1 DEF Init, Formats
  <2> QED  BY <2>1, <2>2 DEF Init, TypeSource, RunState
<1>2. TypeQueue  BY DEF Init, TypeQueue, RunState
<1>3. TypeSink  BY DEF Init, TypeSink
<1>4. TypeClock  BY DEF Init, TypeClock
<1>5. TypeMixer  BY DEF Init, TypeMixer
<1>6. TypeConn  BY DEF Init, TypeConn
<1>7. TypeRest
  <2>1. seen \in [Sink -> Int] /\ shared \subseteq 1..MaxFrames  BY DEF Init
  <2>2. puts \in 0..MaxFrames /\ ticks \in 0..MaxTicks  BY DEF Init
  <2>3. destroy_pc \in {"no", "clock", "join", "gone"} /\ notify_due \in BOOLEAN  BY DEF Init
  <2>4. dropped \in BOOLEAN /\ shown \in BOOLEAN /\ cut_due \in BOOLEAN /\ reformatted \in BOOLEAN
    BY DEF Init
  <2> QED  BY <2>1, <2>2, <2>3, <2>4 DEF TypeRest
<1>8. Ranges  BY DEF Init, Ranges, SettingsFit, Simple, Ticking
<1>9. Holds  BY DEF Init, Holds
<1>10. SlotsAgree  BY DEF Init, SlotsAgree, Ids
<1>11. TallyNotStale  BY DEF Init, TallyNotStale
<1>12. SinkFacts
  <2>1. SinksAgree  BY DEF Init, SinksAgree
  <2>2. Recording = {}  BY DEF Init, Recording
  <2>3. Counted  BY <2>2, FS_EmptySet DEF Init, Counted
  <2>4. Told  BY DEF Init, Told
  <2> QED  BY <2>1, <2>3, <2>4 DEF SinkFacts
<1>13. CutAhead  BY DEF Init, CutAhead
<1> QED  BY <1>1, <1>2, <1>3, <1>4, <1>5, <1>6, <1>7, <1>8, <1>9, <1>10, <1>11, <1>12, <1>13
         DEF IInv, TypeOK

-----------------------------------------------------------------------------------
\* A part of the invariant whose variables a step leaves alone still holds after it.
LEMMA Unmoved ==
  ASSUME IInv
  PROVE  /\ UNCHANGED source_vars => TypeSource'
         /\ UNCHANGED queue_vars => TypeQueue'
         /\ UNCHANGED sink_vars => TypeSink'
         /\ UNCHANGED clock_vars => TypeClock'
         /\ UNCHANGED mixer_vars => TypeMixer'
         /\ UNCHANGED conn_vars => TypeConn'
         /\ UNCHANGED <<destroy_pc, notify_due, past_vars>> => TypeRest'
<1>1. UNCHANGED source_vars => TypeSource'
  BY DEF IInv, TypeOK, TypeSource, source_vars
<1>2. UNCHANGED queue_vars => TypeQueue'
  BY DEF IInv, TypeOK, TypeQueue, queue_vars
<1>3. UNCHANGED sink_vars => TypeSink'
  BY DEF IInv, TypeOK, TypeSink, sink_vars
<1>4. UNCHANGED clock_vars => TypeClock'
  BY DEF IInv, TypeOK, TypeClock, clock_vars
<1>5. UNCHANGED mixer_vars => TypeMixer'
  BY DEF IInv, TypeOK, TypeMixer, mixer_vars
<1>6. UNCHANGED conn_vars => TypeConn'
  BY DEF IInv, TypeOK, TypeConn, conn_vars
<1>7. UNCHANGED <<destroy_pc, notify_due, past_vars>> => TypeRest'
  BY DEF IInv, TypeOK, TypeRest, past_vars
<1> QED  BY <1>1, <1>2, <1>3, <1>4, <1>5, <1>6, <1>7

\* The same for the other parts.
LEMMA UnmovedFacts ==
  ASSUME IInv
  PROVE  /\ UNCHANGED <<settings_, sources_, clock_state_, clock_pc, clock_m, mixer_queue_>>
              => Ranges'
         /\ UNCHANGED <<holding, mixer_queue_, mixer_pc>> => Holds'
         /\ UNCHANGED <<source_id, sources_>> => SlotsAgree'
         /\ UNCHANGED <<source_id, active, settings_>> => TallyNotStale'
         /\ UNCHANGED <<sinks_, recorders_count_, sink_id, seen, mixer_pc, mixed_dv, serial_num>>
              => SinkFacts'
         /\ UNCHANGED <<settings_, clock_pc, clock_m, mixer_queue_, mixer_pc, holding, mixed_dv,
                        cut_due, dropped>> => CutAhead'
<1>1. UNCHANGED <<settings_, sources_, clock_state_, clock_pc, clock_m, mixer_queue_>>
        => Ranges'
  BY DEF IInv, Ranges, SettingsFit, InRange, Ticking
<1>2. UNCHANGED <<holding, mixer_queue_, mixer_pc>> => Holds'
  BY DEF IInv, Holds
<1>3. UNCHANGED <<source_id, sources_>> => SlotsAgree'
  BY DEF IInv, SlotsAgree
<1>4. UNCHANGED <<source_id, active, settings_>> => TallyNotStale'
  BY DEF IInv, TallyNotStale
<1>5. UNCHANGED <<sinks_, recorders_count_, sink_id, seen, mixer_pc, mixed_dv, serial_num>>
        => SinkFacts'
  BY DEF IInv, SinkFacts, SinksAgree, Counted, Recording, Told, Latest
<1>6. UNCHANGED <<settings_, clock_pc, clock_m, mixer_queue_, mixer_pc, holding, mixed_dv,
                  cut_due, dropped>> => CutAhead'
  BY DEF IInv, CutAhead, QueueCut, FrontUsed, m
<1> QED  BY <1>1, <1>2, <1>3, <1>4, <1>5, <1>6

\* Waking a thread keeps the facts about where it is.
LEMMA WakingClock ==
  ASSUME IInv, clock_pc' = ClockWoken, UNCHANGED clock_m
  PROVE  /\ TypeClock'
         /\ clock_pc' \in Ticking <=> clock_pc \in Ticking
         /\ clock_pc' = "push" <=> clock_pc = "push"
         /\ UNCHANGED <<settings_, queue_vars, mixer_vars, past_vars>> => CutAhead'
<1>1. TypeClock'  BY DEF IInv, TypeOK, TypeClock, ClockWoken
<1>2. /\ clock_pc' \in Ticking <=> clock_pc \in Ticking
      /\ clock_pc' = "push" <=> clock_pc = "push"
  BY DEF ClockWoken, Ticking
<1>3. UNCHANGED <<settings_, queue_vars, mixer_vars, past_vars>> => CutAhead'
  BY <1>2 DEF IInv, CutAhead, QueueCut, FrontUsed, m, queue_vars, mixer_vars, past_vars
<1> QED  BY <1>1, <1>2, <1>3

\* The same for the mixer thread.
LEMMA WakingMixer ==
  ASSUME IInv, mixer_pc' = MixerWoken,
         UNCHANGED <<holding, serial_num, mixed_dv, last_mixed_dv, mixer_queue_>>
  PROVE  /\ TypeMixer' /\ Holds'
         /\ UNCHANGED <<sink_vars, sink_id, past_vars>> => SinkFacts'
         /\ UNCHANGED <<settings_, clock_m, past_vars>>
              /\ (clock_pc' = "push" <=> clock_pc = "push") => CutAhead'
<1>1. TypeMixer'  BY DEF IInv, TypeOK, TypeMixer, MixerWoken
<1>2. Holds'  BY DEF IInv, Holds, MixerWoken
<1>3. mixer_pc' = "sink" <=> mixer_pc = "sink"  BY DEF MixerWoken
<1>4. UNCHANGED <<sink_vars, sink_id, past_vars>> => SinkFacts'
  BY <1>3 DEF IInv, SinkFacts, SinksAgree, Counted, Recording, Told, Latest, sink_vars, past_vars
<1>5. FrontUsed' => FrontUsed \/ (mixer_pc = "asleep" /\ holding)
  BY DEF FrontUsed, MixerWoken
<1>6. ASSUME mixer_pc = "asleep" PROVE ~holding  BY <1>6 DEF IInv, Holds
<1>7. UNCHANGED <<settings_, clock_m, past_vars>>
        /\ (clock_pc' = "push" <=> clock_pc = "push") => CutAhead'
  BY <1>3, <1>5, <1>6 DEF IInv, CutAhead, QueueCut, m, past_vars
<1> QED  BY <1>1, <1>2, <1>4, <1>7

\* A registered source has a slot, and a slot number is a place in sources_.
LEMMA SlotOf ==
  ASSUME IInv, NEW s \in Source, source_id[s] # 0
  PROVE  /\ source_id[s] \in 1..Len(sources_)
         /\ sources_[source_id[s]].src = s
         /\ sources_[source_id[s]] \in Slot
<1>1. source_id[s] \in Ids
  BY ConstantAssumption DEF IInv, TypeOK, TypeConn, Ids
<1>2. DOMAIN sources_ = 1..Len(sources_)
  BY DEF IInv, TypeOK, TypeSource
<1>3. source_id[s] \in DOMAIN sources_ /\ sources_[source_id[s]].src = s
  BY <1>1 DEF IInv, SlotsAgree
<1>4. sources_[source_id[s]] \in Slot
  BY <1>2, <1>3, ElementOfSeq DEF IInv, TypeOK, TypeSource
<1> QED  BY <1>2, <1>3, <1>4

-----------------------------------------------------------------------------------
\* add_source gives the source a slot no registered source has.
LEMMA AddSourceSlot ==
  ASSUME IInv, NEW s \in Source, AddSource(s)
  PROVE  /\ sources_' \in Seq(Slot) /\ Len(sources_') <= MaxSources
         /\ Len(sources_) <= Len(sources_')
         /\ \E id \in 1..Len(sources_') :
              /\ source_id' = [source_id EXCEPT ![s] = id]
              /\ sources_'[id].src = s
              /\ id \in 1..Len(sources_) => sources_[id].src = NULL
              /\ \A i \in 1..Len(sources_') \ {id} :
                   i \in 1..Len(sources_) /\ sources_'[i].src = sources_[i].src
<1>1. sources_ \in Seq(Slot) /\ Len(sources_) <= MaxSources /\ Len(sources_) \in Nat
      /\ DOMAIN sources_ = 1..Len(sources_)
  BY LenProperties DEF IInv, TypeOK, TypeSource
<1>2. MaxSources \in Nat  BY ConstantAssumption
<1>3. CASE Vacant # {}
  <2>1. PICK id \in Vacant : /\ sources_' = [sources_ EXCEPT ![id].src = s]
                             /\ source_id' = [source_id EXCEPT ![s] = id]
    BY <1>3 DEF AddSource
  <2>2. id \in 1..Len(sources_) /\ sources_[id].src = NULL  BY <1>1, <2>1 DEF Vacant
  <2> DEFINE e == [sources_[id] EXCEPT !.src = s]
  <2>3. sources_[id] \in Slot  BY <1>1, <2>2, ElementOfSeq
  <2>4. e \in Slot /\ e.src = s  BY <2>3 DEF Slot
  <2>5. sources_' = [sources_ EXCEPT ![id] = e]  BY <2>1
  <2> HIDE DEF e
  <2>6. /\ sources_' \in Seq(Slot) /\ Len(sources_') = Len(sources_)
        /\ \A j \in 1..Len(sources_) : sources_'[j] = IF j = id THEN e ELSE sources_[j]
    BY <1>1, <2>2, <2>4, <2>5, ExceptSeq
  <2>7. Len(sources_') <= MaxSources /\ Len(sources_) <= Len(sources_')
    BY <1>1, <2>6
  <2>8. \A i \in 1..Len(sources_') \ {id} :
          i \in 1..Len(sources_) /\ sources_'[i].src = sources_[i].src
    BY <2>6
  <2>9. sources_'[id].src = s /\ id \in 1..Len(sources_')  BY <2>2, <2>4, <2>6
  <2> QED  BY <2>1, <2>2, <2>6, <2>7, <2>8, <2>9
<1>4. CASE Vacant = {}
  <2> DEFINE e == [src |-> s, frames |-> <<>>]
             n == Len(sources_) + 1
  <2>1. /\ sources_' = Append(sources_, e)
        /\ source_id' = [source_id EXCEPT ![s] = n]
        /\ Len(sources_) < MaxSources
    BY <1>4 DEF AddSource
  <2>2. e \in Slot /\ e.src = s  BY DEF Slot
  <2> HIDE DEF e
  <2>3. /\ sources_' \in Seq(Slot) /\ Len(sources_') = n /\ sources_'[n] = e
        /\ \A j \in 1..Len(sources_) : sources_'[j] = sources_[j]
    BY <1>1, <2>1, <2>2
  <2>4. n \in 1..Len(sources_') /\ n \notin 1..Len(sources_)
        /\ \A i \in 1..Len(sources_') \ {n} : i \in 1..Len(sources_)
    BY <1>1, <2>3
  <2>5. Len(sources_') <= MaxSources /\ Len(sources_) <= Len(sources_')
    BY <1>1, <1>2, <2>1, <2>3
  <2> QED  BY <2>1, <2>2, <2>3, <2>4, <2>5
<1> QED  BY <1>3, <1>4

\* add_source keeps the invariant: the slot is vacant or new, and no source of it is lit.
LEMMA AddSourceStep ==
  ASSUME IInv, NEW s \in Source, AddSource(s)
  PROVE  IInv'
<1>1. PICK id \in 1..Len(sources_') :
        /\ source_id' = [source_id EXCEPT ![s] = id]
        /\ sources_'[id].src = s
        /\ id \in 1..Len(sources_) => sources_[id].src = NULL
        /\ \A i \in 1..Len(sources_') \ {id} :
             i \in 1..Len(sources_) /\ sources_'[i].src = sources_[i].src
  BY AddSourceSlot
<1>2. /\ sources_' \in Seq(Slot) /\ Len(sources_') <= MaxSources
      /\ Len(sources_) <= Len(sources_')
  BY AddSourceSlot
<1>3. /\ MaxSources \in Nat /\ Len(sources_') \in Nat /\ Len(sources_) \in Nat
      /\ DOMAIN sources_ = 1..Len(sources_) /\ DOMAIN sources_' = 1..Len(sources_')
  BY <1>2, LenProperties, ConstantAssumption DEF IInv, TypeOK, TypeSource
<1>4. source_id \in [Source -> 0..MaxSources] /\ source_id[s] = 0
  BY DEF IInv, TypeOK, TypeConn, AddSource
<1>5. TypeSource'  BY <1>2 DEF IInv, TypeOK, TypeSource, AddSource
<1>6. TypeConn'
  <2>1. id \in 0..MaxSources  BY <1>2, <1>3
  <2>2. source_id' \in [Source -> 0..MaxSources]  BY <1>1, <1>4, <2>1
  <2>3. active' \in [Source -> {"none", "video"}]
    BY DEF IInv, TypeOK, TypeConn, AddSource
  <2> QED  BY <2>2, <2>3 DEF IInv, TypeOK, TypeConn, AddSource
<1>7. Ranges'
  <2>1. \A i \in 1..Len(sources_) : i \in 1..Len(sources_')  BY <1>2, <1>3
  <2>2. SettingsFit'  BY <2>1 DEF IInv, Ranges, SettingsFit, AddSource
  <2>3. (clock_state_ = "run" => Len(sources_) >= 1)'
    <3>1. Len(sources_) >= 1 => Len(sources_') >= 1  BY <1>2, <1>3
    <3> QED  BY <3>1 DEF IInv, Ranges, AddSource
  <2> QED  BY <2>2, <2>3 DEF IInv, Ranges, AddSource, queue_vars, clock_vars, InRange
<1>8. SlotsAgree'
  <2> SUFFICES ASSUME NEW t \in Source, NEW i \in Ids
               PROVE  source_id'[t] = i <=> i \in 1..Len(sources_') /\ sources_'[i].src = t
    BY <1>3 DEF SlotsAgree
  <2>1. source_id[t] = i <=> i \in 1..Len(sources_) /\ sources_[i].src = t
    BY <1>3 DEF IInv, SlotsAgree
  <2>2. source_id'[t] = IF t = s THEN id ELSE source_id[t]  BY <1>1, <1>4
  <2>3. NULL # t /\ NULL # s  BY ConstantAssumption
  <2>4. source_id[t] \in 1..Len(sources_) => sources_[source_id[t]].src = t
    BY SlotOf, <1>3
  <2>5. CASE t = s /\ i = id  BY <1>1, <2>2, <2>5
  <2>6. CASE t = s /\ i # id
    <3>1. source_id[t] # i  BY <1>4, <2>6 DEF Ids
    <3> QED  BY <1>1, <2>1, <2>2, <2>6, <3>1
  <2>7. CASE t # s /\ i = id  BY <1>1, <2>1, <2>2, <2>3, <2>7
  <2>8. CASE t # s /\ i # id
    <3>1. i \in 1..Len(sources_) => i \in 1..Len(sources_')  BY <1>2, <1>3
    <3> QED  BY <1>1, <2>1, <2>2, <2>8, <3>1
  <2> QED  BY <2>5, <2>6, <2>7, <2>8
<1>9. TallyNotStale'
  <2> SUFFICES ASSUME NEW t \in Source, source_id'[t] # 0, active'[t] = "video"
               PROVE  source_id'[t] \in settings_'.video_mix.ids
    BY DEF TallyNotStale
  <2>1. active \in [Source -> {"none", "video"}]  BY DEF IInv, TypeOK, TypeConn
  <2>2. t # s /\ active[t] = "video"  BY <2>1 DEF AddSource
  <2>3. source_id'[t] = source_id[t]  BY <1>1, <1>4, <2>2
  <2> QED  BY <2>2, <2>3 DEF IInv, TallyNotStale, AddSource
<1>10. /\ TypeQueue' /\ TypeSink' /\ TypeClock' /\ TypeMixer' /\ TypeRest' /\ Holds'
       /\ SinkFacts' /\ CutAhead'
  BY Unmoved, UnmovedFacts DEF AddSource, queue_vars, sink_vars, clock_vars, mixer_vars, past_vars
<1> QED  BY <1>5, <1>6, <1>7, <1>8, <1>9, <1>10 DEF IInv, TypeOK

\* The sources_ of a step that replaces one slot by another of the same source.
LEMMA SlotReplaced ==
  ASSUME IInv, NEW id \in 1..Len(sources_), NEW e \in Slot,
         sources_' = [sources_ EXCEPT ![id] = e]
  PROVE  /\ sources_' \in Seq(Slot) /\ Len(sources_') = Len(sources_)
         /\ Len(sources_') <= MaxSources
         /\ DOMAIN sources_' = DOMAIN sources_ /\ DOMAIN sources_ = 1..Len(sources_)
         /\ sources_'[id] = e
         /\ \A i \in 1..Len(sources_) : i # id => sources_'[i] = sources_[i]
<1>1. /\ sources_ \in Seq(Slot) /\ Len(sources_) <= MaxSources
      /\ DOMAIN sources_ = 1..Len(sources_)
  BY DEF IInv, TypeOK, TypeSource
<1>2. /\ sources_' \in Seq(Slot) /\ Len(sources_') = Len(sources_)
      /\ \A j \in 1..Len(sources_) : sources_'[j] = IF j = id THEN e ELSE sources_[j]
  BY <1>1, ExceptSeq
<1> QED  BY <1>1, <1>2

\* remove_source keeps it: the slot stays, so identifiers in use stay in range.
LEMMA RemoveSourceStep ==
  ASSUME IInv, NEW s \in Source, RemoveSource(s)
  PROVE  IInv'
<1> DEFINE id == source_id[s]
           e == [sources_[id] EXCEPT !.src = NULL]
<1>1. /\ source_id[s] # 0
      /\ sources_' = [sources_ EXCEPT ![id] = e]
      /\ source_id' = [source_id EXCEPT ![s] = 0]
  BY DEF RemoveSource
<1>2. id \in 1..Len(sources_) /\ sources_[id].src = s /\ sources_[id] \in Slot
  BY <1>1, SlotOf
<1>3. e \in Slot /\ e.src = NULL  BY <1>2 DEF Slot
<1>4. source_id \in [Source -> 0..MaxSources] /\ MaxSources \in Nat
  BY ConstantAssumption DEF IInv, TypeOK, TypeConn
<1>5. \A t \in Source : source_id'[t] = IF t = s THEN 0 ELSE source_id[t]
  BY <1>1, <1>4
<1> HIDE DEF e
<1>6. /\ sources_' \in Seq(Slot) /\ Len(sources_') = Len(sources_)
      /\ Len(sources_') <= MaxSources
      /\ DOMAIN sources_' = DOMAIN sources_ /\ DOMAIN sources_ = 1..Len(sources_)
      /\ sources_'[id] = e
      /\ \A i \in 1..Len(sources_) : i # id => sources_'[i] = sources_[i]
  BY <1>1, <1>2, <1>3, SlotReplaced
<1>7. TypeSource'  BY <1>6 DEF IInv, TypeOK, TypeSource, RemoveSource
<1>8. TypeConn'
  <2>1. source_id' \in [Source -> 0..MaxSources]  BY <1>1, <1>4
  <2> QED  BY <2>1 DEF IInv, TypeOK, TypeConn, RemoveSource
<1>9. Ranges'
  BY <1>6 DEF IInv, Ranges, SettingsFit, RemoveSource, queue_vars, clock_vars, InRange
<1>10. SlotsAgree'
  <2> SUFFICES ASSUME NEW t \in Source, NEW i \in Ids
               PROVE  source_id'[t] = i <=> i \in 1..Len(sources_) /\ sources_'[i].src = t
    BY <1>6 DEF SlotsAgree
  <2>1. source_id[t] = i <=> i \in 1..Len(sources_) /\ sources_[i].src = t
    BY <1>6 DEF IInv, SlotsAgree
  <2>2. NULL # t /\ i # 0  BY ConstantAssumption DEF Ids
  <2>3. CASE t = s  BY <1>3, <1>5, <1>6, <2>1, <2>2, <2>3
  <2>4. CASE t # s  BY <1>2, <1>3, <1>5, <1>6, <2>1, <2>2, <2>4
  <2> QED  BY <2>3, <2>4
<1>11. TallyNotStale'
  <2> SUFFICES ASSUME NEW t \in Source, source_id'[t] # 0, active'[t] = "video"
               PROVE  source_id'[t] \in settings_'.video_mix.ids
    BY DEF TallyNotStale
  <2>1. t # s  BY <1>5
  <2> QED  BY <2>1, <1>5 DEF IInv, TallyNotStale, RemoveSource
<1>12. /\ TypeQueue' /\ TypeSink' /\ TypeClock' /\ TypeMixer' /\ TypeRest' /\ Holds'
       /\ SinkFacts' /\ CutAhead'
  BY Unmoved, UnmovedFacts
     DEF RemoveSource, queue_vars, sink_vars, clock_vars, mixer_vars, past_vars
<1> QED  BY <1>7, <1>8, <1>9, <1>10, <1>11, <1>12 DEF IInv, TypeOK

\* A frame dropped by put_frame only counts.
LEMMA DropFrameStep ==
  ASSUME IInv, NEW s \in Source, DropFrame(s)
  PROVE  IInv'
<1>1. TypeRest'
  <2>1. puts' \in 0..MaxFrames
    BY ConstantAssumption DEF IInv, TypeOK, TypeRest, DropFrame
  <2> QED  BY <2>1 DEF IInv, TypeOK, TypeRest, DropFrame
<1>2. /\ TypeSource' /\ TypeQueue' /\ TypeSink' /\ TypeClock' /\ TypeMixer' /\ TypeConn'
  BY Unmoved DEF DropFrame
<1>3. Ranges' /\ Holds' /\ SlotsAgree' /\ TallyNotStale' /\ SinkFacts' /\ CutAhead'
  BY UnmovedFacts
     DEF DropFrame, source_vars, queue_vars, sink_vars, clock_vars, mixer_vars, conn_vars
<1> QED  BY <1>1, <1>2, <1>3 DEF IInv, TypeOK

\* The notify after put_frame keeps the invariant.
LEMMA NotifyClockStep ==
  ASSUME IInv, NotifyClock
  PROVE  IInv'
<1>1. TypeClock' /\ (clock_pc' \in Ticking <=> clock_pc \in Ticking)
      /\ (clock_pc' = "push" <=> clock_pc = "push") /\ CutAhead'
  BY WakingClock DEF NotifyClock, source_vars
<1>2. TypeRest'  BY DEF IInv, TypeOK, TypeRest, NotifyClock, past_vars
<1>3. Ranges'
  BY <1>1 DEF IInv, Ranges, SettingsFit, InRange, NotifyClock, source_vars, queue_vars
<1>4. /\ TypeSource' /\ TypeQueue' /\ TypeSink' /\ TypeMixer' /\ TypeConn'
  BY Unmoved DEF NotifyClock
<1>5. Holds' /\ SlotsAgree' /\ TallyNotStale' /\ SinkFacts'
  BY UnmovedFacts
     DEF NotifyClock, source_vars, queue_vars, sink_vars, mixer_vars, conn_vars, past_vars
<1> QED  BY <1>1, <1>2, <1>3, <1>4, <1>5 DEF IInv, TypeOK

\* Automatic format settings are replaced by those of a frame, and stay settings.
LEMMA AutoSelectedType ==
  ASSUME IInv, NEW f \in FrameFormat
  PROVE  AutoSelected(f) \in Formats /\ AutoSelected(f).frame_aspect \in Aspect
<1>1. /\ f.system \in System /\ f.frame_aspect \in Aspect
      /\ f.sample_rate \in SampleRate \cup {Invalid}
  BY ConstantAssumption
<1>2. /\ format_.system \in System \cup {NULL} /\ format_.frame_aspect \in Aspect \cup {Automatic}
      /\ format_.sample_rate \in SampleRate \cup {Automatic}
  BY DEF IInv, TypeOK, TypeSource, Formats
<1> QED  BY <1>1, <1>2 DEF AutoSelected, Formats

\* put_frame keeps it: the clock is started only when source 1 exists.
LEMMA QueueFrameStep ==
  ASSUME IInv, NEW s \in Source, NEW f \in FrameFormat, QueueFrame(s, f)
  PROVE  IInv'
<1> DEFINE id == source_id[s]
           starts == Starts(id)
           running == starts \/ clock_state_ = "run"
           aspect == IF running THEN AutoSelected(f).frame_aspect ELSE f.frame_aspect
           error == IF ~running THEN "unset" ELSE IF WrongFormat(f) THEN "wrong" ELSE "right"
           frame == [n |-> puts + 1, system |-> f.system, sample_rate |-> f.sample_rate,
                     frame_aspect |-> aspect, format_error |-> error]
           e == [sources_[id] EXCEPT !.frames = Append(@, frame)]
<1>1. /\ id # 0
      /\ sources_' = [sources_ EXCEPT ![id] = e]
      /\ clock_state_' = IF starts THEN "run" ELSE clock_state_
      /\ format_' = IF running THEN AutoSelected(f) ELSE format_
      /\ notify_due' = starts
      /\ puts < MaxFrames /\ puts' = puts + 1
  BY DEF QueueFrame
<1>2. id \in 1..Len(sources_) /\ sources_[id].src = s /\ sources_[id] \in Slot
  BY <1>1, SlotOf
<1>3. AutoSelected(f) \in Formats /\ AutoSelected(f).frame_aspect \in Aspect
      /\ f.frame_aspect \in Aspect
  BY AutoSelectedType, ConstantAssumption
<1>4. puts + 1 \in 1..MaxFrames /\ puts' \in 0..MaxFrames
  BY <1>1, ConstantAssumption DEF IInv, TypeOK, TypeRest
<1>5. aspect \in Aspect /\ error \in {"unset", "right", "wrong"}  BY <1>3
<1>6. starts \in BOOLEAN  BY DEF Starts
<1>7. starts => Len(sources_) >= 1
  <2>1. Len(sources_) \in Nat  BY LenProperties DEF IInv, TypeOK, TypeSource
  <2> QED  BY <1>2, <2>1
<1> HIDE DEF starts, aspect, error
<1>8. frame \in Frame
  <2>1. f.system \in System /\ f.sample_rate \in SampleRate \cup {Invalid}
    BY ConstantAssumption
  <2> QED  BY <1>4, <1>5, <2>1 DEF Frame
<1> HIDE DEF frame
<1>9. e \in Slot /\ e.src = s
  <2>1. sources_[id].frames \in Seq(Frame)  BY <1>2 DEF Slot
  <2>2. Append(sources_[id].frames, frame) \in Seq(Frame)  BY <1>8, <2>1
  <2> QED  BY <1>2, <2>2 DEF Slot
<1> HIDE DEF e
<1>10. /\ sources_' \in Seq(Slot) /\ Len(sources_') = Len(sources_)
       /\ Len(sources_') <= MaxSources
       /\ DOMAIN sources_' = DOMAIN sources_ /\ DOMAIN sources_ = 1..Len(sources_)
       /\ sources_'[id] = e
       /\ \A i \in 1..Len(sources_) : i # id => sources_'[i] = sources_[i]
  BY <1>1, <1>2, <1>9, SlotReplaced
<1>11. TypeSource'
  BY <1>1, <1>3, <1>10 DEF IInv, TypeOK, TypeSource, RunState, QueueFrame
<1>12. TypeRest'  BY <1>1, <1>4, <1>6 DEF IInv, TypeOK, TypeRest, QueueFrame
<1>13. Ranges'
  <2>1. SettingsFit'  BY <1>10 DEF IInv, Ranges, SettingsFit, QueueFrame
  <2>2. (clock_state_ = "run" => Len(sources_) >= 1)'
    BY <1>1, <1>7, <1>10 DEF IInv, Ranges
  <2>3. (clock_pc \in Ticking => clock_state_ # "wait")'
    BY <1>1 DEF IInv, Ranges, QueueFrame, clock_vars, Ticking
  <2> QED  BY <2>1, <2>2, <2>3 DEF IInv, Ranges, QueueFrame, queue_vars, clock_vars, InRange
<1>14. SlotsAgree'
  <2> SUFFICES ASSUME NEW t \in Source, NEW i \in Ids
               PROVE  source_id[t] = i <=> i \in 1..Len(sources_) /\ sources_'[i].src = t
    BY <1>10 DEF SlotsAgree, QueueFrame, conn_vars
  <2>1. source_id[t] = i <=> i \in 1..Len(sources_) /\ sources_[i].src = t
    BY <1>10 DEF IInv, SlotsAgree
  <2> QED  BY <1>2, <1>9, <1>10, <2>1
<1>15. /\ TypeQueue' /\ TypeSink' /\ TypeClock' /\ TypeMixer' /\ TypeConn' /\ Holds'
       /\ TallyNotStale' /\ SinkFacts' /\ CutAhead'
  BY Unmoved, UnmovedFacts
     DEF QueueFrame, queue_vars, sink_vars, clock_vars, mixer_vars, conn_vars
<1> QED  BY <1>11, <1>12, <1>13, <1>14, <1>15 DEF IInv, TypeOK

\* The sinks that record, after a sink is added or removed.
LEMMA RecordingChange ==
  ASSUME IInv, NEW k \in Sink
  PROVE  /\ sink_id[k] = 0 /\ recorders_count_' = recorders_count_ + Recorders(k)
              /\ Recording' = Recording \cup (IF k \in Recorder THEN {k} ELSE {}) => Counted'
         /\ sink_id[k] # 0 /\ recorders_count_' = recorders_count_ - Recorders(k)
              /\ Recording' = Recording \ {k} => Counted'
<1>1. IsFiniteSet(Recording) /\ recorders_count_ = Cardinality(Recording)
      /\ Cardinality(Recording) \in Nat
  BY FS_CardinalityType DEF IInv, SinkFacts, Counted
<1>2. ASSUME sink_id[k] = 0, k \in Recorder, recorders_count_' = recorders_count_ + 1,
             Recording' = Recording \cup {k}
      PROVE  Counted'
  <2>1. k \notin Recording  BY <1>2 DEF Recording
  <2>2. IsFiniteSet(Recording \cup {k})
        /\ Cardinality(Recording \cup {k}) = Cardinality(Recording) + 1
    BY <1>1, <2>1, FS_AddElement
  <2> QED  BY <1>1, <1>2, <2>2 DEF Counted
<1>3. ASSUME sink_id[k] # 0, k \in Recorder, recorders_count_' = recorders_count_ - 1,
             Recording' = Recording \ {k}
      PROVE  Counted'
  <2>1. k \in Recording  BY <1>3 DEF Recording
  <2>2. IsFiniteSet(Recording \ {k})
        /\ Cardinality(Recording \ {k}) = Cardinality(Recording) - 1
    BY <1>1, <2>1, FS_RemoveElement
  <2> QED  BY <1>1, <1>3, <2>2 DEF Counted
<1>4. ASSUME k \notin Recorder, recorders_count_' = recorders_count_, Recording' = Recording
      PROVE  Counted'
  BY <1>1, <1>4 DEF Counted
<1>5. k \notin Recorder => Recorders(k) = 0 /\ Recording \cup {} = Recording /\ Recording \ {k} = Recording
  BY DEF Recording, Recorders
<1>6. recorders_count_ + 0 = recorders_count_ /\ recorders_count_ - 0 = recorders_count_
  BY <1>1
<1> QED  BY <1>2, <1>3, <1>4, <1>5, <1>6 DEF Recorders

\* add_sink keeps it: the new sink has the last slot and has seen nothing.
LEMMA AddSinkStep ==
  ASSUME IInv, NEW k \in Sink, AddSink(k)
  PROVE  IInv'
<1> DEFINE n == Len(sinks_) + 1
<1>1. sinks_ \in Seq(Sink \cup {NULL}) /\ Len(sinks_) \in Nat /\ MaxSinks \in Nat
      /\ recorders_count_ \in Int /\ sink_id \in [Sink -> 0..MaxSinks]
  BY LenProperties, ConstantAssumption DEF IInv, TypeOK, TypeSink, TypeConn
<1>2. Len(sinks_) < MaxSinks /\ sinks_' = Append(sinks_, k) /\ sink_id[k] = 0
      /\ sink_id' = [sink_id EXCEPT ![k] = n]
  BY DEF AddSink
<1>3. /\ sinks_' \in Seq(Sink \cup {NULL}) /\ Len(sinks_') = n
      /\ n \in 1..MaxSinks /\ Len(sinks_') <= MaxSinks /\ n \notin 1..Len(sinks_)
      /\ sinks_'[n] = k /\ \A i \in 1..Len(sinks_) : sinks_'[i] = sinks_[i]
      /\ \A i \in 1..Len(sinks_') : i # n => i \in 1..Len(sinks_)
      /\ \A i \in 1..Len(sinks_) : i \in 1..Len(sinks_')
  BY <1>1, <1>2
<1> HIDE DEF n
<1>4. recorders_count_' \in Int  BY <1>1 DEF AddSink, Recorders
<1>5. TypeSink'  BY <1>3, <1>4 DEF TypeSink
<1>6. \A j \in Sink : sink_id'[j] = IF j = k THEN n ELSE sink_id[j]
  BY <1>1, <1>2
<1>7. TypeConn'
  <2>1. sink_id' \in [Sink -> 0..MaxSinks]  BY <1>1, <1>2, <1>3
  <2> QED  BY <2>1 DEF IInv, TypeOK, TypeConn, AddSink
<1>8. seen' = [seen EXCEPT ![k] = -1] /\ seen \in [Sink -> Int]
  BY DEF IInv, TypeOK, TypeRest, AddSink
<1>9. TypeRest'
  <2>1. seen' \in [Sink -> Int]  BY <1>8
  <2> QED  BY <2>1 DEF IInv, TypeOK, TypeRest, AddSink
<1>10. SinksAgree'
  <2> SUFFICES ASSUME NEW j \in Sink, NEW i \in 1..MaxSinks
               PROVE  sink_id'[j] = i <=> i \in 1..Len(sinks_') /\ sinks_'[i] = j
    BY DEF SinksAgree
  <2>1. sink_id[j] = i <=> i \in 1..Len(sinks_) /\ sinks_[i] = j
    BY DEF IInv, SinkFacts, SinksAgree
  <2>2. i # 0  OBVIOUS
  <2>3. CASE j = k  BY <1>2, <1>3, <1>6, <2>1, <2>2, <2>3
  <2>4. CASE j # k  BY <1>3, <1>6, <2>1, <2>4
  <2> QED  BY <2>3, <2>4
<1>11. Counted'
  <2>1. n # 0  BY <1>3
  <2>2. Recorder \subseteq Sink  BY ConstantAssumption
  <2>3. Recording' = Recording \cup (IF k \in Recorder THEN {k} ELSE {})
    BY <1>6, <2>1, <2>2 DEF Recording
  <2>4. recorders_count_' = recorders_count_ + Recorders(k)
    BY DEF AddSink
  <2> QED  BY <1>2, <2>3, <2>4, RecordingChange
<1>12. Told'
  <2>1. Latest' = Latest /\ mixer_pc' = mixer_pc /\ mixed_dv' = mixed_dv
        /\ serial_num' = serial_num
    BY DEF AddSink, mixer_vars, Latest
  <2>2. ASSUME NEW j \in Sink, sink_id'[j] # 0, seen'[j] # -1
        PROVE  seen'[j] = Latest
    <3>1. j # k /\ seen'[j] = seen[j]  BY <1>8, <2>2
    <3> QED  BY <1>6, <2>2, <3>1 DEF IInv, SinkFacts, Told
  <2> QED  BY <2>1, <2>2 DEF IInv, SinkFacts, Told
<1>13. TypeSource' /\ TypeQueue' /\ TypeClock' /\ TypeMixer'
  BY Unmoved DEF AddSink
<1>14. Ranges' /\ Holds' /\ SlotsAgree' /\ TallyNotStale' /\ CutAhead'
  BY UnmovedFacts DEF AddSink, source_vars, queue_vars, clock_vars, mixer_vars
<1> QED  BY <1>5, <1>7, <1>9, <1>10, <1>11, <1>12, <1>13, <1>14 DEF IInv, TypeOK, SinkFacts

\* remove_sink keeps it: only the slot of the sink is cleared.
LEMMA RemoveSinkStep ==
  ASSUME IInv, NEW k \in Sink, RemoveSink(k)
  PROVE  IInv'
<1> DEFINE n == sink_id[k]
<1>1. sinks_ \in Seq(Sink \cup {NULL}) /\ recorders_count_ \in Int
      /\ sink_id \in [Sink -> 0..MaxSinks] /\ MaxSinks \in Nat
  BY ConstantAssumption DEF IInv, TypeOK, TypeSink, TypeConn
<1>2. sinks_' = [sinks_ EXCEPT ![n] = NULL] /\ n # 0 /\ sink_id' = [sink_id EXCEPT ![k] = 0]
  BY DEF RemoveSink
<1>3. n \in 1..MaxSinks  BY <1>1, <1>2
<1>4. n \in 1..Len(sinks_) /\ sinks_[n] = k
  BY <1>3 DEF IInv, SinkFacts, SinksAgree
<1>5. NULL \in Sink \cup {NULL} /\ NULL \notin Sink  BY ConstantAssumption
<1>6. /\ sinks_' \in Seq(Sink \cup {NULL}) /\ Len(sinks_') = Len(sinks_)
      /\ \A i \in 1..Len(sinks_) : sinks_'[i] = IF i = n THEN NULL ELSE sinks_[i]
  BY <1>1, <1>2, <1>4, <1>5, ExceptSeq
<1> HIDE DEF n
<1>7. TypeSink'
  <2>1. recorders_count_' \in Int  BY <1>1 DEF RemoveSink, Recorders
  <2> QED  BY <1>6, <2>1 DEF IInv, TypeOK, TypeSink
<1>8. \A j \in Sink : sink_id'[j] = IF j = k THEN 0 ELSE sink_id[j]
  BY <1>1, <1>2
<1>9. TypeConn'
  <2>1. sink_id' \in [Sink -> 0..MaxSinks]  BY <1>1, <1>2
  <2> QED  BY <2>1 DEF IInv, TypeOK, TypeConn, RemoveSink
<1>10. SinksAgree'
  <2> SUFFICES ASSUME NEW j \in Sink, NEW i \in 1..MaxSinks
               PROVE  sink_id'[j] = i <=> i \in 1..Len(sinks_') /\ sinks_'[i] = j
    BY DEF SinksAgree
  <2>1. sink_id[j] = i <=> i \in 1..Len(sinks_) /\ sinks_[i] = j
    BY DEF IInv, SinkFacts, SinksAgree
  <2>2. i # 0  OBVIOUS
  <2>3. CASE j = k  BY <1>5, <1>6, <1>8, <2>1, <2>2, <2>3 DEF n
  <2>4. CASE j # k  BY <1>4, <1>5, <1>6, <1>8, <2>1, <2>4
  <2> QED  BY <2>3, <2>4
<1>11. Counted'
  <2>1. Recorder \subseteq Sink  BY ConstantAssumption
  <2>2. Recording' = Recording \ {k}  BY <1>8, <2>1 DEF Recording
  <2>3. recorders_count_' = recorders_count_ - Recorders(k)
    BY DEF RemoveSink
  <2> QED  BY <1>2, <2>2, <2>3, RecordingChange DEF n
<1>12. Told'
  <2>1. Latest' = Latest /\ mixer_pc' = mixer_pc /\ mixed_dv' = mixed_dv
        /\ serial_num' = serial_num /\ seen' = seen
    BY DEF RemoveSink, mixer_vars, past_vars, Latest
  <2> QED  BY <1>8, <2>1 DEF IInv, SinkFacts, Told
<1>13. TypeRest' /\ TypeSource' /\ TypeQueue' /\ TypeClock' /\ TypeMixer'
  BY Unmoved DEF RemoveSink
<1>14. Ranges' /\ Holds' /\ SlotsAgree' /\ TallyNotStale' /\ CutAhead'
  BY UnmovedFacts
     DEF RemoveSink, source_vars, queue_vars, clock_vars, mixer_vars, past_vars
<1> QED  BY <1>7, <1>9, <1>10, <1>11, <1>12, <1>13, <1>14 DEF IInv, TypeOK, SinkFacts

-----------------------------------------------------------------------------------
\* After set_active of the sources of a mix, the ones told of it are in the mix.
LEMMA ActivatedType ==
  ASSUME IInv, NEW act \in [Source -> {"none", "video"}], NEW mix,
         NEW flag \in {"none", "video"}
  PROVE  Activated(act, mix, flag) \in [Source -> {"none", "video"}]
BY DEF Activated

\* The sources in the slots of a mix are the registered sources of the mix.
LEMMA ActivatedSource ==
  ASSUME IInv, NEW mix, mix.ids \subseteq 1..Len(sources_), NEW s \in Source
  PROVE  (\E id \in mix.ids : sources_[id].src = s) <=> source_id[s] \in mix.ids
<1>1. /\ MaxSources \in Nat /\ Len(sources_) \in Nat /\ Len(sources_) <= MaxSources
      /\ DOMAIN sources_ = 1..Len(sources_)
  BY LenProperties, ConstantAssumption DEF IInv, TypeOK, TypeSource
<1>2. mix.ids \subseteq Ids  BY <1>1 DEF Ids
<1>3. \A id \in mix.ids : source_id[s] = id <=> sources_[id].src = s
  BY <1>1, <1>2 DEF IInv, SlotsAgree
<1> QED  BY <1>3

\* set_video_mix keeps it: the sources of the old mix are put out before those of the new
\* are lit.
LEMMA SetVideoMixStep ==
  ASSUME IInv, NEW mix \in VideoMix, SetVideoMix(mix)
  PROVE  IInv'
<1>1. mix.ids \subseteq 1..Len(sources_)
      /\ settings_' = [settings_ EXCEPT !.video_mix = mix]
      /\ settings_ \in Settings
  BY DEF IInv, TypeOK, TypeSource, SetVideoMix
<1>2. mix \in [kind : Kind, ids : (SUBSET (Nat \ {0})) \ {{}}]  BY ConstantAssumption
<1>3. settings_' \in Settings /\ settings_'.video_mix = mix
      /\ settings_'.audio_source_id = settings_.audio_source_id
      /\ settings_'.cut_before = settings_.cut_before
  BY <1>1, <1>2 DEF Settings
<1>4. TypeSource'  BY <1>3 DEF IInv, TypeOK, TypeSource, SetVideoMix
<1> DEFINE inner == Activated(active, settings_.video_mix, "none")
<1>5. active \in [Source -> {"none", "video"}]  BY DEF IInv, TypeOK, TypeConn
<1>6. inner \in [Source -> {"none", "video"}]  BY <1>5, ActivatedType
<1>7. active' = Activated(inner, mix, "video")  BY DEF SetVideoMix
<1>8. TypeConn'
  <2>1. active' \in [Source -> {"none", "video"}]
    <3> HIDE DEF inner
    <3> QED  BY <1>6, <1>7, ActivatedType
  <2> QED  BY <2>1 DEF IInv, TypeOK, TypeConn, SetVideoMix
<1>9. Ranges'
  <2>1. SettingsFit'
    BY <1>1, <1>3 DEF IInv, Ranges, SettingsFit, SetVideoMix
  <2> QED  BY <2>1 DEF IInv, Ranges, SetVideoMix, queue_vars, clock_vars, InRange
<1>10. TallyNotStale'
  <2> SUFFICES ASSUME NEW s \in Source, source_id[s] # 0, active'[s] = "video"
               PROVE  source_id[s] \in mix.ids
    BY <1>3 DEF TallyNotStale, SetVideoMix
  <2>1. CASE \E id \in mix.ids : sources_[id].src = s
    BY <1>1, <2>1, ActivatedSource
  <2>2. CASE ~\E id \in mix.ids : sources_[id].src = s
    <3>1. inner[s] = "video"  BY <1>7, <2>2 DEF Activated
    <3>2. ~\E id \in settings_.video_mix.ids : sources_[id].src = s
      BY <3>1 DEF Activated
    <3>3. active[s] = "video"  BY <3>1, <3>2 DEF Activated
    <3>4. source_id[s] \in settings_.video_mix.ids  BY <3>3 DEF IInv, TallyNotStale
    <3>5. sources_[source_id[s]].src = s  BY SlotOf
    <3> QED  BY <3>2, <3>4, <3>5
  <2> QED  BY <2>1, <2>2
<1>11. CutAhead'
  BY <1>3 DEF IInv, CutAhead, QueueCut, FrontUsed, m, SetVideoMix, queue_vars, clock_vars,
     mixer_vars, past_vars
<1>12. TypeQueue' /\ TypeSink' /\ TypeClock' /\ TypeMixer' /\ TypeRest'
  BY Unmoved DEF SetVideoMix
<1>13. Holds' /\ SlotsAgree' /\ SinkFacts'
  BY UnmovedFacts DEF SetVideoMix, queue_vars, sink_vars, mixer_vars, past_vars
<1> QED  BY <1>4, <1>8, <1>9, <1>10, <1>11, <1>12, <1>13 DEF IInv, TypeOK

\* set_audio_source keeps it.
LEMMA SetAudioSourceStep ==
  ASSUME IInv, NEW id \in AudioId, SetAudioSource(id)
  PROVE  IInv'
<1>1. id \in 1..Len(sources_) /\ settings_' = [settings_ EXCEPT !.audio_source_id = id]
      /\ settings_ \in Settings
  BY DEF IInv, TypeOK, TypeSource, SetAudioSource
<1>2. id \in Nat \ {0}  BY ConstantAssumption
<1>3. settings_' \in Settings /\ settings_'.video_mix = settings_.video_mix
      /\ settings_'.audio_source_id = id
      /\ settings_'.cut_before = settings_.cut_before
  BY <1>1, <1>2 DEF Settings
<1>4. TypeSource'  BY <1>3 DEF IInv, TypeOK, TypeSource, SetAudioSource
<1>5. Ranges'
  <2>1. SettingsFit'
    BY <1>1, <1>3 DEF IInv, Ranges, SettingsFit, SetAudioSource
  <2> QED  BY <2>1 DEF IInv, Ranges, SetAudioSource, queue_vars, clock_vars, InRange
<1>6. TallyNotStale'  BY <1>3 DEF IInv, TallyNotStale, SetAudioSource, conn_vars
<1>7. CutAhead'
  BY <1>3 DEF IInv, CutAhead, QueueCut, FrontUsed, m, SetAudioSource, queue_vars, clock_vars,
     mixer_vars, past_vars
<1>8. TypeQueue' /\ TypeSink' /\ TypeClock' /\ TypeMixer' /\ TypeConn' /\ TypeRest'
  BY Unmoved DEF SetAudioSource
<1>9. Holds' /\ SlotsAgree' /\ SinkFacts'
  BY UnmovedFacts DEF SetAudioSource, queue_vars, sink_vars, mixer_vars, conn_vars, past_vars
<1> QED  BY <1>4, <1>5, <1>6, <1>7, <1>8, <1>9 DEF IInv, TypeOK

\* set_format keeps it.
LEMMA SetFormatStep ==
  ASSUME IInv, NEW f \in Format, SetFormat(f)
  PROVE  IInv'
<1>1. TypeSource'
  BY ConstantAssumption DEF IInv, TypeOK, TypeSource, Formats, SetFormat
<1>2. TypeQueue' /\ TypeSink' /\ TypeClock' /\ TypeMixer' /\ TypeConn'
  BY Unmoved DEF SetFormat
<1>4. TypeRest'  BY DEF IInv, TypeOK, TypeRest, SetFormat
<1>3. Ranges' /\ Holds' /\ SlotsAgree' /\ TallyNotStale' /\ SinkFacts' /\ CutAhead'
  BY UnmovedFacts
     DEF SetFormat, queue_vars, sink_vars, clock_vars, mixer_vars, conn_vars, past_vars
<1> QED  BY <1>1, <1>2, <1>3, <1>4 DEF IInv, TypeOK

\* enable_record keeps it.
LEMMA EnableRecordStep ==
  ASSUME IInv, NEW flag \in RecordFlag, EnableRecord(flag)
  PROVE  IInv'
<1>1. flag \in BOOLEAN /\ settings_ \in Settings
      /\ settings_' = [settings_ EXCEPT !.do_record = flag]
  BY ConstantAssumption DEF IInv, TypeOK, TypeSource, EnableRecord
<1>2. settings_' \in Settings /\ settings_'.video_mix = settings_.video_mix
      /\ settings_'.audio_source_id = settings_.audio_source_id
      /\ settings_'.cut_before = settings_.cut_before
  BY <1>1 DEF Settings
<1>3. TypeSource'  BY <1>2 DEF IInv, TypeOK, TypeSource, EnableRecord
<1>4. Ranges'
  BY <1>2 DEF IInv, Ranges, SettingsFit, InRange, EnableRecord, queue_vars, clock_vars
<1>5. TallyNotStale'  BY <1>2 DEF IInv, TallyNotStale, EnableRecord, conn_vars
<1>6. CutAhead'
  BY <1>2 DEF IInv, CutAhead, QueueCut, FrontUsed, m, EnableRecord, queue_vars, clock_vars,
     mixer_vars, past_vars
<1>7. TypeQueue' /\ TypeSink' /\ TypeClock' /\ TypeMixer' /\ TypeConn' /\ TypeRest'
  BY Unmoved DEF EnableRecord
<1>8. Holds' /\ SlotsAgree' /\ SinkFacts'
  BY UnmovedFacts DEF EnableRecord, queue_vars, sink_vars, mixer_vars, conn_vars, past_vars
<1> QED  BY <1>3, <1>4, <1>5, <1>6, <1>7, <1>8 DEF IInv, TypeOK

\* cut keeps it: the flag is in the settings.
LEMMA CutStep ==
  ASSUME IInv, Cut
  PROVE  IInv'
<1>1. settings_ \in Settings /\ settings_' = [settings_ EXCEPT !.cut_before = TRUE]
  BY DEF IInv, TypeOK, TypeSource, Cut
<1>2. settings_' \in Settings /\ settings_'.video_mix = settings_.video_mix
      /\ settings_'.audio_source_id = settings_.audio_source_id
      /\ settings_'.cut_before
  BY <1>1 DEF Settings
<1>3. TypeSource'  BY <1>2 DEF IInv, TypeOK, TypeSource, Cut
<1>4. TypeRest'  BY DEF IInv, TypeOK, TypeRest, Cut
<1>5. Ranges'
  BY <1>2 DEF IInv, Ranges, SettingsFit, InRange, Cut, queue_vars, clock_vars
<1>6. TallyNotStale'  BY <1>2 DEF IInv, TallyNotStale, Cut, conn_vars
<1>7. CutAhead'
  BY <1>2 DEF IInv, CutAhead, m, Cut, queue_vars, mixer_vars
<1>8. TypeQueue' /\ TypeSink' /\ TypeClock' /\ TypeMixer' /\ TypeConn'
  BY Unmoved DEF Cut
<1>9. Holds' /\ SlotsAgree' /\ SinkFacts'
  BY UnmovedFacts DEF Cut, queue_vars, sink_vars, mixer_vars, conn_vars
<1> QED  BY <1>3, <1>4, <1>5, <1>6, <1>7, <1>8, <1>9 DEF IInv, TypeOK

-----------------------------------------------------------------------------------
\* A sequence given by a function on 1..n.
LEMMA SeqOf ==
  ASSUME NEW S, NEW n \in Nat, NEW f \in [1..n -> S]
  PROVE  f \in Seq(S) /\ Len(f) = n
OBVIOUS

\* The start of the clock thread keeps it: the sources lit are those of the video mix.
LEMMA ClockStartStep ==
  ASSUME IInv, ClockStart
  PROVE  IInv'
<1>1. clock_pc = "start" /\ clock_pc' \in {"asleep", "select"} /\ clock_m' = clock_m
      /\ (clock_pc' \in Ticking => clock_state_ # "wait")
  BY DEF ClockStart, Ticking
<1>2. TypeClock'  BY <1>1 DEF IInv, TypeOK, TypeClock
<1>3. TypeConn'
  <2>1. active' \in [Source -> {"none", "video"}]
    BY ActivatedType DEF IInv, TypeOK, TypeConn, ClockStart
  <2> QED  BY <2>1 DEF IInv, TypeOK, TypeConn, ClockStart
<1>4. Ranges'
  BY <1>1 DEF IInv, Ranges, SettingsFit, InRange, ClockStart, source_vars, queue_vars
<1>5. TallyNotStale'
  <2> SUFFICES ASSUME NEW s \in Source, source_id[s] # 0, active'[s] = "video"
               PROVE  source_id[s] \in settings_.video_mix.ids
    BY DEF TallyNotStale, ClockStart, source_vars
  <2>1. CASE clock_state_ = "run" /\ \E id \in settings_.video_mix.ids : sources_[id].src = s
    <3>1. Len(sources_) >= 1 /\ Len(sources_) \in Nat
      BY <2>1, LenProperties DEF IInv, Ranges, TypeOK, TypeSource
    <3>2. 1 \in 1..Len(sources_)  BY <3>1
    <3>3. settings_.video_mix.ids \subseteq 1..Len(sources_)
      BY <3>2 DEF IInv, Ranges, SettingsFit
    <3> QED  BY <2>1, <3>3, ActivatedSource
  <2>2. CASE ~(clock_state_ = "run" /\ \E id \in settings_.video_mix.ids : sources_[id].src = s)
    <3>1. active'[s] = active[s]  BY <2>2 DEF ClockStart, Activated
    <3> QED  BY <3>1 DEF IInv, TallyNotStale
  <2> QED  BY <2>1, <2>2
<1>6. CutAhead'
  BY <1>1 DEF IInv, CutAhead, QueueCut, FrontUsed, m, ClockStart, source_vars, queue_vars,
     mixer_vars, past_vars
<1>7. TypeSource' /\ TypeQueue' /\ TypeSink' /\ TypeMixer' /\ TypeRest'
  BY Unmoved DEF ClockStart
<1>8. Holds' /\ SlotsAgree' /\ SinkFacts'
  BY UnmovedFacts DEF ClockStart, source_vars, queue_vars, sink_vars, mixer_vars, past_vars
<1> QED  BY <1>2, <1>3, <1>4, <1>5, <1>6, <1>7, <1>8 DEF IInv, TypeOK

\* The end of the clock thread keeps it.
LEMMA ClockStopStep ==
  ASSUME IInv, ClockStop
  PROVE  IInv'
<1>1. clock_pc = "select" /\ clock_pc' = "done" /\ clock_m' = clock_m
  BY DEF ClockStop
<1>2. TypeClock'  BY <1>1 DEF IInv, TypeOK, TypeClock
<1>3. Ranges'
  BY <1>1 DEF IInv, Ranges, SettingsFit, InRange, ClockStop, Ticking, source_vars, queue_vars
<1>4. CutAhead'
  BY <1>1 DEF IInv, CutAhead, QueueCut, FrontUsed, m, ClockStop, source_vars, queue_vars,
     mixer_vars, past_vars
<1>5. TypeSource' /\ TypeQueue' /\ TypeSink' /\ TypeMixer' /\ TypeConn' /\ TypeRest'
  BY Unmoved DEF ClockStop
<1>6. Holds' /\ SlotsAgree' /\ TallyNotStale' /\ SinkFacts'
  BY UnmovedFacts
     DEF ClockStop, source_vars, queue_vars, sink_vars, mixer_vars, conn_vars, past_vars
<1> QED  BY <1>2, <1>3, <1>4, <1>5, <1>6 DEF IInv, TypeOK

\* What a tick takes of a slot is a frame or nothing, and what it leaves is a slot.
LEMMA TakenLeft ==
  ASSUME NEW slot \in Slot
  PROVE  Taken(slot) \in Frame \cup {NULL} /\ Left(slot) \in Slot /\ Left(slot).src = slot.src
<1>1. slot.frames \in Seq(Frame)  BY DEF Slot
<1>2. slot.frames # <<>> => Head(slot.frames) \in Frame /\ Tail(slot.frames) \in Seq(Frame)
  BY <1>1
<1> QED  BY <1>2 DEF Taken, Left, Slot

\* A tick keeps it: the flag of a cut moves from the settings to clock_m.
LEMMA ClockSelectStep ==
  ASSUME IInv, ClockSelect
  PROVE  IInv'
<1> DEFINE n == Len(sources_)
           taken == [id \in 1..n |-> Taken(sources_[id])]
           left == [id \in 1..n |-> Left(sources_[id])]
<1>1. sources_ \in Seq(Slot) /\ n \in Nat /\ DOMAIN sources_ = 1..n /\ n <= MaxSources
      /\ \A id \in 1..n : sources_[id] \in Slot
  BY LenProperties, ElementOfSeq DEF IInv, TypeOK, TypeSource
<1>2. clock_m' = [source_frames |-> taken, format |-> format_, settings |-> settings_]
  BY <1>1 DEF ClockSelect, Selection
<1>3. sources_' = left  BY <1>1 DEF ClockSelect
<1>4. settings_' = [settings_ EXCEPT !.cut_before = FALSE] /\ settings_ \in Settings
      /\ clock_state_ # "stop" /\ ticks < MaxTicks /\ ticks' = ticks + 1
      /\ clock_pc = "select" /\ clock_pc' = "push"
  BY DEF IInv, TypeOK, TypeSource, ClockSelect
<1>5. settings_' \in Settings /\ settings_'.video_mix = settings_.video_mix
      /\ settings_'.audio_source_id = settings_.audio_source_id
      /\ settings_'.cut_before = FALSE
  BY <1>4 DEF Settings
<1>6. taken \in [1..n -> Frame \cup {NULL}] /\ left \in [1..n -> Slot]
      /\ \A id \in 1..n : left[id].src = sources_[id].src
  BY <1>1, TakenLeft
<1>7. taken \in Seq(Frame \cup {NULL}) /\ DOMAIN taken = 1..n
      /\ left \in Seq(Slot) /\ Len(left) = n /\ DOMAIN left = 1..n
  <2> HIDE DEF taken, left, n
  <2> QED  BY <1>1, <1>6, SeqOf
<1> HIDE DEF taken, left
<1>8. TypeSource'
  BY <1>1, <1>3, <1>5, <1>7 DEF IInv, TypeOK, TypeSource, ClockSelect
<1>9. TypeClock'
  <2>1. clock_m' \in MixData  BY <1>2, <1>4, <1>7 DEF IInv, TypeOK, TypeSource, MixData
  <2> QED  BY <1>4, <2>1 DEF TypeClock
<1>10. TypeRest'
  <2>1. ticks' \in 0..MaxTicks  BY <1>4, ConstantAssumption DEF IInv, TypeOK, TypeRest
  <2> QED  BY <2>1 DEF IInv, TypeOK, TypeRest, ClockSelect
<1>11. Ranges'
  <2>1. clock_state_ = "run" /\ n >= 1
    BY <1>4 DEF IInv, Ranges, Ticking, TypeOK, TypeSource, RunState
  <2>2. 1 \in 1..n  BY <1>1, <2>1
  <2>3. InRange(clock_m)'
    BY <1>2, <1>7, <2>2 DEF IInv, Ranges, SettingsFit, InRange
  <2>4. SettingsFit'  BY <1>3, <1>5, <1>7 DEF IInv, Ranges, SettingsFit
  <2> QED  BY <1>3, <1>7, <2>1, <2>3, <2>4 DEF IInv, Ranges, ClockSelect, queue_vars, InRange
<1>12. SlotsAgree'
  <2>1. DOMAIN sources_' = DOMAIN sources_
        /\ \A id \in DOMAIN sources_ : sources_'[id].src = sources_[id].src
    BY <1>1, <1>3, <1>6, <1>7
  <2> QED  BY <2>1 DEF IInv, SlotsAgree, ClockSelect, conn_vars
<1>13. TallyNotStale'  BY <1>5 DEF IInv, TallyNotStale, ClockSelect, conn_vars
<1>14. CutAhead'
  BY <1>2, <1>4, <1>5 DEF IInv, CutAhead, QueueCut, FrontUsed, m, ClockSelect, queue_vars,
     mixer_vars
<1>15. TypeQueue' /\ TypeSink' /\ TypeMixer' /\ TypeConn'
  BY Unmoved DEF ClockSelect
<1>16. Holds' /\ SinkFacts'
  BY UnmovedFacts DEF ClockSelect, queue_vars, sink_vars, mixer_vars, conn_vars
<1> QED  BY <1>8, <1>9, <1>10, <1>11, <1>12, <1>13, <1>14, <1>15, <1>16 DEF IInv, TypeOK

\* A push leaves the front of the queue, and everything else in it, where it was.
LEMMA PushedQueue ==
  ASSUME IInv, ClockPush
  PROVE  /\ mixer_queue_' \in Seq(MixData) /\ Len(mixer_queue_') <= mixer_queue_len
         /\ Len(mixer_queue_') = Len(mixer_queue_) + 1 /\ Len(mixer_queue_) \in Nat
         /\ mixer_queue_'[Len(mixer_queue_')] = clock_m
         /\ \A i \in 1..Len(mixer_queue_) : /\ i \in 1..Len(mixer_queue_')
                                            /\ mixer_queue_'[i] = mixer_queue_[i]
         /\ mixer_queue_ # <<>> => m' = m
         /\ holding => mixer_queue_ # <<>> /\ Len(mixer_queue_') # 1
<1>1. clock_m \in MixData
  BY DEF IInv, TypeOK, TypeClock, ClockPush
<1>2. mixer_queue_ \in Seq(MixData) /\ Len(mixer_queue_) \in Nat /\ mixer_queue_len \in Nat
  BY LenProperties, ConstantAssumption DEF IInv, TypeOK, TypeQueue
<1>3. mixer_queue_' = Append(mixer_queue_, clock_m) /\ Len(mixer_queue_) < mixer_queue_len
  BY DEF ClockPush
<1>4. /\ mixer_queue_' \in Seq(MixData) /\ Len(mixer_queue_') = Len(mixer_queue_) + 1
      /\ mixer_queue_'[Len(mixer_queue_')] = clock_m
      /\ \A i \in 1..Len(mixer_queue_) : mixer_queue_'[i] = mixer_queue_[i]
  BY <1>1, <1>2, <1>3
<1>5. Len(mixer_queue_') <= mixer_queue_len
      /\ \A i \in 1..Len(mixer_queue_) : i \in 1..Len(mixer_queue_')
  BY <1>2, <1>3, <1>4
<1>6. mixer_queue_ # <<>> => m' = m
  BY <1>1, <1>2, <1>3 DEF m
<1>7. holding => mixer_queue_ # <<>>  BY DEF IInv, Holds
<1>8. mixer_queue_ # <<>> => Len(mixer_queue_') # 1  BY <1>2, <1>4
<1> QED  BY <1>2, <1>4, <1>5, <1>6, <1>7, <1>8

\* The push of a set of frames keeps it: the flag of a cut moves into mixer_queue_.
LEMMA ClockPushStep ==
  ASSUME IInv, ClockPush
  PROVE  IInv'
<1>1. /\ mixer_queue_' \in Seq(MixData) /\ Len(mixer_queue_') <= mixer_queue_len
      /\ Len(mixer_queue_') = Len(mixer_queue_) + 1 /\ Len(mixer_queue_) \in Nat
      /\ mixer_queue_'[Len(mixer_queue_')] = clock_m
      /\ \A i \in 1..Len(mixer_queue_) : /\ i \in 1..Len(mixer_queue_')
                                         /\ mixer_queue_'[i] = mixer_queue_[i]
      /\ mixer_queue_ # <<>> => m' = m
      /\ holding => mixer_queue_ # <<>> /\ Len(mixer_queue_') # 1
  BY PushedQueue
<1>2. clock_pc = "push" /\ clock_pc' = "notify" /\ clock_m' = NULL /\ mixer_state_' = "run"
  BY DEF ClockPush
<1>3. TypeQueue'  BY <1>1, <1>2 DEF TypeQueue, RunState
<1>4. TypeClock'  BY <1>2 DEF TypeClock
<1>5. Ranges'
  <2>1. \A i \in 1..Len(mixer_queue_') : i \in 1..Len(mixer_queue_) \/ i = Len(mixer_queue_')
    BY <1>1
  <2>2. InRange(clock_m) /\ \A i \in 1..Len(mixer_queue_) : InRange(mixer_queue_[i])
    BY <1>2 DEF IInv, Ranges
  <2>3. \A i \in 1..Len(mixer_queue_') : InRange(mixer_queue_'[i])
    BY <1>1, <2>1, <2>2
  <2>4. \A i \in 1..Len(mixer_queue_') : InRange(mixer_queue_[i])'
    BY <2>3 DEF InRange
  <2> QED
    BY <1>2, <2>4 DEF IInv, Ranges, SettingsFit, ClockPush, source_vars, Ticking
<1>6. Holds'
  <2>1. mixer_queue_' # <<>>  BY <1>1
  <2> QED  BY <2>1 DEF IInv, Holds, ClockPush, mixer_vars
<1>7. CutAhead'
  <2>1. (mixer_pc = "sink" => mixed_dv.cut_before = m.settings.cut_before)'
    BY <1>1 DEF IInv, CutAhead, Holds, ClockPush, mixer_vars
  <2>2. FrontUsed' = FrontUsed /\ settings_' = settings_ /\ cut_due' = cut_due
        /\ dropped' = dropped
    BY DEF FrontUsed, ClockPush, mixer_vars, past_vars, source_vars
  <2>3. FrontUsed => holding  BY DEF FrontUsed, IInv, Holds
  <2>4. QueueCut => QueueCut'  BY <1>1, <2>2 DEF QueueCut
  <2>5. clock_m.settings.cut_before => QueueCut'
    <3>1. Len(mixer_queue_') \in 1..Len(mixer_queue_')  BY <1>1
    <3> QED  BY <1>1, <2>2, <2>3, <3>1 DEF QueueCut
  <2> QED  BY <2>1, <2>2, <2>4, <2>5 DEF IInv, CutAhead
<1>8. /\ TypeSource' /\ TypeSink' /\ TypeMixer' /\ TypeConn' /\ TypeRest'
  BY Unmoved DEF ClockPush
<1>9. SlotsAgree' /\ TallyNotStale' /\ SinkFacts'
  BY UnmovedFacts
     DEF ClockPush, source_vars, sink_vars, mixer_vars, conn_vars, past_vars
<1> QED  BY <1>3, <1>4, <1>5, <1>6, <1>7, <1>8, <1>9 DEF IInv, TypeOK

\* The notify after the push keeps the invariant.
LEMMA ClockNotifyStep ==
  ASSUME IInv, ClockNotify
  PROVE  IInv'
<1>1. clock_pc = "notify" /\ clock_pc' = "select" /\ clock_m' = clock_m
  BY DEF ClockNotify
<1>2. TypeClock'  BY <1>1 DEF IInv, TypeOK, TypeClock
<1>3. TypeMixer' /\ Holds' /\ SinkFacts' /\ CutAhead'
  BY <1>1, WakingMixer DEF ClockNotify, source_vars, queue_vars, conn_vars
<1>4. Ranges'
  BY <1>1 DEF IInv, Ranges, SettingsFit, InRange, ClockNotify, source_vars, queue_vars, Ticking
<1>5. /\ TypeSource' /\ TypeQueue' /\ TypeSink' /\ TypeConn' /\ TypeRest'
  BY Unmoved DEF ClockNotify
<1>6. SlotsAgree' /\ TallyNotStale'
  BY UnmovedFacts DEF ClockNotify, source_vars, conn_vars
<1> QED  BY <1>2, <1>3, <1>4, <1>5, <1>6 DEF IInv, TypeOK

\* A set of frames dropped is recorded, so nothing is claimed of a cut in it.
LEMMA ClockDropStep ==
  ASSUME IInv, ClockDrop
  PROVE  IInv'
<1>1. clock_pc = "push" /\ clock_pc' = "select" /\ clock_m' = NULL /\ dropped'
  BY DEF ClockDrop
<1>2. TypeClock'  BY <1>1 DEF TypeClock
<1>3. TypeRest'  BY DEF IInv, TypeOK, TypeRest, ClockDrop
<1>4. Ranges'
  BY <1>1 DEF IInv, Ranges, SettingsFit, InRange, ClockDrop, source_vars, queue_vars, Ticking
<1>5. CutAhead'  BY <1>1 DEF IInv, CutAhead, m, ClockDrop, queue_vars, mixer_vars
<1>6. /\ TypeSource' /\ TypeQueue' /\ TypeSink' /\ TypeMixer' /\ TypeConn'
  BY Unmoved DEF ClockDrop
<1>7. Holds' /\ SlotsAgree' /\ TallyNotStale' /\ SinkFacts'
  BY UnmovedFacts DEF ClockDrop, source_vars, queue_vars, sink_vars, mixer_vars, conn_vars
<1> QED  BY <1>2, <1>3, <1>4, <1>5, <1>6, <1>7 DEF IInv, TypeOK

-----------------------------------------------------------------------------------
\* The set of frames the mixer thread holds has what its settings name.
LEMMA Front ==
  ASSUME IInv, holding
  PROVE  /\ m \in MixData /\ InRange(m) /\ m = mixer_queue_[1]
         /\ Len(mixer_queue_) \in Nat \ {0}
<1>1. mixer_queue_ \in Seq(MixData) /\ mixer_queue_ # <<>>
  BY DEF IInv, TypeOK, TypeQueue, Holds
<1>2. Head(mixer_queue_) = mixer_queue_[1] /\ Len(mixer_queue_) \in Nat \ {0}
  BY <1>1
<1>3. 1 \in 1..Len(mixer_queue_)  BY <1>2
<1>4. m \in MixData  BY <1>1, <1>2, <1>3, ElementOfSeq DEF m
<1> QED  BY <1>2, <1>3, <1>4 DEF m, IInv, Ranges

\* The pop of the set of frames just used keeps it: the sinks have had its cut.
LEMMA MixerGetStep ==
  ASSUME IInv, MixerGet
  PROVE  IInv'
<1>1. mixer_queue_ \in Seq(MixData) /\ Len(mixer_queue_) \in Nat
      /\ Len(mixer_queue_) <= mixer_queue_len /\ mixer_queue_len \in Nat
  BY LenProperties, ConstantAssumption DEF IInv, TypeOK, TypeQueue
<1>2. mixer_queue_' = IF holding THEN Tail(mixer_queue_) ELSE mixer_queue_
  BY DEF MixerGet
<1>3. mixer_pc = "get" /\ \/ mixer_pc' = "done" /\ ~holding'
                          \/ mixer_pc' = "asleep" /\ ~holding' /\ mixer_queue_' = <<>>
                          \/ mixer_pc' = "mix" /\ holding' /\ mixer_queue_' # <<>>
  BY DEF MixerGet
<1>4. ASSUME holding
      PROVE  /\ mixer_queue_' \in Seq(MixData) /\ Len(mixer_queue_') = Len(mixer_queue_) - 1
             /\ \A i \in 1..Len(mixer_queue_') : /\ i + 1 \in 1..Len(mixer_queue_)
                                                 /\ mixer_queue_'[i] = mixer_queue_[i+1]
  <2>1. mixer_queue_ # <<>>  BY <1>4 DEF IInv, Holds
  <2>2. mixer_queue_' \in Seq(MixData) /\ Len(mixer_queue_') = Len(mixer_queue_) - 1
        /\ \A i \in 1..Len(mixer_queue_') : mixer_queue_'[i] = mixer_queue_[i+1]
    BY <1>1, <1>2, <1>4, <2>1, HeadTailProperties
  <2> QED  BY <1>1, <2>2
<1>5. ~holding => mixer_queue_' = mixer_queue_  BY <1>2
<1>6. mixer_queue_' \in Seq(MixData) /\ Len(mixer_queue_') <= mixer_queue_len
  <2>1. CASE holding  BY <1>1, <1>4, <2>1
  <2>2. CASE ~holding  BY <1>1, <1>5, <2>2
  <2> QED  BY <2>1, <2>2
<1>7. TypeQueue'  BY <1>6 DEF IInv, TypeOK, TypeQueue, MixerGet
<1>8. TypeMixer'
  BY <1>3 DEF IInv, TypeOK, TypeMixer, MixerGet
<1>9. Ranges'
  <2>1. \A i \in 1..Len(mixer_queue_') : InRange(mixer_queue_'[i])
    <3>1. CASE holding  BY <1>4, <3>1 DEF IInv, Ranges
    <3>2. CASE ~holding  BY <1>5, <3>2 DEF IInv, Ranges
    <3> QED  BY <3>1, <3>2
  <2>2. \A i \in 1..Len(mixer_queue_') : InRange(mixer_queue_[i])'
    BY <2>1 DEF InRange
  <2> QED  BY <2>2 DEF IInv, Ranges, SettingsFit, InRange, MixerGet, source_vars, clock_vars
<1>10. Holds'  BY <1>3 DEF Holds
<1>11. SinkFacts'
  BY <1>3 DEF IInv, SinkFacts, SinksAgree, Counted, Recording, Told, Latest, MixerGet,
     sink_vars, conn_vars, past_vars
<1>12. CutAhead'
  <2>1. ~FrontUsed' /\ mixer_pc' # "sink"  BY <1>3 DEF FrontUsed
  <2>2. QueueCut => QueueCut'
    <3>1. CASE holding
      <4> SUFFICES ASSUME NEW i \in 1..Len(mixer_queue_), i # 1,
                          mixer_queue_[i].settings.cut_before
                   PROVE  QueueCut'
        BY <1>3, <3>1 DEF QueueCut, FrontUsed
      <4>1. i - 1 \in 1..Len(mixer_queue_') /\ mixer_queue_'[i-1] = mixer_queue_[(i-1)+1]
            /\ (i - 1) + 1 = i
        BY <1>1, <1>4, <3>1
      <4> QED  BY <2>1, <4>1 DEF QueueCut
    <3>2. CASE ~holding  BY <1>5, <2>1, <3>2 DEF QueueCut
    <3> QED  BY <3>1, <3>2
  <2> QED  BY <2>1, <2>2 DEF IInv, CutAhead, MixerGet, source_vars, clock_vars, past_vars
<1>13. /\ TypeSource' /\ TypeSink' /\ TypeClock' /\ TypeConn' /\ TypeRest'
  BY Unmoved DEF MixerGet
<1>14. SlotsAgree' /\ TallyNotStale'
  BY UnmovedFacts DEF MixerGet, source_vars, conn_vars
<1> QED  BY <1>7, <1>8, <1>9, <1>10, <1>11, <1>12, <1>13, <1>14 DEF IInv, TypeOK

\* What the video mix makes of the source frames, or repeats.
LEMMA PicturedType ==
  ASSUME IInv, holding, Pictured # NULL
  PROVE  /\ Pictured.n \in 0..MaxFrames /\ Pictured.picture \in SUBSET (1..MaxFrames)
         /\ Pictured.system \in System /\ Pictured.audio \in 0..MaxFrames
<1> DEFINE ids == m.settings.video_mix.ids
           one == CHOOSE id \in ids : TRUE
           frames == m.source_frames
<1>1. /\ frames \in Seq(Frame \cup {NULL}) /\ m.settings \in Settings
      /\ ids \subseteq 1..Len(frames) /\ MaxFrames \in Nat
  BY Front, LenProperties, ConstantAssumption DEF MixData, InRange
<1>2. ids # {}  BY <1>1 DEF Settings
<1>3. one \in ids  BY <1>2
<1>4. CASE Applied # NULL
  <2>1. \A id \in ids : Usable(id)  BY <1>4 DEF Applied
  <2>2. \A id \in ids : frames[id] \in Frame /\ frames[id].system = m.format.system
    <3> SUFFICES ASSUME NEW id \in ids
                 PROVE  frames[id] \in Frame /\ frames[id].system = m.format.system
      OBVIOUS
    <3>1. frames[id] \in Frame \cup {NULL}  BY <1>1, ElementOfSeq
    <3> QED  BY <2>1, <3>1 DEF Usable
  <2>3. \A id \in ids : frames[id].n \in 1..MaxFrames /\ frames[id].system \in System
    BY <2>2 DEF Frame
  <2>4. m.format.system \in System /\ frames[one].system \in System /\ frames[one].n \in 1..MaxFrames
        /\ frames[one].n \in 0..MaxFrames /\ 0 \in 0..MaxFrames
    BY <1>1, <1>3, <2>2, <2>3
  <2>5. Applied = IF m.settings.video_mix.kind = "simple"
                  THEN [n |-> frames[one].n, picture |-> {frames[one].n},
                        system |-> frames[one].system, audio |-> frames[one].n]
                  ELSE [n |-> 0, picture |-> {frames[id].n : id \in ids},
                        system |-> m.format.system, audio |-> Silence]
    BY <2>1 DEF Applied
  <2>6. {frames[id].n : id \in ids} \in SUBSET (1..MaxFrames)
        /\ {frames[one].n} \in SUBSET (1..MaxFrames)
    BY <2>3, <2>4
  <2>7. Pictured = Applied  BY <1>4 DEF Pictured
  <2> HIDE DEF ids, one, frames
  <2>8. CASE m.settings.video_mix.kind = "simple"
    <3>1. /\ Applied.n = frames[one].n /\ Applied.picture = {frames[one].n}
          /\ Applied.system = frames[one].system /\ Applied.audio = frames[one].n
      BY <2>5, <2>8
    <3> QED  BY <2>4, <2>6, <2>7, <3>1
  <2>9. CASE m.settings.video_mix.kind # "simple"
    <3>1. /\ Applied.n = 0 /\ Applied.picture = {frames[id].n : id \in ids}
          /\ Applied.system = m.format.system /\ Applied.audio = 0
      BY <2>5, <2>9 DEF Silence
    <3> QED  BY <2>4, <2>6, <2>7, <3>1
  <2> QED  BY <2>8, <2>9
<1>5. CASE Applied = NULL
  <2>1. last_mixed_dv \in Mixed
    BY <1>5 DEF Pictured, IInv, TypeOK, TypeMixer
  <2>2. Pictured = [n |-> 0, picture |-> last_mixed_dv.picture,
                    system |-> last_mixed_dv.system, audio |-> last_mixed_dv.audio]
    BY <1>5 DEF Pictured
  <2>3. 0 \in 0..MaxFrames  BY <1>1
  <2> QED  BY <2>1, <2>2, <2>3 DEF Mixed
<1> QED  BY <1>4, <1>5

\* The audio of the mixed frame is that of a frame, or silence.
LEMMA AudioType ==
  ASSUME IInv, holding, Pictured # NULL
  PROVE  Audio \in 0..MaxFrames
<1>1. /\ m.source_frames \in Seq(Frame \cup {NULL}) /\ MaxFrames \in Nat
      /\ m.settings.audio_source_id \in 1..Len(m.source_frames)
  BY Front, LenProperties, ConstantAssumption DEF MixData, InRange
<1>2. audio_source_dv \in Frame \cup {NULL}  BY <1>1, ElementOfSeq DEF audio_source_dv
<1>3. AudioUsed => audio_source_dv.n \in 1..MaxFrames
  BY <1>2 DEF AudioUsed, Frame
<1>4. 0 \in 0..MaxFrames /\ Pictured.audio \in 0..MaxFrames
      /\ 1..MaxFrames \subseteq 0..MaxFrames
  BY <1>1, PicturedType
<1> QED  BY <1>3, <1>4 DEF Audio, Silence

\* The making of a mixed frame keeps it: the frame carries the cut of the front.
LEMMA MixerMixStep ==
  ASSUME IInv, MixerMix
  PROVE  IInv'
<1>1. holding /\ holding' = holding /\ mixer_pc = "mix" /\ mixer_pc' = "sink"
      /\ serial_num' = serial_num + 1 /\ last_mixed_dv' = mixed_dv'
  BY DEF IInv, Holds, MixerMix
<1>2. m.settings \in Settings /\ serial_num \in Nat
  BY <1>1, Front DEF MixData, IInv, TypeOK, TypeMixer
<1> DEFINE rec == m.settings.do_record
           cutb == m.settings.cut_before
<1>3. mixed_dv' = [n |-> Pictured.n, picture |-> Pictured.picture, system |-> Pictured.system,
                   audio |-> Audio, serial_num |-> serial_num, do_record |-> rec,
                   cut_before |-> cutb]
  BY DEF MixerMix
<1>4. mixed_dv' \in Mixed
  <2>1. rec \in BOOLEAN /\ cutb \in BOOLEAN  BY <1>2 DEF Settings
  <2>2. /\ Pictured.n \in 0..MaxFrames /\ Pictured.picture \in SUBSET (1..MaxFrames)
        /\ Pictured.system \in System /\ Audio \in 0..MaxFrames
    BY <1>1, PicturedType, AudioType DEF MixerMix
  <2> HIDE DEF rec, cutb
  <2> QED  BY <1>2, <1>3, <2>1, <2>2 DEF Mixed
<1>5. TypeMixer'
  BY <1>1, <1>2, <1>4 DEF IInv, TypeOK, TypeMixer
<1>6. Holds'  BY <1>1 DEF IInv, Holds, MixerMix, queue_vars
<1>7. SinkFacts'
  <2>1. mixed_dv'.serial_num = serial_num  BY <1>3
  <2>2. Latest' = Latest  BY <1>1, <1>2 DEF Latest
  <2>3. serial_num' - 1 = serial_num  BY <1>1, <1>2
  <2>4. Told'
    BY <1>1, <2>1, <2>2, <2>3 DEF IInv, SinkFacts, Told, MixerMix, conn_vars, past_vars
  <2> QED
    BY <2>4 DEF IInv, SinkFacts, SinksAgree, Counted, Recording, MixerMix, sink_vars, conn_vars
<1>8. CutAhead'
  <2>1. mixed_dv'.cut_before = m'.settings.cut_before
    BY <1>3 DEF MixerMix, queue_vars, m
  <2>2. ~FrontUsed' /\ mixer_queue_' = mixer_queue_
    BY <1>1 DEF FrontUsed, MixerMix, queue_vars
  <2>3. QueueCut => QueueCut'  BY <2>2 DEF QueueCut
  <2> QED
    BY <2>1, <2>3 DEF IInv, CutAhead, MixerMix, source_vars, clock_vars, past_vars
<1>9. /\ TypeSource' /\ TypeQueue' /\ TypeSink' /\ TypeClock' /\ TypeConn' /\ TypeRest'
  BY Unmoved DEF MixerMix
<1>10. Ranges' /\ SlotsAgree' /\ TallyNotStale'
  BY UnmovedFacts DEF MixerMix, source_vars, queue_vars, clock_vars, conn_vars
<1> QED  BY <1>5, <1>6, <1>7, <1>8, <1>9, <1>10 DEF IInv, TypeOK

\* The sinks that are handed a frame are the registered ones.
LEMMA RegisteredSinks ==
  ASSUME IInv, NEW k \in Sink
  PROVE  k \in Registered <=> sink_id[k] # 0
<1>1. /\ sink_id[k] \in 0..MaxSinks /\ MaxSinks \in Nat /\ Len(sinks_) \in Nat
      /\ Len(sinks_) <= MaxSinks /\ DOMAIN sinks_ = 1..Len(sinks_)
  BY LenProperties, ConstantAssumption DEF IInv, TypeOK, TypeConn, TypeSink
<1>2. 1..Len(sinks_) \subseteq 1..MaxSinks  BY <1>1
<1>3. \A i \in 1..MaxSinks : sink_id[k] = i <=> i \in 1..Len(sinks_) /\ sinks_[i] = k
  BY DEF IInv, SinkFacts, SinksAgree
<1>4. sink_id[k] # 0 => sink_id[k] \in 1..MaxSinks  BY <1>1
<1>5. \A i \in 1..MaxSinks : i # 0  BY <1>1
<1> QED  BY <1>1, <1>2, <1>3, <1>4, <1>5 DEF Registered

\* The put_frame of the sinks keeps it: each has been given the same frame.
LEMMA MixerSinkStep ==
  ASSUME IInv, MixerSink
  PROVE  IInv'
<1>1. mixer_pc = "sink" /\ mixer_pc' = "monitor" /\ holding /\ holding' = holding
      /\ mixed_dv' = mixed_dv /\ mixed_dv \in Mixed
  BY DEF IInv, Holds, MixerSink, TypeOK, TypeMixer
<1>2. mixed_dv.serial_num = serial_num - 1 /\ mixed_dv.serial_num \in Nat
      /\ mixed_dv.n \in 0..MaxFrames /\ MaxFrames \in Nat
  BY <1>1, ConstantAssumption DEF IInv, SinkFacts, Told, Mixed
<1>3. TypeMixer'  BY <1>1 DEF IInv, TypeOK, TypeMixer, MixerSink
<1>4. TypeRest'
  <2>1. seen' \in [Sink -> Int]  BY <1>2 DEF MixerSink, IInv, TypeOK, TypeRest
  <2>2. {mixed_dv.n} \ {0} \subseteq 1..MaxFrames  BY <1>2
  <2>3. shared' \subseteq 1..MaxFrames  BY <2>2 DEF MixerSink, IInv, TypeOK, TypeRest
  <2>4. cut_due' \in BOOLEAN  BY DEF MixerSink
  <2> QED  BY <2>1, <2>3, <2>4 DEF IInv, TypeOK, TypeRest, MixerSink
<1>5. Holds'  BY <1>1 DEF IInv, Holds, MixerSink, queue_vars
<1>6. SinkFacts'
  <2>1. Latest' = serial_num - 1  BY <1>1 DEF Latest, MixerSink
  <2>2. ASSUME NEW k \in Sink, sink_id'[k] # 0, seen'[k] # -1
        PROVE  seen'[k] = Latest'
    <3>1. k \in Registered  BY <2>2, RegisteredSinks DEF MixerSink, conn_vars
    <3>2. seen'[k] = mixed_dv.serial_num  BY <3>1 DEF MixerSink
    <3> QED  BY <1>2, <2>1, <3>2
  <2>3. Told'  BY <1>1, <2>2 DEF Told
  <2> QED
    BY <2>3 DEF IInv, SinkFacts, SinksAgree, Counted, Recording, MixerSink, sink_vars, conn_vars
<1>7. CutAhead'
  <2>1. mixer_queue_' = mixer_queue_ /\ FrontUsed' /\ mixer_pc' # "sink"
    BY <1>1 DEF MixerSink, queue_vars, FrontUsed
  <2>2. mixed_dv.cut_before = m.settings.cut_before /\ m = mixer_queue_[1]
    BY <1>1, Front DEF IInv, CutAhead
  <2>3. QueueCut /\ ~mixed_dv.cut_before => QueueCut'
    BY <2>1, <2>2 DEF QueueCut
  <2>4. cut_due' = (cut_due /\ ~mixed_dv.cut_before)  BY DEF MixerSink
  <2> QED  BY <2>1, <2>3, <2>4 DEF IInv, CutAhead, MixerSink, source_vars, clock_vars
<1>8. /\ TypeSource' /\ TypeQueue' /\ TypeSink' /\ TypeClock' /\ TypeConn'
  BY Unmoved DEF MixerSink
<1>9. Ranges' /\ SlotsAgree' /\ TallyNotStale'
  BY UnmovedFacts DEF MixerSink, source_vars, queue_vars, clock_vars, conn_vars
<1> QED  BY <1>3, <1>4, <1>5, <1>6, <1>7, <1>8, <1>9 DEF IInv, TypeOK

\* The put_frames of the monitor keeps it.
LEMMA MixerMonitorStep ==
  ASSUME IInv, MixerMonitor
  PROVE  IInv'
<1>1. mixer_pc = "monitor" /\ mixer_pc' = "get" /\ holding /\ holding' = holding
      /\ mixed_dv' = NULL /\ mixed_dv \in Mixed
  BY DEF IInv, Holds, MixerMonitor, TypeOK, TypeMixer
<1>2. TypeMixer'  BY <1>1 DEF IInv, TypeOK, TypeMixer, MixerMonitor
<1>3. TypeRest'
  <2> DEFINE frames == m.source_frames
             given == {frames[id] : id \in DOMAIN frames} \ {NULL}
  <2>1. mixed_dv.n \in 0..MaxFrames /\ MaxFrames \in Nat
    BY <1>1, ConstantAssumption DEF Mixed
  <2>2. {mixed_dv.n} \ {0} \subseteq 1..MaxFrames  BY <2>1
  <2>3. frames \in Seq(Frame \cup {NULL})  BY <1>1, Front DEF MixData
  <2>4. \A id \in DOMAIN frames : frames[id] \in Frame \cup {NULL}
    <3> HIDE DEF frames
    <3> QED  BY <2>3, ElementOfSeq, LenProperties
  <2>5. \A f \in given : f.n \in 1..MaxFrames  BY <2>4 DEF Frame
  <2>6. shared' = shared \cup ({mixed_dv.n} \ {0}) \cup {f.n : f \in given}
    BY DEF MixerMonitor
  <2> HIDE DEF given
  <2>7. shared' \subseteq 1..MaxFrames
    BY <2>2, <2>5, <2>6 DEF IInv, TypeOK, TypeRest
  <2> QED  BY <2>7 DEF IInv, TypeOK, TypeRest, MixerMonitor
<1>4. Holds'  BY <1>1 DEF IInv, Holds, MixerMonitor, queue_vars
<1>5. SinkFacts'
  <2>1. Latest' = Latest  BY <1>1 DEF Latest, MixerMonitor
  <2> QED
    BY <1>1, <2>1 DEF IInv, SinkFacts, SinksAgree, Counted, Recording, Told, MixerMonitor,
       sink_vars, conn_vars
<1>6. CutAhead'
  <2>1. FrontUsed' /\ FrontUsed /\ mixer_queue_' = mixer_queue_ /\ mixer_pc' # "sink"
    BY <1>1 DEF FrontUsed, MixerMonitor, queue_vars
  <2>2. QueueCut' <=> QueueCut  BY <2>1 DEF QueueCut
  <2> QED  BY <2>1, <2>2 DEF IInv, CutAhead, MixerMonitor, source_vars, clock_vars
<1>7. /\ TypeSource' /\ TypeQueue' /\ TypeSink' /\ TypeClock' /\ TypeConn'
  BY Unmoved DEF MixerMonitor
<1>8. Ranges' /\ SlotsAgree' /\ TallyNotStale'
  BY UnmovedFacts DEF MixerMonitor, source_vars, queue_vars, clock_vars, conn_vars
<1> QED  BY <1>2, <1>3, <1>4, <1>5, <1>6, <1>7, <1>8 DEF IInv, TypeOK
-----------------------------------------------------------------------------------
\* The steps of the destructor keep it.
LEMMA DestroyStep ==
  ASSUME IInv, Destroy
  PROVE  IInv'
<1>1. CASE DestroyClock
  <2>1. TypeClock' /\ (clock_pc' \in Ticking <=> clock_pc \in Ticking)
        /\ (clock_pc' = "push" <=> clock_pc = "push") /\ CutAhead'
    BY <1>1, WakingClock DEF DestroyClock
  <2>2. TypeSource'  BY <1>1 DEF IInv, TypeOK, TypeSource, RunState, DestroyClock
  <2>3. TypeRest'  BY <1>1 DEF IInv, TypeOK, TypeRest, DestroyClock, past_vars
  <2>4. Ranges'
    BY <1>1, <2>1 DEF IInv, Ranges, SettingsFit, InRange, DestroyClock, queue_vars
  <2>5. TypeQueue' /\ TypeSink' /\ TypeMixer' /\ TypeConn'
    BY <1>1, Unmoved DEF DestroyClock
  <2>6. Holds' /\ SlotsAgree' /\ TallyNotStale' /\ SinkFacts'
    BY <1>1, UnmovedFacts
       DEF DestroyClock, queue_vars, sink_vars, mixer_vars, conn_vars, past_vars
  <2> QED  BY <2>1, <2>2, <2>3, <2>4, <2>5, <2>6 DEF IInv, TypeOK
<1>2. CASE DestroyMixer
  <2>1. TypeMixer' /\ Holds' /\ SinkFacts' /\ CutAhead'
    BY <1>2, WakingMixer DEF DestroyMixer, source_vars, clock_vars, conn_vars
  <2>2. TypeQueue'  BY <1>2 DEF IInv, TypeOK, TypeQueue, RunState, DestroyMixer
  <2>3. TypeRest'  BY <1>2 DEF IInv, TypeOK, TypeRest, DestroyMixer, past_vars
  <2>4. TypeSource' /\ TypeSink' /\ TypeClock' /\ TypeConn'
    BY <1>2, Unmoved DEF DestroyMixer
  <2>5. Ranges' /\ SlotsAgree' /\ TallyNotStale'
    BY <1>2, UnmovedFacts DEF DestroyMixer, source_vars, clock_vars, conn_vars
  <2> QED  BY <2>1, <2>2, <2>3, <2>4, <2>5 DEF IInv, TypeOK
<1>3. CASE DestroyJoin
  <2>1. TypeRest'  BY <1>3 DEF IInv, TypeOK, TypeRest, DestroyJoin, past_vars
  <2>2. /\ TypeSource' /\ TypeQueue' /\ TypeSink' /\ TypeClock' /\ TypeMixer' /\ TypeConn'
    BY <1>3, Unmoved DEF DestroyJoin
  <2>3. Ranges' /\ Holds' /\ SlotsAgree' /\ TallyNotStale' /\ SinkFacts' /\ CutAhead'
    BY <1>3, UnmovedFacts DEF DestroyJoin, source_vars, queue_vars, sink_vars, clock_vars,
       mixer_vars, conn_vars, past_vars
  <2> QED  BY <2>1, <2>2, <2>3 DEF IInv, TypeOK
<1> QED  BY <1>1, <1>2, <1>3 DEF Destroy

\* Every step of the server, the operator, the threads and the destructor keeps the
\* invariant.
LEMMA NextInv ==
  ASSUME IInv, [Next]_vars
  PROVE  IInv'
<1>1. ASSUME NEW s \in Source, AddSource(s) \/ RemoveSource(s) \/ DropFrame(s)
      PROVE  IInv'
  BY <1>1, AddSourceStep, RemoveSourceStep, DropFrameStep
<1>2. ASSUME NEW s \in Source, NEW f \in FrameFormat, QueueFrame(s, f)  PROVE IInv'
  BY <1>2, QueueFrameStep
<1>3. ASSUME NEW k \in Sink, AddSink(k) \/ RemoveSink(k)  PROVE IInv'
  BY <1>3, AddSinkStep, RemoveSinkStep
<1>4. ASSUME Server PROVE IInv'
  BY <1>1, <1>2, <1>3, <1>4, NotifyClockStep DEF Server
<1>5. ASSUME Operator PROVE IInv'
  BY <1>5, SetVideoMixStep, SetAudioSourceStep, SetFormatStep, EnableRecordStep, CutStep
     DEF Operator
<1>6. ASSUME Clock PROVE IInv'
  BY <1>6, ClockStartStep, ClockStopStep, ClockSelectStep, ClockPushStep, ClockNotifyStep,
     ClockDropStep DEF Clock
<1>7. ASSUME MixerThread PROVE IInv'
  BY <1>7, MixerGetStep, MixerMixStep, MixerSinkStep, MixerMonitorStep DEF MixerThread
<1>8. ASSUME UNCHANGED vars PROVE IInv'
  <2>1. UNCHANGED <<source_vars, queue_vars, sink_vars, clock_vars, mixer_vars, conn_vars,
                    destroy_pc, notify_due, past_vars>>
    BY <1>8 DEF vars, source_vars, queue_vars, sink_vars, clock_vars, mixer_vars, conn_vars,
       past_vars
  <2>2. /\ TypeSource' /\ TypeQueue' /\ TypeSink' /\ TypeClock' /\ TypeMixer' /\ TypeConn'
        /\ TypeRest'
    BY <2>1, Unmoved
  <2>3. Ranges' /\ Holds' /\ SlotsAgree' /\ TallyNotStale' /\ SinkFacts' /\ CutAhead'
    BY <1>8, UnmovedFacts DEF vars
  <2> QED  BY <2>2, <2>3 DEF IInv, TypeOK
<1> QED  BY <1>4, <1>5, <1>6, <1>7, <1>8, DestroyStep DEF Next

-----------------------------------------------------------------------------------
\* The invariant holds in every state of every behaviour of the mixer.
THEOREM Invariance == Spec => []IInv
<1>1. Init => IInv  BY InitInv
<1>2. IInv /\ [Next]_vars => IInv'  BY NextInv
<1> QED  BY <1>1, <1>2, PTL DEF Spec

\* Every variable keeps its type, and the queues their bounds.
THEOREM TypeCorrect == Spec => []TypeOK
<1>1. IInv => TypeOK  BY DEF IInv
<1> QED  BY <1>1, Invariance, PTL

\* The assert of run_clock holds, and apply() reads inside source_frames, whatever the
\* operator selects and whoever comes and goes.
THEOREM SelectedInRange == Spec => []IdsInRange
<1>1. ASSUME IInv PROVE IdsInRange
  <2>1. /\ mixer_queue_ \in Seq(MixData) /\ Len(mixer_queue_) \in Nat
        /\ clock_pc = "push" => clock_m \in MixData
    BY <1>1, LenProperties DEF IInv, TypeOK, TypeQueue, TypeClock
  <2>2. CASE clock_pc = "push"
    <3>1. /\ Selected = mixer_queue_ \o <<clock_m>>
          /\ DOMAIN Selected = 1..Len(mixer_queue_) + 1
          /\ \A i \in 1..Len(mixer_queue_) + 1 :
               Selected[i] = IF i <= Len(mixer_queue_) THEN mixer_queue_[i] ELSE clock_m
      BY <2>1, <2>2 DEF Selected
    <3>2. \A i \in 1..Len(mixer_queue_) + 1 :
            i <= Len(mixer_queue_) => i \in 1..Len(mixer_queue_)
      BY <2>1
    <3>3. InRange(clock_m) /\ \A i \in 1..Len(mixer_queue_) : InRange(mixer_queue_[i])
      BY <1>1, <2>2 DEF IInv, Ranges
    <3> QED  BY <3>1, <3>2, <3>3 DEF IdsInRange
  <2>3. CASE clock_pc # "push"
    <3>1. Selected = mixer_queue_ /\ DOMAIN mixer_queue_ = 1..Len(mixer_queue_)
      BY <2>1, <2>3 DEF Selected
    <3> QED  BY <1>1, <3>1 DEF IInv, Ranges, IdsInRange
  <2> QED  BY <2>2, <2>3
<1> QED  BY <1>1, Invariance, PTL

\* &mixer_queue_.front(), used without the mutex, stays valid and unchanged.
THEOREM HeldFront == Spec => HeldFrontStable
<1> DEFINE A == holding /\ mixer_pc # "get" => mixer_queue_ # <<>> /\ m' = m
<1>1. ASSUME IInv, [Next]_vars PROVE [A]_<<mixer_queue_, mixer_pc>>
  <2> SUFFICES ASSUME holding, mixer_pc # "get" PROVE mixer_queue_ # <<>> /\ m' = m
    OBVIOUS
  <2>1. mixer_queue_ # <<>>  BY <1>1 DEF IInv, Holds
  <2>2. CASE ClockPush  BY <1>1, <2>1, <2>2, PushedQueue
  <2>3. CASE ~ClockPush
    <3>1. mixer_queue_' = mixer_queue_
      <4>1. Server => mixer_queue_' = mixer_queue_
        BY DEF Server, AddSource, RemoveSource, DropFrame, QueueFrame, AddSink, RemoveSink,
           NotifyClock, queue_vars
      <4>2. Operator => mixer_queue_' = mixer_queue_
        BY DEF Operator, SetVideoMix, SetAudioSource, SetFormat, EnableRecord, Cut, queue_vars
      <4>3. Clock => mixer_queue_' = mixer_queue_
        BY <2>3 DEF Clock, ClockStart, ClockStop, ClockSelect, ClockNotify, ClockDrop, queue_vars
      <4>4. MixerThread => mixer_queue_' = mixer_queue_
        <5>1. ~MixerGet  BY DEF MixerGet
        <5> QED  BY <5>1 DEF MixerThread, MixerMix, MixerSink, MixerMonitor, queue_vars
      <4>5. Destroy => mixer_queue_' = mixer_queue_
        BY DEF Destroy, DestroyClock, DestroyMixer, DestroyJoin, queue_vars
      <4> QED  BY <1>1, <4>1, <4>2, <4>3, <4>4, <4>5 DEF Next, vars
    <3> QED  BY <2>1, <3>1 DEF m
  <2> QED  BY <2>2, <2>3
<1>2. IInv /\ [Next]_vars => [A]_<<mixer_queue_, mixer_pc>>  BY <1>1
<1> QED  BY <1>2, Invariance, PTL DEF Spec, HeldFrontStable

\* A slot belongs to one registered source at a time.
THEOREM SlotsCorrect == Spec => []SlotsAgree
<1>1. IInv => SlotsAgree  BY DEF IInv
<1> QED  BY <1>1, Invariance, PTL

\* No source that left the video mix is left lit.
THEOREM TallyCorrect == Spec => []TallyNotStale
<1>1. IInv => TallyNotStale  BY DEF IInv
<1> QED  BY <1>1, Invariance, PTL

\* can_record counts the registered recorders, whatever the order in which they come and go.
THEOREM RecordersCorrect == Spec => []RecordersCounted
<1>1. IInv => RecordersCounted
  BY DEF IInv, SinkFacts, Counted, Recording, RecordersCounted
<1> QED  BY <1>1, Invariance, PTL

\* A cut asked for is in front of the sinks until they get it, unless a set of frames was
\* dropped.
THEOREM CutSafe == Spec => []CutKeptOrDropped
<1>1. ASSUME IInv PROVE CutKeptOrDropped
  <2> SUFFICES ASSUME cut_due, ~dropped PROVE CutOnItsWay
    BY DEF CutKeptOrDropped
  <2>1. /\ mixer_queue_ \in Seq(MixData) /\ Len(mixer_queue_) \in Nat
        /\ DOMAIN mixer_queue_ = 1..Len(mixer_queue_)
        /\ clock_pc = "push" => clock_m \in MixData
    BY <1>1, LenProperties DEF IInv, TypeOK, TypeQueue, TypeClock
  <2>2. CASE settings_.cut_before  BY <2>2 DEF CutOnItsWay
  <2>3. CASE clock_pc = "push" /\ clock_m.settings.cut_before
    <3> DEFINE n == Len(mixer_queue_) + 1
    <3>1. n \in DOMAIN Selected /\ Selected[n] = clock_m
      BY <2>1, <2>3 DEF Selected
    <3> QED  BY <2>3, <3>1 DEF CutOnItsWay
  <2>4. CASE QueueCut
    <3>1. PICK i \in 1..Len(mixer_queue_) : mixer_queue_[i].settings.cut_before
      BY <2>4 DEF QueueCut
    <3>2. i \in DOMAIN Selected /\ Selected[i] = mixer_queue_[i]
      <4>1. CASE clock_pc = "push"  BY <2>1, <4>1 DEF Selected
      <4>2. CASE clock_pc # "push"
        <5>1. Selected = mixer_queue_  BY <2>1, <4>2 DEF Selected
        <5> QED  BY <2>1, <5>1
      <4> QED  BY <4>1, <4>2
    <3> QED  BY <3>1, <3>2 DEF CutOnItsWay
  <2> QED  BY <1>1, <2>2, <2>3, <2>4 DEF IInv, CutAhead
<1> QED  BY <1>1, Invariance, PTL

\* A registered sink gets every mixed frame from its first on, once and in order.
THEOREM SinksInOrder == Spec => SinksConsecutive
<1> DEFINE A == \A k \in Sink : seen'[k] # seen[k] =>
                  \/ sink_id[k] = 0 /\ sink_id'[k] # 0 /\ seen'[k] = -1
                  \/ sink_id[k] # 0 /\ (seen[k] = -1 \/ seen'[k] = seen[k] + 1)
<1>1. ASSUME IInv, [Next]_vars PROVE [A]_vars
  <2> SUFFICES ASSUME NEW k \in Sink, seen'[k] # seen[k]
               PROVE  \/ sink_id[k] = 0 /\ sink_id'[k] # 0 /\ seen'[k] = -1
                      \/ sink_id[k] # 0 /\ (seen[k] = -1 \/ seen'[k] = seen[k] + 1)
    OBVIOUS
  <2>1. CASE \E j \in Sink : AddSink(j)
    <3>1. PICK j \in Sink : AddSink(j)  BY <2>1
    <3>2. seen \in [Sink -> Int] /\ sink_id \in [Sink -> 0..MaxSinks]
          /\ Len(sinks_) \in Nat
      BY <1>1, LenProperties DEF IInv, TypeOK, TypeRest, TypeConn, TypeSink
    <3>3. seen' = [seen EXCEPT ![j] = -1] /\ sink_id' = [sink_id EXCEPT ![j] = Len(sinks_) + 1]
          /\ sink_id[j] = 0
      BY <3>1 DEF AddSink
    <3>4. k = j  BY <3>2, <3>3
    <3> QED  BY <3>2, <3>3, <3>4
  <2>2. CASE MixerSink
    <3>1. k \in Registered /\ seen'[k] = mixed_dv.serial_num  BY <2>2 DEF MixerSink
    <3>2. sink_id[k] # 0  BY <1>1, <3>1, RegisteredSinks
    <3>3. mixed_dv.serial_num = serial_num - 1 /\ mixer_pc = "sink" /\ serial_num \in Nat
      BY <1>1, <2>2 DEF MixerSink, IInv, SinkFacts, Told, TypeOK, TypeMixer
    <3>4. seen[k] # -1 => seen[k] = serial_num - 2
      BY <1>1, <3>2, <3>3 DEF IInv, SinkFacts, Told, Latest
    <3> QED  BY <3>1, <3>2, <3>3, <3>4
  <2>3. CASE ~MixerSink /\ ~\E j \in Sink : AddSink(j)
    <3>1. Server => seen' = seen
      BY <2>3 DEF Server, AddSource, RemoveSource, DropFrame, QueueFrame, RemoveSink,
         NotifyClock, past_vars
    <3>2. Operator => seen' = seen
      BY DEF Operator, SetVideoMix, SetAudioSource, SetFormat, EnableRecord, Cut, past_vars
    <3>3. Clock => seen' = seen
      BY DEF Clock, ClockStart, ClockStop, ClockSelect, ClockPush, ClockNotify, ClockDrop,
         past_vars
    <3>4. MixerThread => seen' = seen
      BY <2>3 DEF MixerThread, MixerGet, MixerMix, MixerMonitor, past_vars
    <3>5. Destroy => seen' = seen
      BY DEF Destroy, DestroyClock, DestroyMixer, DestroyJoin, past_vars
    <3> QED  BY <1>1, <3>1, <3>2, <3>3, <3>4, <3>5 DEF Next, vars
  <2> QED  BY <2>1, <2>2, <2>3
<1>2. IInv /\ [Next]_vars => [A]_vars  BY <1>1
<1> QED  BY <1>2, Invariance, PTL DEF Spec, SinksConsecutive
=================================================================================

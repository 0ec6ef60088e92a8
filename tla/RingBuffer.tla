------------------------------- MODULE RingBuffer -------------------------------
(***************************************************************************)
(* The class template ring_buffer (ring_buffer.hpp): the queue behind each  *)
(* source of the mixer (4 frames), behind the mixer thread (10 sets of      *)
(* frames) and behind each sink connection (30 frames).                     *)
(*                                                                          *)
(* front_ and back_ are size_t counters that only grow and are reduced      *)
(* modulo the capacity when a slot is addressed, so they wrap at Word       *)
(* (2^32 or 2^64).  Raw marks a slot that holds no constructed object.      *)
(*                                                                          *)
(* A definition marked "slip" is no part of the specification: it is the    *)
(* one after it with a plausible mistake, which the properties must catch.  *)
(***************************************************************************)
EXTENDS Integers, Sequences

CONSTANTS Buffers,    \* the ring_buffer objects
          T,          \* the elements
          Raw,        \* a slot without an object in it
          Capacity,   \* capacity_, the same for all the buffers
          Word        \* the number of values of a size_t

ASSUME CapacityAssumption == Capacity \in Nat \ {0}
ASSUME WordAssumption == Word \in Nat /\ Capacity < Word
ASSUME RawAssumption == Raw \notin T

VARIABLES front_,     \* number of pops so far, modulo Word
          back_,      \* number of pushes so far, modulo Word
          buffer_     \* the slots

vars == <<front_, back_, buffer_>>

Slots == 0..Capacity - 1
Index == 0..Word - 1

Slot(i) == i % Capacity
At(b, k) == (front_[b] + k) % Word      \* the index of the k-th element, from 0

size(b)  == (back_[b] - front_[b]) % Word
empty(b) == front_[b] = back_[b]
full(b)  == size(b) = Capacity
front(b) == buffer_[b][Slot(front_[b])]
back(b)  == buffer_[b][Slot((back_[b] - 1) % Word)]

LiveSlots(b) == {Slot(At(b, k)) : k \in 0..size(b) - 1}

(***************************************************************************)
(* The counters of a capacity that does not divide Word lose their place    *)
(* when they wrap.  Such a buffer is followed up to its Word-th push.       *)
(***************************************************************************)
Wraps == Word % Capacity = 0
Room(b, n) == Wraps \/ back_[b] + n < Word
---------------------------------------------------------------------------------
Init == /\ front_  = [b \in Buffers |-> 0]
        /\ back_   = [b \in Buffers |-> 0]
        /\ buffer_ = [b \in Buffers |-> [s \in Slots |-> Raw]]

Push(b, v) == /\ ~full(b)                      \* assert(!full())
              /\ Room(b, 1)
              /\ buffer_' = [buffer_ EXCEPT ![b][Slot(back_[b])] = v]
              /\ back_' = [back_ EXCEPT ![b] = (@ + 1) % Word]
              /\ UNCHANGED front_

\* Slip: the element is not destroyed.
PopLeaks(b) == /\ ~empty(b)
               /\ front_' = [front_ EXCEPT ![b] = (@ + 1) % Word]
               /\ UNCHANGED <<back_, buffer_>>

Pop(b) == /\ ~empty(b)                         \* assert(!empty())
          /\ buffer_' = [buffer_ EXCEPT ![b][Slot(front_[b])] = Raw]
          /\ front_' = [front_ EXCEPT ![b] = (@ + 1) % Word]
          /\ UNCHANGED back_

\* Pops until the buffer is empty.
Reset(b) == /\ buffer_' = [buffer_ EXCEPT ![b] =
                             [s \in Slots |-> IF s \in LiveSlots(b) THEN Raw ELSE @[s]]]
            /\ front_' = [front_ EXCEPT ![b] = back_[b]]
            /\ UNCHANGED back_

\* Object k of q, read the way the copy loops read it: index modulo capacity_.
Element(q, k) == buffer_[q][Slot(At(q, k))]

\* Slip: the slots are copied as they are numbered.
CopyBySlot(p, q) ==
    /\ front_' = [front_ EXCEPT ![p] = 0]
    /\ back_'  = [back_ EXCEPT ![p] = size(q)]
    /\ buffer_' = [buffer_ EXCEPT ![p] =
                     [s \in Slots |-> IF s < size(q) THEN buffer_[q][s] ELSE Raw]]

\* The copy constructor, in the storage of p whose object is destroyed: what
\* growing the vector of sources does to every queue in it.
CopyConstruct(p, q) ==
    /\ front_' = [front_ EXCEPT ![p] = 0]
    /\ back_'  = [back_ EXCEPT ![p] = size(q)]
    /\ buffer_' = [buffer_ EXCEPT ![p] =
                     [s \in Slots |-> IF s < size(q) THEN Element(q, s) ELSE Raw]]

\* p = q: reset, then a push per element, from the index p had reached.
Assign(p, q) ==
    /\ p # q
    /\ Room(p, size(q))
    /\ front_' = [front_ EXCEPT ![p] = back_[p]]
    /\ back_'  = [back_ EXCEPT ![p] = (@ + size(q)) % Word]
    /\ buffer_' = [buffer_ EXCEPT ![p] = [s \in Slots |->
         IF \E k \in 0..size(q) - 1 : s = Slot((back_[p] + k) % Word)
         THEN Element(q, CHOOSE k \in 0..size(q) - 1 : s = Slot((back_[p] + k) % Word))
         ELSE IF s \in LiveSlots(p) THEN Raw ELSE @[s]]]

Exchange(f, p, q) == [f EXCEPT ![p] = f[q], ![q] = f[p]]

swap(p, q) == /\ front_'  = Exchange(front_, p, q)
              /\ back_'   = Exchange(back_, p, q)
              /\ buffer_' = Exchange(buffer_, p, q)

Next == \E p \in Buffers :
          \/ \E v \in T : Push(p, v)
          \/ Pop(p)
          \/ Reset(p)
          \/ \E q \in Buffers : CopyConstruct(p, q) \/ Assign(p, q) \/ swap(p, q)

Spec == Init /\ [][Next]_vars
---------------------------------------------------------------------------------
\* The counters stay in a word, and a slot holds an element or no object.
TypeOK == /\ front_  \in [Buffers -> Index]
          /\ back_   \in [Buffers -> Index]
          /\ buffer_ \in [Buffers -> [Slots -> T \cup {Raw}]]

\* Objects are constructed and destroyed in step: at any time the slots that hold
\* an object are exactly the size() slots from front_ on, so push never constructs
\* over a live frame (a leaked reference) and pop never destroys a dead one.
LiveExact == \A b \in Buffers :
               /\ size(b) <= Capacity
               /\ {s \in Slots : buffer_[b][s] # Raw} = LiveSlots(b)

\* A push becomes back() and leaves front() alone, also at the wrap and when it fills
\* the buffer: the mixer thread works on &mixer_queue_.front() without the lock while
\* the clock thread pushes.
PushEnds ==
    [][\A b \in Buffers, v \in T : Push(b, v) =>
         /\ back(b)' = v
         /\ ~empty(b) => front(b)' = front(b)]_vars

\* The contents of a buffer as a sequence, oldest first.
contents == [b \in Buffers |-> [k \in 1..size(b) |-> Element(b, k - 1)]]

Fifo == INSTANCE BoundedFifo WITH Queues <- Buffers, queue <- contents

\* A ring_buffer is a bounded first-in first-out queue, also after its counters have
\* wrapped, been copied or been exchanged.
ImplementsFifo == Fifo!Spec
=================================================================================

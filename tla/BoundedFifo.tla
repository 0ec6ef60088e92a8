------------------------------ MODULE BoundedFifo ------------------------------
(***************************************************************************)
(* What the queues of the program promise their users: each is a first-in   *)
(* first-out sequence of at most Capacity elements, that can be copied and  *)
(* exchanged with another.  ring_buffer.hpp is the implementation (module   *)
(* RingBuffer); the modules of the mixer and of the server use their        *)
(* queues only through these operations, as sequences.                      *)
(***************************************************************************)
EXTENDS Naturals, Sequences

CONSTANTS Queues,     \* the queue objects
          T,          \* the elements
          Capacity    \* the most elements a queue holds

VARIABLE queue

Init == queue = [q \in Queues |-> <<>>]

Push(q, v) == /\ Len(queue[q]) < Capacity
              /\ queue' = [queue EXCEPT ![q] = Append(@, v)]

Pop(q) == /\ queue[q] # <<>>
          /\ queue' = [queue EXCEPT ![q] = Tail(@)]

Reset(q) == queue' = [queue EXCEPT ![q] = <<>>]

Copy(p, q) == queue' = [queue EXCEPT ![p] = queue[q]]

Swap(p, q) == queue' = [queue EXCEPT ![p] = queue[q], ![q] = queue[p]]

Next == \E p \in Queues :
          \/ \E v \in T : Push(p, v)
          \/ Pop(p)
          \/ Reset(p)
          \/ \E q \in Queues : Copy(p, q) \/ Swap(p, q)

Spec == Init /\ [][Next]_queue
================================================================================

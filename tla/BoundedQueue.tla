--------------------------- MODULE BoundedQueue ---------------------------
(***************************************************************************)
(* What the lock-free queues of include/jellybean/concurrency promise to   *)
(* their users: a FIFO of at most Capacity elements, from which every      *)
(* successful pop takes the oldest element.  MpmcQueue and SpscQueue are   *)
(* shown to implement this specification.                                  *)
(***************************************************************************)
EXTENDS Naturals, Sequences

CONSTANTS Items,      \* the elements the producers push
          Consumers,  \* the threads that pop
          Capacity,   \* the size of the ring
          NoItem      \* what a consumer holds before its first pop

VARIABLES queue,  \* the elements in the queue, oldest first
          got     \* got[c]: the element of c's last successful pop

vars == <<queue, got>>

Init == /\ queue = <<>>
        /\ got = [c \in Consumers |-> NoItem]

Push(x) == /\ Len(queue) < Capacity
           /\ queue' = Append(queue, x)
           /\ UNCHANGED got

Pop(c) == /\ queue # <<>>
          /\ queue' = Tail(queue)
          /\ got' = [got EXCEPT ![c] = Head(queue)]

\* The queue's destructor discards what is left.
Clear == /\ queue' = <<>>
         /\ UNCHANGED got

Next == \/ \E x \in Items : Push(x)
        \/ \E c \in Consumers : Pop(c)
        \/ Clear

Spec == Init /\ [][Next]_vars
=============================================================================

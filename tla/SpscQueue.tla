----------------------------- MODULE SpscQueue -----------------------------
(***************************************************************************)
(* include/jellybean/concurrency/spsc_queue.hpp: the ring between one      *)
(* producer thread and one consumer thread.  head_ and tail_ are size_t    *)
(* and wrap around; every atomic access, the construction and the move of  *)
(* an element are steps of their own.                                      *)
(***************************************************************************)
EXTENDS Integers, Sequences

CONSTANTS Capacity,  \* template parameter Capacity, a power of two
          WordSize,  \* 2^64 in the code: the indices are taken modulo WordSize
          Items,
          NoItem     \* slot storage that holds no object

ASSUME SpscAssumption ==
    /\ Capacity \in Nat \ {0}
    /\ WordSize \in Nat
    /\ WordSize > Capacity + 1
    /\ WordSize % Capacity = 0
    /\ NoItem \notin Items

VARIABLES head,      \* head_
          tail,      \* tail_
          buffer,    \* buffer_[i].storage: the object in it, or NoItem
          producer,  \* where the producer is in emplace
          consumer,  \* where the consumer is in try_pop
          arg,       \* the element being pushed
          item,      \* the element of the last successful try_pop
          lifetime   \* "live" until the destructor has run

spscVars == <<head, tail, buffer, producer, consumer, arg, item, lifetime>>

\* buffer_[i & MASK]
RingSlot(i) == i % Capacity

Plus(i, n) == (i + n) % WordSize
Minus(i, j) == (i - j) % WordSize

SpscTypeOK ==
    /\ head \in 0 .. WordSize - 1
    /\ tail \in 0 .. WordSize - 1
    /\ buffer \in [0 .. Capacity - 1 -> Items \cup {NoItem}]
    /\ producer \in {"idle", "load", "construct", "publish"}
    /\ consumer \in {"idle", "load", "move", "release"}
    /\ arg \in Items \cup {NoItem}
    /\ item \in Items \cup {NoItem}
    /\ lifetime \in {"live", "destroyed"}

SpscInit ==
    /\ head = 0
    /\ tail = 0
    /\ buffer = [i \in 0 .. Capacity - 1 |-> NoItem]
    /\ producer = "idle"
    /\ consumer = "idle"
    /\ arg = NoItem
    /\ item = NoItem
    /\ lifetime = "live"

----------------------------------------------------------------------------
(* emplace: only the producer writes tail_, so t = tail_ throughout the call *)

EmplaceBegin(x) ==
    /\ lifetime = "live"
    /\ producer = "idle"
    /\ producer' = "load"
    /\ arg' = x
    /\ UNCHANGED <<head, tail, buffer, consumer, item, lifetime>>

RingFullOffByOne == Minus(tail, head) > Capacity   \* mutant: t - head for next - head

RingFullTooEarly == Minus(Plus(tail, 1), head) >= Capacity   \* mutant: one slot is never used

\* next - current_head > Capacity, with head_ loaded here
RingFull == Minus(Plus(tail, 1), head) > Capacity

EmplaceFull ==
    /\ producer = "load"
    /\ RingFull
    /\ producer' = "idle"
    /\ arg' = NoItem
    /\ UNCHANGED <<head, tail, buffer, consumer, item, lifetime>>

EmplaceHasRoom ==
    /\ producer = "load"
    /\ ~RingFull
    /\ producer' = "construct"
    /\ UNCHANGED <<head, tail, buffer, consumer, arg, item, lifetime>>

\* new (&buffer_[t & MASK].storage) T(...)
EmplaceConstruct ==
    /\ producer = "construct"
    /\ producer' = "publish"
    /\ buffer' = [buffer EXCEPT ![RingSlot(tail)] = arg]
    /\ UNCHANGED <<head, tail, consumer, arg, item, lifetime>>

\* tail_.store(next); return true
EmplacePublish ==
    /\ producer = "publish"
    /\ producer' = "idle"
    /\ tail' = Plus(tail, 1)
    /\ arg' = NoItem
    /\ UNCHANGED <<head, buffer, consumer, item, lifetime>>

----------------------------------------------------------------------------
(* try_pop: only the consumer writes head_ *)

TryPopBegin ==
    /\ lifetime = "live"
    /\ consumer = "idle"
    /\ consumer' = "load"
    /\ UNCHANGED <<head, tail, buffer, producer, arg, item, lifetime>>

\* h == tail_.load()
RingEmpty == head = tail

TryPopEmpty ==
    /\ consumer = "load"
    /\ RingEmpty
    /\ consumer' = "idle"
    /\ UNCHANGED <<head, tail, buffer, producer, arg, item, lifetime>>

TryPopHasItem ==
    /\ consumer = "load"
    /\ ~RingEmpty
    /\ consumer' = "move"
    /\ UNCHANGED <<head, tail, buffer, producer, arg, item, lifetime>>

AfterMove == NoItem

\* T item = std::move( *ptr ); ptr->~T()
TryPopMove ==
    /\ consumer = "move"
    /\ consumer' = "release"
    /\ item' = buffer[RingSlot(head)]
    /\ buffer' = [buffer EXCEPT ![RingSlot(head)] = AfterMove]
    /\ UNCHANGED <<head, tail, producer, arg, lifetime>>

\* head_.store(h + 1)
TryPopRelease ==
    /\ consumer = "release"
    /\ consumer' = "idle"
    /\ head' = Plus(head, 1)
    /\ UNCHANGED <<tail, buffer, producer, arg, item, lifetime>>

----------------------------------------------------------------------------
\* Where while (try_pop()) leaves the ring: the slots from head_ to tail_ are dead.
Drained == [i \in DOMAIN buffer |-> IF \E k \in 0 .. Minus(tail, head) - 1 : i = RingSlot(Plus(head, k))
                                    THEN NoItem ELSE buffer[i]]

\* ~SpscQueue, when neither thread uses the queue any more.
Destroy ==
    /\ lifetime = "live"
    /\ producer = "idle"
    /\ consumer = "idle"
    /\ lifetime' = "destroyed"
    /\ buffer' = Drained
    /\ head' = tail
    /\ UNCHANGED <<tail, producer, consumer, arg, item>>

SpscNext == \/ \E x \in Items : EmplaceBegin(x)
        \/ EmplaceFull \/ EmplaceHasRoom \/ EmplaceConstruct \/ EmplacePublish
        \/ TryPopBegin \/ TryPopEmpty \/ TryPopHasItem \/ TryPopMove \/ TryPopRelease
        \/ Destroy

SpscSpec == SpscInit /\ [][SpscNext]_spscVars
----------------------------------------------------------------------------
(* Properties *)

\* The oldest element that has not been moved out yet.
Oldest == IF consumer = "release" THEN Plus(head, 1) ELSE head

(* emplace and try_pop are the Push and the Pop of a bounded FIFO: they take *)
(* effect when tail_ is stored and when the element is moved out.            *)
RingElements == [k \in 1 .. Minus(tail, Oldest) |-> buffer[RingSlot(Plus(Oldest, k - 1))]]
LastPopped == [c \in {"consumer"} |-> item]

Abstract == INSTANCE BoundedQueue WITH
    Consumers <- {"consumer"}, queue <- RingElements, got <- LastPopped

AbstractSpec == Abstract!Spec

(* emplace refuses an element only when none fits: as many as the capacity are *)
(* in the ring, one of which the consumer may have moved out without having    *)
(* stored head_ yet.  A FIFO that refuses whenever it likes refines the        *)
(* abstract one as well.                                                       *)
RefusalStep == producer = "load" /\ producer' = "idle" =>
    Len(RingElements) = IF consumer = "release" THEN Capacity - 1 ELSE Capacity
RefusesWhenFull == [][RefusalStep]_spscVars
=============================================================================

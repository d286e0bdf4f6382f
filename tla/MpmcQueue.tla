----------------------------- MODULE MpmcQueue -----------------------------
(***************************************************************************)
(* include/jellybean/concurrency/mpmc_queue.hpp: the bounded lock-free     *)
(* ring shared by several producers and consumers.  Every atomic access is *)
(* one step, and so are the construction and the move of an element, so    *)
(* threads interleave between the claim of a ticket, the access to the     *)
(* slot and the publication of the slot's sequence number.                 *)
(*                                                                         *)
(* A load that C++ allows to return an older value is covered by the       *)
(* thread having made it earlier: nothing forces a thread to act at once   *)
(* on what it has read.                                                    *)
(***************************************************************************)
EXTENDS Integers, Sequences

CONSTANTS Producers,  \* threads that call try_push / emplace
          Consumers,  \* threads that call try_pop
          Capacity,   \* template parameter Capacity
          Items,      \* the elements pushed
          MaxTickets, \* bound: no emplace begins once this many tickets are out
          NoItem      \* slot storage that holds no object

ASSUME CapacityAssumption == Capacity \in Nat /\ Capacity >= 2
ASSUME MaxTicketsAssumption == MaxTickets \in Nat
ASSUME ThreadsAssumption == Producers \cap Consumers = {}

ASSUME NoItemAssumption == NoItem \notin Items

Threads == Producers \cup Consumers

VARIABLES sequence,     \* slots_[i].sequence
          storage,      \* slots_[i].storage: the object in it, or NoItem
          enqueue_pos,
          dequeue_pos,
          pc,           \* where each thread is in emplace / try_pop
          pos,          \* each thread's local pos
          item,         \* a producer's argument; a consumer's result
          log,          \* history: the elements, in the order of their tickets
          lifetime      \* "live" until the destructor has run

vars == <<sequence, storage, enqueue_pos, dequeue_pos, pc, pos, item, log, lifetime>>

PushLabels == {"idle", "load", "cas", "construct", "publish"}
PopLabels  == {"idle", "load", "cas", "move", "release"}

\* slots_[pos & MASK]
Slot(p) == p % Capacity

TypeOK ==
    /\ sequence \in [0 .. Capacity - 1 -> Nat]
    /\ storage \in [0 .. Capacity - 1 -> Items \cup {NoItem}]
    /\ enqueue_pos \in Nat
    /\ dequeue_pos \in Nat
    /\ pc \in [Threads -> PushLabels \cup PopLabels]
    /\ \A p \in Producers : pc[p] \in PushLabels
    /\ \A c \in Consumers : pc[c] \in PopLabels
    /\ pos \in [Threads -> Nat]
    /\ item \in [Threads -> Items \cup {NoItem}]
    /\ log \in Seq(Items)
    /\ lifetime \in {"live", "destroyed"}

Init ==
    /\ sequence = [i \in 0 .. Capacity - 1 |-> i]
    /\ storage = [i \in 0 .. Capacity - 1 |-> NoItem]
    /\ enqueue_pos = 0
    /\ dequeue_pos = 0
    /\ pc = [t \in Threads |-> "idle"]
    /\ pos = [t \in Threads |-> 0]
    /\ item = [t \in Threads |-> NoItem]
    /\ log = <<>>
    /\ lifetime = "live"

Goto(t, from, to) == pc[t] = from /\ pc' = [pc EXCEPT ![t] = to]

\* The call returns: its local pos (and a producer's argument) go out of scope.
Return(t, from) == Goto(t, from, "idle") /\ pos' = [pos EXCEPT ![t] = 0]

----------------------------------------------------------------------------
(* emplace *)

PushDiffOffByOne(p) == sequence[Slot(p)] - p - 1  \* mutant

\* diff, from the slot's sequence number and the ticket p
PushDiff(p) == sequence[Slot(p)] - p

PublishedTurnUnchanged(p) == p  \* mutant

PublishedTurn(p) == p + 1

\* The call: pos = enqueue_pos_.load().
EmplaceBegin(p) ==
    /\ lifetime = "live"
    /\ enqueue_pos < MaxTickets
    /\ Goto(p, "idle", "load")
    /\ \E x \in Items : item' = [item EXCEPT ![p] = x]
    /\ pos' = [pos EXCEPT ![p] = enqueue_pos]
    /\ UNCHANGED <<sequence, storage, enqueue_pos, dequeue_pos, log, lifetime>>

\* seq = slot.sequence.load(), diff == 0: try the CAS.
EmplaceReady(p) ==
    /\ PushDiff(pos[p]) = 0
    /\ Goto(p, "load", "cas")
    /\ UNCHANGED <<sequence, storage, enqueue_pos, dequeue_pos, pos, item, log, lifetime>>

\* diff < 0: return false.
EmplaceFull(p) ==
    /\ PushDiff(pos[p]) < 0
    /\ Return(p, "load")
    /\ item' = [item EXCEPT ![p] = NoItem]
    /\ UNCHANGED <<sequence, storage, enqueue_pos, dequeue_pos, log, lifetime>>

\* diff > 0: another thread took the slot; reload enqueue_pos_.
EmplaceReload(p) ==
    /\ PushDiff(pos[p]) > 0
    /\ Goto(p, "load", "load")
    /\ pos' = [pos EXCEPT ![p] = enqueue_pos]
    /\ UNCHANGED <<sequence, storage, enqueue_pos, dequeue_pos, item, log, lifetime>>

\* compare_exchange_weak succeeds.
EmplaceClaim(p) ==
    /\ enqueue_pos = pos[p]
    /\ Goto(p, "cas", "construct")
    /\ enqueue_pos' = enqueue_pos + 1
    /\ log' = Append(log, item[p])
    /\ UNCHANGED <<sequence, storage, dequeue_pos, pos, item, lifetime>>

\* compare_exchange_weak fails, spuriously or not: it stores enqueue_pos_ into pos.
EmplaceClaimFails(p) ==
    /\ Goto(p, "cas", "load")
    /\ pos' = [pos EXCEPT ![p] = enqueue_pos]
    /\ UNCHANGED <<sequence, storage, enqueue_pos, dequeue_pos, item, log, lifetime>>

\* new (&slot.storage) T(...)
EmplaceConstruct(p) ==
    /\ Goto(p, "construct", "publish")
    /\ storage' = [storage EXCEPT ![Slot(pos[p])] = item[p]]
    /\ UNCHANGED <<sequence, enqueue_pos, dequeue_pos, pos, item, log, lifetime>>

\* slot.sequence.store(pos + 1); return true.
EmplacePublish(p) ==
    /\ Return(p, "publish")
    /\ item' = [item EXCEPT ![p] = NoItem]
    /\ sequence' = [sequence EXCEPT ![Slot(pos[p])] = PublishedTurn(pos[p])]
    /\ UNCHANGED <<storage, enqueue_pos, dequeue_pos, log, lifetime>>

----------------------------------------------------------------------------
(* try_pop *)

PopDiffOffByOne(p) == sequence[Slot(p)] - (p + 2)  \* mutant

PopDiff(p) == sequence[Slot(p)] - (p + 1)

PopCasBlind(p) == TRUE  \* mutant: a plain increment

\* compare_exchange_weak finds the value it expects
PopCas(p) == dequeue_pos = p

AfterMoveAlive(x) == x  \* mutant: ~T() is not called

AfterMove(x) == NoItem

ReleasedTurnBackwards(p) == p - Capacity  \* mutant

\* pos + MASK + 1: the producers' next turn
ReleasedTurn(p) == p + Capacity

\* The call: pos = dequeue_pos_.load().
TryPopBegin(c) ==
    /\ lifetime = "live"
    /\ Goto(c, "idle", "load")
    /\ pos' = [pos EXCEPT ![c] = dequeue_pos]
    /\ UNCHANGED <<sequence, storage, enqueue_pos, dequeue_pos, item, log, lifetime>>

TryPopReady(c) ==
    /\ PopDiff(pos[c]) = 0
    /\ Goto(c, "load", "cas")
    /\ UNCHANGED <<sequence, storage, enqueue_pos, dequeue_pos, pos, item, log, lifetime>>

\* diff < 0: return nullopt.
TryPopEmpty(c) ==
    /\ PopDiff(pos[c]) < 0
    /\ Return(c, "load")
    /\ UNCHANGED <<sequence, storage, enqueue_pos, dequeue_pos, item, log, lifetime>>

TryPopReload(c) ==
    /\ PopDiff(pos[c]) > 0
    /\ Goto(c, "load", "load")
    /\ pos' = [pos EXCEPT ![c] = dequeue_pos]
    /\ UNCHANGED <<sequence, storage, enqueue_pos, dequeue_pos, item, log, lifetime>>

TryPopClaim(c) ==
    /\ PopCas(pos[c])
    /\ Goto(c, "cas", "move")
    /\ dequeue_pos' = dequeue_pos + 1
    /\ UNCHANGED <<sequence, storage, enqueue_pos, pos, item, log, lifetime>>

TryPopClaimFails(c) ==
    /\ Goto(c, "cas", "load")
    /\ pos' = [pos EXCEPT ![c] = dequeue_pos]
    /\ UNCHANGED <<sequence, storage, enqueue_pos, dequeue_pos, item, log, lifetime>>

\* T item = std::move(*ptr); ptr->~T().
TryPopMove(c) ==
    /\ Goto(c, "move", "release")
    /\ item' = [item EXCEPT ![c] = storage[Slot(pos[c])]]
    /\ storage' = [storage EXCEPT ![Slot(pos[c])] = AfterMove(@)]
    /\ UNCHANGED <<sequence, enqueue_pos, dequeue_pos, pos, log, lifetime>>

\* slot.sequence.store(pos + MASK + 1); return item.
TryPopRelease(c) ==
    /\ Return(c, "release")
    /\ sequence' = [sequence EXCEPT ![Slot(pos[c])] = ReleasedTurn(pos[c])]
    /\ UNCHANGED <<storage, enqueue_pos, dequeue_pos, item, log, lifetime>>

----------------------------------------------------------------------------
\* The tickets ~MpmcQueue pops when its first unpublished ticket is t.
Drained(t) == dequeue_pos .. t - 1

\* ~MpmcQueue: no call is under way; try_pop until it returns nullopt.
Destroy ==
    /\ lifetime = "live"
    /\ \A t \in Threads : pc[t] = "idle"
    /\ lifetime' = "destroyed"
    /\ \E t \in dequeue_pos .. dequeue_pos + Capacity :
          /\ \A u \in Drained(t) : PopDiff(u) = 0
          /\ t < dequeue_pos + Capacity => PopDiff(t) < 0
          /\ dequeue_pos' = t
          /\ storage' = [i \in DOMAIN storage |->
                IF \E u \in Drained(t) : Slot(u) = i THEN AfterMove(storage[i]) ELSE storage[i]]
          /\ sequence' = [i \in DOMAIN sequence |->
                IF \E u \in Drained(t) : Slot(u) = i THEN ReleasedTurn(sequence[i] - 1)
                                                    ELSE sequence[i]]
    /\ UNCHANGED <<enqueue_pos, pc, pos, item, log>>

Emplace(p) ==
    \/ EmplaceBegin(p) \/ EmplaceReady(p) \/ EmplaceFull(p) \/ EmplaceReload(p)
    \/ EmplaceClaim(p) \/ EmplaceClaimFails(p) \/ EmplaceConstruct(p) \/ EmplacePublish(p)

TryPop(c) ==
    \/ TryPopBegin(c) \/ TryPopReady(c) \/ TryPopEmpty(c) \/ TryPopReload(c)
    \/ TryPopClaim(c) \/ TryPopClaimFails(c) \/ TryPopMove(c) \/ TryPopRelease(c)

Next == \/ \E p \in Producers : Emplace(p)
        \/ \E c \in Consumers : TryPop(c)
        \/ Destroy

Spec == Init /\ [][Next]_vars

(* Every thread inside a call keeps running, and a CAS that could succeed   *)
(* again and again does not always fail spuriously.  Consumers poll.        *)
Fairness ==
    /\ \A p \in Producers : WF_vars(pc[p] # "idle" /\ Emplace(p)) /\ SF_vars(EmplaceClaim(p))
    /\ \A c \in Consumers : WF_vars(TryPop(c)) /\ SF_vars(TryPopClaim(c))

FairSpec == Spec /\ Fairness
----------------------------------------------------------------------------
(* Properties *)

\* The threads that access the non-atomic storage of slot i, or still own it.
Owners(i) == {t \in Threads : pc[t] \in {"construct", "publish", "move", "release"}
                              /\ Slot(pos[t]) = i}

(* The protocol of sequence numbers gives each slot to one thread at a time: *)
(* no construction or move of an element races with another access to the   *)
(* same storage.                                                            *)
SlotExclusive == \A i \in 0 .. Capacity - 1 :
                    \A s, t \in Owners(i) : s = t

(* A consumer moves from a constructed object, the one that was pushed with *)
(* its ticket, and a producer constructs into storage that holds no object. *)
NoOverwrite ==
    /\ \A p \in Producers : pc[p] = "construct" => storage[Slot(pos[p])] = NoItem
    /\ \A c \in Consumers : pc[c] = "move" => storage[Slot(pos[c])] = log[pos[c] + 1]

(* emplace returns false only when every slot is taken: it holds an element,*)
(* or the consumer that popped it has not handed the slot back yet.         *)
FullStep == \A p \in Producers :
    pc[p] = "load" /\ pc'[p] = "idle" =>
        \/ enqueue_pos - dequeue_pos = Capacity
        \/ \E c \in Consumers : /\ pc[c] \in {"move", "release"}
                                /\ pos[c] = enqueue_pos - Capacity

FullIsFull == [][FullStep]_vars

(* try_pop returns nullopt only when there is nothing to take: no element,  *)
(* or the oldest one is still being constructed by its producer.            *)
EmptyStep == \A c \in Consumers :
    pc[c] = "load" /\ pc'[c] = "idle" =>
        \/ enqueue_pos = dequeue_pos
        \/ \E p \in Producers : /\ pc[p] \in {"construct", "publish"}
                                /\ pos[p] = dequeue_pos

EmptyIsEmpty == [][EmptyStep]_vars

(* The destructor's drain leaves no object alive in the ring.               *)
DestroyedIsEmpty == lifetime = "destroyed" => \A i \in 0 .. Capacity - 1 : storage[i] = NoItem

(* The queue implements the bounded FIFO.  Both operations take effect at   *)
(* their successful CAS; what a consumer got is what it finds in storage.   *)
Elements == [i \in 1 .. enqueue_pos - dequeue_pos |-> log[dequeue_pos + i]]
Received == [c \in Consumers |->
                IF pc[c] = "move" THEN storage[Slot(pos[c])] ELSE item[c]]

Abstract == INSTANCE BoundedQueue WITH queue <- Elements, got <- Received

(* Every behaviour of the ring, with its interleaved claims, constructions   *)
(* and publications, is a behaviour of the bounded FIFO.                     *)
AbstractSpec == Abstract!Spec

(* No ticket is stranded: once the producers pause, polling consumers take  *)
(* every element, whatever CAS attempts fail on the way.                    *)
AlwaysDrained == []<>(dequeue_pos = enqueue_pos)
=============================================================================

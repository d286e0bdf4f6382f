-------------------------- MODULE MpmcQueueProofs --------------------------
(***************************************************************************)
(* Proofs about MpmcQueue for any number of producers and consumers, any   *)
(* capacity of at least two and any number of tickets.                     *)
(***************************************************************************)
EXTENDS MpmcQueue, TLAPS

(* pos & MASK is an index of the slot array. *)
LEMMA SlotInRange == \A t \in Nat : Slot(t) \in 0 .. Capacity - 1
  BY CapacityAssumption DEF Slot

(* Two tickets less than one turn of the ring apart never share a slot. *)
LEMMA SlotInjective ==
  \A a, b \in Nat : Slot(a) = Slot(b) /\ a <= b /\ b < a + Capacity => a = b
<1> SUFFICES ASSUME NEW a \in Nat, NEW b \in Nat,
                    Slot(a) = Slot(b), a <= b, b < a + Capacity
             PROVE  a = b
  OBVIOUS
<1> DEFINE qa == a \div Capacity
           qb == b \div Capacity
<1>1. qa \in Int /\ qb \in Int
  BY CapacityAssumption
<1>2. a = (Capacity * qa) + (a % Capacity) /\ b = (Capacity * qb) + (b % Capacity)
  BY CapacityAssumption
<1> HIDE DEF qa, qb
<1>3. b - a = Capacity * (qb - qa)
  BY <1>1, <1>2, CapacityAssumption DEF Slot
<1>4. qb - qa < 1 /\ qb - qa > -1
  BY <1>1, <1>3, CapacityAssumption
<1> QED BY <1>1, <1>3, <1>4, CapacityAssumption

(* A ticket and the ticket one turn later use the same slot. *)
LEMMA SlotPeriodic == \A t \in Nat : Slot(t + Capacity) = Slot(t)
<1> SUFFICES ASSUME NEW t \in Nat PROVE Slot(t + Capacity) = Slot(t)
  OBVIOUS
<1> DEFINE q == t \div Capacity
           r == t % Capacity
           q1 == (t + Capacity) \div Capacity
           r1 == (t + Capacity) % Capacity
<1>1. q \in Int /\ q1 \in Int /\ r \in 0 .. Capacity - 1 /\ r1 \in 0 .. Capacity - 1
  BY CapacityAssumption
<1>2. t = (Capacity * q) + r /\ t + Capacity = (Capacity * q1) + r1
  BY CapacityAssumption
<1> HIDE DEF q, r, q1, r1
<1>3. r - r1 = Capacity * (q1 - q - 1)
  BY <1>1, <1>2, CapacityAssumption
<1>4. q1 - q - 1 < 1 /\ q1 - q - 1 > -1
  BY <1>1, <1>3, CapacityAssumption
<1>5. r = r1
  BY <1>1, <1>3, <1>4, CapacityAssumption
<1> QED BY <1>5 DEF Slot, r, r1

----------------------------------------------------------------------------
(* The inductive invariant.  The slots are exactly the tickets of the      *)
(* window dequeue_pos .. dequeue_pos + Capacity - 1: the part below        *)
(* enqueue_pos holds elements, the rest is free for the producers.         *)

\* The threads that own the slot of the ticket in their pos.
Pushing == {p \in Producers : pc[p] \in {"construct", "publish"}}
Popping == {c \in Consumers : pc[c] \in {"move", "release"}}

\* No more than Capacity tickets are out, and log has one element per ticket.
Window == /\ dequeue_pos <= enqueue_pos
          /\ enqueue_pos <= dequeue_pos + Capacity
          /\ Len(log) = enqueue_pos

\* A pushed ticket is published with its element, or its producer is at work.
Filled == \A t \in Nat : dequeue_pos <= t /\ t < enqueue_pos =>
             \/ sequence[Slot(t)] = t + 1 /\ storage[Slot(t)] = log[t + 1]
             \/ sequence[Slot(t)] = t /\ \E p \in Pushing : pos[p] = t

\* A free ticket's slot is empty, or the consumer of the previous turn is at work.
Free == \A t \in Nat : enqueue_pos <= t /\ t < dequeue_pos + Capacity =>
           \/ sequence[Slot(t)] = t /\ storage[Slot(t)] = NoItem
           \/ /\ sequence[Slot(t)] = t - Capacity + 1
              /\ \E c \in Popping : pos[c] = t - Capacity

\* What a producer inside emplace may rely on.
ProducerInv == \A p \in Producers :
    /\ pc[p] # "idle" => item[p] \in Items
    /\ pc[p] \in {"load", "cas"} => pos[p] <= enqueue_pos
    /\ pc[p] = "cas" /\ pos[p] = enqueue_pos =>
          sequence[Slot(pos[p])] = pos[p] /\ enqueue_pos < dequeue_pos + Capacity

\* What a consumer inside try_pop may rely on.
ConsumerInv == \A c \in Consumers :
    /\ pc[c] \in {"load", "cas"} => pos[c] <= dequeue_pos
    /\ pc[c] = "cas" /\ pos[c] = dequeue_pos =>
          sequence[Slot(pos[c])] = pos[c] + 1 /\ dequeue_pos < enqueue_pos

\* The owner of a pushed ticket: the slot is at its turn and holds its element
\* once constructed.
PusherInv == \A p \in Pushing :
    /\ dequeue_pos <= pos[p] /\ pos[p] < enqueue_pos
    /\ sequence[Slot(pos[p])] = pos[p]
    /\ item[p] = log[pos[p] + 1]
    /\ pc[p] = "construct" => storage[Slot(pos[p])] = NoItem
    /\ pc[p] = "publish" => storage[Slot(pos[p])] = item[p]

\* The owner of a popped ticket, until it hands the slot back.
PopperInv == \A c \in Popping :
    /\ pos[c] < dequeue_pos /\ enqueue_pos <= pos[c] + Capacity
    /\ sequence[Slot(pos[c])] = pos[c] + 1
    /\ pc[c] = "move" => storage[Slot(pos[c])] = log[pos[c] + 1]
    /\ pc[c] = "release" => storage[Slot(pos[c])] = NoItem

\* A ticket is claimed once.
ClaimedOnce == /\ \A p, q \in Pushing : pos[p] = pos[q] => p = q
               /\ \A c, d \in Popping : pos[c] = pos[d] => c = d

\* The destructor ran alone and drained the ring.
Dead == lifetime = "destroyed" =>
          dequeue_pos = enqueue_pos /\ \A t \in Threads : pc[t] = "idle"

\* What the slots and their owners satisfy.
RingInv == Window /\ Filled /\ Free /\ PusherInv /\ PopperInv /\ ClaimedOnce

IndInv == TypeOK /\ RingInv /\ ProducerInv /\ ConsumerInv /\ Dead

----------------------------------------------------------------------------
(* Steps that touch neither a slot nor a counter and neither start nor end  *)
(* the ownership of one leave the ring as it is.                            *)
LEMMA LocalStep ==
  ASSUME RingInv, UNCHANGED <<sequence, storage, enqueue_pos, dequeue_pos, log>>,
         Pushing' = Pushing, Popping' = Popping,
         \A t \in Pushing \cup Popping :
            pc'[t] = pc[t] /\ pos'[t] = pos[t] /\ item'[t] = item[t]
  PROVE  RingInv'
<1> USE DEF RingInv
<1>1. Window' BY DEF Window
<1>2. Filled' BY DEF Filled
<1>3. Free' BY DEF Free
<1>4. PusherInv' BY DEF PusherInv
<1>5. PopperInv' BY DEF PopperInv
<1>6. ClaimedOnce' BY DEF ClaimedOnce
<1> QED BY <1>1, <1>2, <1>3, <1>4, <1>5, <1>6

(* The steps of emplace that only read the ring.                            *)
LEMMA EmplaceReads ==
  ASSUME IndInv, NEW p \in Producers,
         \/ EmplaceBegin(p) \/ EmplaceReady(p) \/ EmplaceFull(p)
         \/ EmplaceReload(p) \/ EmplaceClaimFails(p)
  PROVE  IndInv'
<1> USE DEF IndInv
<1>0. p \in Threads /\ p \notin Consumers
  BY ThreadsAssumption DEF Threads
<1>1. /\ UNCHANGED <<sequence, storage, enqueue_pos, dequeue_pos, log, lifetime>>
      /\ pc[p] \in {"idle", "load", "cas"} /\ pc'[p] \in {"idle", "load", "cas"}
      /\ \A t \in Threads \ {p} : pc'[t] = pc[t] /\ pos'[t] = pos[t] /\ item'[t] = item[t]
  BY <1>0 DEF EmplaceBegin, EmplaceReady, EmplaceFull, EmplaceReload, EmplaceClaimFails,
              Goto, Return, TypeOK
<1>2. TypeOK'
  <2>1. /\ pc' = [pc EXCEPT ![p] = pc'[p]] /\ pos' = [pos EXCEPT ![p] = pos'[p]]
        /\ item' = [item EXCEPT ![p] = item'[p]]
        /\ pos'[p] \in Nat /\ item'[p] \in Items \cup {NoItem}
    BY <1>0 DEF EmplaceBegin, EmplaceReady, EmplaceFull, EmplaceReload, EmplaceClaimFails,
              Goto, Return, TypeOK
  <2>2. \A c \in Consumers : pc'[c] = pc[c]
    BY <1>0, <1>1 DEF Threads
  <2>3. \A q \in Producers : pc'[q] \in PushLabels
    BY <1>0, <1>1 DEF Threads, TypeOK, PushLabels
  <2> QED BY <1>0, <1>1, <2>1, <2>2, <2>3 DEF TypeOK
<1>3. RingInv'
  <2>1. Pushing' = Pushing /\ Popping' = Popping
    BY <1>0, <1>1 DEF Pushing, Popping, Threads
  <2> QED BY <1>0, <1>1, <2>1, LocalStep DEF Pushing, Popping, Threads
<1>4. ProducerInv'
  <2>1. pc'[p] # "idle" => item'[p] \in Items
    BY <1>0 DEF EmplaceBegin, EmplaceReady, EmplaceFull, EmplaceReload, EmplaceClaimFails,
              Goto, Return, TypeOK, ProducerInv
  <2>2. pc'[p] \in {"load", "cas"} => pos'[p] <= enqueue_pos
    BY <1>0 DEF EmplaceBegin, EmplaceReady, EmplaceFull, EmplaceReload, EmplaceClaimFails,
              Goto, Return, TypeOK, ProducerInv
  <2>3. ASSUME pc'[p] = "cas", pos'[p] = enqueue_pos
        PROVE  sequence[Slot(pos'[p])] = pos'[p] /\ enqueue_pos < dequeue_pos + Capacity
    <3>0. EmplaceReady(p)
      BY <1>0, <2>3 DEF EmplaceBegin, EmplaceFull, EmplaceReload, EmplaceClaimFails,
              Goto, Return, TypeOK
    <3>1. pos'[p] = pos[p] /\ sequence[Slot(pos[p])] = pos[p]
      <4>1. pos[p] \in Nat /\ sequence[Slot(pos[p])] \in Nat
        BY <1>0, SlotInRange DEF TypeOK
      <4> QED BY <3>0, <4>1 DEF EmplaceReady, PushDiff
    <3>2. CASE enqueue_pos = dequeue_pos + Capacity
      <4>1. Slot(enqueue_pos) = Slot(dequeue_pos)
        BY <3>2, SlotPeriodic DEF TypeOK
      <4>2. sequence[Slot(dequeue_pos)] \in {dequeue_pos, dequeue_pos + 1}
        BY <3>2, CapacityAssumption DEF RingInv, Filled, TypeOK
      <4> QED BY <2>3, <3>1, <3>2, <4>1, <4>2, CapacityAssumption DEF TypeOK
    <3>3. CASE enqueue_pos # dequeue_pos + Capacity
      BY <3>1, <3>3, CapacityAssumption DEF RingInv, Window, TypeOK
    <3> QED BY <3>2, <3>3
  <2> QED BY <1>0, <1>1, <2>1, <2>2, <2>3 DEF ProducerInv, Threads
<1>5. ConsumerInv'
  BY <1>0, <1>1 DEF ConsumerInv, Threads
<1>6. Dead'
  BY <1>0, <1>1 DEF Dead, EmplaceBegin, EmplaceReady, EmplaceFull, EmplaceReload,
              EmplaceClaimFails, Goto, Return
<1> QED BY <1>2, <1>3, <1>4, <1>5, <1>6

(* The steps of try_pop that only read the ring.                            *)
LEMMA TryPopReads ==
  ASSUME IndInv, NEW c \in Consumers,
         \/ TryPopBegin(c) \/ TryPopReady(c) \/ TryPopEmpty(c)
         \/ TryPopReload(c) \/ TryPopClaimFails(c)
  PROVE  IndInv'
<1> USE DEF IndInv
<1>0. c \in Threads /\ c \notin Producers
  BY ThreadsAssumption DEF Threads
<1>1. /\ UNCHANGED <<sequence, storage, enqueue_pos, dequeue_pos, log, lifetime>>
      /\ pc[c] \in {"idle", "load", "cas"} /\ pc'[c] \in {"idle", "load", "cas"}
      /\ \A t \in Threads \ {c} : pc'[t] = pc[t] /\ pos'[t] = pos[t]
      /\ item' = item
  BY <1>0 DEF TryPopBegin, TryPopReady, TryPopEmpty, TryPopReload, TryPopClaimFails,
              Goto, Return, TypeOK
<1>2. TypeOK'
  <2>1. /\ pc' = [pc EXCEPT ![c] = pc'[c]] /\ pos' = [pos EXCEPT ![c] = pos'[c]]
        /\ pos'[c] \in Nat
    BY <1>0 DEF TryPopBegin, TryPopReady, TryPopEmpty, TryPopReload, TryPopClaimFails,
              Goto, Return, TypeOK
  <2>2. \A p \in Producers : pc'[p] = pc[p]
    BY <1>0, <1>1 DEF Threads
  <2>3. \A d \in Consumers : pc'[d] \in PopLabels
    BY <1>0, <1>1 DEF Threads, TypeOK, PopLabels
  <2> QED BY <1>0, <1>1, <2>1, <2>2, <2>3 DEF TypeOK
<1>3. RingInv'
  <2>1. Pushing' = Pushing /\ Popping' = Popping
    BY <1>0, <1>1 DEF Pushing, Popping, Threads
  <2> QED BY <1>0, <1>1, <2>1, LocalStep DEF Pushing, Popping, Threads
<1>4. ProducerInv'
  BY <1>0, <1>1 DEF ProducerInv, Threads
<1>5. ConsumerInv'
  <2>1. pc'[c] \in {"load", "cas"} => pos'[c] <= dequeue_pos
    BY <1>0 DEF TryPopBegin, TryPopReady, TryPopEmpty, TryPopReload, TryPopClaimFails,
              Goto, Return, TypeOK, ConsumerInv
  <2>2. ASSUME pc'[c] = "cas", pos'[c] = dequeue_pos
        PROVE  sequence[Slot(pos'[c])] = pos'[c] + 1 /\ dequeue_pos < enqueue_pos
    <3>0. TryPopReady(c)
      BY <1>0, <2>2 DEF TryPopBegin, TryPopEmpty, TryPopReload, TryPopClaimFails,
              Goto, Return, TypeOK
    <3>1. pos'[c] = pos[c] /\ sequence[Slot(pos[c])] = pos[c] + 1
      <4>1. pos[c] \in Nat /\ sequence[Slot(pos[c])] \in Nat
        BY <1>0, SlotInRange DEF TypeOK
      <4> QED BY <3>0, <4>1 DEF TryPopReady, PopDiff
    <3>2. CASE dequeue_pos = enqueue_pos
      <4>1. sequence[Slot(dequeue_pos)] \in {dequeue_pos, dequeue_pos - Capacity + 1}
        BY <3>2, CapacityAssumption DEF RingInv, Free, TypeOK
      <4> QED BY <2>2, <3>1, <3>2, <4>1, CapacityAssumption DEF TypeOK
    <3> QED BY <3>1, <2>2, <3>2 DEF RingInv, Window, TypeOK
  <2> QED BY <1>0, <1>1, <2>1, <2>2 DEF ConsumerInv, Threads
<1>6. Dead'
  BY <1>0, <1>1 DEF Dead, TryPopBegin, TryPopReady, TryPopEmpty, TryPopReload,
              TryPopClaimFails, Goto, Return
<1> QED BY <1>2, <1>3, <1>4, <1>5, <1>6

(* A producer that owns a slot owns it alone among the tickets of the       *)
(* window and among the other owners.                                       *)
LEMMA PusherAlone ==
  ASSUME TypeOK, RingInv, NEW p \in Pushing
  PROVE  /\ \A t \in Nat : dequeue_pos <= t /\ t < dequeue_pos + Capacity /\ t # pos[p]
                              => Slot(t) # Slot(pos[p])
         /\ \A q \in Pushing : q # p => Slot(pos[q]) # Slot(pos[p])
         /\ \A c \in Popping : Slot(pos[c]) # Slot(pos[p])
<1> USE CapacityAssumption
<1>0. pos[p] \in Nat /\ enqueue_pos \in Nat /\ dequeue_pos \in Nat
  BY DEF TypeOK, Pushing, Threads
<1>1. dequeue_pos <= pos[p] /\ pos[p] < dequeue_pos + Capacity
  BY <1>0 DEF RingInv, PusherInv, Window
<1>2. \A t \in Nat : dequeue_pos <= t /\ t < dequeue_pos + Capacity /\ t # pos[p]
                       => Slot(t) # Slot(pos[p])
  <2> SUFFICES ASSUME NEW t \in Nat, dequeue_pos <= t, t < dequeue_pos + Capacity,
                      Slot(t) = Slot(pos[p])
               PROVE  t = pos[p]
    OBVIOUS
  <2>1. CASE t <= pos[p]
    BY <1>0, <1>1, <2>1, SlotInjective
  <2>2. CASE pos[p] <= t
    BY <1>0, <1>1, <2>2, SlotInjective
  <2> QED BY <1>0, <2>1, <2>2
<1>3. ASSUME NEW q \in Pushing, q # p PROVE Slot(pos[q]) # Slot(pos[p])
  <2>1. pos[q] \in Nat /\ pos[q] # pos[p]
    BY <1>3 DEF TypeOK, Pushing, Threads, RingInv, ClaimedOnce
  <2>2. dequeue_pos <= pos[q] /\ pos[q] < dequeue_pos + Capacity
    BY <1>0, <2>1 DEF RingInv, PusherInv, Window
  <2> QED BY <1>2, <2>1, <2>2
<1>4. ASSUME NEW c \in Popping, Slot(pos[c]) = Slot(pos[p]) PROVE FALSE
  <2>1. pos[c] \in Nat
    BY DEF TypeOK, Popping, Threads
  <2>2. sequence[Slot(pos[c])] = pos[c] + 1 /\ sequence[Slot(pos[p])] = pos[p]
    BY DEF RingInv, PusherInv, PopperInv
  <2>3. pos[p] = pos[c] + 1
    BY <1>4, <2>2
  <2> QED BY <1>0, <1>4, <2>1, <2>3, SlotInjective
<1> QED BY <1>2, <1>3, <1>4

(* The same for a consumer; its slot is the one of the ticket a turn later. *)
LEMMA PopperAlone ==
  ASSUME TypeOK, RingInv, NEW c \in Popping
  PROVE  /\ \A t \in Nat : dequeue_pos <= t /\ t < dequeue_pos + Capacity
                              /\ t # pos[c] + Capacity => Slot(t) # Slot(pos[c])
         /\ \A d \in Popping : d # c => Slot(pos[d]) # Slot(pos[c])
         /\ \A p \in Pushing : Slot(pos[p]) # Slot(pos[c])
<1> USE CapacityAssumption
<1>0. pos[c] \in Nat /\ enqueue_pos \in Nat /\ dequeue_pos \in Nat
  BY DEF TypeOK, Popping, Threads
<1>1. /\ dequeue_pos <= pos[c] + Capacity /\ pos[c] < dequeue_pos
      /\ Slot(pos[c] + Capacity) = Slot(pos[c])
  <2>1. Slot(pos[c] + Capacity) = Slot(pos[c])
    BY <1>0, SlotPeriodic
  <2> QED BY <1>0, <2>1 DEF RingInv, PopperInv, Window
<1>2. ASSUME NEW t \in Nat, dequeue_pos <= t, t < dequeue_pos + Capacity,
             Slot(t) = Slot(pos[c])
      PROVE  t = pos[c] + Capacity
  <2>1. CASE t <= pos[c] + Capacity
    BY <1>0, <1>1, <1>2, <2>1, SlotInjective
  <2>2. CASE pos[c] + Capacity <= t
    BY <1>0, <1>1, <1>2, <2>2, SlotInjective
  <2> QED BY <1>0, <2>1, <2>2
<1>3. ASSUME NEW d \in Popping, d # c PROVE Slot(pos[d]) # Slot(pos[c])
  <2>1. pos[d] \in Nat /\ pos[d] # pos[c]
    BY <1>3 DEF TypeOK, Popping, Threads, RingInv, ClaimedOnce
  <2>2. dequeue_pos <= pos[d] + Capacity /\ pos[d] < dequeue_pos
    BY <1>0, <2>1 DEF RingInv, PopperInv, Window
  <2>3. CASE pos[d] <= pos[c]
    BY <1>0, <1>1, <2>1, <2>2, <2>3, SlotInjective
  <2>4. CASE pos[c] <= pos[d]
    BY <1>0, <1>1, <2>1, <2>2, <2>4, SlotInjective
  <2> QED BY <1>0, <2>1, <2>3, <2>4
<1> QED BY <1>2, <1>3, PusherAlone

(* emplace wins its CAS: the ticket at enqueue_pos becomes the producer's.  *)
LEMMA EmplaceClaims ==
  ASSUME IndInv, NEW p \in Producers, EmplaceClaim(p)
  PROVE  IndInv'
<1> USE CapacityAssumption DEF IndInv, RingInv
<1>0. /\ p \in Threads /\ p \notin Consumers /\ pos[p] = enqueue_pos
      /\ enqueue_pos \in Nat /\ dequeue_pos \in Nat /\ item[p] \in Items
  BY ThreadsAssumption DEF Threads, EmplaceClaim, TypeOK, ProducerInv, Goto
<1>1. /\ enqueue_pos' = enqueue_pos + 1 /\ dequeue_pos' = dequeue_pos
      /\ sequence' = sequence /\ storage' = storage /\ pos' = pos /\ item' = item
      /\ lifetime' = lifetime
      /\ pc[p] = "cas" /\ pc'[p] = "construct" /\ pc' = [pc EXCEPT ![p] = "construct"]
      /\ \A t \in Threads \ {p} : pc'[t] = pc[t]
  BY <1>0 DEF EmplaceClaim, Goto, TypeOK
<1>2. sequence[Slot(enqueue_pos)] = enqueue_pos /\ enqueue_pos < dequeue_pos + Capacity
  BY <1>0, <1>1 DEF ProducerInv
<1>3. storage[Slot(enqueue_pos)] = NoItem
  BY <1>0, <1>2 DEF Free
<1>4. /\ log' \in Seq(Items) /\ Len(log') = enqueue_pos + 1
      /\ log'[enqueue_pos + 1] = item[p]
      /\ \A t \in Nat : t < enqueue_pos => log'[t + 1] = log[t + 1]
  BY <1>0, SMTT(40) DEF EmplaceClaim, TypeOK, Window
<1>5. Pushing' = Pushing \cup {p} /\ p \notin Pushing /\ Popping' = Popping
  BY <1>0, <1>1 DEF Pushing, Popping, Threads
<1>6. \A q \in Pushing \cup Popping : q \in Threads /\ q # p /\ pos[q] \in Nat
  BY <1>0, <1>5 DEF Pushing, Popping, Threads, TypeOK
<1>7. TypeOK'
  <2>1. \A q \in Producers : pc'[q] \in PushLabels
    BY <1>0, <1>1 DEF Threads, TypeOK, PushLabels
  <2>2. \A c \in Consumers : pc'[c] \in PopLabels
    BY <1>0, <1>1 DEF Threads, TypeOK
  <2> QED BY <1>0, <1>1, <1>4, <2>1, <2>2 DEF TypeOK, PushLabels
<1>8. Window'
  BY <1>0, <1>1, <1>2, <1>4 DEF Window
<1>9. Filled'
  <2> SUFFICES ASSUME NEW t \in Nat, dequeue_pos <= t, t < enqueue_pos + 1
               PROVE  \/ sequence[Slot(t)] = t + 1 /\ storage[Slot(t)] = log'[t + 1]
                      \/ sequence[Slot(t)] = t /\ \E q \in Pushing' : pos[q] = t
    BY <1>1 DEF Filled
  <2>1. CASE t = enqueue_pos
    BY <1>0, <1>2, <1>5, <2>1
  <2>2. CASE t < enqueue_pos
    BY <1>4, <1>5, <2>2 DEF Filled
  <2> QED BY <1>0, <2>1, <2>2
<1>10. Free'
  BY <1>0, <1>1, <1>5 DEF Free
<1>11. PusherInv'
  <2>1. ASSUME NEW q \in Pushing PROVE log'[pos[q] + 1] = log[pos[q] + 1] /\ pc'[q] = pc[q]
    BY <1>1, <1>4, <1>6 DEF PusherInv
  <2> SUFFICES ASSUME NEW q \in Pushing'
               PROVE  /\ dequeue_pos <= pos[q] /\ pos[q] < enqueue_pos + 1
                      /\ sequence[Slot(pos[q])] = pos[q]
                      /\ item[q] = log'[pos[q] + 1]
                      /\ pc'[q] = "construct" => storage[Slot(pos[q])] = NoItem
                      /\ pc'[q] = "publish" => storage[Slot(pos[q])] = item[q]
    BY <1>1 DEF PusherInv
  <2>2. CASE q = p
    BY <1>0, <1>1, <1>2, <1>3, <1>4, <2>2 DEF Window
  <2>3. CASE q \in Pushing
    BY <1>0, <1>6, <2>1, <2>3 DEF PusherInv
  <2> QED BY <1>5, <2>2, <2>3
<1>12. PopperInv'
  <2> SUFFICES ASSUME NEW c \in Popping
               PROVE  /\ pos[c] < dequeue_pos /\ enqueue_pos + 1 <= pos[c] + Capacity
                      /\ sequence[Slot(pos[c])] = pos[c] + 1
                      /\ pc'[c] = "move" => storage[Slot(pos[c])] = log'[pos[c] + 1]
                      /\ pc'[c] = "release" => storage[Slot(pos[c])] = NoItem
    BY <1>1, <1>5 DEF PopperInv
  <2>1. /\ pc'[c] = pc[c] /\ pos[c] \in Nat /\ pos[c] < dequeue_pos
        /\ enqueue_pos <= pos[c] + Capacity /\ sequence[Slot(pos[c])] = pos[c] + 1
        /\ pos[c] < enqueue_pos
    BY <1>0, <1>1, <1>6 DEF PopperInv, Window
  <2>2. enqueue_pos # pos[c] + Capacity
    <3>1. Slot(pos[c] + Capacity) = Slot(pos[c])
      BY <2>1, SlotPeriodic
    <3> QED BY <1>0, <1>2, <2>1, <3>1
  <2>3. enqueue_pos + 1 <= pos[c] + Capacity
    BY <1>0, <2>1, <2>2
  <2>4. log'[pos[c] + 1] = log[pos[c] + 1]
    BY <1>4, <2>1
  <2> QED BY <2>1, <2>3, <2>4 DEF PopperInv
<1>13. ClaimedOnce'
  <2>1. \A q \in Pushing : pos[q] # pos[p]
    BY <1>0, <1>6 DEF PusherInv
  <2> QED BY <1>1, <1>5, <2>1 DEF ClaimedOnce
<1>14. ProducerInv'
  <2>1. \A q \in Producers : pos[q] \in Nat /\ q \in Threads
    BY DEF TypeOK, Threads
  <2> QED BY <1>0, <1>1, <2>1 DEF ProducerInv
<1>15. ConsumerInv'
  BY <1>0, <1>1 DEF ConsumerInv, Threads
<1>16. Dead'
  BY <1>0, <1>1 DEF Dead
<1> QED BY <1>7, <1>8, <1>9, <1>10, <1>11, <1>12, <1>13, <1>14, <1>15, <1>16

(* The element is constructed: only the producer's own slot changes.        *)
LEMMA EmplaceConstructs ==
  ASSUME IndInv, NEW p \in Producers, EmplaceConstruct(p)
  PROVE  IndInv'
<1> USE CapacityAssumption DEF IndInv, RingInv
<1>0. /\ p \in Threads /\ p \notin Consumers /\ p \in Pushing
      /\ enqueue_pos \in Nat /\ dequeue_pos \in Nat /\ pos[p] \in Nat
      /\ item[p] \in Items
  BY ThreadsAssumption DEF Threads, EmplaceConstruct, TypeOK, ProducerInv, Goto, Pushing
<1>1. /\ UNCHANGED <<sequence, enqueue_pos, dequeue_pos, pos, item, log, lifetime>>
      /\ pc[p] = "construct" /\ pc'[p] = "publish" /\ pc' = [pc EXCEPT ![p] = "publish"]
      /\ \A t \in Threads \ {p} : pc'[t] = pc[t]
  BY <1>0 DEF EmplaceConstruct, Goto, TypeOK
<1>2. /\ Slot(pos[p]) \in 0 .. Capacity - 1 /\ storage'[Slot(pos[p])] = item[p]
      /\ \A i \in 0 .. Capacity - 1 : i # Slot(pos[p]) => storage'[i] = storage[i]
      /\ storage' \in [0 .. Capacity - 1 -> Items \cup {NoItem}]
  BY <1>0, SlotInRange DEF EmplaceConstruct, TypeOK
<1>3. Pushing' = Pushing /\ Popping' = Popping
  BY <1>0, <1>1 DEF Pushing, Popping, Threads
<1>4. \A q \in Pushing \cup Popping :
         q \in Threads /\ pos[q] \in Nat /\ Slot(pos[q]) \in 0 .. Capacity - 1
  BY SlotInRange DEF Pushing, Popping, Threads, TypeOK
<1>5. TypeOK'
  <2>1. \A q \in Producers : pc'[q] \in PushLabels
    BY <1>0, <1>1 DEF Threads, TypeOK, PushLabels
  <2>2. \A c \in Consumers : pc'[c] \in PopLabels
    BY <1>0, <1>1 DEF Threads, TypeOK
  <2> QED BY <1>0, <1>1, <1>2, <2>1, <2>2 DEF TypeOK, PushLabels
<1>6. \A t \in Nat : dequeue_pos <= t /\ t < dequeue_pos + Capacity /\ t # pos[p]
                       => storage'[Slot(t)] = storage[Slot(t)]
  BY <1>0, <1>2, SlotInRange, PusherAlone
<1>7. \A q \in Pushing \cup Popping : q # p => storage'[Slot(pos[q])] = storage[Slot(pos[q])]
  BY <1>0, <1>2, <1>4, PusherAlone
<1>8. Window'
  BY <1>1 DEF Window
<1>9. Filled'
  <2> SUFFICES ASSUME NEW t \in Nat, dequeue_pos <= t, t < enqueue_pos
               PROVE  \/ sequence[Slot(t)] = t + 1 /\ storage'[Slot(t)] = log[t + 1]
                      \/ sequence[Slot(t)] = t /\ \E q \in Pushing : pos[q] = t
    BY <1>1, <1>3 DEF Filled
  <2>1. CASE t = pos[p]
    BY <1>0, <2>1 DEF PusherInv
  <2>2. CASE t # pos[p]
    <3>1. storage'[Slot(t)] = storage[Slot(t)]
      BY <1>0, <1>6, <2>2 DEF Window
    <3> QED BY <3>1 DEF Filled
  <2> QED BY <2>1, <2>2
<1>10. Free'
  <2> SUFFICES ASSUME NEW t \in Nat, enqueue_pos <= t, t < dequeue_pos + Capacity
               PROVE  storage'[Slot(t)] = storage[Slot(t)]
    BY <1>1, <1>3 DEF Free
  <2> QED BY <1>0, <1>6 DEF Window, PusherInv
<1>11. PusherInv'
  <2>1. \A q \in Pushing : q # p => pc'[q] = pc[q]
    BY <1>1, <1>4
  <2> QED BY <1>0, <1>1, <1>2, <1>3, <1>7, <2>1 DEF PusherInv
<1>12. PopperInv'
  <2>1. \A c \in Popping : c # p /\ pc'[c] = pc[c]
    BY <1>0, <1>1, <1>4 DEF Popping
  <2> QED BY <1>1, <1>3, <1>7, <2>1 DEF PopperInv
<1>13. ClaimedOnce'
  BY <1>1, <1>3 DEF ClaimedOnce
<1>14. ProducerInv'
  BY <1>0, <1>1 DEF ProducerInv, Threads
<1>15. ConsumerInv'
  BY <1>0, <1>1 DEF ConsumerInv, Threads
<1>16. Dead'
  BY <1>0, <1>1 DEF Dead
<1> QED BY <1>5, <1>8, <1>9, <1>10, <1>11, <1>12, <1>13, <1>14, <1>15, <1>16

(* The slot is published and leaves its producer.                           *)
LEMMA EmplacePublishes ==
  ASSUME IndInv, NEW p \in Producers, EmplacePublish(p)
  PROVE  IndInv'
<1> USE CapacityAssumption DEF IndInv, RingInv
<1>0. /\ p \in Threads /\ p \notin Consumers /\ p \in Pushing
      /\ enqueue_pos \in Nat /\ dequeue_pos \in Nat /\ pos[p] \in Nat
  BY ThreadsAssumption DEF Threads, EmplacePublish, TypeOK, Goto, Return, Pushing
<1>1. /\ UNCHANGED <<storage, enqueue_pos, dequeue_pos, log, lifetime>>
      /\ pc[p] = "publish" /\ pc'[p] = "idle" /\ pc' = [pc EXCEPT ![p] = "idle"]
      /\ pos' = [pos EXCEPT ![p] = 0] /\ item' = [item EXCEPT ![p] = NoItem]
      /\ \A t \in Threads \ {p} : pc'[t] = pc[t] /\ pos'[t] = pos[t] /\ item'[t] = item[t]
  BY <1>0 DEF EmplacePublish, Goto, Return, TypeOK
<1>2. /\ Slot(pos[p]) \in 0 .. Capacity - 1 /\ sequence'[Slot(pos[p])] = pos[p] + 1
      /\ \A i \in 0 .. Capacity - 1 : i # Slot(pos[p]) => sequence'[i] = sequence[i]
      /\ sequence' \in [0 .. Capacity - 1 -> Nat]
  <2>1. Slot(pos[p]) \in 0 .. Capacity - 1 /\ pos[p] + 1 \in Nat
    BY <1>0, SlotInRange
  <2> QED BY <2>1 DEF EmplacePublish, TypeOK, PublishedTurn
<1>3. Pushing' = Pushing \ {p} /\ Popping' = Popping
  BY <1>0, <1>1 DEF Pushing, Popping, Threads
<1>4. \A q \in Pushing \cup Popping :
         q \in Threads /\ pos[q] \in Nat /\ Slot(pos[q]) \in 0 .. Capacity - 1
  BY SlotInRange DEF Pushing, Popping, Threads, TypeOK
<1>5. TypeOK'
  <2>1. \A q \in Producers : pc'[q] \in PushLabels
    BY <1>0, <1>1 DEF Threads, TypeOK, PushLabels
  <2>2. \A c \in Consumers : pc'[c] \in PopLabels
    BY <1>0, <1>1 DEF Threads, TypeOK
  <2> QED BY <1>0, <1>1, <1>2, <2>1, <2>2 DEF TypeOK, PushLabels
<1>6. \A t \in Nat : dequeue_pos <= t /\ t < dequeue_pos + Capacity /\ t # pos[p]
                       => sequence'[Slot(t)] = sequence[Slot(t)]
  BY <1>0, <1>2, SlotInRange, PusherAlone
<1>7. \A q \in Pushing \cup Popping : q # p =>
         sequence'[Slot(pos[q])] = sequence[Slot(pos[q])] /\ pc'[q] = pc[q]
         /\ pos'[q] = pos[q] /\ item'[q] = item[q]
  BY <1>0, <1>1, <1>2, <1>4, PusherAlone
<1>8. Window'
  BY <1>1 DEF Window
<1>9. Filled'
  <2> SUFFICES ASSUME NEW t \in Nat, dequeue_pos <= t, t < enqueue_pos
               PROVE  \/ sequence'[Slot(t)] = t + 1 /\ storage[Slot(t)] = log[t + 1]
                      \/ sequence'[Slot(t)] = t /\ \E q \in Pushing \ {p} : pos'[q] = t
    BY <1>1, <1>3 DEF Filled
  <2>1. CASE t = pos[p]
    BY <1>0, <1>1, <1>2, <2>1 DEF PusherInv
  <2>2. CASE t # pos[p]
    <3>1. sequence'[Slot(t)] = sequence[Slot(t)]
      BY <1>0, <1>6, <2>2 DEF Window
    <3> QED BY <1>7, <2>2, <3>1 DEF Filled
  <2> QED BY <2>1, <2>2
<1>10. Free'
  <2> SUFFICES ASSUME NEW t \in Nat, enqueue_pos <= t, t < dequeue_pos + Capacity
               PROVE  \/ sequence'[Slot(t)] = t /\ storage[Slot(t)] = NoItem
                      \/ /\ sequence'[Slot(t)] = t - Capacity + 1
                         /\ \E c \in Popping : pos'[c] = t - Capacity
    BY <1>1, <1>3 DEF Free
  <2>1. sequence'[Slot(t)] = sequence[Slot(t)]
    BY <1>0, <1>6 DEF Window, PusherInv
  <2>2. \A c \in Popping : pos'[c] = pos[c]
    BY <1>0, <1>7 DEF Popping
  <2> QED BY <2>1, <2>2 DEF Free
<1>11. PusherInv'
  BY <1>1, <1>3, <1>7 DEF PusherInv
<1>12. PopperInv'
  <2>1. p \notin Popping
    BY <1>0 DEF Popping
  <2> QED BY <1>1, <1>3, <1>7, <2>1 DEF PopperInv
<1>13. ClaimedOnce'
  <2>1. p \notin Popping
    BY <1>0 DEF Popping
  <2> QED BY <1>3, <1>7, <2>1 DEF ClaimedOnce
<1>14. ProducerInv'
  <2>1. sequence[Slot(enqueue_pos)] = enqueue_pos /\ enqueue_pos < dequeue_pos + Capacity
           => sequence'[Slot(enqueue_pos)] = enqueue_pos
    BY <1>0, <1>6 DEF Window, PusherInv
  <2> QED BY <1>0, <1>1, <2>1 DEF ProducerInv, Threads
<1>15. ConsumerInv'
  <2>1. sequence[Slot(dequeue_pos)] = dequeue_pos + 1 /\ dequeue_pos < enqueue_pos
           => sequence'[Slot(dequeue_pos)] = dequeue_pos + 1
    BY <1>0, <1>2, <1>6 DEF Window
  <2> QED BY <1>0, <1>1, <2>1 DEF ConsumerInv, Threads
<1>16. Dead'
  BY <1>0, <1>1 DEF Dead
<1> QED BY <1>5, <1>8, <1>9, <1>10, <1>11, <1>12, <1>13, <1>14, <1>15, <1>16

(* try_pop wins its CAS: the ticket at dequeue_pos becomes the consumer's.  *)
LEMMA TryPopClaims ==
  ASSUME IndInv, NEW c \in Consumers, TryPopClaim(c)
  PROVE  IndInv'
<1> USE CapacityAssumption DEF IndInv, RingInv
<1>0. /\ c \in Threads /\ c \notin Producers /\ pos[c] = dequeue_pos
      /\ enqueue_pos \in Nat /\ dequeue_pos \in Nat
  BY ThreadsAssumption DEF Threads, TryPopClaim, PopCas, TypeOK
<1>1. /\ UNCHANGED <<sequence, storage, enqueue_pos, pos, item, log, lifetime>>
      /\ dequeue_pos' = dequeue_pos + 1
      /\ pc[c] = "cas" /\ pc'[c] = "move" /\ pc' = [pc EXCEPT ![c] = "move"]
      /\ \A t \in Threads \ {c} : pc'[t] = pc[t]
  BY <1>0 DEF TryPopClaim, Goto, TypeOK
<1>2. sequence[Slot(dequeue_pos)] = dequeue_pos + 1 /\ dequeue_pos < enqueue_pos
  BY <1>0, <1>1 DEF ConsumerInv
<1>3. storage[Slot(dequeue_pos)] = log[dequeue_pos + 1]
  BY <1>0, <1>2 DEF Filled
<1>4. Slot(dequeue_pos + Capacity) = Slot(dequeue_pos)
  BY <1>0, SlotPeriodic
<1>5. Popping' = Popping \cup {c} /\ c \notin Popping /\ Pushing' = Pushing
  BY <1>0, <1>1 DEF Pushing, Popping, Threads
<1>6. \A q \in Pushing \cup Popping : q \in Threads /\ q # c /\ pos[q] \in Nat
  BY <1>0, <1>5 DEF Pushing, Popping, Threads, TypeOK
<1>7. TypeOK'
  <2>1. \A p \in Producers : pc'[p] \in PushLabels
    BY <1>0, <1>1 DEF Threads, TypeOK
  <2>2. \A d \in Consumers : pc'[d] \in PopLabels
    BY <1>0, <1>1 DEF Threads, TypeOK, PopLabels
  <2> QED BY <1>0, <1>1, <2>1, <2>2 DEF TypeOK, PopLabels
<1>8. Window'
  BY <1>0, <1>1, <1>2 DEF Window
<1>9. Filled'
  BY <1>0, <1>1, <1>5 DEF Filled
<1>10. Free'
  <2> SUFFICES ASSUME NEW t \in Nat, enqueue_pos <= t, t < dequeue_pos + 1 + Capacity
               PROVE  \/ sequence[Slot(t)] = t /\ storage[Slot(t)] = NoItem
                      \/ /\ sequence[Slot(t)] = t - Capacity + 1
                         /\ \E d \in Popping' : pos[d] = t - Capacity
    BY <1>1 DEF Free
  <2>1. CASE t = dequeue_pos + Capacity
    BY <1>0, <1>2, <1>4, <1>5, <2>1
  <2>2. CASE t < dequeue_pos + Capacity
    BY <1>5, <2>2 DEF Free
  <2> QED BY <1>0, <2>1, <2>2
<1>11. PusherInv'
  <2>1. ASSUME NEW p \in Pushing PROVE dequeue_pos + 1 <= pos[p] /\ pc'[p] = pc[p]
    BY <1>0, <1>1, <1>2, <1>6 DEF PusherInv
  <2> QED BY <1>1, <1>5, <2>1 DEF PusherInv
<1>12. PopperInv'
  <2> SUFFICES ASSUME NEW d \in Popping'
               PROVE  /\ pos[d] < dequeue_pos + 1 /\ enqueue_pos <= pos[d] + Capacity
                      /\ sequence[Slot(pos[d])] = pos[d] + 1
                      /\ pc'[d] = "move" => storage[Slot(pos[d])] = log[pos[d] + 1]
                      /\ pc'[d] = "release" => storage[Slot(pos[d])] = NoItem
    BY <1>1 DEF PopperInv
  <2>1. CASE d = c
    BY <1>0, <1>1, <1>2, <1>3, <2>1 DEF Window
  <2>2. CASE d \in Popping
    BY <1>0, <1>1, <1>6, <2>2 DEF PopperInv
  <2> QED BY <1>5, <2>1, <2>2
<1>13. ClaimedOnce'
  <2>1. \A d \in Popping : pos[d] # pos[c]
    BY <1>0, <1>6 DEF PopperInv
  <2> QED BY <1>1, <1>5, <2>1 DEF ClaimedOnce
<1>14. ProducerInv'
  BY <1>0, <1>1 DEF ProducerInv, Threads
<1>15. ConsumerInv'
  <2>1. \A d \in Consumers : pos[d] \in Nat /\ d \in Threads
    BY DEF TypeOK, Threads
  <2> QED BY <1>0, <1>1, <2>1 DEF ConsumerInv
<1>16. Dead'
  BY <1>0, <1>1 DEF Dead
<1> QED BY <1>7, <1>8, <1>9, <1>10, <1>11, <1>12, <1>13, <1>14, <1>15, <1>16

(* The element is moved out: only the consumer's own slot changes.          *)
LEMMA TryPopMoves ==
  ASSUME IndInv, NEW c \in Consumers, TryPopMove(c)
  PROVE  IndInv'
<1> USE CapacityAssumption DEF IndInv, RingInv
<1>0. /\ c \in Threads /\ c \notin Producers /\ c \in Popping
      /\ enqueue_pos \in Nat /\ dequeue_pos \in Nat /\ pos[c] \in Nat
  BY ThreadsAssumption DEF Threads, TryPopMove, TypeOK, Goto, Popping
<1>1. /\ UNCHANGED <<sequence, enqueue_pos, dequeue_pos, pos, log, lifetime>>
      /\ pc[c] = "move" /\ pc'[c] = "release" /\ pc' = [pc EXCEPT ![c] = "release"]
      /\ \A t \in Threads \ {c} : pc'[t] = pc[t] /\ item'[t] = item[t]
  BY <1>0 DEF TryPopMove, Goto, TypeOK
<1>2. /\ Slot(pos[c]) \in 0 .. Capacity - 1 /\ storage'[Slot(pos[c])] = NoItem
      /\ \A i \in 0 .. Capacity - 1 : i # Slot(pos[c]) => storage'[i] = storage[i]
      /\ storage' \in [0 .. Capacity - 1 -> Items \cup {NoItem}]
      /\ item' \in [Threads -> Items \cup {NoItem}]
  <2>1. Slot(pos[c]) \in 0 .. Capacity - 1
    BY <1>0, SlotInRange
  <2> QED BY <2>1 DEF TryPopMove, AfterMove, TypeOK
<1>3. Pushing' = Pushing /\ Popping' = Popping
  BY <1>0, <1>1 DEF Pushing, Popping, Threads
<1>4. \A q \in Pushing \cup Popping :
         q \in Threads /\ pos[q] \in Nat /\ Slot(pos[q]) \in 0 .. Capacity - 1
  BY SlotInRange DEF Pushing, Popping, Threads, TypeOK
<1>5. TypeOK'
  <2>1. \A p \in Producers : pc'[p] \in PushLabels
    BY <1>0, <1>1 DEF Threads, TypeOK
  <2>2. \A d \in Consumers : pc'[d] \in PopLabels
    BY <1>0, <1>1 DEF Threads, TypeOK, PopLabels
  <2> QED BY <1>0, <1>1, <1>2, <2>1, <2>2 DEF TypeOK, PopLabels
<1>6. \A t \in Nat : dequeue_pos <= t /\ t < dequeue_pos + Capacity /\ t # pos[c] + Capacity
                       => storage'[Slot(t)] = storage[Slot(t)]
  BY <1>0, <1>2, SlotInRange, PopperAlone
<1>7. \A q \in Pushing \cup Popping : q # c =>
         storage'[Slot(pos[q])] = storage[Slot(pos[q])] /\ pc'[q] = pc[q] /\ item'[q] = item[q]
  BY <1>0, <1>1, <1>2, <1>4, PopperAlone
<1>8. Window'
  BY <1>1 DEF Window
<1>9. Filled'
  <2> SUFFICES ASSUME NEW t \in Nat, dequeue_pos <= t, t < enqueue_pos
               PROVE  storage'[Slot(t)] = storage[Slot(t)]
    BY <1>1, <1>3 DEF Filled
  <2> QED BY <1>0, <1>6 DEF Window, PopperInv
<1>10. Free'
  <2> SUFFICES ASSUME NEW t \in Nat, enqueue_pos <= t, t < dequeue_pos + Capacity
               PROVE  \/ sequence[Slot(t)] = t /\ storage'[Slot(t)] = NoItem
                      \/ /\ sequence[Slot(t)] = t - Capacity + 1
                         /\ \E d \in Popping : pos[d] = t - Capacity
    BY <1>1, <1>3 DEF Free
  <2>1. CASE t # pos[c] + Capacity
    <3>1. storage'[Slot(t)] = storage[Slot(t)]
      BY <1>0, <1>6, <2>1 DEF Window
    <3> QED BY <3>1 DEF Free
  <2>2. CASE t = pos[c] + Capacity
    <3>1. Slot(t) = Slot(pos[c])
      BY <1>0, <2>2, SlotPeriodic
    <3> QED BY <1>0, <2>2, <3>1 DEF PopperInv
  <2> QED BY <2>1, <2>2
<1>11. PusherInv'
  <2>1. c \notin Pushing
    BY <1>0 DEF Pushing
  <2> QED BY <1>1, <1>3, <1>7, <2>1 DEF PusherInv
<1>12. PopperInv'
  BY <1>0, <1>1, <1>2, <1>3, <1>7 DEF PopperInv
<1>13. ClaimedOnce'
  BY <1>1, <1>3 DEF ClaimedOnce
<1>14. ProducerInv'
  BY <1>0, <1>1 DEF ProducerInv, Threads
<1>15. ConsumerInv'
  BY <1>0, <1>1 DEF ConsumerInv, Threads
<1>16. Dead'
  BY <1>0, <1>1 DEF Dead
<1> QED BY <1>5, <1>8, <1>9, <1>10, <1>11, <1>12, <1>13, <1>14, <1>15, <1>16

(* The slot goes back to the producers, for its next turn.                  *)
LEMMA TryPopReleases ==
  ASSUME IndInv, NEW c \in Consumers, TryPopRelease(c)
  PROVE  IndInv'
<1> USE CapacityAssumption DEF IndInv, RingInv
<1>0. /\ c \in Threads /\ c \notin Producers /\ c \in Popping
      /\ enqueue_pos \in Nat /\ dequeue_pos \in Nat /\ pos[c] \in Nat
  BY ThreadsAssumption DEF Threads, TryPopRelease, TypeOK, Goto, Return, Popping
<1>1. /\ UNCHANGED <<storage, enqueue_pos, dequeue_pos, item, log, lifetime>>
      /\ pc[c] = "release" /\ pc'[c] = "idle" /\ pc' = [pc EXCEPT ![c] = "idle"]
      /\ pos' = [pos EXCEPT ![c] = 0]
      /\ \A t \in Threads \ {c} : pc'[t] = pc[t] /\ pos'[t] = pos[t]
  BY <1>0 DEF TryPopRelease, Goto, Return, TypeOK
<1>2. /\ Slot(pos[c]) \in 0 .. Capacity - 1 /\ sequence'[Slot(pos[c])] = pos[c] + Capacity
      /\ \A i \in 0 .. Capacity - 1 : i # Slot(pos[c]) => sequence'[i] = sequence[i]
      /\ sequence' \in [0 .. Capacity - 1 -> Nat]
  <2>1. Slot(pos[c]) \in 0 .. Capacity - 1 /\ pos[c] + Capacity \in Nat
    BY <1>0, SlotInRange
  <2> QED BY <2>1 DEF TryPopRelease, TypeOK, ReleasedTurn
<1>3. Popping' = Popping \ {c} /\ Pushing' = Pushing
  BY <1>0, <1>1 DEF Pushing, Popping, Threads
<1>4. \A q \in Pushing \cup Popping :
         q \in Threads /\ pos[q] \in Nat /\ Slot(pos[q]) \in 0 .. Capacity - 1
  BY SlotInRange DEF Pushing, Popping, Threads, TypeOK
<1>5. TypeOK'
  <2>1. \A p \in Producers : pc'[p] \in PushLabels
    BY <1>0, <1>1 DEF Threads, TypeOK
  <2>2. \A d \in Consumers : pc'[d] \in PopLabels
    BY <1>0, <1>1 DEF Threads, TypeOK, PopLabels
  <2> QED BY <1>0, <1>1, <1>2, <2>1, <2>2 DEF TypeOK, PopLabels
<1>6. \A t \in Nat : dequeue_pos <= t /\ t < dequeue_pos + Capacity /\ t # pos[c] + Capacity
                       => sequence'[Slot(t)] = sequence[Slot(t)]
  BY <1>0, <1>2, SlotInRange, PopperAlone
<1>7. \A q \in Pushing \cup Popping : q # c =>
         sequence'[Slot(pos[q])] = sequence[Slot(pos[q])] /\ pc'[q] = pc[q] /\ pos'[q] = pos[q]
  BY <1>0, <1>1, <1>2, <1>4, PopperAlone
<1>8. Window'
  BY <1>1 DEF Window
<1>9. Filled'
  <2> SUFFICES ASSUME NEW t \in Nat, dequeue_pos <= t, t < enqueue_pos
               PROVE  \/ sequence'[Slot(t)] = t + 1 /\ storage[Slot(t)] = log[t + 1]
                      \/ sequence'[Slot(t)] = t /\ \E p \in Pushing : pos'[p] = t
    BY <1>1, <1>3 DEF Filled
  <2>1. sequence'[Slot(t)] = sequence[Slot(t)]
    BY <1>0, <1>6 DEF Window, PopperInv
  <2>2. \A p \in Pushing : pos'[p] = pos[p]
    BY <1>0, <1>7 DEF Pushing
  <2> QED BY <2>1, <2>2 DEF Filled
<1>10. Free'
  <2> SUFFICES ASSUME NEW t \in Nat, enqueue_pos <= t, t < dequeue_pos + Capacity
               PROVE  \/ sequence'[Slot(t)] = t /\ storage[Slot(t)] = NoItem
                      \/ /\ sequence'[Slot(t)] = t - Capacity + 1
                         /\ \E d \in Popping \ {c} : pos'[d] = t - Capacity
    BY <1>1, <1>3 DEF Free
  <2>1. CASE t # pos[c] + Capacity
    <3>1. sequence'[Slot(t)] = sequence[Slot(t)]
      BY <1>0, <1>6, <2>1 DEF Window
    <3>2. \A d \in Popping : pos[d] = t - Capacity => d # c /\ pos'[d] = pos[d]
      BY <1>0, <1>7, <2>1
    <3> QED BY <3>1, <3>2 DEF Free
  <2>2. CASE t = pos[c] + Capacity
    <3>1. Slot(t) = Slot(pos[c])
      BY <1>0, <2>2, SlotPeriodic
    <3> QED BY <1>0, <1>1, <1>2, <2>2, <3>1 DEF PopperInv
  <2> QED BY <2>1, <2>2
<1>11. PusherInv'
  <2>1. c \notin Pushing
    BY <1>0 DEF Pushing
  <2> QED BY <1>1, <1>3, <1>7, <2>1 DEF PusherInv
<1>12. PopperInv'
  BY <1>1, <1>3, <1>7 DEF PopperInv
<1>13. ClaimedOnce'
  <2>1. c \notin Pushing
    BY <1>0 DEF Pushing
  <2> QED BY <1>3, <1>7, <2>1 DEF ClaimedOnce
<1>14. ProducerInv'
  <2>1. sequence[Slot(enqueue_pos)] = enqueue_pos /\ enqueue_pos < dequeue_pos + Capacity
           => sequence'[Slot(enqueue_pos)] = enqueue_pos
    <3>1. CASE enqueue_pos = pos[c] + Capacity
      BY <1>0, <1>2, <3>1, SlotPeriodic
    <3>2. CASE enqueue_pos # pos[c] + Capacity
      BY <1>0, <1>6, <3>2 DEF Window
    <3> QED BY <3>1, <3>2
  <2> QED BY <1>0, <1>1, <2>1 DEF ProducerInv, Threads
<1>15. ConsumerInv'
  <2>1. sequence[Slot(dequeue_pos)] = dequeue_pos + 1 /\ dequeue_pos < enqueue_pos
           => sequence'[Slot(dequeue_pos)] = dequeue_pos + 1
    BY <1>0, <1>2, <1>6, SMTT(40) DEF Window, PopperInv
  <2> QED BY <1>0, <1>1, <2>1 DEF ConsumerInv, Threads
<1>16. Dead'
  BY <1>0, <1>1 DEF Dead
<1> QED BY <1>5, <1>8, <1>9, <1>10, <1>11, <1>12, <1>13, <1>14, <1>15, <1>16

(* The destructor runs with no call under way, so it stops exactly at       *)
(* enqueue_pos and hands every drained slot back.                           *)
LEMMA Destroys ==
  ASSUME IndInv, Destroy
  PROVE  IndInv'
<1> USE CapacityAssumption DEF IndInv, RingInv
<1>0. enqueue_pos \in Nat /\ dequeue_pos \in Nat
  BY DEF TypeOK
<1>1. Pushing = {} /\ Popping = {} /\ \A t \in Threads : pc[t] = "idle"
  BY DEF Destroy, Pushing, Popping, Threads
<1>2. /\ Window
      /\ \A t \in Nat : dequeue_pos <= t /\ t < enqueue_pos =>
            sequence[Slot(t)] = t + 1 /\ storage[Slot(t)] = log[t + 1]
      /\ \A t \in Nat : enqueue_pos <= t /\ t < dequeue_pos + Capacity =>
            sequence[Slot(t)] = t /\ storage[Slot(t)] = NoItem
  BY <1>1 DEF Filled, Free
<1>3. PICK t \in dequeue_pos .. dequeue_pos + Capacity :
          /\ \A u \in Drained(t) : PopDiff(u) = 0
          /\ t < dequeue_pos + Capacity => PopDiff(t) < 0
          /\ dequeue_pos' = t
          /\ storage' = [i \in DOMAIN storage |->
                IF \E u \in Drained(t) : Slot(u) = i THEN AfterMove(storage[i]) ELSE storage[i]]
          /\ sequence' = [i \in DOMAIN sequence |->
                IF \E u \in Drained(t) : Slot(u) = i THEN ReleasedTurn(sequence[i] - 1)
                                                    ELSE sequence[i]]
  BY DEF Destroy
<1>4. t = enqueue_pos
  <2>1. t \in Nat
    BY <1>0, <1>3
  <2>2. CASE t < enqueue_pos
    BY <1>0, <1>2, <1>3, <2>1, <2>2 DEF PopDiff, Window
  <2>3. CASE t > enqueue_pos
    <3>1. enqueue_pos \in Drained(t) /\ enqueue_pos < dequeue_pos + Capacity
      BY <1>0, <1>2, <1>3, <2>1, <2>3 DEF Window, Drained
    <3> QED BY <1>0, <1>2, <1>3, <3>1 DEF PopDiff
  <2> QED BY <1>0, <2>1, <2>2, <2>3
<1>5. /\ UNCHANGED <<enqueue_pos, pc, pos, item, log>> /\ lifetime' = "destroyed"
      /\ dequeue_pos' = enqueue_pos /\ Pushing' = {} /\ Popping' = {}
  BY <1>1, <1>3, <1>4 DEF Destroy, Pushing, Popping
<1>6. \A u \in Nat : u \in Drained(t) <=> dequeue_pos <= u /\ u < enqueue_pos
  BY <1>0, <1>4 DEF Drained
<1>7. TypeOK'
  <2>1. sequence' \in [0 .. Capacity - 1 -> Nat]
    <3>1. ASSUME NEW i \in 0 .. Capacity - 1, NEW u \in Drained(t), Slot(u) = i
          PROVE  sequence[i] - 1 + Capacity \in Nat
      <4>1. u \in Nat /\ dequeue_pos <= u /\ u < enqueue_pos
        BY <1>0, <1>4 DEF Drained
      <4>2. sequence[i] = u + 1
        BY <1>2, <3>1, <4>1
      <4> QED BY <4>1, <4>2
    <3>2. \A i \in 0 .. Capacity - 1 : sequence'[i] \in Nat
      BY <1>3, <3>1 DEF TypeOK, ReleasedTurn
    <3> QED BY <1>3, <3>2 DEF TypeOK
  <2>2. storage' \in [0 .. Capacity - 1 -> Items \cup {NoItem}]
    BY <1>3 DEF TypeOK, AfterMove
  <2> QED BY <1>0, <1>5, <2>1, <2>2 DEF TypeOK
<1>8. Window'
  BY <1>0, <1>2, <1>5 DEF Window
<1>9. Filled'
  BY <1>0, <1>5 DEF Filled
<1>10. Free'
  <2> SUFFICES ASSUME NEW u \in Nat, enqueue_pos <= u, u < enqueue_pos + Capacity
               PROVE  sequence'[Slot(u)] = u /\ storage'[Slot(u)] = NoItem
    BY <1>5 DEF Free
  <2>0. Slot(u) \in DOMAIN sequence /\ Slot(u) \in DOMAIN storage
    BY SlotInRange DEF TypeOK
  <2>1. CASE u < dequeue_pos + Capacity
    <3>1. ASSUME NEW v \in Drained(t), Slot(v) = Slot(u) PROVE FALSE
      <4>1. v \in Nat /\ dequeue_pos <= v /\ v < enqueue_pos
        BY <1>0, <1>4 DEF Drained
      <4> QED BY <1>0, <2>1, <3>1, <4>1, SlotInjective
    <3> QED BY <1>2, <1>3, <2>0, <2>1, <3>1
  <2>2. CASE dequeue_pos + Capacity <= u
    <3> DEFINE v == u - Capacity
    <3>1. v \in Nat /\ dequeue_pos <= v /\ v < enqueue_pos
      BY <1>0, <2>2
    <3>2. Slot(v) = Slot(u) /\ v \in Drained(t)
      <4>1. v + Capacity = u
        BY <3>1
      <4> QED BY <1>6, <3>1, <4>1, SlotPeriodic
    <3>3. sequence[Slot(u)] = v + 1
      BY <1>2, <3>1, <3>2
    <3>4. sequence'[Slot(u)] = sequence[Slot(u)] - 1 + Capacity /\ storage'[Slot(u)] = NoItem
      BY <1>3, <2>0, <3>2 DEF ReleasedTurn, AfterMove
    <3> QED BY <3>1, <3>3, <3>4
  <2> QED BY <1>0, <2>1, <2>2
<1>11. PusherInv' /\ PopperInv' /\ ClaimedOnce'
  BY <1>5 DEF PusherInv, PopperInv, ClaimedOnce
<1>12. ProducerInv' /\ ConsumerInv'
  BY <1>1, <1>5 DEF ProducerInv, ConsumerInv, Threads
<1>13. Dead'
  BY <1>1, <1>5 DEF Dead
<1> QED BY <1>7, <1>8, <1>9, <1>10, <1>11, <1>12, <1>13

----------------------------------------------------------------------------
\* The constructor's queue, slot i open for ticket i, satisfies the invariant.
(* A new queue satisfies the invariant. *)
LEMMA InitIndInv == Init => IndInv
<1> SUFFICES ASSUME Init PROVE IndInv
  OBVIOUS
<1> USE CapacityAssumption DEF Init
<1>1. TypeOK
  BY DEF TypeOK, Threads, PushLabels, PopLabels
<1>2. Pushing = {} /\ Popping = {}
  BY DEF Pushing, Popping, Threads
<1>3. Window /\ Filled
  BY DEF Window, Filled
<1>4. Free
  <2>1. \A t \in Nat : t < Capacity => Slot(t) = t
    BY DEF Slot
  <2> QED BY <2>1 DEF Free
<1>5. PusherInv /\ PopperInv /\ ClaimedOnce
  BY <1>2 DEF PusherInv, PopperInv, ClaimedOnce
<1>6. ProducerInv /\ ConsumerInv /\ Dead
  BY DEF ProducerInv, ConsumerInv, Dead, Threads
<1> QED BY <1>1, <1>3, <1>4, <1>5, <1>6 DEF IndInv, RingInv

\* A step of something other than the queue preserves it.
(* A step that changes nothing keeps the invariant. *)
LEMMA StutterIndInv == IndInv /\ UNCHANGED vars => IndInv'
  BY DEF IndInv, RingInv, TypeOK, Window, Filled, Free, PusherInv, PopperInv, ClaimedOnce,
         ProducerInv, ConsumerInv, Dead, Pushing, Popping, vars

\* So does every step of a producer, a consumer or the destructor.
(* Every step of producers, consumers and the destructor keeps the          *)
(* invariant.                                                               *)
LEMMA NextIndInv == IndInv /\ [Next]_vars => IndInv'
<1> SUFFICES ASSUME IndInv, [Next]_vars PROVE IndInv'
  OBVIOUS
<1>1. ASSUME NEW p \in Producers, Emplace(p) PROVE IndInv'
  BY <1>1, EmplaceReads, EmplaceClaims, EmplaceConstructs, EmplacePublishes DEF Emplace
<1>2. ASSUME NEW c \in Consumers, TryPop(c) PROVE IndInv'
  BY <1>2, TryPopReads, TryPopClaims, TryPopMoves, TryPopReleases DEF TryPop
<1>3. CASE Destroy
  BY <1>3, Destroys
<1>4. CASE UNCHANGED vars
  BY <1>4, StutterIndInv
<1> QED BY <1>1, <1>2, <1>3, <1>4 DEF Next

(* The tickets of the window and the owners of the slots always fit         *)
(* together as IndInv says.                                                 *)
THEOREM Invariance == Spec => []IndInv
  BY InitIndInv, NextIndInv, PTL DEF Spec

(* Every variable keeps its type in every step of emplace, try_pop and the  *)
(* destructor; in particular every logged element is a pushed one.          *)
THEOREM TypeCorrect == Spec => []TypeOK
  BY Invariance, PTL DEF IndInv

(* No two threads ever access the storage of one slot together, whatever    *)
(* the number of threads: the ring has no data race on its elements.        *)
THEOREM SlotsExclusive == Spec => []SlotExclusive
<1>1. IndInv => SlotExclusive
  <2> SUFFICES ASSUME IndInv, NEW i \in 0 .. Capacity - 1,
                      NEW s \in Owners(i), NEW t \in Owners(i), s # t
               PROVE  FALSE
    BY DEF SlotExclusive
  <2>1. /\ s \in Pushing \cup Popping /\ t \in Pushing \cup Popping
        /\ Slot(pos[s]) = Slot(pos[t])
    BY DEF IndInv, TypeOK, Owners, Pushing, Popping, Threads, PushLabels, PopLabels
  <2> QED BY <2>1, PusherAlone, PopperAlone DEF IndInv
<1> QED BY <1>1, Invariance, PTL

(* An element is constructed only into empty storage, and a consumer moves  *)
(* out exactly the element pushed with its ticket.                          *)
THEOREM NeverOverwritten == Spec => []NoOverwrite
<1>1. IndInv => NoOverwrite
  BY DEF IndInv, RingInv, PusherInv, PopperInv, NoOverwrite, Pushing, Popping
<1> QED BY <1>1, Invariance, PTL

----------------------------------------------------------------------------
(* Every slot is the slot of a ticket of the window that starts at d.       *)
LEMMA SlotSurjective ==
  \A d \in Nat, i \in 0 .. Capacity - 1 :
     \E t \in Nat : d <= t /\ t < d + Capacity /\ Slot(t) = i
<1> SUFFICES ASSUME NEW d \in Nat, NEW i \in 0 .. Capacity - 1
             PROVE  \E t \in Nat : d <= t /\ t < d + Capacity /\ Slot(t) = i
  OBVIOUS
<1> DEFINE q == d \div Capacity
           r == d % Capacity
<1>1. q \in Nat /\ r \in 0 .. Capacity - 1 /\ d = (Capacity * q) + r
  BY CapacityAssumption
<1> HIDE DEF q, r
<1>2. \A k \in Nat : Slot((Capacity * k) + i) = i
  <2> SUFFICES ASSUME NEW k \in Nat PROVE Slot((Capacity * k) + i) = i
    OBVIOUS
  <2> DEFINE t == (Capacity * k) + i
             tq == t \div Capacity
             tr == t % Capacity
  <2>1. Capacity * k \in Nat
    BY CapacityAssumption
  <2>2. t \in Nat
    BY <2>1
  <2> HIDE DEF t
  <2>3. tq \in Int /\ tr \in 0 .. Capacity - 1 /\ t = (Capacity * tq) + tr
    BY <2>2, CapacityAssumption
  <2> HIDE DEF tq, tr
  <2>4. tr - i = Capacity * (k - tq)
    BY <2>2, <2>3, CapacityAssumption DEF t
  <2>5. k - tq < 1 /\ k - tq > -1
    BY <2>3, <2>4, CapacityAssumption
  <2>6. tr = i
    BY <2>3, <2>4, <2>5, CapacityAssumption
  <2> QED BY <2>6 DEF Slot, tr, t
<1>3. CASE r <= i
  <2> DEFINE t == (Capacity * q) + i
  <2>1. t \in Nat /\ d <= t /\ t < d + Capacity
    BY <1>1, <1>3, CapacityAssumption
  <2> QED BY <1>1, <1>2, <2>1
<1>4. CASE i < r
  <2> DEFINE t == (Capacity * (q + 1)) + i
  <2>1. Capacity * (q + 1) = (Capacity * q) + Capacity
    BY <1>1, CapacityAssumption
  <2>2. t \in Nat /\ d <= t /\ t < d + Capacity
    BY <1>1, <1>4, <2>1, CapacityAssumption
  <2> QED BY <1>1, <1>2, <2>2
<1> QED BY <1>1, <1>3, <1>4

(* ~MpmcQueue destroys every element that was pushed and not popped.        *)
THEOREM DestructorDrains == Spec => []DestroyedIsEmpty
<1>1. IndInv => DestroyedIsEmpty
  <2> SUFFICES ASSUME IndInv, lifetime = "destroyed", NEW i \in 0 .. Capacity - 1
               PROVE  storage[i] = NoItem
    BY DEF DestroyedIsEmpty
  <2>1. dequeue_pos \in Nat /\ dequeue_pos = enqueue_pos /\ Popping = {}
    BY DEF IndInv, Dead, Popping, Threads, TypeOK
  <2>2. PICK t \in Nat : dequeue_pos <= t /\ t < dequeue_pos + Capacity /\ Slot(t) = i
    BY <2>1, SlotSurjective
  <2> QED BY <2>1, <2>2 DEF IndInv, RingInv, Free
<1> QED BY <1>1, Invariance, PTL

(* A slot is never behind a ticket that has been claimed: a thread with a   *)
(* stale position sees that others have passed it.                          *)
LEMMA PassedTurn ==
  ASSUME TypeOK, RingInv, NEW u \in Nat
  PROVE  /\ u < enqueue_pos => sequence[Slot(u)] >= u
         /\ u < dequeue_pos => sequence[Slot(u)] >= u + 1
<1> USE CapacityAssumption DEF RingInv
<1>0. enqueue_pos \in Nat /\ dequeue_pos \in Nat /\ sequence[Slot(u)] \in Nat
  BY SlotInRange DEF TypeOK
<1>1. PICK t \in Nat : dequeue_pos <= t /\ t < dequeue_pos + Capacity /\ Slot(t) = Slot(u)
  BY <1>0, SlotInRange, SlotSurjective
<1>2. \/ t < enqueue_pos /\ sequence[Slot(u)] \in {t, t + 1}
      \/ enqueue_pos <= t /\ sequence[Slot(u)] \in {t, t - Capacity + 1}
  BY <1>0, <1>1 DEF Filled, Free
<1>3. ASSUME u < t PROVE u + Capacity <= t
  BY <1>1, <1>3, SlotInjective
<1>4. ASSUME t < u PROVE t + Capacity <= u
  BY <1>1, <1>4, SlotInjective
<1> QED BY <1>0, <1>1, <1>2, <1>3, <1>4 DEF Window

(* A thread's control state changes only by its own step.                   *)
LEMMA OwnSteps ==
  ASSUME TypeOK, [Next]_vars
  PROVE  /\ \A p \in Producers : pc'[p] # pc[p] => Emplace(p)
         /\ \A c \in Consumers : pc'[c] # pc[c] => TryPop(c)
<1>1. ASSUME NEW q \in Producers, Emplace(q)
      PROVE  \A t \in Threads : t # q => pc'[t] = pc[t]
  BY <1>1 DEF TypeOK, Emplace, Goto, Return, EmplaceBegin, EmplaceReady, EmplaceFull,
         EmplaceReload, EmplaceClaim, EmplaceClaimFails, EmplaceConstruct, EmplacePublish
<1>2. ASSUME NEW d \in Consumers, TryPop(d)
      PROVE  \A t \in Threads : t # d => pc'[t] = pc[t]
  BY <1>2 DEF TypeOK, TryPop, Goto, Return, TryPopBegin, TryPopReady, TryPopEmpty,
         TryPopReload, TryPopClaim, TryPopClaimFails, TryPopMove, TryPopRelease
<1>3. CASE Destroy \/ UNCHANGED vars
  BY <1>3 DEF Destroy, vars
<1> QED BY <1>1, <1>2, <1>3, ThreadsAssumption DEF Next, Threads

(* emplace reports "full" only while all slots are taken, by elements or by *)
(* the consumer that is about to free the slot it needs.                    *)
THEOREM FullOnlyWhenFull == Spec => FullIsFull
<1>1. IndInv /\ [Next]_vars => FullStep
  <2> SUFFICES ASSUME IndInv, [Next]_vars, NEW p \in Producers,
                      pc[p] = "load", pc'[p] = "idle"
               PROVE  \/ enqueue_pos - dequeue_pos = Capacity
                      \/ \E c \in Consumers : /\ pc[c] \in {"move", "release"}
                                              /\ pos[c] = enqueue_pos - Capacity
    BY DEF FullStep
  <2> USE CapacityAssumption DEF IndInv, RingInv
  <2>0. p \in Threads /\ pos[p] \in Nat /\ enqueue_pos \in Nat /\ dequeue_pos \in Nat
    BY DEF Threads, TypeOK
  <2>1. EmplaceFull(p)
    BY <2>0, OwnSteps
       DEF Emplace, Goto, Return, TypeOK, EmplaceBegin, EmplaceReady, EmplaceReload,
           EmplaceClaim, EmplaceClaimFails, EmplaceConstruct, EmplacePublish
  <2>2. sequence[Slot(pos[p])] \in Nat /\ sequence[Slot(pos[p])] < pos[p]
    <3>1. sequence[Slot(pos[p])] \in Nat
      BY <2>0, SlotInRange DEF TypeOK
    <3> QED BY <2>0, <2>1, <3>1 DEF EmplaceFull, PushDiff
  <2>3. pos[p] <= enqueue_pos
    BY DEF ProducerInv
  <2>4. CASE pos[p] = enqueue_pos
    BY <2>0, <2>2, <2>4 DEF Window, Free, Popping
  <2>5. CASE pos[p] < enqueue_pos
    BY <2>0, <2>2, <2>5, PassedTurn
  <2> QED BY <2>0, <2>3, <2>4, <2>5
<1> QED BY <1>1, Invariance, PTL DEF Spec, FullIsFull

(* try_pop reports "empty" only while nothing can be taken: no element, or  *)
(* the oldest one is still under construction.                              *)
THEOREM EmptyOnlyWhenEmpty == Spec => EmptyIsEmpty
<1>1. IndInv /\ [Next]_vars => EmptyStep
  <2> SUFFICES ASSUME IndInv, [Next]_vars, NEW c \in Consumers,
                      pc[c] = "load", pc'[c] = "idle"
               PROVE  \/ enqueue_pos = dequeue_pos
                      \/ \E p \in Producers : /\ pc[p] \in {"construct", "publish"}
                                              /\ pos[p] = dequeue_pos
    BY DEF EmptyStep
  <2> USE CapacityAssumption DEF IndInv, RingInv
  <2>0. c \in Threads /\ pos[c] \in Nat /\ enqueue_pos \in Nat /\ dequeue_pos \in Nat
    BY DEF Threads, TypeOK
  <2>1. TryPopEmpty(c)
    BY <2>0, OwnSteps
       DEF TryPop, Goto, Return, TypeOK, TryPopBegin, TryPopReady, TryPopReload,
           TryPopClaim, TryPopClaimFails, TryPopMove, TryPopRelease
  <2>2. sequence[Slot(pos[c])] \in Nat /\ sequence[Slot(pos[c])] < pos[c] + 1
    <3>1. sequence[Slot(pos[c])] \in Nat
      BY <2>0, SlotInRange DEF TypeOK
    <3> QED BY <2>0, <2>1, <3>1 DEF TryPopEmpty, PopDiff
  <2>3. pos[c] <= dequeue_pos
    BY DEF ConsumerInv
  <2>4. CASE pos[c] = dequeue_pos
    BY <2>0, <2>2, <2>4 DEF Window, Filled, Pushing
  <2>5. CASE pos[c] < dequeue_pos
    BY <2>0, <2>2, <2>5, PassedTurn
  <2> QED BY <2>0, <2>3, <2>4, <2>5
<1> QED BY <1>1, Invariance, PTL DEF Spec, EmptyIsEmpty

(* The ring implements BoundedQueue: every successful CAS of emplace is a   *)
(* Push, every successful CAS of try_pop a Pop that yields the oldest       *)
(* element, the destructor a Clear, and every other step is invisible.      *)
THEOREM Refinement == Spec => AbstractSpec
<1>1. Init => Abstract!Init
  BY DEF Init, Abstract!Init, Elements, Received, Threads
<1>2. IndInv /\ IndInv' /\ [Next]_vars => [Abstract!Next]_Abstract!vars
  <2> SUFFICES ASSUME IndInv, IndInv', [Next]_vars
               PROVE  [Abstract!Next]_Abstract!vars
    OBVIOUS
  <2> USE CapacityAssumption DEF IndInv, RingInv
  <2>0. enqueue_pos \in Nat /\ dequeue_pos \in Nat /\ log \in Seq(Items) /\ Len(log) = enqueue_pos
    BY DEF TypeOK, Window
  <2>1. ASSUME NEW p \in Producers, EmplaceClaim(p)
        PROVE  Abstract!Push(item[p]) /\ item[p] \in Items
    <3>1. item[p] \in Items /\ enqueue_pos < dequeue_pos + Capacity
      BY <2>1 DEF EmplaceClaim, Goto, ProducerInv
    <3>2. Received' = Received
      BY <2>1, ThreadsAssumption DEF Received, EmplaceClaim, Goto, TypeOK, Threads
    <3>3. Elements \in Seq(Items) /\ Len(Elements) = enqueue_pos - dequeue_pos
      BY <2>0 DEF Elements, Window
    <3>4. Elements' = Append(Elements, item[p])
      <4>1. /\ enqueue_pos' = enqueue_pos + 1 /\ dequeue_pos' = dequeue_pos
            /\ log' = Append(log, item[p]) /\ dequeue_pos <= enqueue_pos
        BY <2>1 DEF EmplaceClaim, Window
      <4>2. \A i \in 1 .. enqueue_pos - dequeue_pos : log'[dequeue_pos + i] = log[dequeue_pos + i]
        BY <2>0, <3>1, <4>1
      <4>3. log'[enqueue_pos + 1] = item[p]
        BY <2>0, <3>1, <4>1
      <4> DEFINE n == enqueue_pos - dequeue_pos
      <4>4. n \in Nat /\ dequeue_pos + (n + 1) = enqueue_pos + 1
        BY <2>0, <4>1
      <4>5. Elements' = [i \in 1 .. n + 1 |-> IF i = n + 1 THEN item[p] ELSE log[dequeue_pos + i]]
        <5>1. Elements' = [i \in 1 .. n + 1 |-> log'[dequeue_pos + i]]
          BY <2>0, <4>1 DEF Elements
        <5>2. \A i \in 1 .. n + 1 :
                 log'[dequeue_pos + i] = IF i = n + 1 THEN item[p] ELSE log[dequeue_pos + i]
          <6> SUFFICES ASSUME NEW i \in 1 .. n + 1
                       PROVE  log'[dequeue_pos + i] =
                                 IF i = n + 1 THEN item[p] ELSE log[dequeue_pos + i]
            OBVIOUS
          <6>1. CASE i = n + 1
            BY <4>3, <4>4, <6>1
          <6>2. CASE i # n + 1
            BY <4>2, <4>4, <6>2
          <6> QED BY <6>1, <6>2
        <5> QED BY <5>1, <5>2
      <4> HIDE DEF n
      <4>6. Elements = [i \in 1 .. n |-> log[dequeue_pos + i]] /\ Len(Elements) = n
        BY <3>3 DEF Elements, n
      <4> QED BY <3>1, <3>3, <4>4, <4>5, <4>6
    <3> QED BY <2>0, <3>1, <3>2, <3>3, <3>4 DEF Abstract!Push
  <2>2. ASSUME NEW c \in Consumers, TryPopClaim(c) PROVE Abstract!Pop(c)
    <3>1. /\ pos[c] = dequeue_pos /\ dequeue_pos < enqueue_pos
          /\ sequence[Slot(dequeue_pos)] = dequeue_pos + 1
          /\ storage[Slot(dequeue_pos)] = log[dequeue_pos + 1]
      <4>1. /\ pos[c] = dequeue_pos /\ dequeue_pos < enqueue_pos
            /\ sequence[Slot(dequeue_pos)] = dequeue_pos + 1
        BY <2>2 DEF TryPopClaim, PopCas, Goto, ConsumerInv
      <4> QED BY <2>0, <4>1 DEF Filled
    <3>2. Elements \in Seq(Items) /\ Len(Elements) = enqueue_pos - dequeue_pos
      BY <2>0 DEF Elements, Window
    <3>3. Elements # <<>> /\ Head(Elements) = log[dequeue_pos + 1]
      BY <2>0, <3>1, <3>2, SMTT(40) DEF Elements
    <3>4. Elements' = Tail(Elements)
      BY <2>0, <2>2, <3>1, <3>2 DEF Elements, TryPopClaim
    <3>5. Received' = [Received EXCEPT ![c] = log[dequeue_pos + 1]]
      BY <2>2, <3>1 DEF Received, TryPopClaim, Goto, TypeOK, Threads
    <3> QED BY <3>3, <3>4, <3>5 DEF Abstract!Pop
  <2>3. ASSUME NEW p \in Producers, EmplaceConstruct(p) PROVE UNCHANGED <<Elements, Received>>
    <3>1. p \in Pushing /\ pos[p] \in Nat
      BY <2>3 DEF EmplaceConstruct, Goto, Pushing, TypeOK, Threads
    <3>2. ASSUME NEW c \in Consumers, pc[c] = "move"
          PROVE  storage'[Slot(pos[c])] = storage[Slot(pos[c])]
      <4>1. c \in Popping /\ pos[c] \in Nat
        BY <3>2 DEF Popping, TypeOK, Threads
      <4>2. Slot(pos[c]) # Slot(pos[p])
        BY <3>1, <4>1, PusherAlone
      <4> QED BY <2>3, <4>1, <4>2, SlotInRange DEF EmplaceConstruct, TypeOK
    <3> QED BY <2>3, <3>2, ThreadsAssumption
            DEF Elements, Received, EmplaceConstruct, Goto, TypeOK, Threads
  <2>4. ASSUME NEW c \in Consumers, TryPopMove(c) PROVE UNCHANGED <<Elements, Received>>
    <3>1. c \in Popping /\ pos[c] \in Nat
      BY <2>4 DEF TryPopMove, Goto, Popping, TypeOK, Threads
    <3>2. ASSUME NEW d \in Consumers, d # c, pc[d] = "move"
          PROVE  storage'[Slot(pos[d])] = storage[Slot(pos[d])]
      <4>1. d \in Popping /\ pos[d] \in Nat
        BY <3>2 DEF Popping, TypeOK, Threads
      <4>2. Slot(pos[d]) # Slot(pos[c])
        BY <3>1, <3>2, <4>1, PopperAlone
      <4> QED BY <2>4, <4>1, <4>2, SlotInRange DEF TryPopMove, TypeOK
    <3>3. pc[c] = "move" /\ pc'[c] = "release" /\ item'[c] = storage[Slot(pos[c])]
      BY <2>4 DEF TryPopMove, Goto, TypeOK, Threads
    <3> QED BY <2>4, <3>2, <3>3
            DEF Elements, Received, TryPopMove, Goto, TypeOK, Threads
  <2>5. CASE Destroy
    <3>1. dequeue_pos' = enqueue_pos' /\ Elements' = <<>>
      BY <2>0, <2>5 DEF Destroy, Dead, Elements, TypeOK
    <3>2. Received' = Received
      BY <2>5 DEF Destroy, Received, Threads
    <3> QED BY <3>1, <3>2 DEF Abstract!Next, Abstract!Clear
  <2>6. ASSUME NEW p \in Producers,
               \/ EmplaceBegin(p) \/ EmplaceReady(p) \/ EmplaceFull(p)
               \/ EmplaceReload(p) \/ EmplaceClaimFails(p) \/ EmplacePublish(p)
        PROVE  UNCHANGED <<Elements, Received>>
    <3>1. /\ UNCHANGED <<storage, log, enqueue_pos, dequeue_pos>>
          /\ \A d \in Consumers : pc'[d] = pc[d] /\ pos'[d] = pos[d] /\ item'[d] = item[d]
      BY <2>6, ThreadsAssumption, SMTT(40)
         DEF EmplaceBegin, EmplaceReady, EmplaceFull, EmplaceReload, EmplaceClaimFails,
             EmplacePublish, Goto, Return, TypeOK, Threads
    <3> QED BY <3>1 DEF Elements, Received
  <2>7. ASSUME NEW c \in Consumers,
               \/ TryPopBegin(c) \/ TryPopReady(c) \/ TryPopEmpty(c)
               \/ TryPopReload(c) \/ TryPopClaimFails(c) \/ TryPopRelease(c)
        PROVE  UNCHANGED <<Elements, Received>>
    <3>1. /\ UNCHANGED <<storage, item, log, enqueue_pos, dequeue_pos>>
          /\ pc[c] # "move" /\ pc'[c] # "move"
          /\ \A d \in Consumers \ {c} : pc'[d] = pc[d] /\ pos'[d] = pos[d]
      BY <2>7 DEF TryPopBegin, TryPopReady, TryPopEmpty, TryPopReload, TryPopClaimFails,
                  TryPopRelease, Goto, Return, TypeOK, Threads
    <3> QED BY <3>1 DEF Elements, Received
  <2>8. CASE UNCHANGED vars
    BY <2>8 DEF vars, Elements, Received, Abstract!vars
  <2> QED BY <2>1, <2>2, <2>3, <2>4, <2>5, <2>6, <2>7, <2>8
          DEF Next, Emplace, TryPop, Abstract!Next, Abstract!vars
<1> QED BY <1>1, <1>2, Invariance, PTL DEF Spec, AbstractSpec, Abstract!Spec
=============================================================================

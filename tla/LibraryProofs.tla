--------------------------- MODULE LibraryProofs ---------------------------
(***************************************************************************)
(* Proofs about the components that MCLibrary checks on small instances:   *)
(* the ring between two threads, the payloads of messages, the slab and    *)
(* the arena allocators, the scan of the model repository, the latency     *)
(* histogram and the LibTorch backend.                                     *)
(***************************************************************************)
EXTENDS SpscQueue, Actor, Slab, Arena, ModelRepository, LatencyHistogram, TorchBackend,
        FiniteSetTheorems, FunctionTheorems, SequenceTheorems, TLAPS

----------------------------------------------------------------------------
(* Arithmetic modulo the ring and modulo the word.                          *)

(* The remainder is determined by what it must satisfy. *)
LEMMA ModUnique ==
  ASSUME NEW c \in Nat \ {0}, NEW a \in Int, NEW q \in Int, NEW r \in 0 .. c - 1, a = (c * q) + r
  PROVE  a % c = r
<1> DEFINE p == a \div c
           s == a % c
<1>1. p \in Int /\ s \in 0 .. c - 1 /\ a = (c * p) + s
  OBVIOUS
<1> HIDE DEF p, s
<1>2. s - r = c * (q - p)
  BY <1>1
<1>3. q - p < 1 /\ q - p > -1
  BY <1>1, <1>2
<1>4. s = r
  BY <1>1, <1>2, <1>3
<1> QED BY <1>4 DEF s

(* One turn up or down. *)
LEMMA ModTurn ==
  ASSUME NEW c \in Nat \ {0}, NEW a \in Int
  PROVE  /\ 0 <= a /\ a < c => a % c = a
         /\ c <= a /\ a < 2 * c => a % c = a - c
         /\ -c <= a /\ a < 0 => a % c = a + c
<1>1. ASSUME 0 <= a, a < c PROVE a % c = a
  <2>1. a \in 0 .. c - 1 /\ a = (c * 0) + a
    BY <1>1
  <2> QED BY <2>1, ModUnique
<1>2. ASSUME c <= a, a < 2 * c PROVE a % c = a - c
  <2>1. a - c \in 0 .. c - 1 /\ a = (c * 1) + (a - c)
    BY <1>2
  <2> QED BY <2>1, ModUnique
<1>3. ASSUME -c <= a, a < 0 PROVE a % c = a + c
  <2>1. a + c \in 0 .. c - 1 /\ a = (c * (-1)) + (a + c)
    BY <1>3
  <2> QED BY <2>1, ModUnique
<1> QED BY <1>1, <1>2, <1>3

(* Adding and subtracting indices wraps around at the word. *)
LEMMA WordArithmetic ==
  ASSUME NEW i \in 0 .. WordSize - 1, NEW n \in 0 .. WordSize - 1
  PROVE  /\ Plus(i, n) = IF i + n < WordSize THEN i + n ELSE i + n - WordSize
         /\ Minus(i, n) = IF i >= n THEN i - n ELSE i - n + WordSize
<1>1. WordSize \in Nat \ {0} /\ i + n \in Int /\ i - n \in Int
  BY SpscAssumption
<1>2. Plus(i, n) = IF i + n < WordSize THEN i + n ELSE i + n - WordSize
  <2> DEFINE a == i + n
  <2>1. a \in Int /\ 0 <= a /\ a < 2 * WordSize
    BY <1>1
  <2>2. a % WordSize = IF a < WordSize THEN a ELSE a - WordSize
    <3> HIDE DEF a
    <3>1. (0 <= a /\ a < WordSize => a % WordSize = a)
          /\ (WordSize <= a /\ a < 2 * WordSize => a % WordSize = a - WordSize)
      BY <1>1, <2>1, ModTurn
    <3> QED BY <1>1, <2>1, <3>1
  <2>3. Plus(i, n) = a % WordSize
    BY DEF Plus
  <2> QED BY <1>1, <2>1, <2>2, <2>3
<1>3. Minus(i, n) = IF i >= n THEN i - n ELSE i - n + WordSize
  <2> DEFINE a == i - n
  <2>1. a \in Int /\ -WordSize <= a /\ a < WordSize /\ (i >= n <=> 0 <= a)
    BY <1>1
  <2>2. a % WordSize = IF 0 <= a THEN a ELSE a + WordSize
    <3> HIDE DEF a
    <3>1. (0 <= a /\ a < WordSize => a % WordSize = a)
          /\ (-WordSize <= a /\ a < 0 => a % WordSize = a + WordSize)
      BY <1>1, <2>1, ModTurn
    <3> QED BY <1>1, <2>1, <3>1
  <2> QED BY <2>1, <2>2 DEF Minus
<1> QED BY <1>2, <1>3

(* The word is a whole number of turns of the ring. *)
LEMMA SlotOfWrapped ==
  ASSUME NEW a \in Int
  PROVE  RingSlot(a - WordSize) = RingSlot(a) /\ RingSlot(a) \in 0 .. Capacity - 1
<1> DEFINE m == WordSize \div Capacity
           q == a \div Capacity
           r == a % Capacity
<1>1. Capacity \in Nat \ {0} /\ m \in Int /\ WordSize = Capacity * m
  BY SpscAssumption
<1>2. q \in Int /\ r \in 0 .. Capacity - 1 /\ a = (Capacity * q) + r
  BY <1>1
<1> HIDE DEF m, q, r
<1>3. a - WordSize = (Capacity * (q - m)) + r /\ a - WordSize \in Int /\ q - m \in Int
  BY <1>1, <1>2
<1>4. (a - WordSize) % Capacity = r
  BY <1>1, <1>2, <1>3, ModUnique
<1> QED BY <1>2, <1>4 DEF RingSlot, r

(* Positions less than a turn apart have slots of their own. *)
LEMMA SlotsApart ==
  ASSUME NEW i \in 0 .. WordSize - 1, NEW k \in 0 .. Capacity - 1, NEW l \in 0 .. Capacity - 1,
         RingSlot(Plus(i, k)) = RingSlot(Plus(i, l))
  PROVE  k = l
<1>1. /\ Capacity \in Nat \ {0} /\ WordSize \in Nat /\ WordSize > Capacity
      /\ i + k \in Int /\ i + l \in Int
  BY SpscAssumption
<1>2. Plus(i, k) \in {i + k, i + k - WordSize} /\ Plus(i, l) \in {i + l, i + l - WordSize}
  BY <1>1, WordArithmetic
<1>3. (i + k) % Capacity = (i + l) % Capacity
  <2>1. RingSlot(i + k - WordSize) = RingSlot(i + k) /\ RingSlot(i + l - WordSize) = RingSlot(i + l)
    BY <1>1, SlotOfWrapped
  <2>2. RingSlot(i + k) = RingSlot(i + l)
    BY <1>2, <2>1
  <2> QED BY <2>2 DEF RingSlot
<1> DEFINE p == (i + k) \div Capacity
           q == (i + l) \div Capacity
           r == (i + k) % Capacity
<1>4. p \in Int /\ q \in Int /\ r \in Int
      /\ i + k = (Capacity * p) + r /\ i + l = (Capacity * q) + r
  BY <1>1, <1>3
<1> HIDE DEF p, q, r
<1>5. l - k = Capacity * (q - p)
  BY <1>1, <1>4
<1>6. q - p < 1 /\ q - p > -1
  BY <1>1, <1>4, <1>5
<1> QED BY <1>1, <1>4, <1>5, <1>6

(* The distance between two indices, and what a step of either does to it. *)
LEMMA Distances ==
  ASSUME NEW h \in 0 .. WordSize - 1, NEW t \in 0 .. WordSize - 1
  PROVE  /\ Minus(t, h) \in 0 .. WordSize - 1
         /\ Minus(t, h) = 0 <=> t = h
         /\ Plus(h, Minus(t, h)) = t
         /\ Plus(h, 0) = h
         /\ Plus(t, 1) \in 0 .. WordSize - 1
         /\ Minus(t, h) + 1 < WordSize => Minus(Plus(t, 1), h) = Minus(t, h) + 1
         /\ t # h => Minus(t, Plus(h, 1)) = Minus(t, h) - 1
         /\ \A k \in 0 .. WordSize - 2 : Plus(Plus(h, 1), k) = Plus(h, k + 1)
<1>1. WordSize \in Nat /\ WordSize > 2
  BY SpscAssumption
<1>2. \A i, n \in 0 .. WordSize - 1 :
         /\ Plus(i, n) = IF i + n < WordSize THEN i + n ELSE i + n - WordSize
         /\ Minus(i, n) = IF i >= n THEN i - n ELSE i - n + WordSize
  BY WordArithmetic
<1>3. 0 \in 0 .. WordSize - 1 /\ 1 \in 0 .. WordSize - 1
  BY <1>1
<1>4. Minus(t, h) \in 0 .. WordSize - 1 /\ (Minus(t, h) = 0 <=> t = h)
  BY <1>1, <1>2
<1>5. Plus(h, Minus(t, h)) = t /\ Plus(h, 0) = h
  BY <1>1, <1>2, <1>3, <1>4
<1>6. ASSUME NEW i \in 0 .. WordSize - 1
      PROVE  /\ Plus(i, 1) = IF i + 1 < WordSize THEN i + 1 ELSE 0
             /\ Plus(i, 1) \in 0 .. WordSize - 1
  <2>1. Plus(i, 1) = IF i + 1 < WordSize THEN i + 1 ELSE i + 1 - WordSize
    BY <1>2, <1>3
  <2> QED BY <1>1, <2>1
<1>7. Minus(t, h) + 1 < WordSize => Minus(Plus(t, 1), h) = Minus(t, h) + 1
  <2>1. /\ Minus(Plus(t, 1), h) = IF Plus(t, 1) >= h THEN Plus(t, 1) - h ELSE Plus(t, 1) - h + WordSize
        /\ Minus(t, h) = IF t >= h THEN t - h ELSE t - h + WordSize
    BY <1>2, <1>6
  <2> QED BY <1>1, <1>6, <2>1
<1>8. t # h => Minus(t, Plus(h, 1)) = Minus(t, h) - 1
  <2>1. /\ Minus(t, Plus(h, 1)) = IF t >= Plus(h, 1) THEN t - Plus(h, 1) ELSE t - Plus(h, 1) + WordSize
        /\ Minus(t, h) = IF t >= h THEN t - h ELSE t - h + WordSize
    BY <1>2, <1>6
  <2> QED BY <1>1, <1>6, <2>1
<1>9. ASSUME NEW k \in 0 .. WordSize - 2 PROVE Plus(Plus(h, 1), k) = Plus(h, k + 1)
  <2>1. k \in 0 .. WordSize - 1 /\ k + 1 \in 0 .. WordSize - 1
    BY <1>1
  <2>2. /\ Plus(h, k + 1) = IF h + (k + 1) < WordSize THEN h + (k + 1) ELSE h + (k + 1) - WordSize
        /\ Plus(Plus(h, 1), k) = IF Plus(h, 1) + k < WordSize THEN Plus(h, 1) + k
                                 ELSE Plus(h, 1) + k - WordSize
    BY <1>2, <1>6, <2>1
  <2> QED BY <1>1, <1>6, <2>1, <2>2
<1> QED BY <1>4, <1>5, <1>6, <1>7, <1>8, <1>9

----------------------------------------------------------------------------
(* The ring.  The producer's claim of room and the consumer's sight of an    *)
(* element, taken from a load that is old by now, both still hold when they  *)
(* are used; a constructed element stays in its slot until it is published.  *)

RingInv ==
    /\ SpscTypeOK
    /\ Minus(tail, head) <= Capacity
    /\ producer \in {"construct", "publish"} => Minus(tail, head) < Capacity
    /\ consumer \in {"move", "release"} => tail # head
    /\ producer # "idle" => arg \in Items
    /\ producer = "publish" => buffer[RingSlot(tail)] = arg

(* A new ring is empty and its slots hold nothing. *)
LEMMA RingInit == SpscInit => RingInv
<1> SUFFICES ASSUME SpscInit PROVE RingInv
  OBVIOUS
<1>1. Minus(tail, head) = 0
  BY Distances, SpscAssumption DEF SpscInit
<1> QED BY <1>1, SpscAssumption DEF SpscInit, RingInv, SpscTypeOK

(* The slots the two threads write are apart. *)
LEMMA OwnSlots ==
  ASSUME RingInv
  PROVE  /\ RingSlot(head) \in 0 .. Capacity - 1 /\ RingSlot(tail) \in 0 .. Capacity - 1
         /\ tail # head /\ Minus(tail, head) < Capacity => RingSlot(head) # RingSlot(tail)
<1>1. head \in 0 .. WordSize - 1 /\ tail \in 0 .. WordSize - 1
  BY DEF RingInv, SpscTypeOK
<1>2. RingSlot(head) \in 0 .. Capacity - 1 /\ RingSlot(tail) \in 0 .. Capacity - 1
  BY <1>1, SlotOfWrapped, SpscAssumption
<1>3. ASSUME tail # head, Minus(tail, head) < Capacity, RingSlot(head) = RingSlot(tail) PROVE FALSE
  <2> DEFINE n == Minus(tail, head)
  <2>1. /\ n \in 0 .. Capacity - 1 /\ 0 \in 0 .. Capacity - 1 /\ n # 0
        /\ Plus(head, n) = tail /\ Plus(head, 0) = head
    BY <1>1, <1>3, Distances, SpscAssumption
  <2> HIDE DEF n
  <2> QED BY <1>1, <1>3, <2>1, SlotsApart
<1> QED BY <1>2, <1>3

(* Every step of either thread keeps the ring in order. *)
LEMMA RingStep == RingInv /\ [SpscNext]_spscVars => RingInv'
<1> SUFFICES ASSUME RingInv, [SpscNext]_spscVars PROVE RingInv'
  OBVIOUS
<1> USE SpscAssumption
<1> DEFINE n == Minus(tail, head)
<1>1. /\ head \in 0 .. WordSize - 1 /\ tail \in 0 .. WordSize - 1
      /\ buffer \in [0 .. Capacity - 1 -> Items \cup {NoItem}]
  BY DEF RingInv, SpscTypeOK
<1>2. /\ n \in 0 .. Capacity /\ (n = 0 <=> tail = head)
      /\ Plus(tail, 1) \in 0 .. WordSize - 1 /\ Plus(head, 1) \in 0 .. WordSize - 1
      /\ Minus(Plus(tail, 1), head) = n + 1
      /\ tail # head => Minus(tail, Plus(head, 1)) = n - 1
      /\ Minus(tail, tail) = 0
  <2>1. n \in 0 .. Capacity /\ n + 1 < WordSize
    <3>1. n \in 0 .. WordSize - 1
      BY <1>1, Distances
    <3>2. n <= Capacity
      BY DEF RingInv
    <3> HIDE DEF n
    <3> QED BY <3>1, <3>2
  <2> QED BY <1>1, <2>1, Distances
<1>3. /\ RingSlot(head) \in 0 .. Capacity - 1 /\ RingSlot(tail) \in 0 .. Capacity - 1
      /\ tail # head /\ n < Capacity => RingSlot(head) # RingSlot(tail)
  BY OwnSlots
<1> HIDE DEF n
<1>4. CASE \E x \in Items : EmplaceBegin(x)
  BY <1>4 DEF EmplaceBegin, RingInv, SpscTypeOK
<1>5. CASE EmplaceFull
  BY <1>5 DEF EmplaceFull, RingInv, SpscTypeOK
<1>6. CASE EmplaceHasRoom
  <2>1. n < Capacity
    BY <1>2, <1>6 DEF EmplaceHasRoom, RingFull
  <2> QED BY <1>6, <2>1 DEF EmplaceHasRoom, RingInv, SpscTypeOK, n
<1>7. CASE EmplaceConstruct
  <2>1. /\ buffer' \in [0 .. Capacity - 1 -> Items \cup {NoItem}]
        /\ buffer'[RingSlot(tail)] = arg
    BY <1>1, <1>3, <1>7 DEF EmplaceConstruct, RingInv, SpscTypeOK
  <2> QED BY <1>7, <2>1 DEF EmplaceConstruct, RingInv, SpscTypeOK
<1>8. CASE EmplacePublish
  <2>1. Minus(tail', head') = n + 1 /\ n < Capacity /\ tail' # head' /\ tail' \in 0 .. WordSize - 1
    <3>1. Minus(tail', head') = n + 1 /\ n < Capacity /\ tail' \in 0 .. WordSize - 1 /\ head' = head
      BY <1>2, <1>8 DEF EmplacePublish, RingInv, n
    <3>2. n + 1 # 0
      BY <1>2
    <3>3. tail' = head' <=> Minus(tail', head') = 0
      BY <1>1, <3>1, Distances, ZenonT(60)
    <3> QED BY <3>1, <3>2, <3>3
  <2> QED BY <1>2, <1>8, <2>1 DEF EmplacePublish, RingInv, SpscTypeOK
<1>9. CASE TryPopBegin \/ TryPopEmpty
  BY <1>9 DEF TryPopBegin, TryPopEmpty, RingInv, SpscTypeOK
<1>10. CASE TryPopHasItem
  BY <1>10 DEF TryPopHasItem, RingEmpty, RingInv, SpscTypeOK
<1>11. CASE TryPopMove
  <2>1. buffer' \in [0 .. Capacity - 1 -> Items \cup {NoItem}] /\ item' \in Items \cup {NoItem}
    BY <1>1, <1>3, <1>11 DEF TryPopMove, AfterMove
  <2>2. producer = "publish" => buffer'[RingSlot(tail)] = arg
    BY <1>1, <1>3, <1>11 DEF TryPopMove, RingInv, n
  <2> QED BY <1>11, <2>1, <2>2 DEF TryPopMove, RingInv, SpscTypeOK
<1>12. CASE TryPopRelease
  <2>1. Minus(tail', head') = n - 1 /\ head' \in 0 .. WordSize - 1
    BY <1>2, <1>12 DEF TryPopRelease, RingInv
  <2>2. n - 1 <= Capacity /\ (producer \in {"construct", "publish"} => n - 1 < Capacity)
    BY <1>2
  <2> QED BY <1>12, <2>1, <2>2 DEF TryPopRelease, RingInv, SpscTypeOK
<1>13. CASE Destroy
  <2>1. buffer' \in [0 .. Capacity - 1 -> Items \cup {NoItem}]
    BY <1>1, <1>13 DEF Destroy, Drained
  <2> QED BY <1>1, <1>2, <1>13, <2>1 DEF Destroy, RingInv, SpscTypeOK
<1>14. CASE UNCHANGED spscVars
  BY <1>14 DEF spscVars, RingInv, SpscTypeOK
<1> QED BY <1>4, <1>5, <1>6, <1>7, <1>8, <1>9, <1>10, <1>11, <1>12, <1>13, <1>14 DEF SpscNext

----------------------------------------------------------------------------
(* The ring implements the bounded FIFO.                                     *)

Storable == Items \cup {NoItem}

(* Sequences given by their elements. *)
LEMMA Appended ==
  ASSUME NEW n \in Nat, NEW s \in [1 .. n -> Storable], NEW t \in [1 .. n + 1 -> Storable],
         NEW x \in Storable, \A k \in 1 .. n : t[k] = s[k], t[n + 1] = x
  PROVE  t = Append(s, x) /\ Len(s) = n
<1>1. s \in Seq(Storable) /\ Len(s) = n
  OBVIOUS
<1>2. t \in Seq(Storable) /\ Len(t) = n + 1
  OBVIOUS
<1>3. Append(s, x) \in Seq(Storable) /\ Len(Append(s, x)) = n + 1
  BY <1>1
<1>4. ASSUME NEW k \in 1 .. n + 1 PROVE Append(s, x)[k] = t[k]
  BY <1>1
<1> QED BY <1>1, <1>2, <1>3, <1>4

(* A sequence whose entries are those of s moved down by one is Tail(s). *)
LEMMA Shortened ==
  ASSUME NEW n \in Nat, NEW s \in [1 .. n + 1 -> Storable], NEW t \in [1 .. n -> Storable],
         \A k \in 1 .. n : t[k] = s[k + 1]
  PROVE  t = Tail(s) /\ s # <<>> /\ Head(s) = s[1]
<1>1. s \in Seq(Storable) /\ Len(s) = n + 1
  OBVIOUS
<1>2. t \in Seq(Storable) /\ Len(t) = n
  OBVIOUS
<1>3. Tail(s) \in Seq(Storable) /\ Len(Tail(s)) = n /\ s # <<>> /\ Head(s) = s[1]
  BY <1>1
<1>4. ASSUME NEW k \in 1 .. n PROVE Tail(s)[k] = t[k]
  BY <1>1
<1> QED BY <1>1, <1>2, <1>3, <1>4

(* The slots of the elements in the ring, oldest first. *)
LEMMA OldestFacts ==
  ASSUME RingInv
  PROVE  LET n == Minus(tail, head)
             l == Minus(tail, Oldest)
         IN /\ Oldest \in 0 .. WordSize - 1
            /\ l = IF consumer = "release" THEN n - 1 ELSE n
            /\ l \in 0 .. Capacity
            /\ producer \in {"construct", "publish"} => l < Capacity
            /\ Plus(Oldest, l) = tail
            /\ RingElements \in [1 .. l -> Storable]
            /\ \A k \in 1 .. l : RingElements[k] = buffer[RingSlot(Plus(Oldest, k - 1))]
<1> DEFINE n == Minus(tail, head)
           l == Minus(tail, Oldest)
<1>1. /\ head \in 0 .. WordSize - 1 /\ tail \in 0 .. WordSize - 1
      /\ buffer \in [0 .. Capacity - 1 -> Storable]
  BY DEF RingInv, SpscTypeOK, Storable
<1>2. Oldest \in 0 .. WordSize - 1
  BY <1>1, Distances DEF Oldest
<1>3. l = IF consumer = "release" THEN n - 1 ELSE n
  BY <1>1, Distances DEF Oldest, RingInv
<1>4. n \in 0 .. WordSize - 1 /\ (n = 0 <=> tail = head) /\ l \in 0 .. WordSize - 1
      /\ Plus(Oldest, l) = tail
  BY <1>1, <1>2, Distances
<1>5. l \in 0 .. Capacity /\ (producer \in {"construct", "publish"} => l < Capacity)
  <2>1. n <= Capacity /\ (producer \in {"construct", "publish"} => n < Capacity)
    BY DEF RingInv
  <2> HIDE DEF n, l
  <2> QED BY <1>3, <1>4, <2>1, SpscAssumption
<1>6. ASSUME NEW k \in 1 .. l PROVE buffer[RingSlot(Plus(Oldest, k - 1))] \in Storable
  <2>1. k - 1 \in 0 .. WordSize - 1
    BY <1>5, SpscAssumption
  <2>2. Plus(Oldest, k - 1) \in Int
    BY <1>2, <2>1, WordArithmetic, SpscAssumption
  <2> QED BY <1>1, <2>2, SlotOfWrapped
<1>7. RingElements = [k \in 1 .. l |-> buffer[RingSlot(Plus(Oldest, k - 1))]]
  BY DEF RingElements
<1> HIDE DEF n, l
<1>8. /\ RingElements \in [1 .. l -> Storable]
      /\ \A k \in 1 .. l : RingElements[k] = buffer[RingSlot(Plus(Oldest, k - 1))]
  BY <1>6, <1>7
<1> QED BY <1>2, <1>3, <1>4, <1>5, <1>8 DEF n, l

(* The store to tail that publishes an element is the push of the FIFO. *)
LEMMA PublishPushes ==
  ASSUME RingInv, EmplacePublish PROVE arg \in Items /\ Abstract!Push(arg)
<1> DEFINE l == Minus(tail, Oldest)
<1>1. /\ Oldest \in 0 .. WordSize - 1 /\ tail \in 0 .. WordSize - 1
      /\ l \in 0 .. Capacity /\ l < Capacity /\ Plus(Oldest, l) = tail
      /\ RingElements \in [1 .. l -> Storable]
      /\ \A k \in 1 .. l : RingElements[k] = buffer[RingSlot(Plus(Oldest, k - 1))]
  BY OldestFacts DEF EmplacePublish, RingInv, SpscTypeOK
<1>2. arg \in Items /\ buffer[RingSlot(tail)] = arg
  BY DEF EmplacePublish, RingInv
<1>3. tail' = Plus(tail, 1) /\ Oldest' = Oldest /\ UNCHANGED <<buffer, item>>
  BY DEF EmplacePublish, Oldest
<1>4. Minus(tail', Oldest') = l + 1
  <2>1. l + 1 < WordSize
    <3> HIDE DEF l
    <3> QED BY <1>1, SpscAssumption
  <2> QED BY <1>1, <1>3, <2>1, Distances
<1>5. RingElements' = [k \in 1 .. l + 1 |-> buffer[RingSlot(Plus(Oldest, k - 1))]]
  BY <1>3, <1>4 DEF RingElements
<1> HIDE DEF l
<1>6. \A k \in 1 .. l + 1 : buffer[RingSlot(Plus(Oldest, k - 1))]
                               = IF k = l + 1 THEN arg ELSE RingElements[k]
  BY <1>1, <1>2
<1>7. /\ RingElements' \in [1 .. l + 1 -> Storable]
      /\ \A k \in 1 .. l : RingElements'[k] = RingElements[k]
      /\ RingElements'[l + 1] = arg
  <2>1. \A k \in 1 .. l + 1 : (IF k = l + 1 THEN arg ELSE RingElements[k]) \in Storable
    BY <1>1, <1>2 DEF Storable
  <2>2. \A k \in 1 .. l + 1 : RingElements'[k] = IF k = l + 1 THEN arg ELSE RingElements[k]
    BY <1>5, <1>6
  <2>3. RingElements' \in [1 .. l + 1 -> Storable]
    BY <1>5, <1>6, <2>1
  <2> QED BY <1>1, <2>2, <2>3
<1>8. RingElements' = Append(RingElements, arg) /\ Len(RingElements) = l
  <2>1. l \in Nat /\ arg \in Storable
    BY <1>1, <1>2, SpscAssumption DEF Storable
  <2> QED BY <1>1, <1>7, <2>1, Appended
<1>9. LastPopped' = LastPopped
  BY <1>3 DEF LastPopped
<1> QED BY <1>1, <1>2, <1>8, <1>9 DEF Abstract!Push

(* Moving the element out of its slot is the pop of the FIFO. *)
LEMMA MovePops ==
  ASSUME RingInv, TryPopMove PROVE Abstract!Pop("consumer")
<1> DEFINE n == Minus(tail, head)
<1>1. consumer = "move" /\ Oldest = head /\ Oldest' = Plus(head, 1) /\ tail' = tail /\ tail # head
  BY DEF TryPopMove, Oldest, RingInv
<1>2. /\ head \in 0 .. WordSize - 1 /\ tail \in 0 .. WordSize - 1 /\ n \in 0 .. Capacity /\ n # 0
      /\ RingElements \in [1 .. n -> Storable]
      /\ \A k \in 1 .. n : RingElements[k] = buffer[RingSlot(Plus(head, k - 1))]
      /\ buffer \in [0 .. Capacity - 1 -> Storable]
  <2>1. head \in 0 .. WordSize - 1 /\ tail \in 0 .. WordSize - 1
    BY DEF RingInv, SpscTypeOK
  <2> QED BY <1>1, <2>1, OldestFacts, Distances DEF RingInv, SpscTypeOK, Storable
<1>3. Minus(tail', Oldest') = n - 1
  BY <1>1, <1>2, Distances
<1>4. /\ RingSlot(head) \in 0 .. Capacity - 1
      /\ buffer' = [buffer EXCEPT ![RingSlot(head)] = NoItem]
      /\ item' = buffer[RingSlot(head)]
  BY OwnSlots DEF TryPopMove, AfterMove
<1>5. RingElements' = [k \in 1 .. n - 1 |-> buffer'[RingSlot(Plus(Plus(head, 1), k - 1))]]
  BY <1>1, <1>3 DEF RingElements
<1>6. Plus(head, 0) = head
  BY <1>2, Distances
<1> HIDE DEF n
<1>7. ASSUME NEW k \in 1 .. n - 1
      PROVE  buffer'[RingSlot(Plus(Plus(head, 1), k - 1))] = RingElements[k + 1]
  <2>1. /\ k \in 0 .. Capacity - 1 /\ 0 \in 0 .. Capacity - 1 /\ k # 0 /\ k + 1 \in 1 .. n
        /\ k - 1 \in 0 .. WordSize - 2 /\ (k - 1) + 1 = k /\ (k + 1) - 1 = k
        /\ k \in 0 .. WordSize - 1
    BY <1>2, SpscAssumption
  <2>2. Plus(Plus(head, 1), k - 1) = Plus(head, (k - 1) + 1)
    BY <1>2, <2>1, Distances
  <2>3. RingSlot(Plus(head, k)) # RingSlot(Plus(head, 0))
    BY <1>2, <2>1, SlotsApart
  <2>4. RingSlot(Plus(head, k)) \in 0 .. Capacity - 1
    <3>1. head \in 0 .. WordSize - 1 /\ k \in 0 .. WordSize - 1
      BY <1>2, <2>1
    <3>2. Plus(head, k) = IF head + k < WordSize THEN head + k ELSE head + k - WordSize
      BY <3>1, WordArithmetic
    <3>3. Plus(head, k) \in Int
      BY <3>1, <3>2, SpscAssumption
    <3> QED BY <3>3, SlotOfWrapped
  <2>5. RingElements[k + 1] = buffer[RingSlot(Plus(head, k))]
    BY <1>2, <2>1
  <2> QED BY <1>2, <1>4, <1>6, <2>1, <2>2, <2>3, <2>4, <2>5
<1>8. RingElements' \in [1 .. n - 1 -> Storable] /\ \A k \in 1 .. n - 1 : RingElements'[k] = RingElements[k + 1]
  <2>1. \A k \in 1 .. n - 1 : RingElements[k + 1] \in Storable
    BY <1>2, SpscAssumption
  <2> QED BY <1>5, <1>7, <2>1
<1>9. /\ RingElements' = Tail(RingElements) /\ RingElements # <<>>
      /\ Head(RingElements) = RingElements[1]
  <2> DEFINE m == n - 1
  <2>1. m \in Nat /\ m + 1 = n
    BY <1>2, SpscAssumption
  <2>2. /\ RingElements \in [1 .. m + 1 -> Storable] /\ RingElements' \in [1 .. m -> Storable]
        /\ \A k \in 1 .. m : RingElements'[k] = RingElements[k + 1]
    BY <1>2, <1>8, <2>1
  <2> HIDE DEF m
  <2> QED BY <2>1, <2>2, Shortened
<1>10. RingElements[1] = buffer[RingSlot(head)]
  <2>1. 1 \in 1 .. n /\ 1 - 1 = 0
    BY <1>2, SpscAssumption
  <2> QED BY <1>2, <1>6, <2>1
<1>11. LastPopped' = [LastPopped EXCEPT !["consumer"] = Head(RingElements)]
  BY <1>4, <1>9, <1>10 DEF LastPopped
<1> QED BY <1>9, <1>11 DEF Abstract!Pop

(* emplace of spsc_queue.hpp refuses an element only when the ring holds as many *)
(* as its capacity, also when the indices wrap around the word                    *)
(* (spsc_queue.hpp:94-97).                                                        *)
THEOREM RefusesOnlyWhenFull == SpscSpec => RefusesWhenFull
<1>1. RingInv /\ [SpscNext]_spscVars => RefusalStep
  <2> SUFFICES ASSUME RingInv, [SpscNext]_spscVars, producer = "load", producer' = "idle"
               PROVE  Len(RingElements) = IF consumer = "release" THEN Capacity - 1 ELSE Capacity
    BY DEF RefusalStep
  <2> DEFINE n == Minus(tail, head)
             l == Minus(tail, Oldest)
  <2>1. EmplaceFull
    BY DEF SpscNext, spscVars, EmplaceBegin, EmplaceHasRoom, EmplaceConstruct, EmplacePublish,
           TryPopBegin, TryPopEmpty, TryPopHasItem, TryPopMove, TryPopRelease, Destroy
  <2>2. /\ head \in 0 .. WordSize - 1 /\ tail \in 0 .. WordSize - 1 /\ n <= Capacity
        /\ Minus(Plus(tail, 1), head) > Capacity
    BY <2>1 DEF RingInv, SpscTypeOK, EmplaceFull, RingFull
  <2>3. n \in 0 .. WordSize - 1 /\ (n + 1 < WordSize => Minus(Plus(tail, 1), head) = n + 1)
    BY <2>2, Distances
  <2>4. /\ l = IF consumer = "release" THEN n - 1 ELSE n
        /\ l \in Nat /\ RingElements \in [1 .. l -> Storable]
    BY OldestFacts
  <2> HIDE DEF n, l
  <2>5. n = Capacity
    BY <2>2, <2>3, SpscAssumption
  <2>6. Len(RingElements) = l
    BY <2>4
  <2> QED BY <2>4, <2>5, <2>6
<1> QED BY <1>1, RingInit, RingStep, PTL DEF SpscSpec, RefusesWhenFull

(* emplace and try_pop of spsc_queue.hpp, with one thread on each side, are   *)
(* the push and the pop of a bounded FIFO: no element is lost, duplicated,    *)
(* overtaken or overwritten, also when the indices wrap around the word, for  *)
(* any capacity that divides the word (spsc_queue.hpp:65-137).                *)
THEOREM RingIsFifo == SpscSpec => AbstractSpec
<1>1. SpscInit => Abstract!Init
  <2> SUFFICES ASSUME SpscInit PROVE Abstract!Init
    OBVIOUS
  <2>1. Minus(tail, Oldest) = 0
    BY Distances, SpscAssumption DEF SpscInit, Oldest
  <2>2. RingElements = <<>>
    BY <2>1 DEF RingElements
  <2> QED BY <2>2 DEF SpscInit, LastPopped, Abstract!Init
<1>2. RingInv /\ [SpscNext]_spscVars => [Abstract!Next]_Abstract!vars
  <2> SUFFICES ASSUME RingInv, [SpscNext]_spscVars PROVE [Abstract!Next]_Abstract!vars
    OBVIOUS
  <2>1. CASE EmplacePublish
    BY <2>1, PublishPushes DEF Abstract!Next
  <2>2. CASE TryPopMove
    BY <2>2, MovePops DEF Abstract!Next
  <2>3. CASE EmplaceConstruct
    <3> DEFINE l == Minus(tail, Oldest)
    <3>1. /\ Oldest \in 0 .. WordSize - 1 /\ l \in 0 .. Capacity /\ l < Capacity
          /\ Plus(Oldest, l) = tail
          /\ RingElements = [k \in 1 .. l |-> buffer[RingSlot(Plus(Oldest, k - 1))]]
      BY <2>3, OldestFacts DEF EmplaceConstruct, RingElements
    <3>2. /\ Oldest' = Oldest /\ Minus(tail', Oldest') = l /\ UNCHANGED item
          /\ buffer' = [buffer EXCEPT ![RingSlot(tail)] = arg]
      BY <2>3 DEF EmplaceConstruct, Oldest
    <3>3. RingElements' = [k \in 1 .. l |-> buffer'[RingSlot(Plus(Oldest, k - 1))]]
      BY <3>2 DEF RingElements
    <3> HIDE DEF l
    <3>4. ASSUME NEW k \in 1 .. l
          PROVE  buffer'[RingSlot(Plus(Oldest, k - 1))] = buffer[RingSlot(Plus(Oldest, k - 1))]
      <4>1. /\ k - 1 \in 0 .. Capacity - 1 /\ l \in 0 .. Capacity - 1 /\ k - 1 # l
            /\ k - 1 \in 0 .. WordSize - 1
        BY <3>1, SpscAssumption
      <4>2. RingSlot(Plus(Oldest, k - 1)) # RingSlot(Plus(Oldest, l))
        BY <3>1, <4>1, SlotsApart
      <4>3. RingSlot(Plus(Oldest, k - 1)) \in 0 .. Capacity - 1
        <5>1. Plus(Oldest, k - 1) \in Int
          BY <3>1, <4>1, WordArithmetic, SpscAssumption, SMTT(40)
        <5> QED BY <5>1, SlotOfWrapped
      <4>4. buffer \in [0 .. Capacity - 1 -> Storable]
        BY DEF RingInv, SpscTypeOK, Storable
      <4> QED BY <3>1, <3>2, <4>2, <4>3, <4>4
    <3>5. RingElements' = RingElements /\ LastPopped' = LastPopped
      BY <3>1, <3>2, <3>3, <3>4 DEF LastPopped
    <3> QED BY <3>5 DEF Abstract!vars
  <2>4. CASE TryPopRelease
    <3>1. Oldest' = Oldest /\ UNCHANGED <<tail, buffer, item>>
      BY <2>4 DEF TryPopRelease, Oldest
    <3> QED BY <3>1 DEF RingElements, LastPopped, Abstract!vars
  <2>5. CASE Destroy
    <3>1. tail' = tail /\ Oldest' = tail /\ UNCHANGED item
      BY <2>5 DEF Destroy, Oldest
    <3>2. Minus(tail', Oldest') = 0
      BY <3>1, Distances DEF RingInv, SpscTypeOK
    <3>3. RingElements' = <<>> /\ LastPopped' = LastPopped
      BY <3>1, <3>2 DEF RingElements, LastPopped
    <3> QED BY <3>3 DEF Abstract!Next, Abstract!Clear
  <2>6. CASE \/ \E x \in Items : EmplaceBegin(x)
             \/ EmplaceFull \/ EmplaceHasRoom \/ TryPopBegin \/ TryPopEmpty \/ TryPopHasItem
             \/ UNCHANGED spscVars
    <3>1. Oldest' = Oldest /\ UNCHANGED <<tail, buffer, item>>
      BY <2>6 DEF EmplaceBegin, EmplaceFull, EmplaceHasRoom, TryPopBegin, TryPopEmpty, TryPopHasItem,
                  spscVars, Oldest
    <3> QED BY <3>1 DEF RingElements, LastPopped, Abstract!vars
  <2> QED BY <2>1, <2>2, <2>3, <2>4, <2>5, <2>6 DEF SpscNext
<1> QED BY <1>1, <1>2, RingInit, RingStep, PTL DEF SpscSpec, AbstractSpec, Abstract!Spec

----------------------------------------------------------------------------
(* The payloads of messages.                                                 *)

\* What a message can be.
Contents == {Inline} \cup {OnHeap(p) : p \in Payloads}

ActorTypeOK ==
    /\ message \in [Messages -> Contents]
    /\ mailbox \in [Mailboxes -> Seq(Contents)]
    /\ \A b \in Mailboxes : Len(mailbox[b]) <= MailboxCapacity
    /\ mailbox_of \in [{"registry", "actor", "sender"} -> Mailboxes \cup {Nobody}]
    /\ heap \in SUBSET Payloads

\* A message variable, or a place in a mailbox, owns block p.
InVariable(v, p) == message[v] = OnHeap(p)
InMailbox(b, i, p) == i \in 1 .. Len(mailbox[b]) /\ mailbox[b][i] = OnHeap(p)

\* Block p has at most one owner, and one exactly as long as it is not freed.
OneOwner(p) ==
    /\ p \in heap <=> \/ \E v \in Messages : InVariable(v, p)
                      \/ \E b \in Mailboxes : \E i \in Nat : InMailbox(b, i, p)
    /\ \A v, w \in Messages : InVariable(v, p) /\ InVariable(w, p) => v = w
    /\ \A v \in Messages, b \in Mailboxes : \A i \in Nat :
          ~(InVariable(v, p) /\ InMailbox(b, i, p))
    /\ \A b, c \in Mailboxes : \A i, j \in Nat :
          InMailbox(b, i, p) /\ InMailbox(c, j, p) => b = c /\ i = j

ActorInv == ActorTypeOK /\ \A p \in Payloads : OneOwner(p)

(* Nothing is on the heap before the first message is set. *)
LEMMA ActorStart == ActorInit => ActorInv
<1> SUFFICES ASSUME ActorInit PROVE ActorInv
  OBVIOUS
<1>1. ActorTypeOK
  BY ActorAssumption DEF ActorInit, ActorTypeOK, Contents, Mailboxes, Messages, Nobody
<1>2. ASSUME NEW p \in Payloads PROVE OneOwner(p)
  <2>1. \A v \in Messages : ~InVariable(v, p)
    BY DEF ActorInit, InVariable, Inline, OnHeap
  <2>2. \A b \in Mailboxes : \A i \in Nat : ~InMailbox(b, i, p)
    BY DEF ActorInit, InMailbox
  <2>3. p \notin heap
    BY DEF ActorInit
  <2> QED BY <2>1, <2>2, <2>3 DEF OneOwner
<1> QED BY <1>1, <1>2 DEF ActorInv

(* destroy() frees the block a message owns, and nothing else. *)
LEMMA FreedBlock ==
  ASSUME NEW m \in Contents, NEW p \in Payloads
  PROVE  p \in Freed(m) <=> m = OnHeap(p)
  BY ActorAssumption DEF Contents, Freed, Inline, OnHeap

(* is_inline tells the two kinds of content apart. *)
LEMMA InlineOrNot ==
  ASSUME NEW m \in Contents PROVE m.is_inline <=> m = Inline
<1>1. Inline.is_inline /\ \A p : ~OnHeap(p).is_inline
  BY DEF Inline, OnHeap
<1>2. m = Inline \/ \E p \in Payloads : m = OnHeap(p)
  BY DEF Contents
<1>3. CASE m = Inline
  BY <1>1, <1>3
<1>4. ASSUME NEW p \in Payloads, m = OnHeap(p) PROVE ~m.is_inline /\ m # Inline
  <2>1. ~m.is_inline
    BY <1>1, <1>4, Zenon
  <2> QED BY <1>1, <2>1, Zenon
<1> QED BY <1>2, <1>3, <1>4

(* A message that points to the heap is not an inline one. *)
LEMMA NotInline == \A p : Inline # OnHeap(p)
  BY DEF Inline, OnHeap

(* Two messages with the same pointer own the same block. *)
LEMMA SamePointer == \A p, q : OnHeap(p) = OnHeap(q) => p = q
  BY DEF OnHeap

(* Variable v is destroyed and set to m, which owns a block that is free. *)
LEMMA RenewStep ==
  ASSUME ActorInv, NEW v \in Messages, NEW m \in Contents,
         message' = [message EXCEPT ![v] = m], UNCHANGED <<mailbox, mailbox_of>>,
         heap' \in SUBSET Payloads,
         \A p \in Payloads : /\ p \in heap' <=> (p \in heap /\ message[v] # OnHeap(p)) \/ m = OnHeap(p)
                             /\ m = OnHeap(p) => p \notin heap \/ message[v] = OnHeap(p)
  PROVE  ActorInv'
<1>1. ActorTypeOK'
  BY DEF ActorInv, ActorTypeOK
<1>2. ASSUME NEW p \in Payloads PROVE OneOwner(p)'
  <2>1. \A w \in Messages : InVariable(w, p)' <=> IF w = v THEN m = OnHeap(p) ELSE InVariable(w, p)
    BY DEF InVariable, ActorInv, ActorTypeOK
  <2>2. \A b, i : InMailbox(b, i, p)' <=> InMailbox(b, i, p)
    BY DEF InMailbox
  <2>3. InVariable(v, p) <=> message[v] = OnHeap(p)
    BY DEF InVariable
  <2>4. OneOwner(p)
    BY DEF ActorInv
  <2>5. p \in heap' <=> \/ \E w \in Messages : InVariable(w, p)'
                        \/ \E b \in Mailboxes : \E i \in Nat : InMailbox(b, i, p)'
    BY <2>1, <2>2, <2>3, <2>4 DEF OneOwner
  <2>6. /\ \A u, w \in Messages : InVariable(u, p)' /\ InVariable(w, p)' => u = w
        /\ \A w \in Messages, b \in Mailboxes : \A i \in Nat :
              ~(InVariable(w, p)' /\ InMailbox(b, i, p)')
        /\ \A b, c \in Mailboxes : \A i, j \in Nat :
              InMailbox(b, i, p)' /\ InMailbox(c, j, p)' => b = c /\ i = j
    BY <2>1, <2>2, <2>3, <2>4 DEF OneOwner
  <2> QED BY <2>5, <2>6 DEF OneOwner
<1> QED BY <1>1, <1>2 DEF ActorInv

(* set and copy: the old block is freed, the new one is taken from the free *)
(* ones.                                                                    *)
LEMMA MessageSetStep ==
  ASSUME ActorInv, NEW v \in Messages, NEW w \in Messages, MessageSet(v) \/ MessageCopy(v, w)
  PROVE  ActorInv'
<1>1. message[v] \in Contents /\ message[w] \in Contents /\ heap \subseteq Payloads
  BY DEF ActorInv, ActorTypeOK
<1>2. \A p \in Payloads : p \in Freed(message[v]) <=> message[v] = OnHeap(p)
  BY <1>1, FreedBlock
<1>3. CASE /\ message' = [message EXCEPT ![v] = Inline] /\ heap' = heap \ Freed(message[v])
           /\ UNCHANGED <<mailbox, mailbox_of>>
  <2>1. Inline \in Contents
    BY DEF Contents
  <2>2. heap' \in SUBSET Payloads
    BY <1>1, <1>3
  <2>3. \A p \in Payloads : /\ p \in heap' <=> (p \in heap /\ message[v] # OnHeap(p)) \/ Inline = OnHeap(p)
                            /\ Inline = OnHeap(p) => p \notin heap \/ message[v] = OnHeap(p)
    BY <1>2, <1>3, NotInline
  <2> QED BY <1>3, <2>1, <2>2, <2>3, RenewStep
<1>4. ASSUME NEW q \in Payloads \ (heap \ Freed(message[v])),
             message' = [message EXCEPT ![v] = OnHeap(q)],
             heap' = (heap \ Freed(message[v])) \cup {q}, UNCHANGED <<mailbox, mailbox_of>>
      PROVE  ActorInv'
  <2>1. OnHeap(q) \in Contents
    BY DEF Contents
  <2>2. heap' \in SUBSET Payloads
    BY <1>1, <1>4
  <2>3. \A p \in Payloads : OnHeap(q) = OnHeap(p) <=> p = q
    BY SamePointer
  <2>4. \A p \in Payloads : /\ p \in heap' <=> (p \in heap /\ message[v] # OnHeap(p)) \/ OnHeap(q) = OnHeap(p)
                            /\ OnHeap(q) = OnHeap(p) => p \notin heap \/ message[v] = OnHeap(p)
    BY <1>2, <1>4, <2>3
  <2> QED BY <1>4, <2>1, <2>2, <2>4, RenewStep
<1>5. message[w].is_inline => message[w] = Inline
  BY <1>1, InlineOrNot
<1> QED BY <1>3, <1>4, <1>5 DEF MessageSet, MessageCopy

(* A move leaves an inline message behind. *)
LEMMA MovedFromInline == \A m \in Contents : MovedFrom(m) = Inline
  BY InlineOrNot DEF MovedFrom

(* A move hands the block over and leaves the source inline. *)
LEMMA MessageMoveStep ==
  ASSUME ActorInv, NEW v \in Messages, NEW w \in Messages, MessageMove(v, w) PROVE ActorInv'
<1>1. /\ message \in [Messages -> Contents] /\ heap \subseteq Payloads /\ Inline \in Contents
      /\ message[v] \in Contents /\ message[w] \in Contents
  BY DEF ActorInv, ActorTypeOK, Contents
<1>2. /\ v # w /\ heap' = heap \ Freed(message[v]) /\ UNCHANGED <<mailbox, mailbox_of>>
      /\ message' = [message EXCEPT ![v] = message[w], ![w] = Inline]
  BY <1>1, MovedFromInline DEF MessageMove
<1>3. /\ message' \in [Messages -> Contents]
      /\ \A u \in Messages : message'[u] = IF u = v THEN message[w] ELSE IF u = w THEN Inline ELSE message[u]
  BY <1>1, <1>2
<1>4. ActorTypeOK'
  BY <1>1, <1>2, <1>3 DEF ActorInv, ActorTypeOK
<1>5. ASSUME NEW p \in Payloads PROVE OneOwner(p)'
  <2>1. \A u \in Messages : InVariable(u, p)' <=>
           IF u = v THEN InVariable(w, p) ELSE u # w /\ InVariable(u, p)
    BY <1>3, NotInline DEF InVariable
  <2>2. \A b, i : InMailbox(b, i, p)' <=> InMailbox(b, i, p)
    BY <1>2 DEF InMailbox
  <2>3. p \in heap' <=> p \in heap /\ ~InVariable(v, p)
    BY <1>1, <1>2, FreedBlock DEF InVariable
  <2>4. OneOwner(p)
    BY DEF ActorInv
  <2>5. p \in heap' <=> \/ \E u \in Messages : InVariable(u, p)'
                        \/ \E b \in Mailboxes : \E i \in Nat : InMailbox(b, i, p)'
    BY <1>2, <2>1, <2>2, <2>3, <2>4 DEF OneOwner
  <2>6. \A t, u \in Messages : InVariable(t, p)' /\ InVariable(u, p)' => t = u
    BY <1>2, <2>1, <2>4 DEF OneOwner
  <2>7. \A u \in Messages, b \in Mailboxes : \A i \in Nat : ~(InVariable(u, p)' /\ InMailbox(b, i, p)')
    BY <1>2, <2>1, <2>2, <2>4 DEF OneOwner
  <2>8. \A b, c \in Mailboxes : \A i, j \in Nat :
              InMailbox(b, i, p)' /\ InMailbox(c, j, p)' => b = c /\ i = j
    BY <2>2, <2>4 DEF OneOwner
  <2> QED BY <2>5, <2>6, <2>7, <2>8 DEF OneOwner
<1> QED BY <1>4, <1>5 DEF ActorInv

(* push moves the message into the mailbox, or leaves it with the sender    *)
(* when it is full.                                                         *)
LEMMA MailboxPushStep ==
  ASSUME ActorInv, NEW v \in Messages, MailboxPush(v) PROVE ActorInv'
<1> DEFINE b == mailbox_of["sender"]
           l == Len(mailbox[b])
<1>1. /\ message \in [Messages -> Contents] /\ message[v] \in Contents /\ Inline \in Contents
      /\ mailbox \in [Mailboxes -> Seq(Contents)]
      /\ b \in Mailboxes /\ mailbox[b] \in Seq(Contents) /\ l \in Nat
  BY SMTT(40) DEF MailboxPush, ActorInv, ActorTypeOK, Contents
<1>2. /\ l < MailboxCapacity /\ UNCHANGED <<mailbox_of, heap>>
      /\ mailbox' = [mailbox EXCEPT ![b] = Append(mailbox[b], message[v])]
      /\ message' = [message EXCEPT ![v] = Inline]
  BY <1>1, MovedFromInline DEF MailboxPush
<1> HIDE DEF b
<1>3. /\ Append(mailbox[b], message[v]) \in Seq(Contents)
      /\ Len(Append(mailbox[b], message[v])) = l + 1
      /\ \A i \in 1 .. l : Append(mailbox[b], message[v])[i] = mailbox[b][i]
      /\ Append(mailbox[b], message[v])[l + 1] = message[v]
  BY <1>1
<1>4. ActorTypeOK'
  <2>1. mailbox' \in [Mailboxes -> Seq(Contents)] /\ message' \in [Messages -> Contents]
    BY <1>1, <1>2, <1>3
  <2>2. \A c \in Mailboxes : Len(mailbox'[c]) <= MailboxCapacity
    BY <1>1, <1>2, <1>3, ActorAssumption DEF ActorInv, ActorTypeOK
  <2> QED BY <1>2, <2>1, <2>2 DEF ActorInv, ActorTypeOK
<1>5. ASSUME NEW p \in Payloads PROVE OneOwner(p)'
  <2>1. \A u \in Messages : InVariable(u, p)' <=> u # v /\ InVariable(u, p)
    BY <1>1, <1>2, NotInline DEF InVariable
  <2>2. \A c \in Mailboxes : \A i \in Nat : InMailbox(c, i, p)' <=>
           InMailbox(c, i, p) \/ (c = b /\ i = l + 1 /\ InVariable(v, p))
    <3> SUFFICES ASSUME NEW c \in Mailboxes, NEW i \in Nat
                 PROVE  InMailbox(c, i, p)' <=>
                           InMailbox(c, i, p) \/ (c = b /\ i = l + 1 /\ InVariable(v, p))
      OBVIOUS
    <3>1. CASE c = b
      <4>1. mailbox'[c] = Append(mailbox[b], message[v])
        BY <1>1, <1>2, <3>1
      <4> HIDE DEF l
      <4>2. CASE i = l + 1
        BY <1>1, <1>3, <3>1, <4>1, <4>2 DEF InMailbox, InVariable, l
      <4>3. CASE i # l + 1
        BY <1>1, <1>3, <3>1, <4>1, <4>3 DEF InMailbox, InVariable, l
      <4> QED BY <4>2, <4>3
    <3>2. CASE c # b
      BY <1>1, <1>2, <3>2 DEF InMailbox
    <3> QED BY <3>1, <3>2
  <2> HIDE DEF l
  <2>4. OneOwner(p) /\ l + 1 \in Nat /\ (p \in heap' <=> p \in heap)
    BY <1>1, <1>2 DEF ActorInv
  <2>5. p \in heap' <=> \/ \E u \in Messages : InVariable(u, p)'
                        \/ \E c \in Mailboxes : \E i \in Nat : InMailbox(c, i, p)'
    BY <1>1, <2>1, <2>2, <2>4 DEF OneOwner
  <2>6. \A t, u \in Messages : InVariable(t, p)' /\ InVariable(u, p)' => t = u
    BY <2>1, <2>4 DEF OneOwner
  <2>7. \A u \in Messages, c \in Mailboxes : \A i \in Nat : ~(InVariable(u, p)' /\ InMailbox(c, i, p)')
    BY <2>1, <2>2, <2>4 DEF OneOwner
  <2>8. \A d, c \in Mailboxes : \A i, j \in Nat :
              InMailbox(d, i, p)' /\ InMailbox(c, j, p)' => d = c /\ i = j
    BY <2>2, <2>4 DEF OneOwner
  <2> QED BY <2>5, <2>6, <2>7, <2>8 DEF OneOwner
<1> QED BY <1>4, <1>5 DEF ActorInv

(* pop frees the receiving variable's block and hands over the oldest       *)
(* message's.                                                               *)
LEMMA MailboxPopStep ==
  ASSUME ActorInv, NEW v \in Messages, MailboxPop(v) PROVE ActorInv'
<1> DEFINE b == mailbox_of["actor"]
           l == Len(mailbox[b])
<1>1. /\ message \in [Messages -> Contents] /\ message[v] \in Contents /\ heap \subseteq Payloads
      /\ mailbox \in [Mailboxes -> Seq(Contents)]
      /\ b \in Mailboxes /\ mailbox[b] \in Seq(Contents) /\ mailbox[b] # <<>> /\ l \in Nat
  BY DEF MailboxPop, ActorInv, ActorTypeOK
<1>2. /\ mailbox' = [mailbox EXCEPT ![b] = Tail(mailbox[b])]
      /\ message' = [message EXCEPT ![v] = Head(mailbox[b])]
      /\ heap' = heap \ Freed(message[v]) /\ UNCHANGED mailbox_of
  BY DEF MailboxPop
<1> HIDE DEF b
<1>3. /\ l # 0 /\ Head(mailbox[b]) = mailbox[b][1] /\ Head(mailbox[b]) \in Contents
      /\ Tail(mailbox[b]) \in Seq(Contents) /\ Len(Tail(mailbox[b])) = l - 1
      /\ \A i \in 1 .. l - 1 : Tail(mailbox[b])[i] = mailbox[b][i + 1]
  BY <1>1
<1>4. ActorTypeOK'
  <2>1. mailbox' \in [Mailboxes -> Seq(Contents)] /\ message' \in [Messages -> Contents]
    BY <1>1, <1>2, <1>3
  <2>2. \A c \in Mailboxes : Len(mailbox'[c]) <= MailboxCapacity
    BY <1>1, <1>2, <1>3, ActorAssumption DEF ActorInv, ActorTypeOK
  <2>3. heap' \in SUBSET Payloads
    BY <1>1, <1>2
  <2> QED BY <1>2, <2>1, <2>2, <2>3 DEF ActorInv, ActorTypeOK
<1>5. ASSUME NEW p \in Payloads PROVE OneOwner(p)'
  <2>1. \A u \in Messages : InVariable(u, p)' <=> IF u = v THEN InMailbox(b, 1, p) ELSE InVariable(u, p)
    <3>1. InMailbox(b, 1, p) <=> Head(mailbox[b]) = OnHeap(p)
      BY <1>1, <1>3 DEF InMailbox
    <3> QED BY <1>1, <1>2, <3>1 DEF InVariable
  <2>2. \A c \in Mailboxes : \A i \in Nat : InMailbox(c, i, p)' <=>
           IF c = b THEN i # 0 /\ InMailbox(b, i + 1, p) ELSE InMailbox(c, i, p)
    <3> SUFFICES ASSUME NEW c \in Mailboxes, NEW i \in Nat
                 PROVE  InMailbox(c, i, p)' <=>
                           IF c = b THEN i # 0 /\ InMailbox(b, i + 1, p) ELSE InMailbox(c, i, p)
      OBVIOUS
    <3>1. CASE c = b
      <4>1. mailbox'[c] = Tail(mailbox[b])
        BY <1>1, <1>2, <3>1
      <4>2. InMailbox(c, i, p)' <=> i \in 1 .. l - 1 /\ mailbox[b][i + 1] = OnHeap(p)
        BY <1>1, <1>3, <4>1 DEF InMailbox
      <4> QED BY <1>1, <3>1, <4>2 DEF InMailbox
    <3>2. CASE c # b
      BY <1>1, <1>2, <3>2 DEF InMailbox
    <3> QED BY <3>1, <3>2
  <2>3. p \in heap' <=> p \in heap /\ ~InVariable(v, p)
    BY <1>1, <1>2, FreedBlock DEF InVariable
  <2>4. \A i \in Nat : InMailbox(b, i, p) => i # 0
    BY DEF InMailbox
  <2> HIDE DEF l
  <2>5. OneOwner(p) /\ 1 \in Nat
    BY DEF ActorInv
  <2>6. p \in heap' <=> \/ \E u \in Messages : InVariable(u, p)'
                        \/ \E c \in Mailboxes : \E i \in Nat : InMailbox(c, i, p)'
    <3>1. ASSUME p \in heap' PROVE \/ \E u \in Messages : InVariable(u, p)'
                                   \/ \E c \in Mailboxes : \E i \in Nat : InMailbox(c, i, p)'
      <4>1. CASE \E u \in Messages : InVariable(u, p)
        BY <2>1, <2>3, <3>1, <4>1
      <4>2. ASSUME NEW c \in Mailboxes, NEW i \in Nat, InMailbox(c, i, p)
            PROVE  \/ \E u \in Messages : InVariable(u, p)'
                   \/ \E d \in Mailboxes : \E j \in Nat : InMailbox(d, j, p)'
        <5>1. CASE c # b
          BY <2>2, <4>2, <5>1
        <5>2. CASE c = b /\ i = 1
          BY <2>1, <4>2, <5>2
        <5>3. CASE c = b /\ i # 1
          <6>1. i \in Nat /\ i # 0 /\ i # 1
            BY <2>4, <4>2, <5>3
          <6>2. i - 1 \in Nat /\ i - 1 # 0 /\ i = (i - 1) + 1
            BY <6>1
          <6>3. PICK j \in Nat : j # 0 /\ i = j + 1
            BY <6>2
          <6>4. InMailbox(b, j + 1, p)
            BY <4>2, <5>3, <6>3
          <6>5. InMailbox(c, j, p)'
            BY <2>2, <5>3, <6>3, <6>4
          <6> QED BY <6>5
        <5> QED BY <5>1, <5>2, <5>3
      <4> QED BY <2>3, <2>5, <3>1, <4>1, <4>2 DEF OneOwner
    <3>2. ASSUME NEW u \in Messages, InVariable(u, p)' PROVE p \in heap'
      BY <1>1, <2>1, <2>3, <2>5, <3>2 DEF OneOwner
    <3>3. ASSUME NEW c \in Mailboxes, NEW i \in Nat, InMailbox(c, i, p)' PROVE p \in heap'
      <4>1. \E j \in Nat : InMailbox(c, j, p)
        BY <2>2, <3>3
      <4> QED BY <2>3, <2>5, <4>1 DEF OneOwner
    <3> QED BY <3>1, <3>2, <3>3
  <2>7. \A t, u \in Messages : InVariable(t, p)' /\ InVariable(u, p)' => t = u
    BY <1>1, <2>1, <2>5 DEF OneOwner
  <2>8. ASSUME NEW u \in Messages, NEW c \in Mailboxes, NEW i \in Nat,
               InVariable(u, p)', InMailbox(c, i, p)'
        PROVE  FALSE
    <3>1. PICK j \in Nat : InMailbox(c, j, p) /\ (c = b => j # 1)
      BY <2>2, <2>8
    <3> QED BY <1>1, <2>1, <2>5, <2>8, <3>1 DEF OneOwner
  <2>9. ASSUME NEW d \in Mailboxes, NEW c \in Mailboxes, NEW i \in Nat, NEW j \in Nat,
               InMailbox(d, i, p)', InMailbox(c, j, p)'
        PROVE  d = c /\ i = j
    <3> DEFINE f == IF d = b THEN i + 1 ELSE i
               g == IF c = b THEN j + 1 ELSE j
    <3>1. f \in Nat /\ g \in Nat /\ InMailbox(d, f, p) /\ InMailbox(c, g, p)
      BY <2>2, <2>9
    <3>2. d = c /\ f = g
      <4> HIDE DEF f, g
      <4> QED BY <2>5, <3>1 DEF OneOwner
    <3> QED BY <3>2
  <2> QED BY <2>6, <2>7, <2>8, <2>9 DEF OneOwner
<1> QED BY <1>4, <1>5 DEF ActorInv

(* Mailboxes that lose their last owner take their messages with them. *)
LEMMA RebindStep ==
  ASSUME ActorInv, NEW refs \in [{"registry", "actor", "sender"} -> Mailboxes \cup {Nobody}],
         Rebind(refs)
  PROVE  ActorInv'
<1> DEFINE dead == {b \in Mailboxes : \A t \in DOMAIN refs : refs[t] # b}
<1>1. /\ message \in [Messages -> Contents] /\ mailbox \in [Mailboxes -> Seq(Contents)]
      /\ heap \subseteq Payloads /\ \A b \in Mailboxes : Len(mailbox[b]) <= MailboxCapacity
  BY DEF ActorInv, ActorTypeOK
<1>2. /\ mailbox_of' = refs /\ UNCHANGED message /\ dead \subseteq Mailboxes
      /\ mailbox' = [b \in Mailboxes |-> IF b \in dead THEN <<>> ELSE mailbox[b]]
      /\ heap' = heap \ UNION {Freed(m) : m \in UNION {ToSet(mailbox[b]) : b \in dead}}
  BY DEF Rebind
<1> HIDE DEF dead
<1>3. ActorTypeOK'
  <2>1. mailbox' \in [Mailboxes -> Seq(Contents)]
    BY <1>1, <1>2
  <2>2. \A b \in Mailboxes : Len(mailbox'[b]) <= MailboxCapacity
    BY <1>1, <1>2, ActorAssumption
  <2>3. heap' \in SUBSET Payloads
    BY <1>1, <1>2
  <2> QED BY <1>1, <1>2, <2>1, <2>2, <2>3 DEF ActorTypeOK
<1>4. ASSUME NEW p \in Payloads PROVE OneOwner(p)'
  <2>1. \A v : InVariable(v, p)' <=> InVariable(v, p)
    BY <1>2 DEF InVariable
  <2>2. \A b \in Mailboxes : \A i \in Nat : InMailbox(b, i, p)' <=> b \notin dead /\ InMailbox(b, i, p)
    BY <1>2 DEF InMailbox
  <2>3. p \in heap' <=> p \in heap /\ ~ \E b \in dead : \E i \in Nat : InMailbox(b, i, p)
    <3>1. ASSUME NEW b \in dead, NEW i \in Nat, InMailbox(b, i, p)
          PROVE  p \in UNION {Freed(m) : m \in UNION {ToSet(mailbox[c]) : c \in dead}}
      <4>1. i \in DOMAIN mailbox[b] /\ mailbox[b][i] = OnHeap(p)
        BY <1>1, <1>2, <3>1 DEF InMailbox
      <4>2. OnHeap(p) \in ToSet(mailbox[b])
        BY <4>1 DEF ToSet
      <4>3. p \in Freed(OnHeap(p))
        BY FreedBlock DEF Contents
      <4> QED BY <4>2, <4>3
    <3>2. ASSUME p \in UNION {Freed(m) : m \in UNION {ToSet(mailbox[c]) : c \in dead}}
          PROVE  \E b \in dead : \E i \in Nat : InMailbox(b, i, p)
      <4>1. PICK b \in dead : \E m \in ToSet(mailbox[b]) : p \in Freed(m)
        BY <3>2
      <4>2. mailbox[b] \in Seq(Contents)
        BY <1>1, <1>2
      <4>3. PICK m \in ToSet(mailbox[b]) : p \in Freed(m)
        BY <4>1
      <4>4. PICK i \in DOMAIN mailbox[b] : m = mailbox[b][i]
        BY <4>3 DEF ToSet
      <4>5. i \in 1 .. Len(mailbox[b]) /\ i \in Nat /\ m \in Contents
        BY <4>2, <4>4
      <4> QED BY <4>3, <4>4, <4>5, FreedBlock DEF InMailbox
    <3> QED BY <1>2, <3>1, <3>2
  <2>4. OneOwner(p)
    BY DEF ActorInv
  <2>5. p \in heap' <=> \/ \E v \in Messages : InVariable(v, p)'
                        \/ \E b \in Mailboxes : \E i \in Nat : InMailbox(b, i, p)'
    BY <1>2, <2>1, <2>2, <2>3, <2>4 DEF OneOwner
  <2>6. /\ \A v, w \in Messages : InVariable(v, p)' /\ InVariable(w, p)' => v = w
        /\ \A v \in Messages, b \in Mailboxes : \A i \in Nat :
              ~(InVariable(v, p)' /\ InMailbox(b, i, p)')
        /\ \A b, c \in Mailboxes : \A i, j \in Nat :
              InMailbox(b, i, p)' /\ InMailbox(c, j, p)' => b = c /\ i = j
    BY <2>1, <2>2, <2>4 DEF OneOwner
  <2> QED BY <2>5, <2>6 DEF OneOwner
<1> QED BY <1>3, <1>4 DEF ActorInv

(* Every operation keeps one owner for each block on the heap. *)
LEMMA ActorStep == ActorInv /\ [ActorNext]_actorVars => ActorInv'
<1> SUFFICES ASSUME ActorInv, [ActorNext]_actorVars PROVE ActorInv'
  OBVIOUS
<1>1. CASE \E v \in Messages : MessageSet(v) \/ MailboxPush(v) \/ MailboxPop(v)
  BY <1>1, MessageSetStep, MailboxPushStep, MailboxPopStep
<1>2. CASE \E v, w \in Messages : MessageCopy(v, w) \/ MessageMove(v, w)
  BY <1>2, MessageSetStep, MessageMoveStep
<1>3. CASE \/ RegisterActor \/ UnregisterActor \/ FindMailbox
           \/ \E t \in {"actor", "sender"} : Release(t)
  <2>1. mailbox_of \in [{"registry", "actor", "sender"} -> Mailboxes \cup {Nobody}]
    BY DEF ActorInv, ActorTypeOK
  <2>2. CASE RegisterActor
    <3>1. PICK b \in Mailboxes : Rebind([mailbox_of EXCEPT !["registry"] = b, !["actor"] = b])
      BY <2>2 DEF RegisterActor
    <3>2. [mailbox_of EXCEPT !["registry"] = b, !["actor"] = b]
             \in [{"registry", "actor", "sender"} -> Mailboxes \cup {Nobody}]
      BY <2>1
    <3> QED BY <3>1, <3>2, RebindStep
  <2>3. CASE UnregisterActor
    <3>1. [mailbox_of EXCEPT !["registry"] = Nobody]
             \in [{"registry", "actor", "sender"} -> Mailboxes \cup {Nobody}]
      BY <2>1
    <3> QED BY <2>3, <3>1, RebindStep DEF UnregisterActor
  <2>4. CASE FindMailbox
    <3>1. [mailbox_of EXCEPT !["sender"] = mailbox_of["registry"]]
             \in [{"registry", "actor", "sender"} -> Mailboxes \cup {Nobody}]
      BY <2>1
    <3> QED BY <2>4, <3>1, RebindStep DEF FindMailbox
  <2>5. ASSUME NEW t \in {"actor", "sender"}, Release(t) PROVE ActorInv'
    <3>1. [mailbox_of EXCEPT ![t] = Nobody]
             \in [{"registry", "actor", "sender"} -> Mailboxes \cup {Nobody}]
      BY <2>1
    <3> QED BY <2>5, <3>1, RebindStep DEF Release
  <2> QED BY <1>3, <2>2, <2>3, <2>4, <2>5
<1>4. CASE UNCHANGED actorVars
  BY <1>4 DEF actorVars, ActorInv, ActorTypeOK, OneOwner, InVariable, InMailbox
<1> QED BY <1>1, <1>2, <1>3, <1>4 DEF ActorNext

(* Copies, moves, mailboxes that are replaced or unregistered while a sender  *)
(* still pushes: every heap block has exactly one owner until it is freed,    *)
(* so none is leaked or freed twice, whatever the number of blocks and the    *)
(* capacity of a mailbox (actor.cpp:26-91, mailbox.hpp:27-32).                *)
THEOREM EveryPayloadOwned == ActorSpec => []PayloadsOwned
<1>1. ASSUME ActorInv PROVE PayloadsOwned
  <2> SUFFICES ASSUME NEW p \in Payloads
               PROVE  Cardinality(Owners(p)) = IF p \in heap THEN 1 ELSE 0
    BY DEF PayloadsOwned
  <2>1. OneOwner(p) /\ \A b \in Mailboxes : mailbox[b] \in Seq(Contents) /\ Len(mailbox[b]) <= MailboxCapacity
    BY <1>1 DEF ActorInv, ActorTypeOK
  <2>2. \A b \in Mailboxes : \A i \in 1 .. MailboxCapacity :
           i <= Len(mailbox[b]) /\ mailbox[b][i] = OnHeap(p) <=> InMailbox(b, i, p)
    BY <2>1, ActorAssumption DEF InMailbox
  <2>3. \A b \in Mailboxes : \A i \in Nat : InMailbox(b, i, p) => i \in 1 .. MailboxCapacity
    BY <2>1, ActorAssumption DEF InMailbox
  <2>4. \A x : x \in Owners(p) <=>
           \/ \E v \in Messages : InVariable(v, p) /\ x = <<Nobody, v>>
           \/ \E b \in Mailboxes : \E i \in Nat : InMailbox(b, i, p) /\ x = <<b, i>>
    <3>1. ASSUME NEW x
          PROVE  x \in {<<Nobody, v>> : v \in {u \in Messages : message[u] = OnHeap(p)}}
                    <=> \E v \in Messages : InVariable(v, p) /\ x = <<Nobody, v>>
      BY DEF InVariable
    <3>2. ASSUME NEW x
          PROVE  x \in {y \in Mailboxes \X (1 .. MailboxCapacity) :
                           y[2] <= Len(mailbox[y[1]]) /\ mailbox[y[1]][y[2]] = OnHeap(p)}
                    <=> \E b \in Mailboxes : \E i \in Nat : InMailbox(b, i, p) /\ x = <<b, i>>
      BY <2>2, <2>3, ActorAssumption
    <3> QED BY <3>1, <3>2 DEF Owners
  <2>5. CASE p \notin heap
    <3>1. Owners(p) = {}
      BY <2>1, <2>4, <2>5 DEF OneOwner
    <3> QED BY <2>5, <3>1, FS_EmptySet
  <2>6. CASE p \in heap
    <3>1. \E x : Owners(p) = {x}
      <4>1. ASSUME NEW v \in Messages, InVariable(v, p) PROVE Owners(p) = {<<Nobody, v>>}
        BY <2>1, <2>4, <4>1 DEF OneOwner
      <4>2. ASSUME NEW b \in Mailboxes, NEW i \in Nat, InMailbox(b, i, p) PROVE Owners(p) = {<<b, i>>}
        BY <2>1, <2>4, <4>2 DEF OneOwner
      <4> QED BY <2>1, <2>6, <4>1, <4>2 DEF OneOwner
    <3> QED BY <2>6, <3>1, FS_Singleton
  <2> QED BY <2>5, <2>6
<1> QED BY <1>1, ActorStart, ActorStep, PTL DEF ActorSpec

----------------------------------------------------------------------------
(* Every set of natural numbers has a least one: what takes the place of induction *)
(* wherever a definition is recursive.                                             *)
LEMMA Least ==
  ASSUME NEW S \in SUBSET Nat, S # {}
  PROVE  \E n \in S : \A m \in S : n <= m
<1>1. IsWellFoundedOn(OpToRel(<,Nat), Nat)
  BY NatLessThanWellFounded
<1> DEFINE R == {p \in Nat \X Nat : p[1] < p[2]}
<1>2. OpToRel(<,Nat) = R
  BY DEF OpToRel
<1>3. IsWellFoundedOn(R, Nat)
  BY <1>1, <1>2
<1> HIDE DEF R
<1>4. \E x \in S : \A y \in S : ~(<<y, x>> \in R)
  BY <1>3, WFMin
<1>5. PICK n \in S : \A y \in S : ~(<<y, n>> \in R)
  BY <1>4
<1>6. ASSUME NEW m \in S PROVE n <= m
  <2>1. n \in Nat /\ m \in Nat /\ <<m, n>> \notin R
    BY <1>5
  <2>2. ~(m < n)
    BY <2>1 DEF R
  <2> QED BY <2>1, <2>2
<1> QED BY <1>6

----------------------------------------------------------------------------
(* The slab allocator, for any number of chunks of any size.                 *)

\* Pointers to slots, or null.
SlotPtr == Slots \cup {NoSlot}

SlabTypes ==
    /\ slab \in [SlabIds -> [state : {"usable", "moved"}, chunks : SUBSET (1 .. SlabChunks),
                             head : SlotPtr]]
    /\ next_free \in [Slots -> SlotPtr]
    /\ objects \in SUBSET Slots

\* No chunk belongs to two slabs, and objects are in chunks that somebody owns.
ChunksApart == \A x, y \in SlabIds : x # y => slab[x].chunks \cap slab[y].chunks = {}
ObjectsOwned == \A s \in objects : \E x \in SlabIds : s[1] \in slab[x].chunks

\* The free slots of x, and that the list from its head runs through L.
FreeOf(x) == {s \in Slots : s[1] \in slab[x].chunks} \ objects
RunsThrough(x, L) ==
    /\ slab[x].head = IF Len(L) = 0 THEN NoSlot ELSE L[1]
    /\ \A i \in 1 .. Len(L) : next_free[L[i]] = IF i < Len(L) THEN L[i + 1] ELSE NoSlot
    /\ \A i, j \in 1 .. Len(L) : L[i] = L[j] => i = j
    /\ \A i \in 1 .. Len(L) : L[i] \in FreeOf(x)
    /\ \A s \in FreeOf(x) : \E i \in 1 .. Len(L) : L[i] = s
Listed(x) == slab[x].state = "usable" => \E L \in Seq(Slots) : RunsThrough(x, L)

SlabInv == SlabTypes /\ ChunksApart /\ ObjectsOwned /\ \A x \in SlabIds : Listed(x)

(* What a slot is: a chunk and a place in it, and never null. *)
LEMMA SlotFacts ==
  /\ \A s \in Slots : s[1] \in 1 .. SlabChunks /\ s[2] \in 1 .. ChunkObjects /\ s = <<s[1], s[2]>>
  /\ \A c \in 1 .. SlabChunks, i \in 1 .. ChunkObjects : <<c, i>> \in Slots
  /\ NoSlot \notin Slots
  BY SlabAssumption DEF Slots, NoSlot

(* Two new slabs have no chunks and no list. *)
LEMMA SlabStarts == SlabInit => SlabInv
<1> SUFFICES ASSUME SlabInit PROVE SlabInv
  OBVIOUS
<1>1. SlabTypes
  BY DEF SlabInit, SlabTypes, NewSlab, SlotPtr
<1>2. ChunksApart /\ ObjectsOwned
  BY DEF SlabInit, ChunksApart, ObjectsOwned, NewSlab
<1>3. ASSUME NEW x \in SlabIds PROVE Listed(x)
  <2>1. FreeOf(x) = {} /\ slab[x].head = NoSlot
    BY DEF SlabInit, FreeOf, NewSlab
  <2>2. <<>> \in Seq(Slots) /\ Len(<<>>) = 0
    OBVIOUS
  <2>3. RunsThrough(x, <<>>)
    BY <2>1, <2>2 DEF RunsThrough
  <2> QED BY <2>2, <2>3 DEF Listed
<1> QED BY <1>1, <1>2, <1>3 DEF SlabInv

(* A slab keeps its list when neither it nor the pointers and objects in its chunks change. *)
LEMMA OthersKeep ==
  ASSUME SlabTypes, NEW x \in SlabIds, Listed(x), slab'[x] = slab[x],
         \A s \in Slots : s[1] \in slab[x].chunks => next_free'[s] = next_free[s]
              /\ (s \in objects' <=> s \in objects)
  PROVE  Listed(x)'
<1> SUFFICES ASSUME slab[x].state = "usable" PROVE \E L \in Seq(Slots) : RunsThrough(x, L)'
  BY DEF Listed
<1>1. PICK L \in Seq(Slots) : RunsThrough(x, L)
  BY DEF Listed
<1>2. FreeOf(x)' = FreeOf(x)
  BY DEF FreeOf
<1>3. \A i \in 1 .. Len(L) : next_free'[L[i]] = next_free[L[i]]
  BY <1>1 DEF RunsThrough, FreeOf
<1>4. RunsThrough(x, L)'
  BY <1>1, <1>2, <1>3 DEF RunsThrough
<1> QED BY <1>4

(* allocate with a free slot: the first of the list is taken from it. *)
LEMMA PopKeeps ==
  ASSUME SlabInv, NEW x \in SlabIds, slab[x].state = "usable", slab[x].head # NoSlot,
         slab' = [slab EXCEPT ![x].head = next_free[slab[x].head]],
         objects' = objects \cup {slab[x].head}, next_free' = next_free
  PROVE  SlabInv'
<1>1. SlabTypes /\ ChunksApart /\ ObjectsOwned /\ \A y \in SlabIds : Listed(y)
  BY DEF SlabInv
<1>2. PICK L \in Seq(Slots) : RunsThrough(x, L)
  BY <1>1 DEF Listed
<1> DEFINE n == Len(L)
           h == slab[x].head
<1>3. n \in Nat /\ n > 0 /\ h = L[1] /\ h \in Slots /\ h[1] \in slab[x].chunks /\ h \notin objects
  BY <1>2 DEF RunsThrough, FreeOf
<1>4. next_free[h] \in SlotPtr /\ next_free[h] = IF n > 1 THEN L[2] ELSE NoSlot
  BY <1>1, <1>2, <1>3 DEF RunsThrough, SlabTypes
<1>5. /\ slab'[x].head = next_free[h] /\ slab'[x].chunks = slab[x].chunks /\ slab'[x].state = "usable"
      /\ \A y \in SlabIds : y # x => slab'[y] = slab[y]
  BY <1>1 DEF SlabTypes
<1>6. SlabTypes'
  BY <1>1, <1>3, <1>4 DEF SlabTypes
<1>7. ChunksApart' /\ ObjectsOwned'
  BY <1>1, <1>3, <1>5 DEF ChunksApart, ObjectsOwned
<1>8. Listed(x)'
  <2> DEFINE M == Tail(L)
  <2>1. /\ M \in Seq(Slots) /\ Len(M) = n - 1
        /\ \A i \in 1 .. n - 1 : M[i] = L[i + 1] /\ i + 1 \in 1 .. n
    BY <1>3
  <2> HIDE DEF M
  <2>2. \A i, j \in 1 .. n : L[i] = L[j] => i = j
    BY <1>2 DEF RunsThrough
  <2>3. FreeOf(x)' = FreeOf(x) \ {h}
    BY <1>5 DEF FreeOf
  <2>4. slab'[x].head = IF Len(M) = 0 THEN NoSlot ELSE M[1]
    BY <1>3, <1>4, <1>5, <2>1, SMTT(40)
  <2>5. ASSUME NEW i \in 1 .. n - 1
        PROVE  /\ next_free[M[i]] = IF i < n - 1 THEN M[i + 1] ELSE NoSlot
               /\ M[i] \in FreeOf(x) \ {h}
               /\ \A j \in 1 .. n - 1 : M[i] = M[j] => i = j
    <3>1. M[i] = L[i + 1] /\ i + 1 \in 1 .. n /\ i \in Int /\ 1 \in 1 .. n
      BY <1>3, <2>1
    <3>2. next_free[L[i + 1]] = IF i + 1 < n THEN L[(i + 1) + 1] ELSE NoSlot
      BY <1>2, <3>1 DEF RunsThrough
    <3>3. i < n - 1 => M[i + 1] = L[(i + 1) + 1]
      BY <1>3, <2>1, <3>1
    <3>4. L[i + 1] # L[1] /\ L[i + 1] \in FreeOf(x)
      BY <1>2, <2>2, <3>1 DEF RunsThrough
    <3>5. \A j \in 1 .. n - 1 : M[i] = M[j] => i = j
      BY <1>3, <2>1, <2>2, <3>1, SMTT(40)
    <3> QED BY <1>3, <3>1, <3>2, <3>3, <3>4, <3>5
  <2>6. ASSUME NEW s \in FreeOf(x), s # h PROVE \E i \in 1 .. n - 1 : M[i] = s
    <3>1. PICK k \in 1 .. n : L[k] = s
      BY <1>2, <2>6 DEF RunsThrough
    <3>2. k # 1
      BY <1>3, <2>6, <3>1
    <3>3. k - 1 \in 1 .. n - 1 /\ (k - 1) + 1 = k
      BY <1>3, <3>1, <3>2
    <3>4. M[k - 1] = s
      BY <2>1, <3>1, <3>3
    <3> QED BY <3>3, <3>4
  <2>7. RunsThrough(x, M)'
    BY <2>1, <2>3, <2>4, <2>5, <2>6 DEF RunsThrough
  <2> QED BY <2>1, <2>7 DEF Listed
<1>9. ASSUME NEW y \in SlabIds, y # x PROVE Listed(y)'
  <2>1. h[1] \notin slab[y].chunks
    BY <1>1, <1>3, <1>9 DEF ChunksApart
  <2> QED BY <1>1, <1>5, <1>9, <2>1, OthersKeep
<1> QED BY <1>6, <1>7, <1>8, <1>9 DEF SlabInv

(* allocate without one: the slots of a new chunk are listed, the last one is handed out. *)
LEMMA ChunkKeeps ==
  ASSUME SlabInv, NEW x \in SlabIds, slab[x].state = "usable", slab[x].head = NoSlot,
         NEW c \in 1 .. SlabChunks, \A y \in SlabIds : \A k \in slab[y].chunks : k < c,
         next_free' = ChunkList(c, slab[x].head),
         slab' = [slab EXCEPT ![x].chunks = @ \cup {c}, ![x].head = next_free'[<<c, ChunkObjects>>]],
         objects' = objects \cup {<<c, ChunkObjects>>}
  PROVE  SlabInv'
<1> DEFINE n == ChunkObjects
           h == IF n = 1 THEN NoSlot ELSE <<c, n - 1>>
<1>1. SlabTypes /\ ChunksApart /\ ObjectsOwned /\ \A y \in SlabIds : Listed(y)
  BY DEF SlabInv
<1>2. n \in Nat \ {0} /\ SlabChunks \in Nat /\ c \in Nat
  BY SlabAssumption
<1>3. \A y \in SlabIds : c \notin slab[y].chunks
  BY <1>2
<1>4. \A i \in 1 .. n : <<c, i>> \in Slots /\ <<c, i>> \notin objects
  <2> SUFFICES ASSUME NEW i \in 1 .. n PROVE <<c, i>> \in Slots /\ <<c, i>> \notin objects
    OBVIOUS
  <2>1. <<c, i>> \in objects => \E y \in SlabIds : <<c, i>>[1] \in slab[y].chunks
    BY <1>1 DEF ObjectsOwned
  <2> QED BY <1>3, <2>1, SlotFacts
<1>5. /\ \A s \in Slots : s[1] # c => next_free'[s] = next_free[s]
      /\ \A i \in 1 .. n : next_free'[<<c, i>>] = IF i = 1 THEN NoSlot ELSE <<c, i - 1>>
  <2>1. ASSUME NEW s \in Slots, s[1] # c PROVE next_free'[s] = next_free[s]
    BY <2>1 DEF ChunkList
  <2>2. ASSUME NEW i \in 1 .. n PROVE next_free'[<<c, i>>] = IF i = 1 THEN NoSlot ELSE <<c, i - 1>>
    <3>1. <<c, i>> \in Slots /\ <<c, i>>[1] = c /\ <<c, i>>[2] = i
      BY <1>4
    <3>2. CASE i = 1
      BY <3>1, <3>2 DEF ChunkList
    <3>3. CASE i # 1
      BY <3>1, <3>3 DEF ChunkList
    <3> QED BY <3>2, <3>3
  <2> QED BY <2>1, <2>2
<1>6. next_free' \in [Slots -> SlotPtr] /\ next_free'[<<c, n>>] = h /\ h \in SlotPtr
  <2>1. h \in SlotPtr
    BY <1>2, <1>4 DEF SlotPtr
  <2>2. n \in 1 .. n
    BY <1>2
  <2>3. ASSUME NEW s \in Slots PROVE next_free'[s] \in SlotPtr
    <3>1. s = <<s[1], s[2]>> /\ s[2] \in 1 .. n
      BY SlotFacts
    <3>2. CASE s[1] # c
      BY <1>1, <1>5, <3>2 DEF SlabTypes
    <3>3. CASE s[1] = c
      <4>1. next_free'[s] = IF s[2] = 1 THEN NoSlot ELSE <<c, s[2] - 1>>
        BY <1>5, <3>1, <3>3
      <4>2. s[2] # 1 => s[2] - 1 \in 1 .. n
        BY <1>2, <3>1
      <4> QED BY <1>4, <4>1, <4>2 DEF SlotPtr
    <3> QED BY <3>2, <3>3
  <2>4. next_free' = [s \in Slots |-> next_free'[s]]
    BY DEF ChunkList
  <2> QED BY <1>5, <2>1, <2>2, <2>3, <2>4
<1> HIDE DEF h
<1>7. /\ slab'[x].head = h /\ slab'[x].chunks = slab[x].chunks \cup {c} /\ slab'[x].state = "usable"
      /\ \A y \in SlabIds : y # x => slab'[y] = slab[y]
  BY <1>1, <1>6 DEF SlabTypes
<1>8. SlabTypes'
  <2>1. objects' \in SUBSET Slots
    BY <1>1, <1>2, <1>4 DEF SlabTypes
  <2>2. slab' \in [SlabIds -> [state : {"usable", "moved"}, chunks : SUBSET (1 .. SlabChunks),
                               head : SlotPtr]]
    BY <1>1, <1>6, ZenonT(60) DEF SlabTypes
  <2> QED BY <1>6, <2>1, <2>2 DEF SlabTypes
<1>9. ChunksApart'
  <2>1. ASSUME NEW y \in SlabIds, y # x
        PROVE  slab'[x].chunks \cap slab'[y].chunks = {}
    <3>1. slab[x].chunks \cap slab[y].chunks = {} /\ c \notin slab[y].chunks
      BY <1>1, <1>3, <2>1 DEF ChunksApart
    <3> QED BY <1>7, <2>1, <3>1
  <2> SUFFICES ASSUME NEW y \in SlabIds, NEW z \in SlabIds, y # z
               PROVE  slab'[y].chunks \cap slab'[z].chunks = {}
    BY DEF ChunksApart
  <2>2. CASE y # x /\ z # x
    BY <1>1, <1>7, <2>2 DEF ChunksApart
  <2> QED BY <2>1, <2>2
<1>10. ObjectsOwned'
  <2>1. <<c, n>>[1] = c
    OBVIOUS
  <2> QED BY <1>1, <1>7, <2>1 DEF ObjectsOwned
<1>11. Listed(x)'
  <2> DEFINE M == [i \in 1 .. n - 1 |-> <<c, n - i>>]
  <2>1. \A i \in 1 .. n - 1 : n - i \in 1 .. n - 1 /\ n - i \in 1 .. n /\ <<c, n - i>> \in Slots
    BY <1>2, <1>4
  <2>2. M \in Seq(Slots) /\ Len(M) = n - 1 /\ \A i \in 1 .. n - 1 : M[i] = <<c, n - i>>
    BY <1>2, <2>1, SMTT(40)
  <2> HIDE DEF M
  <2>3. FreeOf(x) = {}
    <3>1. PICK L \in Seq(Slots) : RunsThrough(x, L)
      BY <1>1 DEF Listed
    <3>2. Len(L) \in Nat
      OBVIOUS
    <3>3. Len(L) = 0
      <4>1. Len(L) > 0 => L[1] \in Slots
        BY <3>2
      <4> QED BY <3>1, <3>2, <4>1, SlotFacts DEF RunsThrough
    <3> QED BY <3>1, <3>3 DEF RunsThrough
  <2>4. \A s \in Slots : s[1] = c => s = <<c, s[2]>> /\ s[2] \in 1 .. n
    BY SlotFacts
  <2>5. FreeOf(x)' = {<<c, i>> : i \in 1 .. n - 1}
    <3>1. ASSUME NEW s \in FreeOf(x)' PROVE s \in {<<c, i>> : i \in 1 .. n - 1}
      <4>1. s \in Slots /\ s[1] \in slab[x].chunks \cup {c} /\ s \notin objects /\ s # <<c, n>>
        BY <1>7, <3>1 DEF FreeOf
      <4>2. s[1] = c
        BY <2>3, <4>1 DEF FreeOf
      <4>3. s = <<c, s[2]>> /\ s[2] \in 1 .. n /\ s[2] # n
        BY <2>4, <4>1, <4>2
      <4>4. s[2] \in 1 .. n - 1
        BY <1>2, <4>3
      <4> QED BY <4>3, <4>4
    <3>2. ASSUME NEW i \in 1 .. n - 1 PROVE <<c, i>> \in FreeOf(x)'
      <4>1. i \in 1 .. n /\ i # n
        BY <1>2
      <4>2. <<c, i>> \in Slots /\ <<c, i>> \notin objects /\ <<c, i>> # <<c, n>> /\ <<c, i>>[1] = c
        BY <1>4, <4>1
      <4> QED BY <1>7, <4>2 DEF FreeOf
    <3> QED BY <3>1, <3>2
  <2>6. slab'[x].head = IF n - 1 = 0 THEN NoSlot ELSE M[1]
    <3>1. n - 1 = 0 <=> n = 1
      BY <1>2
    <3>2. n # 1 => M[1] = <<c, n - 1>>
      BY <1>2, <2>2
    <3> QED BY <1>7, <3>1, <3>2 DEF h
  <2>7. ASSUME NEW i \in 1 .. n - 1
        PROVE  /\ next_free'[M[i]] = IF i < n - 1 THEN M[i + 1] ELSE NoSlot
               /\ M[i] \in FreeOf(x)'
               /\ \A j \in 1 .. n - 1 : M[i] = M[j] => i = j
    <3>1. M[i] = <<c, n - i>> /\ n - i \in 1 .. n - 1 /\ n - i \in 1 .. n /\ i \in Int
      BY <2>1, <2>2
    <3>2. next_free'[<<c, n - i>>] = IF n - i = 1 THEN NoSlot ELSE <<c, (n - i) - 1>>
      BY <1>5, <3>1
    <3>3. i < n - 1 => M[i + 1] = <<c, n - (i + 1)>>
      BY <1>2, <2>2, <3>1, SMTT(40)
    <3>4. n - (i + 1) = (n - i) - 1
      BY <1>2, <3>1
    <3>5. M[i] \in FreeOf(x)'
      BY <2>5, <3>1
    <3>6. \A j \in 1 .. n - 1 : M[i] = M[j] => i = j
      BY <1>2, <2>2
    <3>7. i < n - 1 <=> n - i # 1
      BY <1>2, <3>1
    <3> QED BY <3>1, <3>2, <3>3, <3>4, <3>5, <3>6, <3>7
  <2>8. ASSUME NEW s \in FreeOf(x)' PROVE \E i \in 1 .. n - 1 : M[i] = s
    <3>1. PICK k \in 1 .. n - 1 : s = <<c, k>>
      BY <2>5
    <3>2. n - k \in 1 .. n - 1 /\ n - (n - k) = k
      BY <1>2
    <3> QED BY <2>2, <3>1, <3>2
  <2>9. RunsThrough(x, M)'
    BY <2>2, <2>6, <2>7, <2>8 DEF RunsThrough
  <2> QED BY <2>2, <2>9 DEF Listed
<1>12. ASSUME NEW y \in SlabIds, y # x PROVE Listed(y)'
  <2>1. ASSUME NEW s \in Slots, s[1] \in slab[y].chunks
        PROVE  next_free'[s] = next_free[s] /\ (s \in objects' <=> s \in objects)
    <3>1. s[1] # c /\ <<c, n>>[1] = c
      BY <1>3, <1>12, <2>1
    <3> QED BY <1>5, <2>1, <3>1
  <2> QED BY <1>1, <1>7, <1>12, <2>1, OthersKeep
<1> QED BY <1>8, <1>9, <1>10, <1>11, <1>12 DEF SlabInv

(* deallocate: the slot goes in front of the list. *)
LEMMA PushKeeps ==
  ASSUME SlabInv, NEW x \in SlabIds, NEW s \in Slots, SlabDeallocate(x, s)
  PROVE  SlabInv'
<1>1. SlabTypes /\ ChunksApart /\ ObjectsOwned /\ \A y \in SlabIds : Listed(y)
  BY DEF SlabInv
<1>2. /\ slab[x].state = "usable" /\ s \in objects /\ s[1] \in slab[x].chunks
      /\ objects' = objects \ {s} /\ next_free' = [next_free EXCEPT ![s] = slab[x].head]
      /\ slab' = [slab EXCEPT ![x].head = s]
  BY DEF SlabDeallocate
<1>3. PICK L \in Seq(Slots) : RunsThrough(x, L)
  BY <1>1, <1>2 DEF Listed
<1> DEFINE n == Len(L)
<1>4. n \in Nat
  OBVIOUS
<1>5. /\ slab'[x].head = s /\ slab'[x].chunks = slab[x].chunks /\ slab'[x].state = "usable"
      /\ \A y \in SlabIds : y # x => slab'[y] = slab[y]
  BY <1>1, <1>2 DEF SlabTypes
<1>6. slab[x].head \in SlotPtr /\ next_free'[s] = slab[x].head
      /\ \A r \in Slots : r # s => next_free'[r] = next_free[r]
  BY <1>1, <1>2 DEF SlabTypes
<1>7. SlabTypes'
  BY <1>1, <1>2, <1>6 DEF SlabTypes, SlotPtr
<1>8. ChunksApart' /\ ObjectsOwned'
  BY <1>1, <1>2, <1>5 DEF ChunksApart, ObjectsOwned
<1>9. Listed(x)'
  <2> DEFINE M == [i \in 1 .. n + 1 |-> IF i = 1 THEN s ELSE L[i - 1]]
  <2>1. \A i \in 1 .. n + 1 : i # 1 => i - 1 \in 1 .. n /\ L[i - 1] \in Slots
    BY <1>4
  <2>2. M \in Seq(Slots) /\ Len(M) = n + 1
    BY <1>4, <2>1
  <2>3. M[1] = s /\ \A i \in 1 .. n + 1 : i # 1 => M[i] = L[i - 1]
    BY <1>4
  <2> HIDE DEF M
  <2>4. FreeOf(x)' = FreeOf(x) \cup {s} /\ s \notin FreeOf(x)
    BY <1>2, <1>5 DEF FreeOf
  <2>5. /\ \A i, j \in 1 .. n : L[i] = L[j] => i = j
        /\ \A i \in 1 .. n : L[i] \in FreeOf(x) /\ L[i] # s /\ L[i] \in Slots
        /\ \A i \in 1 .. n : next_free'[L[i]] = IF i < n THEN L[i + 1] ELSE NoSlot
        /\ slab[x].head = IF n = 0 THEN NoSlot ELSE L[1]
    <3>1. \A i \in 1 .. n : L[i] \in FreeOf(x) /\ L[i] # s /\ L[i] \in Slots
      BY <1>3, <2>4 DEF RunsThrough
    <3> QED BY <1>3, <1>6, <3>1 DEF RunsThrough
  <2>6. ASSUME NEW i \in 1 .. n + 1
        PROVE  /\ next_free'[M[i]] = IF i < n + 1 THEN M[i + 1] ELSE NoSlot
               /\ M[i] \in FreeOf(x)'
               /\ \A j \in 1 .. n + 1 : M[i] = M[j] => i = j
    <3>1. CASE i = 1
      <4>1. n # 0 => M[2] = L[1]
        BY <1>4, <2>3
      <4>2. next_free'[M[1]] = IF 1 < n + 1 THEN M[2] ELSE NoSlot
        BY <1>4, <1>6, <2>3, <2>5, <4>1
      <4>3. \A j \in 1 .. n + 1 : j # 1 => M[j] # s
        BY <2>1, <2>3, <2>5
      <4> QED BY <2>3, <2>4, <3>1, <4>2, <4>3
    <3>2. CASE i # 1
      <4>1. i - 1 \in 1 .. n /\ M[i] = L[i - 1] /\ i \in Int
        BY <2>1, <2>3, <3>2
      <4>2. next_free'[L[i - 1]] = IF i - 1 < n THEN L[(i - 1) + 1] ELSE NoSlot
        BY <2>5, <4>1
      <4>3. i < n + 1 => M[i + 1] = L[(i - 1) + 1] /\ i - 1 < n
        BY <1>4, <2>3, <4>1
      <4>4. i < n + 1 <=> i - 1 < n
        BY <1>4, <4>1
      <4>5. \A j \in 1 .. n + 1 : M[i] = M[j] => i = j
        <5>1. \A j \in 1 .. n + 1 : j # 1 => j - 1 \in 1 .. n /\ M[j] = L[j - 1] /\ j \in Int
          BY <2>1, <2>3
        <5>2. \A j \in 1 .. n + 1 : M[i] = M[j] => j # 1
          BY <2>3, <2>5, <4>1
        <5>3. \A j \in 1 .. n + 1 : M[i] = M[j] => i - 1 = j - 1
          BY <2>5, <4>1, <5>1, <5>2, SMTT(40)
        <5> QED BY <4>1, <5>1, <5>2, <5>3
      <4>6. M[i] \in FreeOf(x)'
        BY <2>4, <2>5, <4>1
      <4> QED BY <4>1, <4>2, <4>3, <4>4, <4>5, <4>6
    <3> QED BY <3>1, <3>2
  <2>7. ASSUME NEW r \in FreeOf(x)' PROVE \E i \in 1 .. n + 1 : M[i] = r
    <3>1. CASE r = s
      BY <1>4, <2>3, <3>1
    <3>2. CASE r # s
      <4>1. PICK k \in 1 .. n : L[k] = r
        BY <1>3, <2>4, <2>7, <3>2 DEF RunsThrough
      <4>2. k + 1 \in 1 .. n + 1 /\ k + 1 # 1 /\ (k + 1) - 1 = k
        BY <1>4
      <4>3. M[k + 1] = r
        BY <2>3, <4>1, <4>2
      <4> QED BY <4>2, <4>3
    <3> QED BY <3>1, <3>2
  <2>8. slab'[x].head = IF n + 1 = 0 THEN NoSlot ELSE M[1]
    BY <1>4, <1>5, <2>3
  <2>9. RunsThrough(x, M)'
    BY <2>2, <2>6, <2>7, <2>8 DEF RunsThrough
  <2> QED BY <2>2, <2>9 DEF Listed
<1>10. ASSUME NEW y \in SlabIds, y # x PROVE Listed(y)'
  <2>1. \A r \in Slots : r[1] \in slab[y].chunks => r # s
    BY <1>1, <1>2, <1>10 DEF ChunksApart
  <2> QED BY <1>1, <1>2, <1>5, <1>6, <1>10, <2>1, OthersKeep
<1> QED BY <1>7, <1>8, <1>9, <1>10 DEF SlabInv

(* A move: the list and the chunks have a new owner, which drops what it had. *)
LEMMA MoveKeeps ==
  ASSUME SlabInv, NEW x \in SlabIds, NEW y \in SlabIds, SlabMove(x, y)
  PROVE  SlabInv'
<1>1. SlabTypes /\ ChunksApart /\ ObjectsOwned /\ \A z \in SlabIds : Listed(z)
  BY DEF SlabInv
<1>2. /\ x # y /\ slab[y].state = "usable"
      /\ slab' = [slab EXCEPT ![x] = slab[y], ![y].state = "moved", ![y].chunks = {}]
      /\ objects' = {s \in objects : s[1] \notin slab[x].chunks} /\ next_free' = next_free
  BY DEF SlabMove
<1>3. /\ slab'[x] = slab[y] /\ slab'[y].state = "moved" /\ slab'[y].chunks = {}
      /\ slab'[y].head = slab[y].head
      /\ \A z \in SlabIds : z = x \/ z = y
  BY <1>1, <1>2 DEF SlabTypes, SlabIds
<1>4. SlabTypes'
  BY <1>1, <1>2, ZenonT(60) DEF SlabTypes
<1>5. ChunksApart' /\ ObjectsOwned'
  <2>1. ChunksApart'
    BY <1>3 DEF ChunksApart
  <2>2. ASSUME NEW s \in objects' PROVE s[1] \in slab[y].chunks
    BY <1>1, <1>2, <1>3, <2>2 DEF ObjectsOwned
  <2> QED BY <1>3, <2>1, <2>2 DEF ObjectsOwned
<1>6. Listed(x)'
  <2>1. PICK L \in Seq(Slots) : RunsThrough(y, L)
    BY <1>1, <1>2 DEF Listed
  <2>2. FreeOf(x)' = FreeOf(y)
    BY <1>1, <1>2, <1>3 DEF FreeOf, ChunksApart
  <2>3. RunsThrough(x, L)'
    BY <1>2, <1>3, <2>1, <2>2 DEF RunsThrough
  <2> QED BY <2>3 DEF Listed
<1>7. Listed(y)'
  BY <1>3 DEF Listed
<1> QED BY <1>3, <1>4, <1>5, <1>6, <1>7 DEF SlabInv

(* The free list of a slab is one list of its free slots, each once, and ends in null *)
(* (slab.hpp:41-102).                                                                  *)
THEOREM SlabInductive == SlabSpec => []SlabInv
<1>1. ASSUME SlabInv, NEW x \in SlabIds, SlabAllocate(x) PROVE SlabInv'
  <2>1. CASE slab[x].head # NoSlot
    BY <1>1, <2>1, PopKeeps DEF SlabAllocate
  <2>2. CASE slab[x].head = NoSlot
    <3>1. slab[x].state = "usable"
      BY <1>1 DEF SlabAllocate
    <3>2. PICK c \in 1 .. SlabChunks :
             /\ \A y \in SlabIds : \A k \in slab[y].chunks : k < c
             /\ next_free' = ChunkList(c, slab[x].head)
             /\ slab' = [slab EXCEPT ![x].chunks = @ \cup {c}, ![x].head = next_free'[<<c, ChunkObjects>>]]
             /\ objects' = objects \cup {<<c, ChunkObjects>>}
      BY <1>1, <2>2 DEF SlabAllocate
    <3> QED BY <1>1, <2>2, <3>1, <3>2, ChunkKeeps
  <2> QED BY <2>1, <2>2
<1>2. SlabInv /\ [SlabNext]_slabVars => SlabInv'
  <2> SUFFICES ASSUME SlabInv, [SlabNext]_slabVars PROVE SlabInv'
    OBVIOUS
  <2>1. CASE SlabNext
    BY <1>1, <2>1, PushKeeps, MoveKeeps DEF SlabNext
  <2>2. CASE UNCHANGED slabVars
    BY <2>2 DEF slabVars, SlabInv, SlabTypes, ChunksApart, ObjectsOwned, Listed, RunsThrough, FreeOf
  <2> QED BY <2>1, <2>2
<1> QED BY <1>2, SlabStarts, PTL DEF SlabSpec

(* Following the pointers from the head gives the list, and then null for ever. *)
LEMMA FreeListIs ==
  ASSUME SlabTypes, NEW x \in SlabIds, NEW L \in Seq(Slots), RunsThrough(x, L)
  PROVE  FreeList(x) = [n \in 0 .. Cardinality(Slots) |-> IF n < Len(L) THEN L[n + 1] ELSE NoSlot]
<1> DEFINE N == Cardinality(Slots)
           D == 0 .. N
           w == [n \in D |-> IF n < Len(L) THEN L[n + 1] ELSE NoSlot]
           next(g, n) == IF n = 0 THEN slab[x].head
                         ELSE IF g[n - 1] = NoSlot THEN NoSlot ELSE next_free[g[n - 1]]
<1>1. IsFiniteSet(Slots) /\ N \in Nat
  <2>1. IsFiniteSet(1 .. SlabChunks) /\ IsFiniteSet(1 .. ChunkObjects)
    BY FS_Interval, SlabAssumption
  <2>2. IsFiniteSet(Slots)
    BY <2>1, FS_Product DEF Slots
  <2> QED BY <2>2, FS_CardinalityType
<1>2. Len(L) \in Nat /\ \A i \in 1 .. Len(L) : L[i] \in Slots /\ L[i] # NoSlot
  BY SlotFacts
<1>3. ASSUME NEW n \in D PROVE w[n] = next(w, n)
  <2>0. n \in Nat
    BY <1>1
  <2>1. CASE n = 0
    <3>1. w[0] = IF Len(L) = 0 THEN NoSlot ELSE L[1]
      BY <1>1, <1>2
    <3> QED BY <2>1, <3>1 DEF RunsThrough
  <2>2. CASE n # 0
    <3>1. n - 1 \in D /\ w[n] = (IF n < Len(L) THEN L[n + 1] ELSE NoSlot)
          /\ w[n - 1] = (IF n - 1 < Len(L) THEN L[(n - 1) + 1] ELSE NoSlot) /\ (n - 1) + 1 = n
      BY <1>1, <2>2
    <3>2. CASE n <= Len(L)
      <4>1. n \in 1 .. Len(L) /\ n - 1 < Len(L)
        BY <1>2, <2>0, <2>2, <3>2
      <4>2. w[n - 1] = L[n] /\ L[n] # NoSlot
        BY <1>2, <3>1, <4>1
      <4>3. next_free[L[n]] = IF n < Len(L) THEN L[n + 1] ELSE NoSlot
        BY <4>1 DEF RunsThrough
      <4> HIDE DEF w
      <4> QED BY <2>2, <3>1, <4>2, <4>3
    <3>3. CASE n > Len(L)
      <4>1. ~(n < Len(L)) /\ ~(n - 1 < Len(L))
        BY <1>2, <2>0, <3>3
      <4> HIDE DEF w
      <4> QED BY <2>2, <3>1, <4>1
    <3> QED BY <1>2, <2>0, <3>2, <3>3
  <2> QED BY <2>1, <2>2
<1>4. w = [n \in D |-> next(w, n)]
  <2> DEFINE v == [n \in D |-> next(w, n)]
  <2>1. w = [n \in D |-> w[n]]
    OBVIOUS
  <2> HIDE DEF w
  <2> QED BY <1>3, <2>1
<1>5. ASSUME NEW g, g = [n \in D |-> next(g, n)] PROVE g = w
  <2> DEFINE B == {n \in D : g[n] # w[n]}
  <2>1. SUFFICES B = {}
    <3>1. g = [n \in D |-> g[n]]
      BY <1>5
    <3>2. w = [n \in D |-> w[n]]
      OBVIOUS
    <3> HIDE DEF w
    <3> QED BY <2>1, <3>1, <3>2
  <2>2. ASSUME B # {} PROVE FALSE
    <3>1. B \in SUBSET Nat
      BY <1>1
    <3>2. PICK n \in B : \A m \in B : n <= m
      <4> HIDE DEF B
      <4> QED BY <2>2, <3>1, Least
    <3>3. n \in D /\ n \in Nat /\ g[n] # w[n] /\ g[n] = next(g, n) /\ w[n] = next(w, n)
      <4>1. n \in D /\ n \in Nat /\ g[n] # w[n]
        BY <1>1, <3>2
      <4>2. g[n] = next(g, n)
        BY <1>5, <4>1
      <4>3. w[n] = next(w, n)
        BY <1>3, <4>1
      <4> QED BY <4>1, <4>2, <4>3
    <3> HIDE DEF w
    <3>4. CASE n = 0
      BY <3>3, <3>4
    <3>5. CASE n # 0
      <4>1. n - 1 \in D /\ ~(n <= n - 1)
        BY <1>1, <3>3, <3>5
      <4>2. g[n - 1] = w[n - 1]
        BY <3>2, <4>1
      <4> QED BY <3>3, <3>5, <4>2
    <3> QED BY <3>4, <3>5
  <2> QED BY <2>2
<1> HIDE DEF w
<1> DEFINE P(g) == g = [n \in D |-> next(g, n)]
<1>6. FreeList(x) = CHOOSE g : P(g)
  BY DEF FreeList
<1>7. P(w) /\ \A g : P(g) => g = w
  BY <1>4, <1>5
<1> HIDE DEF P
<1>8. FreeList(x) = w
  BY <1>6, <1>7
<1> QED BY <1>8 DEF w

(* No slot is handed out twice and none is lost: what the pointers lead to from the head *)
(* of a slab is exactly its slots without an object, each once, through any allocations, *)
(* deallocations in any order and moves (slab.hpp:41-102).                               *)
THEOREM FreeListExact == SlabSpec => []SlabFreeListExact
<1>1. SlabInv => SlabFreeListExact
  <2> SUFFICES ASSUME SlabInv, NEW x \in SlabIds, slab[x].state = "usable"
               PROVE  LET at == FreeList(x)
                          listed == {n \in DOMAIN at : at[n] # NoSlot}
                      IN {at[n] : n \in listed} = FreeOf(x) /\ Cardinality(listed) = Cardinality(FreeOf(x))
    BY DEF SlabFreeListExact, FreeOf
  <2> DEFINE N == Cardinality(Slots)
             at == FreeList(x)
             listed == {n \in DOMAIN at : at[n] # NoSlot}
             F == FreeOf(x)
  <2>1. PICK L \in Seq(Slots) : RunsThrough(x, L)
    BY DEF SlabInv, Listed
  <2> DEFINE k == Len(L)
             f == [i \in 1 .. k |-> L[i]]
  <2>2. at = [n \in 0 .. N |-> IF n < k THEN L[n + 1] ELSE NoSlot]
    BY <2>1, FreeListIs DEF SlabInv
  <2>3. IsFiniteSet(Slots) /\ N \in Nat
    <3>1. IsFiniteSet(1 .. SlabChunks) /\ IsFiniteSet(1 .. ChunkObjects)
      BY FS_Interval, SlabAssumption
    <3>2. IsFiniteSet(Slots)
      BY <3>1, FS_Product DEF Slots
    <3> QED BY <3>2, FS_CardinalityType
  <2>4. k \in Nat /\ \A i \in 1 .. k : L[i] \in Slots /\ L[i] # NoSlot
    BY SlotFacts
  <2>5. /\ \A i, j \in 1 .. k : L[i] = L[j] => i = j
        /\ \A i \in 1 .. k : L[i] \in F
        /\ \A s \in F : \E i \in 1 .. k : L[i] = s
    BY <2>1 DEF RunsThrough
  <2>6. F \in SUBSET Slots
    BY DEF FreeOf
  <2> HIDE DEF at, F, k
  <2>7. f \in Bijection(1 .. k, F)
    BY <2>5 DEF Bijection, Injection, Surjection, IsInjective
  <2>8. Cardinality(F) = k
    <3> HIDE DEF f
    <3>1. ExistsBijection(1 .. k, F)
      BY <2>7 DEF ExistsBijection
    <3> QED BY <2>4, <3>1, FS_CountingElements
  <2>9. k <= N
    BY <2>3, <2>6, <2>8, FS_Subset
  <2>10. listed = 0 .. k - 1
    <3>1. DOMAIN at = 0 .. N /\ \A n \in 0 .. N : at[n] = IF n < k THEN L[n + 1] ELSE NoSlot
      BY <2>2
    <3>2. \A n \in 0 .. N : at[n] # NoSlot <=> n < k
      BY <2>3, <2>4, <3>1
    <3>3. \A n : n \in 0 .. k - 1 <=> n \in 0 .. N /\ n < k
      BY <2>3, <2>4, <2>9
    <3> QED BY <3>1, <3>2, <3>3
  <2>11. Cardinality(0 .. k - 1) = k
    BY <2>4, FS_Interval
  <2>12. \A n \in 0 .. k - 1 : at[n] = L[n + 1] /\ n + 1 \in 1 .. k
    BY <2>2, <2>3, <2>4, <2>9
  <2>13. {at[n] : n \in 0 .. k - 1} = F
    <3>1. \A n \in 0 .. k - 1 : at[n] \in F
      BY <2>5, <2>12
    <3>2. ASSUME NEW s \in F PROVE \E n \in 0 .. k - 1 : at[n] = s
      <4>1. PICK i \in 1 .. k : L[i] = s
        BY <2>5
      <4>2. i - 1 \in 0 .. k - 1 /\ (i - 1) + 1 = i
        BY <2>4
      <4>3. at[i - 1] = s
        BY <2>12, <4>1, <4>2
      <4> QED BY <4>2, <4>3
    <3> QED BY <3>1, <3>2
  <2> QED BY <2>8, <2>10, <2>11, <2>13 DEF at, F
<1> QED BY <1>1, SlabInductive, PTL

----------------------------------------------------------------------------
(* The arena allocator, for any number of blocks, any sizes and alignments.   *)

BlockIds == 1 .. ArenaBlocks
BlockTypes == [BlockIds -> [life : {"unused", "live", "freed"}, next : 0 .. ArenaBlocks,
                            size : Nat, used : Int, data : Nat]]
AllocTypes == [arena : ArenaIds, addr : Nat, size : Nat \ {0}, align : Nat \ {0}]

ArenaTypes ==
    /\ arena \in [ArenaIds -> [alive : BOOLEAN, current : Nat, end : Nat, head : 0 .. ArenaBlocks,
                               first : 0 .. ArenaBlocks, total : Nat]]
    /\ block \in BlockTypes
    /\ allocs \in SUBSET AllocTypes

\* malloc hands blocks out in order, so next leads to a later block.
NextUp(blocks) == \A b \in BlockIds : blocks[b].next # 0 => blocks[b].next > b
UnusedLast == \A b, c \in BlockIds : (b < c /\ block[b].life = "unused") => block[c].life = "unused"

\* A block lies between its start and that of the next one.
InPlace(blocks) == \A b \in BlockIds : blocks[b].life # "unused" =>
    /\ b * ArenaStride <= blocks[b].data
    /\ blocks[b].data + blocks[b].size <= b * ArenaStride + ArenaStride

\* What is on the chain of an arena is live, and on no other chain.
Owned(x) == Chain(arena[x].first)
Ownership ==
    /\ \A x \in ArenaIds, b \in BlockIds : b \in Owned(x) => block[b].life = "live"
    /\ \A x, y \in ArenaIds : x # y => Owned(x) \cap Owned(y) = {}

\* The bump pointer is in the head, which is on the chain.
HeadOK(x) ==
    LET a == arena[x] IN
    /\ ~a.alive => a.first = 0
    /\ a.first = 0 => a.head = 0 /\ a.current = 0 /\ a.end = 0
    /\ a.first # 0 => /\ a.head \in Owned(x)
                      /\ block[a.head].data <= a.current
                      /\ a.current <= a.end
                      /\ a.end = block[a.head].data + block[a.head].size

\* An allocation is aligned, and lies in a block of its arena that is not after the
\* head; in the head it is below the bump pointer.
Inside(l, b) ==
    /\ b \in Owned(l.arena) /\ b <= arena[l.arena].head
    /\ block[b].data <= l.addr /\ l.addr + l.size <= block[b].data + block[b].size
    /\ b = arena[l.arena].head => l.addr + l.size <= arena[l.arena].current
AllocOK(l) == l.addr % l.align = 0 /\ \E b \in BlockIds : Inside(l, b)
Apart(l, k) == l = k \/ l.addr + l.size <= k.addr \/ k.addr + k.size <= l.addr

ArenaInv ==
    /\ ArenaTypes /\ NextUp(block) /\ UnusedLast /\ InPlace(block) /\ Ownership
    /\ \A x \in ArenaIds : HeadOK(x)
    /\ \A l \in allocs : AllocOK(l)
    /\ \A l, k \in allocs : Apart(l, k)

\* C is the chain from f: it holds f, what next leads to, and nothing else.
IsChain(blocks, f, C) ==
    /\ C \in SUBSET BlockIds
    /\ f = 0 => C = {}
    /\ f # 0 => f \in C
    /\ \A z \in C : blocks[z].next # 0 => blocks[z].next \in C
    /\ \A z \in C : z # f => \E y \in C : blocks[y].next = z

(* There is one such set.  Every block but the first has a predecessor, which is  *)
(* smaller, so a least block that is in one of two sets only has none.            *)
LEMMA OneChain ==
  ASSUME NEW blocks \in BlockTypes, NextUp(blocks), NEW f \in 0 .. ArenaBlocks,
         NEW C, NEW E, IsChain(blocks, f, C), IsChain(blocks, f, E)
  PROVE  C \subseteq E
<1> DEFINE B == C \ E
<1>1. SUFFICES ASSUME B # {} PROVE FALSE
  OBVIOUS
<1>2. B \in SUBSET Nat
  BY ArenaAssumption DEF IsChain, BlockIds
<1>3. PICK z \in B : \A m \in B : z <= m
  <2> HIDE DEF B
  <2> QED BY <1>1, <1>2, Least
<1>4. z \in C /\ z \notin E /\ z # f /\ z \in BlockIds
  BY <1>3 DEF IsChain
<1>5. PICK y \in C : blocks[y].next = z
  BY <1>4 DEF IsChain
<1>6. y \in BlockIds /\ y < z /\ y \in Nat /\ z \in Nat
  <2>1. y \in BlockIds /\ y \in Nat /\ z \in Nat /\ z # 0
    BY <1>4, <1>5, ArenaAssumption DEF IsChain, BlockIds
  <2> QED BY <1>5, <2>1 DEF NextUp
<1>7. y \in E
  BY <1>3, <1>5, <1>6
<1>8. z \in E
  BY <1>4, <1>5, <1>6, <1>7, ArenaAssumption DEF IsChain, BlockIds
<1> QED BY <1>4, <1>8

(* The chain that the loop over next runs through is that set. *)
LEMMA ChainIs ==
  ASSUME NEW blocks \in BlockTypes, NextUp(blocks), NEW f \in 0 .. ArenaBlocks
  PROVE  IsChain(blocks, f, ChainIn(blocks, f))
<1> DEFINE N == ArenaBlocks
           D == 0 .. N
           nx(z) == blocks[z].next
           Closed(x, S) == x \in S /\ \A z \in S : nx(z) # 0 => nx(z) \in S
           W(x) == IF x = 0 THEN {} ELSE {y \in BlockIds : \A S \in SUBSET BlockIds : Closed(x, S) => y \in S}
           w == [x \in D |-> W(x)]
           step(g, x) == IF x = 0 THEN {} ELSE {x} \cup g[nx(x)]
<1>1. N \in Nat /\ \A x \in D : x = 0 \/ x \in BlockIds
  BY ArenaAssumption DEF BlockIds
<1>2. \A x \in BlockIds : x \in D /\ x # 0 /\ x \in Nat /\ nx(x) \in D
        /\ (nx(x) # 0 => nx(x) > x /\ nx(x) \in BlockIds)
  BY <1>1 DEF BlockTypes, BlockIds, NextUp
<1> HIDE DEF N, nx
<1>3. ASSUME NEW x \in BlockIds
      PROVE  /\ Closed(x, W(x)) /\ W(x) \in SUBSET BlockIds
             /\ W(x) = {x} \cup W(nx(x))
  <2>0. x # 0
    BY <1>2
  <2>1. W(x) \in SUBSET BlockIds
          /\ \A y : y \in W(x) <=> y \in BlockIds /\ \A S \in SUBSET BlockIds : Closed(x, S) => y \in S
    BY <2>0
  <2>2. x \in W(x)
    BY <2>1
  <2>3. ASSUME NEW z \in W(x), nx(z) # 0 PROVE nx(z) \in W(x)
    <3>1. z \in BlockIds /\ nx(z) \in BlockIds
      BY <1>2, <2>1, <2>3
    <3>2. ASSUME NEW S \in SUBSET BlockIds, Closed(x, S) PROVE nx(z) \in S
      BY <2>1, <2>3, <3>2
    <3> QED BY <2>1, <3>1, <3>2
  <2>4. ASSUME nx(x) # 0 PROVE W(nx(x)) \subseteq W(x)
    <3>1. ASSUME NEW y \in W(nx(x)), NEW S \in SUBSET BlockIds, Closed(x, S) PROVE y \in S
      <4>1. Closed(nx(x), S)
        BY <2>4, <3>1
      <4> QED BY <2>4, <3>1, <4>1
    <3>2. ASSUME NEW y \in W(nx(x)) PROVE y \in BlockIds
      BY <2>4, <3>2
    <3> QED BY <2>1, <3>1, <3>2
  <2>5. Closed(x, {x} \cup W(nx(x))) /\ {x} \cup W(nx(x)) \in SUBSET BlockIds
    <3>1. CASE nx(x) = 0
      BY <3>1
    <3>2. CASE nx(x) # 0
      <4>1. nx(x) \in BlockIds
        BY <1>2, <3>2
      <4>2. W(nx(x)) \in SUBSET BlockIds
              /\ \A y : y \in W(nx(x)) <=> y \in BlockIds /\ \A S \in SUBSET BlockIds : Closed(nx(x), S) => y \in S
        BY <3>2
      <4>3. nx(x) \in W(nx(x))
        BY <4>1, <4>2
      <4>4. ASSUME NEW z \in W(nx(x)), nx(z) # 0 PROVE nx(z) \in W(nx(x))
        <5>1. z \in BlockIds /\ nx(z) \in BlockIds
          BY <1>2, <4>2, <4>4
        <5>2. ASSUME NEW S \in SUBSET BlockIds, Closed(nx(x), S) PROVE nx(z) \in S
          BY <4>2, <4>4, <5>2
        <5> QED BY <4>2, <5>1, <5>2
      <4> HIDE DEF W
      <4> QED BY <4>2, <4>3, <4>4
    <3> QED BY <3>1, <3>2
  <2>6. W(x) \subseteq {x} \cup W(nx(x))
    BY <2>1, <2>5
  <2>7. {x} \cup W(nx(x)) \subseteq W(x)
    <3>1. nx(x) = 0 => W(nx(x)) = {}
      OBVIOUS
    <3> HIDE DEF W
    <3> QED BY <2>2, <2>4, <3>1
  <2>8. W(x) = {x} \cup W(nx(x))
    BY <2>6, <2>7
  <2> HIDE DEF W
  <2> QED BY <2>1, <2>2, <2>3, <2>8
<1>4. W(0) = {}
  OBVIOUS
<1> HIDE DEF W
<1>5. \A x \in D : w[x] = W(x)
  OBVIOUS
<1>6. w = [x \in D |-> step(w, x)]
  <2>1. \A x \in D : w[x] = step(w, x)
    <3> HIDE DEF w
    <3> QED BY <1>1, <1>2, <1>3, <1>4, <1>5
  <2>2. w = [x \in D |-> w[x]]
    OBVIOUS
  <2> HIDE DEF w
  <2> QED BY <2>1, <2>2
<1>7. ASSUME NEW g, g = [x \in D |-> step(g, x)] PROVE g = w
  <2> DEFINE B == {n \in D : N - n \in D /\ g[N - n] # w[N - n]}
  <2>1. ASSUME B # {} PROVE FALSE
    <3>1. B \in SUBSET Nat
      BY <1>1
    <3>2. PICK n \in B : \A m \in B : n <= m
      <4> HIDE DEF B
      <4> QED BY <2>1, <3>1, Least
    <3> DEFINE x == N - n
    <3>3. x \in D /\ g[x] # w[x] /\ n \in Nat
      BY <1>1, <3>2
    <3>4. g[x] = step(g, x) /\ w[x] = step(w, x)
      <4> HIDE DEF x, w
      <4>1. g[x] = step(g, x)
        BY <1>7, <3>3
      <4>2. w[x] = step(w, x)
        BY <1>6, <3>3
      <4> QED BY <4>1, <4>2
    <3>5. x # 0
      <4> HIDE DEF x, w
      <4> QED BY <3>3, <3>4
    <3>6. x \in BlockIds /\ x \in Nat
      <4> HIDE DEF x
      <4> QED BY <1>1, <1>2, <3>3, <3>5
    <3>7. g[nx(x)] # w[nx(x)]
      <4> HIDE DEF x, w
      <4> QED BY <3>3, <3>4, <3>5
    <3>8. nx(x) # 0 => nx(x) > x /\ nx(x) \in D /\ nx(x) \in Nat
      <4> HIDE DEF x
      <4> QED BY <1>2, <3>6
    <3>9. g[0] = w[0]
      <4>1. 0 \in D
        BY <1>1
      <4>2. g[0] = {} 
        BY <1>7, <4>1
      <4>3. w[0] = {}
        BY <1>4, <1>5, <4>1
      <4> QED BY <4>2, <4>3
    <3>10. nx(x) # 0
      <4> HIDE DEF x, w
      <4> QED BY <3>7, <3>9
    <3> DEFINE m == N - nx(x)
    <3>11. m \in D /\ N - m \in D /\ N - m = nx(x) /\ m < n
      <4>1. nx(x) > x /\ nx(x) \in D /\ nx(x) \in Nat
        BY <3>8, <3>10
      <4>2. nx(x) <= N /\ x = N - n
        BY <1>1, <4>1
      <4> HIDE DEF x
      <4> QED BY <1>1, <3>3, <4>1, <4>2
    <3>12. m \in B
      <4> HIDE DEF m, x, w
      <4> QED BY <3>7, <3>11
    <3>13. n <= m /\ m \in Nat
      <4> HIDE DEF m, B
      <4> QED BY <3>1, <3>2, <3>12
    <3> HIDE DEF m
    <3> QED BY <3>3, <3>11, <3>13
  <2>2. \A x \in D : g[x] = w[x]
    <3> SUFFICES ASSUME NEW x \in D, g[x] # w[x] PROVE FALSE
      OBVIOUS
    <3> HIDE DEF w
    <3>1. N - x \in D /\ N - (N - x) = x
      BY <1>1
    <3>2. N - x \in B
      BY <3>1
    <3> QED BY <2>1, <3>2
  <2>3. g = [x \in D |-> g[x]]
    BY <1>7
  <2>4. w = [x \in D |-> w[x]]
    OBVIOUS
  <2> HIDE DEF w
  <2> QED BY <2>2, <2>3, <2>4
<1> HIDE DEF w
<1> DEFINE P(g) == g = [x \in D |-> step(g, x)]
<1>8. ChainIn(blocks, f) = (CHOOSE g : P(g))[f]
  BY DEF ChainIn, nx, N
<1>9. P(w) /\ \A g : P(g) => g = w
  BY <1>6, <1>7
<1> HIDE DEF P
<1>10. ChainIn(blocks, f) = W(f)
  <2>1. (CHOOSE g : P(g)) = w
    BY <1>9
  <2>2. f \in D
    BY DEF N
  <2> QED BY <1>5, <1>8, <2>1, <2>2
<1>11. IsChain(blocks, f, W(f))
  <2>1. CASE f = 0
    BY <1>4, <2>1 DEF IsChain
  <2>2. CASE f # 0
    <3>1. f \in BlockIds
      BY <1>1, <2>2 DEF N
    <3>2. Closed(f, W(f)) /\ W(f) \in SUBSET BlockIds
      BY <1>3, <3>1
    <3>3. ASSUME NEW z \in W(f), z # f PROVE \E y \in W(f) : nx(y) = z
      <4> DEFINE S == {y \in W(f) : y = f \/ \E u \in W(f) : nx(u) = y}
      <4>1. S \in SUBSET BlockIds /\ Closed(f, S)
        BY <3>2
      <4>2. W(f) \subseteq S
        <5>1. \A y \in W(f) : \A T \in SUBSET BlockIds : Closed(f, T) => y \in T
          BY <2>2 DEF W
        <5> HIDE DEF S, Closed
        <5> QED BY <4>1, <5>1
      <4> QED BY <3>3, <4>2
    <3> QED BY <2>2, <3>2, <3>3 DEF IsChain, nx
  <2> QED BY <2>1, <2>2
<1> QED BY <1>10, <1>11

(* What is a chain is the chain. *)
LEMMA ChainEq ==
  ASSUME NEW blocks \in BlockTypes, NextUp(blocks), NEW f \in 0 .. ArenaBlocks, NEW C,
         IsChain(blocks, f, C)
  PROVE  ChainIn(blocks, f) = C
<1>1. IsChain(blocks, f, ChainIn(blocks, f))
  BY ChainIs
<1>2. ChainIn(blocks, f) \subseteq C /\ C \subseteq ChainIn(blocks, f)
  BY <1>1, OneChain
<1> QED BY <1>2

(* A chain is ordered: next leads from one of its blocks to the one right after it. *)
LEMMA ChainOrder ==
  ASSUME NEW blocks \in BlockTypes, NextUp(blocks), NEW f \in 0 .. ArenaBlocks, NEW C,
         IsChain(blocks, f, C), NEW z \in C, NEW h \in C, z < h
  PROVE  blocks[z].next # 0 /\ blocks[z].next <= h
<1> DEFINE nx(u) == blocks[u].next
           B == {k \in C : \E u \in C : u < k /\ ~(nx(u) # 0 /\ nx(u) <= k)}
<1>1. C \in SUBSET BlockIds /\ BlockIds \in SUBSET Nat
  BY ArenaAssumption DEF IsChain, BlockIds
<1>2. \A u \in C : u \in Nat /\ nx(u) \in Nat /\ (nx(u) # 0 => nx(u) > u /\ nx(u) \in C)
  BY <1>1, ArenaAssumption DEF IsChain, NextUp, BlockTypes
<1> HIDE DEF nx
<1>3. ASSUME B # {} PROVE FALSE
  <2>1. B \in SUBSET Nat
    BY <1>1
  <2>2. PICK k \in B : \A m \in B : k <= m
    <3> HIDE DEF B
    <3> QED BY <1>3, <2>1, Least
  <2>3. PICK u \in C : u < k /\ ~(nx(u) # 0 /\ nx(u) <= k)
    BY <2>2
  <2>4. k \in C /\ k \in Nat /\ u \in Nat
    BY <1>2, <2>2
  <2>5. \A v, m \in C : v < m /\ m < k => nx(v) # 0 /\ nx(v) <= m
    <3> SUFFICES ASSUME NEW v \in C, NEW m \in C, v < m, m < k, ~(nx(v) # 0 /\ nx(v) <= m) PROVE FALSE
      OBVIOUS
    <3>1. m \in B
      OBVIOUS
    <3> HIDE DEF B
    <3>2. k <= m /\ m \in Nat
      BY <1>2, <2>2, <3>1
    <3> QED BY <2>4, <3>2
  <2> HIDE DEF B
  <2>6. k # f
    <3> DEFINE E == {m \in C : m < k}
    <3>1. E # {} /\ E \in SUBSET Nat
      BY <1>2, <2>3
    <3>2. PICK m \in E : \A n \in E : m <= n
      <4> HIDE DEF E
      <4> QED BY <3>1, Least
    <3>3. m = f
      <4>1. SUFFICES ASSUME m # f PROVE FALSE
        OBVIOUS
      <4>2. PICK y \in C : nx(y) = m
        BY <3>2, <4>1 DEF IsChain, nx
      <4>3. y < m /\ y \in Nat /\ m \in Nat
        BY <1>1, <1>2, <3>2, <4>2, ArenaAssumption DEF BlockIds
      <4>4. y \in E
        BY <2>4, <3>2, <4>3
      <4> HIDE DEF E
      <4>5. m <= y
        BY <3>2, <4>4
      <4> QED BY <4>3, <4>5
    <3> QED BY <2>4, <3>2, <3>3
  <2>7. PICK y \in C : nx(y) = k
    BY <2>4, <2>6 DEF IsChain, nx
  <2>8. y < k /\ y \in Nat /\ k # 0
    BY <1>1, <1>2, <2>4, <2>7, ArenaAssumption DEF BlockIds
  <2>9. CASE y = u
    BY <2>3, <2>4, <2>7, <2>8, <2>9
  <2>10. CASE u < y
    <3>1. nx(u) # 0 /\ nx(u) <= y /\ nx(u) \in Nat
      BY <1>2, <2>5, <2>8, <2>10
    <3> QED BY <2>3, <2>4, <2>8, <3>1
  <2>11. CASE y < u
    <3>1. nx(y) # 0 /\ nx(y) <= u
      BY <2>3, <2>5, <2>11
    <3> QED BY <2>3, <2>4, <2>7, <3>1
  <2> QED BY <2>4, <2>8, <2>9, <2>10, <2>11
<1>4. h \notin B
  BY <1>3
<1> QED BY <1>4 DEF nx

(* What is behind block h of a chain is the chain from its next. *)
LEMMA ChainBehind ==
  ASSUME NEW blocks \in BlockTypes, NextUp(blocks), NEW f \in 0 .. ArenaBlocks, NEW C,
         IsChain(blocks, f, C), NEW h \in C
  PROVE  IsChain(blocks, blocks[h].next, {z \in C : z > h})
<1> DEFINE nx(u) == blocks[u].next
           E == {z \in C : z > h}
<1>1. C \in SUBSET BlockIds /\ BlockIds \in SUBSET Nat /\ 0 \notin BlockIds
  BY ArenaAssumption DEF IsChain, BlockIds
<1>2. \A u \in C : u \in Nat /\ nx(u) \in Nat /\ (nx(u) # 0 => nx(u) > u /\ nx(u) \in C)
  BY <1>1, ArenaAssumption DEF IsChain, NextUp, BlockTypes
<1>3. \A u, v \in C : u < v => nx(u) # 0 /\ nx(u) <= v
  BY ChainOrder
<1>4. \A u \in C : u # f => \E y \in C : nx(y) = u
  BY DEF IsChain
<1>5. f # 0 => f <= h
  <2>0. f \in Nat /\ h \in Nat
    BY <1>1, ArenaAssumption
  <2> SUFFICES ASSUME h < f PROVE FALSE
    BY <2>0
  <2> DEFINE G == {m \in C : m < f}
  <2>1. G # {} /\ G \in SUBSET Nat
    BY <1>1
  <2>2. PICK m \in G : \A n \in G : m <= n
    <3> HIDE DEF G
    <3> QED BY <2>1, Least
  <2>3. m \in C /\ m < f /\ m \in Nat /\ m # 0
    BY <1>1, <2>2
  <2>4. PICK y \in C : nx(y) = m
    BY <1>4, <2>3
  <2>5. y < m /\ y \in Nat
    BY <1>2, <2>3, <2>4
  <2>6. y \in G
    BY <2>3, <2>5
  <2> HIDE DEF G
  <2>7. m <= y
    BY <2>2, <2>6
  <2> QED BY <2>3, <2>5, <2>7
<1> HIDE DEF nx
<1>6. nx(h) = 0 => E = {}
  BY <1>1, <1>3
<1>7. nx(h) # 0 => nx(h) \in E
  BY <1>2
<1>8. \A z \in E : nx(z) # 0 => nx(z) \in E
  <2> SUFFICES ASSUME NEW z \in E, nx(z) # 0 PROVE nx(z) \in E
    OBVIOUS
  <2>1. nx(z) \in C /\ nx(z) > z /\ z > h /\ z \in Nat /\ h \in Nat /\ nx(z) \in Nat
    BY <1>2
  <2>2. nx(z) > h
    BY <2>1
  <2> QED BY <2>1, <2>2
<1>9. ASSUME NEW z \in E, z # nx(h) PROVE \E y \in E : nx(y) = z
  <2>1. z \in C /\ z > h /\ z \in Nat /\ h \in Nat /\ z # 0
    BY <1>1, <1>9
  <2>2. z # f
    <3>1. f # 0 => f <= h /\ f \in Nat
      BY <1>5, ArenaAssumption
    <3> QED BY <2>1, <3>1
  <2>3. PICK y \in C : nx(y) = z
    BY <1>4, <2>1, <2>2 DEF nx
  <2>4. y \in Nat /\ y # h
    BY <1>1, <1>9, <2>3
  <2>5. ~(y < h)
    BY <1>3, <2>1, <2>3, <2>4 DEF nx
  <2>6. y > h
    BY <2>1, <2>4, <2>5
  <2> QED BY <2>3, <2>6
<1> QED BY <1>1, <1>6, <1>7, <1>8, <1>9 DEF IsChain, nx

(* A chain whose block h is linked to a new block b instead. *)
LEMMA ChainLinked ==
  ASSUME NEW blocks \in BlockTypes, NextUp(blocks), NEW f \in 0 .. ArenaBlocks, NEW C,
         IsChain(blocks, f, C), NEW h \in C, NEW b \in BlockIds, b > h,
         NEW new \in BlockTypes, new[h].next = b, new[b].next = 0,
         \A z \in C : z # h /\ z # b => new[z].next = blocks[z].next
  PROVE  IsChain(new, f, {z \in C : z <= h} \cup {b})
<1> DEFINE nx(u) == blocks[u].next
           E == {z \in C : z <= h}
           G == E \cup {b}
<1>1. C \in SUBSET BlockIds /\ BlockIds \in SUBSET Nat /\ 0 \notin BlockIds
  BY ArenaAssumption DEF IsChain, BlockIds
<1>2. \A u \in C : u \in Nat /\ nx(u) \in Nat /\ (nx(u) # 0 => nx(u) > u /\ nx(u) \in C)
  BY <1>1, ArenaAssumption DEF IsChain, NextUp, BlockTypes
<1>3. \A u, v \in C : u < v => nx(u) # 0 /\ nx(u) <= v
  BY ChainOrder
<1>4. \A u \in C : u # f => \E y \in C : nx(y) = u
  BY DEF IsChain
<1>5. \A z \in E : z # h => new[z].next = nx(z) /\ nx(z) # 0 /\ nx(z) \in E
  <2> SUFFICES ASSUME NEW z \in E, z # h PROVE new[z].next = nx(z) /\ nx(z) # 0 /\ nx(z) \in E
    OBVIOUS
  <2>1. z \in C /\ z < h /\ z # b /\ z \in Nat /\ h \in Nat
    BY <1>1
  <2>2. new[z].next = nx(z) /\ nx(z) # 0 /\ nx(z) <= h
    BY <1>3, <2>1
  <2> QED BY <1>2, <2>1, <2>2
<1>6. f # 0 /\ f \in C
  BY DEF IsChain
<1>7. f <= h
  <2> SUFFICES ASSUME h < f PROVE FALSE
    BY <1>1, <1>6
  <2> DEFINE F == {m \in C : m < f}
  <2>1. F # {} /\ F \in SUBSET Nat
    BY <1>1
  <2>2. PICK m \in F : \A n \in F : m <= n
    <3> HIDE DEF F
    <3> QED BY <2>1, Least
  <2>3. m \in C /\ m < f /\ m \in Nat /\ m # 0
    BY <1>1, <2>2
  <2>4. PICK y \in C : nx(y) = m
    BY <1>4, <1>6, <2>3
  <2>5. y < m /\ y \in Nat
    BY <1>2, <2>3, <2>4
  <2>6. y \in F
    BY <1>1, <1>6, <2>3, <2>5
  <2> HIDE DEF F
  <2>7. m <= y
    BY <2>2, <2>6
  <2> QED BY <2>3, <2>5, <2>7
<1>8. f \in G /\ h \in E /\ G \in SUBSET BlockIds
  <2>1. f \in E /\ h \in E
    BY <1>1, <1>6, <1>7
  <2>2. E \in SUBSET BlockIds
    BY <1>1
  <2> QED BY <2>1, <2>2
<1>9. ASSUME NEW z \in G PROVE new[z].next # 0 => new[z].next \in G
  <2>1. CASE z = b \/ z = h
    BY <2>1
  <2>2. CASE z # b /\ z # h
    BY <1>5, <1>9, <2>2
  <2> QED BY <2>1, <2>2
<1>10. ASSUME NEW z \in G, z # f PROVE \E y \in G : new[y].next = z
  <2>1. CASE z = b
    BY <1>8, <2>1
  <2>2. CASE z # b
    <3>1. z \in C /\ z <= h /\ z \in Nat /\ h \in Nat /\ z # 0
      BY <1>1, <1>10, <2>2
    <3>2. PICK y \in C : nx(y) = z
      BY <1>4, <1>10, <3>1
    <3>3. y < z /\ y \in Nat
      BY <1>2, <3>1, <3>2
    <3>4. y \in E /\ y # h
      BY <3>1, <3>3
    <3> QED BY <1>5, <3>2, <3>4
  <2> QED BY <2>1, <2>2
<1> QED BY <1>6, <1>8, <1>9, <1>10 DEF IsChain

(* A chain is not touched by what happens to other blocks. *)
LEMMA ChainSame ==
  ASSUME NEW blocks, NEW f, NEW C, IsChain(blocks, f, C), NEW new,
         \A z \in C : new[z].next = blocks[z].next
  PROVE  IsChain(new, f, C)
  BY DEF IsChain

(* Rounding up to a multiple. *)
LEMMA AlignFacts ==
  ASSUME NEW p \in Nat, NEW a \in Nat \ {0}
  PROVE  AlignUp(p, a) \in Nat /\ AlignUp(p, a) >= p /\ AlignUp(p, a) < p + a /\ AlignUp(p, a) % a = 0
<1> DEFINE n == p + a - 1
           q == n \div a
           r == n % a
<1>1. n \in Nat
  OBVIOUS
<1> HIDE DEF n
<1>2. q \in Nat /\ r \in 0 .. a - 1 /\ n = (a * q) + r
  BY <1>1
<1> HIDE DEF q, r
<1>3. AlignUp(p, a) = q * a
  BY DEF AlignUp, n, q
<1> DEFINE u == q * a
<1>4. u \in Nat /\ u = a * q
  BY <1>2
<1>8. u \in Nat
  BY <1>4
<1> HIDE DEF u
<1>5. u % a = 0
  <2> DEFINE s == u \div a
             t == u % a
  <2>1. s \in Int /\ t \in 0 .. a - 1 /\ u = (a * s) + t
    BY <1>8
  <2> HIDE DEF s, t
  <2>2. t = a * (q - s)
    BY <1>2, <1>4, <2>1
  <2>3. q - s < 1 /\ q - s > -1
    BY <1>2, <2>1, <2>2
  <2>4. t = 0
    BY <1>2, <2>1, <2>2, <2>3
  <2> QED BY <2>4 DEF t
<1>6. n = p + a - 1
  BY DEF n
<1>7. u >= p /\ u < p + a
  BY <1>1, <1>2, <1>4, <1>6
<1> QED BY <1>3, <1>4, <1>5, <1>7 DEF u

(* What lies in two different blocks does not overlap. *)
LEMMA BlocksApart ==
  ASSUME NEW blocks \in BlockTypes, InPlace(blocks), NEW b \in BlockIds, NEW c \in BlockIds, b # c,
         blocks[b].life # "unused", blocks[c].life # "unused",
         NEW p \in Nat, NEW m \in Nat, blocks[b].data <= p, p + m <= blocks[b].data + blocks[b].size,
         NEW q \in Nat, NEW n \in Nat, blocks[c].data <= q, q + n <= blocks[c].data + blocks[c].size
  PROVE  p + m <= q \/ q + n <= p
<1>1. b \in Nat /\ c \in Nat /\ ArenaStride \in Nat
  BY ArenaAssumption DEF BlockIds
<1>2. b < c => (b + 1) * ArenaStride <= c * ArenaStride
  BY <1>1
<1>3. c < b => (c + 1) * ArenaStride <= b * ArenaStride
  BY <1>1
<1>4. /\ (b + 1) * ArenaStride = b * ArenaStride + ArenaStride
      /\ (c + 1) * ArenaStride = c * ArenaStride + ArenaStride
  BY <1>1
<1>5. /\ blocks[b].data \in Nat /\ blocks[b].size \in Nat
      /\ blocks[c].data \in Nat /\ blocks[c].size \in Nat
  BY DEF BlockTypes
<1> DEFINE B == b * ArenaStride
           C == c * ArenaStride
<1>6. B \in Nat /\ C \in Nat /\ (b < c => B + ArenaStride <= C) /\ (c < b => C + ArenaStride <= B)
  <2>1. B \in Nat /\ C \in Nat
    BY <1>1
  <2> QED BY <1>2, <1>3, <1>4, <2>1
<1>7. /\ B <= blocks[b].data /\ blocks[b].data + blocks[b].size <= B + ArenaStride
      /\ C <= blocks[c].data /\ blocks[c].data + blocks[c].size <= C + ArenaStride
  BY DEF InPlace
<1> HIDE DEF B, C
<1>8. CASE b < c
  BY <1>1, <1>5, <1>6, <1>7, <1>8
<1>9. CASE c < b
  BY <1>1, <1>5, <1>6, <1>7, <1>9
<1> QED BY <1>1, <1>8, <1>9

(* The larger of two numbers. *)
LEMMA MaxOfTwo ==
  ASSUME NEW p \in Nat, NEW q \in Nat
  PROVE  Max({p, q}) \in Nat /\ Max({p, q}) >= p /\ Max({p, q}) >= q /\ Max({p, q}) \in {p, q}
<1>1. \E x \in {p, q} : \A y \in {p, q} : x >= y
  <2>1. CASE p >= q
    BY <2>1
  <2>2. CASE q >= p
    BY <2>2
  <2> QED BY <2>1, <2>2
<1>2. Max({p, q}) = CHOOSE x \in {p, q} : \A y \in {p, q} : x >= y
  BY DEF Max
<1>3. Max({p, q}) \in {p, q} /\ \A y \in {p, q} : Max({p, q}) >= y
  BY <1>1, <1>2
<1> QED BY <1>3

----------------------------------------------------------------------------
(* Every operation keeps the invariant. *)

(* The chains of the arenas, and what the invariant says of them. *)
LEMMA OwnedFacts ==
  ASSUME ArenaInv, NEW x \in ArenaIds
  PROVE  /\ IsChain(block, arena[x].first, Owned(x)) /\ Owned(x) \in SUBSET BlockIds
         /\ arena[x].first \in 0 .. ArenaBlocks /\ arena[x].head \in 0 .. ArenaBlocks
         /\ arena[x].current \in Nat /\ arena[x].end \in Nat /\ arena[x].total \in Nat
         /\ arena[x].first = 0 => Owned(x) = {}
         /\ arena[x].first # 0 => arena[x].first \in Owned(x)
         /\ \A b \in Owned(x) : block[b].life = "live"
<1>1. /\ arena[x].first \in 0 .. ArenaBlocks /\ arena[x].head \in 0 .. ArenaBlocks
      /\ arena[x].current \in Nat /\ arena[x].end \in Nat /\ arena[x].total \in Nat
      /\ block \in BlockTypes /\ NextUp(block)
  BY DEF ArenaInv, ArenaTypes
<1>2. IsChain(block, arena[x].first, Owned(x))
  BY <1>1, ChainIs DEF Owned, Chain
<1>3. /\ Owned(x) \in SUBSET BlockIds
      /\ arena[x].first = 0 => Owned(x) = {}
      /\ arena[x].first # 0 => arena[x].first \in Owned(x)
  BY <1>2 DEF IsChain
<1>4. \A b \in Owned(x) : block[b].life = "live"
  BY <1>3 DEF ArenaInv, Ownership
<1> QED BY <1>1, <1>2, <1>3, <1>4

(* A chain follows the pointer to its first block when no next changes. *)
LEMMA OwnedFollows ==
  ASSUME ArenaInv, block' \in BlockTypes, \A b \in BlockIds : block'[b].next = block[b].next
  PROVE  /\ NextUp(block')
         /\ \A x, y \in ArenaIds : arena'[x].first = arena[y].first => Owned(x)' = Owned(y)
         /\ \A x \in ArenaIds : arena'[x].first = 0 => Owned(x)' = {}
<1>1. NextUp(block')
  BY DEF ArenaInv, NextUp
<1>2. ASSUME NEW x \in ArenaIds, NEW y \in ArenaIds, arena'[x].first = arena[y].first
      PROVE  Owned(x)' = Owned(y)
  <2>1. /\ IsChain(block, arena[y].first, Owned(y)) /\ Owned(y) \in SUBSET BlockIds
        /\ arena[y].first \in 0 .. ArenaBlocks
    BY OwnedFacts
  <2>2. PICK blocks, f, C : blocks = block' /\ f = arena[y].first /\ C = Owned(y)
    OBVIOUS
  <2>3. IsChain(blocks, f, C)
    BY <2>1, <2>2, ChainSame
  <2>4. ChainIn(blocks, f) = C
    BY <1>1, <2>1, <2>2, <2>3, ChainEq
  <2> QED BY <1>2, <2>2, <2>4 DEF Owned, Chain
<1>3. ASSUME NEW x \in ArenaIds, arena'[x].first = 0 PROVE Owned(x)' = {}
  <2>1. PICK blocks, f : blocks = block' /\ f = 0
    OBVIOUS
  <2>2. IsChain(blocks, f, {})
    BY <2>1 DEF IsChain
  <2>3. f \in 0 .. ArenaBlocks
    BY <2>1, ArenaAssumption
  <2>4. ChainIn(blocks, f) = {}
    BY <1>1, <2>1, <2>2, <2>3, ChainEq
  <2> QED BY <1>3, <2>1, <2>4 DEF Owned, Chain
<1> QED BY <1>1, <1>2, <1>3

(* One arena alive, no block and no allocation. *)
LEMMA ArenaStarts == ArenaInit => ArenaInv
<1> SUFFICES ASSUME ArenaInit PROVE ArenaInv
  OBVIOUS
<1>0. ArenaBlocks \in Nat /\ 0 \in 0 .. ArenaBlocks
  BY ArenaAssumption
<1>1. \A x \in ArenaIds : /\ arena[x].first = 0 /\ arena[x].head = 0 /\ arena[x].current = 0
                          /\ arena[x].end = 0
  BY DEF ArenaInit, Empty
<1>2. ArenaTypes
  <2>1. block \in BlockTypes
    BY <1>0 DEF ArenaInit, BlockTypes, BlockIds
  <2>2. arena \in [ArenaIds -> [alive : BOOLEAN, current : Nat, end : Nat, head : 0 .. ArenaBlocks,
                                first : 0 .. ArenaBlocks, total : Nat]]
    BY <1>0 DEF ArenaInit, Empty
  <2> QED BY <2>1, <2>2 DEF ArenaInit, ArenaTypes
<1>3. NextUp(block) /\ UnusedLast /\ InPlace(block)
  BY DEF ArenaInit, NextUp, UnusedLast, InPlace, BlockIds
<1>4. \A x \in ArenaIds : Owned(x) = {}
  <2>1. block \in BlockTypes
    BY <1>2 DEF ArenaTypes
  <2>2. IsChain(block, 0, {})
    BY DEF IsChain
  <2>3. ChainIn(block, 0) = {}
    BY <1>0, <1>3, <2>1, <2>2, ChainEq
  <2> QED BY <1>1, <2>3 DEF Owned, Chain
<1>5. Ownership
  BY <1>4 DEF Ownership, ArenaInit, BlockIds
<1>6. \A x \in ArenaIds : HeadOK(x)
  BY <1>1 DEF HeadOK
<1> QED BY <1>2, <1>3, <1>5, <1>6 DEF ArenaInv, ArenaInit

(* The fast path: the bump pointer moves up in the head. *)
LEMMA FastKeeps ==
  ASSUME ArenaInv, NEW x \in ArenaIds, NEW size \in ArenaSizes, NEW a \in Alignments,
         AlignUp(arena[x].current, a) + size <= arena[x].end,
         arena' = [arena EXCEPT ![x].current = AlignUp(arena[x].current, a) + size],
         HandOut(x, AlignUp(arena[x].current, a), size, a), block' = block
  PROVE  ArenaInv'
<1>1. size \in Nat /\ a \in Nat \ {0}
  BY ArenaAssumption
<1>16. PICK p, h : p = AlignUp(arena[x].current, a) /\ h = arena[x].head
  OBVIOUS
<1> DEFINE new == [arena |-> x, addr |-> p, size |-> size, align |-> a]
<1>2. p \in Nat /\ p >= arena[x].current /\ p % a = 0 /\ arena[x].current \in Nat
  BY <1>1, <1>16, OwnedFacts, AlignFacts
<1>3. /\ ArenaTypes /\ NextUp(block) /\ UnusedLast /\ InPlace(block) /\ Ownership
      /\ (\A y \in ArenaIds : HeadOK(y)) /\ (\A l \in allocs : AllocOK(l))
      /\ \A l, k \in allocs : Apart(l, k)
  BY DEF ArenaInv
<1>4. allocs' = allocs \cup (IF size = 0 THEN {} ELSE {new}) /\ p + size <= arena[x].end
      /\ arena' = [arena EXCEPT ![x].current = p + size]
  BY <1>16 DEF HandOut
<1>5. p + size \in Nat
  BY <1>1, <1>2
<1>6. /\ arena' \in [ArenaIds -> [alive : BOOLEAN, current : Nat, end : Nat, head : 0 .. ArenaBlocks,
                                  first : 0 .. ArenaBlocks, total : Nat]]
      /\ arena'[x].current = p + size
      /\ \A y \in ArenaIds : /\ arena'[y].alive = arena[y].alive /\ arena'[y].end = arena[y].end
                             /\ arena'[y].head = arena[y].head /\ arena'[y].first = arena[y].first
                             /\ y # x => arena'[y].current = arena[y].current
  BY <1>3, <1>4, <1>5 DEF ArenaTypes
<1>7. new \in AllocTypes \/ size = 0
  BY <1>1, <1>2 DEF AllocTypes
<1>8. ArenaTypes'
  BY <1>3, <1>4, <1>6, <1>7 DEF ArenaTypes
<1>9. \A y \in ArenaIds : Owned(y)' = Owned(y)
  BY <1>6 DEF Owned, Chain
<1>10. Ownership' /\ UnusedLast' /\ NextUp(block)' /\ InPlace(block)'
  BY <1>3, <1>9 DEF Ownership, UnusedLast, NextUp, InPlace
<1>11. ASSUME NEW y \in ArenaIds PROVE HeadOK(y)'
  <2>1. CASE y # x
    BY <1>3, <1>6, <1>9, <2>1 DEF HeadOK
  <2>2. CASE y = x
    <3>1. HeadOK(x) /\ arena[x].end \in Nat /\ arena[x].head \in 0 .. ArenaBlocks
      BY <1>3, OwnedFacts
    <3>2. arena[x].first = 0 => p + size = 0
      BY <1>4, <1>5, <3>1 DEF HeadOK
    <3>3. arena[x].first # 0 => block[h].data <= p + size
      <4> SUFFICES ASSUME arena[x].first # 0 PROVE block[h].data <= p + size
        OBVIOUS
      <4>1. h \in BlockIds /\ block[h].data <= arena[x].current
        BY <1>16, <3>1, OwnedFacts DEF HeadOK
      <4>2. block[h].data \in Nat
        BY <1>3, <4>1 DEF ArenaTypes, BlockTypes
      <4> QED BY <1>1, <1>2, <4>1, <4>2
    <3> QED BY <1>4, <1>6, <1>9, <1>16, <2>2, <3>1, <3>2, <3>3 DEF HeadOK
  <2> QED BY <2>1, <2>2
<1>12. ASSUME NEW l \in allocs PROVE AllocOK(l)'
  <2>1. AllocOK(l) /\ l \in AllocTypes
    BY <1>3 DEF ArenaTypes
  <2>2. PICK b \in BlockIds : Inside(l, b)
    BY <2>1 DEF AllocOK
  <2>3. l.arena \in ArenaIds /\ l.addr \in Nat /\ l.size \in Nat
    BY <2>1 DEF AllocTypes
  <2>4. l.addr + l.size <= arena[l.arena].current => l.addr + l.size <= arena'[l.arena].current
    BY <1>1, <1>2, <1>6, <2>3
  <2>5. Inside(l, b)'
    BY <1>6, <1>9, <2>2, <2>3, <2>4 DEF Inside
  <2> QED BY <2>1, <2>5 DEF AllocOK
<1>13. ASSUME size # 0
       PROVE  AllocOK(new)' /\ \A l \in allocs : Apart(l, new) /\ Apart(new, l)
  <2>1. HeadOK(x) /\ arena[x].end \in Nat
    BY <1>3, OwnedFacts
  <2>2. arena[x].first # 0
    BY <1>1, <1>2, <1>4, <1>13, <2>1 DEF HeadOK
  <2>3. /\ h \in Owned(x) /\ h \in BlockIds /\ block[h].data <= arena[x].current
        /\ arena[x].end = block[h].data + block[h].size /\ block[h].life = "live"
    BY <1>16, <2>1, <2>2, OwnedFacts DEF HeadOK
  <2>4. block[h].data \in Nat /\ block[h].size \in Nat /\ h \in Nat
    BY <1>3, <2>3, ArenaAssumption, SMTT(40) DEF ArenaTypes, BlockTypes, BlockIds
  <2>5. block[h].data <= p /\ p + size <= block[h].data + block[h].size
    BY <1>2, <1>4, <2>3, <2>4
  <2>6. Inside(new, h)'
    BY <1>5, <1>6, <1>9, <1>16, <2>3, <2>4, <2>5 DEF Inside
  <2>7. AllocOK(new)'
    BY <1>2, <2>3, <2>6 DEF AllocOK
  <2>8. ASSUME NEW l \in allocs PROVE Apart(l, new) /\ Apart(new, l)
    <3>1. AllocOK(l) /\ l.arena \in ArenaIds /\ l.addr \in Nat /\ l.size \in Nat
      BY <1>3 DEF ArenaTypes, AllocTypes
    <3>2. PICK b \in BlockIds : Inside(l, b)
      BY <3>1 DEF AllocOK
    <3>3. CASE b = h
      <4>1. l.arena = x
        BY <1>3, <2>3, <3>1, <3>2, <3>3 DEF Inside, Ownership
      <4>2. l.addr + l.size <= arena[x].current
        BY <1>16, <3>2, <3>3, <4>1 DEF Inside
      <4>3. l.addr + l.size <= p
        BY <1>2, <3>1, <4>2
      <4> QED BY <4>3 DEF Apart
    <3>4. CASE b # h
      <4>1. block[b].life = "live"
        BY <1>3, <3>1, <3>2 DEF Inside, Ownership
      <4>2. block \in BlockTypes /\ block[b].data <= l.addr /\ l.addr + l.size <= block[b].data + block[b].size
        BY <1>3, <3>2 DEF ArenaTypes, Inside
      <4>3. l.addr + l.size <= p \/ p + size <= l.addr
        BY <1>1, <1>2, <1>3, <2>3, <2>5, <3>1, <3>4, <4>1, <4>2, BlocksApart
      <4> QED BY <4>3 DEF Apart
    <3> QED BY <3>3, <3>4
  <2> QED BY <2>7, <2>8
<1>14. (\A l \in allocs' : AllocOK(l)') /\ \A l, k \in allocs' : Apart(l, k)
  <2>1. CASE size = 0
    BY <1>3, <1>4, <1>12, <2>1
  <2>2. CASE size # 0
    <3>1. \A l \in allocs' : l \in allocs \/ l = new
      BY <1>4
    <3>2. Apart(new, new)
      BY DEF Apart
    <3>3. AllocOK(new)' /\ \A l \in allocs : Apart(l, new) /\ Apart(new, l)
      BY <1>13, <2>2
    <3> HIDE DEF new
    <3>4. \A l \in allocs' : AllocOK(l)'
      BY <1>12, <3>1, <3>3
    <3>5. \A l, k \in allocs' : Apart(l, k)
      BY <1>3, <3>1, <3>2, <3>3
    <3> QED BY <3>4, <3>5
  <2> QED BY <2>1, <2>2
<1>15. (\A l \in allocs : AllocOK(l))' /\ (\A l, k \in allocs : Apart(l, k))'
  BY <1>14 DEF Apart
<1> QED BY <1>8, <1>10, <1>11, <1>15 DEF ArenaInv

\* What allocate_slow does: a new block b of n bytes behind the head, which keeps its mark;
\* what was behind the head is cut off.
SlowStep(x, size, a) ==
    \E b \in BlockIds, n \in Nat, data \in Nat, p \in Nat :
        /\ data <= p /\ b > arena[x].head /\ \A y \in ArenaIds : b \notin Owned(y)
        /\ arena'[x].head = b /\ arena'[x].current = p + size /\ arena'[x].total = arena[x].total + n
        /\ \A y \in ArenaIds : y # x => arena'[y] = arena[y] /\ Owned(y)' = Owned(y)
        /\ Owned(x)' = {c \in Owned(x) : c <= arena[x].head} \cup {b}
        /\ block'[b].data = data /\ block'[b].size = n /\ block'[b].used = 0
        /\ \A c \in BlockIds : c # b =>
              /\ block'[c].size = block[c].size /\ block'[c].data = block[c].data
              /\ block'[c].used = IF c = arena[x].head THEN arena[x].current - block[c].data
                                  ELSE block[c].used
        /\ allocs' = allocs \cup (IF size = 0 THEN {}
                                  ELSE {[arena |-> x, addr |-> p, size |-> size, align |-> a]})


(* The slow path: a new block becomes the head; what was behind the old head is on no chain now. *)
LEMMA SlowKeeps ==
  ASSUME ArenaInv, NEW x \in ArenaIds, arena[x].alive, NEW size \in ArenaSizes, NEW a \in Alignments,
         AllocateSlow(x, size, a)
  PROVE  ArenaInv' /\ SlowStep(x, size, a)
<1>0. PICK r \in Residues,
           b \in {n \in 1 .. ArenaBlocks :
                     block[n].life = "unused" /\ \A k \in 1 .. n - 1 : block[k].life # "unused"} :
        LET n == Max({block_size, size + a})
            data == b * ArenaStride + r
            p == AlignUp(data, a)
            h == arena[x].head
            new == [Freeze(x) EXCEPT ![b] = [life |-> "live", next |-> 0, size |-> n, used |-> 0,
                                             data |-> data]]
        IN /\ block' = IF arena[x].first = 0 THEN new ELSE [new EXCEPT ![h].next = b]
           /\ arena' = [arena EXCEPT ![x] =
                  [alive |-> arena[x].alive, current |-> p + size, end |-> data + n, head |-> b,
                   first |-> IF arena[x].first = 0 THEN b ELSE arena[x].first,
                   total |-> arena[x].total + n]]
           /\ HandOut(x, p, size, a)
  BY DEF AllocateSlow
<1>1. b \in BlockIds /\ block[b].life = "unused" /\ \A k \in 1 .. b - 1 : block[k].life # "unused"
  BY DEF BlockIds
<1>2. PICK n, data, p, h, f, C : /\ n = Max({block_size, size + a}) /\ data = b * ArenaStride + r
                                 /\ p = AlignUp(data, a) /\ h = arena[x].head
                                 /\ f = arena[x].first /\ C = Owned(x)
  OBVIOUS
<1> DEFINE rec == [life |-> "live", next |-> 0, size |-> n, used |-> 0, data |-> data]
           new == [Freeze(x) EXCEPT ![b] = rec]
           alloc == [arena |-> x, addr |-> p, size |-> size, align |-> a]
<1>3. /\ block' = IF f = 0 THEN new ELSE [new EXCEPT ![h].next = b]
      /\ arena' = [arena EXCEPT ![x] =
             [alive |-> arena[x].alive, current |-> p + size, end |-> data + n, head |-> b,
              first |-> IF arena[x].first = 0 THEN b ELSE arena[x].first,
              total |-> arena[x].total + n]]
      /\ allocs' = allocs \cup (IF size = 0 THEN {} ELSE {alloc})
  BY <1>0, <1>2 DEF HandOut
<1>4. /\ size \in Nat /\ a \in Nat \ {0} /\ r \in Nat /\ block_size \in Nat /\ ArenaStride \in Nat
      /\ r + block_size <= ArenaStride /\ r + size + a <= ArenaStride
      /\ b \in Nat /\ b # 0 /\ ArenaBlocks \in Nat /\ BlockIds \in SUBSET (0 .. ArenaBlocks) /\ 0 \notin BlockIds
  BY <1>1, ArenaAssumption DEF BlockIds
<1>5. n \in Nat /\ n >= size + a /\ r + n <= ArenaStride
  <2>1. size + a \in Nat
    BY <1>4
  <2>2. n \in Nat /\ n >= size + a /\ n \in {block_size, size + a}
    BY <1>2, <1>4, <2>1, MaxOfTwo
  <2> QED BY <1>4, <2>1, <2>2
<1>6. data \in Nat /\ b * ArenaStride <= data /\ data + n <= b * ArenaStride + ArenaStride
  <2> DEFINE B == b * ArenaStride
  <2>1. B \in Nat /\ data = B + r
    BY <1>2, <1>4
  <2> HIDE DEF B
  <2>2. data \in Nat /\ B <= data /\ data + n <= B + ArenaStride
    BY <1>4, <1>5, <2>1
  <2> QED BY <2>2 DEF B
<1>7. p \in Nat /\ data <= p /\ p + size <= data + n /\ p % a = 0
  <2>1. p \in Nat /\ p >= data /\ p < data + a /\ p % a = 0
    BY <1>2, <1>4, <1>6, AlignFacts
  <2> QED BY <1>4, <1>5, <1>6, <2>1
<1>8. /\ ArenaTypes /\ NextUp(block) /\ UnusedLast /\ InPlace(block) /\ Ownership
      /\ (\A y \in ArenaIds : HeadOK(y)) /\ (\A l \in allocs : AllocOK(l))
      /\ (\A l, k \in allocs : Apart(l, k)) /\ block \in BlockTypes
  BY DEF ArenaInv, ArenaTypes
<1>9. /\ IsChain(block, f, C) /\ C \in SUBSET BlockIds /\ f \in 0 .. ArenaBlocks
      /\ f = 0 => h = 0 /\ C = {}
      /\ f # 0 => h \in C /\ f \in C
      /\ \A c \in C : block[c].life = "live"
  BY <1>2, <1>8, OwnedFacts DEF HeadOK
<1>10. f # 0 => h \in BlockIds /\ h # 0 /\ h # b /\ h < b
  <2> SUFFICES ASSUME f # 0 PROVE h \in BlockIds /\ h # 0 /\ h # b /\ h < b
    OBVIOUS
  <2>1. h \in BlockIds /\ h # 0 /\ h # b /\ block[h].life # "unused" /\ h \in Nat
    <3>1. h \in C /\ h \in BlockIds
      BY <1>9
    <3> QED BY <1>1, <1>4, <1>9, <3>1
  <2>2. ~(b < h)
    BY <1>1, <1>8, <2>1 DEF UnusedLast
  <2> QED BY <1>4, <2>1, <2>2
<1>11. /\ Freeze(x) \in BlockTypes
       /\ \A c \in BlockIds : /\ Freeze(x)[c].life = block[c].life /\ Freeze(x)[c].next = block[c].next
                              /\ Freeze(x)[c].size = block[c].size /\ Freeze(x)[c].data = block[c].data
                              /\ Freeze(x)[c].used = IF c = h THEN arena[x].current - block[c].data
                                                     ELSE block[c].used
  <2>1. CASE h = 0
    BY <1>2, <1>4, <1>8, <2>1 DEF Freeze
  <2>2. CASE h # 0
    <3>1. f # 0 /\ h \in BlockIds
      BY <1>9, <1>10, <2>2
    <3>2. arena[x].current - block[h].data \in Int
      BY <1>8, <3>1, OwnedFacts DEF BlockTypes
    <3>3. Freeze(x) = [block EXCEPT ![h].used = arena[x].current - block[h].data]
      BY <1>2, <2>2 DEF Freeze
    <3> QED BY <1>8, <3>1, <3>2, <3>3 DEF BlockTypes
  <2> QED BY <2>1, <2>2
<1> DEFINE used(c) == IF c = h THEN arena[x].current - block[c].data ELSE block[c].used
<1>12. /\ block' \in BlockTypes
       /\ block'[b].life = "live" /\ block'[b].next = 0 /\ block'[b].size = n /\ block'[b].data = data
       /\ block'[b].used = 0
       /\ \A c \in BlockIds : c # b => /\ block'[c].life = block[c].life /\ block'[c].used = used(c)
                                       /\ block'[c].size = block[c].size /\ block'[c].data = block[c].data
                                       /\ ~(f # 0 /\ c = h) => block'[c].next = block[c].next
       /\ f # 0 => block'[h].next = b
  <2>1. rec \in [life : {"unused", "live", "freed"}, next : 0 .. ArenaBlocks, size : Nat, used : Int, data : Nat]
    BY <1>4, <1>5, <1>6
  <2> DEFINE fr == Freeze(x)
  <2>8. \A c \in BlockIds : fr[c].used = used(c)
    BY <1>11
  <2> HIDE DEF used
  <2>2. fr \in BlockTypes
    BY <1>11
  <2> HIDE DEF fr
  <2>3. /\ [fr EXCEPT ![b] = rec] \in BlockTypes /\ [fr EXCEPT ![b] = rec][b] = rec
        /\ \A c \in BlockIds : c # b => [fr EXCEPT ![b] = rec][c] = fr[c]
    <3> HIDE DEF rec
    <3> QED BY <1>1, <2>1, <2>2 DEF BlockTypes
  <2> DEFINE nw == [fr EXCEPT ![b] = rec]
  <2> HIDE DEF nw
  <2>4. /\ nw \in BlockTypes /\ nw[b] = rec
        /\ \A c \in BlockIds : c # b => /\ nw[c].life = block[c].life /\ nw[c].next = block[c].next
                                        /\ nw[c].size = block[c].size /\ nw[c].data = block[c].data
                                        /\ nw[c].used = used(c)
    BY <1>11, <2>3, <2>8 DEF nw, fr
  <2>5. block' = IF f = 0 THEN nw ELSE [nw EXCEPT ![h].next = b]
    BY <1>3 DEF nw, fr
  <2>6. CASE f = 0
    BY <2>4, <2>5, <2>6
  <2>7. CASE f # 0
    <3>1. b \in 0 .. ArenaBlocks /\ h \in BlockIds /\ h # b
      BY <1>4, <1>10, <2>7
    <3>2. block' = [nw EXCEPT ![h].next = b]
      BY <2>5, <2>7
    <3>3. /\ block' \in BlockTypes /\ block'[h].next = b
          /\ block'[h].life = nw[h].life /\ block'[h].size = nw[h].size /\ block'[h].data = nw[h].data
          /\ block'[h].used = nw[h].used
          /\ \A c \in BlockIds : c # h => block'[c] = nw[c]
      BY <2>4, <3>1, <3>2 DEF BlockTypes
    <3>4. block'[b] = rec
      BY <1>1, <2>4, <3>1, <3>3
    <3>5. block'[b].life = "live" /\ block'[b].next = 0 /\ block'[b].size = n /\ block'[b].data = data
          /\ block'[b].used = 0
      BY <3>4
    <3>6. ASSUME NEW c \in BlockIds, c # b
          PROVE  /\ block'[c].life = block[c].life /\ block'[c].used = used(c)
                 /\ block'[c].size = block[c].size /\ block'[c].data = block[c].data
                 /\ c # h => block'[c].next = block[c].next
      <4>1. /\ nw[c].life = block[c].life /\ nw[c].next = block[c].next
            /\ nw[c].size = block[c].size /\ nw[c].data = block[c].data /\ nw[c].used = used(c)
        BY <2>4, <3>6
      <4>2. CASE c = h
        BY <3>3, <4>1, <4>2
      <4>3. CASE c # h
        BY <3>3, <4>1, <4>3
      <4> QED BY <4>2, <4>3
    <3> QED BY <2>7, <3>3, <3>5, <3>6
  <2> QED BY <2>6, <2>7
<1> HIDE DEF new, rec, used
<1>13. NextUp(block')
  <2> SUFFICES ASSUME NEW c \in BlockIds, block'[c].next # 0 PROVE block'[c].next > c
    BY DEF NextUp
  <2>1. CASE c = b
    BY <1>12, <2>1
  <2>2. CASE f # 0 /\ c = h
    BY <1>10, <1>12, <2>2, <1>4
  <2>3. CASE c # b /\ ~(f # 0 /\ c = h)
    BY <1>8, <1>12, <2>3 DEF NextUp
  <2> QED BY <2>1, <2>2, <2>3
<1>14. UnusedLast'
  <2> SUFFICES ASSUME NEW c \in BlockIds, NEW d \in BlockIds, c < d, block'[c].life = "unused"
               PROVE  block'[d].life = "unused"
    BY DEF UnusedLast
  <2>1. c # b /\ block[c].life = "unused"
    BY <1>12
  <2>2. block[d].life = "unused"
    BY <1>8, <2>1 DEF UnusedLast
  <2>3. d # b
    <3>1. c < b => c \in 1 .. b - 1
      BY <1>4 DEF BlockIds
    <3> QED BY <1>1, <2>1, <3>1
  <2> QED BY <1>12, <2>2, <2>3
<1>15. InPlace(block')
  BY <1>6, <1>8, <1>12 DEF InPlace
<1>16. /\ arena' \in [ArenaIds -> [alive : BOOLEAN, current : Nat, end : Nat, head : 0 .. ArenaBlocks,
                                   first : 0 .. ArenaBlocks, total : Nat]]
       /\ arena'[x].current = p + size /\ arena'[x].end = data + n /\ arena'[x].head = b
       /\ arena'[x].first = (IF f = 0 THEN b ELSE f) /\ arena'[x].alive = arena[x].alive
       /\ arena'[x].total = arena[x].total + n
       /\ \A y \in ArenaIds : y # x => arena'[y] = arena[y]
  <2>1. p + size \in Nat /\ data + n \in Nat /\ arena[x].total + n \in Nat /\ b \in 0 .. ArenaBlocks
    BY <1>4, <1>5, <1>6, <1>7, OwnedFacts
  <2>2. arena \in [ArenaIds -> [alive : BOOLEAN, current : Nat, end : Nat, head : 0 .. ArenaBlocks,
                                first : 0 .. ArenaBlocks, total : Nat]]
    BY <1>8 DEF ArenaTypes
  <2> DEFINE rx == [alive |-> arena[x].alive, current |-> p + size, end |-> data + n, head |-> b,
                    first |-> IF f = 0 THEN b ELSE f, total |-> arena[x].total + n]
  <2>3. rx \in [alive : BOOLEAN, current : Nat, end : Nat, head : 0 .. ArenaBlocks,
                first : 0 .. ArenaBlocks, total : Nat]
    BY <1>9, <2>1, <2>2
  <2>4. arena' = [arena EXCEPT ![x] = rx]
    BY <1>2, <1>3
  <2>5. arena'[x] = rx /\ \A y \in ArenaIds : y # x => arena'[y] = arena[y]
    <3> HIDE DEF rx
    <3> QED BY <2>2, <2>4
  <2>6. arena' \in [ArenaIds -> [alive : BOOLEAN, current : Nat, end : Nat, head : 0 .. ArenaBlocks,
                                 first : 0 .. ArenaBlocks, total : Nat]]
    <3> HIDE DEF rx
    <3> QED BY <2>2, <2>3, <2>4
  <2> QED BY <2>5, <2>6
<1> DEFINE D == {c \in C : c <= h} \cup {b}
           T == {c \in C : c > h}
<1>17. Owned(x)' = IF f = 0 THEN {b} ELSE D
  <2>1. PICK blocks, g : blocks = block' /\ g = (IF f = 0 THEN b ELSE f)
    OBVIOUS
  <2>2. blocks \in BlockTypes /\ NextUp(blocks) /\ g \in 0 .. ArenaBlocks
    BY <1>4, <1>9, <1>12, <1>13, <2>1
  <2>3. Owned(x)' = ChainIn(blocks, g)
    BY <1>16, <2>1 DEF Owned, Chain
  <2>4. CASE f = 0
    <3>1. IsChain(blocks, b, {b})
      BY <1>1, <1>4, <1>12, <2>1 DEF IsChain
    <3> QED BY <2>1, <2>2, <2>3, <2>4, <3>1, ChainEq
  <2>5. CASE f # 0
    <3>1. h \in C /\ b > h /\ h # b
      BY <1>4, <1>9, <1>10, <2>5
    <3>2. \A z \in C : z # h /\ z # b => blocks[z].next = block[z].next
      BY <1>9, <1>12, <2>1
    <3>3. blocks[h].next = b /\ blocks[b].next = 0
      BY <1>12, <2>1, <2>5
    <3>4. IsChain(blocks, f, D)
      <4>1. /\ block \in BlockTypes /\ NextUp(block) /\ f \in 0 .. ArenaBlocks /\ IsChain(block, f, C)
            /\ b \in BlockIds /\ blocks \in BlockTypes
        BY <1>1, <1>8, <1>9, <2>2
      <4> QED BY <3>1, <3>2, <3>3, <4>1, ChainLinked, SMTT(40)
    <3> HIDE DEF D
    <3> QED BY <1>9, <2>1, <2>2, <2>3, <2>5, <3>4, ChainEq
  <2> QED BY <2>4, <2>5
<1>19. ASSUME NEW y \in ArenaIds, y # x
       PROVE  /\ Owned(y)' = Owned(y) /\ b \notin Owned(y) /\ Owned(y) \in SUBSET BlockIds
              /\ Owned(y) \cap C = {} /\ \A c \in Owned(y) : block[c].life = "live"
  <2>1. /\ IsChain(block, arena[y].first, Owned(y)) /\ Owned(y) \in SUBSET BlockIds
        /\ arena[y].first \in 0 .. ArenaBlocks
        /\ \A c \in Owned(y) : block[c].life = "live"
    BY OwnedFacts
  <2>2. Owned(y) \cap C = {}
    BY <1>2, <1>8, <1>19 DEF Ownership
  <2>3. b \notin Owned(y)
    BY <1>1, <2>1
  <2>4. \A z \in Owned(y) : block'[z].next = block[z].next
    BY <1>9, <1>12, <2>1, <2>2, <2>3
  <2>5. PICK blocks, g, E : blocks = block' /\ g = arena[y].first /\ E = Owned(y)
    OBVIOUS
  <2>6. IsChain(blocks, g, E)
    BY <2>1, <2>4, <2>5, ChainSame
  <2>7. ChainIn(blocks, g) = E
    BY <1>12, <1>13, <2>1, <2>5, <2>6, ChainEq
  <2>8. Owned(y)' = E
    BY <1>16, <1>19, <2>5, <2>7 DEF Owned, Chain
  <2> QED BY <2>1, <2>2, <2>3, <2>5, <2>8
<1>20. ArenaTypes'
  <2>2. size # 0 => alloc \in AllocTypes
    BY <1>4, <1>7 DEF AllocTypes
  <2>3. allocs' \in SUBSET AllocTypes
    <3> HIDE DEF alloc
    <3> QED BY <1>3, <1>8, <2>2 DEF ArenaTypes
  <2> QED BY <1>12, <1>16, <2>3 DEF ArenaTypes
<1>21. b \notin C /\ \A c \in C : c \in Nat
  BY <1>1, <1>4, <1>8, <1>9 DEF Ownership
<1>22. \A c \in BlockIds : c \in Owned(x)' => block'[c].life = "live"
  <2> SUFFICES ASSUME NEW c \in BlockIds, c \in Owned(x)' PROVE block'[c].life = "live"
    OBVIOUS
  <2>1. CASE c = b
    BY <1>12, <2>1
  <2>2. CASE c # b
    <3>1. f # 0 /\ c \in C
      BY <1>17, <2>2
    <3> QED BY <1>9, <1>12, <2>2, <3>1
  <2> QED BY <2>1, <2>2
<1>23. Ownership'
  <2>1. ASSUME NEW y \in ArenaIds, NEW c \in BlockIds, c \in Owned(y)'
        PROVE  block'[c].life = "live"
    <3>1. CASE y = x
      BY <1>22, <2>1, <3>1
    <3>2. CASE y # x
      <4>1. c \in Owned(y) /\ c # b /\ block[c].life = "live"
        BY <1>19, <2>1, <3>2
      <4> QED BY <1>12, <4>1
    <3> QED BY <3>1, <3>2
  <2>2. ASSUME NEW y \in ArenaIds, y # x PROVE Owned(x)' \cap Owned(y)' = {}
    <3>1. Owned(x)' \subseteq C \cup {b}
      BY <1>17
    <3> QED BY <1>19, <2>2, <3>1
  <2>3. \A y, z \in ArenaIds : y # z => Owned(y)' \cap Owned(z)' = {}
    BY <2>2 DEF ArenaIds
  <2> QED BY <2>1, <2>3 DEF Ownership
<1>24. ASSUME NEW y \in ArenaIds PROVE HeadOK(y)'
  <2>1. CASE y = x
    <3>1. b \in Owned(x)'
      BY <1>17
    <3>2. arena'[x].first # 0
      BY <1>4, <1>16
    <3>3. data <= p + size
      BY <1>4, <1>6, <1>7
    <3> QED BY <1>7, <1>12, <1>16, <2>1, <3>1, <3>2, <3>3 DEF HeadOK
  <2>2. CASE y # x
    <3>1. HeadOK(y) /\ arena'[y] = arena[y]
      BY <1>8, <1>16, <2>2
    <3>2. arena[y].first # 0 => arena[y].head \in BlockIds /\ arena[y].head # b
      BY <1>19, <2>2, <3>1 DEF HeadOK
    <3> QED BY <1>12, <1>19, <2>2, <3>1, <3>2 DEF HeadOK
  <2> QED BY <2>1, <2>2
<1>25. ASSUME NEW l \in allocs PROVE /\ AllocOK(l)' /\ Apart(l, alloc) /\ Apart(alloc, l)
  <2>1. AllocOK(l) /\ l.arena \in ArenaIds /\ l.addr \in Nat /\ l.size \in Nat
    BY <1>8 DEF ArenaTypes, AllocTypes
  <2>2. PICK c \in BlockIds : Inside(l, c)
    BY <2>1 DEF AllocOK
  <2>3. block[c].life = "live" /\ c # b /\ c \in Nat
    BY <1>1, <1>4, <1>8, <2>1, <2>2 DEF Inside, Ownership
  <2>4. Inside(l, c)'
    <3>1. CASE l.arena = x
      <4>1. c \in C /\ c <= h
        BY <1>2, <2>2, <3>1 DEF Inside
      <4>2. f # 0 /\ h \in Nat
        BY <1>9, <1>21, <4>1
      <4>3. c \in Owned(x)' /\ c <= b
        BY <1>4, <1>10, <1>17, <2>3, <4>1, <4>2
      <4> QED BY <1>12, <1>16, <2>2, <2>3, <3>1, <4>3 DEF Inside
    <3>2. CASE l.arena # x
      BY <1>12, <1>16, <1>19, <2>1, <2>2, <2>3, <3>2 DEF Inside
    <3> QED BY <3>1, <3>2
  <2>5. l.addr + l.size <= p \/ p + size <= l.addr
    <3>1. PICK blocks : blocks = block'
      OBVIOUS
    <3>2. /\ blocks[c].data <= l.addr /\ l.addr + l.size <= blocks[c].data + blocks[c].size
          /\ blocks[c].life # "unused" /\ blocks[b].life # "unused"
          /\ blocks[b].data = data /\ blocks[b].size = n
      BY <1>12, <2>2, <2>3, <3>1 DEF Inside
    <3>3. blocks \in BlockTypes /\ InPlace(blocks)
      BY <1>12, <1>15, <3>1
    <3> QED BY <1>1, <1>4, <1>7, <2>1, <2>3, <3>2, <3>3, BlocksApart
  <2> QED BY <2>1, <2>4, <2>5 DEF AllocOK, Apart
<1>26. AllocOK(alloc)' /\ Apart(alloc, alloc)
  <2>1. b \in Owned(x)'
    BY <1>17
  <2>2. Inside(alloc, b)'
    BY <1>4, <1>7, <1>12, <1>16, <2>1 DEF Inside
  <2> QED BY <1>1, <1>7, <2>2 DEF AllocOK, Apart
<1>27. (\A l \in allocs' : AllocOK(l)') /\ \A l, k \in allocs' : Apart(l, k)
  <2>1. \A l \in allocs' : l \in allocs \/ l = alloc
    BY <1>3
  <2> HIDE DEF alloc
  <2>2. \A l \in allocs' : AllocOK(l)'
    BY <1>25, <1>26, <2>1
  <2>3. \A l, k \in allocs' : Apart(l, k)
    BY <1>8, <1>25, <1>26, <2>1
  <2> QED BY <2>2, <2>3
<1>28. (\A l \in allocs : AllocOK(l))' /\ (\A l, k \in allocs : Apart(l, k))'
  BY <1>27 DEF Apart
<1>29. ArenaInv'
  BY <1>13, <1>14, <1>15, <1>20, <1>23, <1>24, <1>28 DEF ArenaInv
<1>30. SlowStep(x, size, a)
  <2>1. Owned(x)' = {c \in Owned(x) : c <= arena[x].head} \cup {b}
    BY <1>2, <1>9, <1>17
  <2>2. b > arena[x].head
    BY <1>2, <1>4, <1>9, <1>10
  <2>3. \A y \in ArenaIds : b \notin Owned(y)
    BY <1>2, <1>19, <1>21
  <2>4. \A y \in ArenaIds : y # x => arena'[y] = arena[y] /\ Owned(y)' = Owned(y)
    BY <1>16, <1>19
  <2>5. \A c \in BlockIds : c # b =>
          /\ block'[c].size = block[c].size /\ block'[c].data = block[c].data
          /\ block'[c].used = IF c = arena[x].head THEN arena[x].current - block[c].data
                              ELSE block[c].used
    BY <1>2, <1>12 DEF used
  <2>6. data <= p /\ data \in Nat /\ p \in Nat /\ n \in Nat
    BY <1>5, <1>6, <1>7
  <2>7. allocs' = allocs \cup (IF size = 0 THEN {}
                              ELSE {[arena |-> x, addr |-> p, size |-> size, align |-> a]})
    BY <1>3
  <2> HIDE DEF alloc, D, T
  <2> QED BY <1>1, <1>12, <1>16, <2>1, <2>2, <2>3, <2>4, <2>5, <2>6, <2>7 DEF SlowStep
<1> QED BY <1>29, <1>30

\* The blocks of x are freed and nothing else about blocks changes.
ChainFreed(x) ==
    /\ block' \in BlockTypes
    /\ \A c \in BlockIds : /\ block'[c].next = block[c].next /\ block'[c].size = block[c].size
                           /\ block'[c].data = block[c].data /\ block'[c].used = block[c].used
                           /\ c \in Owned(x) => block'[c].life = "freed"
                           /\ c \notin Owned(x) => block'[c].life = block[c].life

(* The walk from first_block_ frees the chain (arena.cpp:19-24, 49-55); an arena that is *)
(* dead has none.                                                                        *)
LEMMA FreedFacts ==
  ASSUME ArenaInv, NEW x \in ArenaIds, FreeChain(x) \/ (~arena[x].alive /\ block' = block)
  PROVE  ChainFreed(x)
<1>1. block \in BlockTypes
  BY DEF ArenaInv, ArenaTypes
<1>2. CASE FreeChain(x)
  <2> DEFINE b1(c) == IF c \in Owned(x) THEN [block[c] EXCEPT !.life = "freed"] ELSE block[c]
  <2>1. block' = [c \in BlockIds |-> b1(c)]
    BY <1>1, <1>2 DEF FreeChain, Owned, BlockTypes
  <2>2. ASSUME NEW c \in BlockIds
        PROVE  /\ b1(c) \in [life : {"unused", "live", "freed"}, next : 0 .. ArenaBlocks,
                             size : Nat, used : Int, data : Nat]
               /\ b1(c).next = block[c].next /\ b1(c).size = block[c].size
               /\ b1(c).data = block[c].data /\ b1(c).used = block[c].used
               /\ c \in Owned(x) => b1(c).life = "freed"
               /\ c \notin Owned(x) => b1(c).life = block[c].life
    <3>1. block[c] \in [life : {"unused", "live", "freed"}, next : 0 .. ArenaBlocks,
                        size : Nat, used : Int, data : Nat]
      BY <1>1 DEF BlockTypes
    <3> QED BY <3>1
  <2> HIDE DEF b1
  <2>3. \A c \in BlockIds : block'[c] = b1(c)
    BY <2>1
  <2>4. block' \in BlockTypes
    BY <2>1, <2>2 DEF BlockTypes
  <2> QED BY <2>2, <2>3, <2>4 DEF ChainFreed
<1>3. CASE ~arena[x].alive /\ block' = block
  <2>1. arena[x].first = 0
    BY <1>3 DEF ArenaInv, HeadOK
  <2>2. Owned(x) = {}
    BY <2>1, OwnedFacts
  <2> QED BY <1>1, <1>3, <2>2 DEF ChainFreed
<1> QED BY <1>2, <1>3

(* What freeing leaves of the blocks. *)
LEMMA FreedKeeps ==
  ASSUME ArenaInv, NEW x \in ArenaIds, ChainFreed(x)
  PROVE  NextUp(block') /\ UnusedLast' /\ InPlace(block')
<1>1. NextUp(block) /\ UnusedLast /\ InPlace(block)
  BY DEF ArenaInv
<1>2. \A c \in BlockIds : block'[c].life = "unused" <=> block[c].life = "unused"
  <2> SUFFICES ASSUME NEW c \in BlockIds PROVE block'[c].life = "unused" <=> block[c].life = "unused"
    OBVIOUS
  <2>1. CASE c \in Owned(x)
    BY <2>1, OwnedFacts DEF ChainFreed
  <2>2. CASE c \notin Owned(x)
    BY <2>2 DEF ChainFreed
  <2> QED BY <2>1, <2>2
<1>3. NextUp(block')
  BY <1>1 DEF NextUp, ChainFreed
<1>4. UnusedLast'
  BY <1>1, <1>2 DEF UnusedLast
<1>5. InPlace(block')
  BY <1>1, <1>2 DEF InPlace, ChainFreed
<1> QED BY <1>3, <1>4, <1>5

(* The allocations of an arena that an operation leaves alone stay where they are. *)
LEMMA OthersAlloc ==
  ASSUME ArenaInv, NEW l \in allocs, NEW m, m.addr = l.addr, m.size = l.size, m.align = l.align,
         Owned(m.arena)' = Owned(l.arena), arena'[m.arena] = arena[l.arena],
         \A c \in BlockIds : block'[c].data = block[c].data /\ block'[c].size = block[c].size
  PROVE  AllocOK(m)'
<1>1. AllocOK(l)
  BY DEF ArenaInv
<1>2. PICK c \in BlockIds : Inside(l, c)
  BY <1>1 DEF AllocOK
<1>3. Inside(m, c)'
  BY <1>2 DEF Inside
<1> QED BY <1>1, <1>3 DEF AllocOK

(* An arena that starts or ends with nothing (arena.cpp:13-25). *)
LEMMA ClearKeeps ==
  ASSUME ArenaInv, NEW x \in ArenaIds, ChainFreed(x), NEW e,
         e = Empty \/ e = [Empty EXCEPT !.alive = FALSE], arena' = [arena EXCEPT ![x] = e],
         allocs' = {l \in allocs : l.arena # x}
  PROVE  ArenaInv'
<1>1. /\ ArenaTypes /\ Ownership /\ (\A y \in ArenaIds : HeadOK(y))
      /\ \A l, k \in allocs : Apart(l, k)
  BY DEF ArenaInv
<1>2. /\ e \in [alive : BOOLEAN, current : Nat, end : Nat, head : 0 .. ArenaBlocks,
                first : 0 .. ArenaBlocks, total : Nat]
      /\ e.first = 0 /\ e.head = 0 /\ e.current = 0 /\ e.end = 0
  <2>1. ArenaBlocks \in Nat /\ 0 \in 0 .. ArenaBlocks
    BY ArenaAssumption
  <2>2. CASE e = Empty
    BY <2>1, <2>2 DEF Empty
  <2>3. CASE e = [Empty EXCEPT !.alive = FALSE]
    BY <2>1, <2>3 DEF Empty
  <2> QED BY <2>2, <2>3
<1>3. /\ arena' \in [ArenaIds -> [alive : BOOLEAN, current : Nat, end : Nat, head : 0 .. ArenaBlocks,
                                  first : 0 .. ArenaBlocks, total : Nat]]
      /\ arena'[x] = e /\ \A y \in ArenaIds : y # x => arena'[y] = arena[y]
  BY <1>1, <1>2 DEF ArenaTypes
<1>4. ArenaTypes'
  BY <1>1, <1>3 DEF ArenaTypes, ChainFreed
<1>5. Owned(x)' = {} /\ \A y \in ArenaIds : y # x => Owned(y)' = Owned(y)
  BY <1>2, <1>3, OwnedFollows DEF ChainFreed
<1>6. Ownership'
  <2>1. ASSUME NEW y \in ArenaIds, NEW b \in BlockIds, b \in Owned(y)'
        PROVE  block'[b].life = "live"
    <3>1. y # x /\ b \in Owned(y) /\ b \notin Owned(x)
      BY <1>1, <1>5, <2>1 DEF Ownership
    <3> QED BY <3>1, OwnedFacts DEF ChainFreed
  <2>2. \A y, z \in ArenaIds : y # z => Owned(y)' \cap Owned(z)' = {}
    BY <1>1, <1>5 DEF Ownership
  <2> QED BY <2>1, <2>2 DEF Ownership
<1>7. ASSUME NEW y \in ArenaIds PROVE HeadOK(y)'
  <2>1. CASE y = x
    BY <1>2, <1>3, <2>1 DEF HeadOK
  <2>2. CASE y # x
    <3>1. HeadOK(y) /\ arena'[y] = arena[y] /\ Owned(y)' = Owned(y)
      BY <1>1, <1>3, <1>5, <2>2
    <3>2. arena[y].first # 0 => arena[y].head \in BlockIds
      BY <3>1, OwnedFacts DEF HeadOK
    <3> QED BY <3>1, <3>2 DEF HeadOK, ChainFreed
  <2> QED BY <2>1, <2>2
<1>8. ASSUME NEW l \in allocs' PROVE AllocOK(l)'
  <2>1. l \in allocs /\ l.arena # x /\ l.arena \in ArenaIds
    BY <1>1, <1>8 DEF ArenaTypes, AllocTypes
  <2>2. Owned(l.arena)' = Owned(l.arena) /\ arena'[l.arena] = arena[l.arena]
    BY <1>3, <1>5, <2>1
  <2> QED BY <2>1, <2>2, OthersAlloc DEF ChainFreed
<1>9. (\A l \in allocs : AllocOK(l))' /\ (\A l, k \in allocs : Apart(l, k))'
  BY <1>1, <1>8 DEF Apart
<1> QED BY <1>4, <1>6, <1>7, <1>9, FreedKeeps DEF ArenaInv

(* reset rewinds to the first block (arena.cpp:170-184). *)
LEMMA ResetKeeps ==
  ASSUME ArenaInv, NEW x \in ArenaIds, ArenaReset(x)
  PROVE  ArenaInv'
<1>1. /\ ArenaTypes /\ NextUp(block) /\ UnusedLast /\ InPlace(block) /\ Ownership
      /\ (\A y \in ArenaIds : HeadOK(y)) /\ \A l, k \in allocs : Apart(l, k)
  BY DEF ArenaInv
<1>2. PICK f : f = arena[x].first
  OBVIOUS
<1>3. f # 0 /\ f \in Owned(x) /\ f \in BlockIds /\ f \in 0 .. ArenaBlocks
  BY <1>2, OwnedFacts DEF ArenaReset
<1>4. /\ block' \in BlockTypes
      /\ \A c \in BlockIds : /\ block'[c].next = block[c].next /\ block'[c].size = block[c].size
                             /\ block'[c].data = block[c].data /\ block'[c].life = block[c].life
  <2> DEFINE b1(c) == IF c \in Owned(x) THEN [block[c] EXCEPT !.used = 0] ELSE block[c]
  <2>1. block' = [c \in BlockIds |-> b1(c)]
    BY <1>1 DEF ArenaReset, Owned, ArenaTypes, BlockTypes
  <2>2. ASSUME NEW c \in BlockIds
        PROVE  /\ b1(c) \in [life : {"unused", "live", "freed"}, next : 0 .. ArenaBlocks,
                             size : Nat, used : Int, data : Nat]
               /\ b1(c).next = block[c].next /\ b1(c).size = block[c].size
               /\ b1(c).data = block[c].data /\ b1(c).life = block[c].life
    <3>1. block[c] \in [life : {"unused", "live", "freed"}, next : 0 .. ArenaBlocks,
                        size : Nat, used : Int, data : Nat]
      BY <1>1 DEF ArenaTypes, BlockTypes
    <3> QED BY <3>1
  <2> HIDE DEF b1
  <2>3. \A c \in BlockIds : block'[c] = b1(c)
    BY <2>1
  <2>4. block' \in BlockTypes
    BY <2>1, <2>2 DEF BlockTypes
  <2> QED BY <2>2, <2>3, <2>4
<1>5. /\ arena' \in [ArenaIds -> [alive : BOOLEAN, current : Nat, end : Nat, head : 0 .. ArenaBlocks,
                                  first : 0 .. ArenaBlocks, total : Nat]]
      /\ arena'[x].head = f /\ arena'[x].current = block[f].data
      /\ arena'[x].end = block[f].data + block[f].size
      /\ arena'[x].alive = arena[x].alive /\ arena'[x].first = f
      /\ \A y \in ArenaIds : y # x => arena'[y] = arena[y]
  <2>1. arena' = [arena EXCEPT ![x] = [arena[x] EXCEPT !.head = f, !.current = block[f].data,
                                                       !.end = block[f].data + block[f].size]]
    BY <1>2 DEF ArenaReset
  <2>2. PICK d, e : d = block[f].data /\ e = block[f].data + block[f].size
    OBVIOUS
  <2>3. d \in Nat /\ e \in Nat
    BY <1>1, <1>3, <2>2 DEF ArenaTypes, BlockTypes
  <2> DEFINE rx == [arena[x] EXCEPT !.head = f, !.current = d, !.end = e]
  <2>4. arena' = [arena EXCEPT ![x] = rx]
    BY <2>1, <2>2
  <2>5. arena \in [ArenaIds -> [alive : BOOLEAN, current : Nat, end : Nat, head : 0 .. ArenaBlocks,
                                first : 0 .. ArenaBlocks, total : Nat]]
    BY <1>1 DEF ArenaTypes
  <2>6. /\ rx \in [alive : BOOLEAN, current : Nat, end : Nat, head : 0 .. ArenaBlocks,
                   first : 0 .. ArenaBlocks, total : Nat]
        /\ rx.head = f /\ rx.current = d /\ rx.end = e
        /\ rx.alive = arena[x].alive /\ rx.first = arena[x].first
    BY <1>3, <2>3, <2>5
  <2> HIDE DEF rx
  <2>7. /\ arena' \in [ArenaIds -> [alive : BOOLEAN, current : Nat, end : Nat, head : 0 .. ArenaBlocks,
                                    first : 0 .. ArenaBlocks, total : Nat]]
        /\ arena'[x] = rx /\ \A y \in ArenaIds : y # x => arena'[y] = arena[y]
    BY <2>4, <2>5, <2>6
  <2> QED BY <1>2, <2>2, <2>6, <2>7
<1>6. \A y \in ArenaIds : Owned(y)' = Owned(y)
  <2>1. \A y \in ArenaIds : arena'[y].first = arena[y].first
    BY <1>2, <1>5
  <2> QED BY <1>4, <2>1, OwnedFollows
<1>7. allocs' = {l \in allocs : l.arena # x}
  BY DEF ArenaReset
<1>8. ArenaTypes' /\ NextUp(block') /\ UnusedLast' /\ InPlace(block')
  BY <1>1, <1>4, <1>5, <1>7 DEF ArenaTypes, NextUp, UnusedLast, InPlace
<1>9. Ownership'
  BY <1>1, <1>4, <1>6, <1>7 DEF Ownership
<1>10. ASSUME NEW y \in ArenaIds PROVE HeadOK(y)'
  <2>1. CASE y = x
    <3>1. block[f].data \in Nat /\ block[f].size \in Nat
      BY <1>1, <1>3 DEF ArenaTypes, BlockTypes
    <3>2. HeadOK(x)
      BY <1>1
    <3>3. ~arena'[x].alive => arena'[x].first = 0
      BY <1>2, <1>5, <3>2 DEF HeadOK
    <3> QED BY <1>3, <1>4, <1>5, <1>6, <2>1, <3>1, <3>3 DEF HeadOK
  <2>2. CASE y # x
    <3>1. HeadOK(y) /\ arena'[y] = arena[y] /\ Owned(y)' = Owned(y)
      BY <1>1, <1>5, <1>6, <2>2
    <3>2. arena[y].first # 0 => arena[y].head \in BlockIds
      BY <3>1, OwnedFacts DEF HeadOK
    <3> QED BY <1>4, <3>1, <3>2 DEF HeadOK
  <2> QED BY <2>1, <2>2
<1>11. ASSUME NEW l \in allocs' PROVE AllocOK(l)'
  <2>1. l \in allocs /\ l.arena # x /\ l.arena \in ArenaIds
    BY <1>1, <1>7, <1>11 DEF ArenaTypes, AllocTypes
  <2>2. Owned(l.arena)' = Owned(l.arena) /\ arena'[l.arena] = arena[l.arena]
    BY <1>5, <1>6, <2>1
  <2> QED BY <1>4, <2>1, <2>2, OthersAlloc
<1>12. (\A l \in allocs : AllocOK(l))' /\ (\A l, k \in allocs : Apart(l, k))'
  BY <1>1, <1>7, <1>11 DEF Apart
<1> QED BY <1>8, <1>9, <1>10, <1>12 DEF ArenaInv

(* A move: x frees its own blocks and takes over those of y, which is left empty *)
(* (arena.cpp:30-72).                                                            *)
LEMMA TakeOverKeeps ==
  ASSUME ArenaInv, NEW x \in ArenaIds, NEW y \in ArenaIds, ArenaMove(x, y)
  PROVE  ArenaInv'
<1>1. /\ ArenaTypes /\ Ownership /\ (\A z \in ArenaIds : HeadOK(z))
      /\ \A l, k \in allocs : Apart(l, k)
  BY DEF ArenaInv
<1>2. /\ x # y /\ arena' = [arena EXCEPT ![x] = arena[y], ![y] = Empty]
      /\ allocs' = {[l EXCEPT !.arena = x] : l \in {k \in allocs : k.arena = y}}
  BY DEF ArenaMove
<1>3. ChainFreed(x)
  BY FreedFacts DEF ArenaMove
<1>4. /\ Empty \in [alive : BOOLEAN, current : Nat, end : Nat, head : 0 .. ArenaBlocks,
                    first : 0 .. ArenaBlocks, total : Nat]
      /\ Empty.first = 0 /\ Empty.head = 0 /\ Empty.current = 0 /\ Empty.end = 0
  BY ArenaAssumption DEF Empty
<1>5. /\ arena' \in [ArenaIds -> [alive : BOOLEAN, current : Nat, end : Nat, head : 0 .. ArenaBlocks,
                                  first : 0 .. ArenaBlocks, total : Nat]]
      /\ arena'[x] = arena[y] /\ arena'[y] = Empty
  BY <1>1, <1>2, <1>4 DEF ArenaTypes
<1>6. \A z \in ArenaIds : z = x \/ z = y
  BY <1>2 DEF ArenaIds
<1>7. Owned(x)' = Owned(y) /\ Owned(y)' = {}
  BY <1>3, <1>4, <1>5, OwnedFollows DEF ChainFreed
<1>8. ASSUME NEW m \in allocs'
      PROVE  /\ m \in AllocTypes /\ m.arena = x
             /\ \E l \in allocs : /\ l.arena = y /\ m.addr = l.addr /\ m.size = l.size
                                  /\ m.align = l.align /\ m = [l EXCEPT !.arena = x]
  <2>1. PICK l \in allocs : l.arena = y /\ m = [l EXCEPT !.arena = x]
    BY <1>2, <1>8
  <2>2. l \in AllocTypes
    BY <1>1 DEF ArenaTypes
  <2> QED BY <2>1, <2>2 DEF AllocTypes
<1>9. ArenaTypes'
  BY <1>1, <1>2, <1>3, <1>5, <1>8 DEF ArenaTypes, ChainFreed
<1>10. Ownership'
  <2>1. ASSUME NEW b \in BlockIds, b \in Owned(x)' PROVE block'[b].life = "live"
    <3>1. b \in Owned(y) /\ b \notin Owned(x)
      BY <1>1, <1>2, <1>7, <2>1 DEF Ownership
    <3> QED BY <1>2, <1>3, <3>1, OwnedFacts DEF ChainFreed
  <2> QED BY <1>6, <1>7, <2>1 DEF Ownership
<1>11. ASSUME NEW z \in ArenaIds PROVE HeadOK(z)'
  <2>1. CASE z = y
    BY <1>4, <1>5, <2>1 DEF HeadOK
  <2>2. CASE z = x
    <3>1. HeadOK(y)
      BY <1>1
    <3>2. arena[y].first # 0 => arena[y].head \in BlockIds
      BY <3>1, OwnedFacts DEF HeadOK
    <3> QED BY <1>3, <1>5, <1>7, <2>2, <3>1, <3>2 DEF HeadOK, ChainFreed
  <2> QED BY <1>6, <2>1, <2>2
<1>12. ASSUME NEW m \in allocs' PROVE AllocOK(m)'
  <2>1. PICK l \in allocs : l.arena = y /\ m.addr = l.addr /\ m.size = l.size /\ m.align = l.align
    BY <1>8
  <2>2. Owned(m.arena)' = Owned(l.arena) /\ arena'[m.arena] = arena[l.arena]
    BY <1>5, <1>7, <1>8, <2>1
  <2> QED BY <1>3, <2>1, <2>2, OthersAlloc DEF ChainFreed
<1>13. ASSUME NEW m \in allocs', NEW n \in allocs' PROVE Apart(m, n)
  <2>1. PICK l \in allocs : m.addr = l.addr /\ m.size = l.size /\ m = [l EXCEPT !.arena = x]
    BY <1>8
  <2>2. PICK k \in allocs : n.addr = k.addr /\ n.size = k.size /\ n = [k EXCEPT !.arena = x]
    BY <1>8
  <2>3. Apart(l, k)
    BY <1>1
  <2> QED BY <2>1, <2>2, <2>3 DEF Apart
<1>14. (\A l \in allocs : AllocOK(l))' /\ (\A l, k \in allocs : Apart(l, k))'
  BY <1>12, <1>13 DEF Apart
<1> QED BY <1>3, <1>9, <1>10, <1>11, <1>14, FreedKeeps DEF ArenaInv

----------------------------------------------------------------------------
(* The arena allocator hands out aligned memory in blocks of its own: the invariant of *)
(* arena.cpp, for any number of blocks, any sizes and alignments.                      *)
THEOREM ArenaInductive == ArenaSpec => []ArenaInv
<1>1. ArenaInv /\ [ArenaNext]_arenaVars => ArenaInv'
  <2> SUFFICES ASSUME ArenaInv, [ArenaNext]_arenaVars PROVE ArenaInv'
    OBVIOUS
  <2>1. CASE UNCHANGED arenaVars
    BY <2>1 DEF arenaVars, ArenaInv, ArenaTypes, NextUp, UnusedLast, InPlace, Ownership, HeadOK,
                AllocOK, Inside, Apart, Owned, Chain
  <2>2. ASSUME NEW x \in ArenaIds, NEW size \in ArenaSizes, NEW a \in Alignments, Allocate(x, size, a)
        PROVE  ArenaInv'
    <3>1. CASE AllocateSlow(x, size, a)
      BY <2>2, <3>1, SlowKeeps DEF Allocate
    <3>2. CASE ~AllocateSlow(x, size, a)
      <4>1. /\ AlignUp(arena[x].current, a) + size <= arena[x].end
            /\ arena' = [arena EXCEPT ![x].current = AlignUp(arena[x].current, a) + size]
            /\ HandOut(x, AlignUp(arena[x].current, a), size, a) /\ block' = block
        BY <2>2, <3>2 DEF Allocate
      <4> QED BY <2>2, <4>1, FastKeeps
    <3> QED BY <3>1, <3>2
  <2>3. ASSUME NEW x \in ArenaIds, ArenaConstruct(x) PROVE ArenaInv'
    <3>1. ChainFreed(x)
      BY <2>3, FreedFacts DEF ArenaConstruct
    <3>2. arena[x].first = 0
      BY <2>3 DEF ArenaInv, HeadOK, ArenaConstruct
    <3>3. Owned(x) = {}
      BY <3>2, OwnedFacts
    <3>4. \A l \in allocs : l.arena # x
      BY <3>3 DEF ArenaInv, AllocOK, Inside
    <3>5. allocs' = {l \in allocs : l.arena # x}
      BY <2>3, <3>4 DEF ArenaConstruct
    <3>6. arena' = [arena EXCEPT ![x] = Empty]
      BY <2>3 DEF ArenaConstruct
    <3> QED BY <2>3, <3>1, <3>5, <3>6, ClearKeeps
  <2>4. ASSUME NEW x \in ArenaIds, ArenaDestroy(x) PROVE ArenaInv'
    <3>1. ChainFreed(x)
      BY <2>4, FreedFacts DEF ArenaDestroy
    <3>2. /\ arena' = [arena EXCEPT ![x] = [Empty EXCEPT !.alive = FALSE]]
          /\ allocs' = {l \in allocs : l.arena # x}
      BY <2>4 DEF ArenaDestroy
    <3> QED BY <2>4, <3>1, <3>2, ClearKeeps
  <2> QED BY <2>1, <2>2, <2>3, <2>4, ResetKeeps, TakeOverKeeps DEF ArenaNext
<1> QED BY <1>1, ArenaStarts, PTL DEF ArenaSpec

(* No two allocations that are still valid share a byte, each is aligned as asked and *)
(* lies inside one block that is not freed (arena.cpp:74-118).                        *)
THEOREM ArenaHandsOutDisjoint == ArenaSpec => []ArenaDisjoint
<1>1. ArenaInv => ArenaDisjoint
  <2> SUFFICES ASSUME ArenaInv PROVE ArenaDisjoint
    OBVIOUS
  <2>1. BlockIds = DOMAIN block
    BY DEF ArenaInv, ArenaTypes, BlockTypes
  <2>2. ASSUME NEW l \in allocs
        PROVE  /\ l.addr % l.align = 0
               /\ \E b \in DOMAIN block : /\ block[b].life = "live" /\ block[b].data <= l.addr
                                          /\ l.addr + l.size <= block[b].data + block[b].size
    <3>1. AllocOK(l) /\ l.arena \in ArenaIds
      BY DEF ArenaInv, ArenaTypes, AllocTypes
    <3>2. PICK b \in BlockIds : Inside(l, b)
      BY <3>1 DEF AllocOK
    <3>3. block[b].life = "live"
      BY <3>1, <3>2, OwnedFacts DEF Inside
    <3> QED BY <2>1, <3>1, <3>2, <3>3 DEF AllocOK, Inside
  <2> QED BY <2>2 DEF ArenaDisjoint, ArenaInv, Apart
<1> QED BY <1>1, ArenaInductive, PTL

(* No two arenas share a block and no chain leads into freed memory, so that no     *)
(* destructor or assignment frees a block twice (arena.cpp:18-72).                   *)
THEOREM ArenaOwnsOnce == ArenaSpec => []ArenaBlocksOwned
<1>1. ArenaInv => ArenaBlocksOwned
  <2> SUFFICES ASSUME ArenaInv, NEW x \in ArenaIds, NEW b \in Owned(x)
               PROVE  block[b].life = "live" /\ \A y \in ArenaIds : b \in Owned(y) => y = x
    BY DEF ArenaBlocksOwned, Owned
  <2>1. block[b].life = "live"
    BY OwnedFacts
  <2>2. \A y \in ArenaIds : b \in Owned(y) => y = x
    BY DEF ArenaInv, Ownership
  <2> QED BY <2>1, <2>2
<1> QED BY <1>1, ArenaInductive, PTL

----------------------------------------------------------------------------
(* What a recursive function computes.                                       *)

\* g is the recursion over 0 .. n that starts with c and goes on with the functions F[i].
Solution(g, n, V, c, F) ==
    g \in [0 .. n -> V] /\ g[0] = c /\ \A i \in 1 .. n : g[i] = F[i][g[i - 1]]
StepsIn(F, n, V) == F \in [1 .. n -> [V -> V]]

(* A recursion over 0 .. n has a solution: what takes the place of the library's *)
(* recursion theorems, whose parameters are operators.                           *)
LEMMA Recursion ==
  ASSUME NEW n \in Nat, NEW V, NEW c \in V, NEW F, StepsIn(F, n, V)
  PROVE  \E g : Solution(g, n, V, c, F)
<1> DEFINE Solves(g, k) == g[0] = c /\ \A i \in 1 .. k : g[i] = F[i][g[i - 1]]
           Solved(k) == \E g \in [0 .. k -> V] : Solves(g, k)
           B == {k \in 0 .. n : ~Solved(k)}
<1>0. F \in [1 .. n -> [V -> V]]
  BY DEF StepsIn
<1>1. SUFFICES ASSUME B # {} PROVE FALSE
  <2>1. n \in 0 .. n
    OBVIOUS
  <2>2. Solved(n)
    BY <1>1, <2>1
  <2> QED BY <2>2 DEF Solution
<1>2. PICK k \in B : \A m \in B : k <= m
  <2>1. B \in SUBSET Nat
    OBVIOUS
  <2> HIDE DEF B
  <2> QED BY <1>1, <2>1, Least
<1>3. k \in 0 .. n /\ ~Solved(k)
  BY <1>2
<1>4. Solved(0)
  <2> DEFINE g == [i \in 0 .. 0 |-> c]
  <2>1. g \in [0 .. 0 -> V] /\ Solves(g, 0)
    OBVIOUS
  <2> HIDE DEF g, Solves
  <2> QED BY <2>1
<1>5. k # 0 /\ k - 1 \in 0 .. n /\ k \in 1 .. n /\ k - 1 \in Nat
  <2> HIDE DEF Solved
  <2>1. k # 0
    BY <1>3, <1>4
  <2> QED BY <1>3, <2>1
<1>6. Solved(k - 1)
  <2>1. k - 1 \notin B
    <3> HIDE DEF B
    <3> QED BY <1>2, <1>3, <1>5
  <2> QED BY <1>5, <2>1
<1>7. PICK g \in [0 .. k - 1 -> V] : Solves(g, k - 1)
  BY <1>6
<1> DEFINE h == [i \in 0 .. k |-> IF i = k THEN F[k][g[k - 1]] ELSE g[i]]
<1>8. h \in [0 .. k -> V]
  <2>1. F[k][g[k - 1]] \in V
    BY <1>0, <1>5, <1>7
  <2>2. \A i \in 0 .. k : i # k => i \in 0 .. k - 1
    BY <1>5
  <2> QED BY <1>7, <2>1, <2>2
<1>9. Solves(h, k)
  <2>1. h[0] = c
    BY <1>5, <1>7
  <2>2. ASSUME NEW i \in 1 .. k PROVE h[i] = F[i][h[i - 1]]
    <3>1. i \in 0 .. k /\ i - 1 \in 0 .. k /\ i - 1 # k
      BY <1>5
    <3>2. h[i - 1] = g[i - 1]
      BY <3>1
    <3>3. CASE i = k
      BY <3>1, <3>2, <3>3
    <3>4. CASE i # k
      <4>1. i \in 1 .. k - 1
        BY <1>5, <3>4
      <4> QED BY <1>7, <3>1, <3>2, <3>4, <4>1
    <3> QED BY <3>3, <3>4
  <2> HIDE DEF h
  <2> QED BY <2>1, <2>2
<1> HIDE DEF h, Solves
<1> QED BY <1>3, <1>8, <1>9
----------------------------------------------------------------------------
(* The model repository, for any directories, files and orders of listing them. *)

RepositoryTypes ==
    /\ scan \in {"idle", "scanning", "thrown", "refused", "serving"}
    /\ todo \in SUBSET Dirs
    /\ scan # "idle" => repo \in [Dirs -> Entries]
    /\ registered \in [Dirs -> [state : {"none", "Ready", "Failed"}, version : Int]]
    /\ result \in [loaded : Nat, failed : Nat, skipped : Nat]

\* An entry that the scan counts, and one whose model ends up Ready.
Counts(e) == (IsModelDir(e) => e.config # "throws") /\ e.kind # "file"
Succeeds(d) == Loadable(d) /\ ExpectedOf(repo[d]).state = "Ready"

RegisteredAsExpected ==
    \A d \in Visited : (Loadable(d) /\ Unique(d)) => registered[NameOf(d)] = ExpectedOf(repo[d])
CountedOnce ==
    result.loaded + result.failed + result.skipped = Cardinality({d \in Visited : Counts(repo[d])})
LoadedCounted == result.loaded # 0 <=> \E d \in Visited : Succeeds(d)
ReadyLoaded == \A n \in Dirs : registered[n].state = "Ready" => \E d \in Visited : Succeeds(d)
MainDecided == scan \in {"refused", "serving"}
                   => todo = {} /\ (scan = "serving" <=> result.loaded # 0)

ScanInv == /\ RepositoryTypes /\ RegisteredAsExpected /\ CountedOnce
           /\ LoadedCounted /\ ReadyLoaded /\ MainDecided

(* What a directory entry is. *)
LEMMA EntryFacts ==
  ASSUME NEW e \in Entries
  PROVE  /\ e.files \in [Versions -> {"missing", "empty", "model"}]
         /\ e.version \in Int /\ e.name \in Dirs \cup {NoName}
<1>1. CASE e \in ModelDirs
  BY <1>1, RepositoryAssumption DEF ModelDirs
<1>2. CASE e \in Oddities
  BY <1>2 DEF Oddities
<1>3. CASE e \in {Onnx(d) : d \in Dirs}
  BY <1>3 DEF Onnx
<1>4. CASE e \in {Absent(f) : f \in [Versions -> {"missing", "empty", "model"}]}
  <2>1. PICK f \in [Versions -> {"missing", "empty", "model"}] : e = Absent(f)
    BY <1>4
  <2> QED BY <2>1 DEF Absent
<1> QED BY <1>1, <1>2, <1>3, <1>4 DEF Entries

(* A listing of the versions leaves none out. *)
LEMMA ListsAll ==
  ASSUME NEW S \in SUBSET Versions, NEW order \in SetToSeqs(S)
  PROVE  /\ order \in Seq(S) /\ Len(order) \in Nat
         /\ \A v \in S : \E i \in 1 .. Len(order) : order[i] = v
<1>1. IsFiniteSet(S)
  BY RepositoryAssumption, FS_Subset
<1> DEFINE n == Cardinality(S)
<1>2. n \in Nat
  BY <1>1, FS_CardinalityType
<1>3. order \in [1 .. n -> S] /\ \A i, j \in 1 .. n : i # j => order[i] # order[j]
  BY DEF SetToSeqs
<1>4. order \in Injection(1 .. n, S)
  BY <1>3 DEF Injection, IsInjective
<1>5. Cardinality(1 .. n) = n
  BY <1>2, FS_Interval
<1>6. order \in Surjection(1 .. n, S)
  BY <1>1, <1>4, <1>5, FS_Injection
<1> HIDE DEF n
<1>7. order \in Seq(S) /\ Len(order) = n
  BY <1>2, <1>3
<1> QED BY <1>2, <1>6, <1>7 DEF Surjection

\* m is the best version that the first i directories of the listing have.
IsBest(e, order, i, m) ==
    /\ m \in Int /\ m >= -1
    /\ m # -1 => HasFile(e, m)
    /\ \A j \in 1 .. i : HasFile(e, order[j]) => order[j] <= m

(* The walk over the directories ends with the best version (model_config.cpp:101-113). *)
LEMMA BestFacts ==
  ASSUME NEW e, NEW order \in Seq(Versions)
  PROVE  IsBest(e, order, Len(order), Best(e, order))
<1> DEFINE n == Len(order)
           V == {v \in Int : v >= -1}
           Step(i, v) == Better(e, v, order[i])
           F == [i \in 1 .. n |-> [v \in V |-> Step(i, v)]]
<1>1. n \in Nat /\ \A i \in 1 .. n : order[i] \in Versions /\ order[i] \in Nat
  <2>1. \A i \in 1 .. n : order[i] \in Versions
    OBVIOUS
  <2>2. \A v \in Versions : v \in Nat
    BY RepositoryAssumption
  <2>3. n \in Nat
    OBVIOUS
  <2> HIDE DEF n
  <2> QED BY <2>1, <2>2, <2>3
<1>2. \A i \in 1 .. n, v \in V : Step(i, v) \in V
  BY <1>1 DEF Better
<1>3. F \in [1 .. n -> [V -> V]] /\ -1 \in V
  <2> HIDE DEF Step
  <2>1. -1 \in V
    OBVIOUS
  <2> HIDE DEF V
  <2> QED BY <1>2, <2>1
<1>4. PICK g \in [0 .. n -> V] : g[0] = -1 /\ \A i \in 1 .. n : g[i] = F[i][g[i - 1]]
  <2>1. PICK c : c = -1
    OBVIOUS
  <2>2. c \in V
    BY <1>3, <2>1
  <2> HIDE DEF F, V, n
  <2>3. n \in Nat /\ StepsIn(F, n, V)
    BY <1>1, <1>3 DEF StepsIn
  <2>4. \E g : Solution(g, n, V, c, F)
    BY <2>2, <2>3, Recursion
  <2> QED BY <2>1, <2>4 DEF Solution
<1> DEFINE P(f) == f = [i \in 0 .. n |-> IF i = 0 THEN -1 ELSE Better(e, f[i - 1], order[i])]
<1>5. Best(e, order) = (CHOOSE f : P(f))[n]
  BY DEF Best
<1>6. P(g)
  <2>1. ASSUME NEW i \in 0 .. n PROVE g[i] = IF i = 0 THEN -1 ELSE Better(e, g[i - 1], order[i])
    <3>1. CASE i = 0
      BY <1>4, <3>1
    <3>2. CASE i # 0
      <4>1. i \in 1 .. n /\ i - 1 \in 0 .. n
        BY <1>1, <3>2
      <4>2. g[i - 1] \in V
        BY <1>4, <4>1
      <4> HIDE DEF V
      <4> QED BY <1>4, <3>2, <4>1, <4>2
    <3> QED BY <3>1, <3>2
  <2> HIDE DEF n, V
  <2> QED BY <1>4, <2>1
<1> HIDE DEF P
<1>7. PICK f : f = (CHOOSE h : P(h)) /\ P(f)
  BY <1>6
<1>8. f[0] = -1 /\ \A i \in 1 .. n : f[i] = Better(e, f[i - 1], order[i])
  <2>1. \A i \in 0 .. n : f[i] = IF i = 0 THEN -1 ELSE Better(e, f[i - 1], order[i])
    <3> HIDE DEF n
    <3> QED BY <1>7 DEF P
  <2>2. 0 \in 0 .. n /\ \A i \in 1 .. n : i \in 0 .. n /\ i # 0
    BY <1>1
  <2> HIDE DEF n
  <2> QED BY <2>1, <2>2
<1> DEFINE B == {i \in 0 .. n : ~IsBest(e, order, i, f[i])}
<1>9. B = {}
  <2> SUFFICES ASSUME B # {} PROVE FALSE
    OBVIOUS
  <2>1. PICK i \in B : \A j \in B : i <= j
    <3>1. B \in SUBSET Nat
      BY <1>1
    <3> HIDE DEF B
    <3> QED BY <3>1, Least
  <2>2. i \in 0 .. n /\ ~IsBest(e, order, i, f[i])
    BY <2>1
  <2>3. i # 0
    BY <1>8, <2>2 DEF IsBest
  <2>4. i \in 1 .. n /\ i - 1 \in 0 .. n /\ i \in Nat
    BY <1>1, <2>2, <2>3
  <2>5. IsBest(e, order, i - 1, f[i - 1])
    <3>1. i - 1 \notin B
      <4> HIDE DEF B
      <4> QED BY <2>1, <2>4
    <3> QED BY <2>4, <3>1
  <2>6. f[i] = Better(e, f[i - 1], order[i]) /\ order[i] \in Nat
    BY <1>1, <1>8, <2>4
  <2>7. \A j \in 1 .. i : j = i \/ j \in 1 .. i - 1
    BY <2>4
  <2>8. \A j \in 1 .. i : order[j] \in Nat
    BY <1>1, <2>4
  <2>9. IsBest(e, order, i, f[i])
    <3>1. CASE order[i] > f[i - 1] /\ HasFile(e, order[i])
      <4>1. f[i] = order[i]
        BY <2>6, <3>1 DEF Better
      <4>2. f[i - 1] \in Int /\ \A j \in 1 .. i - 1 : HasFile(e, order[j]) => order[j] <= f[i - 1]
        BY <2>5 DEF IsBest
      <4>3. \A j \in 1 .. i : HasFile(e, order[j]) => order[j] <= f[i]
        <5> SUFFICES ASSUME NEW j \in 1 .. i, HasFile(e, order[j]) PROVE order[j] <= f[i]
          OBVIOUS
        <5>1. CASE j = i
          BY <2>6, <4>1, <5>1
        <5>2. CASE j \in 1 .. i - 1
          <6>1. order[j] \in Nat /\ order[j] <= f[i - 1]
            BY <2>8, <4>2, <5>2
          <6> DEFINE p == f[i - 1]
                     q == order[j]
                     s == order[i]
          <6>2. p \in Int /\ q \in Nat /\ s \in Nat /\ q <= p /\ s > p /\ f[i] = s
            BY <2>6, <3>1, <4>1, <4>2, <6>1
          <6> HIDE DEF p, q, s
          <6>3. q <= s
            BY <6>2
          <6> QED BY <6>2, <6>3 DEF q
        <5> QED BY <2>7, <5>1, <5>2
      <4> QED BY <2>6, <3>1, <4>1, <4>3 DEF IsBest
    <3>2. CASE ~(order[i] > f[i - 1] /\ HasFile(e, order[i]))
      <4>1. f[i] = f[i - 1]
        BY <2>6, <3>2 DEF Better
      <4>2. f[i] \in Int /\ HasFile(e, order[i]) => order[i] <= f[i]
        BY <2>5, <2>6, <3>2, <4>1 DEF IsBest
      <4> QED BY <2>5, <2>7, <4>1, <4>2 DEF IsBest
    <3> QED BY <3>1, <3>2
  <2> QED BY <2>2, <2>9
<1>10. IsBest(e, order, n, f[n])
  <2>1. n \in 0 .. n
    BY <1>1
  <2> QED BY <1>9, <2>1
<1> QED BY <1>5, <1>7, <1>10

(* from_dir settles on the version that the files say (model_config.cpp:92-115). *)
LEMMA FromDirFacts ==
  ASSUME NEW e \in Entries, NEW order \in SetToSeqs({v \in Versions : e.files[v] # "missing"})
  PROVE  /\ FromDir(e, order).version = ExpectedOf(e).version /\ ExpectedOf(e).version \in Int
         /\ ExpectedOf(e).state = IF e.backend = "torchscript" /\ (FromDir(e, order).path => e.loads)
                                  THEN "Ready" ELSE "Failed"
<1> DEFINE S == {v \in Versions : e.files[v] # "missing"}
           have == {v \in Versions : e.files[v] = "model"}
           b == Best(e, order)
<1>1. /\ order \in Seq(S) /\ Len(order) \in Nat
      /\ \A v \in S : \E i \in 1 .. Len(order) : order[i] = v
  <2>1. S \in SUBSET Versions /\ order \in SetToSeqs(S)
    OBVIOUS
  <2> HIDE DEF S
  <2> QED BY <2>1, ListsAll
<1>2. order \in Seq(Versions)
  BY <1>1
<1>3. IsBest(e, order, Len(order), b)
  BY <1>2, BestFacts
<1> HIDE DEF b
<1>4. \A v \in have : v \in Nat /\ v <= b
  <2> SUFFICES ASSUME NEW v \in have PROVE v \in Nat /\ v <= b
    OBVIOUS
  <2>1. v \in Versions /\ v \in S /\ HasFile(e, v)
    BY DEF HasFile
  <2>2. PICK i \in 1 .. Len(order) : order[i] = v
    BY <1>1, <2>1
  <2>3. v \in Nat
    BY <2>1, RepositoryAssumption
  <2> QED BY <1>3, <2>1, <2>2, <2>3 DEF IsBest
<1>5. \A v : HasFile(e, v) <=> v \in have
  BY DEF HasFile
<1>6. ExpectedOf(e) = [state |-> IF e.backend = "torchscript" /\ (have = {} \/ e.loads)
                                 THEN "Ready" ELSE "Failed",
                       version |-> IF e.version \in have \/ have = {} THEN e.version ELSE Max(have)]
  BY DEF ExpectedOf
<1>7. FromDir(e, order) = IF HasFile(e, e.version) THEN [version |-> e.version, path |-> TRUE]
                          ELSE IF b # -1 THEN [version |-> b, path |-> TRUE]
                          ELSE [version |-> e.version, path |-> FALSE]
  BY DEF FromDir, b
<1> HIDE DEF have
<1>11. e.version \in Int /\ b \in Int
  BY <1>3, EntryFacts DEF IsBest
<1>8. CASE HasFile(e, e.version)
  BY <1>5, <1>6, <1>7, <1>8, <1>11
<1>9. CASE ~HasFile(e, e.version) /\ b # -1
  <2>1. b \in have /\ \A v \in have : b >= v
    BY <1>3, <1>4, <1>5, <1>9 DEF IsBest
  <2>2. \A x \in have : (\A y \in have : x >= y) => x = b
    BY <1>4, <2>1
  <2>3. Max(have) = b
    BY <2>1, <2>2 DEF Max
  <2> QED BY <1>5, <1>6, <1>7, <1>9, <1>11, <2>1, <2>3
<1>10. CASE ~HasFile(e, e.version) /\ b = -1
  <2>1. have = {}
    BY <1>4, <1>10
  <2> QED BY <1>6, <1>7, <1>10, <1>11, <2>1
<1> QED BY <1>8, <1>9, <1>10

(* The scan visits an entry: the set of visited ones grows by it. *)
LEMMA ScanVisits ==
  ASSUME ScanInv, NEW d \in todo, scan = "scanning", todo' = todo \ {d}, repo' = repo,
         scan' \in {"scanning", "thrown"}
  PROVE  /\ d \in Dirs /\ d \notin Visited /\ Visited' = Visited \cup {d}
         /\ \A c \in Dirs : /\ NameOf(c)' = NameOf(c) /\ (Loadable(c)' <=> Loadable(c))
                            /\ (Succeeds(c)' <=> Succeeds(c))
         /\ \A c \in Dirs : Unique(c)' => /\ Unique(c)
                                          /\ (d # c /\ Loadable(d)) => NameOf(d) # NameOf(c)
         /\ repo \in [Dirs -> Entries]
         /\ Cardinality({c \in Visited : Counts(repo[c])})'
              = Cardinality({c \in Visited : Counts(repo[c])}) + (IF Counts(repo[d]) THEN 1 ELSE 0)
<1>1. todo \in SUBSET Dirs /\ repo \in [Dirs -> Entries]
  BY DEF ScanInv, RepositoryTypes
<1>2. d \in Dirs /\ d \notin Visited /\ Visited' = Visited \cup {d} /\ Visited \in SUBSET Dirs
  BY <1>1 DEF Visited
<1>3. \A c \in Dirs : /\ NameOf(c)' = NameOf(c) /\ (Loadable(c)' <=> Loadable(c))
                      /\ (Succeeds(c)' <=> Succeeds(c))
  BY DEF NameOf, Loadable, Succeeds
<1>4. ASSUME NEW c \in Dirs, Unique(c)'
      PROVE  Unique(c) /\ ((d # c /\ Loadable(d)) => NameOf(d) # NameOf(c))
  <2>1. \A k \in Visited \cup {d} : (k # c /\ Loadable(k)) => NameOf(k) # NameOf(c)
    BY <1>2, <1>3, <1>4 DEF Unique
  <2> QED BY <2>1 DEF Unique
<1> DEFINE A == {c \in Visited : Counts(repo[c])}
<1>5. IsFiniteSet(A)
  BY <1>2, RepositoryAssumption, FS_Subset
<1>6. CASE Counts(repo[d])
  <2>1. {c \in Visited' : Counts(repo[c])} = A \cup {d}
    BY <1>2, <1>6
  <2>2. d \notin A
    BY <1>2
  <2> HIDE DEF A
  <2>3. Cardinality(A \cup {d}) = Cardinality(A) + 1
    BY <1>5, <2>2, FS_AddElement
  <2> QED BY <1>1, <1>2, <1>3, <1>4, <1>6, <2>1, <2>3 DEF A
<1>7. CASE ~Counts(repo[d])
  <2>1. {c \in Visited' : Counts(repo[c])} = A
    BY <1>2, <1>7
  <2> HIDE DEF A
  <2>2. Cardinality(A) + 0 = Cardinality(A)
    BY <1>5, FS_CardinalityType
  <2> QED BY <1>1, <1>2, <1>3, <1>4, <1>7, <2>1, <2>2 DEF A
<1> QED BY <1>6, <1>7

(* An entry that is not loaded: passed over, nameless, or throwing. *)
LEMMA PassKeeps ==
  ASSUME ScanInv, NEW d \in todo, scan = "scanning", todo' = todo \ {d}, repo' = repo,
         ~Loadable(d), registered' = registered,
         result' \in [loaded : Nat, failed : Nat, skipped : Nat], result'.loaded = result.loaded,
         result'.loaded + result'.failed + result'.skipped
            = result.loaded + result.failed + result.skipped + (IF Counts(repo[d]) THEN 1 ELSE 0),
         scan' \in {"scanning", "thrown"}
  PROVE  ScanInv'
<1>1. /\ RepositoryTypes /\ RegisteredAsExpected /\ CountedOnce /\ LoadedCounted /\ ReadyLoaded
  BY DEF ScanInv
<1>2. scan' \in {"scanning", "thrown"}
  OBVIOUS
<1>3. /\ d \in Dirs /\ d \notin Visited /\ Visited' = Visited \cup {d}
      /\ \A c \in Dirs : /\ NameOf(c)' = NameOf(c) /\ (Loadable(c)' <=> Loadable(c))
                         /\ (Succeeds(c)' <=> Succeeds(c))
      /\ \A c \in Dirs : Unique(c)' => Unique(c)
      /\ repo \in [Dirs -> Entries]
      /\ Cardinality({c \in Visited : Counts(repo[c])})'
           = Cardinality({c \in Visited : Counts(repo[c])}) + (IF Counts(repo[d]) THEN 1 ELSE 0)
  BY <1>2, ScanVisits
<1>4. Visited \in SUBSET Dirs
  BY <1>1 DEF Visited, RepositoryTypes
<1>5. RepositoryTypes'
  BY <1>1, <1>2, <1>3 DEF RepositoryTypes
<1>6. RegisteredAsExpected'
  <2> SUFFICES ASSUME NEW c \in Visited', Loadable(c)', Unique(c)'
               PROVE  registered'[NameOf(c)'] = ExpectedOf(repo'[c])
    BY DEF RegisteredAsExpected
  <2>1. c \in Dirs /\ Loadable(c) /\ Unique(c) /\ c # d /\ NameOf(c)' = NameOf(c)
    BY <1>3, <1>4
  <2>2. c \in Visited
    BY <1>3, <2>1
  <2> QED BY <1>1, <2>1, <2>2 DEF RegisteredAsExpected
<1>7. CountedOnce'
  BY <1>1, <1>3 DEF CountedOnce
<1>9. ~Succeeds(d)
  BY DEF Succeeds
<1>10. (\E c \in Visited' : Succeeds(c)') <=> \E c \in Visited : Succeeds(c)
  BY <1>3, <1>4, <1>9
<1>11. LoadedCounted' /\ ReadyLoaded'
  BY <1>1, <1>10 DEF LoadedCounted, ReadyLoaded
<1>12. MainDecided'
  BY <1>2 DEF MainDecided
<1> QED BY <1>5, <1>6, <1>7, <1>11, <1>12 DEF ScanInv

(* An entry that load_model registers. *)
LEMMA LoadKeeps ==
  ASSUME ScanInv, NEW d \in todo, scan = "scanning", todo' = todo \ {d}, repo' = repo, scan' = scan,
         Loadable(d), registered' = [registered EXCEPT ![NameOf(d)] = ExpectedOf(repo[d])],
         ExpectedOf(repo[d]).version \in Int,
         CountResult(IF ExpectedOf(repo[d]).state = "Ready" THEN "loaded" ELSE "failed")
  PROVE  ScanInv'
<1>1. /\ RepositoryTypes /\ RegisteredAsExpected /\ CountedOnce /\ LoadedCounted /\ ReadyLoaded
      /\ MainDecided
  BY DEF ScanInv
<1>2. scan' \in {"scanning", "thrown"}
  OBVIOUS
<1>3. /\ d \in Dirs /\ d \notin Visited /\ Visited' = Visited \cup {d}
      /\ \A c \in Dirs : /\ NameOf(c)' = NameOf(c) /\ (Loadable(c)' <=> Loadable(c))
                         /\ (Succeeds(c)' <=> Succeeds(c))
      /\ \A c \in Dirs : Unique(c)' => /\ Unique(c)
                                       /\ (d # c /\ Loadable(d)) => NameOf(d) # NameOf(c)
      /\ repo \in [Dirs -> Entries]
      /\ Cardinality({c \in Visited : Counts(repo[c])})'
           = Cardinality({c \in Visited : Counts(repo[c])}) + (IF Counts(repo[d]) THEN 1 ELSE 0)
  BY <1>2, ScanVisits
<1>4. Visited \in SUBSET Dirs
  BY <1>1 DEF Visited, RepositoryTypes
<1>5. NameOf(d) \in Dirs
  <2>1. repo[d] \in Entries
    BY <1>3
  <2>2. repo[d].name \in Dirs \cup {NoName}
    BY <2>1, EntryFacts
  <2> QED BY <1>3, <2>2 DEF NameOf, Loadable
<1>6. PICK x : x = ExpectedOf(repo[d])
  OBVIOUS
<1>7. x \in [state : {"none", "Ready", "Failed"}, version : Int] /\ (x.state = "Ready" \/ x.state = "Failed")
  BY <1>6 DEF ExpectedOf
<1>8. Counts(repo[d]) /\ (Succeeds(d) <=> x.state = "Ready")
  BY <1>6 DEF Counts, Loadable, IsModelDir, Succeeds
<1>9. /\ registered' \in [Dirs -> [state : {"none", "Ready", "Failed"}, version : Int]]
      /\ registered'[NameOf(d)] = x
      /\ \A n \in Dirs : n # NameOf(d) => registered'[n] = registered[n]
  BY <1>1, <1>5, <1>6, <1>7 DEF RepositoryTypes
<1>10. /\ result' \in [loaded : Nat, failed : Nat, skipped : Nat]
       /\ result'.loaded = IF Succeeds(d) THEN result.loaded + 1 ELSE result.loaded
       /\ result'.loaded + result'.failed + result'.skipped
             = result.loaded + result.failed + result.skipped + 1
       /\ result.loaded \in Nat
  <2>1. CASE x.state = "Ready"
    BY <1>1, <1>6, <1>8, <2>1 DEF RepositoryTypes, CountResult
  <2>2. CASE x.state # "Ready"
    BY <1>1, <1>6, <1>8, <2>2 DEF RepositoryTypes, CountResult
  <2> QED BY <2>1, <2>2
<1>11. RepositoryTypes'
  BY <1>1, <1>2, <1>3, <1>9, <1>10 DEF RepositoryTypes
<1>12. RegisteredAsExpected'
  <2> SUFFICES ASSUME NEW c \in Visited', Loadable(c)', Unique(c)'
               PROVE  registered'[NameOf(c)'] = ExpectedOf(repo'[c])
    BY DEF RegisteredAsExpected
  <2>1. c \in Dirs /\ Loadable(c) /\ Unique(c) /\ NameOf(c)' = NameOf(c)
    BY <1>3, <1>4
  <2>2. CASE c = d
    BY <1>6, <1>9, <2>1, <2>2
  <2>3. CASE c # d
    <3>1. NameOf(d) # NameOf(c) /\ c \in Visited
      BY <1>3, <2>1, <2>3
    <3>2. NameOf(c) \in Dirs
      <4>1. repo[c].name \in Dirs \cup {NoName}
        BY <1>3, <2>1, EntryFacts
      <4> QED BY <2>1, <4>1 DEF NameOf, Loadable
    <3> QED BY <1>1, <1>9, <2>1, <3>1, <3>2 DEF RegisteredAsExpected
  <2> QED BY <2>2, <2>3
<1>13. CountedOnce'
  BY <1>1, <1>3, <1>8, <1>10 DEF CountedOnce
<1>14. MainDecided'
  BY DEF MainDecided
<1>15. (\E c \in Visited' : Succeeds(c)') <=> (Succeeds(d) \/ \E c \in Visited : Succeeds(c))
  BY <1>3, <1>4
<1>16. LoadedCounted'
  BY <1>1, <1>10, <1>15 DEF LoadedCounted
<1>17. ReadyLoaded'
  BY <1>1, <1>8, <1>9, <1>15 DEF ReadyLoaded
<1> QED BY <1>11, <1>12, <1>13, <1>14, <1>16, <1>17 DEF ScanInv

----------------------------------------------------------------------------
(* The scan, for any directory tree: the invariant of model_repository.cpp:83-135. *)
THEOREM ScanInductive == RepositorySpec => []ScanInv
<1>1. RepositoryInit => ScanInv
  <2> SUFFICES ASSUME RepositoryInit PROVE ScanInv
    OBVIOUS
  <2>1. Visited = {} /\ scan = "idle"
    BY DEF RepositoryInit, Visited
  <2>2. RepositoryTypes
    BY <2>1 DEF RepositoryInit, RepositoryTypes, NoModel
  <2>3. {d \in Visited : Counts(repo[d])} = {}
    BY <2>1
  <2>4. CountedOnce
    BY <2>3, FS_EmptySet DEF CountedOnce, RepositoryInit
  <2> QED BY <2>1, <2>2, <2>4
        DEF ScanInv, RegisteredAsExpected, LoadedCounted, ReadyLoaded, MainDecided,
            RepositoryInit, NoModel
<1>2. ScanInv /\ [RepositoryNext]_repositoryVars => ScanInv'
  <2> SUFFICES ASSUME ScanInv, [RepositoryNext]_repositoryVars PROVE ScanInv'
    OBVIOUS
  <2>1. CASE UNCHANGED repositoryVars
    BY <2>1 DEF repositoryVars, ScanInv, RepositoryTypes, RegisteredAsExpected, CountedOnce,
                LoadedCounted, ReadyLoaded, MainDecided, Visited, Loadable, Unique, NameOf, Succeeds
  <2>2. CASE ScanBegins
    <3>1. /\ scan = "idle" /\ scan' = "scanning" /\ todo' = Dirs /\ repo' \in [Dirs -> Entries]
          /\ registered' = registered /\ result' = result
      BY <2>2 DEF ScanBegins
    <3>2. Visited = {} /\ Visited' = {}
      BY <3>1 DEF Visited
    <3>3. RepositoryTypes'
      BY <3>1 DEF ScanInv, RepositoryTypes
    <3>4. CountedOnce'
      <4>1. {d \in Visited : Counts(repo[d])} = {} /\ {d \in Visited' : Counts(repo'[d])} = {}
        BY <3>2
      <4> QED BY <3>1, <4>1 DEF ScanInv, CountedOnce
    <3>5. LoadedCounted' /\ ReadyLoaded'
      BY <3>1, <3>2 DEF ScanInv, LoadedCounted, ReadyLoaded
    <3> QED BY <3>1, <3>2, <3>3, <3>4, <3>5
          DEF ScanInv, RegisteredAsExpected, MainDecided
  <2>3. CASE MainDecides
    <3>1. /\ scan = "scanning" /\ todo = {} /\ scan' = IF result.loaded = 0 THEN "refused" ELSE "serving"
          /\ repo' = repo /\ todo' = todo /\ registered' = registered /\ result' = result
      BY <2>3 DEF MainDecides
    <3>2. Visited' = Visited
      BY <3>1 DEF Visited
    <3> QED BY <3>1, <3>2
          DEF ScanInv, RepositoryTypes, RegisteredAsExpected, CountedOnce,
              LoadedCounted, ReadyLoaded, MainDecided, Loadable, Unique, NameOf, Succeeds
  <2>4. ASSUME NEW d \in Dirs, ScanSkips(d) PROVE ScanInv'
    <3>1. /\ scan = "scanning" /\ d \in todo /\ ~IsModelDir(repo[d]) /\ todo' = todo \ {d}
          /\ repo' = repo /\ scan' = scan /\ registered' = registered
          /\ IF repo[d].kind = "file" THEN result' = result ELSE CountResult("skipped")
      BY <2>4 DEF ScanSkips
    <3>2. ~Loadable(d) /\ (Counts(repo[d]) <=> repo[d].kind # "file")
      BY <3>1 DEF Loadable, Counts
    <3>3. result \in [loaded : Nat, failed : Nat, skipped : Nat]
      BY DEF ScanInv, RepositoryTypes
    <3>4. /\ result' \in [loaded : Nat, failed : Nat, skipped : Nat] /\ result'.loaded = result.loaded
          /\ result'.loaded + result'.failed + result'.skipped
               = result.loaded + result.failed + result.skipped + (IF Counts(repo[d]) THEN 1 ELSE 0)
      <4>1. CASE repo[d].kind = "file"
        BY <3>1, <3>2, <3>3, <4>1
      <4>2. CASE repo[d].kind # "file"
        BY <3>1, <3>2, <3>3, <4>2 DEF CountResult
      <4> QED BY <4>1, <4>2
    <3> QED BY <3>1, <3>2, <3>4, PassKeeps
  <2>5. ASSUME NEW d \in Dirs, ScanLoads(d) PROVE ScanInv'
    <3>1. scan = "scanning" /\ d \in todo /\ IsModelDir(repo[d]) /\ todo' = todo \ {d} /\ repo' = repo
      BY <2>5 DEF ScanLoads
    <3>2. repo[d] \in Entries /\ result \in [loaded : Nat, failed : Nat, skipped : Nat]
      BY <2>5, <3>1 DEF ScanInv, RepositoryTypes
    <3>3. CASE repo[d].config = "throws"
      <4>1. scan' = "thrown" /\ registered' = registered /\ result' = result
        BY <2>5, <3>3 DEF ScanLoads
      <4>2. ~Loadable(d) /\ ~Counts(repo[d])
        BY <3>1, <3>3 DEF Loadable, Counts
      <4>3. result.loaded + result.failed + result.skipped + 0
              = result.loaded + result.failed + result.skipped
        BY <3>2
      <4> QED BY <3>1, <3>2, <3>3, <4>1, <4>2, <4>3, PassKeeps
    <3>4. CASE repo[d].config # "throws" /\ NameOf(d) = NoName
      <4>1. scan' = scan /\ registered' = registered /\ CountResult("failed")
        BY <2>5, <3>4 DEF ScanLoads
      <4>2. ~Loadable(d) /\ Counts(repo[d])
        BY <3>1, <3>4 DEF Loadable, Counts, IsModelDir
      <4>3. /\ result' \in [loaded : Nat, failed : Nat, skipped : Nat] /\ result'.loaded = result.loaded
            /\ result'.loaded + result'.failed + result'.skipped
                 = result.loaded + result.failed + result.skipped + 1
        BY <3>2, <4>1 DEF CountResult
      <4> QED BY <3>1, <4>1, <4>2, <4>3, PassKeeps
    <3>5. CASE repo[d].config # "throws" /\ NameOf(d) # NoName
      <4>1. scan' = scan /\ Loadable(d)
        BY <2>5, <3>1, <3>5 DEF ScanLoads, Loadable
      <4>2. PICK order \in SetToSeqs({v \in Versions : repo[d].files[v] # "missing"}) :
               LET e == repo[d]
                   cfg == FromDir(e, order)
                   ok == e.backend = "torchscript" /\ (cfg.path => e.loads)
               IN /\ registered' = [registered EXCEPT ![NameOf(d)] =
                                    [state |-> IF ok THEN "Ready" ELSE "Failed",
                                     version |-> cfg.version]]
                  /\ CountResult(IF ok THEN "loaded" ELSE "failed")
        BY <2>5, <3>5 DEF ScanLoads
      <4>3. /\ FromDir(repo[d], order).version = ExpectedOf(repo[d]).version
            /\ ExpectedOf(repo[d]).version \in Int
            /\ ExpectedOf(repo[d]).state
                 = IF repo[d].backend = "torchscript" /\ (FromDir(repo[d], order).path => repo[d].loads)
                   THEN "Ready" ELSE "Failed"
        BY <3>2, FromDirFacts
      <4>4. ExpectedOf(repo[d]) = [state |-> ExpectedOf(repo[d]).state, version |-> ExpectedOf(repo[d]).version]
        BY DEF ExpectedOf
      <4>5. /\ registered' = [registered EXCEPT ![NameOf(d)] = ExpectedOf(repo[d])]
            /\ CountResult(IF ExpectedOf(repo[d]).state = "Ready" THEN "loaded" ELSE "failed")
        BY <4>2, <4>3, <4>4
      <4> QED BY <3>1, <4>1, <4>3, <4>5, LoadKeeps
    <3> QED BY <3>3, <3>4, <3>5
  <2> QED BY <2>1, <2>2, <2>3, <2>4, <2>5 DEF RepositoryNext
<1> QED BY <1>1, <1>2, PTL DEF RepositorySpec

(* Whatever the order in which the file system lists directories and versions, the scan *)
(* registers each model with a name of its own as its own files say, counts every        *)
(* directory whose configuration does not throw once, and main serves exactly if it has  *)
(* a model to serve                                                                      *)
(* (model_repository.cpp:83-135, model_config.cpp:92-115, main.cpp:238-259).             *)
THEOREM ScanIsFaithful == RepositorySpec => []ScanFaithful
<1>1. ScanInv => ScanFaithful
  <2> SUFFICES ASSUME ScanInv PROVE ScanFaithful
    OBVIOUS
  <2>1. \A d \in Visited : (Loadable(d) /\ Unique(d)) => registered[NameOf(d)] = ExpectedOf(repo[d])
    BY DEF ScanInv, RegisteredAsExpected
  <2>2. {d \in Visited : IsModelDir(repo[d]) => repo[d].config # "throws"}
        \ {d \in Visited : repo[d].kind = "file"}
          = {d \in Visited : Counts(repo[d])}
    BY DEF Counts
  <2>3. result.loaded + result.failed + result.skipped
          = Cardinality({d \in Visited : IsModelDir(repo[d]) => repo[d].config # "throws"}
                        \ {d \in Visited : repo[d].kind = "file"})
    BY <2>2 DEF ScanInv, CountedOnce
  <2>5. ASSUME scan \in {"refused", "serving"}, \A d \in Dirs : Loadable(d) => Unique(d)
        PROVE  scan = "serving" <=> \E n \in Dirs : registered[n].state = "Ready"
    <3>1. Visited = Dirs /\ (scan = "serving" <=> \E d \in Dirs : Succeeds(d))
      BY <2>5 DEF ScanInv, MainDecided, LoadedCounted, Visited
    <3>2. ASSUME NEW d \in Dirs, Succeeds(d) PROVE \E n \in Dirs : registered[n].state = "Ready"
      <4>1. Loadable(d) /\ Unique(d) /\ ExpectedOf(repo[d]).state = "Ready"
        BY <2>5, <3>2 DEF Succeeds
      <4>2. registered[NameOf(d)] = ExpectedOf(repo[d])
        BY <2>1, <3>1, <4>1
      <4>3. repo[d] \in Entries
        BY <2>5 DEF ScanInv, RepositoryTypes
      <4>4. repo[d].name \in Dirs \cup {NoName}
        BY <4>3, EntryFacts
      <4>5. NameOf(d) \in Dirs
        BY <4>1, <4>4 DEF NameOf, Loadable
      <4> QED BY <4>1, <4>2, <4>5
    <3>3. ASSUME NEW n \in Dirs, registered[n].state = "Ready" PROVE \E d \in Dirs : Succeeds(d)
      BY <3>1, <3>3 DEF ScanInv, ReadyLoaded
    <3> QED BY <3>1, <3>2, <3>3
  <2> QED BY <2>1, <2>3, <2>5 DEF ScanFaithful
<1> QED BY <1>1, ScanInductive, PTL

----------------------------------------------------------------------------
(* The latency histogram, for any number of buckets and of samples.           *)

ReaderTypes == [at : {"sum", "count", "returned"}, p : Percentiles, i : Nat, total : Nat, count : Nat,
                target : Nat, result : Nat, start : [BucketIds -> Nat]]
HistogramTypes == buckets \in [BucketIds -> Nat] /\ (reader.at = "idle" \/ reader \in ReaderTypes)

AtMost(b, c) == \A k \in BucketIds : b[k] <= c[k]

\* v is what the first loop read, bucket by bucket, at some moments of the call.
Snapshot(v) == v \in [BucketIds -> Nat] /\ AtMost(reader.start, v) /\ AtMost(v, buckets)

Summing ==
    reader.at = "sum" =>
        /\ reader.i \in BucketIds /\ reader.count = 0
        /\ \E v : Snapshot(v) /\ reader.total = Below(v, reader.i)
TargetSet(v) ==
    /\ Snapshot(v) /\ reader.total = Below(v, LatencyBits + 1)
    /\ reader.target = (reader.total * reader.p[1]) \div reader.p[2]
Counting ==
    reader.at = "count" =>
        /\ reader.i \in BucketIds
        /\ \E v : TargetSet(v) /\ Below(v, reader.i) <= reader.count
        /\ reader.count <= Below(buckets, reader.i)
        /\ reader.count < reader.target \/ (reader.target = 0 /\ reader.i = 0)
Returned ==
    reader.at = "returned" =>
        /\ reader.i \in BucketIds
        /\ \E v : TargetSet(v)
        /\ reader.target > 0 => /\ Below(reader.start, reader.i) < reader.target
                                /\ reader.target <= Below(buckets, reader.i + 1)
                                /\ reader.result > 0

HistogramInv == HistogramTypes /\ Summing /\ Counting /\ Returned

(* What the sums over the buckets are. *)
LEMMA BelowFacts ==
  ASSUME NEW b \in [BucketIds -> Nat]
  PROVE  /\ Below(b, 0) = 0
         /\ \A n \in BucketIds : Below(b, n + 1) = Below(b, n) + b[n]
         /\ \A n \in 0 .. LatencyBits + 1 : Below(b, n) \in Nat
<1> DEFINE N == LatencyBits + 1
           F == [i \in 1 .. N |-> [v \in Nat |-> v + b[i - 1]]]
<1>1. N \in Nat /\ \A i \in 1 .. N : i - 1 \in BucketIds /\ b[i - 1] \in Nat /\ i - 1 \in 0 .. N /\ i \in 0 .. N
  BY HistogramAssumption DEF BucketIds
<1>2. F \in [1 .. N -> [Nat -> Nat]]
  BY <1>1
<1>3. PICK g \in [0 .. N -> Nat] : g[0] = 0 /\ \A i \in 1 .. N : g[i] = F[i][g[i - 1]]
  <2> DEFINE V == Nat
             c == 0
  <2>1. c \in V
    OBVIOUS
  <2>2. N \in Nat /\ StepsIn(F, N, V)
    BY <1>1, <1>2 DEF StepsIn
  <2> HIDE DEF F, N, V, c
  <2>3. \E g : Solution(g, N, V, c, F)
    BY <2>1, <2>2, Recursion
  <2> QED BY <2>3 DEF V, c, Solution
<1> DEFINE P(f) == f = [i \in 0 .. N |-> IF i = 0 THEN 0 ELSE f[i - 1] + b[i - 1]]
<1>4. \A n : Below(b, n) = (CHOOSE f : P(f))[n]
  BY DEF Below
<1>5. P(g)
  <2>1. ASSUME NEW i \in 0 .. N PROVE g[i] = IF i = 0 THEN 0 ELSE g[i - 1] + b[i - 1]
    <3>1. CASE i = 0
      BY <1>3, <3>1
    <3>2. CASE i # 0
      <4>1. i \in 1 .. N /\ g[i - 1] \in Nat
        BY <1>1, <1>3, <3>2
      <4> QED BY <1>3, <3>2, <4>1
    <3> QED BY <3>1, <3>2
  <2> HIDE DEF N
  <2> QED BY <1>3, <2>1
<1> HIDE DEF P
<1>6. PICK f : f = (CHOOSE h : P(h)) /\ P(f)
  BY <1>5
<1>7. f[0] = 0 /\ \A i \in 1 .. N : f[i] = f[i - 1] + b[i - 1]
  <2>1. \A i \in 0 .. N : f[i] = IF i = 0 THEN 0 ELSE f[i - 1] + b[i - 1]
    <3> HIDE DEF N
    <3> QED BY <1>6 DEF P
  <2>2. 0 \in 0 .. N /\ \A i \in 1 .. N : i \in 0 .. N /\ i # 0
    BY <1>1
  <2> HIDE DEF N
  <2> QED BY <2>1, <2>2
<1> DEFINE B == {i \in 0 .. N : ~(f[i] \in Nat)}
<1>8. B = {}
  <2> SUFFICES ASSUME B # {} PROVE FALSE
    OBVIOUS
  <2>1. PICK i \in B : \A j \in B : i <= j
    <3>1. B \in SUBSET Nat
      BY <1>1
    <3> HIDE DEF B
    <3> QED BY <3>1, Least
  <2>2. i \in 1 .. N /\ i - 1 \in 0 .. N /\ ~(f[i] \in Nat) /\ i \in Nat
    <3>1. i # 0
      BY <1>7, <2>1
    <3> QED BY <1>1, <2>1, <3>1
  <2>3. f[i - 1] \in Nat
    <3>1. i - 1 \notin B
      <4> HIDE DEF B
      <4> QED BY <2>1, <2>2
    <3> QED BY <2>2, <3>1
  <2> QED BY <1>1, <1>7, <2>2, <2>3
<1>9. \A n \in BucketIds : n + 1 \in 1 .. N /\ (n + 1) - 1 = n
  BY HistogramAssumption DEF BucketIds
<1>10. \A n \in BucketIds : f[n + 1] = f[n] + b[n]
  <2> SUFFICES ASSUME NEW n \in BucketIds PROVE f[n + 1] = f[n] + b[n]
    OBVIOUS
  <2>1. n + 1 \in 1 .. N /\ (n + 1) - 1 = n
    BY <1>9
  <2>2. PICK m \in 1 .. N : m = n + 1 /\ m - 1 = n
    BY <2>1
  <2>3. f[m] = f[m - 1] + b[m - 1]
    BY <1>7
  <2> QED BY <2>2, <2>3
<1>11. \A n : Below(b, n) = f[n]
  BY <1>4, <1>6
<1>12. \A n \in 0 .. N : f[n] \in Nat
  BY <1>8
<1> QED BY <1>7, <1>10, <1>11, <1>12

(* More samples, larger sums. *)
LEMMA BelowMonotone ==
  ASSUME NEW b \in [BucketIds -> Nat], NEW c \in [BucketIds -> Nat], NEW n \in 0 .. LatencyBits + 1,
         \A k \in 0 .. n - 1 : b[k] <= c[k]
  PROVE  Below(b, n) <= Below(c, n)
<1> DEFINE B == {i \in 0 .. n : ~(Below(b, i) <= Below(c, i))}
<1>1. n \in Nat /\ LatencyBits \in Nat
  BY HistogramAssumption
<1>2. B = {}
  <2> SUFFICES ASSUME B # {} PROVE FALSE
    OBVIOUS
  <2>1. PICK i \in B : \A j \in B : i <= j
    <3>1. B \in SUBSET Nat
      BY <1>1
    <3> HIDE DEF B
    <3> QED BY <3>1, Least
  <2>2. i \in 0 .. n /\ ~(Below(b, i) <= Below(c, i))
    BY <2>1
  <2>3. i # 0
    BY <2>2, BelowFacts
  <2>8. PICK j : j = i - 1
    OBVIOUS
  <2>4. /\ j \in 0 .. n /\ j \in 0 .. n - 1 /\ j \in BucketIds /\ i = j + 1
        /\ j \in 0 .. LatencyBits + 1 /\ j < i
    BY <1>1, <2>2, <2>3, <2>8 DEF BucketIds
  <2>5. Below(b, j) <= Below(c, j)
    <3>1. j \notin B
      <4> HIDE DEF B
      <4> QED BY <1>1, <2>1, <2>2, <2>4
    <3> QED BY <2>4, <3>1
  <2>6. /\ Below(b, i) = Below(b, j) + b[j] /\ Below(c, i) = Below(c, j) + c[j]
        /\ Below(b, j) \in Nat /\ Below(c, j) \in Nat
    BY <2>4, BelowFacts
  <2>7. b[j] \in Nat /\ c[j] \in Nat /\ b[j] <= c[j]
    BY <2>4
  <2> QED BY <2>2, <2>5, <2>6, <2>7
<1>3. n \in 0 .. n
  BY <1>1
<1> QED BY <1>2, <1>3

(* Powers of two are positive, and the bucket of a latency exists. *)
LEMMA PowerFacts == \A n \in BucketIds : Pow2[n] \in Nat /\ Pow2[n] > 0
<1> DEFINE N == LatencyBits
           F == [i \in 1 .. N |-> [v \in Nat |-> 2 * v]]
<1>1. N \in Nat /\ BucketIds = 0 .. N
  BY HistogramAssumption DEF BucketIds
<1>2. F \in [1 .. N -> [Nat -> Nat]]
  OBVIOUS
<1>3. PICK g \in [0 .. N -> Nat] : g[0] = 1 /\ \A i \in 1 .. N : g[i] = F[i][g[i - 1]]
  <2> DEFINE V == Nat
             c == 1
  <2>1. c \in V
    OBVIOUS
  <2>2. N \in Nat /\ StepsIn(F, N, V)
    BY <1>1, <1>2 DEF StepsIn
  <2> HIDE DEF F, N, V, c
  <2>3. \E g : Solution(g, N, V, c, F)
    BY <2>1, <2>2, Recursion
  <2> QED BY <2>3 DEF V, c, Solution
<1> DEFINE P(f) == f = [i \in BucketIds |-> IF i = 0 THEN 1 ELSE 2 * f[i - 1]]
<1>4. Pow2 = CHOOSE f : P(f)
  BY DEF Pow2
<1>5. P(g)
  <2>1. ASSUME NEW i \in 0 .. N PROVE g[i] = IF i = 0 THEN 1 ELSE 2 * g[i - 1]
    <3>1. CASE i = 0
      BY <1>3, <3>1
    <3>2. CASE i # 0
      <4>1. i \in 1 .. N /\ g[i - 1] \in Nat
        BY <1>1, <1>3, <3>2
      <4> QED BY <1>3, <3>2, <4>1
    <3> QED BY <3>1, <3>2
  <2> HIDE DEF N
  <2> QED BY <1>1, <1>3, <2>1
<1> HIDE DEF P
<1>6. P(Pow2)
  BY <1>4, <1>5
<1>7. \A i \in 0 .. N : Pow2[i] = IF i = 0 THEN 1 ELSE 2 * Pow2[i - 1]
  <2> HIDE DEF N
  <2> QED BY <1>1, <1>6 DEF P
<1> DEFINE B == {i \in 0 .. N : ~(Pow2[i] \in Nat /\ Pow2[i] > 0)}
<1>8. B = {}
  <2> SUFFICES ASSUME B # {} PROVE FALSE
    OBVIOUS
  <2>1. PICK i \in B : \A j \in B : i <= j
    <3>1. B \in SUBSET Nat
      BY <1>1
    <3> HIDE DEF B
    <3> QED BY <3>1, Least
  <2>2. i \in 0 .. N /\ ~(Pow2[i] \in Nat /\ Pow2[i] > 0)
    BY <2>1
  <2>3. i # 0
    BY <1>7, <2>2
  <2>4. i - 1 \in 0 .. N /\ i - 1 < i /\ i \in Nat
    BY <1>1, <2>2, <2>3
  <2>5. Pow2[i - 1] \in Nat /\ Pow2[i - 1] > 0
    <3>1. i - 1 \notin B
      <4> HIDE DEF B
      <4> QED BY <2>1, <2>4
    <3> QED BY <2>4, <3>1
  <2> QED BY <1>7, <2>2, <2>3, <2>5
<1> QED BY <1>1, <1>8

(* record() counts every latency in a bucket that exists: the least one that holds it, or  *)
(* the last.                                                                              *)
LEMMA BucketFacts ==
  ASSUME NEW latency \in Latencies
  PROVE  bucket_for(latency) \in BucketIds
<1> DEFINE S == {i \in BucketIds : latency < Pow2[i]}
<1>1. S # {} /\ S \in SUBSET Nat
  BY HistogramAssumption DEF BucketIds
<1>2. bucket_for(latency) = CHOOSE x \in S : \A y \in S : x <= y
  BY DEF bucket_for, Min
<1>3. \E x \in S : \A y \in S : x <= y
  <2> HIDE DEF S
  <2> QED BY <1>1, Least
<1> QED BY <1>2, <1>3

(* The larger of i - 1 and 0, which the shift is by. *)
LEMMA ShiftFacts ==
  ASSUME NEW i \in BucketIds
  PROVE  Max({i - 1, 0}) \in BucketIds
<1>1. i \in Nat /\ LatencyBits \in Nat /\ 0 \in BucketIds
  BY HistogramAssumption DEF BucketIds
<1>2. CASE i = 0
  <2> DEFINE S == {i - 1, 0}
  <2>1. 0 \in S /\ \A y \in S : 0 >= y
    BY <1>2
  <2>2. \A x \in S : (\A y \in S : x >= y) => x = 0
    BY <1>2
  <2>3. Max(S) = CHOOSE x \in S : \A y \in S : x >= y
    BY DEF Max
  <2> HIDE DEF S
  <2>4. Max(S) = 0
    BY <2>1, <2>2, <2>3
  <2> QED BY <1>1, <2>4 DEF S
<1>3. CASE i # 0
  <2>1. i - 1 \in Nat /\ i - 1 \in BucketIds
    BY <1>1, <1>3 DEF BucketIds
  <2>2. Max({i - 1, 0}) \in {i - 1, 0}
    BY <2>1, MaxOfTwo
  <2> QED BY <1>1, <2>1, <2>2
<1> QED BY <1>2, <1>3

(* The target: p of the total, rounded down (metrics.cpp:13). *)
LEMMA TargetFacts ==
  ASSUME NEW p \in Percentiles, NEW t \in Nat
  PROVE  /\ (t * p[1]) \div p[2] \in Nat
         /\ ((t * p[1]) \div p[2]) * p[2] <= t * p[1]
         /\ (t * p[1]) \div p[2] <= t
         /\ t = 0 => (t * p[1]) \div p[2] = 0
         /\ \A s \in Nat : s <= t => /\ (s * p[1]) \div p[2] <= (t * p[1]) \div p[2]
                                     /\ s * p[1] <= t * p[1]
<1>1. CASE p = <<1, 2>>
  BY <1>1
<1>2. CASE p = <<19, 20>>
  BY <1>2
<1>3. CASE p = <<99, 100>>
  BY <1>3
<1> QED BY <1>1, <1>2, <1>3 DEF Percentiles

(* What was read stays between the buckets at the call and the ones there are now. *)
LEMMA SnapshotKeeps ==
  ASSUME HistogramTypes, reader.at # "idle", buckets' \in [BucketIds -> Nat], AtMost(buckets, buckets'),
         reader'.start = reader.start, NEW v, Snapshot(v)
  PROVE  Snapshot(v)'
<1>1. v \in [BucketIds -> Nat] /\ buckets \in [BucketIds -> Nat] /\ AtMost(v, buckets)
      /\ AtMost(reader.start, v)
  BY DEF HistogramTypes, Snapshot
<1>2. ASSUME NEW k \in BucketIds PROVE v[k] <= buckets'[k]
  <2>1. /\ v[k] \in Nat /\ buckets[k] \in Nat /\ buckets'[k] \in Nat
        /\ v[k] <= buckets[k] /\ buckets[k] <= buckets'[k]
    BY <1>1 DEF AtMost
  <2> QED BY <2>1
<1>3. AtMost(v, buckets')
  BY <1>2 DEF AtMost
<1> QED BY <1>1, <1>3 DEF Snapshot, AtMost

(* A sample more (metrics.hpp:45-47). *)
LEMMA RecordKeeps ==
  ASSUME HistogramInv, NEW latency \in Latencies, Record(latency)
  PROVE  HistogramInv'
<1>1. HistogramTypes /\ Summing /\ Counting /\ Returned /\ reader' = reader
  BY DEF HistogramInv, Record
<1>2. PICK k : k = bucket_for(latency) /\ k \in BucketIds
  BY BucketFacts
<1>3. buckets' = [buckets EXCEPT ![k] = @ + 1] /\ buckets \in [BucketIds -> Nat]
  BY <1>1, <1>2 DEF Record, HistogramTypes
<1>4. buckets' \in [BucketIds -> Nat] /\ AtMost(buckets, buckets')
  BY <1>2, <1>3 DEF AtMost
<1>5. HistogramTypes'
  BY <1>1, <1>4 DEF HistogramTypes
<1>6. \A n \in 0 .. LatencyBits + 1 : Below(buckets, n) <= Below(buckets', n)
  <2> SUFFICES ASSUME NEW n \in 0 .. LatencyBits + 1 PROVE Below(buckets, n) <= Below(buckets', n)
    OBVIOUS
  <2>1. PICK b, c : b = buckets /\ c = buckets'
    OBVIOUS
  <2>2. \A j \in 0 .. n - 1 : b[j] <= c[j]
    BY <1>4, <2>1, HistogramAssumption DEF AtMost, BucketIds
  <2>3. Below(b, n) <= Below(c, n)
    BY <1>3, <1>4, <2>1, <2>2, BelowMonotone
  <2> QED BY <2>1, <2>3
<1>7. \A n \in 0 .. LatencyBits + 1 : Below(buckets, n) \in Nat /\ Below(buckets', n) \in Nat
  <2>1. PICK c : c = buckets'
    OBVIOUS
  <2>2. \A n \in 0 .. LatencyBits + 1 : Below(c, n) \in Nat
    BY <1>4, <2>1, BelowFacts
  <2> QED BY <1>3, <2>1, <2>2, BelowFacts
<1>8. \A n \in BucketIds : n \in 0 .. LatencyBits + 1 /\ n + 1 \in 0 .. LatencyBits + 1
  BY HistogramAssumption DEF BucketIds
<1>9. ASSUME reader.at # "idle" PROVE \A v : Snapshot(v) => Snapshot(v)'
  BY <1>1, <1>4, <1>9, SnapshotKeeps
<1>10. ASSUME reader.at # "idle" PROVE \A v : TargetSet(v) => TargetSet(v)'
  BY <1>1, <1>9, <1>10 DEF TargetSet
<1>11. Summing'
  BY <1>1, <1>9 DEF Summing
<1>12. Counting'
  <2> SUFFICES ASSUME reader.at = "count" PROVE Counting'
    BY <1>1 DEF Counting
  <2>1. reader.i \in BucketIds /\ reader.count <= Below(buckets, reader.i) /\ reader \in ReaderTypes
    BY <1>1 DEF Counting, HistogramTypes
  <2>2. reader.count \in Nat
    BY <2>1 DEF ReaderTypes
  <2>3. PICK n : n = reader.i
    OBVIOUS
  <2>4. Below(buckets, n) \in Nat /\ Below(buckets', n) \in Nat /\ Below(buckets, n) <= Below(buckets', n)
    BY <1>6, <1>7, <1>8, <2>1, <2>3
  <2>5. reader.count <= Below(buckets', n)
    BY <2>1, <2>2, <2>3, <2>4
  <2> QED BY <1>1, <1>10, <2>3, <2>5 DEF Counting
<1>13. Returned'
  <2> SUFFICES ASSUME reader.at = "returned" PROVE Returned'
    BY <1>1 DEF Returned
  <2>1. reader.i \in BucketIds /\ reader \in ReaderTypes
    BY <1>1 DEF Returned, HistogramTypes
  <2>2. reader.target \in Nat
    BY <2>1 DEF ReaderTypes
  <2>3. PICK n : n = reader.i + 1
    OBVIOUS
  <2>4. Below(buckets, n) \in Nat /\ Below(buckets', n) \in Nat /\ Below(buckets, n) <= Below(buckets', n)
    BY <1>6, <1>7, <1>8, <2>1, <2>3
  <2>5. reader.target <= Below(buckets, n) => reader.target <= Below(buckets', n)
    BY <2>2, <2>4
  <2> QED BY <1>1, <1>10, <2>3, <2>5 DEF Returned
<1> QED BY <1>5, <1>11, <1>12, <1>13 DEF HistogramInv

(* The call: nothing read so far. *)
LEMMA CallKeeps ==
  ASSUME HistogramInv, PercentileCalled
  PROVE  HistogramInv'
<1>1. PICK p \in Percentiles : reader' = [at |-> "sum", p |-> p, i |-> 0, total |-> 0, count |-> 0,
                                          target |-> 0, result |-> 0, start |-> buckets]
  BY DEF PercentileCalled
<1>2. buckets' = buckets /\ buckets \in [BucketIds -> Nat] /\ 0 \in BucketIds
  BY HistogramAssumption DEF PercentileCalled, HistogramInv, HistogramTypes, BucketIds
<1>3. HistogramTypes'
  BY <1>1, <1>2 DEF HistogramTypes, ReaderTypes
<1>4. Snapshot(buckets)' /\ Below(buckets, 0) = 0
  <2>1. \A k \in BucketIds : buckets[k] <= buckets[k]
    BY <1>2
  <2> QED BY <1>1, <1>2, <2>1, BelowFacts DEF Snapshot, AtMost
<1>5. Summing'
  BY <1>1, <1>2, <1>4 DEF Summing
<1>6. reader'.at = "sum"
  BY <1>1
<1> QED BY <1>3, <1>5, <1>6 DEF HistogramInv, Counting, Returned

(* The first loop reads a bucket (metrics.cpp:7-13). *)
LEMMA SumsKeeps ==
  ASSUME HistogramInv, PercentileSums
  PROVE  HistogramInv'
<1>1. /\ reader.at = "sum" /\ reader \in ReaderTypes /\ buckets \in [BucketIds -> Nat] /\ Summing
      /\ buckets' = buckets /\ LatencyBits \in Nat
  BY HistogramAssumption DEF PercentileSums, HistogramInv, HistogramTypes
<1>2. PICK i, total, p : i = reader.i /\ total = reader.total + buckets[reader.i] /\ p = reader.p
  OBVIOUS
<1>3. /\ i \in BucketIds /\ i \in 0 .. LatencyBits /\ reader.count = 0 /\ reader.total \in Nat
      /\ reader.start \in [BucketIds -> Nat] /\ p \in Percentiles /\ reader.result \in Nat
      /\ reader.target \in Nat
  BY <1>1, <1>2 DEF Summing, ReaderTypes, BucketIds
<1>4. PICK v : Snapshot(v) /\ reader.total = Below(v, i)
  BY <1>1, <1>2 DEF Summing
<1>10. PICK w : w = [v EXCEPT ![i] = buckets[i]]
  OBVIOUS
<1>5. /\ v \in [BucketIds -> Nat] /\ w \in [BucketIds -> Nat] /\ w[i] = buckets[i]
      /\ \A k \in BucketIds : k # i => w[k] = v[k]
      /\ AtMost(reader.start, v) /\ AtMost(v, buckets)
  BY <1>1, <1>3, <1>4, <1>10 DEF Snapshot
<1>6. AtMost(reader.start, w) /\ AtMost(w, buckets)
  <2>1. ASSUME NEW k \in BucketIds PROVE reader.start[k] <= w[k] /\ w[k] <= buckets[k]
    <3>1. /\ reader.start[k] \in Nat /\ v[k] \in Nat /\ buckets[k] \in Nat
          /\ reader.start[k] <= v[k] /\ v[k] <= buckets[k]
      BY <1>1, <1>3, <1>5 DEF AtMost
    <3>2. w[k] = v[k] \/ w[k] = buckets[k]
      BY <1>5
    <3> QED BY <3>1, <3>2
  <2> QED BY <2>1 DEF AtMost
<1>7. total = Below(w, i + 1) /\ total \in Nat
  <2>1. i \in 0 .. LatencyBits + 1 /\ \A k \in 0 .. i - 1 : k \in BucketIds /\ k # i
    BY <1>1, <1>3 DEF BucketIds
  <2>2. \A k \in 0 .. i - 1 : v[k] <= w[k] /\ w[k] <= v[k]
    BY <1>5, <2>1
  <2>3. Below(v, i) <= Below(w, i) /\ Below(w, i) <= Below(v, i)
    BY <1>5, <2>1, <2>2, BelowMonotone
  <2>4. Below(v, i) \in Nat /\ Below(w, i) \in Nat /\ Below(w, i + 1) = Below(w, i) + w[i]
    BY <1>3, <1>5, <2>1, BelowFacts
  <2>5. buckets[i] \in Nat
    BY <1>1, <1>3
  <2> QED BY <1>2, <1>4, <1>5, <2>3, <2>4, <2>5
<1>8. CASE i < LatencyBits
  <2>1. reader' = [reader EXCEPT !.i = i + 1, !.total = total]
    BY <1>2, <1>8 DEF PercentileSums
  <2>2. i + 1 \in BucketIds /\ i + 1 \in Nat
    BY <1>1, <1>3, <1>8 DEF BucketIds
  <2>3. /\ reader' \in ReaderTypes /\ reader'.at = "sum" /\ reader'.i = i + 1 /\ reader'.total = total
        /\ reader'.count = 0 /\ reader'.start = reader.start
    BY <1>1, <1>3, <1>7, <2>1, <2>2 DEF ReaderTypes
  <2>4. Snapshot(w)'
    BY <1>1, <1>5, <1>6, <2>3 DEF Snapshot
  <2>5. Summing'
    BY <1>7, <2>2, <2>3, <2>4 DEF Summing
  <2>6. HistogramTypes'
    BY <1>1, <2>3 DEF HistogramTypes
  <2> QED BY <2>3, <2>5, <2>6 DEF HistogramInv, Counting, Returned
<1>9. CASE ~(i < LatencyBits)
  <2>1. PICK q, s : q = (total * p[1]) \div p[2] /\ s = IF total = 0 THEN "returned" ELSE "count"
    OBVIOUS
  <2>2. reader' = [reader EXCEPT !.i = 0, !.total = total, !.target = q, !.at = s]
    BY <1>2, <1>9, <2>1 DEF PercentileSums
  <2>3. i = LatencyBits /\ total = Below(w, LatencyBits + 1) /\ 0 \in BucketIds
    BY <1>1, <1>3, <1>7, <1>9 DEF BucketIds
  <2>4. q \in Nat /\ (total = 0 => q = 0)
    BY <1>3, <1>7, <2>1, TargetFacts
  <2>5. /\ reader' \in ReaderTypes /\ reader'.at = s /\ reader'.i = 0 /\ reader'.total = total
        /\ reader'.target = q /\ reader'.p = p /\ reader'.count = 0 /\ reader'.start = reader.start
    <3>1. s \in {"sum", "count", "returned"}
      BY <2>1
    <3> QED BY <1>1, <1>2, <1>3, <1>7, <2>2, <2>4, <3>1 DEF ReaderTypes
  <2>6. Snapshot(w)'
    BY <1>1, <1>5, <1>6, <2>5 DEF Snapshot
  <2>7. TargetSet(w)'
    BY <2>1, <2>3, <2>5, <2>6 DEF TargetSet
  <2>8. HistogramTypes' /\ Summing'
    BY <1>1, <2>1, <2>5 DEF HistogramTypes, Summing
  <2>9. Below(w, 0) = 0 /\ Below(buckets, 0) = 0
    BY <1>1, <1>5, BelowFacts
  <2>10. Counting'
    BY <1>1, <2>3, <2>4, <2>5, <2>7, <2>9 DEF Counting
  <2>11. Returned'
    BY <2>1, <2>3, <2>4, <2>5, <2>7 DEF Returned
  <2> QED BY <2>8, <2>10, <2>11 DEF HistogramInv
<1> QED BY <1>8, <1>9

(* The second loop reads a bucket, and finds the target by the last one at the latest: *)
(* what it counts is no less than what the first loop read (metrics.cpp:14-21).        *)
LEMMA CountsKeeps ==
  ASSUME HistogramInv, PercentileCounts
  PROVE  HistogramInv'
<1>1. /\ reader.at = "count" /\ reader \in ReaderTypes /\ buckets \in [BucketIds -> Nat] /\ Counting
      /\ buckets' = buckets /\ LatencyBits \in Nat
  BY HistogramAssumption DEF PercentileCounts, HistogramInv, HistogramTypes
<1>2. PICK i, c, t : i = reader.i /\ c = reader.count + buckets[reader.i] /\ t = reader.target
  OBVIOUS
<1>3. /\ i \in BucketIds /\ i \in 0 .. LatencyBits /\ reader.count \in Nat /\ t \in Nat
      /\ reader.start \in [BucketIds -> Nat] /\ reader.p \in Percentiles /\ reader.total \in Nat
      /\ i \in 0 .. LatencyBits + 1
  BY <1>1, <1>2 DEF Counting, ReaderTypes, BucketIds
<1>4. PICK v : TargetSet(v) /\ Below(v, i) <= reader.count
  BY <1>1, <1>2 DEF Counting
<1>5. /\ v \in [BucketIds -> Nat] /\ AtMost(reader.start, v) /\ AtMost(v, buckets)
      /\ reader.total = Below(v, LatencyBits + 1) /\ t <= reader.total
  BY <1>2, <1>3, <1>4, TargetFacts DEF TargetSet, Snapshot
<1>6. /\ Below(v, i) \in Nat /\ Below(v, i + 1) = Below(v, i) + v[i] /\ v[i] \in Nat /\ buckets[i] \in Nat
      /\ Below(buckets, i) \in Nat /\ Below(buckets, i + 1) = Below(buckets, i) + buckets[i]
      /\ v[i] <= buckets[i]
  BY <1>1, <1>3, <1>5, BelowFacts DEF AtMost
<1>7. /\ c \in Nat /\ Below(v, i + 1) <= c /\ c <= Below(buckets, i + 1)
      /\ reader.count < t \/ (t = 0 /\ i = 0)
  <2>1. reader.count <= Below(buckets, i) /\ (reader.count < t \/ (t = 0 /\ i = 0))
    BY <1>1, <1>2 DEF Counting
  <2> QED BY <1>2, <1>3, <1>4, <1>6, <2>1
<1>8. CASE Reaches(c, t)
  <2>1. PICK r : r = Pow2[Max({i - 1, 0})]
    OBVIOUS
  <2>2. r \in Nat /\ r > 0
    BY <1>3, <2>1, ShiftFacts, PowerFacts
  <2>3. reader' = [reader EXCEPT !.count = c, !.i = i, !.result = r, !.at = "returned"]
    BY <1>2, <1>8, <2>1 DEF PercentileCounts
  <2>4. /\ reader' \in ReaderTypes /\ reader'.at = "returned" /\ reader'.i = i /\ reader'.target = t
        /\ reader'.total = reader.total /\ reader'.p = reader.p /\ reader'.start = reader.start
        /\ reader'.result = r
    BY <1>1, <1>2, <1>3, <1>7, <2>2, <2>3 DEF ReaderTypes, BucketIds
  <2>5. TargetSet(v)'
    BY <1>1, <1>2, <1>4, <2>4 DEF TargetSet, Snapshot
  <2>6. Below(reader.start, i) <= Below(v, i) /\ Below(reader.start, i) \in Nat
    <3>1. \A k \in 0 .. i - 1 : k \in BucketIds
      BY <1>1, <1>3 DEF BucketIds
    <3>2. \A k \in 0 .. i - 1 : reader.start[k] <= v[k]
      BY <1>5, <3>1 DEF AtMost
    <3> QED BY <1>3, <1>5, <3>2, BelowMonotone, BelowFacts
  <2>7. t > 0 => Below(reader.start, i) < t
    BY <1>3, <1>4, <1>6, <1>7, <2>6
  <2>8. t <= Below(buckets, i + 1)
    BY <1>1, <1>3, <1>6, <1>7, <1>8 DEF Reaches
  <2>9. Returned'
    BY <1>1, <1>3, <2>2, <2>4, <2>5, <2>7, <2>8 DEF Returned
  <2>10. HistogramTypes'
    BY <1>1, <2>4 DEF HistogramTypes
  <2> QED BY <2>4, <2>9, <2>10 DEF HistogramInv, Summing, Counting
<1>9. CASE ~Reaches(c, t)
  <2>1. c < t
    BY <1>3, <1>7, <1>9 DEF Reaches
  <2>2. i # LatencyBits
    BY <1>3, <1>5, <1>6, <1>7, <2>1
  <2>3. i + 1 \in BucketIds /\ i + 1 \in Nat
    BY <1>1, <1>3, <2>2 DEF BucketIds
  <2>4. reader' = [reader EXCEPT !.count = c, !.i = i + 1, !.result = 0, !.at = "count"]
    BY <1>2, <1>9, <2>2 DEF PercentileCounts
  <2>5. /\ reader' \in ReaderTypes /\ reader'.at = "count" /\ reader'.i = i + 1 /\ reader'.target = t
        /\ reader'.total = reader.total /\ reader'.p = reader.p /\ reader'.start = reader.start
        /\ reader'.count = c
    BY <1>1, <1>2, <1>3, <1>7, <2>3, <2>4 DEF ReaderTypes
  <2>6. TargetSet(v)'
    BY <1>1, <1>2, <1>4, <2>5 DEF TargetSet, Snapshot
  <2>7. Counting'
    BY <1>1, <1>7, <2>1, <2>3, <2>5, <2>6 DEF Counting
  <2>8. HistogramTypes'
    BY <1>1, <2>5 DEF HistogramTypes
  <2> QED BY <2>5, <2>7, <2>8 DEF HistogramInv, Summing, Returned
<1> QED BY <1>8, <1>9

----------------------------------------------------------------------------
(* Samples recorded between two loads of percentile never make it lose the target: the *)
(* invariant of metrics.cpp:6-22.                                                      *)
THEOREM HistogramInductive == HistogramSpec => []HistogramInv
<1>1. HistogramInit => HistogramInv
  BY DEF HistogramInit, HistogramInv, HistogramTypes, Summing, Counting, Returned
<1>2. HistogramInv /\ [HistogramNext]_histogramVars => HistogramInv'
  <2> SUFFICES ASSUME HistogramInv, [HistogramNext]_histogramVars PROVE HistogramInv'
    OBVIOUS
  <2>1. CASE UNCHANGED histogramVars
    BY <2>1 DEF histogramVars, HistogramInv, HistogramTypes, Summing, Counting, Returned, TargetSet, Snapshot
  <2> QED BY <2>1, RecordKeeps, CallKeeps, SumsKeeps, CountsKeeps DEF HistogramNext
<1> QED BY <1>1, <1>2, PTL DEF HistogramSpec

(* A percentile computed while latencies are recorded is one of some moment of the call *)
(* (metrics.cpp:6-22), for any number of workers, buckets and samples.                  *)
THEOREM PercentileIsOfTheCall == HistogramSpec => []PercentileRank
<1>1. HistogramInv => PercentileRank
  <2> SUFFICES ASSUME HistogramInv, reader.at = "returned"
               PROVE  IF reader.total = 0 THEN Samples(reader.start) = 0
                      ELSE reader.target > 0 =>
                        /\ (Samples(reader.start) * reader.p[1]) \div reader.p[2] <= reader.target
                        /\ reader.target * reader.p[2] <= Samples(buckets) * reader.p[1]
                        /\ reader.result > 0
                        /\ UpTo(reader.start, reader.i - 1) < reader.target
                        /\ reader.target <= UpTo(buckets, reader.i)
    BY DEF PercentileRank
  <2>1. /\ reader \in ReaderTypes /\ buckets \in [BucketIds -> Nat] /\ Returned /\ LatencyBits \in Nat
    BY HistogramAssumption DEF HistogramInv, HistogramTypes
  <2>2. PICK v : TargetSet(v)
    BY <2>1 DEF Returned
  <2>3. PICK a, t, c, p, N : /\ a = Samples(reader.start) /\ t = reader.total /\ c = Samples(buckets)
                             /\ p = reader.p /\ N = LatencyBits + 1
    OBVIOUS
  <2>4. /\ reader.start \in [BucketIds -> Nat] /\ v \in [BucketIds -> Nat] /\ t = Below(v, N)
        /\ a = Below(reader.start, N) /\ c = Below(buckets, N) /\ t \in Nat /\ p \in Percentiles
        /\ N \in 0 .. LatencyBits + 1 /\ reader.target = (t * p[1]) \div p[2]
        /\ AtMost(reader.start, v) /\ AtMost(v, buckets)
    BY <2>1, <2>2, <2>3 DEF ReaderTypes, TargetSet, Snapshot, Samples
  <2>5. \A k \in 0 .. N - 1 : reader.start[k] <= v[k] /\ v[k] <= buckets[k]
    BY <2>1, <2>3, <2>4 DEF AtMost, BucketIds
  <2>6. a <= t /\ t <= c /\ a \in Nat /\ c \in Nat
    BY <2>1, <2>4, <2>5, BelowMonotone, BelowFacts
  <2>7. /\ (a * p[1]) \div p[2] <= (t * p[1]) \div p[2]
        /\ ((t * p[1]) \div p[2]) * p[2] <= t * p[1] /\ t * p[1] <= c * p[1]
    BY <2>4, <2>6, TargetFacts
  <2>8. reader.target * p[2] <= c * p[1]
    <3>1. p[1] \in Nat /\ p[2] \in Nat
      BY <2>4 DEF Percentiles
    <3>2. PICK x, y, z : x = reader.target * p[2] /\ y = t * p[1] /\ z = c * p[1]
      OBVIOUS
    <3>3. reader.target \in Nat
      BY <2>1 DEF ReaderTypes
    <3>4. x \in Nat /\ y \in Nat /\ z \in Nat /\ x <= y /\ y <= z
      BY <2>4, <2>6, <2>7, <3>1, <3>2, <3>3
    <3> QED BY <3>2, <3>4
  <2>9. CASE reader.total = 0
    BY <2>3, <2>6, <2>9
  <2>10. CASE reader.total # 0
    <3>1. reader.i \in BucketIds /\ (reader.i - 1) + 1 = reader.i
      BY <2>1 DEF Returned, BucketIds
    <3>2. reader.target > 0 => /\ UpTo(reader.start, reader.i - 1) < reader.target
                               /\ reader.target <= UpTo(buckets, reader.i) /\ reader.result > 0
      BY <2>1, <3>1 DEF Returned, UpTo
    <3> QED BY <2>3, <2>4, <2>7, <2>8, <2>10, <3>2
  <2> QED BY <2>9, <2>10
<1> QED BY <1>1, HistogramInductive, PTL

----------------------------------------------------------------------------
(* The LibTorch backend, for any batch and any shape.                        *)

\* The rows of one tensor, and of several of k rows each, one behind the other.
RowsOf(i, k) == [r \in 1 .. k |-> <<i, r>>]
Stacked(rows, n, k) ==
    /\ rows \in Seq(Nat \X Nat) /\ Len(rows) = n * k
    /\ \A i \in 1 .. n, r \in 1 .. k : rows[((i - 1) * k) + r] = <<i, r>>

Flattens(f, s, n) ==
    FlattenSeq(s) = f[n] /\ f[1] = s[1] /\ \A i \in 2 .. n : f[i] = f[i - 1] \o s[i]

(* The recursion by which sequences are put one behind the other. *)
LEMMA FlattenFacts ==
  ASSUME NEW n \in Nat \ {0}, NEW E, NEW s \in [1 .. n -> Seq(E)]
  PROVE  \E f : Flattens(f, s, n)
<1> DEFINE V == Seq(E)
           F == [j \in 1 .. n - 1 |-> [v \in V |-> v \o s[j + 1]]]
           P(f) == f = [i \in 1 .. n |-> IF i = 1 THEN s[i] ELSE f[i - 1] \o s[i]]
<1>1. \A i \in 1 .. n : s[i] \in V
  OBVIOUS
<1>2. Len(s) = n /\ n # 0 /\ 1 \in 1 .. n
  OBVIOUS
<1>3. n - 1 \in Nat /\ \A j \in 1 .. n - 1 : j + 1 \in 1 .. n
  OBVIOUS
<1>4. StepsIn(F, n - 1, V)
  <2>1. ASSUME NEW j \in 1 .. n - 1, NEW v \in V PROVE v \o s[j + 1] \in V
    BY <1>1, <1>3
  <2> HIDE DEF V
  <2> QED BY <2>1 DEF StepsIn
<1>5. PICK g : Solution(g, n - 1, V, s[1], F)
  <2>1. s[1] \in V
    BY <1>1, <1>2
  <2> DEFINE m == n - 1
             c == s[1]
  <2>2. m \in Nat /\ StepsIn(F, m, V) /\ c \in V
    BY <1>3, <1>4, <2>1
  <2> HIDE DEF F, m, c, V
  <2>3. \E g : Solution(g, m, V, c, F)
    BY <2>2, Recursion
  <2> QED BY <2>3 DEF m, c
<1>6. /\ g \in [0 .. n - 1 -> V] /\ g[0] = s[1]
      /\ \A j \in 1 .. n - 1 : g[j] = g[j - 1] \o s[j + 1]
  <2>1. g \in [0 .. n - 1 -> V] /\ g[0] = s[1] /\ \A j \in 1 .. n - 1 : g[j] = F[j][g[j - 1]]
    BY <1>5 DEF Solution
  <2>2. \A j \in 1 .. n - 1 : j - 1 \in 0 .. n - 1
    OBVIOUS
  <2> HIDE DEF V
  <2> QED BY <2>1, <2>2
<1>7. PICK h : h = [i \in 1 .. n |-> g[i - 1]]
  OBVIOUS
<1>8. P(h)
  <2>1. ASSUME NEW i \in 1 .. n PROVE g[i - 1] = IF i = 1 THEN s[i] ELSE h[i - 1] \o s[i]
    <3>1. CASE i = 1
      BY <1>6, <3>1
    <3>2. CASE i # 1
      <4>1. i - 1 \in 1 .. n - 1 /\ i - 1 \in 1 .. n /\ (i - 1) + 1 = i
        BY <3>2
      <4>2. g[i - 1] = g[(i - 1) - 1] \o s[(i - 1) + 1] /\ h[i - 1] = g[(i - 1) - 1]
        BY <1>6, <1>7, <4>1
      <4> QED BY <3>2, <4>1, <4>2
    <3> QED BY <3>1, <3>2
  <2> QED BY <1>7, <2>1
<1>9. FlattenSeq(s) = (CHOOSE f : P(f))[n]
  BY <1>2 DEF FlattenSeq
<1> HIDE DEF P
<1>10. PICK f : f = (CHOOSE e : P(e)) /\ P(f)
  BY <1>8
<1>11. \A i \in 1 .. n : f[i] = IF i = 1 THEN s[i] ELSE f[i - 1] \o s[i]
  BY <1>10 DEF P
<1>12. \A i \in 2 .. n : i \in 1 .. n /\ i # 1
  OBVIOUS
<1>13. f[1] = s[1] /\ \A i \in 2 .. n : f[i] = f[i - 1] \o s[i]
  BY <1>2, <1>11, <1>12
<1> QED BY <1>9, <1>10, <1>13 DEF Flattens

(* Behind n stacked tensors comes the next one. *)
LEMMA StackOne ==
  ASSUME NEW n \in Nat, NEW k \in Nat, NEW rows, Stacked(rows, n, k)
  PROVE  Stacked(rows \o RowsOf(n + 1, k), n + 1, k)
<1> DEFINE W == Nat \X Nat
<1>1. PICK new, m : new = RowsOf(n + 1, k) /\ m = n * k
  OBVIOUS
<1>2. m \in Nat /\ (n + 1) * k = m + k /\ ((n + 1) - 1) * k = m
  BY <1>1
<1>3. new \in Seq(W) /\ Len(new) = k /\ \A r \in 1 .. k : new[r] = <<n + 1, r>>
  BY <1>1 DEF RowsOf
<1>4. rows \in Seq(W) /\ Len(rows) = m /\ \A i \in 1 .. n, r \in 1 .. k : rows[((i - 1) * k) + r] = <<i, r>>
  BY <1>1 DEF Stacked
<1>5. /\ rows \o new \in Seq(W) /\ Len(rows \o new) = m + k
      /\ \A j \in 1 .. m + k : (rows \o new)[j] = IF j <= m THEN rows[j] ELSE new[j - m]
  <2> HIDE DEF W
  <2>1. /\ rows \o new \in Seq(W) /\ Len(rows \o new) = Len(rows) + Len(new)
        /\ \A j \in 1 .. Len(rows) + Len(new) :
              (rows \o new)[j] = IF j <= Len(rows) THEN rows[j] ELSE new[j - Len(rows)]
    BY <1>3, <1>4, ConcatProperties
  <2> QED BY <1>3, <1>4, <2>1
<1>6. ASSUME NEW i \in 1 .. n + 1, NEW r \in 1 .. k PROVE (rows \o new)[((i - 1) * k) + r] = <<i, r>>
  <2>1. PICK q : q = (i - 1) * k
    OBVIOUS
  <2>2. CASE i = n + 1
    <3>1. q = m /\ m + r \in 1 .. m + k /\ ~(m + r <= m) /\ (m + r) - m = r
      BY <1>2, <2>1, <2>2
    <3>2. (rows \o new)[m + r] = new[r]
      BY <1>5, <3>1
    <3> QED BY <1>3, <2>1, <2>2, <3>1, <3>2
  <2>3. CASE i # n + 1
    <3>1. i \in 1 .. n /\ i - 1 \in Nat /\ n - i \in Nat
      BY <2>3
    <3>2. q \in Nat /\ m = q + k + ((n - i) * k) /\ (n - i) * k \in Nat
      BY <1>1, <2>1, <3>1
    <3>3. q + r \in 1 .. m + k /\ q + r <= m
      BY <3>2
    <3> QED BY <1>4, <1>5, <2>1, <3>1, <3>3
  <2> QED BY <2>2, <2>3
<1> QED BY <1>1, <1>2, <1>5, <1>6 DEF Stacked

(* Concatenating tensors of equal size puts row r of request i at (i - 1) * k + r       *)
(* (torch_backend.cpp:154-171).                                                         *)
LEMMA FlattenStacks ==
  ASSUME NEW n \in Nat \ {0}, NEW k \in Nat
  PROVE  Stacked(FlattenSeq([i \in 1 .. n |-> RowsOf(i, k)]), n, k)
<1>1. PICK s : s = [i \in 1 .. n |-> RowsOf(i, k)]
  OBVIOUS
<1>2. s \in [1 .. n -> Seq(Nat \X Nat)] /\ \A i \in 1 .. n : s[i] = RowsOf(i, k)
  <2>1. \A i \in 1 .. n : RowsOf(i, k) \in Seq(Nat \X Nat)
    BY DEF RowsOf
  <2> QED BY <1>1, <2>1
<1>3. PICK f : FlattenSeq(s) = f[n] /\ f[1] = s[1] /\ \A i \in 2 .. n : f[i] = f[i - 1] \o s[i]
  <2> DEFINE E == Nat \X Nat
  <2>1. s \in [1 .. n -> Seq(E)]
    BY <1>2
  <2> HIDE DEF E
  <2>2. \E f : Flattens(f, s, n)
    BY <2>1, FlattenFacts
  <2> QED BY <2>2 DEF Flattens
<1> DEFINE B == {i \in 1 .. n : ~Stacked(f[i], i, k)}
<1>4. Stacked(f[1], 1, k)
  <2>1. f[1] = RowsOf(1, k) /\ 1 * k = k /\ (1 - 1) * k = 0
    BY <1>2, <1>3
  <2>2. RowsOf(1, k) \in Seq(Nat \X Nat) /\ Len(RowsOf(1, k)) = k /\ \A r \in 1 .. k : RowsOf(1, k)[r] = <<1, r>>
    BY DEF RowsOf
  <2>3. ASSUME NEW i \in 1 .. 1, NEW r \in 1 .. k PROVE RowsOf(1, k)[((i - 1) * k) + r] = <<i, r>>
    <3>1. i = 1 /\ 0 + r = r
      OBVIOUS
    <3> QED BY <2>1, <2>2, <3>1
  <2> QED BY <2>1, <2>2, <2>3 DEF Stacked
<1>5. B = {}
  <2> SUFFICES ASSUME B # {} PROVE FALSE
    OBVIOUS
  <2>1. PICK i \in B : \A j \in B : i <= j
    <3>1. B \in SUBSET Nat
      OBVIOUS
    <3> HIDE DEF B
    <3> QED BY <3>1, Least
  <2>2. i \in 2 .. n /\ i - 1 \in 1 .. n /\ i - 1 \in Nat /\ (i - 1) + 1 = i /\ ~Stacked(f[i], i, k)
    <3>1. i # 1
      BY <1>4, <2>1
    <3> QED BY <2>1, <3>1
  <2>3. Stacked(f[i - 1], i - 1, k)
    <3>1. i - 1 \notin B
      <4>1. i \in Nat /\ ~(i <= i - 1)
        BY <2>2
      <4> HIDE DEF B
      <4> QED BY <2>1, <4>1
    <3> QED BY <2>2, <3>1
  <2>4. f[i] = f[i - 1] \o RowsOf(i, k)
    BY <1>2, <1>3, <2>2
  <2>5. Stacked(f[i - 1] \o RowsOf((i - 1) + 1, k), (i - 1) + 1, k)
    BY <2>2, <2>3, StackOne
  <2> QED BY <2>2, <2>4, <2>5
<1>6. Stacked(f[n], n, k)
  BY <1>5
<1> QED BY <1>1, <1>3, <1>6

(* The quotient is determined by what it must satisfy. *)
LEMMA DivUnique ==
  ASSUME NEW c \in Nat \ {0}, NEW a \in Int, NEW q \in Int, NEW r \in 0 .. c - 1, a = (c * q) + r
  PROVE  a \div c = q
<1>1. PICK p, s : p = a \div c /\ s = a % c
  OBVIOUS
<1>2. p \in Int /\ s \in 0 .. c - 1 /\ a = (c * p) + s
  BY <1>1
<1>3. s - r = c * (q - p)
  BY <1>2
<1>4. q - p < 1 /\ q - p > -1
  BY <1>2, <1>3
<1> QED BY <1>1, <1>2, <1>4

(* The smaller of two. *)
LEMMA MinOfTwo ==
  ASSUME NEW a \in Int, NEW b \in Int, a <= b
  PROVE  Min({a, b}) = a
BY DEF Min

(* n requests of k rows each are cut into n pieces, and piece i holds the rows of        *)
(* request i: neither a piece too few nor a row of another request                       *)
(* (torch_backend.cpp:187-191).                                                          *)
LEMMA ChunkPieces ==
  ASSUME NEW n \in Nat \ {0}, NEW k \in Nat, NEW i \in 1 .. n, NEW y, Stacked(y.rows, n, k)
  PROVE  /\ i \in DOMAIN Chunk(y, n)
         /\ Chunk(y, n)[i] = [shape |-> <<k>> \o Tail(y.shape), rows |-> RowsOf(i, k)]
<1>1. PICK R, q, p : R = n * k /\ q = (i - 1) * k /\ p = (n - i) * k
  OBVIOUS
<1>2. R \in Nat /\ q \in Nat /\ p \in Nat /\ R = q + k + p /\ i * k = q + k
  BY <1>1
<1>3. (R + n - 1) \div n = k
  <2>1. R + n - 1 \in Int /\ n - 1 \in 0 .. n - 1 /\ R + n - 1 = (n * k) + (n - 1)
    BY <1>1, <1>2
  <2> QED BY <2>1, DivUnique
<1>4. R # 0 => (R + k - 1) \div k = n
  <2> SUFFICES ASSUME R # 0 PROVE (R + k - 1) \div k = n
    OBVIOUS
  <2>1. k \in Nat \ {0}
    BY <1>1
  <2>2. R + k - 1 \in Int /\ k - 1 \in 0 .. k - 1 /\ R + k - 1 = (k * n) + (k - 1)
    BY <1>1, <1>2, <2>1
  <2>3. PICK a, r : a = R + k - 1 /\ r = k - 1
    OBVIOUS
  <2>4. a \in Int /\ r \in 0 .. k - 1 /\ a = (k * n) + r /\ n \in Int
    BY <2>2, <2>3
  <2>5. a \div k = n
    BY <2>1, <2>4, DivUnique
  <2> QED BY <2>3, <2>5
<1>5. Min({k, R - q}) = k /\ Min({q + k, R}) = q + k
  BY <1>2, MinOfTwo
<1>6. SubSeq(y.rows, q + 1, q + k) = RowsOf(i, k)
  <2> DEFINE W == Nat \X Nat
  <2>1. PICK rows, a, b, t : rows = y.rows /\ a = q + 1 /\ b = q + k /\ t = RowsOf(i, k)
    OBVIOUS
  <2>2. /\ rows \in Seq(W) /\ Len(rows) = R /\ a \in Int /\ b \in Int
        /\ \A r \in 1 .. k : rows[q + r] = <<i, r>>
    <3>1. /\ rows \in Seq(W) /\ Len(rows) = n * k
          /\ \A r \in 1 .. k : rows[((i - 1) * k) + r] = <<i, r>>
      BY <2>1 DEF Stacked
    <3>2. \A r \in 1 .. k : rows[q + r] = <<i, r>>
      BY <1>1, <3>1
    <3>3. a \in Int /\ b \in Int
      BY <1>2, <2>1
    <3>4. Len(rows) = R
      BY <1>1, <3>1
    <3> HIDE DEF W
    <3> QED BY <3>1, <3>2, <3>3, <3>4
  <2>3. t \in Seq(W) /\ Len(t) = k /\ \A r \in 1 .. k : t[r] = <<i, r>>
    BY <2>1 DEF RowsOf
  <2> HIDE DEF W
  <2>4. \A j \in a .. b : j \in 1 .. Len(rows) /\ rows[j] \in W
    BY <1>2, <2>1, <2>2
  <2>5. /\ SubSeq(rows, a, b) \in Seq(W)
        /\ Len(SubSeq(rows, a, b)) = IF a <= b THEN b - a + 1 ELSE 0
        /\ \A j \in 1 .. b - a + 1 : SubSeq(rows, a, b)[j] = rows[a + j - 1]
    BY <2>2, <2>4, SubSeqProperties
  <2>6. PICK u : u = SubSeq(rows, a, b)
    OBVIOUS
  <2>7. u \in Seq(W) /\ Len(u) = k
    <3>1. b - a + 1 = k /\ (a <= b <=> k > 0)
      BY <1>2, <2>1
    <3>2. Len(u) = IF k > 0 THEN k ELSE 0
      BY <2>5, <2>6, <3>1
    <3> QED BY <2>5, <2>6, <3>2
  <2>8. \A j \in 1 .. k : u[j] = t[j]
    <3> SUFFICES ASSUME NEW j \in 1 .. k PROVE u[j] = t[j]
      OBVIOUS
    <3>1. j \in 1 .. b - a + 1 /\ a + j - 1 = q + j
      BY <1>2, <2>1
    <3> QED BY <2>2, <2>3, <2>5, <2>6, <3>1
  <2>9. u = t
    BY <2>3, <2>7, <2>8, SeqEqual
  <2> QED BY <2>1, <2>6, <2>9
<1>7. PICK m : m = IF R = 0 THEN n ELSE (R + k - 1) \div k
  OBVIOUS
<1>8. i \in 1 .. m
  BY <1>4, <1>7
<1>9. Len(y.rows) = R
  BY <1>1 DEF Stacked
<1>10. Chunk(y, n) = [j \in 1 .. m |->
           [shape |-> <<Min({k, R - (j - 1) * k})>> \o Tail(y.shape),
            rows |-> SubSeq(y.rows, (j - 1) * k + 1, Min({j * k, R}))]]
  BY <1>3, <1>7, <1>9 DEF Chunk
<1>11. Chunk(y, n)[i] = [shape |-> <<Min({k, R - (i - 1) * k})>> \o Tail(y.shape),
                         rows |-> SubSeq(y.rows, (i - 1) * k + 1, Min({i * k, R}))]
  BY <1>8, <1>10
<1> QED BY <1>1, <1>2, <1>5, <1>6, <1>8, <1>10, <1>11

(* A shape is its first dimension and the others. *)
LEMMA ShapeParts ==
  ASSUME NEW s \in Seq(Nat), NEW a \in Nat
  PROVE  /\ s # <<>> => /\ Head(s) \in Nat /\ Tail(s) \in Seq(Nat)
                        /\ <<Head(s)>> \o Tail(s) = s
         /\ <<a>> \o s # <<>> /\ Head(<<a>> \o s) = a /\ Tail(<<a>> \o s) = s
<1>1. ASSUME s # <<>> PROVE Head(s) \in Nat /\ Tail(s) \in Seq(Nat) /\ <<Head(s)>> \o Tail(s) = s
  BY <1>1
<1>2. PICK t : t = <<a>> \o s
  OBVIOUS
<1>3. t \in Seq(Nat) /\ Len(t) = Len(s) + 1 /\ t[1] = a /\ \A j \in 1 .. Len(s) : t[j + 1] = s[j]
  BY <1>2
<1>4. t # <<>> /\ Head(t) = a
  BY <1>3
<1>5. Tail(t) = s
  <2>1. Tail(t) \in Seq(Nat) /\ Len(Tail(t)) = Len(s) /\ \A j \in 1 .. Len(s) : Tail(t)[j] = s[j]
    <3>1. /\ Tail(t) \in Seq(Nat) /\ Len(Tail(t)) = Len(t) - 1
          /\ \A j \in 1 .. Len(Tail(t)) : Tail(t)[j] = t[j + 1]
      BY <1>3, <1>4, HeadTailProperties
    <3>2. Len(s) \in Nat /\ Len(Tail(t)) = Len(s)
      BY <1>3, <3>1
    <3> QED BY <1>3, <3>1, <3>2
  <2> QED BY <2>1, SeqEqual
<1> QED BY <1>1, <1>2, <1>4, <1>5

Kinds == {"none", "relu", "module", "throws"}
Requests == [shape : Seq(Nat), buffer : Nat]

(* A request of a batch of equal shapes that have a dimension to concatenate along gets *)
(* what it gets alone (torch_backend.cpp:65-129, 131-219).                              *)
LEMMA SharedLikeAlone ==
  ASSUME NEW kind \in Kinds, NEW n \in Nat \ {0}, NEW batch \in [1 .. n -> Requests],
         NEW sh \in Seq(Nat), sh # <<>>, \A j \in 1 .. n : batch[j].shape = sh, NEW i \in 1 .. n
  PROVE  BatchResponses(kind, batch)[i] = Infer(kind, batch[i], i)
<1>1. PICK k : k = Head(sh)
  OBVIOUS
<1>2. Len(batch) = n /\ k \in Nat /\ Tail(sh) \in Seq(Nat) /\ <<k>> \o Tail(sh) = sh /\ Rows(sh) = k
  BY <1>1, ShapeParts DEF Rows
<1>3. \A j \in 1 .. n : Input(batch[j], j) = [shape |-> sh, rows |-> RowsOf(j, k)]
  BY <1>2 DEF Input, RowsOf
<1>4. PICK inputs : inputs = [j \in 1 .. n |-> Input(batch[j], j)]
  OBVIOUS
<1>5. /\ DOMAIN inputs = 1 .. n /\ 1 \in 1 .. n
      /\ \A j \in 1 .. n : inputs[j].shape = sh /\ inputs[j].rows = RowsOf(j, k)
  BY <1>3, <1>4
<1>6. CanCat(inputs)
  BY <1>5 DEF CanCat
<1>7. PICK x, rows : x = Cat(inputs) /\ rows = FlattenSeq([j \in 1 .. n |-> RowsOf(j, k)])
  OBVIOUS
<1>8. Stacked(rows, n, k) /\ Len(rows) \in Nat
  <2>1. Stacked(rows, n, k)
    BY <1>2, <1>7, FlattenStacks
  <2>2. n * k \in Nat
    BY <1>2
  <2>3. Len(rows) = n * k
    BY <2>1 DEF Stacked
  <2> QED BY <2>1, <2>2, <2>3
<1>9. x = [shape |-> <<Len(rows)>> \o Tail(sh), rows |-> rows]
  <2>1. [j \in DOMAIN inputs |-> inputs[j].rows] = [j \in 1 .. n |-> RowsOf(j, k)]
    BY <1>5
  <2> QED BY <1>5, <1>7, <2>1 DEF Cat
<1>10. x.shape # <<>> /\ Head(x.shape) = Len(rows) /\ Tail(x.shape) = Tail(sh) /\ x.rows = rows
  <2>1. x.shape = <<Len(rows)>> \o Tail(sh) /\ x.rows = rows
    BY <1>9
  <2> QED BY <1>2, <1>8, <2>1, ShapeParts, SMTT(40)
<1>11. PICK y, z : y = Forward(kind, x) /\ z = Forward(kind, Input(batch[i], i))
  OBVIOUS
<1>12. y.rows = rows /\ z = [shape |-> <<k>> \o Tail(y.shape), rows |-> RowsOf(i, k)]
  <2>1. CASE kind = "relu"
    <3>1. y = x /\ z = [shape |-> sh, rows |-> RowsOf(i, k)]
      BY <1>3, <1>11, <2>1 DEF Forward
    <3> QED BY <1>2, <1>10, <3>1
  <2>2. CASE kind # "relu"
    <3>1. PICK w : w = <<Len(rows), 2>>
      OBVIOUS
    <3>2. y = [x EXCEPT !.shape = w]
      BY <1>10, <1>11, <2>2, <3>1 DEF Forward
    <3>3. y.shape = w /\ y.rows = rows
      BY <1>9, <3>2
    <3>4. z = [[shape |-> sh, rows |-> RowsOf(i, k)] EXCEPT !.shape = <<k, 2>>]
      <4>1. PICK in : in = [shape |-> sh, rows |-> RowsOf(i, k)]
        OBVIOUS
      <4>2. z = Forward(kind, in) /\ in.shape = sh
        BY <1>3, <1>11, <4>1
      <4>3. z = [in EXCEPT !.shape = <<k, 2>>]
        BY <1>1, <2>2, <4>2 DEF Forward
      <4> QED BY <4>1, <4>3
    <3>5. z = [shape |-> <<k, 2>>, rows |-> RowsOf(i, k)]
      BY <3>4
    <3>6. <<k>> \o Tail(w) = <<k, 2>>
      <4>1. Tail(w) = <<2>>
        BY <1>8, <3>1
      <4>2. PICK t : t = <<2>>
        OBVIOUS
      <4>3. t \in Seq(Nat) /\ Len(t) = 1 /\ t[1] = 2
        BY <4>2
      <4>4. <<k>> \in Seq(Nat) /\ Len(<<k>>) = 1 /\ <<k>>[1] = k
        BY <1>2
      <4>5. PICK u : u = <<k>> \o t
        OBVIOUS
      <4>6. u \in Seq(Nat) /\ Len(u) = 2 /\ u[1] = k /\ u[2] = 2
        <5>1. PICK w1 : w1 = <<k>>
          OBVIOUS
        <5>2. w1 \in Seq(Nat) /\ Len(w1) = 1 /\ w1[1] = k
          BY <4>4, <5>1
        <5>3. /\ w1 \o t \in Seq(Nat) /\ Len(w1 \o t) = 2
              /\ \A j \in 1 .. 2 : (w1 \o t)[j] = IF j <= 1 THEN w1[j] ELSE t[j - 1]
          <6>1. /\ w1 \o t \in Seq(Nat) /\ Len(w1 \o t) = Len(w1) + Len(t)
                /\ \A j \in 1 .. Len(w1) + Len(t) :
                      (w1 \o t)[j] = IF j <= Len(w1) THEN w1[j] ELSE t[j - Len(w1)]
            BY <4>3, <5>2, ConcatProperties
          <6>2. Len(w1) + Len(t) = 2 /\ Len(w1) = 1
            BY <4>3, <5>2
          <6> QED BY <6>1, <6>2
        <5>4. 1 \in 1 .. 2 /\ 2 \in 1 .. 2 /\ 2 - 1 = 1 /\ ~(2 <= 1) /\ 1 <= 1
          OBVIOUS
        <5> QED BY <4>3, <4>5, <5>1, <5>2, <5>3, <5>4
      <4>7. u = <<k, 2>>
        BY <4>6
      <4> QED BY <4>1, <4>2, <4>5, <4>7
    <3> QED BY <3>3, <3>5, <3>6
  <2> QED BY <2>1, <2>2
<1>13. PICK chunks : chunks = Chunk(y, n)
  OBVIOUS
<1>14. i \in DOMAIN chunks /\ chunks[i] = z
  <2>1. Stacked(y.rows, n, k)
    BY <1>8, <1>12
  <2> QED BY <1>2, <1>12, <1>13, <2>1, ChunkPieces
<1>15. BatchResponses(kind, batch) =
         CASE kind = "none" -> [j \in 1 .. n |-> Failed("not_loaded")]
           [] kind # "none" /\ (kind = "throws" \/ ~CanCat(inputs)) -> [j \in 1 .. n |-> Failed("exception")]
           [] OTHER -> [j \in 1 .. n |-> IF j \in DOMAIN chunks THEN Response(chunks[j], batch[j])
                                         ELSE Failed("undefined")]
  BY <1>2, <1>4, <1>7, <1>11, <1>13 DEF BatchResponses
<1>16. CASE kind = "none"
  BY <1>15, <1>16 DEF Infer
<1>17. CASE kind = "throws"
  BY <1>15, <1>17 DEF Infer
<1>18. CASE kind # "none" /\ kind # "throws"
  <2>1. BatchResponses(kind, batch) = [j \in 1 .. n |-> IF j \in DOMAIN chunks THEN Response(chunks[j], batch[j])
                                                        ELSE Failed("undefined")]
    BY <1>6, <1>15, <1>18
  <2>2. BatchResponses(kind, batch)[i] = Response(z, batch[i])
    BY <1>14, <2>1
  <2>3. Infer(kind, batch[i], i) = Response(z, batch[i])
    BY <1>11, <1>18 DEF Infer
  <2> QED BY <2>2, <2>3
<1> QED BY <1>16, <1>17, <1>18

----------------------------------------------------------------------------
(* What the backend keeps: the responses are those of the model as it was when the batch *)
(* was run (torch_backend.cpp:131-219), whatever is loaded or unloaded later.            *)
TorchTypes ==
    /\ models \in [ModelIds -> Kinds] /\ inference.model \in Kinds
    /\ inference.batch = <<>> \/ \E n \in Nat \ {0} : inference.batch \in [1 .. n -> Requests]
Responded ==
    inference.batch # <<>> => inference.responses = BatchResponses(inference.model, inference.batch)
TorchInv == TorchTypes /\ Responded

(* The batch and the responses belong together in every state. *)
THEOREM TorchInductive == TorchSpec => []TorchInv
<1>1. TorchInit => TorchInv
  BY DEF TorchInit, TorchInv, TorchTypes, Responded, Kinds
<1>2. TorchInv /\ [TorchNext]_torchVars => TorchInv'
  <2> SUFFICES ASSUME TorchInv, [TorchNext]_torchVars PROVE TorchInv'
    OBVIOUS
  <2>1. ASSUME NEW id \in ModelIds, TorchLoad(id) PROVE TorchInv'
    <3>1. inference' = inference /\ models' \in [ModelIds -> Kinds]
      BY <2>1 DEF TorchLoad, TorchInv, TorchTypes, Kinds
    <3> QED BY <3>1 DEF TorchInv, TorchTypes, Responded
  <2>2. ASSUME NEW id \in ModelIds, TorchUnload(id) PROVE TorchInv'
    <3>1. inference' = inference /\ models' \in [ModelIds -> Kinds]
      BY <2>2 DEF TorchUnload, TorchInv, TorchTypes, Kinds
    <3> QED BY <3>1 DEF TorchInv, TorchTypes, Responded
  <2>3. ASSUME NEW id \in ModelIds, InferBatch(id) PROVE TorchInv'
    <3>1. models \in [ModelIds -> Kinds] /\ models' = models
      BY <2>3 DEF InferBatch, TorchInv, TorchTypes
    <3>7. PICK n \in 1 .. MaxBatch :
            \E batch \in [1 .. n -> [shape : Shapes, buffer : BufferSizes]] :
               inference' = [batch |-> batch, model |-> models[id],
                             responses |-> BatchResponses(models[id], batch)]
      BY <2>3 DEF InferBatch
    <3>2. PICK batch \in [1 .. n -> [shape : Shapes, buffer : BufferSizes]] :
            inference' = [batch |-> batch, model |-> models[id],
                          responses |-> BatchResponses(models[id], batch)]
      BY <3>7
    <3>3. n \in Nat \ {0} /\ batch \in [1 .. n -> Requests]
      <4>1. \A j \in 1 .. n : batch[j] \in [shape : Shapes, buffer : BufferSizes]
        BY <3>2
      <4>2. \A j \in 1 .. n : batch[j] \in Requests
        BY <4>1, TorchAssumption DEF Requests
      <4>3. n \in Nat \ {0}
        BY <3>7, TorchAssumption
      <4> HIDE DEF Requests
      <4> QED BY <3>2, <4>2, <4>3
    <3>4. /\ inference'.batch = batch /\ inference'.model = models[id]
          /\ inference'.responses = BatchResponses(models[id], batch)
      BY <3>2
    <3>5. TorchTypes'
      BY <3>1, <3>3, <3>4 DEF TorchTypes
    <3>6. Responded'
      BY <3>4 DEF Responded
    <3> QED BY <3>5, <3>6 DEF TorchInv
  <2>4. CASE UNCHANGED torchVars
    BY <2>4 DEF torchVars, TorchInv, TorchTypes, Responded
  <2> QED BY <2>1, <2>2, <2>3, <2>4 DEF TorchNext
<1> QED BY <1>1, <1>2, PTL DEF TorchSpec

(* Requests of one shape that are batched get what each would have got alone: its rows, *)
(* its shape, its error (torch_backend.cpp:131-219), for any shape but a scalar and any *)
(* size of the batch and of the buffers.                                                *)
THEOREM BatchedLikeAlone == TorchSpec => []BatchLikeSingle
<1>1. TorchInv => BatchLikeSingle
  <2> SUFFICES ASSUME TorchInv,
                      \A j \in DOMAIN inference.batch : /\ inference.batch[j].shape = inference.batch[1].shape
                                                        /\ inference.batch[j].shape # <<>>,
                      NEW i \in DOMAIN inference.batch
               PROVE  inference.responses[i] = Infer(inference.model, inference.batch[i], i)
    BY DEF BatchLikeSingle
  <2>1. PICK batch, kind : batch = inference.batch /\ kind = inference.model
    OBVIOUS
  <2>2. batch # <<>>
    BY <2>1
  <2>3. PICK n \in Nat \ {0} : batch \in [1 .. n -> Requests]
    BY <2>1, <2>2 DEF TorchInv, TorchTypes
  <2>4. PICK sh : sh = batch[1].shape
    OBVIOUS
  <2>5. 1 \in 1 .. n /\ DOMAIN batch = 1 .. n /\ i \in 1 .. n
    BY <2>1, <2>3
  <2>6. batch[1] \in Requests
    BY <2>3, <2>5
  <2>7. sh \in Seq(Nat) /\ sh # <<>> /\ \A j \in 1 .. n : batch[j].shape = sh
    BY <2>1, <2>4, <2>5, <2>6 DEF Requests
  <2>8. kind \in Kinds /\ inference.responses = BatchResponses(kind, batch)
    BY <2>1, <2>2 DEF TorchInv, TorchTypes, Responded
  <2>9. BatchResponses(kind, batch)[i] = Infer(kind, batch[i], i)
    BY <2>3, <2>5, <2>7, <2>8, SharedLikeAlone
  <2> QED BY <2>1, <2>8, <2>9
<1> QED BY <1>1, TorchInductive, PTL

----------------------------------------------------------------------------
(* Sums over finite sets.                                                    *)

\* g[s] is the sum of f over s, in whatever order it is added up.
Additive(g, f, S) ==
    /\ g \in [SUBSET S -> Nat] /\ g[{}] = 0
    /\ \A s \in SUBSET S : \A x \in s : g[s] = f[x] + g[s \ {x}]
AnyOf(s) == CHOOSE x \in s : TRUE
AddsUp(g, f, S) ==
    g = [s \in SUBSET S |-> IF s = {} THEN 0 ELSE f[AnyOf(s)] + g[s \ {AnyOf(s)}]]

(* Subsets of a finite set without one of their elements. *)
LEMMA OneLess ==
  ASSUME NEW S, IsFiniteSet(S), NEW s \in SUBSET S
  PROVE  /\ IsFiniteSet(s) /\ Cardinality(s) \in Nat /\ Cardinality(s) <= Cardinality(S)
         /\ Cardinality(s) = 0 <=> s = {}
         /\ s # {} => AnyOf(s) \in s
         /\ \A x \in s : s \ {x} \in SUBSET S /\ Cardinality(s \ {x}) = Cardinality(s) - 1
<1>1. IsFiniteSet(s) /\ Cardinality(s) <= Cardinality(S)
  BY FS_Subset
<1>2. Cardinality(s) \in Nat /\ (Cardinality(s) = 0 <=> s = {})
  BY <1>1, FS_CardinalityType, FS_EmptySet
<1>3. \A x \in s : Cardinality(s \ {x}) = Cardinality(s) - 1
  BY <1>1, FS_RemoveElement
<1> QED BY <1>1, <1>2, <1>3 DEF AnyOf

(* The recursion that a sum is defined by has a solution: after as many rounds as a    *)
(* subset has elements, its sum is there.                                              *)
LEMMA AddsUpExists ==
  ASSUME NEW S, IsFiniteSet(S), NEW f \in [S -> Nat]
  PROVE  \E g : AddsUp(g, f, S)
<1>1. PICK n : n = Cardinality(S)
  OBVIOUS
<1>2. n \in Nat
  BY <1>1, FS_CardinalityType
<1> DEFINE V == [SUBSET S -> Nat]
           c == [s \in SUBSET S |-> 0]
           Round(v) == [s \in SUBSET S |-> IF s = {} THEN 0 ELSE f[AnyOf(s)] + v[s \ {AnyOf(s)}]]
           F == [j \in 1 .. n |-> [v \in V |-> Round(v)]]
<1>3. \A s \in SUBSET S : s # {} => AnyOf(s) \in S /\ AnyOf(s) \in s /\ s \ {AnyOf(s)} \in SUBSET S
  BY OneLess
<1>4. c \in V
  OBVIOUS
<1>5. \A v \in V : Round(v) \in V
  <2> SUFFICES ASSUME NEW v \in V, NEW s \in SUBSET S, s # {} PROVE f[AnyOf(s)] + v[s \ {AnyOf(s)}] \in Nat
    OBVIOUS
  <2>1. f[AnyOf(s)] \in Nat /\ v[s \ {AnyOf(s)}] \in Nat
    BY <1>3
  <2> QED BY <2>1
<1>6. StepsIn(F, n, V)
  <2> HIDE DEF Round, V
  <2> QED BY <1>5 DEF StepsIn
<1>7. PICK G : Solution(G, n, V, c, F)
  <2> HIDE DEF F, V, c
  <2> QED BY <1>2, <1>4, <1>6, Recursion
<1>8. G \in [0 .. n -> V] /\ G[0] = c /\ \A j \in 1 .. n : G[j] = Round(G[j - 1])
  <2>1. G \in [0 .. n -> V] /\ G[0] = c /\ \A j \in 1 .. n : G[j] = F[j][G[j - 1]]
    BY <1>7 DEF Solution
  <2>2. \A j \in 1 .. n : G[j - 1] \in V
    <3> HIDE DEF V
    <3>1. \A j \in 1 .. n : j - 1 \in 0 .. n
      BY <1>2
    <3> QED BY <2>1, <3>1
  <2> HIDE DEF V, Round, c
  <2> QED BY <2>1, <2>2
<1> DEFINE g == [s \in SUBSET S |-> G[Cardinality(s)][s]]
<1>9. ASSUME NEW s \in SUBSET S
      PROVE  g[s] = IF s = {} THEN 0 ELSE f[AnyOf(s)] + g[s \ {AnyOf(s)}]
  <2>1. CASE s = {}
    <3>1. Cardinality(s) = 0
      BY <2>1, FS_EmptySet
    <3> QED BY <1>8, <2>1, <3>1
  <2>2. CASE s # {}
    <3>1. PICK k, x, t : k = Cardinality(s) /\ x = AnyOf(s) /\ t = s \ {x}
      OBVIOUS
    <3>2. k \in 1 .. n /\ x \in s /\ t \in SUBSET S /\ Cardinality(t) = k - 1
      <4>1. Cardinality(s) \in Nat /\ Cardinality(s) <= n /\ Cardinality(s) # 0
        BY <1>1, <2>2, OneLess
      <4>2. x \in s
        BY <2>2, <3>1, OneLess
      <4>3. t \in SUBSET S /\ Cardinality(t) = k - 1
        BY <3>1, <4>2, OneLess
      <4> QED BY <1>2, <3>1, <4>1, <4>2, <4>3
    <3>3. g[s] = G[k][s] /\ g[t] = G[k - 1][t]
      BY <3>1, <3>2
    <3>4. G[k] = Round(G[k - 1])
      BY <1>8, <3>2
    <3>5. G[k][s] = f[x] + G[k - 1][t]
      BY <2>2, <3>1, <3>4
    <3> QED BY <2>2, <3>1, <3>3, <3>5
  <2> QED BY <2>1, <2>2
<1>10. AddsUp(g, f, S)
  BY <1>9 DEF AddsUp
<1> QED BY <1>10

(* Whatever solves the recursion is additive: the order does not matter. *)
LEMMA OrderIndifferent ==
  ASSUME NEW S, IsFiniteSet(S), NEW f \in [S -> Nat], NEW g, AddsUp(g, f, S)
  PROVE  Additive(g, f, S)
<1>1. \A s \in SUBSET S : g[s] = IF s = {} THEN 0 ELSE f[AnyOf(s)] + g[s \ {AnyOf(s)}]
  BY DEF AddsUp
<1>2. \A s \in SUBSET S : \A x \in s : x \in S /\ f[x] \in Nat
  OBVIOUS
<1>3. g[{}] = 0
  BY <1>1
<1> DEFINE Bad(n) == \E s \in SUBSET S : Cardinality(s) = n /\ g[s] \notin Nat
           B == {n \in Nat : Bad(n)}
<1>4. \A s \in SUBSET S : g[s] \in Nat
  <2> SUFFICES ASSUME NEW s \in SUBSET S, g[s] \notin Nat PROVE FALSE
    OBVIOUS
  <2>1. Cardinality(s) \in Nat
    BY OneLess
  <2>2. B # {} /\ B \in SUBSET Nat
    BY <2>1
  <2>3. PICK n \in B : \A m \in B : n <= m
    <3> HIDE DEF B
    <3> QED BY <2>2, Least
  <2>4. n \in Nat /\ Bad(n) /\ ~Bad(n - 1)
    <3>1. n \in Nat /\ Bad(n)
      BY <2>3
    <3>2. ASSUME Bad(n - 1) PROVE FALSE
      <4>1. n - 1 \in Nat
        <5>1. PICK t \in SUBSET S : Cardinality(t) = n - 1
          BY <3>2
        <5> QED BY <5>1, OneLess
      <4>2. n - 1 \in B
        BY <3>2, <4>1
      <4> HIDE DEF B
      <4> QED BY <2>3, <3>1, <4>1, <4>2
    <3> QED BY <3>1, <3>2
  <2>5. PICK t \in SUBSET S : Cardinality(t) = n /\ g[t] \notin Nat
    BY <2>4
  <2>6. t # {}
    BY <1>3, <2>5
  <2>7. PICK x, u : x = AnyOf(t) /\ u = t \ {x}
    OBVIOUS
  <2>8. x \in t /\ u \in SUBSET S /\ Cardinality(u) = n - 1
    <3>1. x \in t
      BY <2>6, <2>7, OneLess
    <3> QED BY <2>5, <2>7, <3>1, OneLess
  <2>9. g[u] \in Nat
    BY <2>4, <2>8
  <2>10. g[t] = f[x] + g[u]
    BY <1>1, <2>6, <2>7
  <2>11. f[x] \in Nat
    BY <1>2, <2>8
  <2> QED BY <2>5, <2>9, <2>10, <2>11
<1> HIDE DEF Bad, B
<1> DEFINE Worse(n) == \E s \in SUBSET S : Cardinality(s) = n /\ \E x \in s : g[s] # f[x] + g[s \ {x}]
           C == {n \in Nat : Worse(n)}
<1>5. \A s \in SUBSET S : \A x \in s : g[s] = f[x] + g[s \ {x}]
  <2> SUFFICES ASSUME NEW s \in SUBSET S, NEW x \in s, g[s] # f[x] + g[s \ {x}] PROVE FALSE
    OBVIOUS
  <2>1. Cardinality(s) \in Nat
    BY OneLess
  <2>2. C # {} /\ C \in SUBSET Nat
    BY <2>1
  <2>3. PICK n \in C : \A m \in C : n <= m
    <3> HIDE DEF C
    <3> QED BY <2>2, Least
  <2>4. n \in Nat /\ Worse(n) /\ ~Worse(n - 1)
    <3>1. n \in Nat /\ Worse(n)
      BY <2>3
    <3>2. ASSUME Worse(n - 1) PROVE FALSE
      <4>1. n - 1 \in Nat
        <5>1. PICK t \in SUBSET S : Cardinality(t) = n - 1
          BY <3>2
        <5> QED BY <5>1, OneLess
      <4>2. n - 1 \in C
        BY <3>2, <4>1
      <4> HIDE DEF C
      <4> QED BY <2>3, <3>1, <4>1, <4>2
    <3> QED BY <3>1, <3>2
  <2>5. PICK t \in SUBSET S : Cardinality(t) = n /\ \E z \in t : g[t] # f[z] + g[t \ {z}]
    BY <2>4
  <2>6. PICK z \in t : g[t] # f[z] + g[t \ {z}]
    BY <2>5
  <2>7. PICK y, u, v : y = AnyOf(t) /\ u = t \ {y} /\ v = t \ {z}
    OBVIOUS
  <2>8. y \in t /\ g[t] = f[y] + g[u]
    BY <1>1, <2>6, <2>7, OneLess
  <2>9. y # z
    BY <2>6, <2>7, <2>8
  <2>10. /\ u \in SUBSET S /\ Cardinality(u) = n - 1 /\ v \in SUBSET S /\ Cardinality(v) = n - 1
         /\ z \in u /\ y \in v /\ u \ {z} = v \ {y}
    <3>1. u \in SUBSET S /\ Cardinality(u) = n - 1
      BY <2>5, <2>7, <2>8, OneLess
    <3>2. v \in SUBSET S /\ Cardinality(v) = n - 1
      BY <2>5, <2>6, <2>7, OneLess
    <3>3. z \in u /\ y \in v /\ u \ {z} = v \ {y}
      BY <2>6, <2>7, <2>8, <2>9
    <3> QED BY <3>1, <3>2, <3>3
  <2>11. g[u] = f[z] + g[u \ {z}] /\ g[v] = f[y] + g[v \ {y}]
    BY <2>4, <2>10
  <2>12. f[y] \in Nat /\ f[z] \in Nat /\ g[u \ {z}] \in Nat
    <3>1. u \ {z} \in SUBSET S
      BY <2>10
    <3> QED BY <1>2, <1>4, <2>8, <3>1
  <2>13. PICK w : w = g[u \ {z}]
    OBVIOUS
  <2>14. g[t] = f[y] + (f[z] + w) /\ g[v] = f[y] + w /\ w \in Nat /\ g[t] # f[z] + g[v]
    BY <2>6, <2>7, <2>8, <2>10, <2>11, <2>12, <2>13
  <2> QED BY <2>12, <2>14
<1>6. g \in [SUBSET S -> Nat]
  <2>1. g = [s \in SUBSET S |-> g[s]]
    BY DEF AddsUp
  <2> QED BY <1>4, <2>1
<1> QED BY <1>3, <1>5, <1>6 DEF Additive

(* The sum of a function over its domain. *)
LEMMA SumAdditive ==
  ASSUME NEW S, IsFiniteSet(S), NEW f \in [S -> Nat]
  PROVE  \E g : Additive(g, f, S) /\ SumFunction(f) = g[S]
<1>1. SumFunction(f) = (CHOOSE g : AddsUp(g, f, S))[S]
  <2>1. DOMAIN f = S
    OBVIOUS
  <2> QED BY <2>1 DEF SumFunction, SumFunctionOnSet, FoldFunctionOnSet, MapThenFoldSet, AddsUp, AnyOf
<1>2. \E g : AddsUp(g, f, S)
  BY AddsUpExists
<1>3. PICK g : g = (CHOOSE h : AddsUp(h, f, S)) /\ AddsUp(g, f, S)
  BY <1>2
<1>4. Additive(g, f, S)
  BY <1>3, OrderIndifferent
<1> QED BY <1>1, <1>3, <1>4

\* Every element of s that counts for f has one of its own in t that counts no less for h.
Covers(p, f, s, h, t) ==
    /\ \A x \in s : f[x] # 0 => p[x] \in t /\ f[x] <= h[p[x]]
    /\ \A x, y \in s : f[x] # 0 /\ f[y] # 0 /\ p[x] = p[y] => x = y

(* Then the sum over s is at most the sum over t. *)
LEMMA CoveredSum ==
  ASSUME NEW S, IsFiniteSet(S), NEW f \in [S -> Nat], NEW g, Additive(g, f, S),
         NEW T, NEW h \in [T -> Nat], NEW e, Additive(e, h, T), NEW p
  PROVE  \A s \in SUBSET S, t \in SUBSET T : Covers(p, f, s, h, t) => g[s] <= e[t]
<1> DEFINE Bad(n) == \E s \in SUBSET S, t \in SUBSET T :
                        Cardinality(s) = n /\ Covers(p, f, s, h, t) /\ ~(g[s] <= e[t])
           B == {n \in Nat : Bad(n)}
<1>1. /\ \A s \in SUBSET S : g[s] \in Nat /\ \A x \in s : f[x] \in Nat /\ g[s] = f[x] + g[s \ {x}]
      /\ \A t \in SUBSET T : e[t] \in Nat /\ \A x \in t : h[x] \in Nat /\ e[t] = h[x] + e[t \ {x}]
      /\ g[{}] = 0
  BY DEF Additive
<1> SUFFICES ASSUME NEW s0 \in SUBSET S, NEW t0 \in SUBSET T, Covers(p, f, s0, h, t0), ~(g[s0] <= e[t0])
             PROVE  FALSE
  OBVIOUS
<1>2. B # {} /\ B \in SUBSET Nat
  <2>1. Cardinality(s0) \in Nat
    BY OneLess
  <2> QED BY <2>1
<1>3. PICK n \in B : \A m \in B : n <= m
  <2> HIDE DEF B
  <2> QED BY <1>2, Least
<1>4. n \in Nat /\ Bad(n) /\ ~Bad(n - 1)
  <2>1. n \in Nat /\ Bad(n)
    BY <1>3
  <2>2. ASSUME Bad(n - 1) PROVE FALSE
    <3>1. n - 1 \in Nat
      <4>1. PICK s \in SUBSET S : Cardinality(s) = n - 1
        BY <2>2
      <4> QED BY <4>1, OneLess
    <3>2. n - 1 \in B
      BY <2>2, <3>1
    <3> HIDE DEF B
    <3> QED BY <1>3, <2>1, <3>1, <3>2
  <2> QED BY <2>1, <2>2
<1>5. PICK s \in SUBSET S, t \in SUBSET T :
        Cardinality(s) = n /\ Covers(p, f, s, h, t) /\ ~(g[s] <= e[t])
  BY <1>4
<1>6. s # {}
  <2>1. e[t] \in Nat
    BY <1>1
  <2>2. ASSUME s = {} PROVE FALSE
    <3>1. g[s] = 0
      BY <1>1, <2>2
    <3> QED BY <1>5, <2>1, <3>1
  <2> QED BY <2>2
<1>7. PICK x \in s : TRUE
  BY <1>6
<1>8. PICK u : u = s \ {x}
  OBVIOUS
<1>9. u \in SUBSET S /\ Cardinality(u) = n - 1
  BY <1>5, <1>7, <1>8, OneLess
<1>10. g[s] \in Nat /\ g[u] \in Nat /\ f[x] \in Nat /\ g[s] = f[x] + g[u] /\ e[t] \in Nat
  BY <1>1, <1>7, <1>8, <1>9
<1>11. CASE f[x] = 0
  <2>1. Covers(p, f, u, h, t)
    BY <1>5, <1>8 DEF Covers
  <2>2. g[u] <= e[t]
    BY <1>4, <1>9, <2>1
  <2> QED BY <1>5, <1>10, <1>11, <2>2
<1>12. CASE f[x] # 0
  <2>1. PICK z, v : z = p[x] /\ v = t \ {z}
    OBVIOUS
  <2>2. z \in t /\ f[x] <= h[z] /\ v \in SUBSET T
    BY <1>5, <1>7, <1>12, <2>1 DEF Covers
  <2>3. e[v] \in Nat /\ h[z] \in Nat /\ e[t] = h[z] + e[v]
    BY <1>1, <2>1, <2>2
  <2>4. Covers(p, f, u, h, v)
    BY <1>5, <1>7, <1>8, <1>12, <2>1 DEF Covers
  <2>5. g[u] <= e[v]
    BY <1>4, <1>9, <2>2, <2>4
  <2> QED BY <1>5, <1>10, <2>2, <2>3, <2>5
<1> QED BY <1>11, <1>12

(* The sum of f is at most that of h. *)
LEMMA SumCovered ==
  ASSUME NEW S, IsFiniteSet(S), NEW f \in [S -> Nat], NEW T, IsFiniteSet(T), NEW h \in [T -> Nat],
         NEW p, Covers(p, f, S, h, T)
  PROVE  SumFunction(f) \in Nat /\ SumFunction(h) \in Nat /\ SumFunction(f) <= SumFunction(h)
<1>1. PICK g : Additive(g, f, S) /\ SumFunction(f) = g[S]
  BY SumAdditive
<1>2. PICK e : Additive(e, h, T) /\ SumFunction(h) = e[T]
  BY SumAdditive
<1>3. g[S] <= e[T]
  BY <1>1, <1>2, CoveredSum
<1>4. g[S] \in Nat /\ e[T] \in Nat
  BY <1>1, <1>2 DEF Additive
<1> QED BY <1>1, <1>2, <1>3, <1>4

(* A sum is a natural number, and that of the empty function is 0. *)
LEMMA SumType ==
  ASSUME NEW S, IsFiniteSet(S), NEW f \in [S -> Nat]
  PROVE  SumFunction(f) \in Nat /\ (S = {} => SumFunction(f) = 0)
<1>1. PICK g : Additive(g, f, S) /\ SumFunction(f) = g[S]
  BY SumAdditive
<1> QED BY <1>1 DEF Additive

\* h is f and one element more.
OneMore(h, T, f, S, a) ==
    f \in [S -> Nat] /\ h \in [T -> Nat] /\ a \notin S /\ T = S \cup {a} /\ \A x \in S : h[x] = f[x]

(* One more element adds its own value. *)
LEMMA SumGrows ==
  ASSUME NEW S, IsFiniteSet(S), NEW f, NEW a, NEW T, NEW h, OneMore(h, T, f, S, a)
  PROVE  IsFiniteSet(T) /\ h[a] \in Nat /\ SumFunction(f) \in Nat /\ SumFunction(h) = SumFunction(f) + h[a]
<1>0. f \in [S -> Nat] /\ h \in [T -> Nat] /\ a \notin S /\ T = S \cup {a} /\ \A x \in S : h[x] = f[x]
  BY DEF OneMore
<1>1. IsFiniteSet(T) /\ h[a] \in Nat
  BY <1>0, FS_AddElement
<1>2. PICK g : Additive(g, f, S) /\ SumFunction(f) = g[S]
  BY <1>0, SumAdditive
<1>3. PICK e : Additive(e, h, T) /\ SumFunction(h) = e[T]
  BY <1>0, <1>1, SumAdditive
<1>4. S \in SUBSET T /\ T \in SUBSET T /\ T \ {a} = S /\ a \in T
  BY <1>0
<1>5. e[T] = h[a] + e[S]
  <2>1. \A s \in SUBSET T : \A x \in s : e[s] = h[x] + e[s \ {x}]
    BY <1>3 DEF Additive
  <2>2. e[T] = h[a] + e[T \ {a}]
    BY <1>4, <2>1
  <2> QED BY <1>4, <2>2
<1>6. PICK p : p = [x \in S |-> x]
  OBVIOUS
<1>7. \A x \in S : p[x] = x /\ f[x] \in Nat /\ f[x] <= h[x] /\ h[x] <= f[x]
  BY <1>0, <1>6
<1>8. Covers(p, f, S, h, S) /\ Covers(p, h, S, f, S)
  BY <1>7 DEF Covers
<1>9. g[S] <= e[S]
  BY <1>0, <1>2, <1>3, <1>4, <1>8, CoveredSum
<1>10. e[S] <= g[S]
  BY <1>0, <1>1, <1>2, <1>3, <1>4, <1>8, CoveredSum
<1>11. g[S] \in Nat /\ e[S] \in Nat
  BY <1>2, <1>3, <1>4 DEF Additive
<1> QED BY <1>1, <1>2, <1>3, <1>5, <1>9, <1>10, <1>11

----------------------------------------------------------------------------
(* The arena's own count of its bytes.                                        *)

\* What bytes_allocated() adds up over the chain C, what malloc gave for it, and what was
\* asked for.
Filled(C, blocks, a) ==
    [b \in C |-> IF b = a.head THEN a.current - blocks[b].data ELSE blocks[b].used]
BlockSizes(C, blocks) == [b \in C |-> blocks[b].size]
AllocSizes(A) == [l \in A |-> l.size]
AllocsOf(x) == {k \in allocs : k.arena = x}

\* Marks are within their blocks, and 0 behind the head: only a reset leaves blocks there.
MarksOK(C, blocks, a) ==
    \A b \in C : blocks[b].used \in 0 .. blocks[b].size /\ (b > a.head => blocks[b].used = 0)
BytesOK(C, blocks, a, A) ==
    /\ MarksOK(C, blocks, a)
    /\ SumFunction(BlockSizes(C, blocks)) <= a.total
    /\ SumFunction(AllocSizes(A)) <= SumFunction(Filled(C, blocks, a))
BytesInv == IsFiniteSet(allocs) /\ \A x \in ArenaIds : BytesOK(Owned(x), block, arena[x], AllocsOf(x))

\* What ArenaInv says of one arena.
OneArena(C, blocks, a, A) ==
    /\ C \in SUBSET BlockIds /\ blocks \in BlockTypes /\ A \in SUBSET AllocTypes /\ IsFiniteSet(A)
    /\ a.current \in Nat /\ a.total \in Nat /\ a.head \in Nat
    /\ a.head \in C => /\ blocks[a.head].data <= a.current
                       /\ a.current <= blocks[a.head].data + blocks[a.head].size

(* The summands are natural numbers, and what is filled of a block is at most its size. *)
LEMMA BytesTypes ==
  ASSUME NEW C, NEW blocks, NEW a, NEW A, OneArena(C, blocks, a, A), MarksOK(C, blocks, a)
  PROVE  /\ IsFiniteSet(C) /\ BlockSizes(C, blocks) \in [C -> Nat] /\ AllocSizes(A) \in [A -> Nat]
         /\ Filled(C, blocks, a) \in [C -> Nat]
         /\ \A b \in C : Filled(C, blocks, a)[b] <= BlockSizes(C, blocks)[b]
<1>1. C \in SUBSET BlockIds /\ blocks \in BlockTypes /\ A \in SUBSET AllocTypes /\ a.current \in Nat
  BY DEF OneArena
<1>2. IsFiniteSet(C)
  <2>1. IsFiniteSet(BlockIds)
    BY ArenaAssumption, FS_Interval DEF BlockIds
  <2> QED BY <1>1, <2>1, FS_Subset
<1>3. ASSUME NEW b \in C
      PROVE  /\ blocks[b].size \in Nat /\ Filled(C, blocks, a)[b] \in Nat
             /\ Filled(C, blocks, a)[b] <= blocks[b].size
  <2>1. blocks[b].size \in Nat /\ blocks[b].data \in Nat
    BY <1>1 DEF BlockTypes
  <2>2. CASE b = a.head
    <3>1. Filled(C, blocks, a)[b] = a.current - blocks[b].data
      BY <2>2 DEF Filled
    <3> QED BY <1>1, <2>1, <2>2, <3>1 DEF OneArena
  <2>3. CASE b # a.head
    <3>1. Filled(C, blocks, a)[b] = blocks[b].used
      BY <2>3 DEF Filled
    <3> QED BY <2>1, <3>1 DEF MarksOK
  <2> QED BY <2>2, <2>3
<1>4. Filled(C, blocks, a) \in [C -> Nat]
  <2>1. Filled(C, blocks, a) = [b \in C |-> Filled(C, blocks, a)[b]]
    BY DEF Filled
  <2> QED BY <1>3, <2>1
<1>5. BlockSizes(C, blocks) \in [C -> Nat] /\ \A b \in C : BlockSizes(C, blocks)[b] = blocks[b].size
  BY <1>3 DEF BlockSizes
<1>6. AllocSizes(A) \in [A -> Nat]
  BY <1>1 DEF AllocSizes, AllocTypes
<1> QED BY <1>2, <1>3, <1>4, <1>5, <1>6

(* An allocation more adds at most its size to what was asked for. *)
LEMMA AskedFor ==
  ASSUME NEW A \in SUBSET AllocTypes, IsFiniteSet(A), NEW l \in AllocTypes, NEW E, E = A \cup {l}
  PROVE  /\ SumFunction(AllocSizes(A)) \in Nat /\ SumFunction(AllocSizes(E)) \in Nat /\ IsFiniteSet(E)
         /\ SumFunction(AllocSizes(E)) <= SumFunction(AllocSizes(A)) + l.size
<1>1. l.size \in Nat /\ E \in SUBSET AllocTypes /\ IsFiniteSet(E)
  BY FS_AddElement DEF AllocTypes
<1>2. AllocSizes(A) \in [A -> Nat] /\ AllocSizes(E) \in [E -> Nat]
  BY <1>1 DEF AllocSizes, AllocTypes
<1>3. SumFunction(AllocSizes(A)) \in Nat /\ SumFunction(AllocSizes(E)) \in Nat
  BY <1>1, <1>2, SumType
<1>4. CASE l \in A
  <2>1. E = A
    BY <1>4
  <2>2. PICK m, n : m = SumFunction(AllocSizes(A)) /\ n = SumFunction(AllocSizes(E))
    OBVIOUS
  <2>3. m = n
    BY <2>1, <2>2, Zenon
  <2>4. m \in Nat
    BY <1>3, <2>2
  <2>5. n <= m + l.size
    BY <1>1, <2>3, <2>4
  <2> QED BY <1>1, <1>3, <2>2, <2>5
<1>5. CASE l \notin A
  <2>1. AllocSizes(E)[l] = l.size /\ \A k \in A : AllocSizes(E)[k] = AllocSizes(A)[k]
    BY DEF AllocSizes
  <2>2. SumFunction(AllocSizes(E)) = SumFunction(AllocSizes(A)) + AllocSizes(E)[l]
    <3>1. OneMore(AllocSizes(E), E, AllocSizes(A), A, l)
      BY <1>2, <1>5, <2>1 DEF OneMore
    <3> QED BY <3>1, SumGrows
  <2> QED BY <1>1, <1>3, <2>1, <2>2
<1> QED BY <1>1, <1>3, <1>4, <1>5

(* Without blocks and without allocations nothing is counted. *)
LEMMA NoBytes ==
  ASSUME NEW blocks, NEW a, a.total \in Nat
  PROVE  BytesOK({}, blocks, a, {})
<1>1. /\ BlockSizes({}, blocks) \in [{} -> Nat] /\ AllocSizes({}) \in [{} -> Nat]
      /\ Filled({}, blocks, a) \in [{} -> Nat]
  BY DEF BlockSizes, AllocSizes, Filled
<1>2. /\ SumFunction(BlockSizes({}, blocks)) = 0 /\ SumFunction(AllocSizes({})) = 0
      /\ SumFunction(Filled({}, blocks, a)) = 0
  BY <1>1, SumType, FS_EmptySet
<1> QED BY <1>2 DEF BytesOK, MarksOK

(* What an operation on another arena leaves alone. *)
LEMMA SameBytes ==
  ASSUME NEW C, NEW blocks, NEW a, NEW A, BytesOK(C, blocks, a, A), NEW new,
         \A b \in C : new[b].size = blocks[b].size /\ new[b].data = blocks[b].data /\ new[b].used = blocks[b].used
  PROVE  BytesOK(C, new, a, A)
<1>1. Filled(C, new, a) = Filled(C, blocks, a)
  BY DEF Filled
<1>2. BlockSizes(C, new) = BlockSizes(C, blocks)
  BY DEF BlockSizes
<1>3. MarksOK(C, new, a)
  BY DEF BytesOK, MarksOK
<1> QED BY <1>1, <1>2, <1>3 DEF BytesOK

(* The fast path: the head fills up by what is asked for and the gap before it. *)
LEMMA FastBytes ==
  ASSUME NEW C, NEW blocks, NEW a, NEW A, OneArena(C, blocks, a, A), BytesOK(C, blocks, a, A),
         NEW p \in Nat, NEW size \in Nat, NEW e, NEW E, OneArena(C, blocks, e, E),
         e.head = a.head, e.total = a.total, e.current = p + size, a.current <= p,
         a.head \notin C => size = 0,
         NEW l, size # 0 => l \in AllocTypes /\ l.size = size,
         E = A \cup (IF size = 0 THEN {} ELSE {l})
  PROVE  BytesOK(C, blocks, e, E)
<1>1. MarksOK(C, blocks, a) /\ MarksOK(C, blocks, e)
  BY DEF BytesOK, MarksOK
<1>2. /\ IsFiniteSet(C) /\ Filled(C, blocks, a) \in [C -> Nat] /\ Filled(C, blocks, e) \in [C -> Nat]
      /\ a.current \in Nat /\ A \in SUBSET AllocTypes /\ IsFiniteSet(A) /\ AllocSizes(A) \in [A -> Nat]
      /\ C \in SUBSET BlockIds /\ blocks \in BlockTypes
  BY <1>1, BytesTypes DEF OneArena
<1>3. SumFunction(AllocSizes(E)) <= SumFunction(AllocSizes(A)) + size
      /\ SumFunction(AllocSizes(A)) \in Nat /\ SumFunction(AllocSizes(E)) \in Nat
  <2>1. CASE size = 0
    <3>1. E = A
      BY <2>1
    <3>2. SumFunction(AllocSizes(A)) \in Nat
      BY <1>2, SumType
    <3> QED BY <2>1, <3>1, <3>2
  <2>2. CASE size # 0
    <3>1. l \in AllocTypes /\ l.size = size /\ E = A \cup {l}
      BY <2>2
    <3> QED BY <1>2, <3>1, AskedFor
  <2> QED BY <2>1, <2>2
<1>4. /\ SumFunction(Filled(C, blocks, a)) \in Nat /\ SumFunction(Filled(C, blocks, e)) \in Nat
      /\ SumFunction(Filled(C, blocks, a)) + size <= SumFunction(Filled(C, blocks, e))
  <2>0. PICK h, f, g : h = a.head /\ f = Filled(C, blocks, a) /\ g = Filled(C, blocks, e)
    OBVIOUS
  <2>1. CASE h \notin C
    <3>1. f = g /\ size = 0
      BY <2>0, <2>1 DEF Filled
    <3>2. SumFunction(f) \in Nat
      BY <1>2, <2>0, SumType
    <3> QED BY <2>0, <3>1, <3>2
  <2>2. CASE h \in C
    <3>1. PICK D, r : D = C \ {h} /\ r = [b \in D |-> f[b]]
      OBVIOUS
    <3>2. /\ IsFiniteSet(D) /\ h \notin D /\ C = D \cup {h} /\ r \in [D -> Nat]
          /\ f \in [C -> Nat] /\ g \in [C -> Nat]
      <4>1. IsFiniteSet(D)
        BY <1>2, <3>1, FS_RemoveElement
      <4> QED BY <1>2, <2>0, <2>2, <3>1, <4>1
    <3>3. \A b \in D : f[b] = r[b] /\ g[b] = r[b]
      <4> SUFFICES ASSUME NEW b \in D PROVE f[b] = r[b] /\ g[b] = r[b]
        OBVIOUS
      <4>1. b \in C /\ b # a.head /\ b # e.head /\ r[b] = f[b]
        BY <2>0, <3>1
      <4> QED BY <2>0, <4>1 DEF Filled
    <3>9. OneMore(f, C, r, D, h) /\ OneMore(g, C, r, D, h)
      BY <3>2, <3>3 DEF OneMore
    <3>4. SumFunction(f) = SumFunction(r) + f[h] /\ SumFunction(r) \in Nat /\ f[h] \in Nat
      BY <3>2, <3>9, SumGrows
    <3>5. SumFunction(g) = SumFunction(r) + g[h] /\ g[h] \in Nat
      BY <3>2, <3>9, SumGrows
    <3>6. f[h] = a.current - blocks[h].data /\ g[h] = (p + size) - blocks[h].data /\ blocks[h].data \in Nat
      BY <1>2, <2>0, <2>2 DEF Filled, BlockTypes
    <3>7. f[h] + size <= g[h]
      BY <1>2, <3>6
    <3>8. SumFunction(f) \in Nat /\ SumFunction(g) \in Nat /\ SumFunction(f) + size <= SumFunction(g)
      BY <3>4, <3>5, <3>7
    <3> QED BY <2>0, <3>8
  <2> QED BY <2>1, <2>2
<1>5. SumFunction(AllocSizes(A)) <= SumFunction(Filled(C, blocks, a))
        /\ SumFunction(BlockSizes(C, blocks)) <= e.total
  BY DEF BytesOK
<1>6. SumFunction(AllocSizes(E)) <= SumFunction(Filled(C, blocks, e))
  BY <1>3, <1>4, <1>5
<1> QED BY <1>1, <1>5, <1>6 DEF BytesOK

(* The slow path: the new block counts from its first byte on; the blocks that are cut *)
(* off were empty, so that nothing asked for is missed.                               *)
LEMMA SlowBytes ==
  ASSUME NEW C, NEW blocks, NEW a, NEW A, OneArena(C, blocks, a, A), BytesOK(C, blocks, a, A),
         NEW b \in BlockIds, NEW n \in Nat, NEW data \in Nat, NEW p \in Nat, NEW size \in Nat,
         data <= p, b > a.head, b \notin C,
         NEW new, NEW e, NEW E, NEW D, D = {c \in C : c <= a.head} \cup {b}, OneArena(D, new, e, E),
         e.head = b, e.current = p + size, e.total = a.total + n,
         new[b].data = data, new[b].size = n, new[b].used = 0,
         \A c \in C : /\ new[c].size = blocks[c].size /\ new[c].data = blocks[c].data
                      /\ new[c].used = IF c = a.head THEN a.current - blocks[c].data ELSE blocks[c].used,
         NEW l, size # 0 => l \in AllocTypes /\ l.size = size,
         E = A \cup (IF size = 0 THEN {} ELSE {l})
  PROVE  BytesOK(D, new, e, E)
<1>1. /\ MarksOK(C, blocks, a) /\ SumFunction(BlockSizes(C, blocks)) <= a.total
      /\ SumFunction(AllocSizes(A)) <= SumFunction(Filled(C, blocks, a))
  BY DEF BytesOK
<1>2. /\ C \in SUBSET BlockIds /\ BlockIds \in SUBSET Nat /\ blocks \in BlockTypes
      /\ a.current \in Nat /\ a.total \in Nat /\ a.head \in Nat /\ A \in SUBSET AllocTypes /\ IsFiniteSet(A)
  BY ArenaAssumption DEF OneArena, BlockIds
<1>3. PICK K, f, s : /\ K = {c \in C : c <= a.head} /\ f = Filled(C, blocks, a)
                     /\ s = BlockSizes(C, blocks)
  OBVIOUS
<1>4. /\ IsFiniteSet(C) /\ f \in [C -> Nat] /\ s \in [C -> Nat] /\ \A c \in C : f[c] <= s[c]
      /\ AllocSizes(A) \in [A -> Nat]
  BY <1>1, <1>3, BytesTypes
<1>5. K \in SUBSET C /\ IsFiniteSet(K) /\ D = K \cup {b} /\ b \notin K
  <2>1. K \in SUBSET C /\ D = K \cup {b} /\ b \notin K
    BY <1>3
  <2> QED BY <1>4, <2>1, FS_Subset
<1>6. \A c \in C : new[c].used = f[c] \/ (c # a.head /\ new[c].used = blocks[c].used)
  BY <1>3 DEF Filled
<1>7. \A c \in K : new[c].used = f[c] /\ new[c].size = s[c] /\ c # b /\ c \in C /\ c < b
  <2> SUFFICES ASSUME NEW c \in K
               PROVE  new[c].used = f[c] /\ new[c].size = s[c] /\ c # b /\ c \in C /\ c < b
    OBVIOUS
  <2>1. c \in C /\ c <= a.head /\ c \in Nat /\ b \in Nat
    BY <1>2, <1>3
  <2>2. new[c].used = f[c] /\ new[c].size = s[c]
    BY <1>3, <2>1 DEF Filled, BlockSizes
  <2> QED BY <1>2, <2>1, <2>2
<1>8. MarksOK(D, new, e)
  <2> SUFFICES ASSUME NEW c \in D
               PROVE  new[c].used \in 0 .. new[c].size /\ (c > e.head => new[c].used = 0)
    BY DEF MarksOK
  <2>1. CASE c = b
    BY <2>1
  <2>2. CASE c \in K
    <3>1. /\ new[c].used = f[c] /\ new[c].size = s[c] /\ f[c] \in Nat /\ s[c] \in Nat /\ f[c] <= s[c]
          /\ c \in Nat /\ b \in Nat /\ c < b
      BY <1>2, <1>4, <1>7, <2>2
    <3> QED BY <3>1
  <2> QED BY <1>5, <2>1, <2>2
<1>9. PICK F, S, f0, s0 : /\ F = Filled(D, new, e) /\ S = BlockSizes(D, new)
                          /\ f0 = [c \in K |-> f[c]] /\ s0 = [c \in K |-> s[c]]
  OBVIOUS
<1>10. F \in [D -> Nat] /\ S \in [D -> Nat]
  BY <1>8, <1>9, BytesTypes
<1>11. f0 \in [K -> Nat] /\ s0 \in [K -> Nat] /\ \A c \in K : f0[c] = f[c] /\ s0[c] = s[c]
  BY <1>4, <1>5, <1>9
<1>12. \A c \in K : F[c] = f0[c] /\ S[c] = s0[c]
  <2> SUFFICES ASSUME NEW c \in K PROVE F[c] = f0[c] /\ S[c] = s0[c]
    OBVIOUS
  <2>1. c \in D /\ c # e.head
    BY <1>5, <1>7
  <2>2. F[c] = new[c].used /\ S[c] = new[c].size
    BY <1>9, <2>1 DEF Filled, BlockSizes
  <2> QED BY <1>7, <1>11, <2>2
<1>13. F[b] = (p + size) - data /\ S[b] = n
  BY <1>5, <1>9 DEF Filled, BlockSizes
<1>14. OneMore(F, D, f0, K, b) /\ OneMore(S, D, s0, K, b)
  BY <1>5, <1>10, <1>11, <1>12 DEF OneMore
<1>15. SumFunction(F) = SumFunction(f0) + F[b] /\ SumFunction(f0) \in Nat
  BY <1>5, <1>14, SumGrows
<1>16. SumFunction(S) = SumFunction(s0) + S[b] /\ SumFunction(s0) \in Nat
  BY <1>5, <1>14, SumGrows
<1>17. PICK id : id = [c \in C |-> c]
  OBVIOUS
<1>18. SumFunction(s0) <= SumFunction(s) /\ SumFunction(s) \in Nat
  <2>1. Covers(id, s0, K, s, C)
    BY <1>4, <1>5, <1>11, <1>17 DEF Covers
  <2> QED BY <1>4, <1>5, <1>11, <2>1, SumCovered
<1>19. SumFunction(f) <= SumFunction(f0) /\ SumFunction(f) \in Nat
  <2>1. ASSUME NEW c \in C, f[c] # 0 PROVE c \in K
    <3>1. CASE c = a.head
      BY <1>2, <1>3, <3>1
    <3>2. CASE c # a.head
      <4>1. blocks[c].used # 0
        BY <1>3, <2>1, <3>2 DEF Filled
      <4>2. ~(c > a.head) /\ c \in Nat
        BY <1>1, <1>2, <4>1 DEF MarksOK
      <4> QED BY <1>2, <1>3, <4>2
    <3> QED BY <3>1, <3>2
  <2>2. Covers(id, f, C, f0, K)
    <3>1. \A c \in C : id[c] = c /\ f[c] \in Nat
      BY <1>4, <1>17
    <3> QED BY <1>11, <2>1, <3>1 DEF Covers
  <2> QED BY <1>4, <1>5, <1>11, <2>2, SumCovered
<1>20. /\ SumFunction(AllocSizes(E)) <= SumFunction(AllocSizes(A)) + size
       /\ SumFunction(AllocSizes(A)) \in Nat /\ SumFunction(AllocSizes(E)) \in Nat
  <2>1. CASE size = 0
    <3>1. E = A
      BY <2>1
    <3>2. SumFunction(AllocSizes(A)) \in Nat
      BY <1>2, <1>4, SumType
    <3> QED BY <2>1, <3>1, <3>2
  <2>2. CASE size # 0
    <3>1. l \in AllocTypes /\ l.size = size /\ E = A \cup {l}
      BY <2>2
    <3> QED BY <1>2, <3>1, AskedFor
  <2> QED BY <2>1, <2>2
<1>21. SumFunction(S) <= e.total
  <2>1. SumFunction(s) <= a.total
    BY <1>1, <1>3
  <2> QED BY <1>2, <1>13, <1>16, <1>18, <2>1
<1>22. SumFunction(AllocSizes(E)) <= SumFunction(F)
  <2>1. SumFunction(AllocSizes(A)) <= SumFunction(f)
    BY <1>1, <1>3
  <2>2. F[b] \in Nat /\ size <= F[b]
    BY <1>13
  <2> QED BY <1>15, <1>19, <1>20, <2>1, <2>2
<1> QED BY <1>8, <1>9, <1>21, <1>22 DEF BytesOK

(* reset: every mark is 0, the head is empty, and nothing that was asked for remains. *)
LEMMA ResetBytes ==
  ASSUME NEW C, NEW blocks, NEW a, NEW A, OneArena(C, blocks, a, A), BytesOK(C, blocks, a, A),
         NEW new, NEW e, OneArena(C, new, e, {}), e.total = a.total,
         \A c \in C : new[c].size = blocks[c].size /\ new[c].used = 0
  PROVE  BytesOK(C, new, e, {})
<1>1. BlockSizes(C, new) = BlockSizes(C, blocks)
  BY DEF BlockSizes
<1>2. MarksOK(C, new, e)
  BY DEF MarksOK, OneArena, BlockTypes
<1>3. IsFiniteSet(C) /\ Filled(C, new, e) \in [C -> Nat] /\ AllocSizes({}) \in [{} -> Nat]
  BY <1>2, BytesTypes
<1>4. SumFunction(Filled(C, new, e)) \in Nat
  BY <1>3, SumType
<1>5. SumFunction(AllocSizes({})) = 0
  BY <1>3, SumType, FS_EmptySet
<1> QED BY <1>1, <1>2, <1>4, <1>5 DEF BytesOK

(* A move: the allocations go over to the other arena, with their sizes. *)
LEMMA MoveBytes ==
  ASSUME NEW C, NEW blocks, NEW a, NEW A, OneArena(C, blocks, a, A), BytesOK(C, blocks, a, A),
         NEW x \in ArenaIds, NEW y \in ArenaIds, \A l \in A : l.arena = y,
         NEW E, E = {[l EXCEPT !.arena = x] : l \in A}
  PROVE  BytesOK(C, blocks, a, E) /\ IsFiniteSet(E)
<1>1. /\ MarksOK(C, blocks, a) /\ SumFunction(BlockSizes(C, blocks)) <= a.total
      /\ SumFunction(AllocSizes(A)) <= SumFunction(Filled(C, blocks, a))
      /\ A \in SUBSET AllocTypes /\ IsFiniteSet(A)
  BY DEF BytesOK, OneArena
<1>2. PICK back : back = [m \in E |-> [m EXCEPT !.arena = y]]
  OBVIOUS
<1>3. ASSUME NEW m \in E
      PROVE  m \in AllocTypes /\ back[m] \in A /\ back[m].size = m.size /\ m = [back[m] EXCEPT !.arena = x]
  <2>1. PICK l \in A : m = [l EXCEPT !.arena = x]
    BY <1>3
  <2>2. l \in AllocTypes /\ l.arena = y
    BY <1>1
  <2>3. m \in AllocTypes /\ m.size = l.size
    BY <2>1, <2>2 DEF AllocTypes
  <2>4. [m EXCEPT !.arena = y] = l
    BY <2>1, <2>2 DEF AllocTypes
  <2>5. back[m] = l
    BY <1>2, <2>4
  <2> QED BY <2>1, <2>3, <2>5
<1>4. back \in Injection(E, A)
  <2>1. back \in [E -> A]
    BY <1>2, <1>3
  <2>2. \A m, k \in E : back[m] = back[k] => m = k
    BY <1>3
  <2> QED BY <2>1, <2>2 DEF Injection, IsInjective
<1>5. IsFiniteSet(E)
  BY <1>1, <1>4, FS_Injection
<1>6. AllocSizes(E) \in [E -> Nat] /\ AllocSizes(A) \in [A -> Nat]
  <2>1. \A m \in E : m.size \in Nat
    BY <1>3 DEF AllocTypes
  <2>2. \A l \in A : l.size \in Nat
    BY <1>1 DEF AllocTypes
  <2> QED BY <2>1, <2>2 DEF AllocSizes
<1>7. Covers(back, AllocSizes(E), E, AllocSizes(A), A)
  <2>1. ASSUME NEW m \in E PROVE AllocSizes(E)[m] <= AllocSizes(A)[back[m]] /\ back[m] \in A
    <3>1. AllocSizes(E)[m] = m.size /\ AllocSizes(A)[back[m]] = m.size /\ back[m] \in A /\ m.size \in Nat
      BY <1>3, <1>6 DEF AllocSizes, AllocTypes
    <3> QED BY <3>1
  <2>2. \A m, k \in E : back[m] = back[k] => m = k
    BY <1>3
  <2> QED BY <2>1, <2>2 DEF Covers
<1>8. /\ SumFunction(AllocSizes(E)) <= SumFunction(AllocSizes(A))
      /\ SumFunction(AllocSizes(E)) \in Nat /\ SumFunction(AllocSizes(A)) \in Nat
  BY <1>1, <1>5, <1>6, <1>7, SumCovered
<1>9. SumFunction(Filled(C, blocks, a)) \in Nat
  <2>1. IsFiniteSet(C) /\ Filled(C, blocks, a) \in [C -> Nat]
    BY <1>1, BytesTypes
  <2> QED BY <2>1, SumType
<1>10. SumFunction(AllocSizes(E)) <= SumFunction(Filled(C, blocks, a))
  BY <1>1, <1>8, <1>9
<1> QED BY <1>1, <1>5, <1>10 DEF BytesOK

(* What the invariant says of one arena, in any state. *)
LEMMA OneArenaIs ==
  ASSUME NEW blocks \in BlockTypes, NextUp(blocks), NEW A \in SUBSET AllocTypes, IsFiniteSet(A),
         NEW a \in [alive : BOOLEAN, current : Nat, end : Nat, head : 0 .. ArenaBlocks,
                    first : 0 .. ArenaBlocks, total : Nat],
         NEW C, C = ChainIn(blocks, a.first),
         a.first # 0 => /\ blocks[a.head].data <= a.current /\ a.current <= a.end
                        /\ a.end = blocks[a.head].data + blocks[a.head].size
  PROVE  OneArena(C, blocks, a, A)
<1>1. a.first \in 0 .. ArenaBlocks /\ a.current \in Nat /\ a.total \in Nat /\ a.head \in Nat
  BY ArenaAssumption
<1>2. IsChain(blocks, a.first, C)
  BY <1>1, ChainIs
<1>3. C \in SUBSET BlockIds /\ (a.first = 0 => C = {})
  BY <1>2 DEF IsChain
<1>4. a.head \in C => /\ blocks[a.head].data <= a.current
                      /\ a.current <= blocks[a.head].data + blocks[a.head].size
  BY <1>3
<1> QED BY <1>1, <1>3, <1>4 DEF OneArena

(* The same, of the state before a step and of the one after it. *)
LEMMA ArenaIsOne ==
  ASSUME ArenaInv, IsFiniteSet(allocs), NEW x \in ArenaIds
  PROVE  OneArena(Owned(x), block, arena[x], AllocsOf(x))
<1>1. PICK blocks, a, C, A : blocks = block /\ a = arena[x] /\ C = Owned(x) /\ A = AllocsOf(x)
  OBVIOUS
<1>2. /\ blocks \in BlockTypes /\ NextUp(blocks) /\ A \in SUBSET AllocTypes
      /\ a \in [alive : BOOLEAN, current : Nat, end : Nat, head : 0 .. ArenaBlocks,
                first : 0 .. ArenaBlocks, total : Nat]
  BY <1>1 DEF ArenaInv, ArenaTypes, AllocsOf
<1>3. IsFiniteSet(A)
  <2>1. A \in SUBSET allocs
    BY <1>1 DEF AllocsOf
  <2> QED BY <2>1, FS_Subset
<1>4. C = ChainIn(blocks, a.first)
  BY <1>1 DEF Owned, Chain
<1>5. a.first # 0 => /\ blocks[a.head].data <= a.current /\ a.current <= a.end
                     /\ a.end = blocks[a.head].data + blocks[a.head].size
  BY <1>1 DEF ArenaInv, HeadOK
<1>6. OneArena(C, blocks, a, A)
  BY <1>2, <1>3, <1>4, <1>5, OneArenaIs
<1> QED BY <1>1, <1>6

(* The same after the step. *)
LEMMA ArenaIsOneNext ==
  ASSUME ArenaInv', IsFiniteSet(allocs'), NEW x \in ArenaIds
  PROVE  OneArena(Owned(x)', block', arena'[x], AllocsOf(x)')
<1>1. PICK blocks, a, C, A : blocks = block' /\ a = arena'[x] /\ C = Owned(x)' /\ A = AllocsOf(x)'
  OBVIOUS
<1>2. /\ blocks \in BlockTypes /\ NextUp(blocks) /\ A \in SUBSET AllocTypes
      /\ a \in [alive : BOOLEAN, current : Nat, end : Nat, head : 0 .. ArenaBlocks,
                first : 0 .. ArenaBlocks, total : Nat]
  BY <1>1 DEF ArenaInv, ArenaTypes, AllocsOf
<1>3. IsFiniteSet(A)
  <2>1. A \in SUBSET allocs'
    BY <1>1 DEF AllocsOf
  <2> QED BY <2>1, FS_Subset
<1>4. C = ChainIn(blocks, a.first)
  BY <1>1 DEF Owned, Chain
<1>5. a.first # 0 => /\ blocks[a.head].data <= a.current /\ a.current <= a.end
                     /\ a.end = blocks[a.head].data + blocks[a.head].size
  BY <1>1 DEF ArenaInv, HeadOK
<1>6. OneArena(C, blocks, a, A)
  BY <1>2, <1>3, <1>4, <1>5, OneArenaIs
<1> QED BY <1>1, <1>6

(* An arena that a step leaves alone. *)
LEMMA OtherBytes ==
  ASSUME BytesInv, NEW y \in ArenaIds, Owned(y)' = Owned(y), arena'[y] = arena[y],
         AllocsOf(y)' = AllocsOf(y),
         \A c \in Owned(y) : /\ block'[c].size = block[c].size /\ block'[c].data = block[c].data
                             /\ block'[c].used = block[c].used
  PROVE  BytesOK(Owned(y), block, arena[y], AllocsOf(y))'
<1>1. PICK C, blocks, a, A, new : /\ C = Owned(y) /\ blocks = block /\ a = arena[y] /\ A = AllocsOf(y)
                                  /\ new = block'
  OBVIOUS
<1>2. BytesOK(C, blocks, a, A)
  BY <1>1 DEF BytesInv
<1>3. BytesOK(C, new, a, A)
  BY <1>1, <1>2, SameBytes
<1> QED BY <1>1, <1>3

(* What an allocation does to the sets of allocations. *)
LEMMA HandedOut ==
  ASSUME IsFiniteSet(allocs), NEW x \in ArenaIds, NEW size, NEW l, l.arena = x,
         allocs' = allocs \cup (IF size = 0 THEN {} ELSE {l})
  PROVE  /\ IsFiniteSet(allocs') /\ AllocsOf(x)' = AllocsOf(x) \cup (IF size = 0 THEN {} ELSE {l})
         /\ \A y \in ArenaIds : y # x => AllocsOf(y)' = AllocsOf(y)
<1>1. IsFiniteSet(allocs')
  BY FS_AddElement
<1>2. AllocsOf(x)' = AllocsOf(x) \cup (IF size = 0 THEN {} ELSE {l})
  BY DEF AllocsOf
<1>3. \A y \in ArenaIds : y # x => AllocsOf(y)' = AllocsOf(y)
  BY DEF AllocsOf
<1> QED BY <1>1, <1>2, <1>3

(* allocate_slow keeps the count (arena.cpp:120-148). *)
LEMMA SlowCounts ==
  ASSUME ArenaInv, BytesInv, ArenaInv', NEW x \in ArenaIds, NEW size \in ArenaSizes,
         NEW al \in Alignments, SlowStep(x, size, al)
  PROVE  BytesInv'
<1>1. size \in Nat /\ al \in Nat \ {0} /\ IsFiniteSet(allocs)
  BY ArenaAssumption DEF BytesInv
<1>2. PICK b \in BlockIds, n \in Nat, data \in Nat, p \in Nat :
        /\ data <= p /\ b > arena[x].head /\ \A y \in ArenaIds : b \notin Owned(y)
        /\ arena'[x].head = b /\ arena'[x].current = p + size /\ arena'[x].total = arena[x].total + n
        /\ \A y \in ArenaIds : y # x => arena'[y] = arena[y] /\ Owned(y)' = Owned(y)
        /\ Owned(x)' = {c \in Owned(x) : c <= arena[x].head} \cup {b}
        /\ block'[b].data = data /\ block'[b].size = n /\ block'[b].used = 0
        /\ \A c \in BlockIds : c # b =>
              /\ block'[c].size = block[c].size /\ block'[c].data = block[c].data
              /\ block'[c].used = IF c = arena[x].head THEN arena[x].current - block[c].data
                                  ELSE block[c].used
        /\ allocs' = allocs \cup (IF size = 0 THEN {}
                                  ELSE {[arena |-> x, addr |-> p, size |-> size, align |-> al]})
  BY DEF SlowStep
<1>3. PICK l : l = [arena |-> x, addr |-> p, size |-> size, align |-> al]
  OBVIOUS
<1>4. l.arena = x /\ (size # 0 => l \in AllocTypes /\ l.size = size)
  BY <1>1, <1>3 DEF AllocTypes
<1>5. allocs' = allocs \cup (IF size = 0 THEN {} ELSE {l})
  BY <1>2, <1>3
<1>6. /\ IsFiniteSet(allocs') /\ AllocsOf(x)' = AllocsOf(x) \cup (IF size = 0 THEN {} ELSE {l})
      /\ \A y \in ArenaIds : y # x => AllocsOf(y)' = AllocsOf(y)
  BY <1>1, <1>4, <1>5, HandedOut
<1>7. BytesOK(Owned(x), block, arena[x], AllocsOf(x))'
  <2>1. PICK C, blocks, a, A, D, new, e, E :
          /\ C = Owned(x) /\ blocks = block /\ a = arena[x] /\ A = AllocsOf(x)
          /\ D = Owned(x)' /\ new = block' /\ e = arena'[x] /\ E = AllocsOf(x)'
    OBVIOUS
  <2>2. OneArena(C, blocks, a, A) /\ OneArena(D, new, e, E) /\ BytesOK(C, blocks, a, A)
    BY <1>1, <1>6, <2>1, ArenaIsOne, ArenaIsOneNext DEF BytesInv
  <2>3. /\ b > a.head /\ b \notin C /\ D = {c \in C : c <= a.head} \cup {b}
        /\ e.head = b /\ e.current = p + size /\ e.total = a.total + n
        /\ new[b].data = data /\ new[b].size = n /\ new[b].used = 0
        /\ E = A \cup (IF size = 0 THEN {} ELSE {l})
    BY <1>2, <1>6, <2>1
  <2>4. \A c \in C : /\ new[c].size = blocks[c].size /\ new[c].data = blocks[c].data
                     /\ new[c].used = IF c = a.head THEN a.current - blocks[c].data ELSE blocks[c].used
    <3>1. \A c \in C : c \in BlockIds /\ c # b
      BY <2>2, <2>3 DEF OneArena
    <3> QED BY <1>2, <2>1, <3>1
  <2>6. data <= p
    BY <1>2
  <2>5. BytesOK(D, new, e, E)
    BY <1>1, <1>4, <2>2, <2>3, <2>4, <2>6, SlowBytes
  <2> QED BY <2>1, <2>5
<1>8. ASSUME NEW y \in ArenaIds, y # x PROVE BytesOK(Owned(y), block, arena[y], AllocsOf(y))'
  <2>1. \A c \in Owned(y) : /\ block'[c].size = block[c].size /\ block'[c].data = block[c].data
                            /\ block'[c].used = block[c].used
    <3> SUFFICES ASSUME NEW c \in Owned(y)
                 PROVE  /\ block'[c].size = block[c].size /\ block'[c].data = block[c].data
                        /\ block'[c].used = block[c].used
      OBVIOUS
    <3>1. c \in BlockIds /\ c # b
      BY <1>2, OwnedFacts
    <3>2. c # arena[x].head
      <4>1. c \notin Owned(x)
        BY <1>8 DEF ArenaInv, Ownership
      <4>2. HeadOK(x) /\ c # 0
        BY <3>1 DEF ArenaInv, BlockIds
      <4> QED BY <4>1, <4>2 DEF HeadOK
    <3> QED BY <1>2, <3>1, <3>2
  <2> QED BY <1>2, <1>6, <1>8, <2>1, OtherBytes
<1>9. \A y \in ArenaIds : BytesOK(Owned(y), block, arena[y], AllocsOf(y))'
  BY <1>7, <1>8
<1> QED BY <1>6, <1>9 DEF BytesInv

(* So does the fast path of allocate (arena.cpp:74-90). *)
LEMMA FastCounts ==
  ASSUME ArenaInv, BytesInv, ArenaInv', NEW x \in ArenaIds, NEW size \in ArenaSizes, NEW al \in Alignments,
         AlignUp(arena[x].current, al) + size <= arena[x].end,
         arena' = [arena EXCEPT ![x].current = AlignUp(arena[x].current, al) + size],
         HandOut(x, AlignUp(arena[x].current, al), size, al), block' = block
  PROVE  BytesInv'
<1>1. size \in Nat /\ al \in Nat \ {0} /\ IsFiniteSet(allocs) /\ arena[x].current \in Nat
  BY ArenaAssumption, OwnedFacts DEF BytesInv
<1>2. PICK p : p = AlignUp(arena[x].current, al)
  OBVIOUS
<1>3. p \in Nat /\ p >= arena[x].current
  BY <1>1, <1>2, AlignFacts
<1>4. /\ arena'[x].head = arena[x].head /\ arena'[x].total = arena[x].total
      /\ arena'[x].current = p + size /\ arena'[x].first = arena[x].first
      /\ \A y \in ArenaIds : y # x => arena'[y] = arena[y]
  BY <1>2 DEF ArenaInv, ArenaTypes
<1>5. \A y \in ArenaIds : Owned(y)' = Owned(y)
  <2>1. \A y \in ArenaIds : arena'[y].first = arena[y].first
    BY <1>4
  <2> QED BY <2>1 DEF Owned, Chain
<1>6. PICK l : l = [arena |-> x, addr |-> p, size |-> size, align |-> al]
  OBVIOUS
<1>7. l.arena = x /\ (size # 0 => l \in AllocTypes /\ l.size = size)
  BY <1>1, <1>3, <1>6 DEF AllocTypes
<1>8. allocs' = allocs \cup (IF size = 0 THEN {} ELSE {l})
  BY <1>2, <1>6 DEF HandOut
<1>9. /\ IsFiniteSet(allocs') /\ AllocsOf(x)' = AllocsOf(x) \cup (IF size = 0 THEN {} ELSE {l})
      /\ \A y \in ArenaIds : y # x => AllocsOf(y)' = AllocsOf(y)
  BY <1>1, <1>7, <1>8, HandedOut
<1>10. BytesOK(Owned(x), block, arena[x], AllocsOf(x))'
  <2>1. PICK C, blocks, a, A, e, E :
          /\ C = Owned(x) /\ blocks = block /\ a = arena[x] /\ A = AllocsOf(x)
          /\ e = arena'[x] /\ E = AllocsOf(x)'
    OBVIOUS
  <2>2. OneArena(C, blocks, a, A) /\ BytesOK(C, blocks, a, A)
    BY <1>1, <2>1, ArenaIsOne DEF BytesInv
  <2>3. OneArena(C, blocks, e, E)
    <3>1. OneArena(Owned(x)', block', arena'[x], AllocsOf(x)')
      BY <1>9, ArenaIsOneNext
    <3> QED BY <1>5, <2>1, <3>1
  <2>4. a.head \notin C => size = 0
    <3> SUFFICES ASSUME a.head \notin C PROVE size = 0
      OBVIOUS
    <3>1. arena[x].first = 0 /\ arena[x].end = 0
      BY <2>1 DEF ArenaInv, HeadOK
    <3> QED BY <1>1, <1>2, <1>3, <3>1
  <2>5. /\ e.head = a.head /\ e.total = a.total /\ e.current = p + size /\ a.current <= p
        /\ E = A \cup (IF size = 0 THEN {} ELSE {l})
    BY <1>1, <1>3, <1>4, <1>9, <2>1
  <2>6. BytesOK(C, blocks, e, E)
    BY <1>1, <1>3, <1>7, <2>2, <2>3, <2>4, <2>5, FastBytes
  <2> QED BY <1>5, <2>1, <2>6
<1>11. ASSUME NEW y \in ArenaIds, y # x PROVE BytesOK(Owned(y), block, arena[y], AllocsOf(y))'
  BY <1>4, <1>5, <1>9, <1>11, OtherBytes
<1>12. \A y \in ArenaIds : BytesOK(Owned(y), block, arena[y], AllocsOf(y))'
  BY <1>10, <1>11
<1> QED BY <1>9, <1>12 DEF BytesInv

(* reset keeps the count: it starts again from nothing (arena.cpp:170-184). *)
LEMMA ResetCounts ==
  ASSUME ArenaInv, BytesInv, ArenaInv', NEW x \in ArenaIds, ArenaReset(x)
  PROVE  BytesInv'
<1>1. IsFiniteSet(allocs) /\ allocs' = {l \in allocs : l.arena # x} /\ block \in BlockTypes
  BY DEF BytesInv, ArenaReset, ArenaInv, ArenaTypes
<1>2. /\ IsFiniteSet(allocs') /\ AllocsOf(x)' = {}
      /\ \A y \in ArenaIds : y # x => AllocsOf(y)' = AllocsOf(y)
  <2>1. IsFiniteSet(allocs')
    BY <1>1, FS_Subset
  <2> QED BY <1>1, <2>1 DEF AllocsOf
<1>3. PICK f : f = arena[x].first
  OBVIOUS
<1>4. \A c \in BlockIds : /\ block'[c].next = block[c].next /\ block'[c].size = block[c].size
                          /\ block'[c].data = block[c].data
                          /\ c \in Owned(x) => block'[c].used = 0
                          /\ c \notin Owned(x) => block'[c].used = block[c].used
  <2> DEFINE b1(c) == IF c \in Owned(x) THEN [block[c] EXCEPT !.used = 0] ELSE block[c]
  <2>1. block' = [c \in BlockIds |-> b1(c)]
    BY <1>1 DEF ArenaReset, Owned, BlockTypes
  <2>2. ASSUME NEW c \in BlockIds
        PROVE  /\ b1(c).next = block[c].next /\ b1(c).size = block[c].size /\ b1(c).data = block[c].data
               /\ c \in Owned(x) => b1(c).used = 0
               /\ c \notin Owned(x) => b1(c).used = block[c].used
    <3>1. block[c] \in [life : {"unused", "live", "freed"}, next : 0 .. ArenaBlocks,
                        size : Nat, used : Int, data : Nat]
      BY <1>1 DEF BlockTypes
    <3> QED BY <3>1
  <2> HIDE DEF b1
  <2>3. \A c \in BlockIds : block'[c] = b1(c)
    BY <2>1
  <2> QED BY <2>2, <2>3
<1>5. /\ arena'[x].total = arena[x].total /\ arena'[x].first = arena[x].first
      /\ \A y \in ArenaIds : y # x => arena'[y] = arena[y]
  <2>1. PICK d, e : d = block[f].data /\ e = block[f].data + block[f].size
    OBVIOUS
  <2>2. arena' = [arena EXCEPT ![x] = [arena[x] EXCEPT !.head = f, !.current = d, !.end = e]]
    BY <1>3, <2>1 DEF ArenaReset
  <2> QED BY <2>2 DEF ArenaInv, ArenaTypes
<1>6. \A y \in ArenaIds : Owned(y)' = Owned(y)
  <2>1. \A y \in ArenaIds : arena'[y].first = arena[y].first
    BY <1>5
  <2>2. block' \in BlockTypes
    BY DEF ArenaInv, ArenaTypes
  <2> QED BY <1>4, <2>1, <2>2, OwnedFollows
<1>7. BytesOK(Owned(x), block, arena[x], AllocsOf(x))'
  <2>1. PICK C, blocks, a, A, new, e :
          /\ C = Owned(x) /\ blocks = block /\ a = arena[x] /\ A = AllocsOf(x)
          /\ new = block' /\ e = arena'[x]
    OBVIOUS
  <2>2. OneArena(C, blocks, a, A) /\ BytesOK(C, blocks, a, A)
    BY <1>1, <2>1, ArenaIsOne DEF BytesInv
  <2>3. OneArena(C, new, e, {})
    <3>1. OneArena(Owned(x)', block', arena'[x], AllocsOf(x)')
      BY <1>2, ArenaIsOneNext
    <3> QED BY <1>2, <1>6, <2>1, <3>1
  <2>4. e.total = a.total
    BY <1>5, <2>1
  <2>5. \A c \in C : new[c].size = blocks[c].size /\ new[c].used = 0
    <3>1. C \in SUBSET BlockIds
      BY <2>2 DEF OneArena
    <3> QED BY <1>4, <2>1, <3>1
  <2>6. BytesOK(C, new, e, {})
    BY <2>2, <2>3, <2>4, <2>5, ResetBytes
  <2> QED BY <1>2, <1>6, <2>1, <2>6
<1>8. ASSUME NEW y \in ArenaIds, y # x PROVE BytesOK(Owned(y), block, arena[y], AllocsOf(y))'
  <2>1. \A c \in Owned(y) : c \in BlockIds /\ c \notin Owned(x)
    BY <1>8, OwnedFacts DEF ArenaInv, Ownership
  <2> QED BY <1>2, <1>4, <1>5, <1>6, <1>8, <2>1, OtherBytes
<1>9. \A y \in ArenaIds : BytesOK(Owned(y), block, arena[y], AllocsOf(y))'
  BY <1>7, <1>8
<1> QED BY <1>2, <1>9 DEF BytesInv

(* An arena without anything, and the one that is left alone. *)
LEMMA EmptyBytes ==
  ASSUME ArenaInv', NEW x \in ArenaIds, arena'[x].first = 0, AllocsOf(x)' = {}
  PROVE  BytesOK(Owned(x), block, arena[x], AllocsOf(x))' /\ Owned(x)' = {}
<1>1. PICK C, blocks, e : C = Owned(x)' /\ blocks = block' /\ e = arena'[x]
  OBVIOUS
<1>2. e.total \in Nat /\ blocks \in BlockTypes /\ NextUp(blocks) /\ 0 \in 0 .. ArenaBlocks
  BY <1>1, ArenaAssumption DEF ArenaInv, ArenaTypes
<1>3. C = ChainIn(blocks, 0)
  BY <1>1 DEF Owned, Chain
<1>4. C = {}
  <2>1. IsChain(blocks, 0, C)
    BY <1>2, <1>3, ChainIs
  <2> QED BY <2>1 DEF IsChain
<1>5. BytesOK({}, blocks, e, {})
  BY <1>2, NoBytes
<1> QED BY <1>1, <1>4, <1>5

(* The constructor and the destructor. *)
LEMMA ClearCounts ==
  ASSUME ArenaInv, BytesInv, ArenaInv', NEW x \in ArenaIds, ChainFreed(x), arena'[x].first = 0,
         \A y \in ArenaIds : y # x => arena'[y] = arena[y], allocs' = {l \in allocs : l.arena # x}
  PROVE  BytesInv'
<1>1. IsFiniteSet(allocs)
  BY DEF BytesInv
<1>2. /\ IsFiniteSet(allocs') /\ AllocsOf(x)' = {}
      /\ \A y \in ArenaIds : y # x => AllocsOf(y)' = AllocsOf(y)
  <2>1. IsFiniteSet(allocs')
    BY <1>1, FS_Subset
  <2> QED BY <2>1 DEF AllocsOf
<1>3. BytesOK(Owned(x), block, arena[x], AllocsOf(x))'
  BY <1>2, EmptyBytes
<1>4. ASSUME NEW y \in ArenaIds, y # x PROVE BytesOK(Owned(y), block, arena[y], AllocsOf(y))'
  <2>1. Owned(y)' = Owned(y) /\ arena'[y] = arena[y]
    BY <1>4, OwnedFollows DEF ChainFreed
  <2>2. \A c \in Owned(y) : c \in BlockIds
    BY OwnedFacts
  <2> QED BY <1>2, <1>4, <2>1, <2>2, OtherBytes DEF ChainFreed
<1>5. \A y \in ArenaIds : BytesOK(Owned(y), block, arena[y], AllocsOf(y))'
  BY <1>3, <1>4
<1> QED BY <1>2, <1>5 DEF BytesInv

(* Move construction and assignment (arena.cpp:30-72). *)
LEMMA MoveCounts ==
  ASSUME ArenaInv, BytesInv, ArenaInv', NEW x \in ArenaIds, NEW y \in ArenaIds, ArenaMove(x, y)
  PROVE  BytesInv'
<1>1. /\ x # y /\ arena' = [arena EXCEPT ![x] = arena[y], ![y] = Empty]
      /\ allocs' = {[l EXCEPT !.arena = x] : l \in {k \in allocs : k.arena = y}}
      /\ IsFiniteSet(allocs) /\ allocs \in SUBSET AllocTypes
  BY DEF ArenaMove, BytesInv, ArenaInv, ArenaTypes
<1>2. ChainFreed(x)
  BY FreedFacts DEF ArenaMove
<1>3. arena'[x] = arena[y] /\ arena'[y] = Empty /\ Empty.first = 0
  BY <1>1 DEF ArenaInv, ArenaTypes, Empty
<1>4. Owned(x)' = Owned(y)
  BY <1>2, <1>3, OwnedFollows DEF ChainFreed
<1>5. \A m \in allocs' : m.arena = x
  BY <1>1 DEF AllocTypes
<1>6. AllocsOf(x)' = allocs' /\ AllocsOf(y)' = {}
  BY <1>1, <1>5 DEF AllocsOf
<1>7. PICK C, blocks, a, A, new, E :
        /\ C = Owned(y) /\ blocks = block /\ a = arena[y] /\ A = AllocsOf(y)
        /\ new = block' /\ E = allocs'
  OBVIOUS
<1>8. OneArena(C, blocks, a, A) /\ BytesOK(C, blocks, a, A)
  BY <1>1, <1>7, ArenaIsOne DEF BytesInv
<1>9. BytesOK(C, blocks, a, E) /\ IsFiniteSet(E)
  <2>1. (\A l \in A : l.arena = y) /\ E = {[l EXCEPT !.arena = x] : l \in A}
    BY <1>1, <1>7 DEF AllocsOf
  <2> QED BY <1>8, <2>1, MoveBytes
<1>10. BytesOK(C, new, a, E)
  <2>1. \A c \in C : /\ new[c].size = blocks[c].size /\ new[c].data = blocks[c].data
                     /\ new[c].used = blocks[c].used
    <3>1. C \in SUBSET BlockIds
      BY <1>8 DEF OneArena
    <3> QED BY <1>2, <1>7, <3>1 DEF ChainFreed
  <2> QED BY <1>9, <2>1, SameBytes
<1>11. BytesOK(Owned(x), block, arena[x], AllocsOf(x))'
  BY <1>3, <1>4, <1>6, <1>7, <1>10
<1>12. BytesOK(Owned(y), block, arena[y], AllocsOf(y))'
  BY <1>3, <1>6, EmptyBytes
<1>13. \A z \in ArenaIds : z = x \/ z = y
  BY <1>1 DEF ArenaIds
<1>14. \A z \in ArenaIds : BytesOK(Owned(z), block, arena[z], AllocsOf(z))'
  BY <1>11, <1>12, <1>13
<1> QED BY <1>7, <1>9, <1>14 DEF BytesInv

----------------------------------------------------------------------------
(* The count of bytes is right in every state: marks lie in their blocks, blocks behind *)
(* the head are empty, and the sums over the chain and over the allocations agree       *)
(* (arena.cpp:74-184).                                                                  *)
THEOREM BytesInductive == ArenaSpec => []BytesInv
<1>1. ArenaInit => BytesInv
  <2> SUFFICES ASSUME ArenaInit PROVE BytesInv
    OBVIOUS
  <2>1. ArenaInv
    BY ArenaStarts
  <2>2. allocs = {} /\ \A x \in ArenaIds : arena[x].first = 0 /\ arena[x].total \in Nat
    BY DEF ArenaInit, Empty
  <2>3. \A x \in ArenaIds : Owned(x) = {} /\ AllocsOf(x) = {}
    BY <2>1, <2>2, OwnedFacts DEF AllocsOf
  <2>4. ASSUME NEW x \in ArenaIds PROVE BytesOK(Owned(x), block, arena[x], AllocsOf(x))
    BY <2>2, <2>3, NoBytes
  <2> QED BY <2>2, <2>4, FS_EmptySet DEF BytesInv
<1>2. BytesInv /\ ArenaInv /\ ArenaInv' /\ [ArenaNext]_arenaVars => BytesInv'
  <2> SUFFICES ASSUME BytesInv, ArenaInv, ArenaInv', [ArenaNext]_arenaVars PROVE BytesInv'
    OBVIOUS
  <2>1. CASE UNCHANGED arenaVars
    BY <2>1 DEF arenaVars, BytesInv, Owned, Chain, AllocsOf
  <2>2. ASSUME NEW x \in ArenaIds, NEW size \in ArenaSizes, NEW a \in Alignments, Allocate(x, size, a)
        PROVE  BytesInv'
    <3>1. CASE AllocateSlow(x, size, a)
      <4>1. SlowStep(x, size, a)
        BY <2>2, <3>1, SlowKeeps DEF Allocate
      <4> QED BY <2>2, <4>1, SlowCounts
    <3>2. CASE ~AllocateSlow(x, size, a)
      <4>1. /\ AlignUp(arena[x].current, a) + size <= arena[x].end
            /\ arena' = [arena EXCEPT ![x].current = AlignUp(arena[x].current, a) + size]
            /\ HandOut(x, AlignUp(arena[x].current, a), size, a) /\ block' = block
        BY <2>2, <3>2 DEF Allocate
      <4> QED BY <2>2, <4>1, FastCounts
    <3> QED BY <3>1, <3>2
  <2>3. ASSUME NEW x \in ArenaIds, ArenaConstruct(x) PROVE BytesInv'
    <3>1. ChainFreed(x)
      BY <2>3, FreedFacts DEF ArenaConstruct
    <3>2. Owned(x) = {}
      <4>1. arena[x].first = 0
        BY <2>3 DEF ArenaInv, HeadOK, ArenaConstruct
      <4> QED BY <4>1, OwnedFacts
    <3>3. \A l \in allocs : l.arena # x
      BY <3>2 DEF ArenaInv, AllocOK, Inside
    <3>4. allocs' = {l \in allocs : l.arena # x}
      BY <2>3, <3>3 DEF ArenaConstruct
    <3>5. arena'[x].first = 0 /\ \A y \in ArenaIds : y # x => arena'[y] = arena[y]
      BY <2>3 DEF ArenaConstruct, Empty, ArenaInv, ArenaTypes
    <3> QED BY <2>3, <3>1, <3>4, <3>5, ClearCounts
  <2>4. ASSUME NEW x \in ArenaIds, ArenaDestroy(x) PROVE BytesInv'
    <3>1. ChainFreed(x)
      BY <2>4, FreedFacts DEF ArenaDestroy
    <3>2. /\ allocs' = {l \in allocs : l.arena # x}
          /\ arena'[x].first = 0 /\ \A y \in ArenaIds : y # x => arena'[y] = arena[y]
      BY <2>4 DEF ArenaDestroy, Empty, ArenaInv, ArenaTypes
    <3> QED BY <2>4, <3>1, <3>2, ClearCounts
  <2> QED BY <2>1, <2>2, <2>3, <2>4, ResetCounts, MoveCounts DEF ArenaNext
<1> QED BY <1>1, <1>2, ArenaInductive, PTL DEF ArenaSpec

(* bytes_allocated() covers what was asked for and is not reset yet, and never exceeds  *)
(* what malloc gave, so that bytes_wasted() does not wrap (arena.cpp:153-165,           *)
(* arena.hpp:86), for any number of blocks, any sizes and alignments.                   *)
THEOREM BytesAddUp == ArenaSpec => []ArenaBytes
<1>1. ArenaInv /\ BytesInv => ArenaBytes
  <2> SUFFICES ASSUME ArenaInv, BytesInv, NEW x \in ArenaIds
               PROVE  /\ BytesAllocated(x) <= arena[x].total
                      /\ SumFunction([l \in {k \in allocs : k.arena = x} |-> l.size]) <= BytesAllocated(x)
    BY DEF ArenaBytes
  <2>1. PICK C, blocks, a, A : C = Owned(x) /\ blocks = block /\ a = arena[x] /\ A = AllocsOf(x)
    OBVIOUS
  <2>2. OneArena(C, blocks, a, A) /\ BytesOK(C, blocks, a, A) /\ a.total \in Nat
    BY <2>1, ArenaIsOne DEF BytesInv, OneArena
  <2>3. BytesAllocated(x) = SumFunction(Filled(C, blocks, a))
    BY <2>1 DEF BytesAllocated, Filled, Owned
  <2>4. SumFunction([l \in {k \in allocs : k.arena = x} |-> l.size]) = SumFunction(AllocSizes(A))
    BY <2>1 DEF AllocSizes, AllocsOf
  <2>5. SumFunction(Filled(C, blocks, a)) <= a.total
    <3>1. PICK f, s, id : f = Filled(C, blocks, a) /\ s = BlockSizes(C, blocks) /\ id = [b \in C |-> b]
      OBVIOUS
    <3>2. IsFiniteSet(C) /\ f \in [C -> Nat] /\ s \in [C -> Nat] /\ \A b \in C : f[b] <= s[b]
      BY <2>2, <3>1, BytesTypes DEF BytesOK
    <3>3. Covers(id, f, C, s, C)
      BY <3>1, <3>2 DEF Covers
    <3>4. SumFunction(f) <= SumFunction(s) /\ SumFunction(f) \in Nat /\ SumFunction(s) \in Nat
      BY <3>2, <3>3, SumCovered
    <3>5. SumFunction(s) <= a.total
      BY <2>2, <3>1 DEF BytesOK
    <3> QED BY <2>2, <3>1, <3>4, <3>5
  <2> QED BY <2>1, <2>2, <2>3, <2>4, <2>5 DEF BytesOK
<1> QED BY <1>1, ArenaInductive, BytesInductive, PTL
=============================================================================

----------------------- MODULE WorkStealingDequeProofs -----------------------
(***************************************************************************)
(* Proofs about the Chase-Lev deque: for any number of thieves, any        *)
(* initial capacity and any number of pushes, no item is returned twice,   *)
(* none is lost, and owner and thieves take from opposite ends.            *)
(***************************************************************************)
EXTENDS WorkStealingDeque, TLAPS

Pushing == owner \in {"push", "store", "publish"}
Popping == owner \in {"fence", "got", "restore"}

\* One past the last position that still holds an item: a pop lowers bottom_
\* before the item at that position is its own.
End == IF Popping THEN ob + 1 ELSE bottom

\* The items whose push is over: 1 .. Done.
Done == IF Pushing THEN pushed - 1 ELSE pushed

\* The item at position i of the current array.
At(i) == Load(array, i)

Live == top .. End - 1

\* A thief holding the current value of top_ has seen an item there: the
\* position is below this limit, which the owner lowers only over positions
\* that no such thief can hold.
Limit == CASE owner = "fence" -> ob + 1
           [] owner = "got" -> IF ot = ob THEN ob + 1 ELSE ob
           [] OTHER -> bottom

\* What the owner's local copies say, at each step of push and pop.
OwnerInv ==
    /\ top <= End
    /\ End - top <= ArrayCapacity(array)
    /\ Pushing => pushed >= 1 /\ ob = bottom /\ ot <= top /\ ob - ot <= ArrayCapacity(array)
    /\ owner \in {"store", "publish"} => ob - ot <= ArrayCapacity(array) - 1
    /\ owner = "publish" => At(ob) = pushed
    /\ Popping => bottom = ob
    /\ owner = "got" => ot <= ob /\ ot <= top /\ top <= Limit /\ oi = At(ob)
    /\ owner = "restore" => top = ob + 1

\* Thief p would win the CAS if it came now.
Valid(p) == thief[p] \in {"array", "read", "cas"} /\ t[p] = top

ThiefInv ==
    \A p \in Thieves :
        /\ t[p] <= top
        /\ Valid(p) => top < Limit
        /\ Valid(p) /\ thief[p] = "read" => Load(ta[p], top) = At(top)
        /\ Valid(p) /\ thief[p] = "cas" => ti[p] = At(top)

\* The live positions hold, in the order of pushing, exactly the items that
\* were pushed and not yet returned.
LiveInv   == \A i \in Live : At(i) \in 1 .. Done /\ taken[At(i)] = 0
OrderInv  == \A i, j \in Live : i < j => At(i) < At(j)
TakenInv  == \A x \in Values :
                /\ taken[x] <= 1
                /\ x > Done => taken[x] = 0
                /\ x <= Done /\ taken[x] = 0 => \E i \in Live : At(i) = x
ContentInv == LiveInv /\ OrderInv /\ TakenInv

IndInv == DequeTypeOK /\ OwnerInv /\ ThiefInv /\ ContentInv

----------------------------------------------------------------------------
(* The circular arrays.                                                     *)

(* A slot is an index of the storage. *)
LEMMA ModRange == \A c \in Nat \ {0} : \A i \in Nat : i % c \in 0 .. c - 1
  OBVIOUS

(* Two positions less than one turn apart never share a slot. *)
LEMMA ModInjective ==
  ASSUME NEW c \in Nat \ {0}, NEW a \in Nat, NEW b \in Nat,
         a % c = b % c, a <= b, b < a + c
  PROVE  a = b
<1> DEFINE qa == a \div c
           qb == b \div c
<1>1. qa \in Int /\ qb \in Int
  OBVIOUS
<1>2. a = (c * qa) + (a % c) /\ b = (c * qb) + (b % c)
  OBVIOUS
<1> HIDE DEF qa, qb
<1>3. b - a = c * (qb - qa)
  BY <1>1, <1>2
<1>4. qb - qa < 1 /\ qb - qa > -1
  BY <1>1, <1>3
<1> QED BY <1>1, <1>3, <1>4

(* A step that leaves the arrays alone changes nothing that can be loaded. *)
LEMMA SameArrays ==
  ASSUME arrays' = arrays
  PROVE  \A k : ArrayCapacity(k)' = ArrayCapacity(k) /\ \A i : Load(k, i)' = Load(k, i)
  BY DEF ArrayCapacity, Load, Slot

(* resize: the new array holds every position from the owner's stale t to b, *)
(* and the old arrays, which thieves may still hold, are untouched.          *)
LEMMA Resized ==
  ASSUME IndInv, Resize
  PROVE  /\ array' = array + 1
         /\ ArrayCapacity(array)' = 2 * ArrayCapacity(array)
         /\ \A k \in 1 .. array : ArrayCapacity(k)' = ArrayCapacity(k) /\ \A i : Load(k, i)' = Load(k, i)
         /\ \A i \in ot .. ob - 1 : At(i)' = At(i)
         /\ arrays'[array + 1].storage \in [0 .. ArrayCapacity(array)' - 1 -> Values \cup {Garbage}]
<1> DEFINE cap == 2 * ArrayCapacity(array)
           copied(s) == {i \in ot .. ob - 1 : i % cap = s}
<1>1. /\ array \in Nat \ {0} /\ array' = array + 1 /\ ArrayCapacity(array) \in Nat \ {0}
      /\ ot \in Nat /\ ob \in Nat /\ ob - ot <= ArrayCapacity(array)
  BY DEF IndInv, DequeTypeOK, OwnerInv, Resize, Owner, Pushing, End, Popping
<1>2. arrays' = [k \in 1 .. array + 1 |-> IF k <= array THEN arrays[k] ELSE GrownArray]
  BY DEF Resize
<1>3. \A k \in 1 .. array : arrays'[k] = arrays[k]
  BY <1>1, <1>2
<1>4. arrays'[array + 1] = GrownArray
  BY <1>1, <1>2
<1>5. /\ GrownArray.capacity = cap
      /\ GrownArray.storage = [s \in 0 .. cap - 1 |->
                            IF copied(s) = {} THEN Garbage
                            ELSE Load(array, CHOOSE i \in copied(s) : TRUE)]
  BY DEF GrownArray, CopyFrom
<1>6. ArrayCapacity(array)' = cap
  BY <1>1, <1>4, <1>5 DEF ArrayCapacity
<1>7. \A k \in 1 .. array : ArrayCapacity(k)' = ArrayCapacity(k) /\ \A i : Load(k, i)' = Load(k, i)
  BY <1>3 DEF ArrayCapacity, Load, Slot
<1>8. cap \in Nat \ {0}
  BY <1>1
<1>9. ASSUME NEW i \in ot .. ob - 1 PROVE At(i)' = At(i)
  <2>1. i \in Nat /\ i % cap \in 0 .. cap - 1
    <3>1. i \in Nat
      BY <1>1
    <3> HIDE DEF cap
    <3> QED BY <1>8, <3>1, ModRange
  <2>2. i \in copied(i % cap)
    BY <2>1
  <2>3. ASSUME NEW j \in copied(i % cap) PROVE j = i
    <3>1. j \in Nat /\ j % cap = i % cap /\ i < j + cap /\ j < i + cap
      BY <1>1, <2>1
    <3> HIDE DEF cap
    <3>2. CASE i <= j BY <1>8, <2>1, <3>1, <3>2, ModInjective
    <3>3. CASE j <= i BY <1>8, <2>1, <3>1, <3>3, ModInjective
    <3> QED BY <2>1, <3>1, <3>2, <3>3
  <2>4. (CHOOSE j \in copied(i % cap) : TRUE) = i
    BY <2>2, <2>3
  <2>5. GrownArray.storage[i % cap] = Load(array, i)
    BY <1>5, <2>1, <2>2, <2>4
  <2>6. At(i)' = arrays'[array + 1].storage[i % ArrayCapacity(array)']
    BY <1>1 DEF At, Load, Slot
  <2> QED BY <1>4, <1>6, <2>5, <2>6 DEF At
<1>10. GrownArray.storage \in [0 .. cap - 1 -> Values \cup {Garbage}]
  <2>1. \A i \in Nat : Load(array, i) \in Values \cup {Garbage}
    <3> SUFFICES ASSUME NEW i \in Nat PROVE Load(array, i) \in Values \cup {Garbage}
      OBVIOUS
    <3>1. Slot(array, i) \in 0 .. ArrayCapacity(array) - 1
      BY <1>1, ModRange DEF Slot
    <3>2. arrays[array].storage \in [0 .. ArrayCapacity(array) - 1 -> Values \cup {Garbage}]
      BY <1>1, SMTT(40) DEF IndInv, DequeTypeOK
    <3> QED BY <3>1, <3>2 DEF Load
  <2>2. \A s \in 0 .. cap - 1 : copied(s) # {} => (CHOOSE i \in copied(s) : TRUE) \in Nat
    BY <1>1
  <2> QED BY <1>5, <2>1, <2>2
<1> QED BY <1>1, <1>4, <1>6, <1>7, <1>9, <1>10

(* a->store(b, item): no position a thief may be reading shares the slot. *)
LEMMA Stored ==
  ASSUME IndInv, PushStore
  PROVE  /\ array' = array
         /\ \A k \in 1 .. array : ArrayCapacity(k)' = ArrayCapacity(k)
         /\ \A k \in 1 .. array : \A i \in top .. ob - 1 : Load(k, i)' = Load(k, i)
         /\ At(ob)' = pushed
         /\ DequeTypeOK'
<1>1. /\ array \in Nat \ {0} /\ array' = array /\ ArrayCapacity(array) \in Nat \ {0}
      /\ top \in Nat /\ ob \in Nat /\ ob - top <= ArrayCapacity(array) - 1 /\ ob' = ob
      /\ pushed \in Values
  BY DequeAssumption, SMTT(40) DEF IndInv, DequeTypeOK, OwnerInv, PushStore, Owner, Pushing, End, Popping, Values
<1> DEFINE s == Slot(array, ob)
<1>2. s \in 0 .. ArrayCapacity(array) - 1
  BY <1>1, ModRange DEF Slot
<1>3. /\ arrays = [k \in 1 .. array |-> arrays[k]]
      /\ arrays[array] = [capacity |-> ArrayCapacity(array), storage |-> arrays[array].storage]
      /\ arrays[array].storage \in [0 .. ArrayCapacity(array) - 1 -> Values \cup {Garbage}]
  BY <1>1 DEF IndInv, DequeTypeOK
<1>4. /\ arrays' = [k \in 1 .. array |-> arrays'[k]]
      /\ \A k \in 1 .. array : k # array => arrays'[k] = arrays[k]
      /\ arrays'[array] = [capacity |-> ArrayCapacity(array),
                           storage |-> [arrays[array].storage EXCEPT ![s] = pushed]]
  <2>1. arrays' = [arrays EXCEPT ![array].storage[s] = pushed]
    BY DEF PushStore
  <2> HIDE DEF s
  <2>2. arrays' = [k \in 1 .. array |->
                     IF k = array
                     THEN [arrays[k] EXCEPT !.storage = [arrays[k].storage EXCEPT ![s] = pushed]]
                     ELSE arrays[k]]
    BY <1>3, <2>1
  <2>3. [arrays[array] EXCEPT !.storage = [arrays[array].storage EXCEPT ![s] = pushed]]
          = [capacity |-> ArrayCapacity(array),
             storage |-> [arrays[array].storage EXCEPT ![s] = pushed]]
    BY <1>3, SMTT(40)
  <2> QED BY <1>1, <2>2, <2>3
<1>5. \A k \in 1 .. array : ArrayCapacity(k)' = ArrayCapacity(k)
  BY <1>1, <1>4 DEF ArrayCapacity
<1>6. ASSUME NEW k \in 1 .. array, NEW i \in top .. ob - 1 PROVE Load(k, i)' = Load(k, i)
  <2>1. CASE k # array
    BY <1>4, <2>1 DEF Load, Slot, ArrayCapacity
  <2>2. CASE k = array
    <3>0. i \in Nat /\ i <= ob /\ ob < i + ArrayCapacity(array) /\ i # ob
      BY <1>1
    <3>1. Slot(k, i) # s
      BY <1>1, <2>2, <3>0, ModInjective DEF Slot
    <3>2. Slot(k, i) \in 0 .. ArrayCapacity(array) - 1
      BY <1>1, <2>2, <3>0, ModRange DEF Slot
    <3>3. Slot(k, i)' = Slot(k, i)
      BY <1>5 DEF Slot
    <3> HIDE DEF s
    <3>4. arrays'[k].storage[Slot(k, i)] = arrays[k].storage[Slot(k, i)]
      <4>1. arrays'[array].storage = [arrays[array].storage EXCEPT ![s] = pushed]
        BY <1>4
      <4> QED BY <1>3, <2>2, <3>1, <3>2, <4>1
    <3> QED BY <3>3, <3>4 DEF Load
  <2> QED BY <2>1, <2>2
<1>7. At(ob)' = pushed
  <2>1. Slot(array, ob)' = s
    BY <1>1, <1>5 DEF Slot
  <2> HIDE DEF s
  <2> QED BY <1>1, <1>2, <1>3, <1>4, <2>1 DEF At, Load
<1>8. DequeTypeOK'
  <2>1. \A k \in 1 .. array :
          /\ ArrayCapacity(k)' \in Nat \ {0}
          /\ arrays'[k] = [capacity |-> ArrayCapacity(k)', storage |-> arrays'[k].storage]
          /\ arrays'[k].storage \in [0 .. ArrayCapacity(k)' - 1 -> Values \cup {Garbage}]
    <3> SUFFICES ASSUME NEW k \in 1 .. array PROVE
          /\ ArrayCapacity(k)' \in Nat \ {0}
          /\ arrays'[k] = [capacity |-> ArrayCapacity(k)', storage |-> arrays'[k].storage]
          /\ arrays'[k].storage \in [0 .. ArrayCapacity(k)' - 1 -> Values \cup {Garbage}]
      OBVIOUS
    <3> HIDE DEF s
    <3>1. CASE k # array BY <1>4, <1>5, <3>1 DEF IndInv, DequeTypeOK
    <3>2. CASE k = array
      <4>1. [arrays[array].storage EXCEPT ![s] = pushed] \in [0 .. ArrayCapacity(array) - 1 -> Values \cup {Garbage}]
        BY <1>1, <1>2, <1>3
      <4>2. arrays'[array].storage = [arrays[array].storage EXCEPT ![s] = pushed]
        BY <1>4
      <4> QED BY <1>1, <1>4, <1>5, <3>2, <4>1, <4>2
    <3> QED BY <3>1, <3>2
  <2>2. UNCHANGED <<top, bottom, array, thief, t, ta, ti, ot, ob, oi, pushed, taken>> /\ owner' = "publish"
    BY DEF PushStore, Owner, thieves
  <2> QED BY <1>1, <1>4, <2>1, <2>2 DEF IndInv, DequeTypeOK
<1> QED BY <1>1, <1>5, <1>6, <1>7, <1>8

(* What is loaded is an item or an uninitialised slot. *)
LEMMA LoadType ==
  ASSUME DequeTypeOK, NEW k \in 1 .. array, NEW i \in Nat
  PROVE  Load(k, i) \in Values \cup {Garbage}
<1>1. /\ ArrayCapacity(k) \in Nat \ {0}
      /\ arrays[k].storage \in [0 .. ArrayCapacity(k) - 1 -> Values \cup {Garbage}]
  BY DEF DequeTypeOK
<1>2. Slot(k, i) \in 0 .. ArrayCapacity(k) - 1
  BY <1>1, ModRange DEF Slot
<1> QED BY <1>1, <1>2 DEF Load

(* What the invariant says of positions and items, in numbers.              *)
LEMMA Numbers ==
  ASSUME IndInv
  PROVE  /\ top \in Nat /\ End \in Nat /\ top <= End
         /\ Done \in 0 .. MaxPushes /\ Done <= pushed
         /\ array \in Nat \ {0} /\ ArrayCapacity(array) \in Nat \ {0}
         /\ \A i \in Live : i \in Nat /\ At(i) \in Values
         /\ taken \in [Values -> Nat]
<1>1. top \in Nat /\ End \in Nat /\ top <= End
  BY DEF IndInv, DequeTypeOK, OwnerInv, End
<1>2. Done \in 0 .. MaxPushes /\ Done <= pushed
  BY DequeAssumption DEF IndInv, DequeTypeOK, OwnerInv, Done
<1>3. /\ array \in Nat \ {0} /\ ArrayCapacity(array) \in Nat \ {0}
      /\ taken \in [Values -> Nat]
  BY DEF IndInv, DequeTypeOK
<1>4. ASSUME NEW i \in Live PROVE i \in Nat /\ At(i) \in Values
  <2>1. i \in Nat
    BY <1>1 DEF Live
  <2>2. At(i) \in 1 .. Done
    BY DEF IndInv, ContentInv, LiveInv
  <2> QED BY <1>2, <2>1, <2>2, DequeAssumption DEF Values
<1> QED BY <1>1, <1>2, <1>3, <1>4

(* A new deque satisfies the invariant. *)
LEMMA InitInv == DequeInit => IndInv
<1> SUFFICES ASSUME DequeInit PROVE IndInv
  OBVIOUS
<1>1. arrays = [k \in {1} |-> NewArray(initial_capacity)] /\ array = 1
  BY DEF DequeInit
<1>2. /\ arrays[1] = [capacity |-> initial_capacity,
                      storage |-> [s \in 0 .. initial_capacity - 1 |-> Garbage]]
      /\ arrays = [k \in 1 .. array |-> arrays[k]]
  BY <1>1 DEF NewArray
<1>3. ArrayCapacity(1) = initial_capacity
  BY <1>2 DEF ArrayCapacity
<1>4. DequeTypeOK
  <2>1. \A k \in 1 .. array :
          /\ ArrayCapacity(k) \in Nat \ {0}
          /\ arrays[k] = [capacity |-> ArrayCapacity(k), storage |-> arrays[k].storage]
          /\ arrays[k].storage \in [0 .. ArrayCapacity(k) - 1 -> Values \cup {Garbage}]
    BY <1>1, <1>2, <1>3, DequeAssumption
  <2> QED BY <1>1, <1>2, <2>1, DequeAssumption DEF DequeInit, DequeTypeOK
<1>5. OwnerInv
  BY <1>1, <1>3, DequeAssumption DEF DequeInit, OwnerInv, End, Pushing, Popping
<1>6. ThiefInv
  <2>1. top = 0 /\ \A p \in Thieves : t[p] = 0 /\ thief[p] = "idle"
    BY DEF DequeInit
  <2>2. ASSUME NEW p \in Thieves PROVE t[p] <= top
    <3>1. t[p] = top /\ top \in Nat
      BY <2>1
    <3> QED BY <3>1
  <2>3. \A p \in Thieves : ~Valid(p)
    BY <2>1 DEF Valid
  <2> QED BY <2>2, <2>3 DEF ThiefInv
<1>7. Live = {} /\ Done = 0
  BY DEF DequeInit, Live, Done, End, Pushing, Popping
<1>8. ContentInv
  BY <1>7 DEF DequeInit, ContentInv, LiveInv, OrderInv, TakenInv, Values
<1> QED BY <1>4, <1>5, <1>6, <1>8 DEF IndInv

----------------------------------------------------------------------------
(* What becomes of the content.                                             *)

(* Steps that neither publish nor take an item. *)
LEMMA ContentKept ==
  ASSUME IndInv, top' = top, End' = End, Done' = Done, taken' = taken,
         \A i \in Live : At(i)' = At(i)
  PROVE  ContentInv'
<1>1. Live' = Live
  BY DEF Live
<1>2. LiveInv'
  BY <1>1 DEF IndInv, ContentInv, LiveInv
<1>3. OrderInv'
  BY <1>1 DEF IndInv, ContentInv, OrderInv
<1>4. TakenInv'
  BY <1>1 DEF IndInv, ContentInv, TakenInv
<1> QED BY <1>2, <1>3, <1>4 DEF ContentInv

(* push publishes the youngest item behind the others. *)
LEMMA ContentPublished ==
  ASSUME IndInv, PushPublish
  PROVE  ContentInv'
<1>1. /\ owner = "publish" /\ owner' = "idle" /\ ob = bottom /\ bottom' = ob + 1
      /\ top' = top /\ array' = array /\ pushed' = pushed /\ taken' = taken
      /\ At(ob) = pushed /\ pushed \in Nat
  BY DEF PushPublish, Owner, IndInv, DequeTypeOK, OwnerInv, Pushing
<1>2. \A i : At(i)' = At(i)
  BY <1>1, SameArrays DEF At, PushPublish
<1>3. End = ob /\ End' = ob + 1 /\ Done = pushed - 1 /\ Done' = pushed
  BY <1>1 DEF End, Done, Pushing, Popping
<1>4. top \in Nat /\ End \in Nat /\ top <= End
  BY Numbers
<1>5. Live' = Live \cup {ob} /\ \A i \in Live : i < ob
  BY <1>1, <1>3, <1>4 DEF Live
<1>6. \A i \in Live : At(i) \in 1 .. pushed - 1 /\ taken[At(i)] = 0
  BY <1>3 DEF IndInv, ContentInv, LiveInv
<1>7. pushed \in Values /\ taken[pushed] = 0
  <2>1. pushed \in Values
    BY <1>1 DEF IndInv, DequeTypeOK, OwnerInv, Pushing, Values
  <2> QED BY <1>1, <1>3, <2>1 DEF IndInv, ContentInv, TakenInv
<1>8. LiveInv'
  <2> SUFFICES ASSUME NEW i \in Live' PROVE At(i)' \in 1 .. Done' /\ taken'[At(i)'] = 0
    BY DEF LiveInv
  <2>1. CASE i \in Live BY <1>1, <1>2, <1>3, <1>6, <2>1
  <2>2. CASE i = ob BY <1>1, <1>2, <1>3, <1>7, <2>2 DEF Values
  <2> QED BY <1>5, <2>1, <2>2
<1>9. OrderInv'
  <2> SUFFICES ASSUME NEW i \in Live', NEW j \in Live', i < j PROVE At(i)' < At(j)'
    BY DEF OrderInv
  <2>0. i \in Live
    BY <1>3, <1>4, <1>5 DEF Live
  <2>1. CASE j \in Live BY <1>2, <2>0, <2>1 DEF IndInv, ContentInv, OrderInv
  <2>2. CASE j = ob BY <1>1, <1>2, <1>6, <2>0, <2>2
  <2> QED BY <1>5, <2>1, <2>2
<1>10. TakenInv'
  <2> SUFFICES ASSUME NEW x \in Values
               PROVE  /\ taken'[x] <= 1
                      /\ x > Done' => taken'[x] = 0
                      /\ x <= Done' /\ taken'[x] = 0 => \E i \in Live' : At(i)' = x
    BY DEF TakenInv
  <2>1. x \in Nat
    BY DEF Values
  <2>2. taken[x] <= 1 /\ (x > Done => taken[x] = 0)
    BY DEF IndInv, ContentInv, TakenInv
  <2>3. CASE x = pushed BY <1>1, <1>2, <1>3, <1>5, <2>2, <2>3
  <2>4. CASE x > pushed BY <1>1, <1>3, <2>1, <2>2, <2>4
  <2>5. CASE x < pushed
    <3>1. x <= Done /\ x <= Done'
      BY <1>1, <1>3, <2>1, <2>5
    <3>2. taken[x] = 0 => \E i \in Live : At(i) = x
      BY <3>1 DEF IndInv, ContentInv, TakenInv
    <3> QED BY <1>1, <1>2, <1>3, <1>5, <2>1, <2>2, <2>5, <3>2
  <2> QED BY <1>1, <2>1, <2>3, <2>4, <2>5
<1> QED BY <1>8, <1>9, <1>10 DEF ContentInv

(* Whoever advances top_ takes the oldest item. *)
LEMMA ContentFirst ==
  ASSUME IndInv, top < End, top' = top + 1, End' = End, Done' = Done,
         Taken(At(top)), \A i \in Live : At(i)' = At(i)
  PROVE  /\ ContentInv'
         /\ \A x \in Values : taken'[x] > taken[x] =>
               x = At(top) /\ \A j \in 1 .. pushed : j < x => taken[j] > 0
<1>1. /\ top \in Nat /\ End \in Nat /\ Done \in 0 .. MaxPushes /\ taken \in [Values -> Nat]
      /\ \A i \in Live : i \in Nat /\ At(i) \in Values
  BY Numbers
<1>2. top \in Live /\ Live' = Live \ {top} /\ \A i \in Live' : i \in Live /\ top < i
  BY <1>1 DEF Live
<1> DEFINE y == At(top)
<1>3. y \in Values /\ y \in 1 .. Done /\ taken[y] = 0 /\ taken' = [taken EXCEPT ![y] = taken[y] + 1]
  BY <1>1, <1>2 DEF IndInv, ContentInv, LiveInv, Taken
<1>4. \A i \in Live' : y < At(i)
  BY <1>2 DEF IndInv, ContentInv, OrderInv
<1>5. LiveInv'
  <2> SUFFICES ASSUME NEW i \in Live' PROVE At(i)' \in 1 .. Done' /\ taken'[At(i)'] = 0
    BY DEF LiveInv
  <2>1. At(i)' = At(i) /\ At(i) \in 1 .. Done /\ taken[At(i)] = 0 /\ At(i) \in Values
    BY <1>1, <1>2 DEF IndInv, ContentInv, LiveInv
  <2> HIDE DEF y
  <2>2. At(i) # y
    BY <1>1, <1>3, <1>4, <2>1 DEF Values
  <2> QED BY <1>1, <1>3, <2>1, <2>2
<1>6. OrderInv'
  <2> SUFFICES ASSUME NEW i \in Live', NEW j \in Live', i < j PROVE At(i)' < At(j)'
    BY DEF OrderInv
  <2> QED BY <1>2 DEF IndInv, ContentInv, OrderInv
<1>7. TakenInv'
  <2> SUFFICES ASSUME NEW x \in Values
               PROVE  /\ taken'[x] <= 1
                      /\ x > Done' => taken'[x] = 0
                      /\ x <= Done' /\ taken'[x] = 0 => \E i \in Live' : At(i)' = x
    BY DEF TakenInv
  <2>1. /\ taken[x] <= 1 /\ (x > Done => taken[x] = 0)
        /\ x <= Done /\ taken[x] = 0 => \E i \in Live : At(i) = x
    BY DEF IndInv, ContentInv, TakenInv
  <2>2. CASE x = y BY <1>1, <1>3, <2>2 DEF Values
  <2>3. CASE x # y
    <3>1. taken'[x] = taken[x]
      BY <1>1, <1>3, <2>3
    <3>2. ASSUME NEW i \in Live, At(i) = x PROVE i \in Live' /\ At(i)' = x
      BY <1>2, <2>3, <3>2
    <3> QED BY <2>1, <3>1, <3>2
  <2> QED BY <2>2, <2>3
<1>8. ASSUME NEW x \in Values, taken'[x] > taken[x], NEW j \in 1 .. pushed, j < x
      PROVE  x = At(top) /\ taken[j] > 0
  <2>1. x = y
    BY <1>1, <1>3, <1>8
  <2>2. j \in Values /\ j <= Done /\ taken[j] \in Nat
    <3>1. j \in Nat /\ j >= 1 /\ j <= Done
      BY <1>1, <1>3, <1>8, <2>1 DEF IndInv, DequeTypeOK
    <3> QED BY <1>1, <3>1, DequeAssumption DEF Values
  <2>3. \A i \in Live : y <= At(i)
    BY <1>1, <1>2, <1>3, <1>4 DEF Values
  <2> HIDE DEF y
  <2>4. \A i \in Live : At(i) # j
    BY <1>1, <1>3, <1>8, <2>1, <2>3 DEF Values
  <2>5. taken[j] # 0
    BY <2>2, <2>4 DEF IndInv, ContentInv, TakenInv
  <2> QED BY <2>1, <2>2, <2>5 DEF y
<1>9. ASSUME NEW x \in Values, taken'[x] > taken[x]
      PROVE  x = At(top)
  BY <1>1, <1>3, <1>9
<1> QED BY <1>5, <1>6, <1>7, <1>8, <1>9 DEF ContentInv

(* A pop that leaves others behind takes the youngest item. *)
LEMMA ContentLast ==
  ASSUME IndInv, top < End, top' = top, End' = End - 1, Done' = Done, Done = pushed,
         Taken(At(End - 1)), \A i \in Live : At(i)' = At(i)
  PROVE  /\ ContentInv'
         /\ \A x \in Values : taken'[x] > taken[x] =>
               \A j \in 1 .. pushed : j > x => taken[j] > 0
<1>1. /\ top \in Nat /\ End \in Nat /\ Done \in 0 .. MaxPushes /\ taken \in [Values -> Nat]
      /\ \A i \in Live : i \in Nat /\ At(i) \in Values
  BY Numbers
<1> DEFINE e == End - 1
           y == At(e)
<1>2. e \in Live /\ Live' = Live \ {e} /\ \A i \in Live' : i \in Live /\ i < e
  BY <1>1 DEF Live
<1>3. y \in Values /\ y \in 1 .. Done /\ taken[y] = 0 /\ taken' = [taken EXCEPT ![y] = taken[y] + 1]
  BY <1>1, <1>2 DEF IndInv, ContentInv, LiveInv, Taken
<1> HIDE DEF e
<1>4. \A i \in Live' : At(i) < y
  BY <1>2 DEF IndInv, ContentInv, OrderInv
<1>5. LiveInv'
  <2> SUFFICES ASSUME NEW i \in Live' PROVE At(i)' \in 1 .. Done' /\ taken'[At(i)'] = 0
    BY DEF LiveInv
  <2>1. At(i)' = At(i) /\ At(i) \in 1 .. Done /\ taken[At(i)] = 0 /\ At(i) \in Values
    BY <1>1, <1>2 DEF IndInv, ContentInv, LiveInv
  <2> HIDE DEF y
  <2>2. At(i) # y
    BY <1>1, <1>3, <1>4, <2>1 DEF Values
  <2> QED BY <1>1, <1>3, <2>1, <2>2
<1>6. OrderInv'
  <2> SUFFICES ASSUME NEW i \in Live', NEW j \in Live', i < j PROVE At(i)' < At(j)'
    BY DEF OrderInv
  <2> QED BY <1>2 DEF IndInv, ContentInv, OrderInv
<1>7. TakenInv'
  <2> SUFFICES ASSUME NEW x \in Values
               PROVE  /\ taken'[x] <= 1
                      /\ x > Done' => taken'[x] = 0
                      /\ x <= Done' /\ taken'[x] = 0 => \E i \in Live' : At(i)' = x
    BY DEF TakenInv
  <2>1. /\ taken[x] <= 1 /\ (x > Done => taken[x] = 0)
        /\ x <= Done /\ taken[x] = 0 => \E i \in Live : At(i) = x
    BY DEF IndInv, ContentInv, TakenInv
  <2>2. CASE x = y BY <1>1, <1>3, <2>2 DEF Values
  <2>3. CASE x # y
    <3>1. taken'[x] = taken[x]
      BY <1>1, <1>3, <2>3
    <3>2. ASSUME NEW i \in Live, At(i) = x PROVE i \in Live' /\ At(i)' = x
      BY <1>2, <2>3, <3>2
    <3> QED BY <2>1, <3>1, <3>2
  <2> QED BY <2>2, <2>3
<1>8. ASSUME NEW x \in Values, taken'[x] > taken[x], NEW j \in 1 .. pushed, j > x
      PROVE  taken[j] > 0
  <2>1. x = y
    BY <1>1, <1>3, <1>8
  <2>2. j \in Values /\ j <= Done /\ taken[j] \in Nat
    <3>1. j \in Nat /\ j >= 1 /\ j <= Done
      BY <1>1, <1>3, <1>8, <2>1 DEF IndInv, DequeTypeOK
    <3> QED BY <1>1, <3>1, DequeAssumption DEF Values
  <2>3. \A i \in Live : At(i) <= y
    BY <1>1, <1>2, <1>3, <1>4 DEF Values
  <2> HIDE DEF y
  <2>4. \A i \in Live : At(i) # j
    BY <1>1, <1>3, <1>8, <2>1, <2>3 DEF Values
  <2>5. taken[j] # 0
    BY <2>2, <2>4 DEF IndInv, ContentInv, TakenInv
  <2> QED BY <2>2, <2>5
<1> QED BY <1>5, <1>6, <1>7, <1>8 DEF ContentInv

----------------------------------------------------------------------------
(* What becomes of the thieves.                                             *)

(* A step of the owner that leaves top_ alone keeps what the thieves have   *)
(* seen, as long as the position at top_ is neither given up nor rewritten. *)
LEMMA ThiefKept ==
  ASSUME IndInv, UNCHANGED <<thief, t, ta, ti, top>>,
         top < Limit => /\ top < Limit'
                        /\ At(top)' = At(top)
                        /\ \A k \in 1 .. array : Load(k, top)' = Load(k, top)
  PROVE  ThiefInv'
<1> SUFFICES ASSUME NEW p \in Thieves
             PROVE  /\ t'[p] <= top'
                    /\ Valid(p)' => top' < Limit'
                    /\ Valid(p)' /\ thief'[p] = "read" => Load(ta[p], top)' = At(top)'
                    /\ Valid(p)' /\ thief'[p] = "cas" => ti'[p] = At(top)'
  BY DEF ThiefInv
<1>1. /\ t[p] <= top
      /\ Valid(p) => top < Limit
      /\ Valid(p) /\ thief[p] = "read" => Load(ta[p], top) = At(top)
      /\ Valid(p) /\ thief[p] = "cas" => ti[p] = At(top)
  BY DEF IndInv, ThiefInv
<1>2. Valid(p)' <=> Valid(p)
  BY DEF Valid
<1>3. ta[p] \in 1 .. array /\ ta'[p] = ta[p]
  BY DEF IndInv, DequeTypeOK
<1>4. top < Limit => Load(ta[p], top)' = Load(ta[p], top)
  BY <1>3
<1> QED BY <1>1, <1>2, <1>4

(* Once top_ has moved nobody holds its value. *)
LEMMA ThiefPassed ==
  ASSUME IndInv, top' = top + 1, t' = t
  PROVE  ThiefInv'
<1>1. ASSUME NEW p \in Thieves PROVE t'[p] <= top' /\ ~Valid(p)'
  <2>1. t[p] <= top /\ t[p] \in Nat /\ top \in Nat
    BY DEF IndInv, DequeTypeOK, ThiefInv
  <2> QED BY <2>1 DEF Valid
<1> QED BY <1>1 DEF ThiefInv

----------------------------------------------------------------------------
(* The owner's steps.                                                       *)

(* push loads both indices. *)
LEMMA PushBeginStep == ASSUME IndInv, PushBegin PROVE IndInv'
<1>1. /\ owner = "idle" /\ owner' = "push" /\ pushed' = pushed + 1 /\ ob' = bottom /\ ot' = top
      /\ pushed < MaxPushes
      /\ UNCHANGED <<top, bottom, array, arrays, thief, t, ta, ti, oi, taken>>
  BY DEF PushBegin, Owner, thieves
<1>2. /\ \A k : ArrayCapacity(k)' = ArrayCapacity(k) /\ \A i : Load(k, i)' = Load(k, i)
      /\ \A i : At(i)' = At(i)
      /\ ArrayCapacity(array)' = ArrayCapacity(array)
  BY <1>1, SameArrays DEF At
<1>3. End' = End /\ Done' = Done /\ Limit' = Limit /\ End = bottom
  BY <1>1 DEF End, Done, Limit, Pushing, Popping, IndInv, DequeTypeOK
<1>4. bottom \in Nat
  BY <1>3, Numbers
<1>5. DequeTypeOK'
  BY <1>1, <1>2, <1>4, DequeAssumption, SMTT(40) DEF IndInv, DequeTypeOK
<1>6. OwnerInv'
  BY <1>1, <1>2, <1>3, <1>4, Numbers DEF IndInv, DequeTypeOK, OwnerInv, Pushing, Popping
<1>7. ThiefInv'
  BY <1>1, <1>2, <1>3, ThiefKept
<1>8. ContentInv'
  BY <1>1, <1>2, <1>3, ContentKept
<1> QED BY <1>5, <1>6, <1>7, <1>8 DEF IndInv

(* push copies the live items into an array twice as large. *)
LEMMA ResizeStep == ASSUME IndInv, Resize PROVE IndInv'
<1>1. /\ owner = "push" /\ owner' = "store" /\ array' = array + 1
      /\ UNCHANGED <<top, bottom, thief, t, ta, ti, ot, ob, oi, pushed, taken>>
  BY DEF Resize, Owner, thieves
<1>2. /\ ArrayCapacity(array)' = 2 * ArrayCapacity(array)
      /\ \A k \in 1 .. array : ArrayCapacity(k)' = ArrayCapacity(k) /\ \A i : Load(k, i)' = Load(k, i)
      /\ \A i \in ot .. ob - 1 : At(i)' = At(i)
      /\ arrays'[array + 1].storage \in [0 .. ArrayCapacity(array)' - 1 -> Values \cup {Garbage}]
  BY Resized
<1>3. End' = End /\ Done' = Done /\ Limit' = Limit /\ End = bottom /\ Limit = bottom
  BY <1>1 DEF End, Done, Limit, Pushing, Popping
<1>4. /\ top \in Nat /\ bottom \in Nat /\ ot \in Nat /\ ob = bottom /\ ot <= top /\ top <= ob
      /\ array \in Nat \ {0} /\ ArrayCapacity(array) \in Nat \ {0}
      /\ ob - ot <= ArrayCapacity(array) /\ pushed >= 1
  BY <1>1, <1>3, Numbers DEF IndInv, DequeTypeOK, OwnerInv, Pushing
<1>5. DequeTypeOK'
  <2>1. arrays' = [k \in 1 .. array' |-> arrays'[k]]
    BY <1>1, <1>4 DEF Resize
  <2>2. ASSUME NEW k \in 1 .. array'
        PROVE  /\ ArrayCapacity(k)' \in Nat \ {0}
               /\ arrays'[k] = [capacity |-> ArrayCapacity(k)', storage |-> arrays'[k].storage]
               /\ arrays'[k].storage \in [0 .. ArrayCapacity(k)' - 1 -> Values \cup {Garbage}]
    <3>1. CASE k \in 1 .. array
      <4>1. arrays'[k] = arrays[k]
        BY <1>4, <3>1 DEF Resize
      <4> QED BY <1>2, <3>1, <4>1 DEF IndInv, DequeTypeOK
    <3>2. CASE k = array + 1
      <4>1. ArrayCapacity(k)' = 2 * ArrayCapacity(array)
        BY <1>1, <1>2, <3>2 DEF ArrayCapacity
      <4>2. arrays'[k] = GrownArray
        BY <1>4, <3>2 DEF Resize
      <4>3. GrownArray = [capacity |-> GrownArray.capacity, storage |-> GrownArray.storage]
        BY DEF GrownArray
      <4>4. GrownArray.capacity = ArrayCapacity(k)'
        BY <4>2 DEF ArrayCapacity
      <4> QED BY <1>1, <1>2, <1>4, <3>2, <4>1, <4>2, <4>3, <4>4
    <3> QED BY <1>1, <1>4, <3>1, <3>2
  <2>3. ta \in [Thieves -> 1 .. array']
    BY <1>1, <1>4 DEF IndInv, DequeTypeOK
  <2> QED BY <1>1, <1>4, <2>1, <2>2, <2>3, SMTT(40) DEF IndInv, DequeTypeOK
<1>6. OwnerInv'
  BY <1>1, <1>2, <1>3, <1>4 DEF IndInv, OwnerInv, Pushing, Popping
<1>7. \A i \in Live : At(i)' = At(i)
  BY <1>2, <1>3, <1>4 DEF Live
<1>8. ThiefInv'
  <2>1. ASSUME top < Limit PROVE At(top)' = At(top)
    <3>1. \A i \in Nat : i = top => At(i)' = At(i)
      BY <1>2, <1>3, <1>4, <2>1
    <3> QED BY <1>1, <1>4, <3>1
  <2>2. \A k \in 1 .. array : Load(k, top)' = Load(k, top)
    BY <1>1, <1>2
  <2> QED BY <1>1, <1>3, <2>1, <2>2, ThiefKept
<1>9. ContentInv'
  BY <1>1, <1>3, <1>7, ContentKept
<1> QED BY <1>5, <1>6, <1>8, <1>9 DEF IndInv

(* The current array has room. *)
LEMMA NoResizeStep == ASSUME IndInv, NoResize PROVE IndInv'
<1>1. /\ owner = "push" /\ owner' = "store" /\ ~NeedsResize
      /\ UNCHANGED <<top, bottom, array, arrays, thief, t, ta, ti, ot, ob, oi, pushed, taken>>
  BY DEF NoResize, Owner, thieves
<1>2. /\ \A k : ArrayCapacity(k)' = ArrayCapacity(k) /\ \A i : Load(k, i)' = Load(k, i)
      /\ \A i : At(i)' = At(i)
      /\ ArrayCapacity(array)' = ArrayCapacity(array)
  BY <1>1, SameArrays DEF At
<1>3. End' = End /\ Done' = Done /\ Limit' = Limit
  BY <1>1 DEF End, Done, Limit, Pushing, Popping
<1>5. DequeTypeOK'
  BY <1>1, <1>2 DEF IndInv, DequeTypeOK
<1>6. OwnerInv'
  BY <1>1, <1>2, <1>3, Numbers, SMTT(40) DEF IndInv, DequeTypeOK, OwnerInv, Pushing, Popping, NeedsResize
<1>7. ThiefInv'
  BY <1>1, <1>2, <1>3, ThiefKept
<1>8. ContentInv'
  BY <1>1, <1>2, <1>3, ContentKept
<1> QED BY <1>5, <1>6, <1>7, <1>8 DEF IndInv

(* push stores the item behind the live ones. *)
LEMMA PushStoreStep == ASSUME IndInv, PushStore PROVE IndInv'
<1>1. /\ owner = "store" /\ owner' = "publish"
      /\ UNCHANGED <<top, bottom, array, thief, t, ta, ti, ot, ob, oi, pushed, taken>>
  BY DEF PushStore, Owner, thieves
<1>2. /\ \A k \in 1 .. array : ArrayCapacity(k)' = ArrayCapacity(k)
      /\ \A k \in 1 .. array : \A i \in top .. ob - 1 : Load(k, i)' = Load(k, i)
      /\ At(ob)' = pushed
      /\ DequeTypeOK'
  BY Stored
<1>3. End' = End /\ Done' = Done /\ Limit' = Limit /\ End = bottom /\ Limit = bottom
  BY <1>1 DEF End, Done, Limit, Pushing, Popping
<1>4. top \in Nat /\ bottom \in Nat /\ ob = bottom /\ array \in Nat \ {0}
  BY <1>1, <1>3, Numbers DEF IndInv, OwnerInv, Pushing
<1>5. ArrayCapacity(array)' = ArrayCapacity(array) /\ \A i \in top .. ob - 1 : At(i)' = At(i)
  BY <1>1, <1>2, <1>4 DEF At
<1>6. OwnerInv'
  BY <1>1, <1>2, <1>3, <1>5 DEF IndInv, OwnerInv, Pushing, Popping
<1>7. ThiefInv'
  <2>1. ASSUME top < Limit, NEW k \in 1 .. array PROVE Load(k, top)' = Load(k, top)
    <3>1. top \in top .. ob - 1
      BY <1>3, <1>4, <2>1
    <3> QED BY <1>1, <1>2, <3>1
  <2>2. ASSUME top < Limit PROVE At(top)' = At(top)
    <3>1. array \in 1 .. array
      BY <1>4
    <3> QED BY <1>1, <2>1, <2>2, <3>1 DEF At
  <2> QED BY <1>1, <1>3, <2>1, <2>2, ThiefKept
<1>8. ContentInv'
  BY <1>1, <1>3, <1>4, <1>5, ContentKept DEF Live
<1> QED BY <1>2, <1>6, <1>7, <1>8 DEF IndInv

(* The store to bottom_ makes the item live. *)
LEMMA PushPublishStep == ASSUME IndInv, PushPublish PROVE IndInv'
<1>1. /\ owner = "publish" /\ owner' = "idle" /\ bottom' = ob + 1
      /\ UNCHANGED <<top, array, arrays, thief, t, ta, ti, ot, ob, oi, pushed, taken>>
  BY DEF PushPublish, Owner, thieves
<1>2. /\ \A k : ArrayCapacity(k)' = ArrayCapacity(k) /\ \A i : Load(k, i)' = Load(k, i)
      /\ \A i : At(i)' = At(i)
      /\ ArrayCapacity(array)' = ArrayCapacity(array)
  BY <1>1, SameArrays DEF At
<1>3. End = bottom /\ Limit = bottom /\ End' = bottom' /\ Limit' = bottom'
  BY <1>1 DEF End, Limit, Popping
<1>4. /\ top \in Nat /\ bottom \in Nat /\ ob = bottom /\ ot \in Nat /\ ot <= top /\ top <= bottom
      /\ ArrayCapacity(array) \in Nat \ {0} /\ ob - ot <= ArrayCapacity(array) - 1
  BY <1>1, <1>3, Numbers DEF IndInv, DequeTypeOK, OwnerInv, Pushing
<1>5. DequeTypeOK'
  BY <1>1, <1>2, <1>4, SMTT(40) DEF IndInv, DequeTypeOK
<1>6. OwnerInv'
  BY <1>1, <1>2, <1>3, <1>4 DEF OwnerInv, Pushing, Popping
<1>7. ThiefInv'
  BY <1>1, <1>2, <1>3, <1>4, ThiefKept
<1>8. ContentInv'
  BY ContentPublished
<1> QED BY <1>5, <1>6, <1>7, <1>8 DEF IndInv

(* pop lowers bottom_ before it looks at top_. *)
LEMMA PopBeginStep == ASSUME IndInv, PopBegin PROVE IndInv'
<1>1. /\ owner = "idle" /\ owner' = "fence" /\ ob' = bottom - 1 /\ bottom' = bottom - 1
      /\ UNCHANGED <<top, array, arrays, thief, t, ta, ti, ot, oi, pushed, taken>>
  BY DEF PopBegin, Owner, thieves
<1>2. /\ \A k : ArrayCapacity(k)' = ArrayCapacity(k) /\ \A i : Load(k, i)' = Load(k, i)
      /\ \A i : At(i)' = At(i)
      /\ ArrayCapacity(array)' = ArrayCapacity(array)
  BY <1>1, SameArrays DEF At
<1>3. End = bottom /\ Limit = bottom /\ bottom \in Nat
  BY <1>1, Numbers DEF End, Limit, Popping
<1>4. End' = End /\ Limit' = Limit /\ Done' = Done
  BY <1>1, <1>3 DEF End, Limit, Done, Pushing, Popping
<1>5. DequeTypeOK'
  BY <1>1, <1>2, <1>3 DEF IndInv, DequeTypeOK
<1>6. OwnerInv'
  BY <1>1, <1>2, <1>4 DEF IndInv, OwnerInv, Pushing, Popping
<1>7. ThiefInv'
  BY <1>1, <1>2, <1>4, ThiefKept
<1>8. ContentInv'
  BY <1>1, <1>2, <1>4, ContentKept
<1> QED BY <1>5, <1>6, <1>7, <1>8 DEF IndInv

(* pop loads top_ and finds items or none. *)
LEMMA PopLoadStep == ASSUME IndInv, PopLoad PROVE IndInv'
<1>1. /\ owner = "fence" /\ owner' = (IF top <= ob THEN "got" ELSE "restore") /\ ot' = top
      /\ oi' = (IF top <= ob THEN Load(array, ob) ELSE Garbage)
      /\ UNCHANGED <<top, bottom, array, arrays, thief, t, ta, ti, ob, pushed, taken>>
  BY DEF PopLoad, Owner, thieves
<1>2. /\ \A k : ArrayCapacity(k)' = ArrayCapacity(k) /\ \A i : Load(k, i)' = Load(k, i)
      /\ \A i : At(i)' = At(i)
      /\ ArrayCapacity(array)' = ArrayCapacity(array)
  BY <1>1, SameArrays DEF At
<1>3. /\ End = ob + 1 /\ Limit = ob + 1 /\ top \in Nat /\ ob \in Int /\ top <= ob + 1
      /\ bottom = ob /\ array \in Nat \ {0}
  BY <1>1, Numbers DEF End, Limit, Popping, IndInv, DequeTypeOK, OwnerInv
<1>4. End' = End /\ Done' = Done /\ (top < Limit => top < Limit')
  BY <1>1, <1>3 DEF End, Limit, Done, Pushing, Popping
<1>5. oi' \in Values \cup {Garbage} /\ (top <= ob => oi' = At(ob))
  <2>1. top <= ob => ob \in Nat /\ array \in 1 .. array
    BY <1>3
  <2> QED BY <1>1, <2>1, LoadType DEF IndInv, At
<1>6. DequeTypeOK'
  BY <1>1, <1>2, <1>3, <1>5 DEF IndInv, DequeTypeOK
<1>7. OwnerInv'
  <2>1. CASE top <= ob
    <3>1. owner' = "got" /\ ot' <= ob' /\ ot' <= top' /\ top' <= Limit' /\ oi' = At(ob)'
      BY <1>1, <1>2, <1>3, <1>5, <2>1 DEF Limit
    <3> QED BY <1>1, <1>2, <1>3, <1>4, <3>1 DEF IndInv, OwnerInv, Pushing, Popping
  <2>2. CASE ~(top <= ob)
    <3>1. owner' = "restore" /\ top' = ob' + 1
      BY <1>1, <1>3, <2>2
    <3> QED BY <1>1, <1>2, <1>3, <1>4, <3>1 DEF IndInv, OwnerInv, Pushing, Popping
  <2> QED BY <2>1, <2>2
<1>8. ThiefInv'
  BY <1>1, <1>2, <1>4, ThiefKept
<1>9. ContentInv'
  BY <1>1, <1>2, <1>4, ContentKept
<1> QED BY <1>6, <1>7, <1>8, <1>9 DEF IndInv

(* What taking an item means to the type invariant. *)
LEMMA TakenType ==
  ASSUME DequeTypeOK, NEW i, Taken(i)
  PROVE  taken' \in [Values -> Nat]
  BY DEF DequeTypeOK, Taken

(* An item leaves at the end of the deque that is the taker's. *)
OldestLeaves == \A x \in Values : taken'[x] > taken[x] =>
                   \A j \in 1 .. pushed : j < x => taken[j] > 0
YoungestLeaves == \A x \in Values : taken'[x] > taken[x] =>
                     \A j \in 1 .. pushed : j > x => taken[j] > 0

(* More than one item: pop takes the youngest, out of reach of every thief. *)
LEMMA PopReturnsStep == ASSUME IndInv, PopReturns PROVE IndInv' /\ YoungestLeaves
<1>1. /\ owner = "got" /\ owner' = "idle" /\ ot # ob /\ Taken(oi)
      /\ UNCHANGED <<top, bottom, array, arrays, thief, t, ta, ti, ot, ob, oi, pushed>>
  BY DEF PopReturns, Owner, thieves, LastItem
<1>2. /\ \A k : ArrayCapacity(k)' = ArrayCapacity(k) /\ \A i : Load(k, i)' = Load(k, i)
      /\ \A i : At(i)' = At(i)
      /\ ArrayCapacity(array)' = ArrayCapacity(array)
  BY <1>1, SameArrays DEF At
<1>3. /\ End = ob + 1 /\ Limit = ob /\ bottom = ob /\ top <= ob /\ oi = At(ob)
      /\ top \in Nat /\ ob \in Nat /\ Done = pushed
  BY <1>1, Numbers DEF End, Limit, Done, Pushing, Popping, IndInv, DequeTypeOK, OwnerInv
<1>4. End' = End - 1 /\ End - 1 = ob /\ Done' = Done /\ Limit' = Limit /\ top < End
  BY <1>1, <1>3 DEF End, Limit, Done, Pushing, Popping
<1>5. DequeTypeOK'
  BY <1>1, <1>2, <1>3, TakenType DEF IndInv, DequeTypeOK
<1>6. OwnerInv'
  <2>1. ArrayCapacity(array) \in Nat
    BY Numbers
  <2> QED BY <1>1, <1>2, <1>3, <1>4, <2>1 DEF IndInv, OwnerInv, Pushing, Popping
<1>7. ThiefInv'
  BY <1>1, <1>2, <1>4, ThiefKept
<1>8. Taken(At(End - 1))
  BY <1>1, <1>3, <1>4
<1>9. ContentInv' /\ YoungestLeaves
  BY <1>1, <1>2, <1>3, <1>4, <1>8, ContentLast DEF YoungestLeaves
<1> QED BY <1>5, <1>6, <1>7, <1>9 DEF IndInv

(* The last item: pop wins the race for it. *)
LEMMA PopWinsStep == ASSUME IndInv, PopWins PROVE IndInv' /\ YoungestLeaves
<1>1. /\ owner = "got" /\ owner' = "restore" /\ ot = ob /\ top = ot /\ top' = ot + 1 /\ Taken(oi)
      /\ UNCHANGED <<bottom, array, arrays, thief, t, ta, ti, ot, ob, oi, pushed>>
  BY DEF PopWins, Owner, thieves, LastItem
<1>2. /\ \A k : ArrayCapacity(k)' = ArrayCapacity(k) /\ \A i : Load(k, i)' = Load(k, i)
      /\ \A i : At(i)' = At(i)
      /\ ArrayCapacity(array)' = ArrayCapacity(array)
  BY <1>1, SameArrays DEF At
<1>3. /\ End = ob + 1 /\ bottom = ob /\ oi = At(top) /\ top \in Nat /\ ob \in Nat
      /\ Done = pushed
  BY <1>1, Numbers DEF End, Done, Pushing, Popping, IndInv, DequeTypeOK, OwnerInv
<1>4. End' = End /\ Done' = Done /\ top < End /\ top' = top + 1
  BY <1>1, <1>3 DEF End, Done, Pushing, Popping
<1>5. DequeTypeOK'
  BY <1>1, <1>2, <1>3, TakenType DEF IndInv, DequeTypeOK
<1>6. OwnerInv'
  <2>1. ArrayCapacity(array) \in Nat
    BY Numbers
  <2> QED BY <1>1, <1>2, <1>3, <1>4, <2>1 DEF OwnerInv, Pushing, Popping
<1>7. ThiefInv'
  BY <1>1, <1>4, ThiefPassed
<1>8. /\ ContentInv'
      /\ \A x \in Values : taken'[x] > taken[x] => x = At(top)
  BY <1>1, <1>2, <1>3, <1>4, ContentFirst
<1>9. YoungestLeaves
  <2> SUFFICES ASSUME NEW x \in Values, taken'[x] > taken[x], NEW j \in 1 .. pushed, j > x
               PROVE  taken[j] > 0
    BY DEF YoungestLeaves
  <2>1. x = At(top) /\ x \in Nat
    BY <1>8 DEF Values
  <2>2. Live = {top}
    BY <1>1, <1>3 DEF Live
  <2>3. j \in Values /\ j <= Done /\ taken[j] \in Nat /\ j \in Nat
    BY <1>3, Numbers, DequeAssumption DEF Values
  <2>4. taken[j] # 0
    BY <2>1, <2>2, <2>3 DEF IndInv, ContentInv, TakenInv
  <2> QED BY <2>3, <2>4
<1> QED BY <1>5, <1>6, <1>7, <1>8, <1>9 DEF IndInv

(* The last item: a thief was faster. *)
LEMMA PopLosesStep == ASSUME IndInv, PopLoses PROVE IndInv'
<1>1. /\ owner = "got" /\ owner' = "restore" /\ ot = ob /\ top # ot
      /\ UNCHANGED <<top, bottom, array, arrays, thief, t, ta, ti, ot, ob, oi, pushed, taken>>
  BY DEF PopLoses, Owner, thieves, LastItem
<1>2. /\ \A k : ArrayCapacity(k)' = ArrayCapacity(k) /\ \A i : Load(k, i)' = Load(k, i)
      /\ \A i : At(i)' = At(i)
      /\ ArrayCapacity(array)' = ArrayCapacity(array)
  BY <1>1, SameArrays DEF At
<1>3. /\ End = ob + 1 /\ Limit = ob + 1 /\ bottom = ob /\ top \in Nat /\ ob \in Nat
      /\ top = ob + 1
  BY <1>1, Numbers DEF End, Limit, Popping, IndInv, DequeTypeOK, OwnerInv
<1>4. End' = End /\ Done' = Done /\ ~(top < Limit)
  BY <1>1, <1>3 DEF End, Done, Pushing, Popping
<1>5. DequeTypeOK'
  BY <1>1, <1>2, <1>3 DEF IndInv, DequeTypeOK
<1>6. OwnerInv'
  BY <1>1, <1>2, <1>3, <1>4 DEF IndInv, OwnerInv, Pushing, Popping
<1>7. ThiefInv'
  BY <1>1, <1>4, ThiefKept
<1>8. ContentInv'
  BY <1>1, <1>2, <1>4, ContentKept
<1> QED BY <1>5, <1>6, <1>7, <1>8 DEF IndInv

(* pop sets bottom_ back. *)
LEMMA PopRestoreStep == ASSUME IndInv, PopRestore PROVE IndInv'
<1>1. /\ owner = "restore" /\ owner' = "idle" /\ bottom' = ob + 1
      /\ UNCHANGED <<top, array, arrays, thief, t, ta, ti, ot, ob, oi, pushed, taken>>
  BY DEF PopRestore, Owner, thieves, Restored
<1>2. /\ \A k : ArrayCapacity(k)' = ArrayCapacity(k) /\ \A i : Load(k, i)' = Load(k, i)
      /\ \A i : At(i)' = At(i)
      /\ ArrayCapacity(array)' = ArrayCapacity(array)
  BY <1>1, SameArrays DEF At
<1>3. /\ End = ob + 1 /\ Limit = bottom /\ bottom = ob /\ top \in Nat /\ ob \in Int
      /\ top = ob + 1
  BY <1>1, Numbers DEF End, Limit, Popping, IndInv, DequeTypeOK, OwnerInv
<1>4. End' = End /\ Done' = Done /\ ~(top < Limit)
  BY <1>1, <1>3 DEF End, Done, Pushing, Popping
<1>5. DequeTypeOK'
  BY <1>1, <1>2, <1>3 DEF IndInv, DequeTypeOK
<1>6. OwnerInv'
  BY <1>1, <1>2, <1>3, <1>4 DEF IndInv, OwnerInv, Pushing, Popping
<1>7. ThiefInv'
  BY <1>1, <1>4, ThiefKept
<1>8. ContentInv'
  BY <1>1, <1>2, <1>4, ContentKept
<1> QED BY <1>5, <1>6, <1>7, <1>8 DEF IndInv

----------------------------------------------------------------------------
(* The thieves' steps.                                                      *)

(* What a thief does before its compare-and-swap, and losing it, changes    *)
(* only the thief.                                                          *)
LEMMA StealReads ==
  ASSUME IndInv, NEW p \in Thieves,
         \/ StealBegin(p) \/ StealLoadBottom(p) \/ StealLoadArray(p)
         \/ StealRead(p) \/ StealLoses(p)
  PROVE  IndInv'
<1>1. /\ UNCHANGED <<top, bottom, array, arrays, owner, ot, ob, oi, pushed, taken>>
      /\ \A q \in Thieves \ {p} : thief'[q] = thief[q] /\ t'[q] = t[q] /\ ta'[q] = ta[q] /\ ti'[q] = ti[q]
  BY DEF StealBegin, StealLoadBottom, StealLoadArray, StealRead, StealLoses, Thief, owners,
         IndInv, DequeTypeOK
<1>2. /\ \A k : ArrayCapacity(k)' = ArrayCapacity(k) /\ \A i : Load(k, i)' = Load(k, i)
      /\ \A i : At(i)' = At(i)
      /\ ArrayCapacity(array)' = ArrayCapacity(array)
      /\ At(top)' = At(top) /\ At(ob)' = At(ob)
  BY <1>1, SameArrays DEF At
<1>3. End' = End /\ Done' = Done /\ Limit' = Limit
  BY <1>1 DEF End, Done, Limit, Pushing, Popping
<1>4. /\ thief' \in [Thieves -> {"idle", "bottom", "array", "read", "cas"}]
      /\ t' \in [Thieves -> Nat] /\ ta' \in [Thieves -> 1 .. array]
      /\ ti' \in [Thieves -> Values \cup {Garbage}]
  <2>0. /\ top \in Nat /\ array \in Nat \ {0} /\ t \in [Thieves -> Nat] /\ ta \in [Thieves -> 1 .. array]
        /\ thief \in [Thieves -> {"idle", "bottom", "array", "read", "cas"}]
        /\ ti \in [Thieves -> Values \cup {Garbage}]
    BY DEF IndInv, DequeTypeOK
  <2>1. CASE StealBegin(p) BY <2>0, <2>1 DEF StealBegin, Thief
  <2>2. CASE StealLoadBottom(p) BY <2>0, <2>2 DEF StealLoadBottom, Thief
  <2>3. CASE StealLoadArray(p)
    <3>1. array \in 1 .. array
      BY <2>0
    <3> QED BY <2>0, <2>3, <3>1 DEF StealLoadArray, Thief
  <2>4. CASE StealRead(p)
    <3>1. Load(ta[p], t[p]) \in Values \cup {Garbage}
      BY <2>0, LoadType DEF IndInv
    <3> QED BY <2>0, <2>4, <3>1 DEF StealRead, Thief
  <2>5. CASE StealLoses(p) BY <2>0, <2>5 DEF StealLoses, Thief
  <2> QED BY <2>1, <2>2, <2>3, <2>4, <2>5
<1>5. DequeTypeOK'
  BY <1>1, <1>2, <1>4 DEF IndInv, DequeTypeOK
<1>6. OwnerInv'
  BY <1>1, <1>2, <1>3 DEF IndInv, OwnerInv, Pushing, Popping
<1>7. ThiefInv'
  <2> SUFFICES ASSUME NEW q \in Thieves
               PROVE  /\ t'[q] <= top
                      /\ Valid(q)' => top < Limit
                      /\ Valid(q)' /\ thief'[q] = "read" => Load(ta'[q], top) = At(top)
                      /\ Valid(q)' /\ thief'[q] = "cas" => ti'[q] = At(top)
    BY <1>1, <1>2, <1>3 DEF ThiefInv
  <2>1. /\ t[q] <= top
        /\ Valid(q) => top < Limit
        /\ Valid(q) /\ thief[q] = "read" => Load(ta[q], top) = At(top)
        /\ Valid(q) /\ thief[q] = "cas" => ti[q] = At(top)
    BY DEF IndInv, ThiefInv
  <2>2. CASE q # p
    <3>1. thief'[q] = thief[q] /\ t'[q] = t[q] /\ ta'[q] = ta[q] /\ ti'[q] = ti[q]
      BY <1>1, <2>2
    <3>2. Valid(q)' <=> Valid(q)
      BY <1>1, <3>1 DEF Valid
    <3> QED BY <2>1, <3>1, <3>2
  <2>3. CASE q = p
    <3>0. top \in Nat /\ bottom \in Int /\ t[p] \in Nat
      BY DEF IndInv, DequeTypeOK
    <3>1. CASE StealBegin(p)
      <4>1. thief'[q] = "bottom" /\ t'[q] = top
        BY <2>3, <3>1 DEF StealBegin, Thief, IndInv, DequeTypeOK
      <4> QED BY <3>0, <4>1 DEF Valid
    <3>2. CASE StealLoadBottom(p)
      <4>1. /\ thief'[q] = (IF t[q] < bottom THEN "array" ELSE "idle") /\ t'[q] = t[q]
        BY <2>3, <3>2 DEF StealLoadBottom, Thief, IndInv, DequeTypeOK
      <4>2. Valid(q)' => top < bottom
        BY <1>1, <4>1 DEF Valid
      <4>3. bottom <= Limit
        BY <3>0 DEF Limit, IndInv, DequeTypeOK, OwnerInv, Popping
      <4>4. Limit \in Int
        BY <3>0, SMTT(40) DEF Limit, IndInv, DequeTypeOK
      <4> QED BY <2>1, <3>0, <4>1, <4>2, <4>3, <4>4
    <3>3. CASE StealLoadArray(p)
      <4>1. thief[q] = "array" /\ thief'[q] = "read" /\ t'[q] = t[q] /\ ta'[q] = array
        BY <2>3, <3>3 DEF StealLoadArray, Thief, IndInv, DequeTypeOK
      <4>2. Valid(q)' <=> Valid(q)
        BY <1>1, <4>1 DEF Valid
      <4> QED BY <2>1, <4>1, <4>2 DEF At
    <3>4. CASE StealRead(p)
      <4>1. /\ thief[q] = "read" /\ thief'[q] = "cas" /\ t'[q] = t[q]
            /\ ti'[q] = Load(ta[q], t[q])
        BY <2>3, <3>4 DEF StealRead, Thief, IndInv, DequeTypeOK
      <4>2. Valid(q)' <=> Valid(q)
        BY <1>1, <4>1 DEF Valid
      <4>3. Valid(q) => t[q] = top
        BY DEF Valid
      <4> QED BY <2>1, <4>1, <4>2, <4>3
    <3>5. CASE StealLoses(p)
      <4>1. thief'[q] = "idle" /\ t'[q] = t[q]
        BY <2>3, <3>5 DEF StealLoses, Thief, IndInv, DequeTypeOK
      <4> QED BY <2>1, <4>1 DEF Valid
    <3> QED BY <3>1, <3>2, <3>3, <3>4, <3>5
  <2> QED BY <2>2, <2>3
<1>8. ContentInv'
  BY <1>1, <1>2, <1>3, ContentKept
<1> QED BY <1>5, <1>6, <1>7, <1>8 DEF IndInv

(* A thief that wins the compare-and-swap takes the oldest item. *)
LEMMA StealWinsStep ==
  ASSUME IndInv, NEW p \in Thieves, StealWins(p)
  PROVE  IndInv' /\ OldestLeaves
<1>1. /\ thief[p] = "cas" /\ top = t[p] /\ top' = top + 1 /\ Taken(ti[p])
      /\ thief' = [thief EXCEPT ![p] = "idle"]
      /\ UNCHANGED <<bottom, array, arrays, t, ta, ti, owner, ot, ob, oi, pushed>>
  BY DEF StealWins, Thief, owners
<1>2. /\ \A k : ArrayCapacity(k)' = ArrayCapacity(k) /\ \A i : Load(k, i)' = Load(k, i)
      /\ \A i : At(i)' = At(i)
      /\ ArrayCapacity(array)' = ArrayCapacity(array)
  BY <1>1, SameArrays DEF At
<1>3. top < Limit /\ ti[p] = At(top)
  BY <1>1 DEF IndInv, ThiefInv, Valid
<1>4. /\ top \in Nat /\ End' = End /\ Done' = Done /\ Limit' = Limit
      /\ Limit <= End /\ Limit \in Int /\ End \in Nat /\ ArrayCapacity(array) \in Nat
  <2>1. End' = End /\ Done' = Done /\ Limit' = Limit
    BY <1>1 DEF End, Done, Limit, Pushing, Popping
  <2>2. Limit <= End /\ Limit \in Int
    BY DEF Limit, End, Popping, IndInv, DequeTypeOK, OwnerInv
  <2> QED BY <2>1, <2>2, Numbers
<1>5. DequeTypeOK'
  <2>1. taken' \in [Values -> Nat]
    BY <1>1, TakenType DEF IndInv
  <2>2. thief' \in [Thieves -> {"idle", "bottom", "array", "read", "cas"}]
    BY <1>1 DEF IndInv, DequeTypeOK
  <2> QED BY <1>1, <1>2, <1>4, <2>1, <2>2, SMTT(40) DEF IndInv, DequeTypeOK
<1>6. OwnerInv'
  <2>1. owner # "restore"
    <3>1. owner = "restore" => top = ob + 1 /\ Limit = ob /\ ob \in Int
      BY DEF IndInv, DequeTypeOK, OwnerInv, Limit, Popping
    <3> QED BY <1>3, <1>4, <3>1
  <2>2. At(ob)' = At(ob)
    BY <1>1, <1>2
  <2>3. /\ top' <= End' /\ End' - top' <= ArrayCapacity(array)'
        /\ Pushing' => ob' - ot' <= ArrayCapacity(array)' /\ ot' <= top'
        /\ owner' = "got" => ot' <= top' /\ top' <= Limit'
    BY <1>1, <1>2, <1>3, <1>4, SMTT(40) DEF IndInv, DequeTypeOK, OwnerInv, Pushing
  <2> QED BY <1>1, <1>2, <2>1, <2>2, <2>3 DEF IndInv, OwnerInv, Pushing, Popping
<1>7. ThiefInv'
  BY <1>1, ThiefPassed
<1>8. ContentInv' /\ OldestLeaves
  BY <1>1, <1>2, <1>3, <1>4, ContentFirst DEF OldestLeaves
<1> QED BY <1>5, <1>6, <1>7, <1>8 DEF IndInv

(* Every step of the owner and the thieves keeps the invariant. *)
LEMMA StepInv == IndInv /\ [DequeNext]_dequeVars => IndInv'
<1> SUFFICES ASSUME IndInv, [DequeNext]_dequeVars PROVE IndInv'
  OBVIOUS
<1>1. CASE UNCHANGED dequeVars
  <2>1. /\ \A k : ArrayCapacity(k)' = ArrayCapacity(k) /\ \A i : Load(k, i)' = Load(k, i)
        /\ \A i : At(i)' = At(i)
        /\ ArrayCapacity(array)' = ArrayCapacity(array) /\ At(ob)' = At(ob)
    BY <1>1, SameArrays DEF At, dequeVars
  <2>2. End' = End /\ Done' = Done /\ Limit' = Limit
    BY <1>1 DEF End, Done, Limit, Pushing, Popping, dequeVars
  <2>3. DequeTypeOK'
    BY <1>1, <2>1 DEF IndInv, DequeTypeOK, dequeVars
  <2>4. OwnerInv'
    BY <1>1, <2>1, <2>2 DEF IndInv, OwnerInv, Pushing, Popping, dequeVars
  <2>5. ThiefInv'
    BY <1>1, <2>1, <2>2, ThiefKept DEF dequeVars
  <2>6. ContentInv'
    BY <1>1, <2>1, <2>2, ContentKept DEF dequeVars
  <2> QED BY <2>3, <2>4, <2>5, <2>6 DEF IndInv
<1>2. CASE DequeNext
  BY <1>2, PushBeginStep, ResizeStep, NoResizeStep, PushStoreStep, PushPublishStep, PopBeginStep,
     PopLoadStep, PopReturnsStep, PopWinsStep, PopLosesStep, PopRestoreStep, StealReads,
     StealWinsStep
     DEF DequeNext
<1> QED BY <1>1, <1>2

(* The live positions hold exactly what was pushed and not yet returned, in  *)
(* order, and a thief that would win its CAS has read the item at top_.      *)
THEOREM Inductive == DequeSpec => []IndInv
  BY InitInv, StepInv, PTL DEF DequeSpec

(* Owner and thieves together return every pushed item at most once: pop's  *)
(* and steal's compare-and-swap on top_ decide the race for the last one.   *)
THEOREM ReturnedOnce == DequeSpec => []NeverTwice
<1>1. IndInv => NeverTwice
  BY DEF IndInv, ContentInv, TakenInv, NeverTwice
<1> QED BY <1>1, Inductive, PTL

(* Between two calls of the owner every pushed item is in the deque or has   *)
(* been returned, and not both.                                              *)
THEOREM NoneLost == DequeSpec => []NothingLost
<1>1. IndInv => NothingLost
  <2> SUFFICES ASSUME IndInv, owner = "idle"
               PROVE  top <= bottom /\ \A x \in 1 .. pushed : x \in Content <=> taken[x] = 0
    BY DEF NothingLost
  <2>1. End = bottom /\ Done = pushed
    BY DEF End, Done, Pushing, Popping
  <2>2. Content = {At(i) : i \in Live}
    BY <2>1 DEF Content, At, Live
  <2>3. ASSUME NEW x \in 1 .. pushed PROVE x \in Content <=> taken[x] = 0
    <3>1. x \in Values /\ x <= Done
      BY <2>1, DequeAssumption DEF IndInv, DequeTypeOK, Values
    <3>2. taken[x] = 0 => x \in Content
      BY <2>2, <3>1 DEF IndInv, ContentInv, TakenInv
    <3>3. x \in Content => taken[x] = 0
      BY <2>2 DEF IndInv, ContentInv, LiveInv
    <3> QED BY <3>2, <3>3
  <2> QED BY <2>1, <2>3, Numbers
<1> QED BY <1>1, Inductive, PTL

(* A thief takes the oldest item there is and the owner the youngest.        *)
THEOREM OppositeEnds == DequeSpec => Ends
<1>1. IndInv /\ [DequeNext]_dequeVars =>
        [ \A i \in Values : taken'[i] > taken[i] =>
            IF owner' = owner
            THEN \A j \in 1 .. pushed : j < i => taken[j] > 0
            ELSE \A j \in 1 .. pushed : j > i => taken[j] > 0 ]_dequeVars
  <2> SUFFICES ASSUME IndInv, DequeNext, NEW i \in Values, taken'[i] > taken[i]
               PROVE  IF owner' = owner
                      THEN \A j \in 1 .. pushed : j < i => taken[j] > 0
                      ELSE \A j \in 1 .. pushed : j > i => taken[j] > 0
    OBVIOUS
  <2>1. taken' # taken
    BY DEF IndInv, DequeTypeOK
  <2>2. CASE PopReturns \/ PopWins
    <3>1. owner' # owner
      BY <2>2 DEF PopReturns, PopWins, Owner
    <3>2. YoungestLeaves
      BY <2>2, PopReturnsStep, PopWinsStep
    <3> QED BY <3>1, <3>2 DEF YoungestLeaves
  <2>3. CASE \E p \in Thieves : StealWins(p)
    <3>1. owner' = owner
      BY <2>3 DEF StealWins, owners
    <3>2. OldestLeaves
      BY <2>3, StealWinsStep
    <3> QED BY <3>1, <3>2 DEF OldestLeaves
  <2>4. PopReturns \/ PopWins \/ \E p \in Thieves : StealWins(p)
    BY <2>1 DEF DequeNext, PushBegin, Resize, NoResize, PushStore, PushPublish, PopBegin, PopLoad,
                PopLoses, PopRestore, StealBegin, StealLoadBottom, StealLoadArray, StealRead,
                StealLoses
  <2> QED BY <2>2, <2>3, <2>4
<1> QED BY <1>1, Inductive, PTL DEF DequeSpec, Ends
=============================================================================

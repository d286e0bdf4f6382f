-------------------------- MODULE WorkStealingDeque --------------------------
(***************************************************************************)
(* include/jellybean/scheduler/work_stealing_deque.hpp: the Chase-Lev      *)
(* deque.  One owner thread pushes and pops at the bottom, thieves steal   *)
(* at the top.  Every load, store and CAS of top_, bottom_ and array_ and  *)
(* every access to an array is a step of its own; the sequentially         *)
(* consistent fences of pop and steal are what allows the steps to be      *)
(* interleaved in program order.  The owner's items are numbered in the    *)
(* order it pushes them.                                                   *)
(***************************************************************************)
EXTENDS Integers

CONSTANTS Thieves,          \* threads that call steal
          initial_capacity, \* a power of two
          MaxPushes         \* bound: items the owner pushes

ASSUME DequeAssumption == initial_capacity \in Nat \ {0} /\ MaxPushes \in Nat

\* Storage of a fresh array: new T[cap] leaves it uninitialised.
Garbage == 0

Values == 1 .. MaxPushes

VARIABLES top, bottom,  \* top_, bottom_
          array,        \* array_: index into arrays
          arrays,       \* every array allocated: the last is current, the others garbage_
          owner,        \* where the owner is in push / pop
          thief,        \* where each thief is in steal
          t,            \* the thieves' local copies of top_
          ot, ob,       \* the owner's local copies
          ta,           \* a thief's local array pointer
          ti,           \* the item a thief has read
          oi,           \* the item pop has read
          pushed,       \* how many items have been pushed
          taken         \* history: for each item, how often it was returned

dequeVars == <<top, bottom, array, arrays, owner, thief, t, ot, ob, ta, ti, oi, pushed, taken>>

thieves == <<thief, t, ta, ti>>

NewArray(cap) == [capacity |-> cap, storage |-> [s \in 0 .. cap - 1 |-> Garbage]]

ArrayCapacity(k) == arrays[k].capacity

\* i & mask(): capacities are powers of two.
Slot(k, i) == i % ArrayCapacity(k)

\* Array::load
Load(k, i) == arrays[k].storage[Slot(k, i)]

DequeInit ==
    /\ top = 0 /\ bottom = 0
    /\ array = 1
    /\ arrays = [k \in {1} |-> NewArray(initial_capacity)]
    /\ owner = "idle"
    /\ thief = [p \in Thieves |-> "idle"]
    /\ t = [p \in Thieves |-> 0]
    /\ ot = 0 /\ ob = 0
    /\ ta = [p \in Thieves |-> 1]
    /\ ti = [p \in Thieves |-> Garbage]
    /\ oi = Garbage
    /\ pushed = 0
    /\ taken = [i \in Values |-> 0]

Owner(from, to) == owner = from /\ owner' = to

\* An operation returns item i.
Taken(i) == taken' = IF i \in Values THEN [taken EXCEPT ![i] = @ + 1] ELSE taken

----------------------------------------------------------------------------
(* push: b and a never change under the owner; t is stale as soon as it is read *)

PushBegin ==
    /\ pushed < MaxPushes
    /\ Owner("idle", "push")
    /\ pushed' = pushed + 1
    /\ ob' = bottom
    /\ ot' = top
    /\ UNCHANGED <<top, bottom, array, arrays, thieves, oi, taken>>

NeedsResizeLate == ob - ot > ArrayCapacity(array)   \* mutant

\* b - t > a->capacity - 1
NeedsResize == ob - ot > ArrayCapacity(array) - 1

CopyFromNext == ot + 1   \* mutant: the oldest element is not copied
CopyFrom == ot

\* The array of twice the size of the current one, with [t, b) copied into it.
GrownArray ==
    LET cap == 2 * ArrayCapacity(array)
    IN  [capacity |-> cap,
         storage  |-> [s \in 0 .. cap - 1 |->
                         LET copied == {i \in CopyFrom .. ob - 1 : i % cap = s}
                         IN  IF copied = {} THEN Garbage
                             ELSE Load(array, CHOOSE i \in copied : TRUE)]]

\* resize: publish the grown array, keep the old one for the thieves that hold it.
Resize ==
    /\ NeedsResize
    /\ Owner("push", "store")
    /\ array' = array + 1
    /\ arrays' = [k \in 1 .. array + 1 |-> IF k <= array THEN arrays[k] ELSE GrownArray]
    /\ UNCHANGED <<top, bottom, thieves, ot, ob, oi, pushed, taken>>

NoResize ==
    /\ ~NeedsResize
    /\ Owner("push", "store")
    /\ UNCHANGED <<top, bottom, array, arrays, thieves, ot, ob, oi, pushed, taken>>

\* a->store(b, item)
PushStore ==
    /\ Owner("store", "publish")
    /\ arrays' = [arrays EXCEPT ![array].storage[Slot(array, ob)] = pushed]
    /\ UNCHANGED <<top, bottom, array, thieves, ot, ob, oi, pushed, taken>>

\* bottom_.store(b + 1)
PushPublish ==
    /\ Owner("publish", "idle")
    /\ bottom' = ob + 1
    /\ UNCHANGED <<top, array, arrays, thieves, ot, ob, oi, pushed, taken>>

----------------------------------------------------------------------------
(* pop *)

\* b = bottom_ - 1; bottom_.store(b)
PopBegin ==
    /\ Owner("idle", "fence")
    /\ ob' = bottom - 1
    /\ bottom' = bottom - 1
    /\ UNCHANGED <<top, array, arrays, thieves, ot, oi, pushed, taken>>

\* t = top_.load(), after the fence; read the item if t <= b.
PopLoad ==
    /\ Owner("fence", IF top <= ob THEN "got" ELSE "restore")
    /\ ot' = top
    /\ oi' = IF top <= ob THEN Load(array, ob) ELSE Garbage
    /\ UNCHANGED <<top, bottom, array, arrays, thieves, ob, pushed, taken>>

LastItemNever == FALSE   \* mutant: pop takes the last item without the CAS

\* t == b: one item left, which a thief may be taking
LastItem == ot = ob

\* More than one item left: return it.
PopReturns ==
    /\ ~LastItem
    /\ Owner("got", "idle")
    /\ Taken(oi)
    /\ UNCHANGED <<top, bottom, array, arrays, thieves, ot, ob, oi, pushed>>

\* The CAS on top_ succeeds: the item is the owner's.
PopWins ==
    /\ LastItem
    /\ top = ot
    /\ Owner("got", "restore")
    /\ top' = ot + 1
    /\ Taken(oi)
    /\ UNCHANGED <<bottom, array, arrays, thieves, ot, ob, oi, pushed>>

\* The CAS fails: a thief has it.
PopLoses ==
    /\ LastItem
    /\ top # ot
    /\ Owner("got", "restore")
    /\ UNCHANGED <<top, bottom, array, arrays, thieves, ot, ob, oi, pushed, taken>>

Restored == ob + 1

\* bottom_.store(b + 1)
PopRestore ==
    /\ Owner("restore", "idle")
    /\ bottom' = Restored
    /\ UNCHANGED <<top, array, arrays, thieves, ot, ob, oi, pushed, taken>>

----------------------------------------------------------------------------
(* steal *)

Thief(p, from, to) == thief[p] = from /\ thief' = [thief EXCEPT ![p] = to]
owners == <<owner, ot, ob, oi, pushed>>

\* t = top_.load()
StealBegin(p) ==
    /\ Thief(p, "idle", "bottom")
    /\ t' = [t EXCEPT ![p] = top]
    /\ UNCHANGED <<top, bottom, array, arrays, ta, ti, owners, taken>>

\* b = bottom_.load(); nothing to steal unless t < b
StealLoadBottom(p) ==
    /\ Thief(p, "bottom", IF t[p] < bottom THEN "array" ELSE "idle")
    /\ UNCHANGED <<top, bottom, array, arrays, t, ta, ti, owners, taken>>

\* a = array_.load()
StealLoadArray(p) ==
    /\ Thief(p, "array", "read")
    /\ ta' = [ta EXCEPT ![p] = array]
    /\ UNCHANGED <<top, bottom, array, arrays, t, ti, owners, taken>>

\* item = a->load(t)
StealRead(p) ==
    /\ Thief(p, "read", "cas")
    /\ ti' = [ti EXCEPT ![p] = Load(ta[p], t[p])]
    /\ UNCHANGED <<top, bottom, array, arrays, t, ta, owners, taken>>

\* The CAS on top_ succeeds: return the item.
StealWins(p) ==
    /\ top = t[p]
    /\ Thief(p, "cas", "idle")
    /\ top' = t[p] + 1
    /\ Taken(ti[p])
    /\ UNCHANGED <<bottom, array, arrays, t, ta, ti, owners>>

StealLoses(p) ==
    /\ top # t[p]
    /\ Thief(p, "cas", "idle")
    /\ UNCHANGED <<top, bottom, array, arrays, t, ta, ti, owners, taken>>

DequeNext ==
    \/ PushBegin \/ Resize \/ NoResize \/ PushStore \/ PushPublish
    \/ PopBegin \/ PopLoad \/ PopReturns \/ PopWins \/ PopLoses \/ PopRestore
    \/ \E p \in Thieves : \/ StealBegin(p) \/ StealLoadBottom(p) \/ StealLoadArray(p)
                          \/ StealRead(p) \/ StealWins(p) \/ StealLoses(p)

DequeSpec == DequeInit /\ [][DequeNext]_dequeVars
----------------------------------------------------------------------------
(* Properties *)

DequeTypeOK ==
    /\ top \in Nat
    /\ bottom \in Nat \cup {-1}
    /\ array \in Nat \ {0}
    /\ arrays = [k \in 1 .. array |-> arrays[k]]
    /\ \A k \in 1 .. array :
          /\ ArrayCapacity(k) \in Nat \ {0}
          /\ arrays[k] = [capacity |-> ArrayCapacity(k), storage |-> arrays[k].storage]
          /\ arrays[k].storage \in [0 .. ArrayCapacity(k) - 1 -> Values \cup {Garbage}]
    /\ owner \in {"idle", "push", "store", "publish", "fence", "got", "restore"}
    /\ thief \in [Thieves -> {"idle", "bottom", "array", "read", "cas"}]
    /\ t \in [Thieves -> Nat]
    /\ ot \in Nat
    /\ ob \in Nat \cup {-1}
    /\ ta \in [Thieves -> 1 .. array]
    /\ ti \in [Thieves -> Values \cup {Garbage}]
    /\ oi \in Values \cup {Garbage}
    /\ pushed \in 0 .. MaxPushes
    /\ taken \in [Values -> Nat]

\* The items in the deque: those between top_ and bottom_ in the current array.
Content == {Load(array, i) : i \in top .. bottom - 1}

(* No item is returned twice, whether the owner and the thieves race for the *)
(* last one or the array is replaced under a thief.                          *)
NeverTwice == \A i \in Values : taken[i] <= 1

(* No item is lost: when the owner is between two calls, everything pushed    *)
(* is in the deque or has been returned, and not both.                       *)
NothingLost == owner = "idle" =>
    /\ top <= bottom
    /\ \A i \in 1 .. pushed : i \in Content <=> taken[i] = 0

(* "LIFO" for the owner and "FIFO" for the thieves: an item that a thief      *)
(* takes is older than all that remain, one the owner takes is younger.       *)
Ends == [][ \A i \in Values : taken'[i] > taken[i] =>
              IF owner' = owner
              THEN \A j \in 1 .. pushed : j < i => taken[j] > 0
              ELSE \A j \in 1 .. pushed : j > i => taken[j] > 0 ]_dequeVars
=============================================================================

----------------------------- MODULE TimerWheel -----------------------------
(***************************************************************************)
(* src/reactor/timer_wheel.cpp: timers in a circular array of buckets, all *)
(* on the reactor thread.  Time is counted in nanoseconds, TICK_NS to the  *)
(* tick.  A callback may add a timer of its own; the timers it adds are    *)
(* what makes advance hard, since it is walking a bucket at that moment.   *)
(* Timers may also be added while Reactor::run is not running; run() then  *)
(* sets the tick with initialize, whatever the buckets hold.               *)
(***************************************************************************)
EXTENDS Integers, Sequences, FiniteSets

CONSTANTS SLOTS,      \* 512 in the code
          TICK_NS,    \* 1000000 in the code
          Timers,     \* the timers that may be added
          Delays,     \* the delays, in ns, given to add_timer from outside
          Rearms,     \* the delays, in ns, that callbacks give to add_timer
          MaxNow      \* bound: how far the clock goes, in ns

ASSUME TimerAssumption ==
    /\ SLOTS \in Nat \ {0} /\ TICK_NS \in Nat \ {0} /\ MaxNow \in Nat
    /\ Delays \subseteq Nat /\ Rearms \subseteq Nat

NoTimer == "none"

VARIABLES slots,         \* slots_: in each bucket, the entries in order
          capacity,      \* the capacity of each bucket's vector, which only grows
          current_tick,  \* current_tick_
          now,           \* the clock
          target,        \* target_tick of the advance in progress
          mode,          \* "stopped" outside Reactor::run; in it, "idle" between calls of
                         \* advance and "walk" or "fire" inside
          mid,           \* in mode "fire": the index of the first expired entry
          it,            \* in mode "fire": the index of the next entry to call
          expires,       \* history: the tick each timer was last set to expire at
          fired,         \* history: the tick each timer fired at, 0 before that
          run_tick,      \* history: the tick that run() last started in, 0 before that
          undefined      \* a reallocation has left advance with dangling iterators

wheelVars == <<slots, capacity, current_tick, now, target, mode, mid, it, expires, fired, run_tick,
               undefined>>

Buckets == 0 .. SLOTS - 1
WheelSlot(tick) == tick % SLOTS

WheelTypeOK ==
    /\ slots \in [Buckets -> Seq(Timers)]
    /\ capacity \in [Buckets -> Nat]
    /\ current_tick \in 0 .. MaxNow \div TICK_NS
    /\ target \in 0 .. MaxNow \div TICK_NS
    /\ now \in 0 .. MaxNow
    /\ mode \in {"stopped", "idle", "walk", "fire"}
    /\ mid \in Nat /\ it \in Nat
    /\ expires \in [Timers -> Nat]
    /\ fired \in [Timers -> Nat]
    /\ run_tick \in 0 .. MaxNow \div TICK_NS
    /\ undefined \in BOOLEAN

\* The wheel as constructed; the clock moves on before run() too.
WheelInit ==
    /\ slots = [b \in Buckets |-> <<>>]
    /\ capacity = [b \in Buckets |-> 0]
    /\ now = 0
    /\ current_tick = 0
    /\ target = 0
    /\ mode = "stopped"
    /\ mid = 0 /\ it = 0
    /\ expires = [t \in Timers |-> 0]
    /\ fired = [t \in Timers |-> 0]
    /\ run_tick = 0
    /\ undefined = FALSE

Unused == {t \in Timers : expires[t] = 0}

Ticks(delay_ns) == IF delay_ns \div TICK_NS = 0 THEN 1 ELSE delay_ns \div TICK_NS

\* push_back moves the entries of a full vector to one of twice the size.
FullBucket(b) == Len(slots[b]) = capacity[b]
Grown(b) == IF ~FullBucket(b) THEN capacity[b] ELSE IF capacity[b] = 0 THEN 1 ELSE 2 * capacity[b]

\* add_timer, for a timer not used so far.
Add(t, delay_ns) ==
    LET tick == current_tick + Ticks(delay_ns) IN
    /\ t \in Unused
    /\ expires' = [expires EXCEPT ![t] = tick]
    /\ slots' = [slots EXCEPT ![WheelSlot(tick)] = Append(@, t)]
    /\ capacity' = [capacity EXCEPT ![WheelSlot(tick)] = Grown(WheelSlot(tick))]

Outside == mode \in {"stopped", "idle"}   \* not inside advance

AddTimer ==
    /\ Outside
    /\ \E t \in Timers, d \in Delays : Add(t, d)
    /\ UNCHANGED <<current_tick, now, target, mode, mid, it, fired, run_tick, undefined>>

ClockTicks ==
    /\ now < MaxNow
    /\ Outside
    /\ now' = now + 1
    /\ UNCHANGED <<slots, capacity, current_tick, target, mode, mid, it, expires, fired, run_tick, undefined>>

\* Reactor::run begins: initialize, with whatever the buckets hold.
RunStarts ==
    /\ mode = "stopped"
    /\ mode' = "idle"
    /\ current_tick' = now \div TICK_NS
    /\ run_tick' = now \div TICK_NS
    /\ UNCHANGED <<slots, capacity, now, target, mid, it, expires, fired, undefined>>

\* The loop of Reactor::run sees running_ cleared.
RunReturns ==
    /\ mode = "idle"
    /\ mode' = "stopped"
    /\ UNCHANGED <<slots, capacity, current_tick, now, target, mid, it, expires, fired, run_tick, undefined>>

----------------------------------------------------------------------------
(* advance *)

Advance ==
    /\ mode = "idle"
    /\ mode' = "walk"
    /\ target' = now \div TICK_NS
    /\ UNCHANGED <<slots, capacity, current_tick, now, mid, it, expires, fired, run_tick, undefined>>

Stays(t, tick) == expires[t] > tick

\* stable_partition: the entries that stay, then those that have expired, each group
\* in the order it had.  PlaceOf(bucket, tick, i) is where entry i goes.
StayingIn(bucket, tick) == {i \in DOMAIN bucket : Stays(bucket[i], tick)}
RankIn(S, i) == Cardinality({j \in S : j <= i})
PlaceOf(bucket, tick, i) ==
    LET stay == StayingIn(bucket, tick)
    IN IF i \in stay THEN RankIn(stay, i)
       ELSE Cardinality(stay) + RankIn(DOMAIN bucket \ stay, i)

Partitioned(bucket, tick) ==
    [p \in DOMAIN bucket |-> bucket[CHOOSE i \in DOMAIN bucket : PlaceOf(bucket, tick, i) = p]]

Staying(bucket, tick) == Cardinality(StayingIn(bucket, tick))

NextTickSkips == target   \* mutant: jump to the target
NextTick == current_tick + 1

\* One tick forward; look at its bucket.
Walk ==
    /\ mode = "walk"
    /\ current_tick < target
    /\ current_tick' = NextTick
    /\ LET b == WheelSlot(NextTick) IN
       /\ slots' = [slots EXCEPT ![b] = Partitioned(@, NextTick)]
       /\ mid' = Staying(slots[b], NextTick) + 1
       /\ it' = mid'
       /\ mode' = IF slots[b] = <<>> THEN "walk" ELSE "fire"
    /\ UNCHANGED <<capacity, now, target, expires, fired, run_tick, undefined>>

AdvanceReturns ==
    /\ mode = "walk"
    /\ current_tick >= target
    /\ mode' = "idle"
    /\ mid' = 0 /\ it' = 0
    /\ target' = 0
    /\ UNCHANGED <<slots, capacity, current_tick, now, expires, fired, run_tick, undefined>>

Bucket == slots[WheelSlot(current_tick)]

\* entry.callback(), which may add a timer.  The loop compares with entries.end()
\* afresh, so it also calls what the callback has added to the bucket being walked;
\* if that push_back has moved the entries, the iterators dangle.
Fire ==
    /\ ~undefined
    /\ mode = "fire"
    /\ it <= Len(Bucket)
    /\ fired' = [fired EXCEPT ![Bucket[it]] = current_tick]
    /\ it' = it + 1
    /\ \/ UNCHANGED <<slots, capacity, expires, undefined>>
       \/ \E t \in Timers, d \in Rearms :
             /\ Add(t, d)
             /\ undefined' = (WheelSlot(expires'[t]) = WheelSlot(current_tick) /\ FullBucket(WheelSlot(current_tick)))
    /\ UNCHANGED <<current_tick, now, target, mode, mid, run_tick>>

Erased == SubSeq(Bucket, 1, mid - 1)

\* entries.erase(mid, entries.end()): with everything appended since.
Erase ==
    /\ ~undefined
    /\ mode = "fire"
    /\ it > Len(Bucket)
    /\ slots' = [slots EXCEPT ![WheelSlot(current_tick)] = Erased]
    /\ mode' = "walk"
    /\ UNCHANGED <<capacity, current_tick, now, target, mid, it, expires, fired, run_tick, undefined>>

WheelNext ==
    \/ AddTimer \/ ClockTicks \/ RunStarts \/ RunReturns
    \/ Advance \/ Walk \/ AdvanceReturns \/ Fire \/ Erase

WheelSpec == WheelInit /\ [][WheelNext]_wheelVars
----------------------------------------------------------------------------
(* Properties *)

(* "the tick advancement only fires timers whose target tick is <= the        *)
(* current clock tick": no callback runs early, whatever callbacks add.       *)
NeverEarly == \A t \in Timers : fired[t] # 0 => fired[t] >= expires[t]

(* A timer set for a tick after run() began fires in that very tick, neither   *)
(* before nor after, though its bucket is shared with timers of other turns of *)
(* the wheel and advance covers several ticks.  One whose tick had passed when *)
(* run() began, because initialize jumped over it (reactor.cpp:25), fires when *)
(* the wheel next comes to its bucket, at most one turn later: until then      *)
(* advance, which "executes all expired timers" (timer_wheel.hpp:63), does     *)
(* not execute it.                                                             *)
FiresOnTime == Outside => \A t \in Timers : expires[t] > 0 =>
    IF expires[t] > run_tick
    THEN fired[t] = IF expires[t] <= current_tick THEN expires[t] ELSE 0
    ELSE current_tick >= run_tick + SLOTS => fired[t] \in expires[t] .. run_tick + SLOTS

(* Every timer that has not fired is in the wheel, once, in the bucket of the *)
(* tick it is set for; one that has fired is not.                            *)
InTheWheel == Outside => \A t \in Timers :
    Cardinality(UNION {{b} \X {i \in DOMAIN slots[b] : slots[b][i] = t} : b \in Buckets})
      = IF expires[t] > 0 /\ fired[t] = 0 THEN 1 ELSE 0

(* No callback asks for a whole number of turns of the wheel: a timer it adds  *)
(* then never lands in the bucket being walked (Rearms in MCLibrary; callbacks *)
(* that do otherwise are the subject of MCTimerWheel).                         *)
RearmsOffTurn == \A d \in Rearms : Ticks(d) % SLOTS # 0
=============================================================================

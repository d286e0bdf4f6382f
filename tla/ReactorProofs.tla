--------------------------- MODULE ReactorProofs ---------------------------
(***************************************************************************)
(* Proofs about the reactor for any number of fibers and pool threads and  *)
(* any capacity of the external queue, and about its timer wheel.          *)
(***************************************************************************)
EXTENDS Reactor, TimerWheel, FiniteSetTheorems, TLAPS

\* The handles in a queue, and that none is there twice.
Elements(q) == {q[i] : i \in DOMAIN q}
Distinct(q) == \A i, j \in DOMAIN q : q[i] = q[j] => i = j

(* What an element at the end does to a queue.                              *)
LEMMA AppendFacts ==
  ASSUME NEW S, NEW q \in Seq(S), NEW x \in S
  PROVE  /\ Append(q, x) \in Seq(S) /\ Append(q, x) # <<>> /\ Len(Append(q, x)) = Len(q) + 1
         /\ Elements(Append(q, x)) = Elements(q) \cup {x}
         /\ Distinct(q) /\ x \notin Elements(q) => Distinct(Append(q, x))
<1> DEFINE a == Append(q, x)
<1>1. /\ a \in Seq(S) /\ Len(a) = Len(q) + 1 /\ Len(q) \in Nat
      /\ DOMAIN a = 1 .. Len(q) + 1 /\ DOMAIN q = 1 .. Len(q)
      /\ \A i \in 1 .. Len(q) : a[i] = q[i]
      /\ a[Len(q) + 1] = x
  OBVIOUS
<1> HIDE DEF a
<1>2. Elements(a) = Elements(q) \cup {x}
  BY <1>1 DEF Elements
<1>3. Distinct(q) /\ x \notin Elements(q) => Distinct(a)
  BY <1>1 DEF Distinct, Elements
<1>4. a # <<>>
  BY <1>1
<1> QED BY <1>1, <1>2, <1>3, <1>4 DEF a

(* What taking the first element does to one.                               *)
LEMMA TailFacts ==
  ASSUME NEW S, NEW q \in Seq(S), q # <<>>
  PROVE  /\ Tail(q) \in Seq(S) /\ Len(Tail(q)) = Len(q) - 1 /\ Len(q) \in Nat \ {0}
         /\ Head(q) \in Elements(q) /\ Head(q) \in S
         /\ Len(q) = 1 <=> Tail(q) = <<>>
         /\ Distinct(q) => Distinct(Tail(q)) /\ Elements(Tail(q)) = Elements(q) \ {Head(q)}
<1> DEFINE a == Tail(q)
<1>1. /\ a \in Seq(S) /\ Len(a) = Len(q) - 1 /\ Len(q) \in Nat \ {0}
      /\ DOMAIN a = 1 .. Len(q) - 1 /\ DOMAIN q = 1 .. Len(q)
      /\ \A i \in 1 .. Len(q) - 1 : a[i] = q[i + 1]
      /\ Head(q) = q[1] /\ q[1] \in S
  OBVIOUS
<1> HIDE DEF a
<1>2. Head(q) \in Elements(q)
  BY <1>1 DEF Elements
<1>3. Len(q) = 1 <=> a = <<>>
  BY <1>1
<1>4. ASSUME Distinct(q) PROVE Distinct(a) /\ Elements(a) = Elements(q) \ {Head(q)}
  <2>1. Distinct(a)
    <3> SUFFICES ASSUME NEW i \in DOMAIN a, NEW j \in DOMAIN a, a[i] = a[j] PROVE i = j
      BY DEF Distinct
    <3>1. i + 1 \in DOMAIN q /\ j + 1 \in DOMAIN q /\ q[i + 1] = q[j + 1]
      BY <1>1
    <3>2. i + 1 = j + 1
      BY <1>4, <3>1 DEF Distinct
    <3> QED BY <1>1, <3>2
  <2>2. Elements(a) \subseteq Elements(q) \ {Head(q)}
    BY <1>1, <1>4, SMTT(40) DEF Distinct, Elements
  <2>3. Elements(q) \ {Head(q)} \subseteq Elements(a)
    <3> SUFFICES ASSUME NEW i \in DOMAIN q, q[i] # q[1] PROVE q[i] \in Elements(a)
      BY <1>1 DEF Elements
    <3>1. i - 1 \in DOMAIN a /\ a[i - 1] = q[i]
      BY <1>1
    <3> QED BY <3>1 DEF Elements
  <2> QED BY <2>1, <2>2, <2>3
<1> QED BY <1>1, <1>2, <1>3, <1>4 DEF a

(* The empty queue holds nothing. *)
LEMMA EmptyFacts == Elements(<<>>) = {} /\ Distinct(<<>>)
  BY DEF Elements, Distinct


(* A counter that wraps around may be counted up and down one by one.       *)
LEMMA ModStep ==
  ASSUME NEW w \in Nat \ {0}, NEW x \in Int, NEW d \in {1, -1}
  PROVE  ((x % w) + d) % w = (x + d) % w
<1> DEFINE q == x \div w
           r == x % w
           q1 == (r + d) \div w
           r1 == (r + d) % w
           q2 == (x + d) \div w
           r2 == (x + d) % w
<1>1. q \in Int /\ r \in Int /\ x = (w * q) + r
  OBVIOUS
<1>2. q1 \in Int /\ r1 \in 0 .. w - 1 /\ r + d = (w * q1) + r1
  <2> HIDE DEF r
  <2> QED BY <1>1
<1>3. q2 \in Int /\ r2 \in 0 .. w - 1 /\ x + d = (w * q2) + r2
  OBVIOUS
<1> HIDE DEF q, r, q1, r1, q2, r2
<1>4. r1 - r2 = w * (q2 - q - q1)
  BY <1>1, <1>2, <1>3
<1>5. q2 - q - q1 < 1 /\ q2 - q - q1 > -1
  BY <1>1, <1>2, <1>3, <1>4
<1>6. r1 = r2
  BY <1>1, <1>2, <1>3, <1>4, <1>5
<1> QED BY <1>6 DEF r1, r2, r

----------------------------------------------------------------------------
(* The inductive invariant.                                                  *)

\* Where the handle of a suspended fiber may be, apart from a socket.
External == Elements(external)
RunQueue == Elements(run_queue)
Scratch  == Elements(scratch)
Pool     == Elements(pool)
Holders  == {p \in PoolThreads : thread[p] \in {"get", "push"}}
InPool   == {task[p] : p \in Holders}

\* No queue holds a handle twice and no two pool threads hold the same one.
Once == /\ Distinct(external) /\ Distinct(run_queue) /\ Distinct(scratch) /\ Distinct(pool)
        /\ \A p, q \in Holders : task[p] = task[q] => p = q

\* A handle is in one of the places, and in one only, just when its fiber waits to be
\* scheduled.
Apart == \A f \in Fibers :
    /\ f \in External => f \notin RunQueue \cup Scratch \cup Pool \cup InPool
    /\ f \in RunQueue => f \notin Scratch \cup Pool \cup InPool
    /\ f \in Scratch => f \notin Pool \cup InPool
    /\ f \in Pool => f \notin InPool
    /\ f \in External \cup RunQueue \cup Scratch \cup Pool \cup InPool
          <=> fiber[f] \in {"scheduled", "awaiting"}

\* A handle is not popped before its publication.
PublishInv == \A p \in PoolThreads :
    /\ thread[p] \in {"get", "push", "publish"} => task[p] \in Fibers
    /\ thread[p] = "publish" => task[p] \in External

\* The fiber that runs is running; the events yet to be dispatched are of fibers that wait;
\* a round is over before the next one begins.
LoopInv == /\ pc \in {"fiber", "await", "post"} => cur \in Fibers /\ fiber[cur] = "running"
           /\ events \subseteq Armed
           /\ pc \in {"start", "loop", "drain", "uncount", "poll", "dispatch"} => scratch = <<>>
           /\ pc \in {"fiber", "await", "post", "notify"} /\ phase = "dispatch" => scratch = <<>>

\* The pool threads whose push is not counted yet.
Counting == {p \in PoolThreads : thread[p] \in {"publish", "count"}}

\* PendingExact in terms of this set.
PendingInv == pending = (Len(external) + (IF pc = "uncount" THEN 1 ELSE 0)
                           - Cardinality(Counting)) % WordSize

IndInv == TypeOK /\ Once /\ Apart /\ PublishInv /\ LoopInv /\ PendingInv
----------------------------------------------------------------------------
(* The set of threads between push and count is finite. *)
LEMMA Finite ==
  /\ IsFiniteSet(Counting) /\ Cardinality(Counting) \in Nat /\ WordSize \in Nat \ {0}
<1>1. IsFiniteSet(Counting) /\ Cardinality(Counting) \in Nat
  BY ReactorAssumption, FS_Subset, FS_CardinalityType DEF Counting
<1>2. Cardinality(PoolThreads) \in Nat
  BY ReactorAssumption, FS_CardinalityType
<1> QED BY <1>1, <1>2, ReactorAssumption

(* The parts of the invariant that a step cannot disturb if it leaves the    *)
(* queues, the pool threads and what the fibers wait for as they are.        *)
LEMMA QueuesKept ==
  ASSUME UNCHANGED <<external, run_queue, scratch, pool>>
  PROVE  External' = External /\ RunQueue' = RunQueue /\ Scratch' = Scratch /\ Pool' = Pool
  BY DEF External, RunQueue, Scratch, Pool, Elements

(* The same for what the pool threads hold. *)
LEMMA ThreadsKept ==
  ASSUME UNCHANGED <<thread, task>>
  PROVE  Holders' = Holders /\ InPool' = InPool /\ Counting' = Counting
  BY DEF Holders, InPool, Counting

(* A reactor that has not run satisfies the invariant. *)
LEMMA InitInv == Init => IndInv
<1> SUFFICES ASSUME Init PROVE IndInv
  OBVIOUS
<1>1. /\ external = <<Acceptor>> /\ Acceptor \in Fibers /\ run_queue = <<>> /\ scratch = <<>>
      /\ pool = <<>> /\ \A p \in PoolThreads : thread[p] = "test"
  BY ReactorAssumption DEF Init
<1>2. External = {Acceptor} /\ Distinct(external)
  BY <1>1 DEF External, Elements, Distinct
<1>3. /\ RunQueue = {} /\ Scratch = {} /\ Pool = {}
      /\ Distinct(run_queue) /\ Distinct(scratch) /\ Distinct(pool)
  BY <1>1, EmptyFacts DEF RunQueue, Scratch, Pool
<1>4. Holders = {} /\ InPool = {} /\ Counting = {}
  BY <1>1 DEF Holders, InPool, Counting
<1>5. WordSize > 1
  <2>1. Cardinality(PoolThreads) \in Nat
    BY ReactorAssumption, FS_CardinalityType
  <2> QED BY <2>1, ReactorAssumption
<1>6. TypeOK
  <2>1. external \in Seq(Fibers) /\ <<>> \in Seq(Fibers)
    BY <1>1
  <2>2. /\ fiber \in [Fibers -> FiberStates] /\ future \in [Fibers -> {"none", "pending", "ready"}]
        /\ thread \in [PoolThreads -> {"test", "sleeping", "get", "push", "publish", "count"}]
        /\ task \in [PoolThreads -> Fibers \cup {None}]
    BY DEF Init, FiberStates
  <2>3. pending \in 0 .. WordSize - 1
    BY <1>5, ReactorAssumption DEF Init
  <2> QED BY <2>1, <2>2, <2>3 DEF Init, TypeOK
<1>7. Once
  BY <1>2, <1>3, <1>4 DEF Once
<1>8. Apart
  BY <1>2, <1>3, <1>4 DEF Apart, Init
<1>9. PublishInv
  BY <1>1 DEF PublishInv
<1>10. LoopInv
  BY DEF LoopInv, Init
<1>11. PendingInv
  <2>1. Cardinality(Counting) = 0
    BY <1>4, FS_EmptySet
  <2>2. Len(external) = 1 /\ pending = 1 /\ pc # "uncount"
    BY <1>1 DEF Init
  <2>3. 1 % WordSize = 1
    BY <1>5, ReactorAssumption
  <2> QED BY <2>1, <2>2, <2>3 DEF PendingInv
<1> QED BY <1>6, <1>7, <1>8, <1>9, <1>10, <1>11 DEF IndInv

(* Steps of the loop, of stop() and of the executors that move no handle.    *)
LEMMA ControlStep ==
  ASSUME IndInv,
         \/ Run \/ LoopTest \/ ResumeDone \/ Poll \/ DispatchDone \/ FiberInfers \/ AwaitReady
         \/ Stop \/ \E f \in Fibers : Resolve(f)
  PROVE  IndInv'
<1>1. UNCHANGED <<external, run_queue, scratch, pool, thread, task, fiber, pending, cur, phase>>
  BY DEF Run, LoopTest, ResumeDone, Poll, DispatchDone, FiberInfers, AwaitReady, Stop, Resolve, loop
<1>2. /\ External' = External /\ RunQueue' = RunQueue /\ Scratch' = Scratch /\ Pool' = Pool
      /\ Holders' = Holders /\ InPool' = InPool /\ Counting' = Counting /\ Armed' = Armed
  BY <1>1, QueuesKept, ThreadsKept DEF Armed
<1>3. (pc # "uncount" /\ pc' # "uncount") \/ pc' = pc
  BY DEF Run, LoopTest, ResumeDone, Poll, DispatchDone, FiberInfers, AwaitReady, Stop, Resolve,
         Goto, loop
<1>4. TypeOK'
  <2>1. /\ pc' \in {"start", "loop", "drain", "uncount", "resume", "poll", "dispatch", "fiber",
                     "await", "post", "notify", "exited"}
        /\ running' \in BOOLEAN /\ stops' \in BOOLEAN
    BY DEF Run, LoopTest, ResumeDone, Poll, DispatchDone, FiberInfers, AwaitReady, Stop, Resolve,
           Goto, loop, IndInv, TypeOK
  <2>2. events' \in SUBSET Fibers
    BY DEF Run, LoopTest, ResumeDone, Poll, DispatchDone, FiberInfers, AwaitReady, Stop, Resolve,
           Goto, loop, IndInv, TypeOK, Armed
  <2>3. future' \in [Fibers -> {"none", "pending", "ready"}]
    BY DEF Run, LoopTest, ResumeDone, Poll, DispatchDone, FiberInfers, AwaitReady, Stop, Resolve,
           Goto, loop, IndInv, TypeOK
  <2> QED BY <1>1, <2>1, <2>2, <2>3 DEF IndInv, TypeOK
<1>5. Once'
  BY <1>1, <1>2 DEF IndInv, Once
<1>6. Apart'
  BY <1>1, <1>2 DEF IndInv, Apart
<1>7. PublishInv'
  BY <1>1, <1>2 DEF IndInv, PublishInv
<1>8. LoopInv'
  <2>1. events' \subseteq Armed
    BY DEF Run, LoopTest, ResumeDone, Poll, DispatchDone, FiberInfers, AwaitReady, Stop, Resolve,
           Goto, loop, IndInv, LoopInv
  <2>2. pc' \in {"fiber", "await", "post"} => pc \in {"fiber", "await", "post"}
    BY DEF Run, LoopTest, ResumeDone, Poll, DispatchDone, FiberInfers, AwaitReady, Stop, Resolve,
           Goto, loop
  <2>3. /\ pc' \in {"start", "loop", "drain", "uncount", "poll", "dispatch"} => scratch = <<>>
        /\ pc' \in {"fiber", "await", "post", "notify"} /\ phase = "dispatch" => scratch = <<>>
    BY DEF Run, LoopTest, ResumeDone, Poll, DispatchDone, FiberInfers, AwaitReady, Stop, Resolve,
           Goto, loop, IndInv, LoopInv
  <2> QED BY <1>1, <1>2, <2>1, <2>2, <2>3 DEF IndInv, LoopInv
<1>9. PendingInv'
  BY <1>1, <1>2, <1>3 DEF IndInv, PendingInv
<1> QED BY <1>4, <1>5, <1>6, <1>7, <1>8, <1>9 DEF IndInv

----------------------------------------------------------------------------
(* The drain of the external queue.                                         *)

(* The loop pops a fiber from the external queue onto its run queue. *)
LEMMA DrainPopStep == ASSUME IndInv, DrainPop PROVE IndInv'
<1> DEFINE f == Head(external)
<1>1. /\ external # <<>> /\ Published(f) /\ pc = "drain" /\ pc' = "uncount"
      /\ run_queue' = Append(run_queue, f) /\ external' = Tail(external)
      /\ UNCHANGED <<running, pending, scratch, events, phase, cur, fiber, future, pool, thread,
                     task, stops>>
  BY DEF DrainPop, Poppable, Goto
<1>2. external \in Seq(Fibers) /\ run_queue \in Seq(Fibers)
  BY DEF IndInv, TypeOK
<1>3. /\ external' \in Seq(Fibers) /\ Len(external') = Len(external) - 1
      /\ Len(external) \in Nat /\ f \in Fibers
      /\ Distinct(external') /\ External' = External \ {f} /\ f \in External
  BY <1>1, <1>2, TailFacts DEF External, IndInv, Once
<1>4. f \notin RunQueue
  BY <1>3 DEF IndInv, Apart
<1>5. /\ run_queue' \in Seq(Fibers) /\ Distinct(run_queue')
      /\ RunQueue' = RunQueue \cup {f}
  BY <1>1, <1>2, <1>3, <1>4, AppendFacts DEF RunQueue, IndInv, Once
<1> HIDE DEF f
<1>6. Holders' = Holders /\ InPool' = InPool /\ Counting' = Counting
  BY <1>1, ThreadsKept
<1>7. Scratch' = Scratch /\ Pool' = Pool /\ Armed' = Armed
  BY <1>1 DEF Scratch, Pool, Elements, Armed
<1>8. TypeOK'
  BY <1>1, <1>3, <1>5 DEF IndInv, TypeOK
<1>9. Once'
  BY <1>1, <1>3, <1>5, <1>6 DEF IndInv, Once
<1>10. Apart'
  BY <1>1, <1>3, <1>5, <1>6, <1>7 DEF IndInv, Apart
<1>11. PublishInv'
  BY <1>1, <1>3 DEF IndInv, PublishInv, Published
<1>12. LoopInv'
  BY <1>1, <1>7 DEF IndInv, LoopInv
<1>13. PendingInv'
  BY <1>1, <1>3, <1>6, Finite DEF IndInv, PendingInv
<1> QED BY <1>8, <1>9, <1>10, <1>11, <1>12, <1>13 DEF IndInv

(* It subtracts one from the counter, possibly before the pusher has added  *)
(* it.                                                                      *)
LEMMA DrainUncountStep == ASSUME IndInv, DrainUncount PROVE IndInv'
<1>1. /\ pc = "uncount" /\ pc' = "drain" /\ pending' = (pending - 1) % WordSize
      /\ UNCHANGED <<running, external, run_queue, scratch, events, phase, cur, fiber, future,
                     pool, thread, task, stops>>
  BY DEF DrainUncount, Uncounted, Goto
<1>2. /\ External' = External /\ RunQueue' = RunQueue /\ Scratch' = Scratch /\ Pool' = Pool
      /\ Holders' = Holders /\ InPool' = InPool /\ Counting' = Counting /\ Armed' = Armed
  BY <1>1, QueuesKept, ThreadsKept DEF Armed
<1>3. PendingInv'
  <2> DEFINE x == Len(external) + 1 - Cardinality(Counting)
  <2>1. x \in Int /\ Len(external) \in Nat
    BY Finite DEF IndInv, TypeOK
  <2>2. pending = x % WordSize
    BY <1>1 DEF IndInv, PendingInv
  <2> HIDE DEF x
  <2>3. ((x % WordSize) + (-1)) % WordSize = (x + (-1)) % WordSize
    BY <2>1, Finite, ModStep
  <2>4. (x % WordSize) \in Int
    BY <2>1, Finite
  <2>5. pending' = (x - 1) % WordSize
    BY <1>1, <2>1, <2>2, <2>3, <2>4
  <2>6. x - 1 = Len(external) + 0 - Cardinality(Counting)
    BY <2>1, Finite DEF x
  <2> QED BY <1>1, <1>2, <2>5, <2>6 DEF PendingInv
<1>4. TypeOK'
  <2>1. pending' \in 0 .. WordSize - 1
    BY <1>1, Finite DEF IndInv, TypeOK
  <2> QED BY <1>1, <2>1 DEF IndInv, TypeOK
<1>5. Once'
  BY <1>1, <1>2 DEF IndInv, Once
<1>6. Apart'
  BY <1>1, <1>2 DEF IndInv, Apart
<1>7. PublishInv'
  BY <1>1, <1>2 DEF IndInv, PublishInv
<1>8. LoopInv'
  BY <1>1, <1>2 DEF IndInv, LoopInv
<1> QED BY <1>3, <1>4, <1>5, <1>6, <1>7, <1>8 DEF IndInv

(* The drain ends and the run queue is swapped into scratch_queue_. *)
LEMMA DrainDoneStep == ASSUME IndInv, DrainDone PROVE IndInv'
<1>1. /\ pc = "drain" /\ pc' = "resume" /\ scratch' = run_queue /\ run_queue' = <<>>
      /\ UNCHANGED <<running, external, pending, events, phase, cur, fiber, future, pool, thread,
                     task, stops>>
  BY DEF DrainDone, RunQueueSwapped, Goto
<1>2. scratch = <<>>
  BY <1>1 DEF IndInv, LoopInv
<1>3. /\ Scratch = {} /\ Scratch' = RunQueue /\ RunQueue' = {} /\ Distinct(run_queue')
      /\ Distinct(scratch') /\ run_queue' \in Seq(Fibers)
  BY <1>1, <1>2, EmptyFacts DEF Scratch, RunQueue, IndInv, Once
<1>4. /\ External' = External /\ Pool' = Pool
      /\ Holders' = Holders /\ InPool' = InPool /\ Counting' = Counting /\ Armed' = Armed
  BY <1>1, ThreadsKept DEF Armed, External, Pool, Elements
<1>5. TypeOK'
  BY <1>1, <1>3 DEF IndInv, TypeOK
<1>6. Once'
  BY <1>1, <1>3, <1>4 DEF IndInv, Once
<1>7. Apart'
  BY <1>1, <1>3, <1>4 DEF IndInv, Apart
<1>8. PublishInv'
  BY <1>1, <1>4 DEF IndInv, PublishInv
<1>9. LoopInv'
  BY <1>1, <1>4 DEF IndInv, LoopInv
<1>10. PendingInv'
  BY <1>1, <1>4 DEF IndInv, PendingInv
<1> QED BY <1>5, <1>6, <1>7, <1>8, <1>9, <1>10 DEF IndInv

----------------------------------------------------------------------------
(* Resuming and suspending fibers.                                          *)

(* The loop takes the next fiber from scratch_queue_ and resumes it. *)
LEMMA ResumeNextStep == ASSUME IndInv, ResumeNext PROVE IndInv'
<1> DEFINE f == Head(scratch)
<1>1. /\ pc = "resume" /\ scratch # <<>> /\ scratch' = Tail(scratch) /\ Resume(f, "resume")
      /\ UNCHANGED <<running, external, pending, run_queue, events, pool, thread, task, stops>>
  BY DEF ResumeNext
<1>2. /\ scratch' \in Seq(Fibers) /\ f \in Fibers /\ f \in Scratch
      /\ Distinct(scratch') /\ Scratch' = Scratch \ {f}
  BY <1>1, TailFacts DEF Scratch, IndInv, TypeOK, Once
<1> HIDE DEF f
<1>3. fiber[f] \in {"scheduled", "awaiting"}
  BY <1>2 DEF IndInv, Apart
<1>4. /\ phase' = "resume" /\ pc' = "fiber" /\ cur' = f
      /\ fiber' = [fiber EXCEPT ![f] = "running"]
      /\ future' = [future EXCEPT ![f] = "none"]
  BY <1>1, <1>3 DEF Resume
<1>5. \A g \in Fibers : fiber'[g] = IF g = f THEN "running" ELSE fiber[g]
  BY <1>4 DEF IndInv, TypeOK
<1>6. /\ External' = External /\ Pool' = Pool /\ RunQueue' = RunQueue
      /\ Holders' = Holders /\ InPool' = InPool /\ Counting' = Counting
  BY <1>1, ThreadsKept DEF External, Pool, RunQueue, Elements
<1>7. TypeOK'
  BY <1>1, <1>2, <1>4 DEF IndInv, TypeOK, FiberStates
<1>8. Once'
  BY <1>1, <1>2, <1>6 DEF IndInv, Once
<1>9. Apart'
  BY <1>2, <1>5, <1>6 DEF IndInv, Apart
<1>10. PublishInv'
  BY <1>1, <1>6 DEF IndInv, PublishInv
<1>11. LoopInv'
  <2>1. events' \subseteq Armed'
    BY <1>1, <1>3, <1>5 DEF IndInv, LoopInv, Armed
  <2> QED BY <1>2, <1>4, <1>5, <2>1 DEF LoopInv
<1>12. PendingInv'
  BY <1>1, <1>4, <1>6 DEF IndInv, PendingInv
<1> QED BY <1>7, <1>8, <1>9, <1>10, <1>11, <1>12 DEF IndInv

(* A socket that is ready gives its fiber back. *)
LEMMA DispatchStep == ASSUME IndInv, Dispatch PROVE IndInv'
<1>1. PICK f \in events : events' = events \ {f} /\ Resume(f, "dispatch")
  BY DEF Dispatch
<1>2. /\ pc = "dispatch"
      /\ UNCHANGED <<running, external, pending, run_queue, scratch, pool, thread, task, stops>>
  BY DEF Dispatch
<1>3. f \in Fibers /\ fiber[f] = "io" /\ scratch = <<>>
  BY <1>2 DEF IndInv, LoopInv, Armed
<1>4. /\ phase' = "dispatch" /\ pc' = "fiber" /\ cur' = f
      /\ fiber' = [fiber EXCEPT ![f] = "running"]
      /\ future' = [future EXCEPT ![f] = "none"]
  BY <1>1, <1>3 DEF Resume
<1>5. \A g \in Fibers : fiber'[g] = IF g = f THEN "running" ELSE fiber[g]
  BY <1>4 DEF IndInv, TypeOK
<1>6. /\ External' = External /\ RunQueue' = RunQueue /\ Scratch' = Scratch /\ Pool' = Pool
      /\ Holders' = Holders /\ InPool' = InPool /\ Counting' = Counting
  BY <1>2, QueuesKept, ThreadsKept
<1>7. TypeOK'
  BY <1>1, <1>2, <1>3, <1>4 DEF IndInv, TypeOK, FiberStates
<1>8. Once'
  BY <1>2, <1>6 DEF IndInv, Once
<1>9. Apart'
  BY <1>3, <1>5, <1>6 DEF IndInv, Apart
<1>10. PublishInv'
  BY <1>2, <1>6 DEF IndInv, PublishInv
<1>11. LoopInv'
  <2>1. events' \subseteq Armed'
    BY <1>1, <1>5 DEF IndInv, LoopInv, Armed
  <2> QED BY <1>2, <1>3, <1>4, <1>5, <2>1 DEF LoopInv
<1>12. PendingInv'
  BY <1>2, <1>4, <1>6 DEF IndInv, PendingInv
<1> QED BY <1>7, <1>8, <1>9, <1>10, <1>11, <1>12 DEF IndInv

(* The loop invariant when the running fiber gives the thread back. *)
LEMMA SuspendedLoop ==
  ASSUME IndInv, NEW from \in {"fiber", "post"}, NEW state \in FiberStates \ {"running"},
         pc = from, pc' = phase \/ pc' = "notify", cur' = None, phase' = phase,
         fiber' = [fiber EXCEPT ![cur] = state], events' = events, scratch' = scratch
  PROVE  /\ cur \in Fibers /\ fiber[cur] = "running"
         /\ \A g \in Fibers : fiber'[g] = IF g = cur THEN state ELSE fiber[g]
         /\ fiber' \in [Fibers -> FiberStates] /\ pc' # "uncount"
         /\ LoopInv'
<1>1. cur \in Fibers /\ fiber[cur] = "running" /\ phase \in {"resume", "dispatch"}
  BY DEF IndInv, LoopInv, TypeOK
<1>2. /\ fiber' \in [Fibers -> FiberStates]
      /\ \A g \in Fibers : fiber'[g] = IF g = cur THEN state ELSE fiber[g]
  BY <1>1 DEF IndInv, TypeOK
<1>3. events' \subseteq Armed'
  BY <1>1, <1>2 DEF IndInv, LoopInv, Armed
<1>4. /\ pc' \in {"resume", "dispatch", "notify"}
      /\ pc' = "dispatch" => phase = "dispatch"
      /\ phase = "dispatch" => scratch = <<>>
  BY <1>1 DEF IndInv, LoopInv
<1> QED BY <1>1, <1>2, <1>3, <1>4 DEF LoopInv

(* The running fiber waits for its socket or returns. *)
LEMMA FiberLeavesStep ==
  ASSUME IndInv, FiberWaitsForSocket \/ FiberReturns PROVE IndInv'
<1>1. /\ UNCHANGED <<running, external, pending, run_queue, scratch, events, phase, future, pool,
                     thread, task, stops>>
      /\ pc = "fiber" /\ pc' = phase /\ cur' = None
      /\ \E state \in {"io", "done"} : fiber' = [fiber EXCEPT ![cur] = state]
  BY DEF FiberWaitsForSocket, FiberReturns, Suspend, Goto
<1>2. PICK state \in {"io", "done"} : fiber' = [fiber EXCEPT ![cur] = state]
  BY <1>1
<1>3. /\ cur \in Fibers /\ fiber[cur] = "running"
      /\ \A g \in Fibers : fiber'[g] = IF g = cur THEN state ELSE fiber[g]
      /\ fiber' \in [Fibers -> FiberStates] /\ pc' # "uncount" /\ LoopInv'
  <2>1. state \in FiberStates \ {"running"}
    BY DEF FiberStates
  <2> QED BY <1>1, <1>2, <2>1, SuspendedLoop
<1>4. /\ External' = External /\ RunQueue' = RunQueue /\ Scratch' = Scratch /\ Pool' = Pool
      /\ Holders' = Holders /\ InPool' = InPool /\ Counting' = Counting
  BY <1>1, QueuesKept, ThreadsKept
<1>5. TypeOK'
  BY <1>1, <1>3 DEF IndInv, TypeOK
<1>6. Once'
  BY <1>1, <1>4 DEF IndInv, Once
<1>7. Apart'
  BY <1>3, <1>4 DEF IndInv, Apart
<1>8. PublishInv'
  BY <1>1, <1>4 DEF IndInv, PublishInv
<1>9. PendingInv'
  BY <1>1, <1>3, <1>4 DEF IndInv, PendingInv
<1> QED BY <1>3, <1>5, <1>6, <1>7, <1>8, <1>9 DEF IndInv

(* A handle is put behind the run queue. *)
LEMMA Enqueued ==
  ASSUME IndInv, NEW f \in Fibers, fiber[f] \notin {"scheduled", "awaiting"},
         run_queue' = Append(run_queue, f), UNCHANGED <<external, scratch, pool, thread, task>>,
         \A g \in Fibers : fiber'[g] = IF g = f THEN "scheduled" ELSE fiber[g]
  PROVE  run_queue' \in Seq(Fibers) /\ Once' /\ Apart' /\ PublishInv' /\ Counting' = Counting
<1>1. run_queue \in Seq(Fibers) /\ f \notin RunQueue
  BY DEF IndInv, TypeOK, Apart
<1>2. /\ run_queue' \in Seq(Fibers) /\ Distinct(run_queue') /\ RunQueue' = RunQueue \cup {f}
  BY <1>1, AppendFacts DEF RunQueue, IndInv, Once
<1>3. /\ External' = External /\ Scratch' = Scratch /\ Pool' = Pool
      /\ Holders' = Holders /\ InPool' = InPool /\ Counting' = Counting
  BY ThreadsKept DEF External, Scratch, Pool, Elements
<1>4. Once'
  BY <1>2, <1>3 DEF IndInv, Once
<1>5. Apart'
  BY <1>2, <1>3 DEF IndInv, Apart
<1>6. PublishInv'
  BY <1>3 DEF IndInv, PublishInv
<1> QED BY <1>2, <1>3, <1>4, <1>5, <1>6

(* The running fiber is scheduled again from its own thread. *)
LEMMA FiberYieldsStep == ASSUME IndInv, FiberYields PROVE IndInv'
<1>1. /\ UNCHANGED <<running, external, pending, scratch, events, phase, future, pool, thread,
                     task, stops>>
      /\ pc = "fiber" /\ pc' = phase /\ cur' = None /\ run_queue' = Append(run_queue, cur)
      /\ fiber' = [fiber EXCEPT ![cur] = "scheduled"]
  BY DEF FiberYields, Suspend, Goto
<1>2. /\ cur \in Fibers /\ fiber[cur] = "running"
      /\ \A g \in Fibers : fiber'[g] = IF g = cur THEN "scheduled" ELSE fiber[g]
      /\ fiber' \in [Fibers -> FiberStates] /\ pc' # "uncount" /\ LoopInv'
  <2>1. "scheduled" \in FiberStates \ {"running"}
    BY DEF FiberStates
  <2> QED BY <1>1, <2>1, SuspendedLoop
<1>3. run_queue' \in Seq(Fibers) /\ Once' /\ Apart' /\ PublishInv' /\ Counting' = Counting
  BY <1>1, <1>2, Enqueued
<1>4. TypeOK'
  BY <1>1, <1>2, <1>3 DEF IndInv, TypeOK
<1>5. PendingInv'
  BY <1>1, <1>2, <1>3 DEF IndInv, PendingInv
<1> QED BY <1>2, <1>3, <1>4, <1>5 DEF IndInv

(* The accept loop schedules the fiber of a new session. *)
LEMMA AcceptorSpawnsStep == ASSUME IndInv, AcceptorSpawns PROVE IndInv'
<1>1. /\ UNCHANGED <<running, external, pending, scratch, events, pc, phase, cur, future, pool,
                     thread, task, stops>>
      /\ pc = "fiber"
  BY DEF AcceptorSpawns
<1>2. PICK f \in Fibers : /\ fiber[f] = "new" /\ fiber' = [fiber EXCEPT ![f] = "scheduled"]
                          /\ run_queue' = Append(run_queue, f)
  BY DEF AcceptorSpawns
<1>3. \A g \in Fibers : fiber'[g] = IF g = f THEN "scheduled" ELSE fiber[g]
  BY <1>2 DEF IndInv, TypeOK
<1>4. run_queue' \in Seq(Fibers) /\ Once' /\ Apart' /\ PublishInv' /\ Counting' = Counting
  BY <1>1, <1>2, <1>3, Enqueued
<1>5. TypeOK'
  BY <1>1, <1>2, <1>4 DEF IndInv, TypeOK, FiberStates
<1>6. LoopInv'
  <2>1. Armed' = Armed
    BY <1>2, <1>3 DEF Armed
  <2>2. fiber'[cur] = fiber[cur]
    BY <1>1, <1>2, <1>3 DEF IndInv, LoopInv
  <2> QED BY <1>1, <2>1, <2>2 DEF IndInv, LoopInv
<1>7. PendingInv'
  BY <1>1, <1>4 DEF IndInv, PendingInv
<1> QED BY <1>4, <1>5, <1>6, <1>7 DEF IndInv

(* The running fiber posts its inference to the pool. *)
LEMMA PostStep == ASSUME IndInv, Post PROVE IndInv'
<1>1. /\ UNCHANGED <<running, external, pending, run_queue, scratch, events, phase, future, thread,
                     task, stops>>
      /\ pc = "post" /\ pc' = "notify" /\ cur' = None /\ pool' = Append(pool, cur)
      /\ fiber' = [fiber EXCEPT ![cur] = "awaiting"]
  BY DEF Post, Goto
<1>2. /\ cur \in Fibers /\ fiber[cur] = "running"
      /\ \A g \in Fibers : fiber'[g] = IF g = cur THEN "awaiting" ELSE fiber[g]
      /\ fiber' \in [Fibers -> FiberStates] /\ pc' # "uncount" /\ LoopInv'
  <2>1. "awaiting" \in FiberStates \ {"running"}
    BY DEF FiberStates
  <2> QED BY <1>1, <2>1, SuspendedLoop
<1>3. pool \in Seq(Fibers) /\ cur \notin Pool
  BY <1>2 DEF IndInv, TypeOK, Apart
<1>4. /\ pool' \in Seq(Fibers) /\ Distinct(pool') /\ Pool' = Pool \cup {cur}
  BY <1>1, <1>2, <1>3, AppendFacts DEF Pool, IndInv, Once
<1>5. /\ External' = External /\ Scratch' = Scratch /\ RunQueue' = RunQueue
      /\ Holders' = Holders /\ InPool' = InPool /\ Counting' = Counting
  BY <1>1, ThreadsKept DEF External, Scratch, RunQueue, Elements
<1>6. TypeOK'
  BY <1>1, <1>2, <1>4 DEF IndInv, TypeOK
<1>7. Once'
  BY <1>1, <1>4, <1>5 DEF IndInv, Once
<1>8. Apart'
  BY <1>2, <1>4, <1>5 DEF IndInv, Apart
<1>9. PublishInv'
  BY <1>1, <1>5 DEF IndInv, PublishInv
<1>10. PendingInv'
  BY <1>1, <1>2, <1>5 DEF IndInv, PendingInv
<1> QED BY <1>2, <1>6, <1>7, <1>8, <1>9, <1>10 DEF IndInv

----------------------------------------------------------------------------
(* The continuation pool.                                                   *)

(* Going to sleep, waking up and waiting for the future move no handle. *)
LEMMA ThreadLocalStep ==
  ASSUME IndInv,
         \/ PostNotifies
         \/ \E p \in PoolThreads : PoolSleeps(p) \/ PoolGets(p) \/ SpuriousWakeup(p)
  PROVE  IndInv'
<1>1. /\ UNCHANGED <<running, external, pending, run_queue, scratch, events, phase, cur, fiber,
                     future, pool, task, stops>>
      /\ (pc' = pc \/ (pc = "notify" /\ pc' = phase))
  BY DEF PostNotifies, PoolSleeps, PoolGets, SpuriousWakeup, Goto, loop
<1>2. \/ thread' = thread
      \/ \E p \in PoolThreads, to \in {"test", "sleeping"} :
            thread[p] \in {"test", "sleeping"} /\ thread' = [thread EXCEPT ![p] = to]
      \/ \E p \in PoolThreads : thread[p] = "get" /\ thread' = [thread EXCEPT ![p] = "push"]
  BY DEF PostNotifies, Notified, Sleeping, PoolSleeps, PoolGets, SpuriousWakeup, Thread
<1>3. /\ thread' \in [PoolThreads -> {"test", "sleeping", "get", "push", "publish", "count"}]
      /\ \A p \in PoolThreads :
            /\ thread'[p] \in {"get", "push"} <=> thread[p] \in {"get", "push"}
            /\ thread'[p] \in {"publish", "count"} <=> thread[p] \in {"publish", "count"}
            /\ thread'[p] = "publish" <=> thread[p] = "publish"
  BY <1>2 DEF IndInv, TypeOK
<1>4. Holders' = Holders /\ InPool' = InPool /\ Counting' = Counting
  <2>1. Holders' = Holders
    BY <1>3 DEF Holders
  <2>2. Counting' = Counting
    BY <1>3 DEF Counting
  <2> QED BY <1>1, <2>1, <2>2 DEF InPool
<1>5. /\ External' = External /\ RunQueue' = RunQueue /\ Scratch' = Scratch /\ Pool' = Pool
      /\ Armed' = Armed
  BY <1>1, QueuesKept DEF Armed
<1>6. TypeOK'
  BY <1>1, <1>3 DEF IndInv, TypeOK
<1>7. Once'
  BY <1>1, <1>4 DEF IndInv, Once
<1>8. Apart'
  BY <1>1, <1>4, <1>5 DEF IndInv, Apart
<1>9. PublishInv'
  <2> SUFFICES ASSUME NEW p \in PoolThreads
               PROVE  /\ thread'[p] \in {"get", "push", "publish"} => task[p] \in Fibers
                      /\ thread'[p] = "publish" => task[p] \in External
    BY <1>1, <1>5 DEF PublishInv
  <2>1. thread'[p] \in {"get", "push", "publish"} => thread[p] \in {"get", "push", "publish"}
    BY <1>3
  <2> QED BY <1>3, <2>1 DEF IndInv, PublishInv
<1>10. LoopInv'
  <2>1. pc' # pc => pc = "notify" /\ pc' \in {"resume", "dispatch"}
                      /\ (pc' = "dispatch" => phase = "dispatch")
    BY <1>1 DEF IndInv, TypeOK
  <2> QED BY <1>1, <1>5, <2>1 DEF IndInv, LoopInv
<1>11. PendingInv'
  <2>1. pc' = "uncount" <=> pc = "uncount"
    BY <1>1 DEF IndInv, TypeOK
  <2> QED BY <1>1, <1>4, <2>1 DEF IndInv, PendingInv
<1> QED BY <1>6, <1>7, <1>8, <1>9, <1>10, <1>11 DEF IndInv

(* A pool thread takes a task. *)
LEMMA PoolTakesStep ==
  ASSUME IndInv, NEW p \in PoolThreads, PoolTakes(p) PROVE IndInv'
<1> DEFINE f == Head(pool)
<1>1. /\ pool # <<>> /\ thread[p] = "test" /\ thread' = [thread EXCEPT ![p] = "get"]
      /\ task' = [task EXCEPT ![p] = f] /\ pool' = Tail(pool)
      /\ UNCHANGED <<running, external, pending, run_queue, scratch, events, pc, phase, cur, fiber,
                     future, stops>>
  BY DEF PoolTakes, Thread, PoolTail, loop
<1>2. /\ pool' \in Seq(Fibers) /\ f \in Fibers /\ f \in Pool
      /\ Distinct(pool') /\ Pool' = Pool \ {f}
  BY <1>1, TailFacts DEF Pool, IndInv, TypeOK, Once
<1> HIDE DEF f
<1>3. \A q \in PoolThreads : /\ thread'[q] = IF q = p THEN "get" ELSE thread[q]
                             /\ task'[q] = IF q = p THEN f ELSE task[q]
  BY <1>1 DEF IndInv, TypeOK
<1>4. Holders' = Holders \cup {p} /\ p \notin Holders /\ Counting' = Counting
  BY <1>1, <1>3 DEF Holders, Counting
<1>5. InPool' = InPool \cup {f}
  BY <1>3, <1>4 DEF InPool, Holders
<1>6. External' = External /\ RunQueue' = RunQueue /\ Scratch' = Scratch /\ Armed' = Armed
  BY <1>1 DEF External, RunQueue, Scratch, Elements, Armed
<1>7. TypeOK'
  BY <1>1, <1>2 DEF IndInv, TypeOK
<1>8. Once'
  <2>1. f \notin InPool
    BY <1>2 DEF IndInv, Apart
  <2>2. \A q, r \in Holders' : task'[q] = task'[r] => q = r
    BY <1>3, <1>4, <2>1 DEF IndInv, Once, InPool, Holders
  <2> QED BY <1>1, <1>2, <2>2 DEF IndInv, Once
<1>9. Apart'
  BY <1>1, <1>2, <1>5, <1>6 DEF IndInv, Apart
<1>10. PublishInv'
  BY <1>2, <1>3, <1>6 DEF IndInv, PublishInv
<1>11. LoopInv'
  BY <1>1, <1>6 DEF IndInv, LoopInv
<1>12. PendingInv'
  BY <1>1, <1>4 DEF IndInv, PendingInv
<1> QED BY <1>7, <1>8, <1>9, <1>10, <1>11, <1>12 DEF IndInv

(* A pool thread claims a place of the external queue. *)
LEMMA PoolPushesStep ==
  ASSUME IndInv, NEW p \in PoolThreads, PoolPushes(p) PROVE IndInv'
<1> DEFINE f == task[p]
<1>1. /\ thread[p] = "push" /\ thread' = [thread EXCEPT ![p] = "publish"]
      /\ external' = Append(external, f)
      /\ UNCHANGED <<running, pending, run_queue, scratch, events, pc, phase, cur, fiber, future,
                     pool, task, stops>>
  BY DEF PoolPushes, Thread, loop
<1>2. f \in Fibers /\ f \in InPool /\ f \notin External /\ external \in Seq(Fibers)
  <2>1. f \in Fibers /\ f \in InPool
    BY <1>1 DEF IndInv, PublishInv, InPool, Holders
  <2> QED BY <2>1 DEF IndInv, TypeOK, Apart
<1>3. /\ external' \in Seq(Fibers) /\ Len(external') = Len(external) + 1
      /\ Distinct(external') /\ External' = External \cup {f}
  BY <1>1, <1>2, AppendFacts DEF External, IndInv, Once
<1>4. \A q \in PoolThreads : thread'[q] = IF q = p THEN "publish" ELSE thread[q]
  BY <1>1 DEF IndInv, TypeOK
<1>5. /\ Holders' = Holders \ {p} /\ p \in Holders
      /\ Counting' = Counting \cup {p} /\ p \notin Counting
  BY <1>1, <1>4 DEF Holders, Counting
<1>6. InPool' = InPool \ {f}
  BY <1>1, <1>5 DEF InPool, IndInv, Once
<1> HIDE DEF f
<1>7. RunQueue' = RunQueue /\ Scratch' = Scratch /\ Pool' = Pool /\ Armed' = Armed
  BY <1>1 DEF RunQueue, Scratch, Pool, Elements, Armed
<1>8. TypeOK'
  BY <1>1, <1>3 DEF IndInv, TypeOK
<1>9. Once'
  BY <1>1, <1>3, <1>5 DEF IndInv, Once
<1>10. Apart'
  BY <1>1, <1>2, <1>3, <1>6, <1>7 DEF IndInv, Apart
<1>11. PublishInv'
  BY <1>1, <1>2, <1>3, <1>4 DEF IndInv, PublishInv, f
<1>12. LoopInv'
  BY <1>1, <1>7 DEF IndInv, LoopInv
<1>13. PendingInv'
  <2>1. Cardinality(Counting') = Cardinality(Counting) + 1
    BY <1>5, Finite, FS_AddElement
  <2>2. Len(external) \in Nat
    BY <1>2
  <2> DEFINE u == IF pc = "uncount" THEN 1 ELSE 0
  <2>3. Len(external') + u - Cardinality(Counting') = Len(external) + u - Cardinality(Counting)
    BY <1>3, <2>1, <2>2, Finite
  <2>4. pending = (Len(external) + u - Cardinality(Counting)) % WordSize
    BY DEF IndInv, PendingInv
  <2> QED BY <1>1, <2>3, <2>4 DEF PendingInv
<1> QED BY <1>8, <1>9, <1>10, <1>11, <1>12, <1>13 DEF IndInv

(* Its element becomes visible to the drain. *)
LEMMA PoolPublishesStep ==
  ASSUME IndInv, NEW p \in PoolThreads, PoolPublishes(p) PROVE IndInv'
<1> DEFINE f == task[p]
<1>1. /\ thread[p] = "publish" /\ thread' = [thread EXCEPT ![p] = "count"]
      /\ fiber' = [fiber EXCEPT ![f] = "scheduled"]
      /\ UNCHANGED <<running, external, pending, run_queue, scratch, events, pc, phase, cur, future,
                     pool, task, stops>>
  BY DEF PoolPublishes, Thread, loop
<1>2. f \in Fibers /\ f \in External /\ fiber[f] \in {"scheduled", "awaiting"}
  <2>1. f \in Fibers /\ f \in External
    BY <1>1 DEF IndInv, PublishInv
  <2> QED BY <2>1 DEF IndInv, Apart
<1> HIDE DEF f
<1>3. /\ \A q \in PoolThreads : thread'[q] = IF q = p THEN "count" ELSE thread[q]
      /\ \A g \in Fibers : fiber'[g] = IF g = f THEN "scheduled" ELSE fiber[g]
  BY <1>1 DEF IndInv, TypeOK
<1>4. Holders' = Holders /\ Counting' = Counting /\ InPool' = InPool
  <2>1. Holders' = Holders /\ Counting' = Counting
    BY <1>1, <1>3 DEF Holders, Counting
  <2> QED BY <1>1, <2>1 DEF InPool
<1>5. External' = External /\ RunQueue' = RunQueue /\ Scratch' = Scratch /\ Pool' = Pool
  BY <1>1, QueuesKept
<1>6. Armed' = Armed
  BY <1>2, <1>3 DEF Armed
<1>7. TypeOK'
  BY <1>1 DEF IndInv, TypeOK, FiberStates
<1>8. Once'
  BY <1>1, <1>4 DEF IndInv, Once
<1>9. Apart'
  BY <1>2, <1>3, <1>4, <1>5 DEF IndInv, Apart
<1>10. PublishInv'
  BY <1>1, <1>3, <1>5 DEF IndInv, PublishInv
<1>11. LoopInv'
  <2>1. pc \in {"fiber", "await", "post"} => cur # f /\ cur \in Fibers
    BY <1>2 DEF IndInv, LoopInv
  <2> QED BY <1>1, <1>3, <1>6, <2>1 DEF IndInv, LoopInv
<1>12. PendingInv'
  BY <1>1, <1>4 DEF IndInv, PendingInv
<1> QED BY <1>7, <1>8, <1>9, <1>10, <1>11, <1>12 DEF IndInv

(* It adds one to the counter, possibly after the drain has subtracted it. *)
LEMMA PoolCountsStep ==
  ASSUME IndInv, NEW p \in PoolThreads, PoolCounts(p) PROVE IndInv'
<1>1. /\ thread[p] = "count" /\ thread' = [thread EXCEPT ![p] = "test"]
      /\ pending' = (pending + 1) % WordSize /\ task' = [task EXCEPT ![p] = None]
      /\ UNCHANGED <<running, external, run_queue, scratch, events, pc, phase, cur, fiber, future,
                     pool, stops>>
  BY DEF PoolCounts, Thread, loop
<1>2. \A q \in PoolThreads : /\ thread'[q] = IF q = p THEN "test" ELSE thread[q]
                             /\ q # p => task'[q] = task[q]
  BY <1>1 DEF IndInv, TypeOK
<1>3. /\ Holders' = Holders /\ p \notin Holders
      /\ Counting' = Counting \ {p} /\ p \in Counting
  BY <1>1, <1>2 DEF Holders, Counting
<1>4. InPool' = InPool /\ \A q \in Holders : task'[q] = task[q]
  BY <1>2, <1>3 DEF InPool, Holders
<1>5. /\ External' = External /\ RunQueue' = RunQueue /\ Scratch' = Scratch /\ Pool' = Pool
      /\ Armed' = Armed
  BY <1>1, QueuesKept DEF Armed
<1>6. TypeOK'
  <2>1. pending' \in 0 .. WordSize - 1
    BY <1>1, Finite DEF IndInv, TypeOK
  <2> QED BY <1>1, <2>1 DEF IndInv, TypeOK
<1>7. Once'
  BY <1>1, <1>3, <1>4 DEF IndInv, Once
<1>8. Apart'
  BY <1>1, <1>4, <1>5 DEF IndInv, Apart
<1>9. PublishInv'
  BY <1>2, <1>5 DEF IndInv, PublishInv
<1>10. LoopInv'
  BY <1>1, <1>5 DEF IndInv, LoopInv
<1>11. PendingInv'
  <2> DEFINE u == IF pc = "uncount" THEN 1 ELSE 0
             x == Len(external) + u - Cardinality(Counting)
  <2>1. x \in Int /\ Len(external) \in Nat /\ u \in Int
    BY Finite DEF IndInv, TypeOK
  <2>2. pending = x % WordSize
    BY DEF IndInv, PendingInv
  <2>3. Cardinality(Counting') = Cardinality(Counting) - 1
    BY <1>3, Finite, FS_RemoveElement
  <2>4. x + 1 = Len(external) + u - Cardinality(Counting')
    BY <2>1, <2>3, Finite
  <2> HIDE DEF x
  <2>5. pending' = (x + 1) % WordSize
    BY <1>1, <2>1, <2>2, Finite, ModStep
  <2> QED BY <1>1, <2>4, <2>5 DEF PendingInv
<1> QED BY <1>6, <1>7, <1>8, <1>9, <1>10, <1>11 DEF IndInv

(* Every step of the loop, the fibers and the pool keeps the invariant. *)
LEMMA StepInv == IndInv /\ [Next]_vars => IndInv'
<1> SUFFICES ASSUME IndInv, [Next]_vars PROVE IndInv'
  OBVIOUS
<1>1. CASE UNCHANGED vars
  <2>1. /\ External' = External /\ RunQueue' = RunQueue /\ Scratch' = Scratch /\ Pool' = Pool
        /\ Holders' = Holders /\ InPool' = InPool /\ Counting' = Counting /\ Armed' = Armed
    BY <1>1, QueuesKept, ThreadsKept DEF Armed, vars
  <2>2. TypeOK' /\ Once'
    BY <1>1, <2>1 DEF IndInv, TypeOK, Once, vars
  <2>3. Apart' /\ PublishInv'
    BY <1>1, <2>1 DEF IndInv, Apart, PublishInv, vars
  <2>4. LoopInv' /\ PendingInv'
    BY <1>1, <2>1 DEF IndInv, LoopInv, PendingInv, vars
  <2> QED BY <2>2, <2>3, <2>4 DEF IndInv
<1>2. CASE ReactorThread
  BY <1>2, ControlStep, DrainPopStep, DrainUncountStep, DrainDoneStep, ResumeNextStep,
     DispatchStep, FiberLeavesStep, FiberYieldsStep, AcceptorSpawnsStep, PostStep, ThreadLocalStep
     DEF ReactorThread
<1>3. CASE \E p \in PoolThreads : PoolThread(p) \/ SpuriousWakeup(p)
  BY <1>3, ThreadLocalStep, PoolTakesStep, PoolPushesStep, PoolPublishesStep, PoolCountsStep
     DEF PoolThread
<1>4. CASE Stop \/ \E f \in Fibers : Resolve(f)
  BY <1>4, ControlStep
<1> QED BY <1>1, <1>2, <1>3, <1>4 DEF Next

(* Every handle is where its fiber's state says, and nowhere else.           *)
THEOREM Inductive == Spec => []IndInv
  BY InitInv, StepInv, PTL DEF Spec

(* The handle of a suspended fiber is in exactly one of the external queue,  *)
(* the run queue, the rest of the round, the pool and epoll, for any number  *)
(* of sessions and pool threads: none is lost and none is resumed twice      *)
(* (reactor.cpp:19-82, epoll_backend.cpp, continuation_pool.cpp).            *)
THEOREM HandlesHaveOneHome == Spec => []OneHome
<1>1. \A q : Distinct(q) => \A f : Occurrences(f, q) = IF f \in Elements(q) THEN 1 ELSE 0
  <2> SUFFICES ASSUME NEW q, Distinct(q), NEW f
               PROVE  Occurrences(f, q) = IF f \in Elements(q) THEN 1 ELSE 0
    OBVIOUS
  <2>1. CASE f \in Elements(q)
    <3>1. PICK i \in DOMAIN q : q[i] = f
      BY <2>1 DEF Elements
    <3>2. {j \in DOMAIN q : q[j] = f} = {i}
      BY <3>1 DEF Distinct
    <3> QED BY <2>1, <3>2, FS_Singleton DEF Occurrences
  <2>2. CASE f \notin Elements(q)
    <3>1. {j \in DOMAIN q : q[j] = f} = {}
      BY <2>2 DEF Elements
    <3> QED BY <2>2, <3>1, FS_EmptySet DEF Occurrences
  <2> QED BY <2>1, <2>2
<1>2. IndInv => OneHome
  <2> SUFFICES ASSUME IndInv, NEW f \in Fibers PROVE OneHome!(f)
    BY DEF OneHome
  <2>1. /\ Occurrences(f, external) = IF f \in External THEN 1 ELSE 0
        /\ Occurrences(f, run_queue) = IF f \in RunQueue THEN 1 ELSE 0
        /\ Occurrences(f, scratch) = IF f \in Scratch THEN 1 ELSE 0
        /\ Occurrences(f, pool) = IF f \in Pool THEN 1 ELSE 0
    BY <1>1 DEF IndInv, Once, External, RunQueue, Scratch, Pool
  <2>2. Held(f) = IF f \in InPool THEN 1 ELSE 0
    <3>1. {p \in PoolThreads : task[p] = f /\ thread[p] \in {"get", "push"}}
            = {p \in Holders : task[p] = f}
      BY DEF Holders
    <3>2. CASE f \in InPool
      <4>1. PICK p \in Holders : task[p] = f
        BY <3>2 DEF InPool
      <4>2. {q \in Holders : task[q] = f} = {p}
        BY <4>1 DEF IndInv, Once
      <4> QED BY <3>1, <3>2, <4>2, FS_Singleton DEF Held
    <3>3. CASE f \notin InPool
      <4>1. {q \in Holders : task[q] = f} = {}
        BY <3>3 DEF InPool
      <4> QED BY <3>1, <3>3, <4>1, FS_EmptySet DEF Held
    <3> QED BY <3>2, <3>3
  <2>3. Apart!(f)
    BY DEF IndInv, Apart
  <2> QED BY <2>1, <2>2, <2>3
<1> QED BY <1>2, Inductive, PTL

(* external_pending_ is the length of the external queue up to the pushes    *)
(* and pops in progress, modulo the width of the counter: the transient      *)
(* wrap-around below zero always heals.                                      *)
THEOREM PendingIsExact == Spec => []PendingExact
<1>1. IndInv => PendingExact
  BY DEF IndInv, PendingInv, Counting, PendingExact
<1> QED BY <1>1, Inductive, PTL

----------------------------------------------------------------------------
(* The timer wheel: for any number of timers, any number of buckets and any  *)
(* delays, if no callback asks for a whole number of turns.                  *)

(* Numbers that differ by something that is no multiple of c differ modulo c. *)
LEMMA OffTurn ==
  ASSUME NEW c \in Nat \ {0}, NEW a \in Int, NEW k \in Int, k % c # 0
  PROVE  (a + k) % c # a % c
<1> DEFINE q == a \div c
           r == a % c
           p == (a + k) \div c
           s == (a + k) % c
           u == k \div c
           v == k % c
<1>1. q \in Int /\ r \in Int /\ a = (c * q) + r
  OBVIOUS
<1>2. p \in Int /\ s \in Int /\ a + k = (c * p) + s
  OBVIOUS
<1>3. u \in Int /\ v \in 0 .. c - 1 /\ k = (c * u) + v
  OBVIOUS
<1> HIDE DEF q, r, p, s, u, v
<1>4. SUFFICES ASSUME s = r PROVE v = 0
  BY DEF s, r, v
<1>5. v = c * (p - q - u)
  BY <1>1, <1>2, <1>3, <1>4
<1>6. p - q - u < 1 /\ p - q - u > -1
  BY <1>1, <1>2, <1>3, <1>5
<1> QED BY <1>1, <1>2, <1>3, <1>5, <1>6

(* Numbers that differ by a multiple of c are equal modulo c. *)
LEMMA OnTurn ==
  ASSUME NEW c \in Nat \ {0}, NEW a \in Int, NEW u \in Int
  PROVE  (a + (c * u)) % c = a % c
<1> DEFINE b == a + (c * u)
           q == a \div c
           r == a % c
           p == b \div c
           s == b % c
<1>1. b \in Int /\ b = a + (c * u)
  OBVIOUS
<1>2. q \in Int /\ r \in 0 .. c - 1 /\ a = (c * q) + r
  OBVIOUS
<1> HIDE DEF b
<1>3. p \in Int /\ s \in 0 .. c - 1 /\ b = (c * p) + s
  BY <1>1
<1> HIDE DEF q, r, p, s
<1>4. s - r = c * (q + u - p)
  BY <1>1, <1>2, <1>3
<1>5. q + u - p < 1 /\ q + u - p > -1
  BY <1>2, <1>3, <1>4
<1>6. s = r
  BY <1>2, <1>3, <1>4, <1>5
<1> QED BY <1>6 DEF s, r, b

(* Every window of c numbers has one of each remainder. *)
LEMMA InWindow ==
  ASSUME NEW c \in Nat \ {0}, NEW a \in Int, NEW e \in Int
  PROVE  \E k \in a + 1 .. a + c : k % c = e % c
<1> DEFINE d == e - a - 1
           u == d \div c
           v == d % c
           k == a + 1 + v
<1>1. d \in Int /\ d = e - a - 1
  OBVIOUS
<1> HIDE DEF d
<1>2. u \in Int /\ v \in 0 .. c - 1 /\ d = (c * u) + v
  BY <1>1
<1> HIDE DEF u, v
<1>3. k \in a + 1 .. a + c /\ k \in Int
  BY <1>2
<1>4. e = k + (c * u)
  BY <1>1, <1>2
<1> HIDE DEF k
<1>5. (k + (c * u)) % c = k % c
  BY <1>2, <1>3, OnTurn
<1> QED BY <1>3, <1>4, <1>5

(* A later time has no earlier tick. *)
LEMMA LaterTick ==
  ASSUME NEW c \in Nat \ {0}, NEW a \in Nat, NEW b \in Nat, a <= b
  PROVE  a \div c <= b \div c
<1> DEFINE q == a \div c
           r == a % c
           p == b \div c
           s == b % c
<1>1. q \in Int /\ r \in 0 .. c - 1 /\ a = (c * q) + r
  OBVIOUS
<1>2. p \in Int /\ s \in 0 .. c - 1 /\ b = (c * p) + s
  OBVIOUS
<1> HIDE DEF q, r, p, s
<1>3. c * (q - p) < c
  BY <1>1, <1>2
<1>4. q - p < 1
  BY <1>1, <1>2, <1>3
<1>5. q <= p
  BY <1>1, <1>2, <1>4
<1> QED BY <1>5 DEF q, p

(* What a delay and a tick come to. *)
LEMMA WheelArithmetic ==
  /\ \A d \in Nat : Ticks(d) \in Nat \ {0}
  /\ \A n \in Nat : n \div TICK_NS \in Nat
  /\ \A n \in Nat : WheelSlot(n) \in Buckets
  /\ RearmsOffTurn => \A n \in Nat, d \in Rearms : WheelSlot(n + Ticks(d)) # WheelSlot(n)
<1>1. SLOTS \in Nat \ {0} /\ TICK_NS \in Nat \ {0} /\ Delays \subseteq Nat /\ Rearms \subseteq Nat
  BY TimerAssumption
<1>2. \A n \in Nat : n \div TICK_NS \in Nat
  BY <1>1
<1>3. \A d \in Nat : Ticks(d) \in Nat \ {0}
  BY <1>2 DEF Ticks
<1>4. \A n \in Nat : WheelSlot(n) \in Buckets
  BY <1>1 DEF WheelSlot, Buckets
<1>5. ASSUME RearmsOffTurn, NEW n \in Nat, NEW d \in Rearms
      PROVE  WheelSlot(n + Ticks(d)) # WheelSlot(n)
  <2>1. Ticks(d) \in Int /\ Ticks(d) % SLOTS # 0
    BY <1>1, <1>3, <1>5 DEF RearmsOffTurn
  <2> QED BY <1>1, <2>1, OffTurn DEF WheelSlot
<1> QED BY <1>2, <1>3, <1>4, <1>5

(* The rank of an element of a set of numbers: between 1 and the size of the set, *)
(* and the larger element has the larger rank.                                    *)
LEMMA RankFacts ==
  ASSUME NEW n \in Nat, NEW S \in SUBSET (1 .. n)
  PROVE  /\ IsFiniteSet(S) /\ Cardinality(S) \in 0 .. n
         /\ \A i \in S : RankIn(S, i) \in 1 .. Cardinality(S)
         /\ \A i, j \in S : RankIn(S, i) = RankIn(S, j) => i = j
<1>1. IsFiniteSet(1 .. n) /\ Cardinality(1 .. n) = n
  BY FS_Interval
<1>2. IsFiniteSet(S) /\ Cardinality(S) \in Nat /\ Cardinality(S) <= n
  BY <1>1, FS_Subset, FS_CardinalityType
<1>3. ASSUME NEW i \in S PROVE RankIn(S, i) \in 1 .. Cardinality(S)
  <2> DEFINE T == {j \in S : j <= i}
  <2>1. T \in SUBSET S /\ i \in T
    BY <1>3
  <2> HIDE DEF T
  <2>2. IsFiniteSet(T) /\ Cardinality(T) <= Cardinality(S)
    BY <1>2, <2>1, FS_Subset
  <2>3. Cardinality(T) \in Nat /\ Cardinality(T) # 0
    BY <2>1, <2>2, FS_EmptySet, FS_CardinalityType
  <2> QED BY <1>2, <2>2, <2>3 DEF RankIn, T
<1>4. ASSUME NEW i \in S, NEW j \in S, i < j PROVE RankIn(S, i) # RankIn(S, j)
  <2> DEFINE T == {k \in S : k <= i}
             U == {k \in S : k <= j}
  <2>0. i \in Nat /\ j \in Nat /\ \A k \in S : k \in Nat
    OBVIOUS
  <2>4. \A k \in T : k \in U
    BY <1>4, <2>0
  <2>5. U \in SUBSET S /\ j \in U /\ j \notin T
    BY <1>4, <2>0
  <2>1. T \in SUBSET U /\ U \in SUBSET S /\ j \in U /\ j \notin T
    <3> HIDE DEF T, U
    <3> QED BY <2>4, <2>5
  <2> HIDE DEF T, U
  <2>2. IsFiniteSet(U)
    BY <1>2, <2>1, FS_Subset
  <2>3. Cardinality(T) # Cardinality(U)
    BY <2>1, <2>2, FS_Subset
  <2> QED BY <2>3 DEF RankIn, T, U
<1>5. ASSUME NEW i \in S, NEW j \in S, RankIn(S, i) = RankIn(S, j) PROVE i = j
  <2>1. i \in Nat /\ j \in Nat
    OBVIOUS
  <2>2. ~(i < j) /\ ~(j < i)
    BY <1>4, <1>5
  <2> QED BY <2>1, <2>2
<1> QED BY <1>2, <1>3, <1>5

(* stable_partition moves every entry to a place of its own: the places of those *)
(* that stay come first.                                                         *)
LEMMA PlaceFacts ==
  ASSUME NEW q \in Seq(Timers), NEW tick
  PROVE  /\ Staying(q, tick) \in 0 .. Len(q)
         /\ \A i \in DOMAIN q :
               IF Stays(q[i], tick) THEN PlaceOf(q, tick, i) \in 1 .. Staying(q, tick)
               ELSE PlaceOf(q, tick, i) \in Staying(q, tick) + 1 .. Len(q)
         /\ \A i, j \in DOMAIN q : PlaceOf(q, tick, i) = PlaceOf(q, tick, j) => i = j
         /\ \A p \in DOMAIN q : \E i \in DOMAIN q : PlaceOf(q, tick, i) = p
<1> DEFINE n == Len(q)
           D == 1 .. n
           S == StayingIn(q, tick)
           T == D \ S
           s == Cardinality(S)
           place(i) == PlaceOf(q, tick, i)
<1>1. n \in Nat /\ DOMAIN q = D
  OBVIOUS
<1>2. S \in SUBSET D /\ T \in SUBSET D /\ T = D \ S /\ \A i \in D : i \in S <=> Stays(q[i], tick)
  BY <1>1 DEF StayingIn
<1>3. \A i \in D : place(i) = IF i \in S THEN RankIn(S, i) ELSE s + RankIn(T, i)
  BY <1>1 DEF PlaceOf
<1>4. Staying(q, tick) = s
  BY DEF Staying
<1>5. IsFiniteSet(D) /\ Cardinality(D) = n
  BY <1>1, FS_Interval, SMTT(40)
<1> HIDE DEF n, S, T, s, place
<1>6. s \in 0 .. n /\ (\A i \in S : RankIn(S, i) \in 1 .. s)
      /\ \A i, j \in S : RankIn(S, i) = RankIn(S, j) => i = j
  BY <1>1, <1>2, RankFacts DEF s
<1>7. Cardinality(T) = n - s
  <2>1. D \cap S = S
    BY <1>2
  <2>2. Cardinality(D \ S) = Cardinality(D) - Cardinality(D \cap S)
    <3> HIDE DEF D
    <3> QED BY <1>5, FS_Difference
  <2> QED BY <1>2, <1>5, <2>1, <2>2 DEF s
<1>8. (\A i \in T : RankIn(T, i) \in 1 .. n - s)
      /\ \A i, j \in T : RankIn(T, i) = RankIn(T, j) => i = j
  <2>1. T \in SUBSET (1 .. n)
    BY <1>2
  <2> QED BY <1>1, <1>7, <2>1, RankFacts
<1>9. \A i \in D : IF i \in S THEN place(i) \in 1 .. s ELSE place(i) \in s + 1 .. n
  <2> SUFFICES ASSUME NEW i \in D
               PROVE  IF i \in S THEN place(i) \in 1 .. s ELSE place(i) \in s + 1 .. n
    OBVIOUS
  <2>1. CASE i \in S
    BY <1>3, <1>6, <2>1
  <2>2. CASE i \notin S
    <3>1. i \in T
      BY <1>2, <2>2
    <3> QED BY <1>1, <1>3, <1>6, <1>8, <2>2, <3>1
  <2> QED BY <2>1, <2>2
<1>10. ASSUME NEW i \in D, NEW j \in D, place(i) = place(j) PROVE i = j
  <2>1. CASE i \in S
    <3>1. j \in S
      BY <1>6, <1>9, <1>10, <2>1
    <3> QED BY <1>3, <1>6, <1>10, <2>1, <3>1
  <2>2. CASE i \notin S
    <3>1. j \notin S
      BY <1>6, <1>9, <1>10, <2>2
    <3>2. i \in T /\ j \in T
      BY <1>2, <2>2, <3>1
    <3>3. RankIn(T, i) \in Nat /\ RankIn(T, j) \in Nat /\ s \in Nat
      BY <1>6, <1>8, <3>2
    <3>4. s + RankIn(T, i) = s + RankIn(T, j)
      BY <1>3, <1>10, <2>2, <3>1
    <3>5. RankIn(T, i) = RankIn(T, j)
      BY <3>3, <3>4
    <3> QED BY <1>8, <3>2, <3>5
  <2> QED BY <2>1, <2>2
<1>11. \A p \in D : \E i \in D : place(i) = p
  <2> DEFINE f == [i \in D |-> place(i)]
  <2>1. \A i \in D : place(i) \in D
    BY <1>1, <1>6, <1>9
  <2>2. f \in Injection(D, D)
    BY <1>10, <2>1 DEF Injection, IsInjective
  <2>3. f \in Surjection(D, D)
    <3> HIDE DEF f
    <3> QED BY <1>5, <2>2, FS_Injection
  <2>4. \A p \in D : \E i \in D : f[i] = p
    <3> HIDE DEF f
    <3> QED BY <2>3 DEF Surjection
  <2> QED BY <2>4
<1>12. \A i \in D : IF Stays(q[i], tick) THEN place(i) \in 1 .. s ELSE place(i) \in s + 1 .. n
  BY <1>2, <1>9
<1> QED BY <1>1, <1>4, <1>6, <1>10, <1>11, <1>12 DEF n, place

(* The bucket after stable_partition: the same entries, each once if each was there *)
(* once, the ones that stay up to the middle and the expired ones after it.         *)
LEMMA PartitionFacts ==
  ASSUME NEW q \in Seq(Timers), NEW tick
  PROVE  LET r == Partitioned(q, tick) IN
         /\ r \in Seq(Timers) /\ Len(r) = Len(q)
         /\ {r[p] : p \in DOMAIN r} = {q[i] : i \in DOMAIN q}
         /\ (\A i, j \in DOMAIN q : q[i] = q[j] => i = j)
              => \A i, j \in DOMAIN r : r[i] = r[j] => i = j
         /\ Staying(q, tick) \in 0 .. Len(q)
         /\ \A p \in DOMAIN r : Stays(r[p], tick) <=> p <= Staying(q, tick)
<1> DEFINE D == DOMAIN q
           s == Staying(q, tick)
           place(i) == PlaceOf(q, tick, i)
           from(p) == CHOOSE i \in D : place(i) = p
           r == Partitioned(q, tick)
<1>1. D = 1 .. Len(q) /\ Len(q) \in Nat /\ \A i \in D : q[i] \in Timers
  OBVIOUS
<1>2. /\ s \in 0 .. Len(q)
      /\ \A i \in D : IF Stays(q[i], tick) THEN place(i) \in 1 .. s ELSE place(i) \in s + 1 .. Len(q)
      /\ \A i, j \in D : place(i) = place(j) => i = j
      /\ \A p \in D : \E i \in D : place(i) = p
  BY PlaceFacts
<1>3. r = [p \in D |-> q[from(p)]]
  BY DEF Partitioned
<1> HIDE DEF D, s, place, r
<1>4. \A p \in D : from(p) \in D /\ place(from(p)) = p
  BY <1>2
<1> HIDE DEF from
<1>5. r \in Seq(Timers) /\ Len(r) = Len(q) /\ DOMAIN r = D /\ \A p \in D : r[p] = q[from(p)]
  BY <1>1, <1>3, <1>4
<1>6. \A i \in D : place(i) \in D /\ from(place(i)) = i
  BY <1>1, <1>2, <1>4, SMTT(40)
<1>7. {r[p] : p \in D} = {q[i] : i \in D}
  <2>1. ASSUME NEW p \in D PROVE \E i \in D : r[p] = q[i]
    BY <1>4, <1>5
  <2>2. ASSUME NEW i \in D PROVE \E p \in D : r[p] = q[i]
    BY <1>5, <1>6
  <2> QED BY <2>1, <2>2, SMTT(40)
<1>8. ASSUME \A i, j \in D : q[i] = q[j] => i = j,
             NEW i \in D, NEW j \in D, r[i] = r[j]
      PROVE  i = j
  <2>1. from(i) = from(j)
    BY <1>4, <1>5, <1>8
  <2> QED BY <1>4, <2>1
<1>9. ASSUME NEW p \in D PROVE Stays(r[p], tick) <=> p <= s
  <2>1. from(p) \in D /\ place(from(p)) = p /\ r[p] = q[from(p)]
    BY <1>4, <1>5
  <2> QED BY <1>1, <1>2, <2>1
<1> QED BY <1>1, <1>2, <1>5, <1>7, <1>8, <1>9 DEF D, s, r

----------------------------------------------------------------------------
\* No tick from a + 1 to b is both in the bucket of tick e and at or after e: the
\* walk from a to b has not met a timer of that tick.
Unmet(e, a, b) == \A k \in a + 1 .. b : e <= k => WheelSlot(k) # WheelSlot(e)

(* A timer set for a tick still to come has not been met, and nothing has at the start. *)
LEMMA UnmetLater ==
  /\ \A e, a, b \in Nat : e > b => Unmet(e, a, b)
  /\ \A e, a \in Nat : Unmet(e, a, a)
BY DEF Unmet

(* One tick more. *)
LEMMA UnmetStep ==
  ASSUME NEW e \in Nat, NEW a \in Nat, NEW n \in Nat, Unmet(e, a, n - 1),
         e <= n => WheelSlot(n) # WheelSlot(e)
  PROVE  Unmet(e, a, n)
<1> SUFFICES ASSUME NEW k \in a + 1 .. n, e <= k PROVE WheelSlot(k) # WheelSlot(e)
  BY DEF Unmet
<1>1. CASE k = n
  BY <1>1
<1>2. CASE k # n
  <2>1. k \in a + 1 .. n - 1
    BY <1>2
  <2> QED BY <2>1 DEF Unmet
<1> QED BY <1>1, <1>2

(* The tick in which the walk first meets a timer: its own, or if that had passed at *)
(* the start, one of the first turn.                                                 *)
LEMMA FirstMet ==
  ASSUME NEW e \in Nat, NEW a \in Nat, NEW n \in Nat, Unmet(e, a, n - 1),
         e <= n, WheelSlot(n) = WheelSlot(e)
  PROVE  n = e \/ (e < n /\ e <= a /\ n <= a + SLOTS)
<1>1. SLOTS \in Nat \ {0}
  BY TimerAssumption
<1> SUFFICES ASSUME n # e PROVE e < n /\ e <= a /\ n <= a + SLOTS
  OBVIOUS
<1>2. e <= a
  <2> SUFFICES ASSUME e > a PROVE FALSE
    OBVIOUS
  <2>1. e \in a + 1 .. n - 1 /\ e <= e
    OBVIOUS
  <2> QED BY <2>1 DEF Unmet
<1>3. n <= a + SLOTS
  <2> SUFFICES ASSUME n > a + SLOTS PROVE FALSE
    BY <1>1
  <2>3. PICK m \in Int : m = -1
    OBVIOUS
  <2>4. n \in Int
    OBVIOUS
  <2> DEFINE k == n + (SLOTS * m)
  <2>1. k \in a + 1 .. n - 1 /\ e <= k
    BY <1>1, <1>2, <2>3
  <2>2. k % SLOTS = n % SLOTS
    BY <1>1, <2>3, <2>4, OnTurn
  <2> HIDE DEF k
  <2> QED BY <2>1, <2>2 DEF Unmet, WheelSlot
<1> QED BY <1>2, <1>3

(* What has not been met is still to come, or was passed at the start and the walk *)
(* has not made its first turn.                                                    *)
LEMMA StillUnmet ==
  ASSUME NEW e \in Nat, NEW a \in Nat, NEW b \in Nat, Unmet(e, a, b)
  PROVE  IF e > a THEN e > b ELSE b < a + SLOTS
<1>1. SLOTS \in Nat \ {0}
  BY TimerAssumption
<1>2. CASE e > a
  <2> SUFFICES ASSUME e <= b PROVE FALSE
    BY <1>2
  <2>1. e \in a + 1 .. b /\ e <= e
    BY <1>2
  <2> QED BY <2>1 DEF Unmet
<1>3. CASE e <= a
  <2> SUFFICES ASSUME b >= a + SLOTS PROVE FALSE
    BY <1>1, <1>3
  <2>3. a \in Int /\ e \in Int
    OBVIOUS
  <2>1. PICK k \in a + 1 .. a + SLOTS : k % SLOTS = e % SLOTS
    BY <1>1, <2>3, InWindow, Zenon
  <2>2. k \in a + 1 .. b /\ e <= k
    BY <1>1, <1>3
  <2> QED BY <2>1, <2>2 DEF Unmet, WheelSlot
<1> QED BY <1>2, <1>3

----------------------------------------------------------------------------
\* What advance and add_timer keep.
WheelTypes ==
    /\ slots \in [Buckets -> Seq(Timers)]
    /\ current_tick \in Nat /\ target \in Nat /\ now \in Nat /\ run_tick \in Nat
    /\ mode \in {"stopped", "idle", "walk", "fire"}
    /\ mid \in Nat /\ it \in Nat
    /\ expires \in [Timers -> Nat] /\ fired \in [Timers -> Nat]
    /\ undefined = FALSE

\* initialize never turns the wheel back.
ClockInv ==
    /\ run_tick <= current_tick /\ current_tick <= now \div TICK_NS
    /\ target <= now \div TICK_NS

\* The rest is about any record f of the ticks in which timers fired and any next entry
\* k, since a callback may add a timer between the two updates.

\* An entry is in the bucket of its tick, and has not fired unless this advance has
\* just called it.
EntryOK(f, k, b, i) ==
    LET t == slots[b][i] IN
    /\ expires[t] > 0 /\ WheelSlot(expires[t]) = b
    /\ f[t] = IF mode = "fire" /\ b = WheelSlot(current_tick) /\ mid <= i /\ i < k
              THEN current_tick ELSE 0
EntriesOK(f, k) == \A b \in Buckets : \A i \in DOMAIN slots[b] : EntryOK(f, k, b, i)
OncePerBucket == \A b \in Buckets : \A i, j \in DOMAIN slots[b] : slots[b][i] = slots[b][j] => i = j

\* A timer set for tick e that fired in tick c: in its tick, or, if run() began after
\* it, in the first turn of that run.
FiredWell(e, c, a) == c = e \/ (e < c /\ e <= a /\ c <= a + SLOTS)

\* The last tick whose bucket has been dealt with.
Handled == IF mode = "fire" THEN current_tick - 1 ELSE current_tick

\* A timer that has not fired is in its bucket and this run has not met it yet.
TimerOK(f, t) ==
    /\ expires[t] = 0 => f[t] = 0
    /\ f[t] # 0 => f[t] <= current_tick /\ FiredWell(expires[t], f[t], run_tick)
    /\ (expires[t] > 0 /\ f[t] = 0) =>
          /\ \E i \in DOMAIN slots[WheelSlot(expires[t])] : slots[WheelSlot(expires[t])][i] = t
          /\ Unmet(expires[t], run_tick, Handled)
TimersOK(f) == \A t \in Timers : TimerOK(f, t)

\* The walk over a bucket: what stays is before mid, and what is after it is due.
Middle(k) == mode = "fire" =>
    /\ mid \in 1 .. Len(Bucket) + 1 /\ k \in mid .. Len(Bucket) + 1
    /\ current_tick > 0
    /\ \A i \in DOMAIN Bucket : expires[Bucket[i]] > current_tick <=> i < mid

Walked(f, k) == EntriesOK(f, k) /\ OncePerBucket /\ TimersOK(f) /\ Middle(k)
WheelInv == WheelTypes /\ ClockInv /\ Walked(fired, it)

(* The inductive invariant holds of the wheel as constructed. *)
LEMMA WheelStarts == WheelInit => WheelInv
<1> SUFFICES ASSUME WheelInit PROVE WheelInv
  OBVIOUS
<1>1. TICK_NS \in Nat \ {0}
  BY TimerAssumption
<1>2. now = 0 /\ 0 \div TICK_NS \in Nat
  BY <1>1 DEF WheelInit
<1>3. WheelTypes /\ ClockInv
  BY <1>2 DEF WheelInit, WheelTypes, ClockInv
<1>4. EntriesOK(fired, it) /\ OncePerBucket
  BY DEF WheelInit, EntriesOK, OncePerBucket
<1>5. TimersOK(fired) /\ Middle(it)
  BY DEF WheelInit, TimersOK, TimerOK, Middle
<1> QED BY <1>3, <1>4, <1>5 DEF WheelInv, Walked

(* add_timer: the timer goes to the end of the bucket of its tick. *)
LEMMA AddKeeps ==
  ASSUME WheelTypes, NEW f \in [Timers -> Nat], NEW k \in Nat, Walked(f, k),
         NEW t \in Timers, NEW d \in Nat, Add(t, d),
         mode' = mode, current_tick' = current_tick, mid' = mid, run_tick' = run_tick,
         mode = "fire" => WheelSlot(current_tick + Ticks(d)) # WheelSlot(current_tick)
  PROVE  /\ slots' \in [Buckets -> Seq(Timers)] /\ expires' \in [Timers -> Nat]
         /\ Walked(f, k)'
<1> DEFINE tick == current_tick + Ticks(d)
           w == WheelSlot(tick)
<1>1. tick \in Nat /\ tick > current_tick /\ w \in Buckets /\ current_tick \in Nat
  <2>1. current_tick \in Nat
    BY DEF WheelTypes
  <2>2. Ticks(d) \in Nat \ {0}
    BY WheelArithmetic
  <2>3. tick \in Nat /\ tick > current_tick
    BY <2>1, <2>2
  <2> HIDE DEF tick
  <2> QED BY <2>1, <2>3, WheelArithmetic
<1>2. /\ expires[t] = 0 /\ expires' = [expires EXCEPT ![t] = tick]
      /\ slots' = [slots EXCEPT ![w] = Append(slots[w], t)]
  BY DEF Add, Unused
<1> HIDE DEF w, tick
<1>3. /\ slots \in [Buckets -> Seq(Timers)] /\ expires \in [Timers -> Nat]
      /\ mid \in Nat
  BY DEF WheelTypes
<1> DEFINE q == slots[w]
           a == Append(q, t)
<1>4. /\ q \in Seq(Timers) /\ a \in Seq(Timers) /\ DOMAIN q = 1 .. Len(q) /\ Len(q) \in Nat
      /\ DOMAIN a = 1 .. Len(q) + 1 /\ a[Len(q) + 1] = t /\ \A i \in DOMAIN q : a[i] = q[i] /\ i \in DOMAIN a
  BY <1>1, <1>3, SMTT(40)
<1>5. /\ slots' \in [Buckets -> Seq(Timers)] /\ slots'[w] = a
      /\ \A b \in Buckets : b # w => slots'[b] = slots[b]
  BY <1>1, <1>2, <1>3, <1>4
<1>6. expires' \in [Timers -> Nat] /\ expires'[t] = tick /\ \A u \in Timers : u # t => expires'[u] = expires[u]
  BY <1>1, <1>2, <1>3
<1> HIDE DEF q, a
<1>7. \A b \in Buckets : \A i \in DOMAIN slots[b] : slots[b][i] # t /\ slots[b][i] \in Timers
  <2> SUFFICES ASSUME NEW b \in Buckets, NEW i \in DOMAIN slots[b]
               PROVE  slots[b][i] # t /\ slots[b][i] \in Timers
    OBVIOUS
  <2>1. expires[slots[b][i]] > 0
    BY DEF Walked, EntriesOK, EntryOK
  <2>2. slots[b] \in Seq(Timers)
    BY <1>3
  <2> QED BY <1>2, <2>1, <2>2
<1>8. f[t] = 0
  BY <1>2 DEF Walked, TimersOK, TimerOK
<1>9. OncePerBucket'
  <2> SUFFICES ASSUME NEW b \in Buckets, NEW i \in DOMAIN slots'[b], NEW j \in DOMAIN slots'[b],
                      slots'[b][i] = slots'[b][j]
               PROVE  i = j
    BY DEF OncePerBucket
  <2>1. \A m, l \in DOMAIN slots[b] : slots[b][m] = slots[b][l] => m = l
    BY DEF Walked, OncePerBucket
  <2>2. CASE b # w
    BY <1>5, <2>1, <2>2
  <2>3. CASE b = w
    <3>1. \A m \in DOMAIN q : q[m] # t
      BY <1>1, <1>7 DEF q
    <3>2. \A m, l \in DOMAIN q : q[m] = q[l] => m = l
      BY <2>1, <2>3 DEF q
    <3>3. i \in 1 .. Len(q) + 1 /\ j \in 1 .. Len(q) + 1 /\ a[i] = a[j]
      BY <1>4, <1>5, <2>3
    <3>5. \A m \in 1 .. Len(q) + 1 : m \in 1 .. Len(q) \/ m = Len(q) + 1
      BY <1>4
    <3>4. \A m \in 1 .. Len(q) + 1 : (m \in DOMAIN q /\ a[m] = q[m]) \/ (m = Len(q) + 1 /\ a[m] = t)
      BY <1>4, <3>5
    <3> QED BY <3>1, <3>2, <3>3, <3>4
  <2> QED BY <2>2, <2>3
<1>10. EntriesOK(f, k)'
  <2> SUFFICES ASSUME NEW b \in Buckets, NEW i \in DOMAIN slots'[b] PROVE EntryOK(f, k, b, i)'
    BY DEF EntriesOK
  <2>1. CASE i \in DOMAIN slots[b] /\ slots'[b][i] = slots[b][i]
    <3>1. EntryOK(f, k, b, i)
      BY <2>1 DEF Walked, EntriesOK
    <3> QED BY <1>6, <1>7, <2>1, <3>1 DEF EntryOK
  <2>2. CASE b = w /\ i = Len(q) + 1
    <3>1. slots'[b][i] = t /\ WheelSlot(tick) = b
      BY <1>4, <1>5, <2>2 DEF w
    <3>2. ~(mode = "fire" /\ b = WheelSlot(current_tick))
      BY <3>1 DEF tick
    <3> QED BY <1>1, <1>6, <1>8, <3>1, <3>2 DEF EntryOK
  <2>3. \A m \in DOMAIN a : (m \in DOMAIN q /\ a[m] = q[m]) \/ m = Len(q) + 1
    BY <1>4, SMTT(40)
  <2>4. CASE b = w
    BY <1>5, <2>1, <2>2, <2>3, <2>4 DEF q
  <2>5. CASE b # w
    BY <1>5, <2>1, <2>5
  <2> QED BY <2>4, <2>5
<1>11. TimersOK(f)'
  <2> SUFFICES ASSUME NEW u \in Timers PROVE TimerOK(f, u)'
    BY DEF TimersOK
  <2>1. CASE u = t
    <3>1. WheelSlot(expires'[u]) = w /\ Len(q) + 1 \in DOMAIN slots'[w] /\ slots'[w][Len(q) + 1] = u
      BY <1>4, <1>5, <1>6, <2>1 DEF w
    <3>2. Unmet(tick, run_tick, Handled) /\ Handled' = Handled
      <4>1. run_tick \in Nat /\ Handled \in Int /\ Handled < tick
        BY <1>1 DEF WheelTypes, Handled
      <4> QED BY <1>1, <4>1 DEF Unmet, Handled
    <3> QED BY <1>1, <1>6, <1>8, <2>1, <3>1, <3>2 DEF TimerOK
  <2>2. CASE u # t
    <3>4. Handled' = Handled
      BY DEF Handled
    <3>1. TimerOK(f, u) /\ expires'[u] = expires[u] /\ expires[u] \in Nat
      BY <1>3, <1>6, <2>2 DEF Walked, TimersOK
    <3>2. WheelSlot(expires[u]) \in Buckets
      BY <3>1, WheelArithmetic
    <3>3. ASSUME NEW i \in DOMAIN slots[WheelSlot(expires[u])]
          PROVE  /\ i \in DOMAIN slots'[WheelSlot(expires[u])]
                 /\ slots'[WheelSlot(expires[u])][i] = slots[WheelSlot(expires[u])][i]
      BY <1>4, <1>5, <3>2, <3>3 DEF q
    <3> QED BY <3>1, <3>3, <3>4 DEF TimerOK
  <2> QED BY <2>1, <2>2
<1>12. Middle(k)'
  <2> SUFFICES ASSUME mode = "fire" PROVE Middle(k)'
    BY DEF Middle
  <2>1. WheelSlot(current_tick) # w /\ WheelSlot(current_tick) \in Buckets
    BY <1>1, WheelArithmetic DEF w, tick
  <2>2. Bucket' = Bucket
    BY <1>5, <2>1 DEF Bucket
  <2>3. \A i \in DOMAIN Bucket : expires'[Bucket[i]] = expires[Bucket[i]]
    BY <1>6, <1>7, <2>1 DEF Bucket
  <2> QED BY <2>2, <2>3 DEF Walked, Middle
<1> QED BY <1>5, <1>6, <1>9, <1>10, <1>11, <1>12 DEF Walked

(* Reactor::add_timer between two calls of advance. *)
LEMMA AddTimerKeeps == WheelInv /\ AddTimer => WheelInv'
<1> SUFFICES ASSUME WheelInv, AddTimer PROVE WheelInv'
  OBVIOUS
<1>1. PICK t \in Timers, d \in Delays : Add(t, d)
  BY DEF AddTimer
<1>2. d \in Nat /\ mode # "fire"
  BY TimerAssumption DEF AddTimer, Outside
<1>3. /\ mode' = mode /\ current_tick' = current_tick /\ mid' = mid /\ it' = it /\ fired' = fired
      /\ target' = target /\ now' = now /\ run_tick' = run_tick /\ undefined' = undefined
  BY DEF AddTimer
<1>4. PICK f \in [Timers -> Nat], k \in Nat : f = fired /\ k = it
  BY DEF WheelInv, WheelTypes
<1>6. WheelTypes /\ Walked(f, k)
  BY <1>4 DEF WheelInv
<1>7. slots' \in [Buckets -> Seq(Timers)] /\ expires' \in [Timers -> Nat] /\ Walked(f, k)'
  BY <1>1, <1>2, <1>3, <1>6, AddKeeps
<1>5. WheelTypes' /\ ClockInv'
  BY <1>3, <1>7 DEF WheelInv, WheelTypes, ClockInv
<1>8. fired' = f /\ it' = k
  BY <1>3, <1>4
<1>9. Walked(fired, it)'
  BY <1>7, <1>8 DEF Walked, EntriesOK, EntryOK, TimersOK, TimerOK, Middle
<1> QED BY <1>5, <1>9 DEF WheelInv

(* The steps that touch neither a bucket nor the tick. *)
LEMMA ClockKeeps == WheelInv /\ (ClockTicks \/ RunReturns \/ Advance \/ AdvanceReturns) => WheelInv'
<1> SUFFICES ASSUME WheelInv, ClockTicks \/ RunReturns \/ Advance \/ AdvanceReturns PROVE WheelInv'
  OBVIOUS
<1>1. /\ slots' = slots /\ current_tick' = current_tick /\ expires' = expires /\ fired' = fired
      /\ undefined' = undefined /\ mode # "fire" /\ mode' # "fire"
      /\ mode' \in {"stopped", "idle", "walk"} /\ run_tick' = run_tick
  BY DEF ClockTicks, Outside, RunReturns, Advance, AdvanceReturns, WheelInv, WheelTypes
<1>2. /\ now' \in Nat /\ target' \in Nat /\ mid' \in Nat /\ it' \in Nat
      /\ now <= now' /\ (target' \in {0, target, now \div TICK_NS})
  <2>1. now \in Nat /\ target \in Nat /\ mid \in Nat /\ it \in Nat
    BY DEF WheelInv, WheelTypes
  <2>2. now \div TICK_NS \in Nat
    BY <2>1, WheelArithmetic
  <2>3. CASE ClockTicks
    BY <2>1, <2>3 DEF ClockTicks
  <2>4. CASE Advance
    BY <2>1, <2>2, <2>4 DEF Advance
  <2>5. CASE AdvanceReturns
    BY <2>1, <2>5 DEF AdvanceReturns
  <2>6. CASE RunReturns
    BY <2>1, <2>6 DEF RunReturns
  <2> QED BY <2>3, <2>4, <2>5, <2>6
<1>3. WheelTypes'
  BY <1>1, <1>2 DEF WheelInv, WheelTypes
<1>6. ClockInv'
  <2>1. now \in Nat /\ current_tick \in Nat /\ run_tick \in Nat /\ target \in Nat
    BY DEF WheelInv, WheelTypes
  <2>2. PICK n \in Nat : n = now'
    BY <1>2
  <2>3. now \div TICK_NS <= n \div TICK_NS /\ now \div TICK_NS \in Nat /\ n \div TICK_NS \in Nat
    BY <1>2, <2>1, <2>2, LaterTick, WheelArithmetic, TimerAssumption
  <2> QED BY <1>1, <1>2, <2>1, <2>2, <2>3 DEF WheelInv, ClockInv
<1>4. EntriesOK(fired, it)' /\ OncePerBucket'
  BY <1>1 DEF WheelInv, Walked, EntriesOK, EntryOK, OncePerBucket
<1>5. TimersOK(fired)' /\ Middle(it)'
  <2>1. Handled' = Handled
    BY <1>1 DEF Handled
  <2> QED BY <1>1, <2>1 DEF WheelInv, Walked, TimersOK, TimerOK, Middle
<1> QED BY <1>3, <1>4, <1>5, <1>6 DEF WheelInv, Walked

(* run() sets the tick: never back, so what has fired stays well fired, and the new  *)
(* run has met nothing yet.                                                          *)
LEMMA RunKeeps == WheelInv /\ RunStarts => WheelInv'
<1> SUFFICES ASSUME WheelInv, RunStarts PROVE WheelInv'
  OBVIOUS
<1>1. /\ slots' = slots /\ expires' = expires /\ fired' = fired /\ undefined' = undefined
      /\ now' = now /\ target' = target /\ mid' = mid /\ it' = it
      /\ mode = "stopped" /\ mode' = "idle"
  BY DEF RunStarts
<1>2. PICK n : n = now \div TICK_NS
  OBVIOUS
<1>3. n \in Nat /\ current_tick' = n /\ run_tick' = n /\ current_tick \in Nat /\ run_tick \in Nat
      /\ now \in Nat /\ target \in Nat
  BY <1>2, WheelArithmetic DEF RunStarts, WheelInv, WheelTypes
<1>4. run_tick <= current_tick /\ current_tick <= n /\ target <= n
  BY <1>2 DEF WheelInv, ClockInv
<1>5. WheelTypes'
  BY <1>1, <1>3 DEF WheelInv, WheelTypes
<1>6. ClockInv'
  BY <1>1, <1>2, <1>3, <1>4 DEF ClockInv
<1>7. EntriesOK(fired, it)' /\ OncePerBucket' /\ Middle(it)'
  BY <1>1 DEF WheelInv, Walked, EntriesOK, EntryOK, OncePerBucket, Middle
<1>8. TimersOK(fired)'
  <2> SUFFICES ASSUME NEW t \in Timers PROVE TimerOK(fired, t)'
    BY DEF TimersOK
  <2>1. TimerOK(fired, t) /\ expires[t] \in Nat /\ fired[t] \in Nat
    BY DEF WheelInv, WheelTypes, Walked, TimersOK
  <2>2. fired[t] # 0 => fired[t] <= n /\ FiredWell(expires[t], fired[t], n)
    <3>1. SLOTS \in Nat
      BY TimerAssumption
    <3> QED BY <1>3, <1>4, <2>1, <3>1 DEF TimerOK, FiredWell
  <2>3. Unmet(expires[t], n, n)
    BY <1>3, <2>1, UnmetLater
  <2>4. Handled' = n
    BY <1>1, <1>3 DEF Handled
  <2> QED BY <1>1, <1>3, <2>1, <2>2, <2>3, <2>4 DEF TimerOK
<1> QED BY <1>5, <1>6, <1>7, <1>8 DEF WheelInv, Walked

(* advance takes the next tick and partitions its bucket: if the bucket is empty,  *)
(* the tick meets no timer.                                                         *)
LEMMA WalkKeeps == WheelInv /\ Walk => WheelInv'
<1> SUFFICES ASSUME WheelInv, Walk PROVE WheelInv'
  OBVIOUS
<1> DEFINE n == NextTick
           w == WheelSlot(n)
           q == slots[w]
           r == Partitioned(q, n)
           s == Staying(q, n)
<1>1. n = current_tick + 1 /\ n \in Nat /\ current_tick \in Nat
  BY DEF NextTick, WheelInv, WheelTypes
<1>2. /\ mode = "walk" /\ current_tick' = n /\ slots' = [slots EXCEPT ![w] = r]
      /\ mid' = s + 1 /\ it' = s + 1 /\ mode' = IF q = <<>> THEN "walk" ELSE "fire"
      /\ now' = now /\ target' = target /\ expires' = expires /\ fired' = fired
      /\ undefined' = undefined /\ run_tick' = run_tick /\ current_tick < target
  BY DEF Walk
<1> HIDE DEF n
<1>3. /\ slots \in [Buckets -> Seq(Timers)] /\ expires \in [Timers -> Nat]
      /\ fired \in [Timers -> Nat]
  BY DEF WheelInv, WheelTypes
<1>4. w \in Buckets
  BY <1>1, WheelArithmetic
<1>5. q \in Seq(Timers)
  BY <1>3, <1>4
<1>6. /\ r \in Seq(Timers) /\ Len(r) = Len(q)
      /\ {r[p] : p \in DOMAIN r} = {q[i] : i \in DOMAIN q}
      /\ (\A i, j \in DOMAIN q : q[i] = q[j] => i = j) => \A i, j \in DOMAIN r : r[i] = r[j] => i = j
      /\ s \in 0 .. Len(q)
      /\ \A p \in DOMAIN r : Stays(r[p], n) <=> p <= s
  <2> HIDE DEF q
  <2> QED BY <1>5, PartitionFacts
<1> HIDE DEF w, r, s
<1>7. slots'[w] = r /\ (\A b \in Buckets : b # w => slots'[b] = slots[b]) /\ slots' \in [Buckets -> Seq(Timers)]
  BY <1>2, <1>3, <1>4, <1>6
<1>8. WheelTypes'
  <2>1. mid' \in Nat /\ it' \in Nat /\ mode' \in {"stopped", "idle", "walk", "fire"}
    BY <1>2, <1>5, <1>6
  <2> QED BY <1>1, <1>2, <1>7, <2>1 DEF WheelInv, WheelTypes
<1>17. ClockInv'
  <2>1. run_tick \in Nat /\ target \in Nat /\ now \div TICK_NS \in Nat
    BY WheelArithmetic DEF WheelInv, WheelTypes
  <2> QED BY <1>1, <1>2, <2>1 DEF WheelInv, ClockInv
<1>9. \A b \in Buckets : \A i \in DOMAIN slots[b] :
         /\ slots[b][i] \in Timers /\ fired[slots[b][i]] = 0
         /\ expires[slots[b][i]] > 0 /\ WheelSlot(expires[slots[b][i]]) = b
  <2> SUFFICES ASSUME NEW b \in Buckets, NEW i \in DOMAIN slots[b]
               PROVE  /\ slots[b][i] \in Timers /\ fired[slots[b][i]] = 0
                      /\ expires[slots[b][i]] > 0 /\ WheelSlot(expires[slots[b][i]]) = b
    OBVIOUS
  <2>1. slots[b] \in Seq(Timers)
    BY <1>3
  <2> QED BY <1>2, <2>1 DEF WheelInv, Walked, EntriesOK, EntryOK
<1>10. \A p \in DOMAIN r : \E i \in DOMAIN q : r[p] = q[i]
  <2> SUFFICES ASSUME NEW p \in DOMAIN r PROVE \E i \in DOMAIN q : r[p] = q[i]
    OBVIOUS
  <2> HIDE DEF q
  <2>1. r[p] \in {q[i] : i \in DOMAIN q}
    BY <1>6
  <2> QED BY <2>1
<1>11. \A i \in DOMAIN q : \E p \in DOMAIN r : r[p] = q[i]
  <2> SUFFICES ASSUME NEW i \in DOMAIN q PROVE \E p \in DOMAIN r : r[p] = q[i]
    OBVIOUS
  <2> HIDE DEF q
  <2>1. q[i] \in {r[p] : p \in DOMAIN r}
    BY <1>6
  <2> QED BY <2>1
<1>12. \A b \in Buckets : \A i \in DOMAIN slots'[b] :
         /\ slots'[b][i] \in Timers /\ fired[slots'[b][i]] = 0
         /\ expires[slots'[b][i]] > 0 /\ WheelSlot(expires[slots'[b][i]]) = b
  <2> SUFFICES ASSUME NEW b \in Buckets, NEW i \in DOMAIN slots'[b]
               PROVE  /\ slots'[b][i] \in Timers /\ fired[slots'[b][i]] = 0
                      /\ expires[slots'[b][i]] > 0 /\ WheelSlot(expires[slots'[b][i]]) = b
    OBVIOUS
  <2>1. \E k \in DOMAIN slots[b] : slots'[b][i] = slots[b][k]
    BY <1>7, <1>10
  <2> QED BY <1>9, <2>1
<1>13. EntriesOK(fired, it)'
  <2> SUFFICES ASSUME NEW b \in Buckets, NEW i \in DOMAIN slots'[b] PROVE EntryOK(fired, it, b, i)'
    BY DEF EntriesOK
  <2>1. ~(mid' <= i /\ i < it')
    <3>1. i \in Int /\ s \in Int /\ mid' = s + 1 /\ it' = s + 1
      BY <1>2, <1>6, <1>7
    <3> QED BY <3>1
  <2> QED BY <1>2, <1>12, <2>1 DEF EntryOK
<1>14. OncePerBucket'
  BY <1>6, <1>7 DEF WheelInv, Walked, OncePerBucket
<1>15. TimersOK(fired)'
  <2> SUFFICES ASSUME NEW t \in Timers PROVE TimerOK(fired, t)'
    BY DEF TimersOK
  <2>1. TimerOK(fired, t) /\ expires[t] \in Nat /\ WheelSlot(expires[t]) \in Buckets
    BY <1>3, WheelArithmetic DEF WheelInv, Walked, TimersOK
  <2>2. ASSUME expires[t] > 0, fired[t] = 0
        PROVE  /\ \E i \in DOMAIN slots'[WheelSlot(expires[t])] : slots'[WheelSlot(expires[t])][i] = t
               /\ Unmet(expires[t], run_tick, Handled')
    <3>1. PICK i \in DOMAIN slots[WheelSlot(expires[t])] : slots[WheelSlot(expires[t])][i] = t
      BY <2>1, <2>2 DEF TimerOK
    <3>2. \E k \in DOMAIN slots'[WheelSlot(expires[t])] : slots'[WheelSlot(expires[t])][k] = t
      BY <1>7, <1>11, <2>1, <3>1
    <3>3. Unmet(expires[t], run_tick, n - 1)
      <4>1. Handled = n - 1
        BY <1>1, <1>2 DEF Handled
      <4> QED BY <2>1, <2>2, <4>1 DEF TimerOK
    <3>4. CASE mode' = "fire"
      <4>1. Handled' = n - 1
        BY <1>2, <3>4 DEF Handled
      <4> QED BY <3>2, <3>3, <4>1
    <3>5. CASE mode' # "fire"
      <4>1. q = <<>> /\ Handled' = n
        BY <1>2, <3>5 DEF Handled
      <4>2. WheelSlot(n) # WheelSlot(expires[t])
        BY <3>1, <4>1 DEF w
      <4>3. run_tick \in Nat
        BY DEF WheelInv, WheelTypes
      <4>4. Unmet(expires[t], run_tick, n)
        BY <1>1, <2>1, <3>3, <4>2, <4>3, UnmetStep
      <4> QED BY <3>2, <4>1, <4>4
    <3> QED BY <3>4, <3>5
  <2>3. fired[t] # 0 => fired[t] <= n
    BY <1>1, <1>3, <2>1 DEF TimerOK
  <2> QED BY <1>2, <2>1, <2>2, <2>3 DEF TimerOK
<1>16. Middle(it)'
  <2> SUFFICES ASSUME mode' = "fire" PROVE Middle(it)'
    BY DEF Middle
  <2>1. Bucket' = r
    BY <1>2, <1>7 DEF Bucket, w
  <2>2. mid' \in 1 .. Len(r) + 1 /\ it' \in mid' .. Len(r) + 1
    BY <1>2, <1>6
  <2>3. ASSUME NEW i \in DOMAIN r
        PROVE  expires[r[i]] > n <=> i < mid'
    <3>1. i \in Int /\ s \in Int
      BY <1>6, <2>3
    <3> QED BY <1>2, <1>6, <2>3, <3>1 DEF Stays
  <2> QED BY <1>1, <1>2, <2>1, <2>2, <2>3 DEF Middle
<1> QED BY <1>8, <1>13, <1>14, <1>15, <1>16, <1>17 DEF WheelInv, Walked


(* advance calls the next expired entry, and its callback may add a timer, which   *)
(* does not land in the bucket that advance is walking.                             *)
LEMMA FireKeeps == RearmsOffTurn /\ WheelInv /\ Fire => WheelInv'
<1> SUFFICES ASSUME RearmsOffTurn, WheelInv, Fire PROVE WheelInv'
  OBVIOUS
<1> DEFINE w == WheelSlot(current_tick)
           q == slots[w]
           c == q[it]
<1>1. /\ slots \in [Buckets -> Seq(Timers)] /\ expires \in [Timers -> Nat]
      /\ fired \in [Timers -> Nat] /\ current_tick \in Nat /\ it \in Nat /\ mid \in Nat
      /\ WheelTypes /\ Walked(fired, it)
  BY DEF WheelInv, WheelTypes
<1>2. w \in Buckets
  BY <1>1, WheelArithmetic
<1>3. /\ mode = "fire" /\ it <= Len(q) /\ fired' = [fired EXCEPT ![c] = current_tick]
      /\ it' = it + 1 /\ mode' = mode /\ current_tick' = current_tick /\ mid' = mid
      /\ now' = now /\ target' = target /\ run_tick' = run_tick
  BY DEF Fire, Bucket
<1>4. q \in Seq(Timers)
  BY <1>1, <1>2
<1>5. /\ mid \in 1 .. Len(q) + 1 /\ it \in mid .. Len(q) + 1 /\ Len(q) \in Nat
      /\ DOMAIN q = 1 .. Len(q)
      /\ current_tick > 0
      /\ \A i \in DOMAIN q : expires[q[i]] > current_tick <=> i < mid
  <2>1. Middle(it) /\ Bucket = q
    BY <1>1 DEF Walked, Bucket
  <2>2. Len(q) \in Nat /\ DOMAIN q = 1 .. Len(q)
    BY <1>4
  <2> HIDE DEF q
  <2> QED BY <1>3, <2>1, <2>2 DEF Middle
<1> HIDE DEF w, q
<1>6. it \in DOMAIN q /\ c \in Timers /\ WheelSlot(expires[c]) = w
      /\ FiredWell(expires[c], current_tick, run_tick)
  <2>1. it \in DOMAIN q /\ c \in Timers
    BY <1>3, <1>4, <1>5
  <2>2. EntryOK(fired, it, w, it)
    BY <1>1, <1>2, <2>1 DEF Walked, EntriesOK, q
  <2>3. fired[c] = 0 /\ expires[c] > 0 /\ WheelSlot(expires[c]) = w
    BY <1>1, <2>2 DEF EntryOK, q
  <2>4. expires[c] \in Nat /\ expires[c] <= current_tick
    <3>1. ~(it < mid) /\ expires[c] \in Nat
      BY <1>1, <1>5, <2>1
    <3>2. ~(expires[c] > current_tick)
      BY <1>5, <2>1, <3>1
    <3> QED BY <1>1, <3>1, <3>2
  <2>5. Unmet(expires[c], run_tick, current_tick - 1)
    <3>1. TimerOK(fired, c) /\ Handled = current_tick - 1
      BY <1>1, <1>3, <2>1 DEF Walked, TimersOK, Handled
    <3> QED BY <2>3, <3>1 DEF TimerOK
  <2>6. run_tick \in Nat
    BY <1>1 DEF WheelTypes
  <2> HIDE DEF c
  <2> QED BY <1>1, <2>1, <2>3, <2>4, <2>5, <2>6, FirstMet DEF FiredWell, w
<1> HIDE DEF c
<1>7. PICK f \in [Timers -> Nat], k \in Nat :
         f = [fired EXCEPT ![c] = current_tick] /\ k = it + 1
  <2>1. [fired EXCEPT ![c] = current_tick] \in [Timers -> Nat] /\ it + 1 \in Nat
    BY <1>1, <1>6, SMTT(30)
  <2> QED BY <2>1
<1>8. f[c] = current_tick /\ \A u \in Timers : u # c => f[u] = fired[u]
  BY <1>1, <1>6, <1>7
<1>9. EntriesOK(f, k)
  <2> SUFFICES ASSUME NEW b \in Buckets, NEW i \in DOMAIN slots[b] PROVE EntryOK(f, k, b, i)
    BY DEF EntriesOK
  <2>1. EntryOK(fired, it, b, i) /\ slots[b] \in Seq(Timers) /\ slots[b][i] \in Timers
    BY <1>1 DEF Walked, EntriesOK
  <2>2. CASE slots[b][i] = c
    <3>1. b = w
      BY <1>6, <2>1, <2>2 DEF EntryOK, w
    <3>2. i = it
      BY <1>1, <1>2, <1>6, <2>2, <3>1 DEF Walked, OncePerBucket, q, c
    <3>3. mid <= i /\ i < k
      BY <1>5, <1>7, <3>2
    <3> QED BY <1>3, <1>8, <2>1, <2>2, <3>1, <3>3 DEF EntryOK, w
  <2>3. CASE slots[b][i] # c
    <3>1. ~(b = w /\ i = it)
      BY <2>3 DEF q, c
    <3>2. i \in Int /\ it \in Int /\ k = it + 1
      BY <1>1, <1>7, <2>1
    <3>3. b = w => (i < k <=> i < it)
      BY <3>1, <3>2
    <3> QED BY <1>8, <2>1, <2>3, <3>3 DEF EntryOK, w
  <2> QED BY <2>2, <2>3
<1>10. TimersOK(f)
  <2> SUFFICES ASSUME NEW t \in Timers PROVE TimerOK(f, t)
    BY DEF TimersOK
  <2>1. TimerOK(fired, t)
    BY <1>1 DEF Walked, TimersOK
  <2>2. CASE t = c
    <3>1. f[t] # 0 /\ f[t] <= current_tick /\ FiredWell(expires[t], f[t], run_tick)
      BY <1>1, <1>5, <1>6, <1>8, <2>2
    <3>2. expires[t] # 0
      <4>1. EntryOK(fired, it, w, it)
        BY <1>1, <1>2, <1>6 DEF Walked, EntriesOK, q
      <4> QED BY <2>2, <4>1 DEF EntryOK, q, c
    <3> QED BY <3>1, <3>2 DEF TimerOK
  <2>3. CASE t # c
    BY <1>8, <2>1, <2>3 DEF TimerOK
  <2> QED BY <2>2, <2>3
<1>11. Middle(k)
  <2>1. k \in mid .. Len(q) + 1
    BY <1>3, <1>5, <1>7
  <2> QED BY <1>1, <2>1 DEF Walked, Middle, Bucket, q, w
<1>12. Walked(f, k)
  BY <1>1, <1>9, <1>10, <1>11 DEF Walked
<1>13. /\ slots' \in [Buckets -> Seq(Timers)] /\ expires' \in [Timers -> Nat]
       /\ Walked(f, k)' /\ undefined' = FALSE
  <2>1. CASE UNCHANGED <<slots, capacity, expires, undefined>>
    <3>1. slots' = slots /\ expires' = expires /\ undefined' = undefined
      BY <2>1
    <3>2. Bucket' = Bucket
      BY <1>3, <3>1 DEF Bucket
    <3>3. Walked(f, k)'
      <4>1. Handled' = Handled
        BY <1>3 DEF Handled
      <4> QED BY <1>3, <1>12, <3>1, <3>2, <4>1 DEF Walked, EntriesOK, EntryOK, OncePerBucket, TimersOK,
                                                    TimerOK, Middle
    <3> QED BY <1>1, <3>1, <3>3 DEF WheelTypes
  <2>2. CASE \E t \in Timers, d \in Rearms :
                /\ Add(t, d)
                /\ undefined' = (WheelSlot(expires'[t]) = WheelSlot(current_tick) /\ FullBucket(WheelSlot(current_tick)))
    <3>1. PICK t \in Timers, d \in Rearms :
                /\ Add(t, d)
                /\ undefined' = (WheelSlot(expires'[t]) = WheelSlot(current_tick) /\ FullBucket(WheelSlot(current_tick)))
      BY <2>2
    <3>2. d \in Nat /\ WheelSlot(current_tick + Ticks(d)) # WheelSlot(current_tick)
      BY <1>1, WheelArithmetic, TimerAssumption
    <3>3. slots' \in [Buckets -> Seq(Timers)] /\ expires' \in [Timers -> Nat] /\ Walked(f, k)'
      BY <1>1, <1>3, <1>12, <3>1, <3>2, AddKeeps
    <3>4. expires'[t] = current_tick + Ticks(d)
      BY <1>1, <3>1 DEF Add
    <3>5. undefined' = FALSE
      BY <3>1, <3>2, <3>4
    <3> QED BY <3>3, <3>5
  <2> QED BY <2>1, <2>2 DEF Fire
<1>14. fired' = f /\ it' = k
  BY <1>3, <1>7
<1>15. WheelTypes' /\ ClockInv'
  BY <1>1, <1>3, <1>7, <1>13, <1>14 DEF WheelTypes, WheelInv, ClockInv
<1>16. Walked(fired, it)'
  BY <1>13, <1>14 DEF Walked, EntriesOK, EntryOK, TimersOK, TimerOK, Middle
<1> QED BY <1>15, <1>16 DEF WheelInv

(* entries.erase: what is taken out has fired, what is left is still to come. *)
LEMMA EraseKeeps == WheelInv /\ Erase => WheelInv'
<1> SUFFICES ASSUME WheelInv, Erase PROVE WheelInv'
  OBVIOUS
<1> DEFINE w == WheelSlot(current_tick)
           q == slots[w]
           r == SubSeq(q, 1, mid - 1)
<1>1. /\ slots \in [Buckets -> Seq(Timers)] /\ expires \in [Timers -> Nat]
      /\ fired \in [Timers -> Nat] /\ current_tick \in Nat /\ it \in Nat /\ mid \in Nat
      /\ WheelTypes /\ Walked(fired, it)
  BY DEF WheelInv, WheelTypes
<1>2. w \in Buckets
  BY <1>1, WheelArithmetic
<1>3. /\ mode = "fire" /\ it > Len(q) /\ slots' = [slots EXCEPT ![w] = r] /\ mode' = "walk"
      /\ current_tick' = current_tick /\ now' = now /\ target' = target /\ mid' = mid /\ it' = it
      /\ expires' = expires /\ fired' = fired /\ undefined' = undefined /\ run_tick' = run_tick
  BY DEF Erase, Erased, Bucket
<1>4. q \in Seq(Timers)
  BY <1>1, <1>2
<1>5. /\ mid \in 1 .. Len(q) + 1 /\ it \in mid .. Len(q) + 1 /\ Len(q) \in Nat
      /\ DOMAIN q = 1 .. Len(q)
      /\ current_tick > 0
      /\ \A i \in DOMAIN q : expires[q[i]] > current_tick <=> i < mid
  <2>1. Middle(it) /\ Bucket = q
    BY <1>1 DEF Walked, Bucket
  <2>2. Len(q) \in Nat /\ DOMAIN q = 1 .. Len(q)
    BY <1>4
  <2> HIDE DEF q
  <2> QED BY <1>3, <2>1, <2>2 DEF Middle
<1> HIDE DEF w, q
<1>6. /\ r \in Seq(Timers) /\ DOMAIN r = 1 .. mid - 1
      /\ \A i \in DOMAIN r : r[i] = q[i] /\ i \in DOMAIN q /\ i < mid
  BY <1>4, <1>5
<1> HIDE DEF r
<1>7. /\ slots' \in [Buckets -> Seq(Timers)] /\ slots'[w] = r
      /\ \A b \in Buckets : b # w => slots'[b] = slots[b]
  BY <1>1, <1>2, <1>3, <1>6
<1>8. \A b \in Buckets : \A i \in DOMAIN slots'[b] : i \in DOMAIN slots[b] /\ slots'[b][i] = slots[b][i]
  BY <1>6, <1>7 DEF q
<1>9. WheelTypes' /\ ClockInv'
  BY <1>1, <1>3, <1>7 DEF WheelTypes, WheelInv, ClockInv
<1>10. EntriesOK(fired, it)'
  <2> SUFFICES ASSUME NEW b \in Buckets, NEW i \in DOMAIN slots'[b] PROVE EntryOK(fired, it, b, i)'
    BY DEF EntriesOK
  <2>1. EntryOK(fired, it, b, i) /\ slots'[b][i] = slots[b][i]
    BY <1>1, <1>8 DEF Walked, EntriesOK
  <2>2. ~(b = w /\ mid <= i)
    BY <1>5, <1>6, <1>7
  <2> QED BY <1>3, <2>1, <2>2 DEF EntryOK, w
<1>11. OncePerBucket'
  BY <1>1, <1>8 DEF Walked, OncePerBucket
<1>12. TimersOK(fired)'
  <2> SUFFICES ASSUME NEW t \in Timers PROVE TimerOK(fired, t)'
    BY DEF TimersOK
  <2>1. TimerOK(fired, t) /\ expires[t] \in Nat /\ WheelSlot(expires[t]) \in Buckets
    BY <1>1, WheelArithmetic DEF Walked, TimersOK
  <2>2. ASSUME expires[t] > 0, fired[t] = 0
        PROVE  /\ \E i \in DOMAIN slots'[WheelSlot(expires[t])] : slots'[WheelSlot(expires[t])][i] = t
               /\ Unmet(expires[t], run_tick, current_tick)
    <3> DEFINE b == WheelSlot(expires[t])
    <3>1. PICK i \in DOMAIN slots[b] : slots[b][i] = t
      BY <2>1, <2>2 DEF TimerOK
    <3> HIDE DEF b
    <3>2. b \in Buckets
      BY <2>1 DEF b
    <3>3. EntryOK(fired, it, b, i)
      BY <1>1, <3>1, <3>2 DEF Walked, EntriesOK
    <3>4. CASE b = w
      <4>1. i \in DOMAIN q /\ q[i] = t
        BY <3>1, <3>4 DEF q
      <4>5. i < it
        BY <1>3, <1>5, <4>1
      <4>2. i < mid
        <5>2. mid <= i => fired[t] = current_tick
          BY <1>3, <3>1, <3>3, <3>4, <4>5 DEF EntryOK, w
        <5>3. i \in Int
          BY <1>5, <4>1
        <5> QED BY <1>1, <1>5, <2>2, <5>2, <5>3
      <4>3. i \in DOMAIN r /\ r[i] = t
        BY <1>5, <1>6, <4>1, <4>2
      <4>6. expires[t] > current_tick
        BY <1>5, <4>1, <4>2
      <4>4. Unmet(expires[t], run_tick, current_tick)
        BY <1>1, <2>1, <4>6, UnmetLater DEF WheelTypes
      <4> QED BY <1>7, <3>4, <4>3, <4>4 DEF b
    <3>5. CASE b # w
      <4>1. Unmet(expires[t], run_tick, current_tick - 1)
        <5>1. Handled = current_tick - 1
          BY <1>3 DEF Handled
        <5> QED BY <2>1, <2>2, <5>1 DEF TimerOK
      <4>4. run_tick \in Nat /\ WheelSlot(current_tick) # WheelSlot(expires[t])
        BY <1>1, <3>5 DEF WheelTypes, b, w
      <4>2. Unmet(expires[t], run_tick, current_tick)
        BY <1>1, <2>1, <4>1, <4>4, UnmetStep
      <4>3. slots'[b] = slots[b]
        BY <1>7, <3>2, <3>5
      <4> QED BY <3>1, <4>2, <4>3 DEF b
    <3> QED BY <3>4, <3>5
  <2>3. Handled' = current_tick
    BY <1>3 DEF Handled
  <2> QED BY <1>3, <2>1, <2>2, <2>3 DEF TimerOK
<1>13. Middle(it)'
  BY <1>3 DEF Middle
<1> QED BY <1>9, <1>10, <1>11, <1>12, <1>13 DEF WheelInv, Walked

(* The wheel's inductive invariant (timer_wheel.cpp:16-64, reactor.cpp:24-25): in every *)
(* reachable state, also when run() has set the tick of a wheel that holds timers, an   *)
(* entry is in the bucket of its tick, once, and the walk of the present run has not    *)
(* yet come to the bucket of a timer that is due and has not fired.                     *)
THEOREM WheelInductive == RearmsOffTurn => (WheelSpec => []WheelInv)
<1>1. ASSUME RearmsOffTurn, WheelInv, [WheelNext]_wheelVars PROVE WheelInv'
  <2>1. CASE WheelNext
    BY <1>1, <2>1, AddTimerKeeps, ClockKeeps, RunKeeps, WalkKeeps, FireKeeps, EraseKeeps DEF WheelNext
  <2>2. CASE UNCHANGED wheelVars
    <3>1. /\ slots' = slots /\ current_tick' = current_tick /\ now' = now /\ target' = target
          /\ mode' = mode /\ mid' = mid /\ it' = it /\ expires' = expires /\ fired' = fired
          /\ undefined' = undefined /\ run_tick' = run_tick
      BY <2>2 DEF wheelVars
    <3>2. Bucket' = Bucket /\ Handled' = Handled
      BY <3>1 DEF Bucket, Handled
    <3>3. WheelTypes' /\ ClockInv'
      BY <1>1, <3>1 DEF WheelInv, WheelTypes, ClockInv
    <3> QED BY <1>1, <3>1, <3>2, <3>3 DEF WheelInv, Walked, EntriesOK, EntryOK, OncePerBucket,
                                          TimersOK, TimerOK, Middle
  <2> QED BY <1>1, <2>1, <2>2
<1> SUFFICES ASSUME RearmsOffTurn PROVE WheelSpec => []WheelInv
  OBVIOUS
<1>2. WheelInv /\ [WheelNext]_wheelVars => WheelInv'
  BY <1>1
<1> QED BY <1>2, WheelStarts, PTL DEF WheelSpec

(* A timer set for a tick after run() began fires in that very tick, however many   *)
(* ticks one call of advance covers and whatever shares its bucket; one that run()   *)
(* found overdue fires within a turn (timer_wheel.cpp:34-36, 44-63, reactor.cpp:25). *)
THEOREM TimersFireOnTime == RearmsOffTurn => (WheelSpec => []FiresOnTime)
<1>1. WheelInv => FiresOnTime
  <2> SUFFICES ASSUME WheelInv, Outside, NEW t \in Timers, expires[t] > 0
               PROVE  IF expires[t] > run_tick
                      THEN fired[t] = IF expires[t] <= current_tick THEN expires[t] ELSE 0
                      ELSE current_tick >= run_tick + SLOTS => fired[t] \in expires[t] .. run_tick + SLOTS
    BY DEF FiresOnTime
  <2>1. /\ TimerOK(fired, t) /\ expires[t] \in Nat /\ current_tick \in Nat /\ run_tick \in Nat
        /\ fired[t] \in Nat /\ SLOTS \in Nat /\ Handled = current_tick
    BY TimerAssumption DEF WheelInv, WheelTypes, Walked, TimersOK, Outside, Handled
  <2>2. CASE fired[t] = 0
    <3>1. Unmet(expires[t], run_tick, current_tick)
      BY <2>1, <2>2 DEF TimerOK
    <3>2. IF expires[t] > run_tick THEN expires[t] > current_tick ELSE current_tick < run_tick + SLOTS
      BY <2>1, <3>1, StillUnmet
    <3> QED BY <2>1, <2>2, <3>2
  <2>3. CASE fired[t] # 0
    <3>1. fired[t] <= current_tick /\ FiredWell(expires[t], fired[t], run_tick)
      BY <2>1, <2>3 DEF TimerOK
    <3> QED BY <2>1, <3>1 DEF FiredWell
  <2> QED BY <2>2, <2>3
<1> SUFFICES ASSUME RearmsOffTurn PROVE WheelSpec => []FiresOnTime
  OBVIOUS
<1>2. WheelSpec => []WheelInv
  BY WheelInductive
<1> QED BY <1>1, <1>2, PTL

(* Between calls of advance a timer is in the wheel, in exactly one place, if and only *)
(* if it was added and has not fired: push_back and erase neither lose nor leave one   *)
(* (timer_wheel.cpp:25-29, 62).                                                        *)
THEOREM TimersInTheWheel == RearmsOffTurn => (WheelSpec => []InTheWheel)
<1>1. WheelInv => InTheWheel
  <2> SUFFICES ASSUME WheelInv, Outside, NEW t \in Timers
               PROVE  Cardinality(UNION {{b} \X {i \in DOMAIN slots[b] : slots[b][i] = t} : b \in Buckets})
                         = IF expires[t] > 0 /\ fired[t] = 0 THEN 1 ELSE 0
    BY DEF InTheWheel
  <2> DEFINE At(b) == {i \in DOMAIN slots[b] : slots[b][i] = t}
             P == UNION {{b} \X At(b) : b \in Buckets}
  <2>1. \A b \in Buckets : \A i \in At(b) :
           expires[t] > 0 /\ fired[t] = 0 /\ WheelSlot(expires[t]) = b
    BY DEF WheelInv, Walked, EntriesOK, EntryOK, Outside
  <2>2. \A b \in Buckets : \A i, j \in At(b) : i = j
    BY DEF WheelInv, Walked, OncePerBucket
  <2>3. TimerOK(fired, t) /\ expires[t] \in Nat
    BY DEF WheelInv, WheelTypes, Walked, TimersOK
  <2>4. WheelSlot(expires[t]) \in Buckets
    BY <2>3, WheelArithmetic
  <2>5. CASE expires[t] > 0 /\ fired[t] = 0
    <3> DEFINE w == WheelSlot(expires[t])
    <3>1. PICK i \in DOMAIN slots[w] : slots[w][i] = t
      BY <2>3, <2>5 DEF TimerOK
    <3>2. At(w) = {i}
      BY <2>2, <2>4, <3>1
    <3>3. \A b \in Buckets : b # w => At(b) = {}
      BY <2>1
    <3> HIDE DEF w, At
    <3>4. w \in Buckets
      BY <2>4 DEF w
    <3>5. P = {<<w, i>>}
      BY <3>2, <3>3, <3>4
    <3>6. Cardinality(P) = 1
      BY <3>5, FS_Singleton
    <3> QED BY <2>5, <3>6 DEF At
  <2>6. CASE ~(expires[t] > 0 /\ fired[t] = 0)
    <3>1. \A b \in Buckets : At(b) = {}
      BY <2>1, <2>6
    <3> HIDE DEF At
    <3>2. P = {}
      BY <3>1
    <3>3. Cardinality(P) = 0
      BY <3>2, FS_EmptySet
    <3> QED BY <2>6, <3>3 DEF At
  <2> QED BY <2>5, <2>6
<1> SUFFICES ASSUME RearmsOffTurn PROVE WheelSpec => []InTheWheel
  OBVIOUS
<1>2. WheelSpec => []WheelInv
  BY WheelInductive
<1> QED BY <1>1, <1>2, PTL

(* No callback runs before its tick, if none asks for a whole number of turns: the run *)
(* on MCTimerWheel shows that this hypothesis is needed (timer_wheel.cpp:58-61).       *)
THEOREM NoTimerEarly == RearmsOffTurn => (WheelSpec => []NeverEarly)
<1>1. WheelInv => NeverEarly
  <2> SUFFICES ASSUME WheelInv, NEW t \in Timers, fired[t] # 0 PROVE fired[t] >= expires[t]
    BY DEF NeverEarly
  <2>1. TimerOK(fired, t) /\ expires[t] \in Nat /\ fired[t] \in Nat
    BY DEF WheelInv, WheelTypes, Walked, TimersOK
  <2> QED BY <2>1 DEF TimerOK, FiredWell
<1> SUFFICES ASSUME RearmsOffTurn PROVE WheelSpec => []NeverEarly
  OBVIOUS
<1>2. WheelSpec => []WheelInv
  BY WheelInductive
<1> QED BY <1>1, <1>2, PTL
=============================================================================

------------------------------ MODULE Reactor ------------------------------
(***************************************************************************)
(* The path on which fibers are suspended and woken up: the event loop of  *)
(* src/reactor/reactor.cpp, the epoll backend, FutureAwaitable and the     *)
(* continuation pool.  The reactor thread resumes fibers one at a time.    *)
(* A fiber waits for a socket (its handle is registered with epoll), for   *)
(* the future of an inference (a pool thread waits for it and schedules    *)
(* the fiber from outside through the external queue), or for its next     *)
(* turn (Yield).                                                           *)
(*                                                                         *)
(* What a fiber does between two suspensions is left open.  The futures    *)
(* are resolved by the model executors (see ModelExecutor).                *)
(***************************************************************************)
EXTENDS Integers, Sequences, FiniteSets

CONSTANTS Fibers,        \* the accept loop and the sessions
          Acceptor,      \* the fiber of accept_loop
          PoolThreads,   \* 4 in the code
          QueueCapacity, \* of external_queue_, 1024 in the code
          WordSize       \* 2^64 in the code: external_pending_ is a size_t

ASSUME ReactorAssumption ==
    /\ Acceptor \in Fibers
    /\ IsFiniteSet(PoolThreads)
    /\ QueueCapacity \in Nat \ {0}
    /\ WordSize \in Nat
    /\ WordSize > QueueCapacity + Cardinality(PoolThreads)

None == "none"

VARIABLES running,     \* running_
          external,    \* external_queue_: handles, oldest first
          pending,     \* external_pending_
          run_queue,   \* run_queue_
          scratch,     \* what is left of scratch_queue_ in this round
          events,      \* what is left of the events of this poll
          pc,          \* where the reactor thread is
          phase,       \* the loop that resumed the current fiber
          cur,         \* the fiber the reactor thread is running, or None
          fiber,       \* what each fiber waits for
          future,      \* the future each fiber awaits
          pool,        \* queue_ of the continuation pool
          thread,      \* where each pool thread is
          task,        \* the task of each pool thread
          stops        \* whether stop() has been called

loop == <<running, run_queue, scratch, events, pc, phase, cur, stops>>
vars == <<running, external, pending, run_queue, scratch, events, pc, phase, cur, fiber,
          future, pool, thread, task, stops>>

FiberStates == {"new", "scheduled", "running", "io", "awaiting", "done"}

TypeOK ==
    /\ running \in BOOLEAN /\ stops \in BOOLEAN
    /\ external \in Seq(Fibers)
    /\ pending \in 0 .. WordSize - 1
    /\ run_queue \in Seq(Fibers) /\ scratch \in Seq(Fibers)
    /\ events \in SUBSET Fibers
    /\ pc \in {"start", "loop", "drain", "uncount", "resume", "poll", "dispatch", "fiber",
               "await", "post", "notify", "exited"}
    /\ phase \in {"resume", "dispatch"}
    /\ cur \in Fibers \cup {None}
    /\ fiber \in [Fibers -> FiberStates]
    /\ future \in [Fibers -> {"none", "pending", "ready"}]
    /\ pool \in Seq(Fibers)
    /\ thread \in [PoolThreads -> {"test", "sleeping", "get", "push", "publish", "count"}]
    /\ task \in [PoolThreads -> Fibers \cup {None}]

\* main has scheduled the accept loop before run(): on a thread that is not the
\* reactor's yet, so through the external queue.
Init ==
    /\ running = FALSE /\ stops = FALSE
    /\ external = <<Acceptor>>
    /\ pending = 1
    /\ run_queue = <<>> /\ scratch = <<>>
    /\ events = {}
    /\ pc = "start"
    /\ phase = "resume"
    /\ cur = None
    /\ fiber = [f \in Fibers |-> IF f = Acceptor THEN "scheduled" ELSE "new"]
    /\ future = [f \in Fibers |-> "none"]
    /\ pool = <<>>
    /\ thread = [p \in PoolThreads |-> "test"]
    /\ task = [p \in PoolThreads |-> None]

Goto(from, to) == pc = from /\ pc' = to

----------------------------------------------------------------------------
(* Reactor::run *)

\* running_.store(true)
Run ==
    /\ Goto("start", "loop")
    /\ running' = TRUE
    /\ UNCHANGED <<external, pending, run_queue, scratch, events, phase, cur, fiber, future,
                   pool, thread, task, stops>>

LoopTest ==
    /\ Goto("loop", IF running THEN "drain" ELSE "exited")
    /\ UNCHANGED <<running, external, pending, run_queue, scratch, events, phase, cur, fiber,
                   future, pool, thread, task, stops>>

Published(f) == \A p \in PoolThreads : ~(thread[p] = "publish" /\ task[p] = f)
Poppable == external # <<>> /\ Published(Head(external))

\* process_external_queue: try_pop, push_back
DrainPop ==
    /\ Poppable
    /\ Goto("drain", "uncount")
    /\ run_queue' = Append(run_queue, Head(external))
    /\ external' = Tail(external)
    /\ UNCHANGED <<running, pending, scratch, events, phase, cur, fiber, future, pool, thread,
                   task, stops>>

UncountedNot == pending   \* mutant: no fetch_sub
Uncounted == (pending - 1) % WordSize

\* external_pending_.fetch_sub(1)
DrainUncount ==
    /\ Goto("uncount", "drain")
    /\ pending' = Uncounted
    /\ UNCHANGED <<running, external, run_queue, scratch, events, phase, cur, fiber, future,
                   pool, thread, task, stops>>

RunQueueKept == run_queue   \* mutant: scratch_queue_ copies run_queue_
RunQueueSwapped == <<>>

\* The external queue is empty: swap the run queue into scratch_queue_.
DrainDone ==
    /\ ~Poppable
    /\ Goto("drain", "resume")
    /\ scratch' = run_queue
    /\ run_queue' = RunQueueSwapped
    /\ UNCHANGED <<running, external, pending, events, phase, cur, fiber, future, pool, thread,
                   task, stops>>

\* Hand the reactor thread to fiber f, unless it is done.
Resume(f, where) ==
    /\ phase' = where
    /\ IF fiber[f] = "done"
       THEN pc' = where /\ UNCHANGED <<cur, fiber, future>>
       ELSE /\ pc' = "fiber"
            /\ cur' = f
            /\ fiber' = [fiber EXCEPT ![f] = "running"]
            /\ future' = [future EXCEPT ![f] = "none"]

ResumeNext ==
    /\ pc = "resume"
    /\ scratch # <<>>
    /\ scratch' = Tail(scratch)
    /\ Resume(Head(scratch), "resume")
    /\ UNCHANGED <<running, external, pending, run_queue, events, pool, thread, task, stops>>

\* The round is over: advance the timers (TimerWheel) and poll.
ResumeDone ==
    /\ scratch = <<>>
    /\ Goto("resume", "poll")
    /\ UNCHANGED <<running, external, pending, run_queue, scratch, events, phase, cur, fiber,
                   future, pool, thread, task, stops>>

Armed == {f \in Fibers : fiber[f] = "io"}

\* epoll_wait returns after 1 ms at the latest, with any of the armed sockets; EPOLLONESHOT
\* disarms them.
Poll ==
    /\ Goto("poll", "dispatch")
    /\ \E S \in SUBSET Armed : events' = S
    /\ UNCHANGED <<running, external, pending, run_queue, scratch, phase, cur, fiber, future,
                   pool, thread, task, stops>>

Dispatch ==
    /\ pc = "dispatch"
    /\ \E f \in events :
          /\ events' = events \ {f}
          /\ Resume(f, "dispatch")
    /\ UNCHANGED <<running, external, pending, run_queue, scratch, pool, thread, task, stops>>

DispatchDone ==
    /\ events = {}
    /\ Goto("dispatch", "loop")
    /\ UNCHANGED <<running, external, pending, run_queue, scratch, events, phase, cur, fiber,
                   future, pool, thread, task, stops>>

----------------------------------------------------------------------------
(* The current fiber suspends, or goes on *)

\* The fiber gives the thread back to the loop that resumed it.
Suspend(from, state) ==
    /\ Goto(from, phase)
    /\ cur' = None
    /\ fiber' = [fiber EXCEPT ![cur] = state]

\* co_await a socket: epoll_ctl with the handle.
FiberWaitsForSocket ==
    /\ Suspend("fiber", "io")
    /\ UNCHANGED <<running, external, pending, run_queue, scratch, events, phase, future, pool,
                   thread, task, stops>>

\* co_await Yield: schedule on the reactor thread.
FiberYields ==
    /\ Suspend("fiber", "scheduled")
    /\ run_queue' = Append(run_queue, cur)
    /\ UNCHANGED <<running, external, pending, scratch, events, phase, future, pool, thread,
                   task, stops>>

FiberReturns ==
    /\ Suspend("fiber", "done")
    /\ UNCHANGED <<running, external, pending, run_queue, scratch, events, phase, future, pool,
                   thread, task, stops>>

\* accept_loop: a new session, scheduled on the reactor thread.
AcceptorSpawns ==
    /\ pc = "fiber"
    /\ cur = Acceptor
    /\ \E f \in Fibers :
          /\ fiber[f] = "new"
          /\ fiber' = [fiber EXCEPT ![f] = "scheduled"]
          /\ run_queue' = Append(run_queue, f)
    /\ UNCHANGED <<running, external, pending, scratch, events, pc, phase, cur, future, pool,
                   thread, task, stops>>

\* co_await infer_future(runtime.infer_async(req)): the future may be ready at once.
FiberInfers ==
    /\ Goto("fiber", "await")
    /\ cur # Acceptor
    /\ \E o \in {"pending", "ready"} : future' = [future EXCEPT ![cur] = o]
    /\ UNCHANGED <<running, external, pending, run_queue, scratch, events, phase, cur, fiber,
                   pool, thread, task, stops>>

\* await_ready
AwaitReady ==
    /\ Goto("await", IF future[cur] = "ready" THEN "fiber" ELSE "post")
    /\ future' = IF future[cur] = "ready" THEN [future EXCEPT ![cur] = "none"] ELSE future
    /\ UNCHANGED <<running, external, pending, run_queue, scratch, events, phase, cur, fiber,
                   pool, thread, task, stops>>

\* await_suspend: ContinuationPool::post, under mu_.
Post ==
    /\ Goto("post", "notify")
    /\ pool' = Append(pool, cur)
    /\ fiber' = [fiber EXCEPT ![cur] = "awaiting"]
    /\ cur' = None
    /\ UNCHANGED <<running, external, pending, run_queue, scratch, events, phase, future, thread,
                   task, stops>>

Sleeping == {p \in PoolThreads : thread[p] = "sleeping"}

NotifiedNobody == {thread}   \* mutant: post does not notify
Notified == IF Sleeping = {} THEN {thread}
            ELSE {[thread EXCEPT ![p] = "test"] : p \in Sleeping}

\* cv_.notify_one()
PostNotifies ==
    /\ Goto("notify", phase)
    /\ thread' \in Notified
    /\ UNCHANGED <<running, external, pending, run_queue, scratch, events, phase, cur, fiber,
                   future, pool, task, stops>>

ReactorThread ==
    \/ Run \/ LoopTest \/ DrainPop \/ DrainUncount \/ DrainDone \/ ResumeNext \/ ResumeDone
    \/ Poll \/ Dispatch \/ DispatchDone \/ FiberWaitsForSocket \/ FiberYields \/ FiberReturns
    \/ AcceptorSpawns \/ FiberInfers \/ AwaitReady \/ Post \/ PostNotifies

----------------------------------------------------------------------------
(* ContinuationPool::worker_loop and the task that await_suspend posts *)

Thread(p, from, to) == thread[p] = from /\ thread' = [thread EXCEPT ![p] = to]

PoolTail == Tail(pool)

\* The predicate of cv_.wait, under mu_; taking a task, or going to sleep.
PoolTakes(p) ==
    /\ pool # <<>>
    /\ Thread(p, "test", "get")
    /\ task' = [task EXCEPT ![p] = Head(pool)]
    /\ pool' = PoolTail
    /\ UNCHANGED <<loop, external, pending, fiber, future>>

PoolSleeps(p) ==
    /\ pool = <<>>
    /\ Thread(p, "test", "sleeping")
    /\ UNCHANGED <<loop, external, pending, fiber, future, pool, task>>

\* result = f->get(): block until the future is ready.
PoolGets(p) ==
    /\ Thread(p, "get", "push")
    /\ future[task[p]] = "ready"
    /\ UNCHANGED <<loop, external, pending, fiber, future, pool, task>>

\* schedule from outside: external_queue_.try_push, retried while the queue is full.
PoolPushes(p) ==
    /\ Len(external) < QueueCapacity
    /\ Thread(p, "push", "publish")
    /\ external' = Append(external, task[p])
    /\ UNCHANGED <<loop, pending, fiber, future, pool, task>>

PoolPublishes(p) ==
    /\ Thread(p, "publish", "count")
    /\ fiber' = [fiber EXCEPT ![task[p]] = "scheduled"]
    /\ UNCHANGED <<loop, external, pending, future, pool, task>>

\* external_pending_.fetch_add(1); EpollBackend::wakeup does nothing
PoolCounts(p) ==
    /\ Thread(p, "count", "test")
    /\ pending' = (pending + 1) % WordSize
    /\ task' = [task EXCEPT ![p] = None]
    /\ UNCHANGED <<loop, external, fiber, future, pool>>

PoolThread(p) == \/ PoolTakes(p) \/ PoolSleeps(p) \/ PoolGets(p) \/ PoolPushes(p)
                 \/ PoolPublishes(p) \/ PoolCounts(p)

\* A condition variable may wake a thread that nobody notified.
SpuriousWakeup(p) ==
    /\ Thread(p, "sleeping", "test")
    /\ UNCHANGED <<loop, external, pending, fiber, future, pool, task>>

----------------------------------------------------------------------------
\* A model executor fulfils the promise (external).
Resolve(f) ==
    /\ future[f] = "pending"
    /\ future' = [future EXCEPT ![f] = "ready"]
    /\ UNCHANGED <<loop, external, pending, fiber, pool, thread, task>>

\* Reactor::stop, from any thread or from the signal handler.
Stop ==
    /\ ~stops
    /\ stops' = TRUE
    /\ running' = FALSE
    /\ UNCHANGED <<external, pending, run_queue, scratch, events, pc, phase, cur, fiber, future,
                   pool, thread, task>>

Next == \/ ReactorThread
        \/ \E p \in PoolThreads : PoolThread(p) \/ SpuriousWakeup(p)
        \/ \E f \in Fibers : Resolve(f)
        \/ Stop

Spec == Init /\ [][Next]_vars

(* The threads keep running; a fiber does not run for ever without           *)
(* suspending (a session writes to its socket after every inference); the    *)
(* executors answer; and a pool thread that keeps retrying against a full    *)
(* queue finds room some time.                                               *)
Fairness ==
    /\ WF_vars(ReactorThread)
    /\ SF_vars(FiberWaitsForSocket \/ FiberYields \/ FiberReturns \/ Post)
    /\ \A p \in PoolThreads : WF_vars(PoolThread(p)) /\ SF_vars(PoolPushes(p))
    /\ \A f \in Fibers : WF_vars(Resolve(f))

FairSpec == Spec /\ Fairness
----------------------------------------------------------------------------
(* Properties *)

Occurrences(f, q) == Cardinality({i \in DOMAIN q : q[i] = f})

\* The threads of the pool that hold f's handle and have not handed it on yet.
Held(f) == Cardinality({p \in PoolThreads : task[p] = f /\ thread[p] \in {"get", "push"}})

(* The handle of a suspended fiber is in exactly one place from which it will *)
(* be resumed, and that of a running, new or finished one in none: no fiber   *)
(* is lost, and none is resumed twice or while it runs.                       *)
OneHome == \A f \in Fibers :
    Occurrences(f, external) + Occurrences(f, run_queue) + Occurrences(f, scratch)
      + Occurrences(f, pool) + Held(f) + (IF fiber[f] = "io" THEN 1 ELSE 0)
    = IF fiber[f] \in {"scheduled", "awaiting", "io"} THEN 1 ELSE 0

(* external_pending_ counts the handles in the external queue, up to the      *)
(* pushes and pops in progress, although it may wrap around in between.       *)
PendingExact ==
    pending = (Len(external) + (IF pc = "uncount" THEN 1 ELSE 0)
                - Cardinality({p \in PoolThreads : thread[p] \in {"publish", "count"}})) % WordSize

(* A fiber that awaits an inference is woken up once the answer is there,     *)
(* unless the reactor is stopped.                                            *)
Woken == \A f \in Fibers :
    (fiber[f] = "awaiting" /\ future[f] = "ready") ~> (fiber[f] = "running" \/ stops)

(* "Stops the reactor loop. Thread-safe.": after stop() the loop ends.        *)
StopEndsTheLoop == stops ~> (pc = "exited")
=============================================================================

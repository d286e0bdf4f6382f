--------------------------- MODULE ModelExecutor ---------------------------
(***************************************************************************)
(* src/model/model_executor.cpp: the execution context of one model.       *)
(* Callers hand requests to a bounded lock-free queue (MpmcQueue, used     *)
(* here as the FIFO it implements) and get a future; worker threads pop    *)
(* requests into batches, run them on the backend and fulfil the promises; *)
(* idle workers sleep on a condition variable; one owner thread starts,    *)
(* stops and destroys the executor.                                        *)
(*                                                                         *)
(* Every access to an atomic, the mutex, the condition variable or the     *)
(* queue is a step of its own.  A push is two steps, as in MpmcQueue: the  *)
(* element gets its place and is visible to try_pop once published.        *)
(***************************************************************************)
EXTENDS Integers, Sequences, FiniteSets

CONSTANTS Requests,        \* the calls of infer_async, each by a thread of its own
          Workers,         \* the worker threads
          QueueCapacity,   \* 1024 in the code
          max_batch_size,  \* of the model's configuration
          MaxStarts,       \* bound: how often the owner calls start
          MayStop          \* whether the owner ever calls stop

ASSUME ExecutorAssumption ==
    /\ QueueCapacity \in Nat \ {0}
    /\ max_batch_size \in Nat \ {0}
    /\ MaxStarts \in Nat
    /\ MayStop \in BOOLEAN
    /\ IsFiniteSet(Requests)
    /\ IsFiniteSet(Workers)

NoThread == "none"

VARIABLES queue,       \* queue_: requests, oldest first
          queue_size,  \* queue_size_ (intptr_t)
          stopped,     \* stopped_
          ready,       \* meta_->is_ready() && meta_->backend
          cv_mu,       \* the worker that holds cv_mu_, or NoThread
          caller,      \* control state of each infer_async call
          worker,      \* control state of each worker_loop
          batch,       \* each worker's batch
          owner,       \* control state of the owner thread
          starts,      \* how often start has been called
          promise,     \* each request's promise: "unset" or its outcome
          metrics      \* metrics_

exec == <<queue, queue_size, stopped, cv_mu>>
vars == <<queue, queue_size, stopped, ready, cv_mu, caller, worker, batch, owner,
          starts, promise, metrics>>

Outcomes == {"unset", "ok", "failed", "not_ready", "timeout", "stopped", "unavailable",
             "broken"}

TypeOK ==
    /\ queue \in Seq(Requests)
    /\ queue_size \in Int
    /\ stopped \in BOOLEAN
    /\ ready \in BOOLEAN
    /\ cv_mu \in Workers \cup {NoThread}
    /\ caller \in [Requests -> {"idle", "ready", "check", "push", "publish", "count", "notify",
                                "full", "timeout", "done"}]
    /\ worker \in [Workers -> {"exited", "loop", "check", "pop", "uncount", "lock", "test",
                               "sleep", "waiting", "execute", "respond", "ok", "failed",
                               "unavailable"}]
    /\ batch \in [Workers -> Seq(Requests)]
    /\ owner \in {"idle", "barrier", "notify", "join", "destroyed"}
    /\ starts \in 0 .. MaxStarts
    /\ promise \in [Requests -> Outcomes]
    /\ metrics \in [{"received", "completed", "rejected", "timeouts"} -> Nat]

Init ==
    /\ queue = <<>>
    /\ queue_size = 0
    /\ stopped = TRUE
    /\ ready \in BOOLEAN
    /\ cv_mu = NoThread
    /\ caller = [r \in Requests |-> "idle"]
    /\ worker = [w \in Workers |-> "exited"]
    /\ batch = [w \in Workers |-> <<>>]
    /\ owner = "idle"
    /\ starts = 0
    /\ promise = [r \in Requests |-> "unset"]
    /\ metrics = [m \in {"received", "completed", "rejected", "timeouts"} |-> 0]

CountCompletedTwice(m) ==   \* mutant: a missing else
    [k \in DOMAIN metrics |-> IF k = m \/ (m = "completed" /\ k = "rejected")
                              THEN metrics[k] + 1 ELSE metrics[k]]

Count(m) == [metrics EXCEPT ![m] = @ + 1]

----------------------------------------------------------------------------
(* infer_async *)

CallerAt(r, from, to) == caller[r] = from /\ caller' = [caller EXCEPT ![r] = to]

\* A call returns a future that is resolved already.
Resolve(r, outcome) == promise' = [promise EXCEPT ![r] = outcome]

\* The call may only be made on a live executor: its callers hold a shared_ptr.
\* metrics_.requests_received.fetch_add(1)
InferAsync(r) ==
    /\ owner # "destroyed"
    /\ CallerAt(r, "idle", "ready")
    /\ metrics' = Count("received")
    /\ UNCHANGED <<exec, ready, worker, batch, owner, starts, promise>>

\* if (!meta_ || !meta_->is_ready() || !meta_->backend)
CallerFindsReady(r) ==
    /\ \/ /\ ready
          /\ CallerAt(r, "ready", "check")
          /\ UNCHANGED promise
       \/ /\ ~ready
          /\ CallerAt(r, "ready", "done")
          /\ Resolve(r, "not_ready")
    /\ UNCHANGED <<exec, ready, worker, batch, owner, starts, metrics>>

\* while (!stopped_)
CallerChecks(r) ==
    /\ \/ /\ ~stopped
          /\ CallerAt(r, "check", "push")
          /\ UNCHANGED promise
       \/ /\ stopped
          /\ CallerAt(r, "check", "done")
          /\ Resolve(r, "stopped")
    /\ UNCHANGED <<exec, ready, worker, batch, owner, starts, metrics>>

\* The workers that have taken a request and may not have released its slot yet.
Moving == {w \in Workers : worker[w] = "uncount"}

\* queue_.try_push: the request gets its place, or the slot it needs is taken: by a
\* request, or by a worker that has yet to release it (the ring may then be full for
\* this push although other slots are free).
CallerPushes(r) ==
    /\ \/ /\ Len(queue) < QueueCapacity
          /\ CallerAt(r, "push", "publish")
          /\ queue' = Append(queue, r)
       \/ /\ Len(queue) = QueueCapacity \/ Moving # {}
          /\ CallerAt(r, "push", "full")
          /\ UNCHANGED queue
    /\ UNCHANGED <<queue_size, stopped, ready, cv_mu, worker, batch, owner, starts,
                   promise, metrics>>

CallerPublishes(r) ==
    /\ CallerAt(r, "publish", "count")
    /\ UNCHANGED <<exec, ready, worker, batch, owner, starts, promise, metrics>>

\* queue_size_.fetch_add(1)
CallerCounts(r) ==
    /\ CallerAt(r, "count", "notify")
    /\ queue_size' = queue_size + 1
    /\ UNCHANGED <<queue, stopped, ready, cv_mu, worker, batch, owner, starts, promise, metrics>>

Waiting == {w \in Workers : worker[w] = "waiting"}

\* cv_.notify_one(), without cv_mu_; the call returns its future.
CallerNotifies(r) ==
    /\ CallerAt(r, "notify", "done")
    /\ \/ \E w \in Waiting : worker' = [worker EXCEPT ![w] = "lock"]
       \/ Waiting = {} /\ UNCHANGED worker
    /\ UNCHANGED <<exec, ready, batch, owner, starts, promise, metrics>>

\* The 50 ms deadline has passed: count the timeout, then answer.  Or yield and retry.
CallerTimesOut(r) ==
    /\ CallerAt(r, "full", "timeout")
    /\ metrics' = Count("timeouts")
    /\ UNCHANGED <<exec, ready, worker, batch, owner, starts, promise>>

CallerGivesUp(r) ==
    /\ CallerAt(r, "timeout", "done")
    /\ Resolve(r, "timeout")
    /\ UNCHANGED <<exec, ready, worker, batch, owner, starts, metrics>>

CallerRetries(r) ==
    /\ CallerAt(r, "full", "check")
    /\ UNCHANGED <<exec, ready, worker, batch, owner, starts, promise, metrics>>

Caller(r) == \/ CallerFindsReady(r) \/ CallerChecks(r) \/ CallerPushes(r)
             \/ CallerPublishes(r) \/ CallerCounts(r) \/ CallerNotifies(r)
             \/ CallerTimesOut(r) \/ CallerGivesUp(r) \/ CallerRetries(r)

----------------------------------------------------------------------------
(* worker_loop *)

WorkerAt(w, from, to) == worker[w] = from /\ worker' = [worker EXCEPT ![w] = to]

\* while (!stopped_), with a fresh batch.
WorkerLoops(w) ==
    /\ WorkerAt(w, "loop", IF stopped THEN "exited" ELSE "check")
    /\ UNCHANGED <<exec, ready, caller, batch, owner, starts, promise, metrics>>

\* Where the worker goes with the batch it has.
AfterBatching(w) == IF batch[w] = <<>> THEN "lock" ELSE "execute"

\* while (batch.size() < max_batch_size && !stopped_)
WorkerChecks(w) ==
    /\ WorkerAt(w, "check", IF Len(batch[w]) < max_batch_size /\ ~stopped
                            THEN "pop" ELSE AfterBatching(w))
    /\ UNCHANGED <<exec, ready, caller, batch, owner, starts, promise, metrics>>

\* What try_pop would return: the oldest request, if it is published.
Poppable == queue # <<>> /\ caller[Head(queue)] # "publish"

WorkerPops(w) ==
    /\ Poppable
    /\ WorkerAt(w, "pop", "uncount")
    /\ batch' = [batch EXCEPT ![w] = Append(@, Head(queue))]
    /\ queue' = Tail(queue)
    /\ UNCHANGED <<queue_size, stopped, ready, cv_mu, caller, owner, starts, promise, metrics>>

NotUncounted == queue_size   \* mutant: no fetch_sub
Uncounted == queue_size - 1

\* queue_size_.fetch_sub(1)
WorkerUncounts(w) ==
    /\ WorkerAt(w, "uncount", "check")
    /\ queue_size' = Uncounted
    /\ UNCHANGED <<queue, stopped, ready, cv_mu, caller, batch, owner, starts, promise, metrics>>

\* try_pop returns nullopt: an empty batch ends the round at once; otherwise
\* max_batch_delay_us has elapsed, or the worker backs off and tries again.
WorkerFindsNothing(w) ==
    /\ ~Poppable
    /\ \/ WorkerAt(w, "pop", AfterBatching(w))
       \/ batch[w] # <<>> /\ WorkerAt(w, "pop", "check")
    /\ UNCHANGED <<exec, ready, caller, batch, owner, starts, promise, metrics>>

\* lock(cv_mu_): before the first test of the predicate, and again after a wake-up.
WorkerLocks(w) ==
    /\ cv_mu = NoThread
    /\ WorkerAt(w, "lock", "test")
    /\ cv_mu' = w
    /\ UNCHANGED <<queue, queue_size, stopped, ready, caller, batch, owner, starts, promise,
                   metrics>>

\* The predicate of cv_.wait holds: unlock and continue the outer loop.
WorkerHasWork(w) ==
    /\ queue_size > 0 \/ stopped
    /\ WorkerAt(w, "test", "loop")
    /\ cv_mu' = NoThread
    /\ UNCHANGED <<queue, queue_size, stopped, ready, caller, batch, owner, starts, promise,
                   metrics>>

WorkerHasNoWork(w) ==
    /\ ~(queue_size > 0 \/ stopped)
    /\ WorkerAt(w, "test", "sleep")
    /\ UNCHANGED <<exec, ready, caller, batch, owner, starts, promise, metrics>>

\* The wait releases the mutex and blocks, in one step.
WorkerSleeps(w) ==
    /\ WorkerAt(w, "sleep", "waiting")
    /\ cv_mu' = NoThread
    /\ UNCHANGED <<queue, queue_size, stopped, ready, caller, batch, owner, starts, promise,
                   metrics>>

\* A condition variable may wake a thread that nobody notified.
SpuriousWakeup(w) ==
    /\ WorkerAt(w, "waiting", "lock")
    /\ UNCHANGED <<exec, ready, caller, batch, owner, starts, promise, metrics>>

\* if (meta_->is_ready() && meta_->backend)
WorkerExecutes(w) ==
    /\ WorkerAt(w, "execute", IF ready THEN "respond" ELSE "unavailable")
    /\ UNCHANGED <<exec, ready, caller, batch, owner, starts, promise, metrics>>

NextInBatch(w) == Head(batch[w])
RestOfBatchKept(w) == batch[w]   \* mutant: the index does not advance
RestOfBatch(w) == Tail(batch[w])

\* The next response of the batch is counted by its verdict,
WorkerCounts(w) ==
    /\ \/ WorkerAt(w, "respond", "ok") /\ metrics' = Count("completed")
       \/ WorkerAt(w, "respond", "failed") /\ metrics' = Count("rejected")
    /\ UNCHANGED <<exec, ready, caller, batch, owner, starts, promise>>

\* and then its promise is fulfilled.
WorkerResponds(w) ==
    /\ worker[w] \in {"ok", "failed", "unavailable"}
    /\ Resolve(NextInBatch(w), worker[w])
    /\ batch' = [batch EXCEPT ![w] = RestOfBatch(w)]
    /\ worker' = [worker EXCEPT ![w] = IF Len(batch[w]) = 1 THEN "loop"
                                       ELSE IF @ = "unavailable" THEN @ ELSE "respond"]
    /\ UNCHANGED <<exec, ready, caller, owner, starts, metrics>>

Worker(w) == \/ WorkerLoops(w) \/ WorkerChecks(w) \/ WorkerPops(w) \/ WorkerUncounts(w)
             \/ WorkerFindsNothing(w) \/ WorkerLocks(w) \/ WorkerHasWork(w)
             \/ WorkerHasNoWork(w) \/ WorkerSleeps(w) \/ WorkerExecutes(w)
             \/ WorkerCounts(w) \/ WorkerResponds(w)

----------------------------------------------------------------------------
(* start, stop, ~ModelExecutor *)

OwnerAt(from, to) == owner = from /\ owner' = to

\* CAS stopped_ from true to false, and spawn the workers.
Start ==
    /\ starts < MaxStarts
    /\ stopped
    /\ OwnerAt("idle", "idle")
    /\ stopped' = FALSE
    /\ starts' = starts + 1
    /\ worker' = [w \in Workers |-> "loop"]
    /\ UNCHANGED <<queue, queue_size, ready, cv_mu, caller, batch, promise, metrics>>

\* CAS stopped_ from false to true.
Stop ==
    /\ MayStop
    /\ ~stopped
    /\ OwnerAt("idle", "barrier")
    /\ stopped' = TRUE
    /\ UNCHANGED <<queue, queue_size, ready, cv_mu, caller, worker, batch, starts, promise,
                   metrics>>

StopBarrierIgnored == TRUE   \* mutant: stop does not take cv_mu_
StopBarrierFree == cv_mu = NoThread

\* { lock_guard lock(cv_mu_); }: wait until no worker is inside the test-and-sleep.
StopBarrier ==
    /\ StopBarrierFree
    /\ OwnerAt("barrier", "notify")
    /\ UNCHANGED <<exec, ready, caller, worker, batch, starts, promise, metrics>>

\* cv_.notify_all()
StopNotifies ==
    /\ OwnerAt("notify", "join")
    /\ worker' = [w \in Workers |-> IF w \in Waiting THEN "lock" ELSE worker[w]]
    /\ UNCHANGED <<exec, ready, caller, batch, starts, promise, metrics>>

\* Every worker is joined; workers_.clear().
StopJoins ==
    /\ \A w \in Workers : worker[w] = "exited"
    /\ OwnerAt("join", "idle")
    /\ UNCHANGED <<exec, ready, caller, worker, batch, starts, promise, metrics>>

DestroyedTasksForgotten == {}   \* mutant: the queue is not drained
DestroyedTasks == {queue[i] : i \in DOMAIN queue}

\* ~ModelExecutor of a stopped executor that no call uses any more: ~MpmcQueue
\* destroys the tasks left in the queue, and with them their promises.
Destroy ==
    /\ stopped
    /\ \A r \in Requests : caller[r] \in {"idle", "done"}
    /\ OwnerAt("idle", "destroyed")
    /\ promise' = [r \in Requests |-> IF r \in DestroyedTasks THEN "broken" ELSE promise[r]]
    /\ queue' = <<>>
    /\ UNCHANGED <<queue_size, stopped, ready, cv_mu, caller, worker, batch, starts, metrics>>

\* The repository may take the backend away while the executor runs (external).
BackendGone ==
    /\ ready
    /\ ready' = FALSE
    /\ UNCHANGED <<exec, caller, worker, batch, owner, starts, promise, metrics>>

Next == \/ \E r \in Requests : InferAsync(r) \/ Caller(r)
        \/ \E w \in Workers : Worker(w) \/ SpuriousWakeup(w)
        \/ Start \/ Stop \/ StopBarrier \/ StopNotifies \/ StopJoins \/ Destroy
        \/ BackendGone

Spec == Init /\ [][Next]_vars

(* A thread inside a call keeps running, the mutex is granted to a thread   *)
(* that keeps asking for it, and stop runs to its end.  Nobody has to call  *)
(* infer_async, start or stop, and nobody has to wake up spuriously.        *)
Fairness ==
    /\ \A r \in Requests : WF_vars(Caller(r))
    /\ \A w \in Workers : WF_vars(Worker(w)) /\ SF_vars(WorkerLocks(w))
    /\ SF_vars(StopBarrier)
    /\ WF_vars(StopNotifies \/ StopJoins)

FairSpec == Spec /\ Fairness
----------------------------------------------------------------------------
(* Properties *)

InQueue(r)    == Cardinality({i \in DOMAIN queue : queue[i] = r})
InBatch(r, w) == Cardinality({i \in DOMAIN batch[w] : batch[w][i] = r})

(* A request is in one place at a time: with its caller, in the queue, or   *)
(* in the batch of one worker, and it leaves only when its promise is set.  *)
(* No request is dropped or served twice by the batching loop.              *)
OnePlace == \A r \in Requests :
    LET holders == {w \in Workers : InBatch(r, w) > 0} IN
    IF caller[r] \in {"publish", "count", "notify", "done"} /\ promise[r] = "unset"
    THEN \/ InQueue(r) = 1 /\ holders = {}
         \/ InQueue(r) = 0 /\ \E w \in Workers : holders = {w} /\ InBatch(r, w) = 1
    ELSE InQueue(r) = 0 /\ holders = {}

(* The counter that idle workers test is the length of the queue, corrected *)
(* by the pushes not yet counted and the pops not yet uncounted; it may dip *)
(* below zero but is exact whenever no thread is in between.                *)
QueueSizeExact == owner # "destroyed" =>
    queue_size = Len(queue) + Cardinality(Moving)
                            - Cardinality({r \in Requests : caller[r] \in {"publish", "count"}})

(* A worker or a caller first counts an outcome and then fulfils the        *)
(* promise: each counter is the number of calls that have that outcome and  *)
(* of the threads between the two steps, so it never lags behind an answer  *)
(* and counts none twice.  The other four outcomes (not ready, stopped,     *)
(* backend unavailable, broken) are received and counted nowhere else.      *)
MetricsAccount ==
    LET Now(o) == Cardinality({r \in Requests : promise[r] = o})
        Between(o) == Cardinality({w \in Workers : worker[w] = o})
    IN
    /\ metrics["received"] = Cardinality({r \in Requests : caller[r] # "idle"})
    /\ metrics["completed"] = Now("ok") + Between("ok")
    /\ metrics["rejected"] = Now("failed") + Between("failed")
    /\ metrics["timeouts"] =
          Now("timeout") + Cardinality({r \in Requests : caller[r] = "timeout"})

(* Destroying the executor leaves no caller with a future that can never    *)
(* become ready.                                                            *)
NoOrphans == owner = "destroyed" =>
    \A r \in Requests : caller[r] = "done" => promise[r] # "unset"

(* stop returns: no worker misses its notification, because stop takes      *)
(* cv_mu_ between setting stopped_ and notifying.                           *)
StopReturns == (owner = "barrier") ~> (owner = "idle")

(* A request handed to a running executor is answered.                      *)
Answered == \A r \in Requests : (caller[r] = "done") ~> (promise[r] # "unset")
=============================================================================

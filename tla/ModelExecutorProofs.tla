------------------------ MODULE ModelExecutorProofs ------------------------
(***************************************************************************)
(* Proofs about ModelExecutor for any number of requests and workers, any  *)
(* capacity of the queue and any batch size.                               *)
(***************************************************************************)
EXTENDS ModelExecutor, FiniteSetTheorems, TLAPS

\* The requests in a queue or a batch, and that none is there twice.
Elements(q) == {q[i] : i \in DOMAIN q}
Distinct(q) == \A i, j \in DOMAIN q : q[i] = q[j] => i = j

(* What an element at the end does to a queue.                              *)
LEMMA AppendFacts ==
  ASSUME NEW S, NEW q \in Seq(S), NEW x \in S
  PROVE  /\ Append(q, x) \in Seq(S) /\ Append(q, x) # <<>> /\ Len(Append(q, x)) = Len(q) + 1
         /\ Elements(Append(q, x)) = Elements(q) \cup {x}
         /\ Distinct(q) /\ x \notin Elements(q) => Distinct(Append(q, x))
<1> DEFINE a == Append(q, x)
<1>1. /\ a \in Seq(S) /\ Len(a) = Len(q) + 1 /\ Len(q) \in Nat
      /\ DOMAIN a = 1 .. Len(q) + 1 /\ DOMAIN q = 1 .. Len(q)
      /\ \A i \in 1 .. Len(q) : a[i] = q[i]
      /\ a[Len(q) + 1] = x
  OBVIOUS
<1> HIDE DEF a
<1>2. Elements(a) = Elements(q) \cup {x}
  BY <1>1 DEF Elements
<1>3. Distinct(q) /\ x \notin Elements(q) => Distinct(a)
  BY <1>1 DEF Distinct, Elements
<1>4. a # <<>>
  BY <1>1
<1> QED BY <1>1, <1>2, <1>3, <1>4 DEF a

(* What taking the first element does to one.                               *)
LEMMA TailFacts ==
  ASSUME NEW S, NEW q \in Seq(S), q # <<>>
  PROVE  /\ Tail(q) \in Seq(S) /\ Len(Tail(q)) = Len(q) - 1 /\ Len(q) \in Nat \ {0}
         /\ Head(q) \in Elements(q) /\ Head(q) \in S
         /\ Len(q) = 1 <=> Tail(q) = <<>>
         /\ Distinct(q) => Distinct(Tail(q)) /\ Elements(Tail(q)) = Elements(q) \ {Head(q)}
<1> DEFINE a == Tail(q)
<1>1. /\ a \in Seq(S) /\ Len(a) = Len(q) - 1 /\ Len(q) \in Nat \ {0}
      /\ DOMAIN a = 1 .. Len(q) - 1 /\ DOMAIN q = 1 .. Len(q)
      /\ \A i \in 1 .. Len(q) - 1 : a[i] = q[i + 1]
      /\ Head(q) = q[1] /\ q[1] \in S
  OBVIOUS
<1> HIDE DEF a
<1>2. Head(q) \in Elements(q)
  BY <1>1 DEF Elements
<1>3. Len(q) = 1 <=> a = <<>>
  BY <1>1
<1>4. ASSUME Distinct(q) PROVE Distinct(a) /\ Elements(a) = Elements(q) \ {Head(q)}
  <2>1. Distinct(a)
    <3> SUFFICES ASSUME NEW i \in DOMAIN a, NEW j \in DOMAIN a, a[i] = a[j] PROVE i = j
      BY DEF Distinct
    <3>1. i + 1 \in DOMAIN q /\ j + 1 \in DOMAIN q /\ q[i + 1] = q[j + 1]
      BY <1>1
    <3>2. i + 1 = j + 1
      BY <1>4, <3>1 DEF Distinct
    <3> QED BY <1>1, <3>2
  <2>2. Elements(a) \subseteq Elements(q) \ {Head(q)}
    BY <1>1, <1>4, SMTT(40) DEF Distinct, Elements
  <2>3. Elements(q) \ {Head(q)} \subseteq Elements(a)
    <3> SUFFICES ASSUME NEW i \in DOMAIN q, q[i] # q[1] PROVE q[i] \in Elements(a)
      BY <1>1 DEF Elements
    <3>1. i - 1 \in DOMAIN a /\ a[i - 1] = q[i]
      BY <1>1
    <3> QED BY <3>1 DEF Elements
  <2> QED BY <2>1, <2>2, <2>3
<1> QED BY <1>1, <1>2, <1>3, <1>4 DEF a

(* The empty queue holds nothing. *)
LEMMA EmptyFacts == Elements(<<>>) = {} /\ Distinct(<<>>)
  BY DEF Elements, Distinct

----------------------------------------------------------------------------
(* The inductive invariant.                                                  *)

\* A request that has been accepted and not answered.
InHand(r) == caller[r] \in {"publish", "count", "notify", "done"} /\ promise[r] = "unset"

\* The requests in hand are in the queue or in one batch, once, and nothing else is.
Places ==
    /\ Distinct(queue)
    /\ \A w \in Workers : Distinct(batch[w]) /\ Elements(batch[w]) \cap Elements(queue) = {}
    /\ \A w, v \in Workers : w # v => Elements(batch[w]) \cap Elements(batch[v]) = {}
    /\ \A r \in Requests :
          InHand(r) <=> r \in Elements(queue) \/ \E w \in Workers : r \in Elements(batch[w])

\* A caller on its way to the queue has no answer yet; nobody takes a request that is
\* not published.
CallerInv == \A r \in Requests :
    /\ caller[r] \in {"idle", "ready", "check", "push", "full", "timeout"} => promise[r] = "unset"
    /\ caller[r] = "publish" => r \in Elements(queue)

\* Where a worker is tells whether it has a batch.
WorkerInv == \A w \in Workers :
    /\ worker[w] \in {"exited", "loop", "lock", "test", "sleep", "waiting"} => batch[w] = <<>>
    /\ worker[w] \in {"uncount", "execute", "respond", "ok", "failed", "unavailable"}
          => batch[w] # <<>>

\* Outside start and stop a stopped executor has no worker; a destroyed one has no
\* request and no caller either.
OwnerInv ==
    /\ owner \in {"barrier", "notify", "join", "destroyed"} => stopped
    /\ owner \in {"idle", "destroyed"} /\ stopped => \A w \in Workers : worker[w] = "exited"
    /\ owner = "destroyed" => queue = <<>> /\ \A r \in Requests : caller[r] \in {"idle", "done"}

Control == CallerInv /\ WorkerInv /\ OwnerInv

\* The calls whose push is not counted yet, those that have begun, those that have
\* counted a timeout, those with a given answer, and the workers about to give it.
Pushing == {r \in Requests : caller[r] \in {"publish", "count"}}
Received == {r \in Requests : caller[r] # "idle"}
TimingOut == {r \in Requests : caller[r] = "timeout"}
With(o) == {r \in Requests : promise[r] = o}
Giving(o) == {w \in Workers : worker[w] = o}

\* QueueSizeExact and MetricsAccount in terms of these sets.
SizeInv == owner # "destroyed" =>
    queue_size = Len(queue) + Cardinality(Moving) - Cardinality(Pushing)
MetricsInv == /\ metrics["received"] = Cardinality(Received)
              /\ metrics["completed"] = Cardinality(With("ok")) + Cardinality(Giving("ok"))
              /\ metrics["rejected"] = Cardinality(With("failed")) + Cardinality(Giving("failed"))
              /\ metrics["timeouts"] = Cardinality(With("timeout")) + Cardinality(TimingOut)

IndInv == TypeOK /\ Places /\ Control /\ SizeInv /\ MetricsInv

----------------------------------------------------------------------------
(* The sets whose sizes the counters are compared with are finite. *)
LEMMA Finite ==
  /\ IsFiniteSet(Moving) /\ Cardinality(Moving) \in Nat
  /\ IsFiniteSet(Pushing) /\ Cardinality(Pushing) \in Nat
  /\ IsFiniteSet(Received) /\ Cardinality(Received) \in Nat
  /\ IsFiniteSet(TimingOut) /\ Cardinality(TimingOut) \in Nat
  /\ \A o : IsFiniteSet(With(o)) /\ Cardinality(With(o)) \in Nat
  /\ \A o : IsFiniteSet(Giving(o)) /\ Cardinality(Giving(o)) \in Nat
<1>1. \A T \in SUBSET Workers : IsFiniteSet(T) /\ Cardinality(T) \in Nat
  BY ExecutorAssumption, FS_Subset, FS_CardinalityType
<1>2. \A T \in SUBSET Requests : IsFiniteSet(T) /\ Cardinality(T) \in Nat
  BY ExecutorAssumption, FS_Subset, FS_CardinalityType
<1> QED BY <1>1, <1>2 DEF Moving, Giving, Pushing, Received, TimingOut, With

(* One answer more.                                                         *)
LEMMA OneAnswer ==
  ASSUME TypeOK, NEW r \in Requests, promise[r] = "unset",
         NEW o \in Outcomes \ {"unset"}, Resolve(r, o)
  PROVE  /\ Cardinality(With(o)') = Cardinality(With(o)) + 1
         /\ \A p : p # o /\ p # "unset" => With(p)' = With(p)
         /\ \A q \in Requests : promise'[q] = IF q = r THEN o ELSE promise[q]
         /\ promise' \in [Requests -> Outcomes]
<1>1. \A q \in Requests : promise'[q] = IF q = r THEN o ELSE promise[q]
  BY DEF Resolve, TypeOK
<1>2. With(o)' = With(o) \cup {r} /\ r \notin With(o)
  BY <1>1 DEF With
<1>3. Cardinality(With(o)') = Cardinality(With(o)) + 1
  BY <1>2, Finite, FS_AddElement
<1> QED BY <1>1, <1>3 DEF With, Resolve, TypeOK

(* A step that counts nothing, answers nothing and neither begins nor ends a *)
(* call or a worker's way from the counter to the promise keeps the metrics. *)
LEMMA MetricsKept ==
  ASSUME MetricsInv, metrics' = metrics,
         \A r \in Requests : \A c \in {"idle", "timeout"} : caller'[r] = c <=> caller[r] = c,
         \A r \in Requests : \A o \in {"ok", "failed", "timeout"} : promise'[r] = o <=> promise[r] = o,
         \A w \in Workers : \A o \in {"ok", "failed"} : worker'[w] = o <=> worker[w] = o
  PROVE  MetricsInv'
<1>1. Received' = Received /\ TimingOut' = TimingOut
  BY DEF Received, TimingOut
<1>2. \A o \in {"ok", "failed", "timeout"} : With(o)' = With(o)
  BY DEF With
<1>3. \A o \in {"ok", "failed"} : Giving(o)' = Giving(o)
  BY DEF Giving
<1> QED BY <1>1, <1>2, <1>3 DEF MetricsInv

(* A step that moves no request keeps every request in its place.           *)
LEMMA PlacesKept ==
  ASSUME Places, UNCHANGED <<queue, batch>>, \A r \in Requests : InHand(r)' <=> InHand(r)
  PROVE  Places'
  BY DEF Places

(* A new executor satisfies the invariant. *)
LEMMA InitInv == Init => IndInv
<1> SUFFICES ASSUME Init PROVE IndInv
  OBVIOUS
<1>1. TypeOK
  BY ExecutorAssumption DEF Init, TypeOK, Outcomes
<1>2. Places
  BY EmptyFacts DEF Init, Places, InHand
<1>3. Control
  BY DEF Init, Control, CallerInv, WorkerInv, OwnerInv
<1>4. SizeInv /\ MetricsInv
  <2>1. /\ Moving = {} /\ Pushing = {} /\ Received = {} /\ With("ok") = {} /\ With("failed") = {}
        /\ With("timeout") = {} /\ TimingOut = {} /\ Giving("ok") = {} /\ Giving("failed") = {}
    BY DEF Init, Moving, Pushing, Received, With, TimingOut, Giving
  <2>2. Cardinality({}) = 0
    BY FS_EmptySet
  <2>3. SizeInv
    BY <2>1, <2>2 DEF Init, SizeInv
  <2>4. MetricsInv
    <3>1. \A m \in {"received", "completed", "rejected", "timeouts"} : metrics[m] = 0
      BY DEF Init
    <3> QED BY <2>1, <2>2, <3>1 DEF MetricsInv
  <2> QED BY <2>3, <2>4
<1> QED BY <1>1, <1>2, <1>3, <1>4 DEF IndInv

----------------------------------------------------------------------------
(* infer_async *)

(* infer_async begins: the request is counted as received.                  *)
LEMMA InferAsyncStep ==
  ASSUME IndInv, NEW r \in Requests, InferAsync(r)
  PROVE  IndInv'
<1> USE DEF IndInv, Control
<1>1. /\ UNCHANGED <<queue, queue_size, stopped, cv_mu, ready, worker, batch, owner, starts, promise>>
      /\ owner # "destroyed" /\ caller[r] = "idle" /\ promise[r] = "unset"
      /\ caller'[r] = "ready" /\ \A q \in Requests \ {r} : caller'[q] = caller[q]
      /\ metrics' = [metrics EXCEPT !["received"] = @ + 1]
  BY DEF InferAsync, CallerAt, Count, exec, TypeOK, CallerInv
<1>2. TypeOK'
  <2>1. metrics' \in [{"received", "completed", "rejected", "timeouts"} -> Nat]
    BY <1>1 DEF TypeOK
  <2> QED BY <1>1, <2>1 DEF InferAsync, CallerAt, TypeOK
<1>3. Places'
  BY <1>1, PlacesKept DEF InHand
<1>4. CallerInv' /\ WorkerInv' /\ OwnerInv'
  BY <1>1 DEF CallerInv, WorkerInv, OwnerInv
<1>5. SizeInv'
  <2>1. Moving' = Moving /\ Pushing' = Pushing
    BY <1>1 DEF Moving, Pushing
  <2> QED BY <1>1, <2>1 DEF SizeInv
<1>6. MetricsInv'
  <2>1. Received' = Received \cup {r} /\ r \notin Received /\ TimingOut' = TimingOut
    BY <1>1 DEF Received, TimingOut
  <2>2. \A o : With(o)' = With(o) /\ Giving(o)' = Giving(o)
    BY <1>1 DEF With, Giving
  <2>3. Cardinality(Received') = Cardinality(Received) + 1
    BY <2>1, Finite, FS_AddElement
  <2> QED BY <1>1, <2>1, <2>2, <2>3 DEF MetricsInv, TypeOK
<1> QED BY <1>2, <1>3, <1>4, <1>5, <1>6

(* The steps of a call that neither touch the queue nor its counter.         *)
LEMMA CallerLocalStep ==
  ASSUME IndInv, NEW r \in Requests,
         \/ CallerFindsReady(r) \/ CallerChecks(r) \/ CallerPublishes(r) \/ CallerNotifies(r)
         \/ CallerRetries(r)
  PROVE  IndInv'
<1> USE DEF IndInv, Control
<1>1. /\ UNCHANGED <<queue, queue_size, stopped, cv_mu, ready, batch, owner, starts, metrics>>
      /\ caller[r] \in {"ready", "check", "publish", "notify", "full"}
      /\ caller[r] \in {"ready", "check", "full"} => promise[r] = "unset"
      /\ \A q \in Requests \ {r} : caller'[q] = caller[q] /\ promise'[q] = promise[q]
      /\ \/ /\ caller'[r] \in {"push", "check"} /\ promise'[r] = "unset"
            /\ caller[r] \in {"ready", "check", "full"}
         \/ caller'[r] = "done" /\ promise'[r] = "not_ready" /\ caller[r] = "ready"
         \/ caller'[r] = "done" /\ promise'[r] = "stopped" /\ caller[r] = "check"
         \/ caller'[r] = "count" /\ caller[r] = "publish" /\ promise' = promise
         \/ caller'[r] = "done" /\ caller[r] = "notify" /\ promise' = promise
  BY DEF CallerFindsReady, CallerChecks, CallerPublishes, CallerNotifies, CallerRetries, CallerAt, Resolve, exec,
         TypeOK, CallerInv
<1>2. \A w \in Workers : \/ worker'[w] = worker[w]
                         \/ worker[w] = "waiting" /\ worker'[w] = "lock"
  <2>1. CASE CallerNotifies(r)
    <3>1. CASE UNCHANGED worker
      BY <3>1
    <3>2. ASSUME NEW v \in Waiting, worker' = [worker EXCEPT ![v] = "lock"]
          PROVE  \A w \in Workers : \/ worker'[w] = worker[w]
                                    \/ worker[w] = "waiting" /\ worker'[w] = "lock"
      BY <3>2 DEF Waiting, TypeOK
    <3> QED BY <2>1, <3>1, <3>2 DEF CallerNotifies
  <2>2. CASE CallerFindsReady(r) \/ CallerChecks(r) \/ CallerPublishes(r) \/ CallerRetries(r)
    <3>1. UNCHANGED worker
      BY <2>2 DEF CallerFindsReady, CallerChecks, CallerPublishes, CallerRetries
    <3> QED BY <3>1
  <2> QED BY <2>1, <2>2
<1>3. TypeOK'
  BY ZenonT(60) DEF CallerFindsReady, CallerChecks, CallerPublishes, CallerNotifies, CallerRetries, CallerAt, Resolve, exec,
         TypeOK, Outcomes, Waiting
<1>4. Places'
  BY <1>1, PlacesKept DEF InHand
<1>5. CallerInv'
  BY <1>1 DEF CallerInv
<1>6. WorkerInv' /\ OwnerInv'
  BY <1>1, <1>2 DEF WorkerInv, OwnerInv
<1>7. SizeInv'
  <2>1. Moving' = Moving /\ Pushing' = Pushing
    BY <1>1, <1>2 DEF Moving, Pushing
  <2> QED BY <1>1, <2>1 DEF SizeInv
<1>8. MetricsInv'
  BY <1>1, <1>2, MetricsKept
<1> QED BY <1>3, <1>4, <1>5, <1>6, <1>7, <1>8

(* try_push: the request enters the queue, or finds it full.                *)
LEMMA PushStep ==
  ASSUME IndInv, NEW r \in Requests, CallerPushes(r)
  PROVE  IndInv'
<1> USE DEF IndInv, Control
<1>1. /\ UNCHANGED <<queue_size, stopped, cv_mu, ready, worker, batch, owner, starts, promise, metrics>>
      /\ caller[r] = "push" /\ promise[r] = "unset"
      /\ \A q \in Requests \ {r} : caller'[q] = caller[q]
      /\ \/ caller'[r] = "publish" /\ queue' = Append(queue, r)
         \/ caller'[r] = "full" /\ queue' = queue
  BY DEF CallerPushes, CallerAt, TypeOK, CallerInv
<1>2. TypeOK'
  <2>1. queue' \in Seq(Requests)
    <3>1. queue \in Seq(Requests) /\ Append(queue, r) \in Seq(Requests)
      BY AppendFacts DEF TypeOK
    <3> QED BY <1>1, <3>1
  <2> QED BY <1>1, <2>1 DEF CallerPushes, CallerAt, TypeOK
<1>3. MetricsInv'
  BY <1>1, MetricsKept
<1>4. CASE caller'[r] = "full" /\ queue' = queue
  <2>1. Places'
    BY <1>1, <1>4, PlacesKept DEF InHand
  <2>2. CallerInv' /\ WorkerInv' /\ OwnerInv'
    BY <1>1, <1>4 DEF CallerInv, WorkerInv, OwnerInv
  <2>3. Moving' = Moving /\ Pushing' = Pushing
    BY <1>1, <1>4 DEF Moving, Pushing
  <2> QED BY <1>1, <1>2, <1>3, <1>4, <2>1, <2>2, <2>3 DEF SizeInv
<1>5. CASE caller'[r] = "publish" /\ queue' = Append(queue, r)
  <2>1. /\ r \notin Elements(queue) /\ \A w \in Workers : r \notin Elements(batch[w])
    BY <1>1 DEF Places, InHand
  <2>2. /\ Elements(queue') = Elements(queue) \cup {r} /\ Distinct(queue')
        /\ Len(queue') = Len(queue) + 1
    BY <1>5, <2>1, AppendFacts DEF Places, TypeOK
  <2>3. Places'
    <3>1. \A q \in Requests : InHand(q)' <=> InHand(q) \/ q = r
      BY <1>1, <1>5 DEF InHand
    <3>2. \A w \in Workers : Elements(batch[w]) \cap Elements(queue') = {}
      BY <2>1, <2>2 DEF Places
    <3>3. \A q \in Requests :
             InHand(q)' <=> q \in Elements(queue') \/ \E w \in Workers : q \in Elements(batch[w])
      BY <2>2, <3>1 DEF Places
    <3> QED BY <1>1, <2>2, <3>2, <3>3 DEF Places
  <2>4. CallerInv' /\ WorkerInv' /\ OwnerInv'
    BY <1>1, <1>5, <2>2 DEF CallerInv, WorkerInv, OwnerInv
  <2>5. SizeInv'
    <3>1. Moving' = Moving /\ Pushing' = Pushing \cup {r} /\ r \notin Pushing
      BY <1>1, <1>5 DEF Moving, Pushing
    <3>2. Cardinality(Pushing') = Cardinality(Pushing) + 1
      BY <3>1, Finite, FS_AddElement
    <3>3. Len(queue) \in Nat
      BY DEF TypeOK
    <3>4. owner # "destroyed" => queue_size = Len(queue) + Cardinality(Moving) - Cardinality(Pushing)
      BY DEF SizeInv
    <3>5. owner' = owner /\ queue_size' = queue_size /\ Cardinality(Moving') = Cardinality(Moving)
      BY <1>1, <3>1
    <3>6. Cardinality(Moving) \in Nat /\ Cardinality(Pushing) \in Nat
      BY Finite
    <3> HIDE DEF IndInv, Control
    <3> QED BY <2>2, <3>2, <3>3, <3>4, <3>5, <3>6, SMTT(40) DEF SizeInv
  <2> QED BY <1>2, <1>3, <2>3, <2>4, <2>5
<1> QED BY <1>1, <1>4, <1>5

(* queue_size_.fetch_add: the push is counted.                              *)
LEMMA CountStep ==
  ASSUME IndInv, NEW r \in Requests, CallerCounts(r)
  PROVE  IndInv'
<1> USE DEF IndInv, Control
<1>1. /\ UNCHANGED <<queue, stopped, cv_mu, ready, worker, batch, owner, starts, promise, metrics>>
      /\ caller[r] = "count" /\ caller'[r] = "notify" /\ queue_size' = queue_size + 1
      /\ \A q \in Requests \ {r} : caller'[q] = caller[q]
  BY DEF CallerCounts, CallerAt, TypeOK
<1>2. TypeOK'
  BY DEF CallerCounts, CallerAt, TypeOK
<1>3. Places'
  BY <1>1, PlacesKept DEF InHand
<1>4. CallerInv' /\ WorkerInv' /\ OwnerInv'
  BY <1>1 DEF CallerInv, WorkerInv, OwnerInv
<1>5. SizeInv'
  <2>1. Moving' = Moving /\ Pushing' = Pushing \ {r} /\ r \in Pushing
    BY <1>1 DEF Moving, Pushing
  <2>2. Cardinality(Pushing') = Cardinality(Pushing) - 1
    BY <2>1, Finite, FS_RemoveElement
  <2>3. Len(queue) \in Nat
    BY DEF TypeOK
  <2> QED BY <1>1, <2>1, <2>2, <2>3, Finite DEF SizeInv
<1>6. MetricsInv'
  BY <1>1, MetricsKept
<1> QED BY <1>2, <1>3, <1>4, <1>5, <1>6

(* The deadline has passed: the call counts the timeout,                    *)
LEMMA TimeoutStep ==
  ASSUME IndInv, NEW r \in Requests, CallerTimesOut(r)
  PROVE  IndInv'
<1> USE DEF IndInv, Control
<1>1. /\ UNCHANGED <<queue, queue_size, stopped, cv_mu, ready, worker, batch, owner, starts, promise>>
      /\ caller[r] = "full" /\ caller'[r] = "timeout" /\ promise[r] = "unset"
      /\ \A q \in Requests \ {r} : caller'[q] = caller[q]
      /\ metrics' = [metrics EXCEPT !["timeouts"] = @ + 1]
  BY DEF CallerTimesOut, CallerAt, exec, TypeOK, CallerInv, Count
<1>2. TypeOK'
  <2>1. metrics' \in [{"received", "completed", "rejected", "timeouts"} -> Nat]
    BY <1>1 DEF TypeOK
  <2> QED BY <1>1, <2>1 DEF CallerTimesOut, CallerAt, TypeOK
<1>3. Places'
  BY <1>1, PlacesKept DEF InHand
<1>4. CallerInv' /\ WorkerInv' /\ OwnerInv'
  BY <1>1 DEF CallerInv, WorkerInv, OwnerInv
<1>5. SizeInv'
  <2>1. Moving' = Moving /\ Pushing' = Pushing
    BY <1>1 DEF Moving, Pushing
  <2> QED BY <1>1, <2>1 DEF SizeInv
<1>6. MetricsInv'
  <2>1. TimingOut' = TimingOut \cup {r} /\ r \notin TimingOut /\ Received' = Received
    BY <1>1 DEF TimingOut, Received
  <2>2. \A o : With(o)' = With(o) /\ Giving(o)' = Giving(o)
    BY <1>1 DEF With, Giving
  <2>3. Cardinality(TimingOut') = Cardinality(TimingOut) + 1
    BY <2>1, Finite, FS_AddElement
  <2> QED BY <1>1, <2>1, <2>2, <2>3, Finite, SMTT(60) DEF MetricsInv, TypeOK
<1> QED BY <1>2, <1>3, <1>4, <1>5, <1>6

(* and then answers itself.                                                 *)
LEMMA GiveUpStep ==
  ASSUME IndInv, NEW r \in Requests, CallerGivesUp(r)
  PROVE  IndInv'
<1> USE DEF IndInv, Control
<1>1. /\ UNCHANGED <<queue, queue_size, stopped, cv_mu, ready, worker, batch, owner, starts, metrics>>
      /\ caller[r] = "timeout" /\ caller'[r] = "done" /\ promise[r] = "unset"
      /\ \A q \in Requests \ {r} : caller'[q] = caller[q]
      /\ Resolve(r, "timeout")
  BY DEF CallerGivesUp, CallerAt, exec, TypeOK, CallerInv
<1>2. /\ Cardinality(With("timeout")') = Cardinality(With("timeout")) + 1
      /\ \A p : p # "timeout" /\ p # "unset" => With(p)' = With(p)
      /\ \A q \in Requests : promise'[q] = IF q = r THEN "timeout" ELSE promise[q]
      /\ promise' \in [Requests -> Outcomes]
  BY <1>1, OneAnswer DEF Outcomes
<1>3. TypeOK'
  BY <1>1, <1>2 DEF CallerGivesUp, CallerAt, TypeOK
<1>4. Places'
  BY <1>1, <1>2, PlacesKept DEF InHand
<1>5. CallerInv' /\ WorkerInv' /\ OwnerInv'
  BY <1>1, <1>2 DEF CallerInv, WorkerInv, OwnerInv
<1>6. SizeInv'
  <2>1. Moving' = Moving /\ Pushing' = Pushing
    BY <1>1 DEF Moving, Pushing
  <2> QED BY <1>1, <2>1 DEF SizeInv
<1>7. MetricsInv'
  <2>1. TimingOut' = TimingOut \ {r} /\ r \in TimingOut /\ Received' = Received
    BY <1>1 DEF TimingOut, Received
  <2>2. Cardinality(TimingOut') = Cardinality(TimingOut) - 1
    BY <2>1, Finite, FS_RemoveElement
  <2>3. \A o : Giving(o)' = Giving(o)
    BY <1>1 DEF Giving
  <2> QED BY <1>1, <1>2, <2>1, <2>2, <2>3, Finite DEF MetricsInv
<1> QED BY <1>3, <1>4, <1>5, <1>6, <1>7

----------------------------------------------------------------------------
(* worker_loop *)

(* The steps of a worker that leave its batch and the queue alone.           *)
LEMMA WorkerLocalStep ==
  ASSUME IndInv, NEW w \in Workers,
         \/ WorkerLoops(w) \/ WorkerChecks(w) \/ WorkerFindsNothing(w) \/ WorkerLocks(w)
         \/ WorkerHasWork(w) \/ WorkerHasNoWork(w) \/ WorkerSleeps(w) \/ WorkerExecutes(w)
         \/ SpuriousWakeup(w)
  PROVE  IndInv'
<1> USE DEF IndInv, Control
<1>1. /\ UNCHANGED <<queue, queue_size, stopped, ready, caller, batch, owner, starts, promise, metrics>>
      /\ cv_mu' \in Workers \cup {NoThread}
      /\ worker' = [worker EXCEPT ![w] = worker'[w]]
  BY DEF WorkerLoops, WorkerChecks, WorkerFindsNothing, WorkerLocks, WorkerHasWork,
         WorkerHasNoWork, WorkerSleeps, WorkerExecutes, SpuriousWakeup, WorkerAt, exec, TypeOK
<1>2. /\ worker[w] \notin {"exited", "uncount", "ok", "failed"}
      /\ worker'[w] \in {"exited", "loop", "check", "pop", "lock", "test", "sleep", "waiting",
                         "execute", "respond", "unavailable"}
  BY DEF WorkerLoops, WorkerChecks, WorkerFindsNothing, WorkerLocks, WorkerHasWork, AfterBatching,
         WorkerHasNoWork, WorkerSleeps, WorkerExecutes, SpuriousWakeup, WorkerAt, TypeOK
<1>3. /\ worker'[w] \in {"exited", "loop", "lock", "test", "sleep", "waiting"} => batch[w] = <<>>
      /\ worker'[w] \in {"execute", "respond", "unavailable"} => batch[w] # <<>>
  BY DEF WorkerLoops, WorkerChecks, WorkerFindsNothing, WorkerLocks, WorkerHasWork, AfterBatching,
         WorkerHasNoWork, WorkerSleeps, WorkerExecutes, SpuriousWakeup, WorkerAt, TypeOK, WorkerInv
<1>4. TypeOK'
  <2>1. worker' \in [Workers -> {"exited", "loop", "check", "pop", "uncount", "lock", "test", "sleep",
                                "waiting", "execute", "respond", "ok", "failed", "unavailable"}]
    BY <1>1, <1>2 DEF TypeOK
  <2> QED BY <1>1, <2>1 DEF TypeOK
<1>5. Places'
  BY <1>1, PlacesKept DEF InHand
<1>6. CallerInv' /\ OwnerInv'
  BY <1>1, <1>2 DEF CallerInv, OwnerInv
<1>7. WorkerInv'
  BY <1>1, <1>2, <1>3 DEF WorkerInv, TypeOK
<1>8. SizeInv'
  <2>1. Moving' = Moving /\ Pushing' = Pushing
    BY <1>1, <1>2 DEF Moving, Pushing, TypeOK
  <2> QED BY <1>1, <2>1 DEF SizeInv
<1>9. MetricsInv'
  <2>1. \A v \in Workers : \A o \in {"ok", "failed"} : worker'[v] = o <=> worker[v] = o
    BY <1>1, <1>2 DEF TypeOK
  <2> QED BY <1>1, <2>1, MetricsKept
<1> QED BY <1>4, <1>5, <1>6, <1>7, <1>8, <1>9

(* try_pop: the oldest request goes from the queue into the batch.           *)
LEMMA PopStep ==
  ASSUME IndInv, NEW w \in Workers, WorkerPops(w)
  PROVE  IndInv'
<1> USE DEF IndInv, Control
<1> DEFINE r == Head(queue)
<1>1. /\ UNCHANGED <<queue_size, stopped, ready, cv_mu, caller, owner, starts, promise, metrics>>
      /\ queue # <<>> /\ caller[r] # "publish" /\ queue' = Tail(queue)
      /\ batch' = [batch EXCEPT ![w] = Append(batch[w], r)]
      /\ worker[w] = "pop" /\ worker' = [worker EXCEPT ![w] = "uncount"]
  BY DEF WorkerPops, Poppable, WorkerAt
<1>2. queue \in Seq(Requests) /\ batch[w] \in Seq(Requests)
  BY DEF TypeOK
<1>3. /\ queue' \in Seq(Requests) /\ Len(queue') = Len(queue) - 1 /\ Len(queue) \in Nat
      /\ r \in Elements(queue) /\ r \in Requests
      /\ Distinct(queue') /\ Elements(queue') = Elements(queue) \ {r}
  BY <1>1, <1>2, TailFacts DEF Places
<1> HIDE DEF r
<1>4. \A v \in Workers : r \notin Elements(batch[v])
  BY <1>3 DEF Places
<1>5. /\ Append(batch[w], r) \in Seq(Requests) /\ Append(batch[w], r) # <<>>
      /\ Elements(Append(batch[w], r)) = Elements(batch[w]) \cup {r}
      /\ Distinct(Append(batch[w], r))
  BY <1>2, <1>3, <1>4, AppendFacts DEF Places
<1>6. /\ batch'[w] = Append(batch[w], r) /\ \A v \in Workers \ {w} : batch'[v] = batch[v]
      /\ worker'[w] = "uncount" /\ \A v \in Workers \ {w} : worker'[v] = worker[v]
  BY <1>1 DEF TypeOK
<1>7. TypeOK'
  BY <1>1, <1>3, <1>5 DEF TypeOK
<1>8. Places'
  <2>1. \A v \in Workers : Distinct(batch'[v]) /\ Elements(batch'[v]) \cap Elements(queue') = {}
    <3>1. Distinct(batch'[w]) /\ Elements(batch'[w]) \cap Elements(queue') = {}
      BY <1>3, <1>5, <1>6 DEF Places
    <3>2. ASSUME NEW v \in Workers \ {w}
          PROVE  Distinct(batch'[v]) /\ Elements(batch'[v]) \cap Elements(queue') = {}
      BY <1>3, <1>6 DEF Places
    <3> QED BY <3>1, <3>2
  <2>2. \A u, v \in Workers : u # v => Elements(batch'[u]) \cap Elements(batch'[v]) = {}
    <3> SUFFICES ASSUME NEW u \in Workers, NEW v \in Workers, u # v
                 PROVE  Elements(batch'[u]) \cap Elements(batch'[v]) = {}
      OBVIOUS
    <3>1. Elements(batch[u]) \cap Elements(batch[v]) = {}
      BY DEF Places
    <3>2. /\ Elements(batch'[u]) = IF u = w THEN Elements(batch[u]) \cup {r} ELSE Elements(batch[u])
          /\ Elements(batch'[v]) = IF v = w THEN Elements(batch[v]) \cup {r} ELSE Elements(batch[v])
      BY <1>5, <1>6
    <3> QED BY <1>4, <3>1, <3>2
  <2>3. \A q \in Requests : (\E v \in Workers : q \in Elements(batch'[v])) <=>
                            (q = r \/ \E v \in Workers : q \in Elements(batch[v]))
    BY <1>5, <1>6
  <2>4. \A q \in Requests :
          InHand(q) <=> q \in Elements(queue') \/ \E v \in Workers : q \in Elements(batch'[v])
    BY <1>3, <2>3 DEF Places
  <2> QED BY <1>1, <1>3, <2>1, <2>2, <2>4 DEF Places, InHand
<1>9. CallerInv'
  BY <1>1, <1>3 DEF CallerInv
<1>10. WorkerInv'
  BY <1>5, <1>6 DEF WorkerInv
<1>11. OwnerInv'
  BY <1>1, <1>6 DEF OwnerInv
<1>12. SizeInv'
  <2>1. Moving' = Moving \cup {w} /\ w \notin Moving /\ Pushing' = Pushing
    BY <1>1, <1>6 DEF Moving, Pushing
  <2>2. Cardinality(Moving') = Cardinality(Moving) + 1
    BY <2>1, Finite, FS_AddElement
  <2> QED BY <1>1, <1>3, <2>1, <2>2, Finite DEF SizeInv
<1>13. MetricsInv'
  BY <1>1, <1>6, MetricsKept
<1> QED BY <1>7, <1>8, <1>9, <1>10, <1>11, <1>12, <1>13

(* queue_size_.fetch_sub: the pop is counted.                               *)
LEMMA UncountStep ==
  ASSUME IndInv, NEW w \in Workers, WorkerUncounts(w)
  PROVE  IndInv'
<1> USE DEF IndInv, Control
<1>1. /\ UNCHANGED <<queue, stopped, ready, cv_mu, caller, batch, owner, starts, promise, metrics>>
      /\ queue_size' = queue_size - 1
      /\ worker[w] = "uncount" /\ worker' = [worker EXCEPT ![w] = "check"]
  BY DEF WorkerUncounts, Uncounted, WorkerAt
<1>2. worker'[w] = "check" /\ \A v \in Workers \ {w} : worker'[v] = worker[v]
  BY <1>1 DEF TypeOK
<1>3. TypeOK'
  BY <1>1 DEF TypeOK
<1>4. Places'
  BY <1>1, PlacesKept DEF InHand
<1>5. CallerInv' /\ WorkerInv' /\ OwnerInv'
  BY <1>1, <1>2 DEF CallerInv, WorkerInv, OwnerInv
<1>6. SizeInv'
  <2>1. Moving' = Moving \ {w} /\ w \in Moving /\ Pushing' = Pushing
    BY <1>1, <1>2 DEF Moving, Pushing
  <2>2. Cardinality(Moving') = Cardinality(Moving) - 1
    BY <2>1, Finite, FS_RemoveElement
  <2>3. Len(queue) \in Nat
    BY DEF TypeOK
  <2> QED BY <1>1, <2>1, <2>2, <2>3, Finite DEF SizeInv
<1>7. MetricsInv'
  BY <1>1, <1>2, MetricsKept
<1> QED BY <1>3, <1>4, <1>5, <1>6, <1>7

(* One response of the batch is counted; its promise comes next.            *)
LEMMA ResponseCountStep ==
  ASSUME IndInv, NEW w \in Workers, WorkerCounts(w)
  PROVE  IndInv'
<1> USE DEF IndInv, Control
<1>1. /\ UNCHANGED <<queue, queue_size, stopped, cv_mu, ready, caller, batch, owner, starts, promise>>
      /\ worker[w] = "respond"
  BY DEF WorkerCounts, WorkerAt, exec
<1>2. PICK o \in {"ok", "failed"} : /\ worker' = [worker EXCEPT ![w] = o]
                                    /\ o = "ok" => metrics' = [metrics EXCEPT !["completed"] = @ + 1]
                                    /\ o = "failed" => metrics' = [metrics EXCEPT !["rejected"] = @ + 1]
  BY DEF WorkerCounts, WorkerAt, Count
<1>3. worker'[w] = o /\ \A v \in Workers \ {w} : worker'[v] = worker[v]
  BY <1>2 DEF TypeOK
<1>4. TypeOK'
  <2>1. metrics' \in [{"received", "completed", "rejected", "timeouts"} -> Nat]
    BY <1>2 DEF TypeOK
  <2> QED BY <1>1, <1>2, <2>1 DEF TypeOK
<1>5. Places'
  BY <1>1, PlacesKept DEF InHand
<1>6. CallerInv' /\ WorkerInv' /\ OwnerInv'
  BY <1>1, <1>3 DEF CallerInv, WorkerInv, OwnerInv
<1>7. SizeInv'
  <2>1. Moving' = Moving /\ Pushing' = Pushing
    BY <1>1, <1>3 DEF Moving, Pushing
  <2> QED BY <1>1, <2>1 DEF SizeInv
<1>8. MetricsInv'
  <2>1. Received' = Received /\ TimingOut' = TimingOut /\ \A p : With(p)' = With(p)
    BY <1>1 DEF Received, TimingOut, With
  <2>2. \A p \in {"ok", "failed"} \ {o} : Giving(p)' = Giving(p)
    BY <1>1, <1>3 DEF Giving
  <2>3. Giving(o)' = Giving(o) \cup {w} /\ w \notin Giving(o)
    BY <1>1, <1>2, <1>3 DEF Giving
  <2>4. Cardinality(Giving(o)') = Cardinality(Giving(o)) + 1
    BY <2>3, Finite, FS_AddElement
  <2>5. CASE o = "ok"
    <3>1. metrics'["completed"] = metrics["completed"] + 1 /\ metrics["completed"] \in Nat
      BY <1>2, <2>5 DEF TypeOK
    <3>2. \A m \in {"received", "rejected", "timeouts"} : metrics'[m] = metrics[m]
      BY <1>2, <2>5 DEF TypeOK
    <3>3. Cardinality(Giving("ok")') = Cardinality(Giving("ok")) + 1 /\ Giving("failed")' = Giving("failed")
      BY <2>2, <2>4, <2>5
    <3>4. Cardinality(With("ok")) \in Nat /\ Cardinality(Giving("ok")) \in Nat
      BY Finite
    <3> HIDE DEF IndInv, Control
    <3>5. MetricsInv
      BY DEF IndInv
    <3> QED BY <2>1, <3>1, <3>2, <3>3, <3>4, <3>5 DEF MetricsInv
  <2>6. CASE o = "failed"
    <3>1. metrics'["rejected"] = metrics["rejected"] + 1 /\ metrics["rejected"] \in Nat
      BY <1>2, <2>6 DEF TypeOK
    <3>2. \A m \in {"received", "completed", "timeouts"} : metrics'[m] = metrics[m]
      BY <1>2, <2>6 DEF TypeOK
    <3>3. Cardinality(Giving("failed")') = Cardinality(Giving("failed")) + 1 /\ Giving("ok")' = Giving("ok")
      BY <2>2, <2>4, <2>6
    <3>4. Cardinality(With("failed")) \in Nat /\ Cardinality(Giving("failed")) \in Nat
      BY Finite
    <3> HIDE DEF IndInv, Control
    <3>5. MetricsInv
      BY DEF IndInv
    <3> QED BY <2>1, <3>1, <3>2, <3>3, <3>4, <3>5 DEF MetricsInv
  <2> QED BY <1>2, <2>5, <2>6
<1> QED BY <1>4, <1>5, <1>6, <1>7, <1>8

(* One request of the batch is answered, and leaves it.                     *)
LEMMA RespondStep ==
  ASSUME IndInv, NEW w \in Workers, WorkerResponds(w)
  PROVE  IndInv'
<1> USE DEF IndInv, Control
<1> DEFINE r == Head(batch[w])
<1>1. /\ UNCHANGED <<queue, queue_size, stopped, cv_mu, ready, caller, owner, starts, metrics>>
      /\ worker[w] \in {"ok", "failed", "unavailable"}
      /\ batch' = [batch EXCEPT ![w] = Tail(batch[w])]
      /\ worker' = [worker EXCEPT ![w] = IF Len(batch[w]) = 1 THEN "loop"
                                           ELSE IF worker[w] = "unavailable" THEN "unavailable"
                                                ELSE "respond"]
  BY DEF WorkerResponds, RestOfBatch, exec, TypeOK
<1>3. batch[w] \in Seq(Requests) /\ batch[w] # <<>>
  BY <1>1 DEF TypeOK, WorkerInv
<1>4. /\ Tail(batch[w]) \in Seq(Requests) /\ Len(Tail(batch[w])) = Len(batch[w]) - 1
      /\ Len(batch[w]) \in Nat \ {0} /\ r \in Elements(batch[w]) /\ r \in Requests
      /\ Distinct(Tail(batch[w])) /\ Elements(Tail(batch[w])) = Elements(batch[w]) \ {r}
  BY <1>3, TailFacts DEF Places
<1> HIDE DEF r
<1>5. /\ promise[r] = "unset" /\ r \notin Elements(queue)
      /\ \A v \in Workers \ {w} : r \notin Elements(batch[v])
      /\ caller[r] \in {"count", "notify", "done"}
  BY <1>4 DEF Places, InHand, CallerInv, TypeOK
<1>6. PICK o \in {"ok", "failed", "unavailable"} : o = worker[w] /\ Resolve(r, o)
  BY <1>1 DEF WorkerResponds, NextInBatch, r
<1>7. /\ Cardinality(With(o)') = Cardinality(With(o)) + 1
      /\ \A p : p # o /\ p # "unset" => With(p)' = With(p)
      /\ \A q \in Requests : promise'[q] = IF q = r THEN o ELSE promise[q]
      /\ promise' \in [Requests -> Outcomes]
  BY <1>4, <1>5, <1>6, OneAnswer DEF Outcomes
<1>8. /\ batch'[w] = Tail(batch[w]) /\ \A v \in Workers \ {w} : batch'[v] = batch[v]
      /\ worker'[w] = IF Len(batch[w]) = 1 THEN "loop"
                      ELSE IF worker[w] = "unavailable" THEN "unavailable" ELSE "respond"
      /\ \A v \in Workers \ {w} : worker'[v] = worker[v]
  BY <1>1 DEF TypeOK
<1>9. TypeOK'
  <2>1. worker' \in [Workers -> {"exited", "loop", "check", "pop", "uncount", "lock", "test", "sleep",
                                "waiting", "execute", "respond", "ok", "failed", "unavailable"}]
    BY <1>1 DEF TypeOK
  <2> QED BY <1>1, <1>4, <1>7, <2>1 DEF TypeOK
<1>10. Places'
  <2>1. \A v \in Workers : Distinct(batch'[v]) /\ Elements(batch'[v]) \cap Elements(queue) = {}
    BY <1>4, <1>8 DEF Places
  <2>2. \A u, v \in Workers : u # v => Elements(batch'[u]) \cap Elements(batch'[v]) = {}
    BY <1>4, <1>8, SMTT(40) DEF Places
  <2>3. \A q \in Requests : (\E v \in Workers : q \in Elements(batch'[v])) <=>
                            (q # r /\ \E v \in Workers : q \in Elements(batch[v]))
    BY <1>4, <1>5, <1>8
  <2>4. \A q \in Requests : InHand(q)' <=> q # r /\ InHand(q)
    BY <1>1, <1>6, <1>7 DEF InHand
  <2>5. \A q \in Requests :
          InHand(q)' <=> q \in Elements(queue) \/ \E v \in Workers : q \in Elements(batch'[v])
    BY <1>5, <2>3, <2>4 DEF Places
  <2> QED BY <1>1, <2>1, <2>2, <2>5 DEF Places
<1>11. CallerInv'
  BY <1>1, <1>5, <1>7 DEF CallerInv
<1>12. WorkerInv'
  <2>1. Len(batch[w]) = 1 <=> batch'[w] = <<>>
    BY <1>3, <1>8, TailFacts
  <2>2. worker'[w] = IF batch'[w] = <<>> THEN "loop"
                    ELSE IF worker[w] = "unavailable" THEN "unavailable" ELSE "respond"
    BY <1>8, <2>1
  <2> QED BY <1>1, <1>8, <2>2 DEF WorkerInv
<1>13. OwnerInv'
  BY <1>1, <1>8 DEF OwnerInv
<1>14. SizeInv'
  <2>1. Moving' = Moving /\ Pushing' = Pushing
    BY <1>1, <1>8 DEF Moving, Pushing
  <2> QED BY <1>1, <2>1 DEF SizeInv
<1>15. MetricsInv'
  <2>1. Received' = Received /\ TimingOut' = TimingOut
    BY <1>1 DEF Received, TimingOut
  <2>2. \A p \in {"ok", "failed"} \ {o} : Giving(p)' = Giving(p)
    <3>1. worker'[w] \notin {"ok", "failed"}
      BY <1>8
    <3> QED BY <1>6, <1>8, <3>1 DEF Giving
  <2>3. o # "unavailable" => Giving(o)' = Giving(o) \ {w} /\ w \in Giving(o)
    <3>1. o # "unavailable" => worker'[w] # o
      BY <1>6, <1>8
    <3> QED BY <1>6, <1>8, <3>1 DEF Giving
  <2>4. o # "unavailable" => Cardinality(Giving(o)') = Cardinality(Giving(o)) - 1
    BY <2>3, Finite, FS_RemoveElement
  <2>5. With("timeout")' = With("timeout") /\ metrics' = metrics
    BY <1>1, <1>6, <1>7
  <2>6. \A p \in {"ok", "failed"} : Cardinality(With(p)') + Cardinality(Giving(p)')
                                      = Cardinality(With(p)) + Cardinality(Giving(p))
    <3>1. CASE o = "unavailable"
      BY <1>7, <2>2, <3>1
    <3>2. CASE o = "ok"
      BY <1>7, <2>2, <2>4, <3>2, Finite
    <3>3. CASE o = "failed"
      BY <1>7, <2>2, <2>4, <3>3, Finite
    <3> QED BY <1>6, <3>1, <3>2, <3>3
  <2> QED BY <2>1, <2>5, <2>6 DEF MetricsInv
<1> QED BY <1>9, <1>10, <1>11, <1>12, <1>13, <1>14, <1>15

----------------------------------------------------------------------------
(* start, stop and the destructor *)

(* start and stop do not touch requests, batches or counters. *)
LEMMA OwnerStep ==
  ASSUME IndInv, Start \/ Stop \/ StopBarrier \/ StopNotifies \/ StopJoins \/ BackendGone
  PROVE  IndInv'
<1> USE DEF IndInv, Control
<1>1. /\ UNCHANGED <<queue, queue_size, cv_mu, caller, batch, promise, metrics>>
      /\ ready' \in BOOLEAN /\ stopped' \in BOOLEAN /\ starts' \in 0 .. MaxStarts
      /\ owner' \in {"idle", "barrier", "notify", "join", "destroyed"}
      /\ owner' = "destroyed" <=> owner = "destroyed"
  <2> USE ExecutorAssumption DEF OwnerAt, exec, TypeOK
  <2>1. CASE Start
    <3>1. starts' \in 0 .. MaxStarts
      BY <2>1 DEF Start
    <3> QED BY <2>1, <3>1 DEF Start
  <2>2. CASE Stop \/ StopBarrier \/ StopNotifies
    BY <2>2 DEF Stop, StopBarrier, StopNotifies
  <2>3. CASE StopJoins \/ BackendGone
    BY <2>3 DEF StopJoins, BackendGone
  <2> QED BY <2>1, <2>2, <2>3
<1>2. \A v \in Workers :
          \/ worker'[v] = worker[v]
          \/ worker[v] = "waiting" /\ worker'[v] = "lock"
          \/ worker[v] = "exited" /\ worker'[v] = "loop"
  BY DEF Start, Stop, StopBarrier, StopNotifies, StopJoins, BackendGone, OwnerAt, exec, TypeOK,
         OwnerInv, Waiting
<1>3. worker' = [v \in Workers |-> worker'[v]]
  BY DEF Start, Stop, StopBarrier, StopNotifies, StopJoins, BackendGone, exec, TypeOK
<1>4. TypeOK'
  BY <1>1, <1>2, <1>3 DEF TypeOK
<1>5. Places'
  BY <1>1, PlacesKept DEF InHand
<1>6. CallerInv' /\ WorkerInv'
  BY <1>1, <1>2 DEF CallerInv, WorkerInv
<1>7. OwnerInv'
  BY <1>1 DEF Start, Stop, StopBarrier, StopNotifies, StopJoins, BackendGone, OwnerAt, exec,
              OwnerInv
<1>8. SizeInv'
  <2>1. Moving' = Moving /\ Pushing' = Pushing
    BY <1>1, <1>2 DEF Moving, Pushing
  <2> QED BY <1>1, <2>1 DEF SizeInv
<1>9. MetricsInv'
  BY <1>1, <1>2, MetricsKept
<1> QED BY <1>4, <1>5, <1>6, <1>7, <1>8, <1>9

(* The destructor breaks the promises in the queue: no batch can hold one.   *)
LEMMA DestroyStep ==
  ASSUME IndInv, Destroy
  PROVE  IndInv'
<1> USE DEF IndInv, Control
<1>1. /\ UNCHANGED <<queue_size, stopped, ready, cv_mu, caller, worker, batch, starts, metrics>>
      /\ stopped /\ owner = "idle" /\ owner' = "destroyed" /\ queue' = <<>>
      /\ \A r \in Requests : caller[r] \in {"idle", "done"}
      /\ promise' = [r \in Requests |-> IF r \in Elements(queue) THEN "broken" ELSE promise[r]]
  BY DEF Destroy, OwnerAt, DestroyedTasks, Elements
<1>2. \A w \in Workers : worker[w] = "exited" /\ batch[w] = <<>>
  BY <1>1 DEF OwnerInv, WorkerInv
<1>3. \A r \in Elements(queue) : r \in Requests => promise[r] = "unset"
  BY DEF Places, InHand
<1>4. TypeOK'
  BY <1>1 DEF TypeOK, Outcomes
<1>5. Places'
  <2>1. \A r \in Requests : ~InHand(r)'
    BY <1>1, <1>2, EmptyFacts DEF InHand, Places
  <2> QED BY <1>1, <1>2, <2>1, EmptyFacts DEF Places
<1>6. CallerInv'
  BY <1>1 DEF CallerInv, Places, InHand
<1>7. WorkerInv' /\ OwnerInv' /\ SizeInv'
  BY <1>1, <1>2 DEF WorkerInv, OwnerInv, SizeInv
<1>8. MetricsInv'
  BY <1>1, <1>3, MetricsKept
<1> QED BY <1>4, <1>5, <1>6, <1>7, <1>8

(* Every step of callers, workers and owner keeps the invariant. *)
LEMMA StepInv == IndInv /\ [Next]_vars => IndInv'
<1> SUFFICES ASSUME IndInv, [Next]_vars PROVE IndInv'
  OBVIOUS
<1>1. ASSUME NEW r \in Requests, InferAsync(r) \/ Caller(r) PROVE IndInv'
  BY <1>1, InferAsyncStep, CallerLocalStep, PushStep, CountStep, TimeoutStep, GiveUpStep
     DEF Caller
<1>2. ASSUME NEW w \in Workers, Worker(w) \/ SpuriousWakeup(w) PROVE IndInv'
  BY <1>2, WorkerLocalStep, PopStep, UncountStep, ResponseCountStep, RespondStep DEF Worker
<1>3. CASE UNCHANGED vars
  BY <1>3 DEF vars, IndInv, TypeOK, Places, InHand, Control, CallerInv, WorkerInv, OwnerInv,
              SizeInv, MetricsInv, Moving, Pushing, Received, With, TimingOut, Giving
<1> QED BY <1>1, <1>2, <1>3, OwnerStep, DestroyStep DEF Next

(* Every reachable state of the executor satisfies IndInv: each accepted    *)
(* request is in the queue or in one batch, queue_size_ is the queue's      *)
(* length up to the threads between the queue and the counter, and each     *)
(* counter of the metrics counts the requests with that outcome and the     *)
(* threads that have counted one and not answered it yet                    *)
(* (model_executor.cpp:15-168).                                             *)
THEOREM Inductive == Spec => []IndInv
  BY InitInv, StepInv, PTL DEF Spec

(* Every request that was accepted and not answered is in the queue or in    *)
(* the batch of one worker, exactly once, and no other request is: none is   *)
(* dropped or answered twice, whatever the workers and the owner do.         *)
THEOREM RequestsHaveOnePlace == Spec => []OnePlace
<1>1. \A q : Distinct(q) => \A r : Cardinality({i \in DOMAIN q : q[i] = r})
                                       = IF r \in Elements(q) THEN 1 ELSE 0
  <2> SUFFICES ASSUME NEW q, Distinct(q), NEW r
               PROVE  Cardinality({i \in DOMAIN q : q[i] = r}) = IF r \in Elements(q) THEN 1 ELSE 0
    OBVIOUS
  <2>1. CASE r \in Elements(q)
    <3>1. PICK i \in DOMAIN q : q[i] = r
      BY <2>1 DEF Elements
    <3>2. {j \in DOMAIN q : q[j] = r} = {i}
      BY <3>1 DEF Distinct
    <3> QED BY <2>1, <3>2, FS_Singleton
  <2>2. CASE r \notin Elements(q)
    <3>1. {j \in DOMAIN q : q[j] = r} = {}
      BY <2>2 DEF Elements
    <3> QED BY <2>2, <3>1, FS_EmptySet
  <2> QED BY <2>1, <2>2
<1>2. IndInv => OnePlace
  <2> SUFFICES ASSUME IndInv, NEW r \in Requests PROVE OnePlace!(r)
    BY DEF OnePlace
  <2>1. InQueue(r) = IF r \in Elements(queue) THEN 1 ELSE 0
    BY <1>1 DEF InQueue, IndInv, Places
  <2>2. \A w \in Workers : InBatch(r, w) = IF r \in Elements(batch[w]) THEN 1 ELSE 0
    BY <1>1 DEF InBatch, IndInv, Places
  <2>3. {w \in Workers : InBatch(r, w) > 0} = {w \in Workers : r \in Elements(batch[w])}
    BY <2>2
  <2>4. CASE InHand(r)
    <3>1. CASE r \in Elements(queue)
      <4>1. {w \in Workers : r \in Elements(batch[w])} = {}
        BY <3>1 DEF IndInv, Places
      <4> QED BY <2>1, <2>3, <2>4, <3>1, <4>1 DEF InHand
    <3>2. CASE r \notin Elements(queue)
      <4>1. PICK w \in Workers : r \in Elements(batch[w])
        BY <2>4, <3>2 DEF IndInv, Places
      <4>2. {v \in Workers : r \in Elements(batch[v])} = {w}
        BY <4>1 DEF IndInv, Places
      <4> QED BY <2>1, <2>2, <2>3, <2>4, <3>2, <4>1, <4>2 DEF InHand
    <3> QED BY <3>1, <3>2
  <2>5. CASE ~InHand(r)
    <3>1. r \notin Elements(queue) /\ {w \in Workers : r \in Elements(batch[w])} = {}
      BY <2>5 DEF IndInv, Places
    <3> QED BY <2>1, <2>3, <2>5, <3>1 DEF InHand
  <2> QED BY <2>4, <2>5
<1> QED BY <1>2, Inductive, PTL

(* The counter the idle workers test is the length of the queue up to the    *)
(* pushes and pops in progress, in every interleaving.                       *)
THEOREM QueueSizeIsExact == Spec => []QueueSizeExact
<1>1. IndInv => QueueSizeExact
  BY DEF IndInv, SizeInv, Pushing, QueueSizeExact
<1> QED BY <1>1, Inductive, PTL

(* Each published counter is exact up to the threads between fetch_add and   *)
(* set_value: no answer is counted twice, and none reaches its caller before *)
(* it is counted, for the outcomes that have a counter                       *)
(* (model_executor.cpp:43, 70-73, 136-149).                                  *)
THEOREM MetricsAddUp == Spec => []MetricsAccount
<1>1. IndInv => MetricsAccount
  BY DEF IndInv, MetricsInv, Received, TimingOut, With, Giving, MetricsAccount
<1> QED BY <1>1, Inductive, PTL

(* Destroying the executor leaves no future that never becomes ready.       *)
THEOREM NobodyOrphaned == Spec => []NoOrphans
<1>1. IndInv => NoOrphans
  <2> SUFFICES ASSUME IndInv, owner = "destroyed", NEW r \in Requests, caller[r] = "done",
                      promise[r] = "unset"
               PROVE  FALSE
    BY DEF NoOrphans
  <2>1. queue = <<>> /\ \A w \in Workers : batch[w] = <<>>
    BY DEF IndInv, Control, OwnerInv, WorkerInv
  <2> QED BY <2>1, EmptyFacts DEF IndInv, Places, InHand
<1> QED BY <1>1, Inductive, PTL
=============================================================================

------------------------------ MODULE Runtime ------------------------------
(***************************************************************************)
(* InferenceRuntime, ModelRegistry, ModelRepository::load_model and the    *)
(* way main.cpp puts them together, at the granularity of their locks.     *)
(*                                                                         *)
(* The registry owns the metadata of the models; an executor keeps a raw   *)
(* pointer to the metadata it serves; executors are shared: by executors_, *)
(* by a call that is entering one, by a thread that stops one.  Whoever    *)
(* drops the last reference destroys the executor, and with it the         *)
(* promises still in its queue.  What happens inside an executor is        *)
(* ModelExecutor's subject: here a worker may leave a request in the queue *)
(* for ever, which is what its lost notification allows.                   *)
(*                                                                         *)
(* main loads the repository before it makes the runtime.  load_model may  *)
(* be called again at any time: nothing in it or in the registry waits for *)
(* the executors of the model it replaces.                                 *)
(***************************************************************************)
EXTENDS Integers, Sequences, FiniteSets, FiniteSetsExt, Functions

CONSTANTS Models,   \* names
          Metas,    \* ModelMetadata objects: a bound on the number of loads
          Execs,    \* ModelExecutor objects: a bound on the number of registrations
          Callers,  \* calls of infer_async, each on a thread of its own
          Admins    \* threads that load, register and unregister models

None == "none"
Owner == "owner"

ASSUME RuntimeAssumption ==
    /\ \A S \in {Models, Metas, Execs, Callers, Admins} : IsFiniteSet(S)
    /\ None \notin Models \cup Metas \cup Execs

\* The holders of references are told apart (see Refs).
ASSUME HoldersAssumption ==
    /\ Models \cap Callers = {} /\ Models \cap Admins = {} /\ Callers \cap Admins = {}
    /\ Owner \notin Models \cup Callers \cup Admins

VARIABLES registry,   \* ModelRegistry::models_
          meta,       \* state of each ModelMetadata, or its end
          executors,  \* executors_
          stopped,    \* stopped_ of the runtime
          exec,       \* each executor: its life, the name and the metadata it serves
          queue,      \* the requests in each executor's queue
          working,    \* the requests in the hands of each executor's workers
          answer,     \* each call's future
          caller,     \* each call: control state, name, executor it refers to
          admin,      \* each admin thread: control state, name, metadata pointer
          owner,      \* control state of the thread that owns the runtime (main)
          held,       \* executors each thread has taken out in order to stop them
          reloaded    \* history: load_model was called again once the server was up

shared == <<registry, meta, executors, stopped>>
execution == <<exec, queue, working, answer>>
vars == <<registry, meta, executors, stopped, exec, queue, working, answer, caller, admin,
          owner, held, reloaded>>

Stoppers == Admins \cup {Owner}

RuntimeInit ==
    /\ registry = [m \in Models |-> None]
    /\ meta = [d \in Metas |-> "unused"]
    /\ executors = [m \in Models |-> None]
    /\ stopped = FALSE
    /\ exec = [e \in Execs |-> [life |-> "unused", model |-> None, meta |-> None]]
    /\ queue = [e \in Execs |-> {}]
    /\ working = [e \in Execs |-> {}]
    /\ answer = [c \in Callers |-> "none"]
    /\ caller = [c \in Callers |-> [at |-> "idle", model |-> None, exec |-> None]]
    /\ admin = [a \in Admins |-> [at |-> "idle", model |-> None, meta |-> None]]
    /\ owner = "loading"
    /\ held = [t \in Stoppers |-> {}]
    /\ reloaded = FALSE

\* A bounded supply of objects: the next one that was never used.
Fresh(pool, used(_)) == LET free == {x \in pool : ~used(x)} IN
    IF free = {} THEN {} ELSE {CHOOSE x \in free : TRUE}

Move(a, to) == admin' = [admin EXCEPT ![a].at = to]
Idle(a) == admin' = [admin EXCEPT ![a] = [at |-> "idle", model |-> None, meta |-> None]]

Alive(e) == exec[e].life \in {"running", "stopping", "stopped"}

----------------------------------------------------------------------------
(* ModelRepository::load_model *)

\* main's scan loads one model after the other, before there is a runtime; a reload
\* is a call of any thread at any later time.
MayLoad == IF owner = "loading" THEN \A b \in Admins : admin[b].at = "idle"
           ELSE owner \notin {"members", "destroyed"}

\* The metadata object, Loading and still owned by the loader.
Load(a, m) ==
    /\ MayLoad
    /\ admin[a].at = "idle"
    /\ \E d \in Fresh(Metas, LAMBDA x : meta[x] # "unused") :
          /\ meta' = [meta EXCEPT ![d] = "Loading"]
          /\ admin' = [admin EXCEPT ![a] = [at |-> "lookup", model |-> m, meta |-> d]]
    /\ reloaded' = (reloaded \/ owner # "loading")
    /\ UNCHANGED <<registry, executors, stopped, execution, caller, owner, held>>

\* registry.lookup(cfg.name) != nullptr
LoadLooksUp(a) ==
    /\ admin[a].at = "lookup"
    /\ Move(a, IF registry[admin[a].model] # None THEN "replace" ELSE "register")
    /\ UNCHANGED <<shared, execution, caller, owner, held, reloaded>>

\* registry.unregister: the unique_ptr it returns, if the name is still there, is dropped.
LoadReplaces(a) ==
    LET m == admin[a].model IN
    /\ admin[a].at = "replace"
    /\ Move(a, "register")
    /\ meta' = [d \in Metas |-> IF registry[m] = d THEN "freed" ELSE meta[d]]
    /\ registry' = [registry EXCEPT ![m] = None]
    /\ UNCHANGED <<executors, stopped, execution, caller, owner, held, reloaded>>

\* registry.register_model: when another load has taken the name meanwhile, the new
\* metadata is dropped and load_model returns false.
LoadRegisters(a) ==
    LET m == admin[a].model IN
    /\ admin[a].at = "register"
    /\ \/ /\ registry[m] = None
          /\ registry' = [registry EXCEPT ![m] = admin[a].meta]
          /\ Move(a, "finish")
          /\ UNCHANGED meta
       \/ /\ registry[m] # None
          /\ meta' = [meta EXCEPT ![admin[a].meta] = "freed"]
          /\ Idle(a)
          /\ UNCHANGED registry
    /\ UNCHANGED <<executors, stopped, execution, caller, owner, held, reloaded>>

\* make_backend and backend->load, then the store through meta_ptr, whether or not
\* what it points to still exists.
LoadFinishes(a) ==
    LET d == admin[a].meta IN
    /\ admin[a].at = "finish"
    /\ \E outcome \in {"Ready", "Failed"} :
          meta' = [meta EXCEPT ![d] = IF @ = "freed" THEN @ ELSE outcome]
    /\ Idle(a)
    /\ UNCHANGED <<registry, executors, stopped, execution, caller, owner, held, reloaded>>

\* The scan is over and main makes the runtime, if load_result.loaded > 0: some
\* metadata became Ready (it may have been replaced since).
Serve ==
    /\ owner = "loading"
    /\ \E d \in Metas : meta[d] \in {"Ready", "freed"}
    /\ \A a \in Admins : admin[a].at = "idle"
    /\ owner' = "serving"
    /\ UNCHANGED <<shared, execution, caller, admin, held, reloaded>>

----------------------------------------------------------------------------
(* register_model, as main calls it: with the pointer lookup_ready returns *)

Up == owner \notin {"loading", "members", "destroyed"}

Register(a, m) ==
    /\ Up
    /\ admin[a].at = "idle"
    /\ registry[m] # None
    /\ admin' = [admin EXCEPT ![a] = [at |-> "start", model |-> m, meta |-> registry[m]]]
    /\ UNCHANGED <<shared, execution, caller, owner, held, reloaded>>

\* meta->is_ready() reads anything once the metadata is gone.
RegisterRefuses(a) ==
    /\ admin[a].at = "start"
    /\ meta[admin[a].meta] # "Ready"
    /\ Idle(a)
    /\ UNCHANGED <<shared, execution, caller, owner, held, reloaded>>

\* make_shared, start: the workers run before the name is taken.
RegisterStarts(a) ==
    LET m == admin[a].model IN
    /\ admin[a].at = "start"
    /\ meta[admin[a].meta] \in {"Ready", "freed"}
    /\ \E e \in Fresh(Execs, LAMBDA x : exec[x].life # "unused") :
          /\ exec' = [exec EXCEPT ![e] = [life |-> "running", model |-> m,
                                          meta |-> admin[a].meta]]
          /\ held' = [held EXCEPT ![a] = {e}]
    /\ Move(a, "emplace")
    /\ UNCHANGED <<shared, queue, working, answer, caller, owner, reloaded>>

\* executors_.emplace under mu_, which does not ask for stopped_; when the name
\* is taken the new executor is dropped: its destructor stops it.
RegisterEmplaces(a) ==
    LET m == admin[a].model IN
    /\ admin[a].at = "emplace"
    /\ \/ /\ executors[m] = None
          /\ executors' = [executors EXCEPT ![m] = CHOOSE e \in held[a] : TRUE]
          /\ held' = [held EXCEPT ![a] = {}]
          /\ Idle(a)
       \/ /\ executors[m] # None
          /\ Move(a, "stop")
          /\ UNCHANGED <<executors, held>>
    /\ UNCHANGED <<registry, meta, stopped, execution, caller, owner, reloaded>>

----------------------------------------------------------------------------
(* unregister_model and shutdown: take executors out under mu_, then stop   *)
(* them outside the lock and drop them                                      *)

TakesOut(t, S) ==
    /\ held' = [held EXCEPT ![t] = S]
    /\ executors' = [m \in Models |-> IF executors[m] \in S THEN None ELSE executors[m]]

Unregister(a, m) ==
    /\ Up
    /\ admin[a].at = "idle"
    /\ executors[m] # None
    /\ TakesOut(a, {executors[m]})
    /\ admin' = [admin EXCEPT ![a] = [at |-> "stop", model |-> m, meta |-> None]]
    /\ UNCHANGED <<registry, meta, stopped, execution, caller, owner, reloaded>>

Shutdown ==
    /\ owner = "serving"
    /\ stopped' = TRUE
    /\ TakesOut(Owner, Range(executors) \ {None})
    /\ owner' = "stop"
    /\ UNCHANGED <<registry, meta, execution, caller, admin, reloaded>>

Stopping(t) == IF t = Owner THEN owner \in {"stop", "members"} ELSE admin[t].at = "stop"

\* executor->stop(): one executor after the other, each joined before the next.
Stop(t) ==
    /\ Stopping(t)
    /\ \A e \in held[t] : exec[e].life # "stopping"
    /\ \E e \in held[t] : /\ exec[e].life = "running"
                          /\ exec' = [exec EXCEPT ![e].life = "stopping"]
    /\ UNCHANGED <<shared, queue, working, answer, caller, admin, owner, held, reloaded>>

\* Holders of a shared_ptr to e.
NoCallerRefs(e) ==   \* mutant: infer_async keeps it->second.get()
    {m \in Models : executors[m] = e} \cup {t \in Stoppers : e \in held[t]}

Refs(e) == {m \in Models : executors[m] = e}
           \cup {c \in Callers : caller[c].exec = e}
           \cup {t \in Stoppers : e \in held[t]}

DropLeaks(e, holder) ==   \* mutant: a call never destroys the executor it leaves
    LET last == Refs(e) \subseteq {holder} \cap Stoppers IN
    /\ exec' = [exec EXCEPT ![e].life = IF last THEN "destroyed" ELSE @]
    /\ answer' = [c \in Callers |-> IF last /\ c \in queue[e] THEN "broken" ELSE answer[c]]
    /\ queue' = [queue EXCEPT ![e] = IF last THEN {} ELSE @]

\* holder drops its reference to e; the last one destroys e and breaks the
\* promises of the requests still queued.
Drop(e, holder) ==
    LET last == Refs(e) \subseteq {holder} IN
    /\ exec' = [exec EXCEPT ![e].life = IF last THEN "destroyed" ELSE @]
    /\ answer' = [c \in Callers |-> IF last /\ c \in queue[e] THEN "broken" ELSE answer[c]]
    /\ queue' = [queue EXCEPT ![e] = IF last THEN {} ELSE @]

\* Drops before the workers are joined (detached threads).
DropsAtOnce(t) ==   \* mutant: unregister_model without stop
    /\ Stopping(t)
    /\ t # Owner => \E e \in held[t] : exec[e].life = "running"
    /\ t = Owner => \A e \in held[t] : exec[e].life = "stopped"
    /\ \E e \in held[t] : Drop(e, t) /\ held' = [held EXCEPT ![t] = @ \ {e}]
    /\ UNCHANGED <<shared, working, caller, admin, owner, reloaded>>

\* All joined: the shared_ptrs go out of scope.
Drops(t) ==
    /\ Stopping(t)
    /\ \A e \in held[t] : exec[e].life = "stopped"
    /\ \E e \in held[t] : Drop(e, t) /\ held' = [held EXCEPT ![t] = @ \ {e}]
    /\ UNCHANGED <<shared, working, caller, admin, owner, reloaded>>

StopReturns(t) ==
    /\ Stopping(t)
    /\ held[t] = {}
    /\ IF t = Owner THEN /\ owner' = IF owner = "stop" THEN "returned" ELSE "destroyed"
                         /\ UNCHANGED admin
                    ELSE Idle(t) /\ UNCHANGED owner
    /\ meta' = IF t = Owner /\ owner = "members"
               THEN [d \in Metas |-> IF meta[d] = "unused" THEN "unused" ELSE "freed"]
               ELSE meta
    /\ UNCHANGED <<registry, executors, stopped, execution, caller, held, reloaded>>

DestroyRegistryFirst ==   \* mutant: main declares the registry after the runtime
    /\ owner = "returned"
    /\ \A c \in Callers : caller[c].at \in {"idle", "done"}
    /\ \A a \in Admins : admin[a].at = "idle"
    /\ TakesOut(Owner, Range(executors) \ {None})
    /\ owner' = "members"
    /\ meta' = [d \in Metas |-> IF meta[d] = "unused" THEN "unused" ELSE "freed"]
    /\ UNCHANGED <<registry, stopped, execution, caller, admin, reloaded>>

\* End of main: ~InferenceRuntime finds stopped_ set, then destroys what was
\* registered after the shutdown; the registry goes last (StopReturns).
DestroyRuntime ==
    /\ owner = "returned"
    /\ \A c \in Callers : caller[c].at \in {"idle", "done"}
    /\ \A a \in Admins : admin[a].at = "idle"
    /\ TakesOut(Owner, Range(executors) \ {None})
    /\ owner' = "members"
    /\ UNCHANGED <<registry, meta, stopped, execution, caller, admin, reloaded>>

----------------------------------------------------------------------------
(* infer_async *)

\* Under the shared lock: the runtime is stopped, the name is unknown, or a
\* reference to its executor is taken.
Route(c, m) ==
    /\ Up
    /\ caller[c].at = "idle"
    /\ \/ /\ stopped \/ executors[m] = None
          /\ caller' = [caller EXCEPT ![c].at = "done"]
          /\ answer' = [answer EXCEPT ![c] = "error"]
       \/ /\ ~stopped /\ executors[m] # None
          /\ caller' = [caller EXCEPT ![c] = [at |-> "enter", model |-> m,
                                              exec |-> executors[m]]]
          /\ UNCHANGED answer
    /\ UNCHANGED <<shared, exec, queue, working, admin, owner, held, reloaded>>

\* ModelExecutor::infer_async, first part: meta_->is_ready(), then stopped_ of the
\* executor.  Its metadata is Ready, or gone and then anything; a stopped executor
\* answers, and so does one whose queue stays full until the deadline.
Enter(c) ==
    LET e == caller[c].exec IN
    /\ caller[c].at = "enter"
    /\ \/ /\ exec[e].life = "running"
          /\ caller' = [caller EXCEPT ![c].at = "push"]
          /\ UNCHANGED answer
       \/ /\ caller' = [caller EXCEPT ![c].at = "leave"]
          /\ answer' = [answer EXCEPT ![c] = "error"]
    /\ UNCHANGED <<shared, exec, queue, working, admin, owner, held, reloaded>>

\* queue_.try_push succeeds, whether or not the executor was stopped meanwhile.
Push(c) ==
    /\ caller[c].at = "push"
    /\ queue' = [queue EXCEPT ![caller[c].exec] = @ \cup {c}]
    /\ caller' = [caller EXCEPT ![c].at = "leave"]
    /\ UNCHANGED <<shared, exec, working, answer, admin, owner, held, reloaded>>

\* infer_async returns: the reference it took goes out of scope.
Leave(c) ==
    /\ caller[c].at = "leave"
    /\ Drop(caller[c].exec, c)
    /\ caller' = [caller EXCEPT ![c] = [at |-> "done", model |-> None, exec |-> None]]
    /\ UNCHANGED <<shared, working, admin, owner, held, reloaded>>

----------------------------------------------------------------------------
(* The workers of an executor, as far as the runtime can tell *)

Take(e, c) ==
    /\ exec[e].life = "running"
    /\ c \in queue[e]
    /\ queue' = [queue EXCEPT ![e] = @ \ {c}]
    /\ working' = [working EXCEPT ![e] = @ \cup {c}]
    /\ UNCHANGED <<shared, exec, answer, caller, admin, owner, held, reloaded>>

Respond(e, c) ==
    /\ c \in working[e]
    /\ working' = [working EXCEPT ![e] = @ \ {c}]
    /\ answer' = [answer EXCEPT ![c] = "ok"]
    /\ UNCHANGED <<shared, exec, queue, caller, admin, owner, held, reloaded>>

\* The worker loops see stopped_ and end; stop() joins them.
WorkersExit(e) ==
    /\ exec[e].life = "stopping"
    /\ working[e] = {}
    /\ exec' = [exec EXCEPT ![e].life = "stopped"]
    /\ UNCHANGED <<shared, queue, working, answer, caller, admin, owner, held, reloaded>>

----------------------------------------------------------------------------

Administer(a) == \/ LoadLooksUp(a) \/ LoadReplaces(a) \/ LoadRegisters(a) \/ LoadFinishes(a)
                 \/ RegisterRefuses(a) \/ RegisterStarts(a) \/ RegisterEmplaces(a)
Unwind(t) == Stop(t) \/ Drops(t) \/ StopReturns(t)
Call(c) == Enter(c) \/ Push(c) \/ Leave(c)
Work(e) == WorkersExit(e) \/ \E c \in Callers : Respond(e, c)

RuntimeNext ==
    \/ \E a \in Admins, m \in Models : Load(a, m) \/ Register(a, m) \/ Unregister(a, m)
    \/ \E a \in Admins : Administer(a)
    \/ \E t \in Stoppers : Unwind(t)
    \/ Serve \/ Shutdown \/ DestroyRuntime
    \/ \E c \in Callers, m \in Models : Route(c, m)
    \/ \E c \in Callers : Call(c)
    \/ \E e \in Execs : Work(e) \/ \E c \in Callers : Take(e, c)

\* Every thread that has begun an operation goes on with it; nobody has to begin
\* one, and a worker need not take a request from the queue.
RuntimeFairness ==
    /\ \A a \in Admins : WF_vars(Administer(a))
    /\ \A t \in Stoppers : WF_vars(Unwind(t))
    /\ \A c \in Callers : WF_vars(Call(c))
    /\ \A e \in Execs : WF_vars(Work(e))

RuntimeSpec == RuntimeInit /\ [][RuntimeNext]_vars /\ RuntimeFairness

----------------------------------------------------------------------------
(* Properties *)

ExecStates == [life : {"unused", "running", "stopping", "stopped", "destroyed"},
               model : Models \cup {None}, meta : Metas \cup {None}]
CallerStates == [at : {"idle", "enter", "push", "leave", "done"},
                 model : Models \cup {None}, exec : Execs \cup {None}]
AdminStates == [at : {"idle", "lookup", "replace", "register", "finish", "start", "emplace",
                      "stop"},
                model : Models \cup {None}, meta : Metas \cup {None}]

\* Of the program's state; reloaded is only a history.
TypeOK ==
    /\ registry \in [Models -> Metas \cup {None}]
    /\ meta \in [Metas -> {"unused", "Loading", "Ready", "Failed", "freed"}]
    /\ executors \in [Models -> Execs \cup {None}]
    /\ stopped \in BOOLEAN
    /\ exec \in [Execs -> ExecStates]
    /\ queue \in [Execs -> SUBSET Callers]
    /\ working \in [Execs -> SUBSET Callers]
    /\ answer \in [Callers -> {"none", "ok", "error", "broken"}]
    /\ caller \in [Callers -> CallerStates]
    /\ admin \in [Admins -> AdminStates]
    /\ owner \in {"loading", "serving", "stop", "returned", "members", "destroyed"}
    /\ held \in [Stoppers -> SUBSET Execs]

\* The executor a call is inside of exists until the call has left it, whoever
\* unregisters the model or shuts the runtime down meanwhile (runtime.cpp:79-95).
CallsKeepExecutors ==
    \A c \in Callers : caller[c].at \in {"enter", "push", "leave"} => Alive(caller[c].exec)

\* No raw pointer to metadata is followed after its object is gone: by the workers of
\* an executor or a call that is entering it, by a loader or by register_model
\* (model_executor.cpp:51 and 88-131, model_repository.cpp:62-75, runtime.cpp:39).
NoDangling ==
    /\ \A e \in Execs : exec[e].life \in {"running", "stopping"} => meta[exec[e].meta] # "freed"
    /\ \A c \in Callers :
          caller[c].at = "enter" => meta[exec[caller[c].exec].meta] # "freed"
    /\ \A a \in Admins : admin[a].at \in {"finish", "start"} => meta[admin[a].meta] # "freed"

\* So it is in a server that loads its models the way main does, all before the runtime
\* is made (main.cpp:240-260), up to the end of main or to the first reload.
ValidUntilReload == ~reloaded => NoDangling

\* Once unregister_model(m) or shutdown has returned and nobody is registering m
\* or stopping it, no worker thread of any executor of m is left
\* (runtime.cpp:59 and 107).
Quiet ==
    \A m \in Models :
        (/\ executors[m] = None
         /\ owner \notin {"stop", "members"}
         /\ \A a \in Admins : admin[a].model # m)
            => \A e \in Execs : exec[e].model = m => exec[e].life \notin {"running", "stopping"}

\* A call that was made is answered, or its promise is broken, after shutdown has
\* returned, even if the workers never looked at the queue again: nothing waits
\* for ever on a future of a runtime that is down (runtime.cpp:98-109).  (A
\* shutdown that has returned and a call that was made stay so: what holds again
\* and again of them is what they lead to.)
ResolvedByShutdown ==
    \A c \in Callers :
        []<>(owner \in {"returned", "members", "destroyed"} /\ caller[c].at # "idle"
                => answer[c] # "none")

=============================================================================

--------------------------- MODULE RuntimeProofs ---------------------------
(***************************************************************************)
(* Proofs about the life of executors and metadata in the runtime, for any *)
(* number of models, loads, registrations, calls and administrators.       *)
(***************************************************************************)
EXTENDS Runtime, TLAPS

\* The executor has worker threads.
Busy(e) == exec[e].life \in {"running", "stopping"}

\* A thread that administers works on a name, and with a metadata pointer.
AdminInv == \A a \in Admins :
    /\ admin[a].at = "idle" <=> admin[a].model = None
    /\ admin[a].at \in {"lookup", "replace", "register", "finish", "start", "emplace"} =>
          admin[a].meta \in Metas

\* When main destroys the members, nothing else is under way.
OwnerInv == owner \in {"members", "destroyed"} =>
    /\ \A m \in Models : executors[m] = None
    /\ \A a \in Admins : admin[a].at = "idle"
    /\ \A c \in Callers : caller[c].at \in {"idle", "done"}

\* What executors_ refers to runs, under its own name.
TableInv == \A m \in Models : executors[m] # None =>
    exec[executors[m]].life = "running" /\ exec[executors[m]].model = m

\* An executor that is to be stopped is in one thread's hands and no longer in executors_.
HeldInv == \A t \in Stoppers :
    /\ \A e \in held[t] : /\ Alive(e)
                          /\ \A m \in Models : executors[m] # e
                          /\ \A u \in Stoppers : e \in held[u] => u = t
    /\ t = Owner /\ held[t] # {} => owner \in {"stop", "members"}
    /\ t \in Admins => /\ held[t] # {} => admin[t].at \in {"emplace", "stop"}
                       /\ \A e \in held[t] : exec[e].model = admin[t].model
                       /\ admin[t].at = "emplace" =>
                             \E e \in Execs : held[t] = {e} /\ exec[e].life = "running"

\* Somebody is responsible for every executor that has workers.
BusyInv == \A e \in Execs : Busy(e) =>
    /\ exec[e].model \in Models
    /\ executors[exec[e].model] = e \/ \E t \in Stoppers : e \in held[t]

\* A call keeps the executor it is in alive.
CallerInv == \A c \in Callers :
    /\ caller[c].at \in {"enter", "push", "leave"} => caller[c].exec \in Execs /\ Alive(caller[c].exec)
    /\ caller[c].at \in {"idle", "done"} => caller[c].exec = None

IndInv == TypeOK /\ AdminInv /\ OwnerInv /\ TableInv /\ HeldInv /\ BusyInv /\ CallerInv

----------------------------------------------------------------------------
(* What the record updates of the model do.                                 *)

(* Names, metadata, executors and threads are different things. *)
LEMMA Kinds ==
  /\ None \notin Models /\ None \notin Metas /\ None \notin Execs
  /\ \A a \in Admins : a \in Stoppers /\ a # Owner
  /\ Owner \in Stoppers
  /\ \A t \in Stoppers : t = Owner \/ t \in Admins
  BY RuntimeAssumption, HoldersAssumption DEF Stoppers

(* An administering thread goes to its next step. *)
LEMMA AdminMoves ==
  ASSUME TypeOK, NEW a \in Admins,
         NEW to \in {"idle", "lookup", "replace", "register", "finish", "start", "emplace", "stop"},
         Move(a, to)
  PROVE  /\ admin' \in [Admins -> AdminStates]
         /\ \A b \in Admins : b # a => admin'[b] = admin[b]
         /\ admin'[a].at = to /\ admin'[a].model = admin[a].model /\ admin'[a].meta = admin[a].meta
<1>1. admin \in [Admins -> AdminStates] /\ admin' = [admin EXCEPT ![a].at = to]
  BY DEF TypeOK, Move
<1>2. admin' = [admin EXCEPT ![a] = [admin[a] EXCEPT !.at = to]]
  BY <1>1
<1>3. [admin[a] EXCEPT !.at = to] \in AdminStates
  BY <1>1 DEF AdminStates
<1> QED BY <1>1, <1>2, <1>3 DEF AdminStates

(* An administering thread begins or ends an operation. *)
LEMMA AdminSet ==
  ASSUME TypeOK, NEW a \in Admins,
         NEW to \in {"idle", "lookup", "replace", "register", "finish", "start", "emplace", "stop"},
         NEW m \in Models \cup {None}, NEW d \in Metas \cup {None},
         admin' = [admin EXCEPT ![a] = [at |-> to, model |-> m, meta |-> d]]
  PROVE  /\ admin' \in [Admins -> AdminStates]
         /\ \A b \in Admins : b # a => admin'[b] = admin[b]
         /\ admin'[a].at = to /\ admin'[a].model = m /\ admin'[a].meta = d
<1>1. [at |-> to, model |-> m, meta |-> d] \in AdminStates
  BY DEF AdminStates
<1> QED BY <1>1 DEF TypeOK

(* A caller goes to its next step. *)
LEMMA CallerMoves ==
  ASSUME TypeOK, NEW c \in Callers, NEW to \in {"idle", "enter", "push", "leave", "done"},
         caller' = [caller EXCEPT ![c].at = to]
  PROVE  /\ caller' \in [Callers -> CallerStates]
         /\ \A b \in Callers : b # c => caller'[b] = caller[b]
         /\ caller'[c].at = to /\ caller'[c].model = caller[c].model
         /\ caller'[c].exec = caller[c].exec
<1>1. caller \in [Callers -> CallerStates]
  BY DEF TypeOK
<1>2. caller' = [caller EXCEPT ![c] = [caller[c] EXCEPT !.at = to]]
  BY <1>1
<1>3. [caller[c] EXCEPT !.at = to] \in CallerStates
  BY <1>1 DEF CallerStates
<1> QED BY <1>1, <1>2, <1>3 DEF CallerStates

(* Only the life of one executor changes. *)
LEMMA LifeMoves ==
  ASSUME TypeOK, NEW e \in Execs,
         NEW to \in {"unused", "running", "stopping", "stopped", "destroyed"},
         exec' = [exec EXCEPT ![e].life = to]
  PROVE  /\ exec' \in [Execs -> ExecStates]
         /\ \A x \in Execs : x # e => exec'[x] = exec[x]
         /\ exec'[e].life = to /\ exec'[e].model = exec[e].model /\ exec'[e].meta = exec[e].meta
<1>1. exec \in [Execs -> ExecStates]
  BY DEF TypeOK
<1>2. exec' = [exec EXCEPT ![e] = [exec[e] EXCEPT !.life = to]]
  BY <1>1
<1>3. [exec[e] EXCEPT !.life = to] \in ExecStates
  BY <1>1 DEF ExecStates
<1> QED BY <1>1, <1>2, <1>3 DEF ExecStates

(* Destroying the last reference: only the executor's life changes, and only *)
(* if nobody else refers to it.                                              *)
LEMMA Dropped ==
  ASSUME TypeOK, NEW e \in Execs, NEW h, Drop(e, h)
  PROVE  /\ exec' \in [Execs -> ExecStates]
         /\ answer' \in [Callers -> {"none", "ok", "error", "broken"}]
         /\ queue' \in [Execs -> SUBSET Callers]
         /\ \A x \in Execs : /\ x # e => exec'[x] = exec[x]
                             /\ exec'[x].model = exec[x].model /\ exec'[x].meta = exec[x].meta
         /\ \/ exec'[e].life = exec[e].life
            \/ exec'[e].life = "destroyed" /\ Refs(e) \subseteq {h}
<1> DEFINE last == Refs(e) \subseteq {h}
           to == IF last THEN "destroyed" ELSE exec[e].life
<1>1. exec \in [Execs -> ExecStates] /\ exec' = [exec EXCEPT ![e].life = to]
  BY DEF TypeOK, Drop
<1>2. to \in {"unused", "running", "stopping", "stopped", "destroyed"}
  BY <1>1 DEF ExecStates
<1> HIDE DEF to
<1>3. /\ exec' \in [Execs -> ExecStates]
      /\ \A x \in Execs : x # e => exec'[x] = exec[x]
      /\ exec'[e].life = to /\ exec'[e].model = exec[e].model /\ exec'[e].meta = exec[e].meta
  BY <1>1, <1>2, LifeMoves
<1>4. answer' \in [Callers -> {"none", "ok", "error", "broken"}]
  BY DEF TypeOK, Drop
<1>5. queue' \in [Execs -> SUBSET Callers]
  BY DEF TypeOK, Drop
<1> QED BY <1>3, <1>4, <1>5 DEF to
(* An empty runtime satisfies the invariant. *)
LEMMA InitInv == RuntimeInit => IndInv
<1> SUFFICES ASSUME RuntimeInit PROVE IndInv
  OBVIOUS
<1>1. /\ \A m \in Models : registry[m] = None /\ executors[m] = None
      /\ \A e \in Execs : exec[e].life = "unused"
      /\ \A c \in Callers : caller[c].at = "idle" /\ caller[c].exec = None
      /\ \A a \in Admins : admin[a].at = "idle" /\ admin[a].model = None
      /\ \A t \in Stoppers : held[t] = {}
      /\ owner = "loading"
  BY DEF RuntimeInit
<1>2. TypeOK
  <2>1. exec \in [Execs -> ExecStates]
    BY DEF RuntimeInit, ExecStates
  <2>2. caller \in [Callers -> CallerStates]
    BY DEF RuntimeInit, CallerStates
  <2>3. admin \in [Admins -> AdminStates]
    BY DEF RuntimeInit, AdminStates
  <2>4. /\ registry \in [Models -> Metas \cup {None}] /\ executors \in [Models -> Execs \cup {None}]
        /\ meta \in [Metas -> {"unused", "Loading", "Ready", "Failed", "freed"}]
        /\ answer \in [Callers -> {"none", "ok", "error", "broken"}]
    BY DEF RuntimeInit
  <2>5. /\ queue \in [Execs -> SUBSET Callers] /\ working \in [Execs -> SUBSET Callers]
        /\ held \in [Stoppers -> SUBSET Execs]
    BY DEF RuntimeInit
  <2>6. /\ stopped \in BOOLEAN
        /\ owner \in {"loading", "serving", "stop", "returned", "members", "destroyed"}
    BY DEF RuntimeInit
  <2> QED BY <2>1, <2>2, <2>3, <2>4, <2>5, <2>6 DEF TypeOK
<1>3. AdminInv /\ OwnerInv /\ TableInv
  BY <1>1 DEF AdminInv, OwnerInv, TableInv
<1>4. HeldInv
  BY <1>1 DEF HeldInv
<1>5. BusyInv /\ CallerInv
  BY <1>1 DEF BusyInv, Busy, CallerInv
<1> QED BY <1>2, <1>3, <1>4, <1>5 DEF IndInv

(* The queues, the workers' hands and the futures are nobody's concern here. *)
LEMMA InertStep ==
  ASSUME IndInv, UNCHANGED <<registry, meta, executors, exec, caller, admin, owner, held>>,
         stopped' \in BOOLEAN,
         queue' \in [Execs -> SUBSET Callers], working' \in [Execs -> SUBSET Callers],
         answer' \in [Callers -> {"none", "ok", "error", "broken"}]
  PROVE  IndInv'
<1>1. TypeOK' /\ AdminInv' /\ OwnerInv' /\ TableInv'
  BY DEF IndInv, TypeOK, AdminInv, OwnerInv, TableInv
<1>2. HeldInv' /\ BusyInv'
  BY DEF IndInv, HeldInv, Alive, BusyInv, Busy
<1>3. CallerInv'
  BY DEF IndInv, CallerInv, Alive
<1> QED BY <1>1, <1>2, <1>3 DEF IndInv

(* What a step that leaves the executors alone leaves alone with them.       *)
LEMMA ExecutorsKept ==
  ASSUME IndInv, UNCHANGED <<executors, exec, held>>
  PROVE  TableInv' /\ \A e : (Busy(e)' <=> Busy(e)) /\ (Alive(e)' <=> Alive(e))
  BY DEF IndInv, TableInv, Busy, Alive

(* The scan is over. *)
LEMMA ServeStep == ASSUME IndInv, Serve PROVE IndInv'
<1>1. /\ owner = "loading" /\ owner' = "serving"
      /\ UNCHANGED <<registry, meta, executors, stopped, exec, queue, working, answer, caller, admin,
                     held>>
  BY DEF Serve, shared, execution
<1>2. TableInv' /\ \A e : (Busy(e)' <=> Busy(e)) /\ (Alive(e)' <=> Alive(e))
  BY <1>1, ExecutorsKept
<1>3. TypeOK' /\ AdminInv' /\ OwnerInv'
  BY <1>1 DEF IndInv, TypeOK, AdminInv, OwnerInv
<1>4. HeldInv'
  BY <1>1, <1>2 DEF IndInv, HeldInv
<1>5. BusyInv' /\ CallerInv'
  BY <1>1, <1>2 DEF IndInv, BusyInv, CallerInv
<1> QED BY <1>2, <1>3, <1>4, <1>5 DEF IndInv

----------------------------------------------------------------------------
(* load_model, and register_model before it has made an executor.            *)

(* A thread that holds no executor takes a step that concerns only metadata. *)
LEMMA AdminOnlyStep ==
  ASSUME IndInv, NEW a \in Admins, admin[a].at \notin {"emplace", "stop"},
         owner \notin {"members", "destroyed"},
         UNCHANGED <<executors, stopped, exec, queue, working, answer, caller, owner, held>>,
         registry' \in [Models -> Metas \cup {None}],
         meta' \in [Metas -> {"unused", "Loading", "Ready", "Failed", "freed"}],
         admin' \in [Admins -> AdminStates],
         \A b \in Admins : b # a => admin'[b] = admin[b],
         AdminInv!(a)', admin'[a].at \notin {"emplace", "stop"}
  PROVE  IndInv'
<1>1. TableInv' /\ \A e : (Busy(e)' <=> Busy(e)) /\ (Alive(e)' <=> Alive(e))
  BY ExecutorsKept
<1>2. TypeOK'
  BY DEF IndInv, TypeOK
<1>3. AdminInv'
  <2> SUFFICES ASSUME NEW b \in Admins, b # a PROVE AdminInv!(b)'
    BY DEF AdminInv
  <2> QED BY DEF IndInv, AdminInv
<1>4. OwnerInv'
  BY DEF OwnerInv
<1>5. HeldInv'
  <2>1. held[a] = {}
    BY Kinds DEF IndInv, HeldInv
  <2> QED BY <1>1, <2>1 DEF IndInv, HeldInv
<1>6. BusyInv' /\ CallerInv'
  BY <1>1 DEF IndInv, BusyInv, CallerInv
<1> QED BY <1>1, <1>2, <1>3, <1>4, <1>5, <1>6 DEF IndInv

(* What an administering thread is entitled to, from its control state. *)
LEMMA AdminActs ==
  ASSUME IndInv, NEW a \in Admins, admin[a].at # "idle"
  PROVE  /\ owner \notin {"members", "destroyed"}
         /\ admin[a].model \in Models /\ admin[a].model # None
         /\ admin[a].at # "stop" => admin[a].meta \in Metas
<1>1. admin[a] \in AdminStates
  BY DEF IndInv, TypeOK
<1> QED BY <1>1, Kinds DEF IndInv, OwnerInv, AdminInv, AdminStates

(* load_model makes a fresh metadata object. *)
LEMMA LoadStep ==
  ASSUME IndInv, NEW a \in Admins, NEW m \in Models, Load(a, m) PROVE IndInv'
<1>1. /\ owner \notin {"members", "destroyed"} /\ admin[a].at = "idle"
      /\ UNCHANGED <<registry, executors, stopped, exec, queue, working, answer, caller, owner, held>>
  BY DEF Load, MayLoad, execution
<1>2. PICK d \in Metas :
         /\ meta' = [meta EXCEPT ![d] = "Loading"]
         /\ admin' = [admin EXCEPT ![a] = [at |-> "lookup", model |-> m, meta |-> d]]
  BY DEF Load, Fresh
<1>3. /\ admin' \in [Admins -> AdminStates]
      /\ \A b \in Admins : b # a => admin'[b] = admin[b]
      /\ admin'[a].at = "lookup" /\ admin'[a].model = m /\ admin'[a].meta = d
  BY <1>2, AdminSet DEF IndInv
<1>4. /\ meta' \in [Metas -> {"unused", "Loading", "Ready", "Failed", "freed"}]
      /\ registry' \in [Models -> Metas \cup {None}]
  BY <1>1, <1>2 DEF IndInv, TypeOK
<1>5. AdminInv!(a)'
  BY <1>3, Kinds
<1> QED BY <1>1, <1>3, <1>4, <1>5, AdminOnlyStep

(* load_model looks whether the name is taken. *)
LEMMA LoadLooksUpStep ==
  ASSUME IndInv, NEW a \in Admins, LoadLooksUp(a) PROVE IndInv'
<1> DEFINE to == IF registry[admin[a].model] # None THEN "replace" ELSE "register"
<1>1. /\ admin[a].at = "lookup" /\ Move(a, to)
      /\ UNCHANGED <<registry, meta, executors, stopped, exec, queue, working, answer, caller, owner,
                     held>>
  BY DEF LoadLooksUp, shared, execution
<1>2. to \in {"replace", "register"}
  OBVIOUS
<1> HIDE DEF to
<1>3. /\ admin' \in [Admins -> AdminStates]
      /\ \A b \in Admins : b # a => admin'[b] = admin[b]
      /\ admin'[a].at = to /\ admin'[a].model = admin[a].model /\ admin'[a].meta = admin[a].meta
  BY <1>1, <1>2, AdminMoves DEF IndInv
<1>4. owner \notin {"members", "destroyed"} /\ admin[a].model # None /\ admin[a].meta \in Metas
  BY <1>1, AdminActs
<1>5. AdminInv!(a)'
  BY <1>2, <1>3, <1>4
<1>6. /\ meta' \in [Metas -> {"unused", "Loading", "Ready", "Failed", "freed"}]
      /\ registry' \in [Models -> Metas \cup {None}]
  BY <1>1 DEF IndInv, TypeOK
<1> QED BY <1>1, <1>2, <1>3, <1>4, <1>5, <1>6, AdminOnlyStep

(* load_model erases what the registry has under the name. *)
LEMMA LoadReplacesStep ==
  ASSUME IndInv, NEW a \in Admins, LoadReplaces(a) PROVE IndInv'
<1>1. /\ admin[a].at = "replace" /\ Move(a, "register")
      /\ UNCHANGED <<executors, stopped, exec, queue, working, answer, caller, owner, held>>
  BY DEF LoadReplaces, execution
<1>2. /\ admin' \in [Admins -> AdminStates]
      /\ \A b \in Admins : b # a => admin'[b] = admin[b]
      /\ admin'[a].at = "register" /\ admin'[a].model = admin[a].model
      /\ admin'[a].meta = admin[a].meta
  BY <1>1, AdminMoves DEF IndInv
<1>3. owner \notin {"members", "destroyed"} /\ admin[a].model # None /\ admin[a].meta \in Metas
  BY <1>1, AdminActs
<1>4. AdminInv!(a)'
  BY <1>2, <1>3
<1>5. meta' \in [Metas -> {"unused", "Loading", "Ready", "Failed", "freed"}]
  BY DEF LoadReplaces, IndInv, TypeOK
<1>6. registry' \in [Models -> Metas \cup {None}]
  BY DEF LoadReplaces, IndInv, TypeOK
<1> QED BY <1>1, <1>2, <1>3, <1>4, <1>5, <1>6, AdminOnlyStep

(* register_model of the registry takes the new metadata, or drops it. *)
LEMMA LoadRegistersStep ==
  ASSUME IndInv, NEW a \in Admins, LoadRegisters(a) PROVE IndInv'
<1>1. /\ admin[a].at = "register"
      /\ UNCHANGED <<executors, stopped, exec, queue, working, answer, caller, owner, held>>
  BY DEF LoadRegisters, execution
<1>2. /\ owner \notin {"members", "destroyed"} /\ admin[a].model \in Models
      /\ admin[a].model # None /\ admin[a].meta \in Metas
  BY <1>1, AdminActs
<1>3. CASE /\ registry' = [registry EXCEPT ![admin[a].model] = admin[a].meta]
           /\ Move(a, "finish") /\ UNCHANGED meta
  <2>1. /\ admin' \in [Admins -> AdminStates]
        /\ \A b \in Admins : b # a => admin'[b] = admin[b]
        /\ admin'[a].at = "finish" /\ admin'[a].model = admin[a].model
        /\ admin'[a].meta = admin[a].meta
    BY <1>3, AdminMoves DEF IndInv
  <2>2. AdminInv!(a)'
    BY <1>2, <2>1
  <2>3. registry' \in [Models -> Metas \cup {None}]
    BY <1>2, <1>3 DEF IndInv, TypeOK
  <2>4. meta' \in [Metas -> {"unused", "Loading", "Ready", "Failed", "freed"}]
    BY <1>3 DEF IndInv, TypeOK
  <2> QED BY <1>1, <1>2, <2>1, <2>2, <2>3, <2>4, AdminOnlyStep
<1>4. CASE meta' = [meta EXCEPT ![admin[a].meta] = "freed"] /\ Idle(a) /\ UNCHANGED registry
  <2>1. /\ admin' \in [Admins -> AdminStates]
        /\ \A b \in Admins : b # a => admin'[b] = admin[b]
        /\ admin'[a].at = "idle" /\ admin'[a].model = None
    BY <1>4, AdminSet DEF IndInv, Idle
  <2>2. AdminInv!(a)'
    BY <2>1
  <2>3. registry' \in [Models -> Metas \cup {None}]
    BY <1>4 DEF IndInv, TypeOK
  <2>4. meta' \in [Metas -> {"unused", "Loading", "Ready", "Failed", "freed"}]
    BY <1>2, <1>4 DEF IndInv, TypeOK
  <2> QED BY <1>1, <1>2, <2>1, <2>2, <2>3, <2>4, AdminOnlyStep
<1> QED BY <1>3, <1>4 DEF LoadRegisters

(* The backend has loaded the model, or has failed; or main's register_model *)
(* finds that the metadata is not Ready.                                     *)
LEMMA LoadFinishesStep ==
  ASSUME IndInv, NEW a \in Admins, LoadFinishes(a) \/ RegisterRefuses(a) PROVE IndInv'
<1>1. /\ admin[a].at \in {"finish", "start"} /\ Idle(a)
      /\ UNCHANGED <<registry, executors, stopped, exec, queue, working, answer, caller, owner, held>>
  BY DEF LoadFinishes, RegisterRefuses, shared, execution
<1>2. owner \notin {"members", "destroyed"} /\ admin[a].meta \in Metas
  BY <1>1, AdminActs
<1>3. /\ admin' \in [Admins -> AdminStates]
      /\ \A b \in Admins : b # a => admin'[b] = admin[b]
      /\ admin'[a].at = "idle" /\ admin'[a].model = None
  BY <1>1, AdminSet DEF IndInv, Idle
<1>4. AdminInv!(a)'
  BY <1>3
<1>5. registry' \in [Models -> Metas \cup {None}]
  BY <1>1 DEF IndInv, TypeOK
<1>6. meta' \in [Metas -> {"unused", "Loading", "Ready", "Failed", "freed"}]
  <2>1. CASE LoadFinishes(a)
    BY <1>2, <2>1 DEF LoadFinishes, IndInv, TypeOK
  <2>2. CASE RegisterRefuses(a)
    BY <2>2 DEF RegisterRefuses, shared, IndInv, TypeOK
  <2> QED BY <2>1, <2>2
<1> QED BY <1>1, <1>2, <1>3, <1>4, <1>5, <1>6, AdminOnlyStep

----------------------------------------------------------------------------
(* register_model.                                                           *)

(* main turns to a model that is registered. *)
LEMMA RegisterStep ==
  ASSUME IndInv, NEW a \in Admins, NEW m \in Models, Register(a, m) PROVE IndInv'
<1>1. /\ owner \notin {"members", "destroyed"} /\ admin[a].at = "idle"
      /\ registry[m] # None
      /\ admin' = [admin EXCEPT ![a] = [at |-> "start", model |-> m, meta |-> registry[m]]]
      /\ UNCHANGED <<registry, meta, executors, stopped, exec, queue, working, answer, caller, owner,
                     held>>
  BY DEF Register, Up, shared, execution
<1>2. registry[m] \in Metas
  BY <1>1 DEF IndInv, TypeOK
<1>3. /\ admin' \in [Admins -> AdminStates]
      /\ \A b \in Admins : b # a => admin'[b] = admin[b]
      /\ admin'[a].at = "start" /\ admin'[a].model = m /\ admin'[a].meta = registry[m]
  BY <1>1, <1>2, AdminSet DEF IndInv
<1>4. AdminInv!(a)'
  BY <1>2, <1>3, Kinds
<1>5. /\ meta' \in [Metas -> {"unused", "Loading", "Ready", "Failed", "freed"}]
      /\ registry' \in [Models -> Metas \cup {None}]
  BY <1>1 DEF IndInv, TypeOK
<1> QED BY <1>1, <1>3, <1>4, <1>5, AdminOnlyStep

(* register_model builds an executor and starts its workers. *)
LEMMA RegisterStartsStep ==
  ASSUME IndInv, NEW a \in Admins, RegisterStarts(a) PROVE IndInv'
<1> DEFINE m == admin[a].model
           d == admin[a].meta
<1>1. /\ admin[a].at = "start" /\ Move(a, "emplace")
      /\ UNCHANGED <<registry, meta, executors, stopped, queue, working, answer, caller, owner>>
  BY DEF RegisterStarts, shared
<1>2. PICK e \in Execs :
         /\ exec[e].life = "unused"
         /\ exec' = [exec EXCEPT ![e] = [life |-> "running", model |-> m, meta |-> d]]
         /\ held' = [held EXCEPT ![a] = {e}]
  BY DEF RegisterStarts, Fresh
<1>3. m \in Models /\ d \in Metas
  <2>1. /\ admin[a].model \in Models \cup {None} /\ admin[a].model # None
    BY <1>1 DEF IndInv, TypeOK, AdminStates, AdminInv
  <2> QED BY <1>1, <2>1 DEF IndInv, AdminInv
<1>4. /\ admin' \in [Admins -> AdminStates]
      /\ \A b \in Admins : b # a => admin'[b] = admin[b]
      /\ admin'[a].at = "emplace" /\ admin'[a].model = m /\ admin'[a].meta = d
  BY <1>1, AdminMoves DEF IndInv
<1>5. /\ exec' \in [Execs -> ExecStates]
      /\ \A x \in Execs : x # e => exec'[x] = exec[x]
      /\ exec'[e].life = "running" /\ exec'[e].model = m /\ exec'[e].meta = d
  <2>1. [life |-> "running", model |-> m, meta |-> d] \in ExecStates
    BY <1>3 DEF ExecStates
  <2> QED BY <1>2, <2>1 DEF IndInv, TypeOK
<1>6. /\ held' \in [Stoppers -> SUBSET Execs]
      /\ \A t \in Stoppers : held'[t] = IF t = a THEN {e} ELSE held[t]
  BY <1>2, Kinds DEF IndInv, TypeOK
<1>7. /\ \A x \in Execs : x # e => (Busy(x)' <=> Busy(x)) /\ (Alive(x)' <=> Alive(x))
      /\ Busy(e)' /\ Alive(e)' /\ ~Busy(e) /\ ~Alive(e)
  BY <1>2, <1>5 DEF Busy, Alive
<1>8. /\ \A n \in Models : executors[n] # e
      /\ \A t \in Stoppers : e \notin held[t]
      /\ \A c \in Callers : caller[c].at \in {"enter", "push", "leave"} => caller[c].exec # e
      /\ held[a] = {}
  <2>1. \A n \in Models : executors[n] # e
    BY <1>2, Kinds DEF IndInv, TableInv
  <2>2. \A t \in Stoppers : e \notin held[t]
    BY <1>7 DEF IndInv, HeldInv
  <2>3. \A c \in Callers : caller[c].at \in {"enter", "push", "leave"} => caller[c].exec # e
    BY <1>7 DEF IndInv, CallerInv
  <2>4. held[a] = {}
    BY <1>1, Kinds DEF IndInv, HeldInv
  <2> QED BY <2>1, <2>2, <2>3, <2>4
<1> HIDE DEF m, d
<1>9. TypeOK'
  BY <1>1, <1>4, <1>5, <1>6 DEF IndInv, TypeOK
<1>10. AdminInv'
  BY <1>1, <1>3, <1>4 DEF IndInv, AdminInv, m
<1>11. OwnerInv'
  BY <1>1 DEF IndInv, OwnerInv
<1>12. TableInv'
  BY <1>1, <1>5, <1>8 DEF IndInv, TypeOK, TableInv
<1>13. HeldInv'
  <2> SUFFICES ASSUME NEW t \in Stoppers PROVE HeldInv!(t)'
    BY DEF HeldInv
  <2>1. HeldInv!(t)
    BY DEF IndInv, HeldInv
  <2>2. CASE t = a
    BY <1>1, <1>4, <1>5, <1>6, <1>7, <1>8, <2>2, Kinds
  <2>3. CASE t # a
    <3>1. \A x \in held[t] : x \in Execs /\ x # e
      BY <1>8 DEF IndInv, TypeOK
    <3>2. held'[t] = held[t] /\ (t \in Admins => admin'[t] = admin[t])
      BY <1>4, <1>6, <2>3
    <3>3. admin[t].at = "emplace" /\ t \in Admins =>
             \E x \in Execs : held[t] = {x} /\ exec'[x].life = "running"
      BY <1>5, <2>1, <3>1
    <3> QED BY <1>1, <1>5, <1>6, <1>7, <2>1, <2>3, <3>1, <3>2, <3>3
  <2> QED BY <2>2, <2>3
<1>14. BusyInv'
  <2> SUFFICES ASSUME NEW x \in Execs, Busy(x)' PROVE BusyInv!(x)!2'
    BY DEF BusyInv
  <2>1. CASE x = e
    BY <1>1, <1>3, <1>5, <1>6, <2>1, Kinds
  <2>2. CASE x # e
    <3>1. Busy(x) /\ exec'[x] = exec[x]
      BY <1>5, <1>7, <2>2
    <3>2. BusyInv!(x)!2
      BY <3>1 DEF IndInv, BusyInv
    <3>3. \A t \in Stoppers : x \in held[t] => x \in held'[t]
      BY <1>6, <1>8
    <3> QED BY <1>1, <3>1, <3>2, <3>3
  <2> QED BY <2>1, <2>2
<1>15. CallerInv'
  BY <1>1, <1>5, <1>7, <1>8 DEF IndInv, CallerInv
<1> QED BY <1>9, <1>10, <1>11, <1>12, <1>13, <1>14, <1>15 DEF IndInv

(* Another executor has the name: the new one will be stopped. *)
LEMMA RegisterCollides ==
  ASSUME IndInv, NEW a \in Admins, admin[a].at = "emplace", Move(a, "stop"),
         UNCHANGED <<registry, meta, executors, stopped, exec, queue, working, answer, caller, owner,
                     held>>
  PROVE  IndInv'
<1>1. /\ admin' \in [Admins -> AdminStates]
      /\ \A b \in Admins : b # a => admin'[b] = admin[b]
      /\ admin'[a].at = "stop" /\ admin'[a].model = admin[a].model
  BY AdminMoves DEF IndInv
<1>2. TableInv' /\ \A e : (Busy(e)' <=> Busy(e)) /\ (Alive(e)' <=> Alive(e))
  BY ExecutorsKept
<1>3. TypeOK'
  BY <1>1 DEF IndInv, TypeOK
<1>4. AdminInv'
  BY <1>1 DEF IndInv, AdminInv
<1>5. OwnerInv'
  BY DEF IndInv, OwnerInv
<1>6. HeldInv'
  <2>1. \A b \in Admins : admin'[b].model = admin[b].model
    BY <1>1
  <2> QED BY <1>1, <1>2, <2>1 DEF IndInv, HeldInv
<1>7. BusyInv' /\ CallerInv'
  BY <1>2 DEF IndInv, BusyInv, CallerInv
<1> QED BY <1>2, <1>3, <1>4, <1>5, <1>6, <1>7 DEF IndInv

(* The new executor becomes the one of its name. *)
LEMMA RegisterPublishes ==
  ASSUME IndInv, NEW a \in Admins, admin[a].at = "emplace", executors[admin[a].model] = None,
         executors' = [executors EXCEPT ![admin[a].model] = CHOOSE e \in held[a] : TRUE],
         held' = [held EXCEPT ![a] = {}], Idle(a),
         UNCHANGED <<registry, meta, stopped, exec, queue, working, answer, caller, owner>>
  PROVE  IndInv'
<1> DEFINE m == admin[a].model
<1>1. m \in Models
  BY DEF IndInv, TypeOK, AdminStates, AdminInv
<1>2. PICK e \in Execs : held[a] = {e} /\ exec[e].life = "running"
  BY Kinds DEF IndInv, HeldInv
<1>3. /\ executors' \in [Models -> Execs \cup {None}]
      /\ \A n \in Models : executors'[n] = IF n = m THEN e ELSE executors[n]
  BY <1>1, <1>2 DEF IndInv, TypeOK
<1>4. /\ held' \in [Stoppers -> SUBSET Execs]
      /\ \A t \in Stoppers : held'[t] = IF t = a THEN {} ELSE held[t]
  BY Kinds DEF IndInv, TypeOK
<1>5. /\ admin' \in [Admins -> AdminStates]
      /\ \A b \in Admins : b # a => admin'[b] = admin[b]
      /\ admin'[a].at = "idle" /\ admin'[a].model = None
  <2>1. admin' = [admin EXCEPT ![a] = [at |-> "idle", model |-> None, meta |-> None]]
    BY DEF Idle
  <2>2. TypeOK /\ None \in Models \cup {None} /\ None \in Metas \cup {None}
    BY DEF IndInv
  <2> QED BY <2>1, <2>2, AdminSet, ZenonT(60)
<1>6. \A x : (Busy(x)' <=> Busy(x)) /\ (Alive(x)' <=> Alive(x))
  BY DEF Busy, Alive
<1>7. exec[e].model = m /\ \A t \in Stoppers : t # a => e \notin held[t]
  BY <1>2, Kinds DEF IndInv, HeldInv
<1> HIDE DEF m
<1>8. TypeOK'
  BY <1>3, <1>4, <1>5 DEF IndInv, TypeOK
<1>9. AdminInv'
  <2>1. \A b \in Admins : b # a => (admin[b].model = None <=> admin[b].at = "idle")
    BY DEF IndInv, AdminInv
  <2> QED BY <1>5, <2>1 DEF IndInv, AdminInv
<1>10. OwnerInv'
  <2>1. owner \notin {"members", "destroyed"}
    BY DEF IndInv, OwnerInv
  <2> QED BY <2>1 DEF OwnerInv
<1>11. TableInv'
  BY <1>2, <1>3, <1>7 DEF IndInv, TableInv
<1>12. HeldInv'
  <2> SUFFICES ASSUME NEW t \in Stoppers PROVE HeldInv!(t)'
    BY DEF HeldInv
  <2>1. HeldInv!(t)
    BY DEF IndInv, HeldInv
  <2>2. CASE t = a
    BY <1>4, <1>5, <2>2, Kinds
  <2>3. CASE t # a
    <3>1. held'[t] = held[t] /\ e \notin held[t] /\ (t \in Admins => admin'[t] = admin[t])
      BY <1>4, <1>5, <1>7, <2>3
    <3> QED BY <1>3, <1>4, <1>6, <2>1, <2>3, <3>1
  <2> QED BY <2>2, <2>3
<1>13. BusyInv'
  <2> SUFFICES ASSUME NEW x \in Execs, Busy(x)' PROVE BusyInv!(x)!2'
    BY DEF BusyInv
  <2>1. BusyInv!(x)!2
    BY <1>6 DEF IndInv, BusyInv
  <2>2. CASE x = e
    BY <1>1, <1>3, <1>7, <2>1, <2>2
  <2>3. CASE x # e
    <3>1. \A t \in Stoppers : x \in held[t] => x \in held'[t]
      BY <1>2, <1>4, <2>3
    <3>2. executors[exec[x].model] = x => executors'[exec[x].model] = x
      BY <1>1, <1>3, <2>1, Kinds DEF m
    <3> QED BY <2>1, <3>1, <3>2
  <2> QED BY <2>2, <2>3
<1>14. CallerInv'
  BY <1>6 DEF IndInv, CallerInv
<1> QED BY <1>8, <1>9, <1>10, <1>11, <1>12, <1>13, <1>14 DEF IndInv

(* register_model puts the executor under its name, or stops it. *)
LEMMA RegisterEmplacesStep ==
  ASSUME IndInv, NEW a \in Admins, RegisterEmplaces(a) PROVE IndInv'
  BY RegisterCollides, RegisterPublishes DEF RegisterEmplaces, execution

----------------------------------------------------------------------------
(* unregister_model, shutdown and the end of main.                           *)

(* Executors moved out of the table are in the hands of the thread that     *)
(* moved them.                                                              *)
LEMMA TakenOut ==
  ASSUME IndInv, NEW t \in Stoppers, NEW S \in SUBSET Execs, held[t] = {},
         \A e \in S : \E m \in Models : executors[m] = e,
         TakesOut(t, S), UNCHANGED <<registry, exec>>
  PROVE  /\ executors' \in [Models -> Execs \cup {None}] /\ held' \in [Stoppers -> SUBSET Execs]
         /\ held'[t] = S /\ \A u \in Stoppers : u # t => held'[u] = held[u]
         /\ \A m \in Models : executors'[m] = IF executors[m] \in S THEN None ELSE executors[m]
         /\ \A u \in Stoppers : \A e \in held'[u] :
               /\ Alive(e)' /\ \A m \in Models : executors'[m] # e
               /\ \A v \in Stoppers : e \in held'[v] => v = u
         /\ TableInv' /\ BusyInv'
<1>1. /\ executors' \in [Models -> Execs \cup {None}]
      /\ \A m \in Models : executors'[m] = IF executors[m] \in S THEN None ELSE executors[m]
  BY DEF TakesOut, IndInv, TypeOK
<1>2. /\ held' \in [Stoppers -> SUBSET Execs]
      /\ held'[t] = S /\ \A u \in Stoppers : u # t => held'[u] = held[u]
  BY DEF TakesOut, IndInv, TypeOK
<1>3. \A x : (Busy(x)' <=> Busy(x)) /\ (Alive(x)' <=> Alive(x))
  BY DEF Busy, Alive
<1>4. TableInv'
  BY <1>1 DEF IndInv, TableInv
<1>5. \A e \in S : /\ Alive(e) /\ \A u \in Stoppers : e \notin held[u]
                   /\ \A m \in Models : executors'[m] # e
  <2> SUFFICES ASSUME NEW e \in S PROVE /\ Alive(e) /\ \A u \in Stoppers : e \notin held[u]
                                        /\ \A m \in Models : executors'[m] # e
    OBVIOUS
  <2>1. PICK m \in Models : executors[m] = e
    OBVIOUS
  <2>2. e # None /\ e \in Execs
    BY Kinds
  <2>3. Alive(e)
    BY <2>1, <2>2 DEF IndInv, TableInv, Alive
  <2>4. \A u \in Stoppers : e \notin held[u]
    BY <2>1 DEF IndInv, HeldInv
  <2> QED BY <1>1, <2>2, <2>3, <2>4
<1>6. \A u \in Stoppers : \A e \in held'[u] :
               /\ Alive(e)' /\ \A m \in Models : executors'[m] # e
               /\ \A v \in Stoppers : e \in held'[v] => v = u
  <2> SUFFICES ASSUME NEW u \in Stoppers, NEW e \in held'[u]
               PROVE  /\ Alive(e)' /\ \A m \in Models : executors'[m] # e
                      /\ \A v \in Stoppers : e \in held'[v] => v = u
    OBVIOUS
  <2>1. CASE u = t
    BY <1>2, <1>3, <1>5, <2>1
  <2>2. CASE u # t
    <3>1. e \in held[u] /\ e \notin S /\ e # None
      BY <1>2, <1>5, <2>2, Kinds DEF IndInv, TypeOK
    <3>2. /\ Alive(e) /\ \A m \in Models : executors[m] # e
          /\ \A v \in Stoppers : e \in held[v] => v = u
      BY <3>1 DEF IndInv, HeldInv
    <3> QED BY <1>1, <1>2, <1>3, <3>1, <3>2
  <2> QED BY <2>1, <2>2
<1>7. BusyInv'
  <2> SUFFICES ASSUME NEW x \in Execs, Busy(x)' PROVE BusyInv!(x)!2'
    BY DEF BusyInv
  <2>1. BusyInv!(x)!2
    BY <1>3 DEF IndInv, BusyInv
  <2>2. CASE x \in S
    BY <1>2, <2>1, <2>2
  <2>3. CASE x \notin S
    BY <1>1, <1>2, <2>1, <2>3
  <2> QED BY <2>2, <2>3
<1> QED BY <1>1, <1>2, <1>4, <1>6, <1>7

(* unregister_model moves one executor out of the table. *)
LEMMA UnregisterStep ==
  ASSUME IndInv, NEW a \in Admins, NEW m \in Models, Unregister(a, m) PROVE IndInv'
<1> DEFINE e == executors[m]
<1>1. /\ owner \notin {"members", "destroyed"} /\ admin[a].at = "idle"
      /\ e # None /\ TakesOut(a, {e})
      /\ admin' = [admin EXCEPT ![a] = [at |-> "stop", model |-> m, meta |-> None]]
      /\ UNCHANGED <<registry, meta, stopped, exec, queue, working, answer, caller, owner>>
  BY DEF Unregister, Up, execution
<1>2. e \in Execs /\ exec[e].model = m
  BY <1>1 DEF IndInv, TypeOK, TableInv
<1>3. held[a] = {} /\ a \in Stoppers
  BY <1>1, Kinds DEF IndInv, HeldInv
<1>4. /\ executors' \in [Models -> Execs \cup {None}] /\ held' \in [Stoppers -> SUBSET Execs]
      /\ held'[a] = {e} /\ \A u \in Stoppers : u # a => held'[u] = held[u]
      /\ \A u \in Stoppers : \A x \in held'[u] :
            /\ Alive(x)' /\ \A n \in Models : executors'[n] # x
            /\ \A v \in Stoppers : x \in held'[v] => v = u
      /\ TableInv' /\ BusyInv'
  <2>1. {e} \in SUBSET Execs /\ \A x \in {e} : \E n \in Models : executors[n] = x
    BY <1>2
  <2> HIDE DEF e
  <2> QED BY <1>1, <1>3, <2>1, TakenOut
<1> HIDE DEF e
<1>5. /\ admin' \in [Admins -> AdminStates]
      /\ \A b \in Admins : b # a => admin'[b] = admin[b]
      /\ admin'[a].at = "stop" /\ admin'[a].model = m
  BY <1>1, AdminSet DEF IndInv
<1>6. \A x : (Busy(x)' <=> Busy(x)) /\ (Alive(x)' <=> Alive(x))
  BY <1>1 DEF Busy, Alive
<1>7. TypeOK'
  BY <1>1, <1>4, <1>5 DEF IndInv, TypeOK
<1>8. AdminInv'
  BY <1>1, <1>5, Kinds DEF IndInv, AdminInv
<1>9. OwnerInv'
  BY <1>1 DEF OwnerInv
<1>10. HeldInv'
  <2> SUFFICES ASSUME NEW t \in Stoppers PROVE HeldInv!(t)'
    BY DEF HeldInv
  <2>1. HeldInv!(t)
    BY DEF IndInv, HeldInv
  <2>2. CASE t = a
    BY <1>1, <1>2, <1>4, <1>5, <2>2, Kinds
  <2>3. CASE t # a
    <3>1. held'[t] = held[t] /\ (t \in Admins => admin'[t] = admin[t])
      BY <1>4, <1>5, <2>3
    <3> QED BY <1>1, <1>4, <2>1, <3>1
  <2> QED BY <2>2, <2>3
<1>11. CallerInv'
  BY <1>1, <1>6 DEF IndInv, CallerInv
<1> QED BY <1>4, <1>7, <1>8, <1>9, <1>10, <1>11 DEF IndInv

(* shutdown, and the end of the members, move all of them out. *)
LEMMA OwnerTakesStep == ASSUME IndInv, Shutdown \/ DestroyRuntime PROVE IndInv'
<1> DEFINE S == Range(executors) \ {None}
<1>1. /\ owner \in {"serving", "returned"} /\ owner' \in {"stop", "members"}
      /\ TakesOut(Owner, S) /\ stopped' \in BOOLEAN
      /\ UNCHANGED <<registry, meta, exec, queue, working, answer, caller, admin>>
      /\ owner' = "members" => /\ \A c \in Callers : caller[c].at \in {"idle", "done"}
                               /\ \A a \in Admins : admin[a].at = "idle"
  BY DEF Shutdown, DestroyRuntime, execution, IndInv, TypeOK
<1>2. /\ S \in SUBSET Execs /\ \A e \in S : \E m \in Models : executors[m] = e
      /\ \A m \in Models : executors[m] \in S \cup {None}
  BY DEF Range, IndInv, TypeOK
<1> HIDE DEF S
<1>3. held[Owner] = {} /\ Owner \in Stoppers
  BY <1>1, Kinds DEF IndInv, HeldInv
<1>4. /\ executors' \in [Models -> Execs \cup {None}] /\ held' \in [Stoppers -> SUBSET Execs]
      /\ held'[Owner] = S /\ \A u \in Stoppers : u # Owner => held'[u] = held[u]
      /\ \A m \in Models : executors'[m] = IF executors[m] \in S THEN None ELSE executors[m]
      /\ \A u \in Stoppers : \A x \in held'[u] :
            /\ Alive(x)' /\ \A n \in Models : executors'[n] # x
            /\ \A v \in Stoppers : x \in held'[v] => v = u
      /\ TableInv' /\ BusyInv'
  BY <1>1, <1>2, <1>3, TakenOut
<1>5. \A x : (Busy(x)' <=> Busy(x)) /\ (Alive(x)' <=> Alive(x))
  BY <1>1 DEF Busy, Alive
<1>6. TypeOK'
  BY <1>1, <1>4 DEF IndInv, TypeOK
<1>7. AdminInv'
  BY <1>1 DEF IndInv, AdminInv
<1>8. OwnerInv'
  BY <1>1, <1>2, <1>4 DEF OwnerInv
<1>9. HeldInv'
  <2> SUFFICES ASSUME NEW t \in Stoppers PROVE HeldInv!(t)'
    BY DEF HeldInv
  <2>1. HeldInv!(t)
    BY DEF IndInv, HeldInv
  <2>2. CASE t = Owner
    BY <1>1, <1>4, <2>2, Kinds
  <2>3. CASE t # Owner
    BY <1>1, <1>4, <2>1, <2>3
  <2> QED BY <2>2, <2>3
<1>10. CallerInv'
  BY <1>1, <1>5 DEF IndInv, CallerInv
<1> QED BY <1>4, <1>6, <1>7, <1>8, <1>9, <1>10 DEF IndInv
----------------------------------------------------------------------------
(* Stopping and dropping.                                                    *)

(* An executor that is neither in executors_ nor about to be loses its       *)
(* workers, one stage after the other.                                       *)
LEMMA LifeStep ==
  ASSUME IndInv, NEW e \in Execs, NEW to \in {"stopping", "stopped"},
         exec' = [exec EXCEPT ![e].life = to], Busy(e),
         \A m \in Models : executors[m] # e,
         \A a \in Admins : e \in held[a] => admin[a].at # "emplace",
         UNCHANGED <<registry, meta, executors, stopped, queue, working, answer, caller, admin, owner,
                     held>>
  PROVE  IndInv'
<1>1. /\ exec' \in [Execs -> ExecStates]
      /\ \A x \in Execs : x # e => exec'[x] = exec[x]
      /\ exec'[e].life = to /\ exec'[e].model = exec[e].model /\ exec'[e].meta = exec[e].meta
  BY LifeMoves DEF IndInv
<1>2. \A x \in Execs : exec'[x].model = exec[x].model /\ exec'[x].meta = exec[x].meta
  BY <1>1
<1>3. \A x \in Execs : (Busy(x)' => Busy(x)) /\ (Alive(x)' <=> Alive(x))
  BY <1>1 DEF Busy, Alive
<1>4. TypeOK'
  BY <1>1 DEF IndInv, TypeOK
<1>5. AdminInv' /\ OwnerInv'
  BY DEF IndInv, AdminInv, OwnerInv
<1>6. TableInv'
  BY <1>1, Kinds DEF IndInv, TypeOK, TableInv
<1>7. HeldInv'
  <2> SUFFICES ASSUME NEW t \in Stoppers PROVE HeldInv!(t)'
    BY DEF HeldInv
  <2>1. HeldInv!(t) /\ held[t] \subseteq Execs
    BY DEF IndInv, HeldInv, TypeOK
  <2>2. t \in Admins /\ admin[t].at = "emplace" =>
           \E x \in Execs : held[t] = {x} /\ exec'[x].life = "running"
    BY <1>1, <2>1
  <2> QED BY <1>2, <1>3, <2>1, <2>2
<1>8. BusyInv'
  BY <1>2, <1>3 DEF IndInv, BusyInv
<1>9. CallerInv'
  BY <1>2, <1>3 DEF IndInv, CallerInv
<1> QED BY <1>4, <1>5, <1>6, <1>7, <1>8, <1>9 DEF IndInv

(* stop of one executor begins. *)
LEMMA StopStep ==
  ASSUME IndInv, NEW t \in Stoppers, Stop(t) PROVE IndInv'
<1>1. PICK e \in held[t] : exec[e].life = "running" /\ exec' = [exec EXCEPT ![e].life = "stopping"]
  BY DEF Stop
<1>2. /\ Stopping(t)
      /\ UNCHANGED <<registry, meta, executors, stopped, queue, working, answer, caller, admin, owner,
                     held>>
  BY DEF Stop, shared
<1>3. e \in Execs /\ Busy(e)
  BY <1>1 DEF IndInv, TypeOK, Busy
<1>4. \A m \in Models : executors[m] # e
  BY DEF IndInv, HeldInv
<1>5. \A a \in Admins : e \in held[a] => a = t
  BY Kinds DEF IndInv, HeldInv
<1>6. \A a \in Admins : e \in held[a] => admin[a].at # "emplace"
  BY <1>2, <1>5, Kinds DEF Stopping
<1> QED BY <1>1, <1>2, <1>3, <1>4, <1>6, LifeStep

(* Its workers have left their loop. *)
LEMMA WorkersExitStep ==
  ASSUME IndInv, NEW e \in Execs, WorkersExit(e) PROVE IndInv'
<1>1. /\ exec[e].life = "stopping" /\ exec' = [exec EXCEPT ![e].life = "stopped"]
      /\ UNCHANGED <<registry, meta, executors, stopped, queue, working, answer, caller, admin, owner,
                     held>>
  BY DEF WorkersExit, shared
<1>2. \A m \in Models : executors[m] # e
  BY <1>1, Kinds DEF IndInv, TableInv
<1>3. \A a \in Admins : e \in held[a] => admin[a].at # "emplace"
  BY <1>1, Kinds DEF IndInv, HeldInv
<1> QED BY <1>1, <1>2, <1>3, LifeStep DEF Busy
(* The last stopped executor a thread holds goes out of scope.               *)
LEMMA DropsStep ==
  ASSUME IndInv, NEW t \in Stoppers, Drops(t) PROVE IndInv'
<1>1. PICK e \in held[t] : Drop(e, t) /\ held' = [held EXCEPT ![t] = @ \ {e}]
  BY DEF Drops
<1>2. /\ Stopping(t) /\ e \in Execs /\ exec[e].life = "stopped"
      /\ UNCHANGED <<registry, meta, executors, stopped, working, caller, admin, owner>>
  BY DEF Drops, shared, IndInv, TypeOK
<1>3. /\ exec' \in [Execs -> ExecStates]
      /\ answer' \in [Callers -> {"none", "ok", "error", "broken"}]
      /\ queue' \in [Execs -> SUBSET Callers]
      /\ \A x \in Execs : /\ x # e => exec'[x] = exec[x]
                          /\ exec'[x].model = exec[x].model /\ exec'[x].meta = exec[x].meta
      /\ \/ exec'[e].life = exec[e].life
         \/ exec'[e].life = "destroyed" /\ Refs(e) \subseteq {t}
  BY <1>1, <1>2, Dropped DEF IndInv
<1>4. /\ held' \in [Stoppers -> SUBSET Execs]
      /\ \A u \in Stoppers : held'[u] = IF u = t THEN held[t] \ {e} ELSE held[u]
  BY <1>1 DEF IndInv, TypeOK
<1>5. \A u \in Stoppers : e \notin held'[u] /\ \A x : x # e => (x \in held'[u] <=> x \in held[u])
  BY <1>4 DEF IndInv, HeldInv
<1>6. /\ \A x \in Execs : Busy(x)' <=> Busy(x) /\ x # e
      /\ \A x \in Execs : Alive(x) /\ x # e => Alive(x)'
  BY <1>2, <1>3 DEF Busy, Alive
<1>7. \A m \in Models : executors[m] # e
  BY DEF IndInv, HeldInv
<1>8. \A c \in Callers : caller[c].exec = e => Alive(e)'
  <2> SUFFICES ASSUME NEW c \in Callers, caller[c].exec = e PROVE Alive(e)'
    OBVIOUS
  <2>1. c \in Refs(e) /\ c # t
    BY HoldersAssumption DEF Refs, Stoppers
  <2> QED BY <1>2, <1>3, <2>1 DEF Alive
<1>9. TypeOK'
  BY <1>2, <1>3, <1>4 DEF IndInv, TypeOK
<1>10. AdminInv' /\ OwnerInv'
  BY <1>2 DEF IndInv, AdminInv, OwnerInv
<1>11. TableInv'
  BY <1>2, <1>3, <1>7 DEF IndInv, TypeOK, TableInv
<1>12. HeldInv'
  <2> SUFFICES ASSUME NEW u \in Stoppers PROVE HeldInv!(u)'
    BY DEF HeldInv
  <2>1. HeldInv!(u) /\ held[u] \subseteq Execs
    BY DEF IndInv, HeldInv, TypeOK
  <2>2. \A x \in held'[u] : /\ Alive(x)' /\ \A m \in Models : executors'[m] # x
                            /\ \A v \in Stoppers : x \in held'[v] => v = u
    BY <1>2, <1>5, <1>6, <2>1
  <2>3. u = Owner /\ held'[u] # {} => owner' \in {"stop", "members"}
    BY <1>2, <1>5, <2>1
  <2>4. u \in Admins => /\ held'[u] # {} => admin'[u].at \in {"emplace", "stop"}
                        /\ \A x \in held'[u] : exec'[x].model = admin'[u].model
    BY <1>2, <1>3, <1>5, <2>1
  <2>5. u \in Admins /\ admin'[u].at = "emplace" =>
           \E x \in Execs : held'[u] = {x} /\ exec'[x].life = "running"
    <3> SUFFICES ASSUME u \in Admins, admin[u].at = "emplace"
                 PROVE  \E x \in Execs : held'[u] = {x} /\ exec'[x].life = "running"
      BY <1>2
    <3>1. u # t
      BY <1>2, Kinds DEF Stopping
    <3> QED BY <1>2, <1>3, <1>4, <2>1, <3>1
  <2> QED BY <2>2, <2>3, <2>4, <2>5
<1>13. BusyInv'
  <2> SUFFICES ASSUME NEW x \in Execs, Busy(x)' PROVE BusyInv!(x)!2'
    BY DEF BusyInv
  <2>1. BusyInv!(x)!2 /\ x # e
    BY <1>6 DEF IndInv, BusyInv
  <2> QED BY <1>2, <1>3, <1>5, <2>1
<1>14. CallerInv'
  BY <1>2, <1>3, <1>6, <1>8 DEF IndInv, CallerInv
<1> QED BY <1>9, <1>10, <1>11, <1>12, <1>13, <1>14 DEF IndInv

(* stop() returns to unregister_model, to shutdown or to the destructor; with *)
(* the members of main goes the registry.                                     *)
LEMMA StopReturnsAdmin ==
  ASSUME IndInv, NEW a \in Admins, StopReturns(a) PROVE IndInv'
<1>1. /\ admin[a].at = "stop" /\ held[a] = {}
      /\ admin' = [admin EXCEPT ![a] = [at |-> "idle", model |-> None, meta |-> None]]
      /\ UNCHANGED <<registry, meta, executors, stopped, exec, queue, working, answer, caller, owner,
                     held>>
  BY Kinds DEF StopReturns, Stopping, Idle, execution
<1>2. /\ admin' \in [Admins -> AdminStates]
      /\ \A b \in Admins : b # a => admin'[b] = admin[b]
      /\ admin'[a].at = "idle" /\ admin'[a].model = None /\ admin'[a].meta = None
  BY <1>1, AdminSet DEF IndInv
<1>3. TableInv' /\ \A e : (Busy(e)' <=> Busy(e)) /\ (Alive(e)' <=> Alive(e))
  BY <1>1, ExecutorsKept
<1>4. TypeOK'
  BY <1>1, <1>2 DEF IndInv, TypeOK
<1>5. AdminInv'
  BY <1>2 DEF IndInv, AdminInv
<1>6. OwnerInv'
  BY <1>1, <1>2 DEF IndInv, OwnerInv
<1>7. HeldInv'
  BY <1>1, <1>2, <1>3 DEF IndInv, HeldInv
<1>8. BusyInv' /\ CallerInv'
  BY <1>1, <1>3 DEF IndInv, BusyInv, CallerInv
<1> QED BY <1>3, <1>4, <1>5, <1>6, <1>7, <1>8 DEF IndInv

(* The owner has stopped all it took out; at the very end the metadata goes *)
(* too.                                                                     *)
LEMMA StopReturnsOwner ==
  ASSUME IndInv, StopReturns(Owner) PROVE IndInv'
<1>1. /\ owner \in {"stop", "members"} /\ held[Owner] = {}
      /\ owner' = IF owner = "stop" THEN "returned" ELSE "destroyed"
      /\ meta' = IF owner = "members"
                 THEN [d \in Metas |-> IF meta[d] = "unused" THEN "unused" ELSE "freed"]
                 ELSE meta
      /\ UNCHANGED <<registry, executors, stopped, exec, queue, working, answer, caller, admin, held>>
  BY DEF StopReturns, Stopping, execution
<1>2. TableInv' /\ \A e : (Busy(e)' <=> Busy(e)) /\ (Alive(e)' <=> Alive(e))
  BY <1>1, ExecutorsKept
<1>3. TypeOK'
  <2>1. meta' \in [Metas -> {"unused", "Loading", "Ready", "Failed", "freed"}]
    BY <1>1 DEF IndInv, TypeOK
  <2>2. owner' \in {"loading", "serving", "stop", "returned", "members", "destroyed"}
    BY <1>1
  <2> QED BY <1>1, <2>1, <2>2 DEF IndInv, TypeOK
<1>4. AdminInv' /\ OwnerInv'
  BY <1>1 DEF IndInv, AdminInv, OwnerInv
<1>5. HeldInv'
  BY <1>1, <1>2 DEF IndInv, HeldInv
<1>6. BusyInv' /\ CallerInv'
  BY <1>1, <1>2 DEF IndInv, BusyInv, CallerInv
<1> QED BY <1>2, <1>3, <1>4, <1>5, <1>6 DEF IndInv
----------------------------------------------------------------------------
(* infer_async.                                                              *)

(* A call moves inside the runtime: it must be left with a live executor.    *)
LEMMA CallStep ==
  ASSUME IndInv, NEW c \in Callers,
         UNCHANGED <<registry, meta, executors, stopped, exec, working, admin, owner, held>>,
         queue' \in [Execs -> SUBSET Callers],
         answer' \in [Callers -> {"none", "ok", "error", "broken"}],
         caller' \in [Callers -> CallerStates],
         \A b \in Callers : b # c => caller'[b] = caller[b],
         CallerInv!(c)',
         caller'[c].at \in {"idle", "done"} \/ owner \notin {"members", "destroyed"}
  PROVE  IndInv'
<1>1. TableInv' /\ \A e : (Busy(e)' <=> Busy(e)) /\ (Alive(e)' <=> Alive(e))
  BY ExecutorsKept
<1>2. TypeOK'
  BY DEF IndInv, TypeOK
<1>3. AdminInv'
  BY DEF IndInv, AdminInv
<1>4. OwnerInv'
  BY DEF IndInv, OwnerInv
<1>5. HeldInv' /\ BusyInv'
  BY <1>1 DEF IndInv, HeldInv, BusyInv
<1>6. CallerInv'
  <2> SUFFICES ASSUME NEW b \in Callers, b # c PROVE CallerInv!(b)'
    BY DEF CallerInv
  <2> QED BY <1>1 DEF IndInv, CallerInv
<1> QED BY <1>1, <1>2, <1>3, <1>4, <1>5, <1>6 DEF IndInv

(* infer_async looks up the executor and keeps a reference to it. *)
LEMMA RouteStep ==
  ASSUME IndInv, NEW c \in Callers, NEW m \in Models, Route(c, m) PROVE IndInv'
<1>1. /\ owner \notin {"members", "destroyed"} /\ caller[c].at = "idle" /\ caller[c].exec = None
      /\ UNCHANGED <<registry, meta, executors, stopped, exec, queue, working, admin, owner, held>>
      /\ queue' \in [Execs -> SUBSET Callers]
  BY DEF Route, Up, shared, IndInv, CallerInv, TypeOK
<1>2. CASE /\ caller' = [caller EXCEPT ![c].at = "done"]
           /\ answer' = [answer EXCEPT ![c] = "error"]
  <2>1. /\ caller' \in [Callers -> CallerStates]
        /\ \A b \in Callers : b # c => caller'[b] = caller[b]
        /\ caller'[c].at = "done" /\ caller'[c].exec = caller[c].exec
    BY <1>2, CallerMoves DEF IndInv
  <2>2. answer' \in [Callers -> {"none", "ok", "error", "broken"}]
    BY <1>2 DEF IndInv, TypeOK
  <2>3. CallerInv!(c)'
    BY <1>1, <2>1
  <2> QED BY <1>1, <2>1, <2>2, <2>3, CallStep
<1>3. CASE /\ executors[m] # None /\ UNCHANGED answer
           /\ caller' = [caller EXCEPT ![c] = [at |-> "enter", model |-> m, exec |-> executors[m]]]
  <2> DEFINE e == executors[m]
  <2>1. e \in Execs /\ exec[e].life = "running" /\ exec[e].model = m
    BY <1>3 DEF IndInv, TypeOK, TableInv
  <2>3. [at |-> "enter", model |-> m, exec |-> e] \in CallerStates
    BY <2>1 DEF CallerStates
  <2>4. /\ caller' \in [Callers -> CallerStates]
        /\ \A b \in Callers : b # c => caller'[b] = caller[b]
        /\ caller'[c].at = "enter" /\ caller'[c].model = m /\ caller'[c].exec = e
    BY <1>3, <2>3 DEF IndInv, TypeOK
  <2>5. answer' \in [Callers -> {"none", "ok", "error", "broken"}]
    BY <1>3 DEF IndInv, TypeOK
  <2> HIDE DEF e
  <2>6. CallerInv!(c)'
    BY <1>1, <2>1, <2>4 DEF Alive
  <2> QED BY <1>1, <2>4, <2>5, <2>6, CallStep
<1> QED BY <1>2, <1>3 DEF Route

(* Inside the executor, the call checks the metadata and pushes. *)
LEMMA EnterStep ==
  ASSUME IndInv, NEW c \in Callers, Enter(c) \/ Push(c) PROVE IndInv'
<1>1. /\ caller[c].at \in {"enter", "push"}
      /\ UNCHANGED <<registry, meta, executors, stopped, exec, working, admin, owner, held>>
      /\ \E to \in {"push", "leave"} : caller' = [caller EXCEPT ![c].at = to]
  BY DEF Enter, Push, shared
<1>2. PICK to \in {"push", "leave"} : caller' = [caller EXCEPT ![c].at = to]
  BY <1>1
<1>3. queue' \in [Execs -> SUBSET Callers] /\ answer' \in [Callers -> {"none", "ok", "error", "broken"}]
  <2>1. CASE Enter(c)
    BY <2>1 DEF Enter, IndInv, TypeOK
  <2>2. CASE Push(c)
    BY <2>2 DEF Push, IndInv, TypeOK
  <2> QED BY <2>1, <2>2
<1>4. /\ caller' \in [Callers -> CallerStates]
      /\ \A b \in Callers : b # c => caller'[b] = caller[b]
      /\ caller'[c].at = to /\ caller'[c].exec = caller[c].exec
  BY <1>2, CallerMoves DEF IndInv
<1>5. CallerInv!(c)'
  BY <1>1, <1>4 DEF IndInv, CallerInv, Alive
<1>6. owner \notin {"members", "destroyed"}
  BY <1>1 DEF IndInv, OwnerInv
<1> QED BY <1>1, <1>3, <1>4, <1>5, <1>6, CallStep

(* The last reference may be the call's own: then nobody is left to stop the *)
(* executor, and it has no workers any more.                                 *)
LEMMA LeaveStep ==
  ASSUME IndInv, NEW c \in Callers, Leave(c) PROVE IndInv'
<1> DEFINE e == caller[c].exec
<1>1. /\ caller[c].at = "leave" /\ e \in Execs /\ Drop(e, c)
      /\ caller' = [caller EXCEPT ![c] = [at |-> "done", model |-> None, exec |-> None]]
      /\ UNCHANGED <<registry, meta, executors, stopped, working, admin, owner, held>>
  BY DEF Leave, shared, IndInv, CallerInv
<1>2. [at |-> "done", model |-> None, exec |-> None] \in CallerStates
  BY DEF CallerStates
<1>3. /\ caller' \in [Callers -> CallerStates]
      /\ \A b \in Callers : b # c => caller'[b] = caller[b]
      /\ caller'[c].at = "done" /\ caller'[c].exec = None
  BY <1>1, <1>2 DEF IndInv, TypeOK
<1> HIDE DEF e
<1>4. /\ exec' \in [Execs -> ExecStates]
      /\ answer' \in [Callers -> {"none", "ok", "error", "broken"}]
      /\ queue' \in [Execs -> SUBSET Callers]
      /\ \A x \in Execs : /\ x # e => exec'[x] = exec[x]
                          /\ exec'[x].model = exec[x].model /\ exec'[x].meta = exec[x].meta
      /\ \/ exec'[e].life = exec[e].life
         \/ exec'[e].life = "destroyed" /\ Refs(e) \subseteq {c}
  BY <1>1, Dropped DEF IndInv
<1>5. exec'[e].life # exec[e].life =>
         /\ \A m \in Models : executors[m] # e
         /\ \A t \in Stoppers : e \notin held[t]
         /\ \A b \in Callers : b # c => caller[b].exec # e
  <2> SUFFICES ASSUME Refs(e) \subseteq {c}
               PROVE  /\ \A m \in Models : executors[m] # e
                      /\ \A t \in Stoppers : e \notin held[t]
                      /\ \A b \in Callers : b # c => caller[b].exec # e
    BY <1>4
  <2> QED BY HoldersAssumption DEF Refs, Stoppers
<1>6. \A x \in Execs : Busy(x) => exec'[x].life = exec[x].life
  BY <1>4, <1>5 DEF IndInv, BusyInv, TypeOK
<1>7. \A x \in Execs : Busy(x)' <=> Busy(x)
  BY <1>4, <1>6 DEF Busy
<1>8. \A x \in Execs : x # e \/ exec'[e].life = exec[e].life => (Alive(x)' <=> Alive(x))
  BY <1>4 DEF Alive
<1>9. TypeOK'
  BY <1>1, <1>3, <1>4 DEF IndInv, TypeOK
<1>10. AdminInv'
  BY <1>1 DEF IndInv, AdminInv
<1>11. OwnerInv'
  BY <1>1, <1>3 DEF IndInv, OwnerInv
<1>12. TableInv'
  BY <1>1, <1>4, <1>5, SMTT(40) DEF IndInv, TypeOK, TableInv
<1>13. HeldInv'
  <2> SUFFICES ASSUME NEW t \in Stoppers PROVE HeldInv!(t)'
    BY DEF HeldInv
  <2>1. HeldInv!(t) /\ held[t] \subseteq Execs
    BY DEF IndInv, HeldInv, TypeOK
  <2>2. \A x \in held[t] : exec'[x].life = exec[x].life /\ (Alive(x)' <=> Alive(x))
    BY <1>4, <1>5, <1>8, <2>1
  <2> QED BY <1>1, <1>4, <2>1, <2>2
<1>14. BusyInv'
  BY <1>1, <1>4, <1>7 DEF IndInv, BusyInv
<1>15. CallerInv'
  <2> SUFFICES ASSUME NEW b \in Callers PROVE CallerInv!(b)'
    BY DEF CallerInv
  <2>1. CASE b = c
    BY <1>3, <2>1
  <2>2. CASE b # c
    <3>1. CallerInv!(b) /\ caller'[b] = caller[b]
      BY <1>3, <2>2 DEF IndInv, CallerInv
    <3>2. caller[b].exec \in Execs => (Alive(caller[b].exec)' <=> Alive(caller[b].exec))
      BY <1>5, <1>8, <2>2, <3>1
    <3> QED BY <1>1, <1>4, <3>1, <3>2
  <2> QED BY <2>1, <2>2
<1> QED BY <1>9, <1>10, <1>11, <1>12, <1>13, <1>14, <1>15 DEF IndInv
----------------------------------------------------------------------------
(* All steps.                                                                *)

(* Workers take requests and answer them. *)
LEMMA WorkStep ==
  ASSUME IndInv, NEW e \in Execs, NEW c \in Callers, Take(e, c) \/ Respond(e, c) PROVE IndInv'
<1>1. CASE Take(e, c)
  <2>1. /\ UNCHANGED <<registry, meta, executors, exec, caller, admin, owner, held>>
        /\ stopped' \in BOOLEAN
        /\ answer' \in [Callers -> {"none", "ok", "error", "broken"}]
    BY <1>1 DEF Take, shared, IndInv, TypeOK
  <2>2. queue' \in [Execs -> SUBSET Callers] /\ working' \in [Execs -> SUBSET Callers]
    BY <1>1 DEF Take, IndInv, TypeOK
  <2> QED BY <2>1, <2>2, InertStep
<1>2. CASE Respond(e, c)
  <2>1. /\ UNCHANGED <<registry, meta, executors, exec, caller, admin, owner, held>>
        /\ stopped' \in BOOLEAN /\ queue' \in [Execs -> SUBSET Callers]
    BY <1>2 DEF Respond, shared, IndInv, TypeOK
  <2>2. /\ working' \in [Execs -> SUBSET Callers]
        /\ answer' \in [Callers -> {"none", "ok", "error", "broken"}]
    BY <1>2 DEF Respond, IndInv, TypeOK
  <2> QED BY <2>1, <2>2, InertStep
<1> QED BY <1>1, <1>2
(* Every step keeps the invariant. *)
LEMMA StepInv == IndInv /\ [RuntimeNext]_vars => IndInv'
<1> SUFFICES ASSUME IndInv, [RuntimeNext]_vars PROVE IndInv'
  OBVIOUS
<1>1. CASE \E a \in Admins, m \in Models : Load(a, m) \/ Register(a, m) \/ Unregister(a, m)
  BY <1>1, LoadStep, RegisterStep, UnregisterStep
<1>2. CASE \E a \in Admins : Administer(a)
  BY <1>2, LoadLooksUpStep, LoadReplacesStep, LoadRegistersStep, LoadFinishesStep, RegisterStartsStep,
     RegisterEmplacesStep DEF Administer
<1>3. CASE \E t \in Stoppers : Unwind(t)
  <2>1. PICK t \in Stoppers : Stop(t) \/ Drops(t) \/ StopReturns(t)
    BY <1>3 DEF Unwind
  <2>2. CASE Stop(t)
    BY <2>2, StopStep
  <2>3. CASE Drops(t)
    BY <2>3, DropsStep
  <2>4. CASE StopReturns(t)
    BY <2>4, StopReturnsAdmin, StopReturnsOwner, Kinds
  <2> QED BY <2>1, <2>2, <2>3, <2>4
<1>4. CASE Serve \/ Shutdown \/ DestroyRuntime
  BY <1>4, ServeStep, OwnerTakesStep
<1>5. CASE \E c \in Callers, m \in Models : Route(c, m)
  BY <1>5, RouteStep
<1>6. CASE \E c \in Callers : Call(c)
  BY <1>6, EnterStep, LeaveStep DEF Call
<1>7. CASE \E e \in Execs : Work(e) \/ \E c \in Callers : Take(e, c)
  BY <1>7, WorkersExitStep, WorkStep DEF Work
<1>8. CASE UNCHANGED vars
  <2>1. UNCHANGED <<registry, meta, executors, stopped, exec, queue, working, answer, caller, admin,
                    owner, held>>
    BY <1>8 DEF vars
  <2> QED BY <2>1, InertStep DEF IndInv, TypeOK
<1> QED BY <1>1, <1>2, <1>3, <1>4, <1>5, <1>6, <1>7, <1>8 DEF RuntimeNext

(* Every reachable state of the runtime satisfies IndInv: every executor with *)
(* workers is in executors_ or in the hands of one thread that stops it, and  *)
(* the executor a call is in exists (runtime.cpp:38-61, 67-96 and 98-109),    *)
(* however loads, registrations, calls and the shutdown interleave, those of  *)
(* one name included.                                                         *)
THEOREM Inductive == RuntimeSpec => []IndInv
  BY InitInv, StepInv, PTL DEF RuntimeSpec

(* An executor is not destroyed under a call of infer_async that is inside it *)
(* (runtime.cpp:79-95).                                                       *)
THEOREM CallsKeepTheirExecutors == RuntimeSpec => []CallsKeepExecutors
<1>1. IndInv => CallsKeepExecutors
  BY DEF IndInv, CallerInv, CallsKeepExecutors
<1> QED BY <1>1, Inductive, PTL

----------------------------------------------------------------------------
(* The metadata, when models are loaded only before the server is up.        *)

Loading(a) == admin[a].at \in {"lookup", "replace", "register", "finish"}

\* The registry lists it.
Kept(d) == d \in Metas /\ \E m \in Models : registry[m] = d

\* One load at a time, and nothing else before the runtime is made.
ServingInv ==
    /\ owner = "loading" => /\ \A e \in Execs : exec[e].life = "unused"
                            /\ \A c \in Callers : caller[c].at = "idle"
                            /\ \A a \in Admins : admin[a].at = "idle" \/ Loading(a)
    /\ \A a \in Admins : Loading(a) =>
          owner = "loading" /\ \A b \in Admins : b # a => admin[b].at = "idle"

\* The registry owns the metadata it lists, each under one name.
RegistryInv ==
    /\ \A m, n \in Models : registry[m] # None /\ registry[m] = registry[n] => m = n
    /\ owner # "destroyed" =>
          \A m \in Models : registry[m] # None => meta[registry[m]] \notin {"unused", "freed"}

\* A loader has its metadata for itself until it is registered.
LoaderInv == \A a \in Admins :
    /\ admin[a].at \in {"lookup", "replace", "register"} =>
          meta[admin[a].meta] = "Loading" /\ \A m \in Models : registry[m] # admin[a].meta
    /\ admin[a].at = "finish" => Kept(admin[a].meta)

\* Whoever has a pointer to metadata has one to metadata the registry lists.
UserInv ==
    /\ \A e \in Execs : exec[e].life # "unused" => Kept(exec[e].meta)
    /\ \A a \in Admins : admin[a].at \in {"start", "emplace"} => Kept(admin[a].meta)

MetaInv == ServingInv /\ RegistryInv /\ LoaderInv /\ UserInv

(* There is no metadata at the start. *)
LEMMA MetaInit == RuntimeInit => MetaInv
<1> SUFFICES ASSUME RuntimeInit PROVE MetaInv
  OBVIOUS
<1>1. /\ \A m \in Models : registry[m] = None
      /\ \A e \in Execs : exec[e].life = "unused"
      /\ \A c \in Callers : caller[c].at = "idle"
      /\ \A a \in Admins : admin[a].at = "idle"
  BY DEF RuntimeInit
<1> QED BY <1>1 DEF MetaInv, ServingInv, RegistryInv, LoaderInv, UserInv, Loading

(* A step of the server or of its end: the registry stays as it is. *)
LEMMA MetaServes ==
  ASSUME MetaInv, owner' # "loading", registry' = registry,
         owner' = "destroyed" \/ (owner # "destroyed" /\ meta' = meta),
         \A a \in Admins : ~Loading(a)',
         \A e \in Execs : exec'[e].life # "unused" => Kept(exec'[e].meta),
         \A a \in Admins : admin'[a].at \in {"start", "emplace"} => Kept(admin'[a].meta)
  PROVE  MetaInv'
<1>1. ServingInv'
  BY DEF ServingInv
<1>2. RegistryInv'
  BY DEF MetaInv, RegistryInv
<1>3. LoaderInv'
  BY DEF LoaderInv, Loading
<1>4. UserInv'
  BY DEF UserInv, Kept
<1> QED BY <1>1, <1>2, <1>3, <1>4 DEF MetaInv

(* The administering threads go on without a new pointer, and the executors  *)
(* come to their end.                                                        *)
LEMMA MetaUses ==
  ASSUME MetaInv, owner # "loading", owner' # "loading", registry' = registry,
         owner' = "destroyed" \/ (owner # "destroyed" /\ meta' = meta),
         \A a \in Admins : admin'[a] = admin[a] \/ admin'[a].at \in {"idle", "stop"},
         \A e \in Execs : /\ exec'[e].life # "unused" => exec[e].life # "unused"
                          /\ exec'[e].meta = exec[e].meta
  PROVE  MetaInv'
<1>1. \A a \in Admins : ~Loading(a)'
  BY DEF MetaInv, ServingInv, Loading
<1>2. \A e \in Execs : exec'[e].life # "unused" => Kept(exec'[e].meta)
  BY DEF MetaInv, UserInv
<1>3. \A a \in Admins : admin'[a].at \in {"start", "emplace"} => Kept(admin'[a].meta)
  BY DEF MetaInv, UserInv
<1> QED BY <1>1, <1>2, <1>3, MetaServes

(* A step of the only thread that loads. *)
LEMMA MetaLoads ==
  ASSUME MetaInv, NEW a \in Admins, owner = "loading", UNCHANGED <<exec, caller, owner>>,
         \A b \in Admins : b # a => admin'[b].at = "idle",
         admin'[a].at = "idle" \/ Loading(a)',
         RegistryInv', LoaderInv!(a)'
  PROVE  MetaInv'
<1>1. ServingInv'
  BY DEF MetaInv, ServingInv, Loading
<1>2. LoaderInv'
  BY DEF LoaderInv
<1>3. UserInv'
  BY DEF MetaInv, ServingInv, UserInv, Loading
<1> QED BY <1>1, <1>2, <1>3 DEF MetaInv

(* load_model makes a fresh metadata object. *)
LEMMA MetaLoad ==
  ASSUME IndInv, MetaInv, ~reloaded', NEW a \in Admins, NEW m \in Models, Load(a, m)
  PROVE  MetaInv'
<1>1. /\ owner = "loading" /\ \A b \in Admins : admin[b].at = "idle"
      /\ UNCHANGED <<registry, exec, caller, owner>>
  BY DEF Load, MayLoad, execution
<1>2. PICK d \in Metas :
         /\ meta[d] = "unused" /\ meta' = [meta EXCEPT ![d] = "Loading"]
         /\ admin' = [admin EXCEPT ![a] = [at |-> "lookup", model |-> m, meta |-> d]]
  BY DEF Load, Fresh
<1>3. /\ \A b \in Admins : b # a => admin'[b].at = "idle"
      /\ admin'[a].at = "lookup" /\ admin'[a].meta = d
  BY <1>1, <1>2, AdminSet, ZenonT(90) DEF IndInv
<1>4. \A x \in Metas : meta'[x] = IF x = d THEN "Loading" ELSE meta[x]
  BY <1>2 DEF IndInv, TypeOK
<1>5. \A n \in Models : registry[n] # d /\ (registry[n] # None => registry[n] \in Metas)
  BY <1>1, <1>2, Kinds DEF IndInv, TypeOK, MetaInv, RegistryInv
<1>6. RegistryInv'
  BY <1>1, <1>4, <1>5 DEF MetaInv, RegistryInv
<1>7. LoaderInv!(a)'
  BY <1>1, <1>3, <1>4, <1>5
<1>8. Loading(a)'
  BY <1>3 DEF Loading
<1> QED BY <1>1, <1>3, <1>6, <1>7, <1>8, MetaLoads

(* What the thread that loads knows of the others and of its metadata. *)
LEMMA Loads ==
  ASSUME IndInv, MetaInv, NEW a \in Admins, Loading(a)
  PROVE  /\ owner = "loading" /\ \A b \in Admins : b # a => admin[b].at = "idle"
         /\ admin[a].model \in Models /\ admin[a].meta \in Metas
         /\ \A n \in Models : registry[n] = None \/ registry[n] \in Metas
<1>1. owner = "loading" /\ \A b \in Admins : b # a => admin[b].at = "idle"
  BY DEF MetaInv, ServingInv
<1>2. admin[a].model \in Models /\ admin[a].meta \in Metas
  <2>1. admin[a].at \notin {"idle", "stop"}
    BY DEF Loading
  <2> QED BY <2>1, AdminActs
<1>3. \A n \in Models : registry[n] = None \/ registry[n] \in Metas
  BY DEF IndInv, TypeOK
<1> QED BY <1>1, <1>2, <1>3

(* load_model looks whether the name is taken. *)
LEMMA MetaLooksUp ==
  ASSUME IndInv, MetaInv, NEW a \in Admins, LoadLooksUp(a) PROVE MetaInv'
<1> DEFINE to == IF registry[admin[a].model] # None THEN "replace" ELSE "register"
<1>1. /\ admin[a].at = "lookup" /\ Move(a, to)
      /\ UNCHANGED <<registry, meta, exec, caller, owner>>
  BY DEF LoadLooksUp, shared, execution
<1>2. to \in {"replace", "register"}
  OBVIOUS
<1> HIDE DEF to
<1>3. /\ \A b \in Admins : b # a => admin'[b] = admin[b]
      /\ admin'[a].at = to /\ admin'[a].meta = admin[a].meta
  BY <1>1, <1>2, AdminMoves DEF IndInv
<1>4. owner = "loading" /\ \A b \in Admins : b # a => admin[b].at = "idle"
  BY <1>1, Loads DEF Loading
<1>5. RegistryInv'
  BY <1>1 DEF MetaInv, RegistryInv
<1>6. LoaderInv!(a)'
  BY <1>1, <1>2, <1>3 DEF MetaInv, LoaderInv
<1>7. Loading(a)' /\ \A b \in Admins : b # a => admin'[b].at = "idle"
  BY <1>2, <1>3, <1>4 DEF Loading
<1> QED BY <1>1, <1>4, <1>5, <1>6, <1>7, MetaLoads

(* load_model erases the old metadata, which nobody uses yet. *)
LEMMA MetaReplaces ==
  ASSUME IndInv, MetaInv, NEW a \in Admins, LoadReplaces(a) PROVE MetaInv'
<1> DEFINE m == admin[a].model
           d == admin[a].meta
<1>1. /\ admin[a].at = "replace" /\ Move(a, "register")
      /\ meta' = [x \in Metas |-> IF registry[m] = x THEN "freed" ELSE meta[x]]
      /\ registry' = [registry EXCEPT ![m] = None]
      /\ UNCHANGED <<exec, caller, owner>>
  BY DEF LoadReplaces, execution
<1>2. /\ \A b \in Admins : b # a => admin'[b] = admin[b]
      /\ admin'[a].at = "register" /\ admin'[a].meta = d
  BY <1>1, AdminMoves DEF IndInv
<1>3. /\ owner = "loading" /\ \A b \in Admins : b # a => admin[b].at = "idle"
      /\ m \in Models /\ d \in Metas
      /\ \A n \in Models : registry[n] = None \/ registry[n] \in Metas
  BY <1>1, Loads DEF Loading
<1>4. meta[d] = "Loading" /\ \A n \in Models : registry[n] # d
  BY <1>1 DEF MetaInv, LoaderInv
<1> HIDE DEF m, d
<1>5. \A n \in Models : registry'[n] = IF n = m THEN None ELSE registry[n]
  BY <1>1, <1>3 DEF IndInv, TypeOK
<1>6. \A x \in Metas : meta'[x] = IF registry[m] = x THEN "freed" ELSE meta[x]
  BY <1>1
<1>7. RegistryInv'
  <2>1. \A i, j \in Models : registry'[i] # None /\ registry'[i] = registry'[j] => i = j
    BY <1>5 DEF MetaInv, RegistryInv
  <2>2. ASSUME NEW n \in Models, registry'[n] # None
        PROVE  meta'[registry'[n]] \notin {"unused", "freed"}
    <3>1. n # m /\ registry'[n] = registry[n] /\ registry[n] \in Metas
      BY <1>3, <1>5, <2>2
    <3>2. registry[n] # registry[m]
      BY <1>3, <2>2, <3>1 DEF MetaInv, RegistryInv
    <3>3. meta[registry[n]] \notin {"unused", "freed"}
      BY <1>3, <2>2, <3>1 DEF MetaInv, RegistryInv
    <3> QED BY <1>6, <3>1, <3>2, <3>3
  <2> QED BY <2>1, <2>2 DEF RegistryInv
<1>8. LoaderInv!(a)'
  BY <1>2, <1>3, <1>4, <1>5, <1>6, Kinds
<1>9. Loading(a)' /\ \A b \in Admins : b # a => admin'[b].at = "idle"
  BY <1>2, <1>3 DEF Loading
<1> QED BY <1>1, <1>3, <1>7, <1>8, <1>9, MetaLoads

(* register_model of the registry takes the new metadata, or drops it. *)
LEMMA MetaRegisters ==
  ASSUME IndInv, MetaInv, NEW a \in Admins, LoadRegisters(a) PROVE MetaInv'
<1> DEFINE m == admin[a].model
           d == admin[a].meta
<1>1. admin[a].at = "register" /\ UNCHANGED <<exec, caller, owner>>
  BY DEF LoadRegisters, execution
<1>2. /\ owner = "loading" /\ \A b \in Admins : b # a => admin[b].at = "idle"
      /\ m \in Models /\ d \in Metas
      /\ \A n \in Models : registry[n] = None \/ registry[n] \in Metas
  BY <1>1, Loads DEF Loading
<1>3. meta[d] = "Loading" /\ \A n \in Models : registry[n] # d
  BY <1>1 DEF MetaInv, LoaderInv
<1>4. CASE registry' = [registry EXCEPT ![m] = d] /\ Move(a, "finish") /\ UNCHANGED meta
  <2>1. /\ \A b \in Admins : b # a => admin'[b] = admin[b]
        /\ admin'[a].at = "finish" /\ admin'[a].meta = d
    BY <1>4, AdminMoves DEF IndInv
  <2> HIDE DEF m, d
  <2>2. \A n \in Models : registry'[n] = IF n = m THEN d ELSE registry[n]
    BY <1>2, <1>4 DEF IndInv, TypeOK
  <2>3. RegistryInv'
    BY <1>2, <1>3, <1>4, <2>2 DEF MetaInv, RegistryInv
  <2>4. LoaderInv!(a)'
    BY <1>2, <2>1, <2>2 DEF Kept
  <2>5. Loading(a)' /\ \A b \in Admins : b # a => admin'[b].at = "idle"
    BY <1>2, <2>1 DEF Loading
  <2> QED BY <1>1, <1>2, <2>3, <2>4, <2>5, MetaLoads
<1>5. CASE meta' = [meta EXCEPT ![d] = "freed"] /\ Idle(a) /\ UNCHANGED registry
  <2>1. /\ \A b \in Admins : b # a => admin'[b] = admin[b]
        /\ admin'[a].at = "idle"
    BY <1>5, AdminSet DEF IndInv, Idle
  <2> HIDE DEF m, d
  <2>2. \A x \in Metas : x # d => meta'[x] = meta[x]
    BY <1>5 DEF IndInv, TypeOK
  <2>3. RegistryInv'
    BY <1>2, <1>3, <1>5, <2>2 DEF MetaInv, RegistryInv
  <2>4. LoaderInv!(a)'
    BY <2>1
  <2>5. \A b \in Admins : b # a => admin'[b].at = "idle"
    BY <1>2, <2>1
  <2> QED BY <1>1, <1>2, <2>1, <2>3, <2>4, <2>5, MetaLoads
<1> QED BY <1>4, <1>5 DEF LoadRegisters

(* The backend has loaded the model, or has failed. *)
LEMMA MetaFinishes ==
  ASSUME IndInv, MetaInv, NEW a \in Admins, LoadFinishes(a) PROVE MetaInv'
<1> DEFINE d == admin[a].meta
<1>1. admin[a].at = "finish" /\ Idle(a) /\ UNCHANGED <<registry, exec, caller, owner>>
  BY DEF LoadFinishes, execution
<1>2. PICK outcome \in {"Ready", "Failed"} :
         meta' = [meta EXCEPT ![d] = IF meta[d] = "freed" THEN meta[d] ELSE outcome]
  BY DEF LoadFinishes
<1>3. /\ owner = "loading" /\ \A b \in Admins : b # a => admin[b].at = "idle"
      /\ d \in Metas
      /\ \A n \in Models : registry[n] = None \/ registry[n] \in Metas
  BY <1>1, Loads DEF Loading
<1>4. /\ \A b \in Admins : b # a => admin'[b] = admin[b]
      /\ admin'[a].at = "idle"
  BY <1>1, AdminSet DEF IndInv, Idle
<1> HIDE DEF d
<1>5. \A x \in Metas : meta'[x] = meta[x] \/ meta'[x] \in {"Ready", "Failed"}
  BY <1>2, <1>3 DEF IndInv, TypeOK
<1>6. RegistryInv'
  BY <1>1, <1>3, <1>5 DEF MetaInv, RegistryInv
<1>7. LoaderInv!(a)'
  BY <1>4
<1>8. \A b \in Admins : b # a => admin'[b].at = "idle"
  BY <1>3, <1>4
<1> QED BY <1>1, <1>3, <1>4, <1>6, <1>7, <1>8, MetaLoads

(* register_model takes the pointer the registry has, and goes on with it. *)
LEMMA MetaRegister ==
  ASSUME IndInv, MetaInv, NEW a \in Admins, NEW m \in Models, Register(a, m) PROVE MetaInv'
<1>1. /\ owner \notin {"loading", "destroyed"} /\ registry[m] # None
      /\ admin' = [admin EXCEPT ![a] = [at |-> "start", model |-> m, meta |-> registry[m]]]
      /\ UNCHANGED <<registry, meta, exec, owner>>
  BY DEF Register, Up, shared, execution
<1>2. registry[m] \in Metas /\ Kept(registry[m])
  BY <1>1 DEF IndInv, TypeOK, Kept
<1>3. /\ \A b \in Admins : b # a => admin'[b] = admin[b]
      /\ admin'[a].at = "start" /\ admin'[a].meta = registry[m]
  BY <1>1, <1>2, AdminSet DEF IndInv
<1>4. \A b \in Admins : ~Loading(b)'
  BY <1>1, <1>3 DEF MetaInv, ServingInv, Loading
<1>5. \A b \in Admins : admin'[b].at \in {"start", "emplace"} => Kept(admin'[b].meta)
  BY <1>2, <1>3 DEF MetaInv, UserInv
<1>6. \A e \in Execs : exec'[e].life # "unused" => Kept(exec'[e].meta)
  BY <1>1 DEF MetaInv, UserInv
<1> QED BY <1>1, <1>4, <1>5, <1>6, MetaServes

(* register_model gives the executor the pointer it was called with. *)
LEMMA MetaRegisterStarts ==
  ASSUME IndInv, MetaInv, NEW a \in Admins, RegisterStarts(a) PROVE MetaInv'
<1> DEFINE m == admin[a].model
           d == admin[a].meta
<1>1. admin[a].at = "start" /\ Move(a, "emplace") /\ UNCHANGED <<registry, meta, owner>>
  BY DEF RegisterStarts, shared
<1>2. PICK e \in Execs : exec' = [exec EXCEPT ![e] = [life |-> "running", model |-> m, meta |-> d]]
  BY DEF RegisterStarts, Fresh
<1>3. owner \notin {"loading", "destroyed"}
  <2>1. owner # "destroyed"
    BY <1>1, AdminActs
  <2> QED BY <1>1, <2>1 DEF MetaInv, ServingInv, Loading
<1>4. Kept(d)
  BY <1>1 DEF MetaInv, UserInv
<1>5. /\ \A b \in Admins : b # a => admin'[b] = admin[b]
      /\ admin'[a].at = "emplace" /\ admin'[a].meta = d
  BY <1>1, AdminMoves DEF IndInv
<1>6. \A x \in Execs : exec'[x] = exec[x] \/ exec'[x].meta = d
  <2>1. exec \in [Execs -> ExecStates]
    BY DEF IndInv, TypeOK
  <2> QED BY <1>2, <2>1
<1> HIDE DEF m, d
<1>7. \A b \in Admins : ~Loading(b)'
  BY <1>3, <1>5 DEF MetaInv, ServingInv, Loading
<1>8. \A b \in Admins : admin'[b].at \in {"start", "emplace"} => Kept(admin'[b].meta)
  BY <1>4, <1>5 DEF MetaInv, UserInv
<1>9. \A x \in Execs : exec'[x].life # "unused" => Kept(exec'[x].meta)
  BY <1>4, <1>6 DEF MetaInv, UserInv
<1> QED BY <1>1, <1>3, <1>7, <1>8, <1>9, MetaServes

(* The other steps of a thread that registers or unregisters. *)
LEMMA MetaAdministers ==
  ASSUME IndInv, MetaInv, NEW a \in Admins,
         \/ RegisterRefuses(a) \/ RegisterEmplaces(a)
         \/ \E m \in Models : Unregister(a, m)
         \/ StopReturns(a)
  PROVE  MetaInv'
<1>1. CASE \E m \in Models : Unregister(a, m)
  <2>1. PICK m \in Models : Unregister(a, m)
    BY <1>1
  <2>2. /\ owner \notin {"loading", "destroyed"} /\ UNCHANGED <<registry, meta, exec, owner>>
        /\ admin' = [admin EXCEPT ![a] = [at |-> "stop", model |-> m, meta |-> None]]
    BY <2>1 DEF Unregister, Up, execution
  <2>3. \A b \in Admins : admin'[b] = admin[b] \/ admin'[b].at \in {"idle", "stop"}
    BY <2>2, AdminSet DEF IndInv
  <2> QED BY <2>2, <2>3, MetaUses
<1>2. CASE RegisterRefuses(a) \/ RegisterEmplaces(a) \/ StopReturns(a)
  <2>1. /\ admin[a].at \in {"start", "emplace", "stop"}
        /\ UNCHANGED <<registry, meta, exec, owner>> /\ (Idle(a) \/ Move(a, "stop"))
    BY <1>2, Kinds DEF RegisterRefuses, RegisterEmplaces, StopReturns, Stopping, shared, execution
  <2>2. owner # "destroyed"
    BY <2>1, AdminActs
  <2>3. owner # "loading"
    BY <2>1 DEF MetaInv, ServingInv, Loading
  <2>4. \A b \in Admins : admin'[b] = admin[b] \/ admin'[b].at \in {"idle", "stop"}
    <3>1. CASE Idle(a)
      BY <3>1, AdminSet DEF IndInv, Idle
    <3>2. CASE Move(a, "stop")
      BY <3>2, AdminMoves DEF IndInv
    <3> QED BY <2>1, <3>1, <3>2
  <2> QED BY <2>1, <2>2, <2>3, <2>4, MetaUses
<1> QED BY <1>1, <1>2

(* main goes on to its next stage; the registry is its last member to go. *)
LEMMA MetaOwner ==
  ASSUME IndInv, MetaInv, Serve \/ Shutdown \/ DestroyRuntime \/ StopReturns(Owner) PROVE MetaInv'
<1>1. /\ owner' # "loading" /\ UNCHANGED <<registry, exec, admin>>
      /\ owner' = "destroyed" \/ (owner # "destroyed" /\ meta' = meta)
      /\ owner = "loading" => \A a \in Admins : admin[a].at = "idle"
  <2>1. CASE Serve
    BY <2>1 DEF Serve, shared, execution
  <2>2. CASE Shutdown \/ DestroyRuntime
    BY <2>2 DEF Shutdown, DestroyRuntime, execution
  <2>3. CASE StopReturns(Owner)
    BY <2>3 DEF StopReturns, Stopping, execution
  <2> QED BY <2>1, <2>2, <2>3
<1>2. \A a \in Admins : ~Loading(a)'
  BY <1>1 DEF MetaInv, ServingInv, Loading
<1>3. \A e \in Execs : exec'[e].life # "unused" => Kept(exec'[e].meta)
  BY <1>1 DEF MetaInv, UserInv
<1>4. \A a \in Admins : admin'[a].at \in {"start", "emplace"} => Kept(admin'[a].meta)
  BY <1>1 DEF MetaInv, UserInv
<1> QED BY <1>1, <1>2, <1>3, <1>4, MetaServes

(* Executors that exist are stopped and dropped. *)
LEMMA MetaEnds ==
  ASSUME IndInv, MetaInv, NEW e \in Execs, exec[e].life # "unused",
         UNCHANGED <<registry, meta, admin, owner>>, owner # "destroyed",
         \A x \in Execs : /\ x # e => exec'[x] = exec[x]
                          /\ exec'[x].meta = exec[x].meta
  PROVE  MetaInv'
<1>1. owner # "loading"
  BY DEF MetaInv, ServingInv
<1> QED BY <1>1, MetaUses

(* A thread that has taken executors out stops them and drops them. *)
LEMMA MetaUnwinds ==
  ASSUME IndInv, MetaInv, NEW t \in Stoppers, Stop(t) \/ Drops(t) PROVE MetaInv'
<1>1. /\ UNCHANGED <<registry, meta, admin, owner>> /\ Stopping(t)
      /\ \E e \in held[t] : \/ exec' = [exec EXCEPT ![e].life = "stopping"]
                            \/ Drop(e, t)
  BY DEF Stop, Drops, shared
<1>2. PICK e \in held[t] : exec' = [exec EXCEPT ![e].life = "stopping"] \/ Drop(e, t)
  BY <1>1
<1>3. e \in Execs /\ exec[e].life # "unused"
  BY DEF IndInv, TypeOK, HeldInv, Alive
<1>4. owner # "destroyed"
  BY <1>1, Kinds DEF Stopping, IndInv, OwnerInv
<1>5. \A x \in Execs : (x # e => exec'[x] = exec[x]) /\ exec'[x].meta = exec[x].meta
  <2>1. CASE exec' = [exec EXCEPT ![e].life = "stopping"]
    BY <1>3, <2>1, LifeMoves DEF IndInv
  <2>2. CASE Drop(e, t)
    BY <1>3, <2>2, Dropped DEF IndInv
  <2> QED BY <1>2, <2>1, <2>2
<1> QED BY <1>1, <1>3, <1>4, <1>5, MetaEnds

(* Workers leave their loop. *)
LEMMA MetaWorkersExit ==
  ASSUME IndInv, MetaInv, NEW e \in Execs, WorkersExit(e) PROVE MetaInv'
<1>1. /\ exec[e].life = "stopping" /\ exec' = [exec EXCEPT ![e].life = "stopped"]
      /\ UNCHANGED <<registry, meta, admin, owner>>
  BY DEF WorkersExit, shared
<1>2. owner # "destroyed"
  BY <1>1, Kinds DEF IndInv, OwnerInv, HeldInv, BusyInv, Busy
<1>3. \A x \in Execs : (x # e => exec'[x] = exec[x]) /\ exec'[x].meta = exec[x].meta
  BY <1>1, LifeMoves DEF IndInv
<1> QED BY <1>1, <1>2, <1>3, MetaEnds

(* A call comes in, moves on and leaves. *)
LEMMA MetaCalls ==
  ASSUME IndInv, MetaInv, NEW c \in Callers, Call(c) \/ \E m \in Models : Route(c, m)
  PROVE  MetaInv'
<1>1. CASE \E m \in Models : Route(c, m)
  <2>1. owner \notin {"loading", "destroyed"} /\ UNCHANGED <<registry, meta, exec, admin, owner>>
    BY <1>1 DEF Route, Up, shared
  <2> QED BY <2>1, MetaUses
<1>2. CASE Call(c)
  <2>1. caller[c].at \in {"enter", "push", "leave"} /\ UNCHANGED <<registry, meta, admin, owner>>
    BY <1>2 DEF Call, Enter, Push, Leave, shared
  <2>2. /\ owner # "destroyed" /\ caller[c].exec \in Execs
        /\ exec[caller[c].exec].life # "unused"
    BY <2>1 DEF IndInv, OwnerInv, CallerInv, Alive
  <2>3. \A x \in Execs : (x # caller[c].exec => exec'[x] = exec[x]) /\ exec'[x].meta = exec[x].meta
    <3>1. CASE Enter(c) \/ Push(c)
      BY <3>1 DEF Enter, Push
    <3>2. CASE Leave(c)
      <4>1. Drop(caller[c].exec, c)
        BY <3>2 DEF Leave
      <4> QED BY <2>2, <4>1, Dropped DEF IndInv
    <3> QED BY <1>2, <3>1, <3>2 DEF Call
  <2> QED BY <2>1, <2>2, <2>3, MetaEnds
<1> QED BY <1>1, <1>2

(* Nothing that concerns metadata happens. *)
LEMMA MetaInert ==
  ASSUME MetaInv, UNCHANGED <<registry, meta, exec, caller, admin, owner>> PROVE MetaInv'
<1>1. ServingInv' /\ RegistryInv'
  BY DEF MetaInv, ServingInv, Loading, RegistryInv
<1>2. LoaderInv' /\ UserInv'
  BY DEF MetaInv, LoaderInv, UserInv, Kept
<1> QED BY <1>1, <1>2 DEF MetaInv

(* Every step keeps what is said of the metadata, if there is no reload. *)
LEMMA MetaStep ==
  ASSUME IndInv, MetaInv, ~reloaded', [RuntimeNext]_vars PROVE MetaInv'
<1>1. CASE \E a \in Admins, m \in Models : Load(a, m) \/ Register(a, m) \/ Unregister(a, m)
  BY <1>1, MetaLoad, MetaRegister, MetaAdministers
<1>2. CASE \E a \in Admins : Administer(a)
  BY <1>2, MetaLooksUp, MetaReplaces, MetaRegisters, MetaFinishes, MetaRegisterStarts, MetaAdministers
     DEF Administer
<1>3. CASE \E t \in Stoppers : Unwind(t)
  <2>1. PICK t \in Stoppers : Stop(t) \/ Drops(t) \/ StopReturns(t)
    BY <1>3 DEF Unwind
  <2>2. CASE Stop(t) \/ Drops(t)
    BY <2>2, MetaUnwinds
  <2>3. CASE StopReturns(t)
    BY <2>3, MetaAdministers, MetaOwner, Kinds
  <2> QED BY <2>1, <2>2, <2>3
<1>4. CASE Serve \/ Shutdown \/ DestroyRuntime
  BY <1>4, MetaOwner
<1>5. CASE \E c \in Callers, m \in Models : Route(c, m)
  BY <1>5, MetaCalls
<1>6. CASE \E c \in Callers : Call(c)
  BY <1>6, MetaCalls
<1>7. CASE \E e \in Execs : Work(e) \/ \E c \in Callers : Take(e, c)
  <2>1. PICK e \in Execs : WorkersExit(e) \/ \E c \in Callers : Respond(e, c) \/ Take(e, c)
    BY <1>7 DEF Work
  <2>2. CASE WorkersExit(e)
    BY <2>2, MetaWorkersExit
  <2>3. CASE \E c \in Callers : Respond(e, c) \/ Take(e, c)
    <3>1. UNCHANGED <<registry, meta, exec, caller, admin, owner>>
      BY <2>3 DEF Respond, Take, shared
    <3> QED BY <3>1, MetaInert
  <2> QED BY <2>1, <2>2, <2>3
<1>8. CASE UNCHANGED vars
  BY <1>8, MetaInert DEF vars
<1> QED BY <1>1, <1>2, <1>3, <1>4, <1>5, <1>6, <1>7, <1>8 DEF RuntimeNext

(* A reload is not forgotten. *)
LEMMA ReloadedStays ==
  ASSUME reloaded, [RuntimeNext]_vars PROVE reloaded'
<1>1. ASSUME NEW a \in Admins, NEW m \in Models, Load(a, m) \/ Register(a, m) \/ Unregister(a, m)
      PROVE  reloaded'
  BY <1>1 DEF Load, Register, Unregister
<1>2. ASSUME NEW a \in Admins, Administer(a) PROVE reloaded'
  BY <1>2 DEF Administer, LoadLooksUp, LoadReplaces, LoadRegisters, LoadFinishes,
              RegisterRefuses, RegisterStarts, RegisterEmplaces
<1>3. ASSUME NEW t \in Stoppers, Unwind(t) PROVE reloaded'
  BY <1>3 DEF Unwind, Stop, Drops, StopReturns
<1>4. CASE Serve \/ Shutdown \/ DestroyRuntime
  BY <1>4 DEF Serve, Shutdown, DestroyRuntime
<1>5. ASSUME NEW c \in Callers, NEW m \in Models, Route(c, m) PROVE reloaded'
  BY <1>5 DEF Route
<1>6. ASSUME NEW c \in Callers, Call(c) PROVE reloaded'
  BY <1>6 DEF Call, Enter, Push, Leave
<1>7. ASSUME NEW e \in Execs, Work(e) \/ \E c \in Callers : Take(e, c) PROVE reloaded'
  BY <1>7 DEF Work, WorkersExit, Respond, Take
<1>8. CASE UNCHANGED vars
  BY <1>8 DEF vars
<1> QED BY <1>1, <1>2, <1>3, <1>4, <1>5, <1>6, <1>7, <1>8 DEF RuntimeNext

(* Nobody follows a raw pointer to metadata that is gone: not the workers, not *)
(* a call that enters an executor, not a loader or register_model              *)
(* (model_executor.cpp:51 and 88-131, model_repository.cpp:62-75,              *)
(* runtime.cpp:39), in a server that loads its models the way main does        *)
(* (main.cpp:240-260): all before the runtime is made.  After the first reload *)
(* it is false: run runtime_reload has the counterexample.                     *)
THEOREM PointersStayValid == RuntimeSpec => []ValidUntilReload
<1> DEFINE Inv == ~reloaded => MetaInv
<1>1. RuntimeInit => Inv
  BY MetaInit
<1>2. IndInv /\ Inv /\ [RuntimeNext]_vars => Inv'
  BY MetaStep, ReloadedStays
<1>3. ASSUME IndInv, MetaInv PROVE NoDangling
  <2>1. ASSUME NEW d, Kept(d), owner # "destroyed" PROVE meta[d] # "freed"
    <3>1. PICK m \in Models : registry[m] = d /\ d # None
      BY <2>1, Kinds DEF Kept
    <3> QED BY <1>3, <2>1, <3>1 DEF MetaInv, RegistryInv
  <2>2. ASSUME NEW e \in Execs, Busy(e) PROVE meta[exec[e].meta] # "freed"
    <3>1. owner # "destroyed"
      BY <1>3, <2>2, Kinds DEF IndInv, OwnerInv, HeldInv, BusyInv
    <3>2. Kept(exec[e].meta)
      BY <1>3, <2>2 DEF MetaInv, UserInv, Busy
    <3> QED BY <2>1, <3>1, <3>2
  <2>3. ASSUME NEW c \in Callers, caller[c].at = "enter"
        PROVE  meta[exec[caller[c].exec].meta] # "freed"
    <3>1. caller[c].exec \in Execs /\ Alive(caller[c].exec) /\ owner # "destroyed"
      BY <1>3, <2>3 DEF IndInv, CallerInv, OwnerInv
    <3>2. Kept(exec[caller[c].exec].meta)
      BY <1>3, <3>1 DEF MetaInv, UserInv, Alive
    <3> QED BY <2>1, <3>1, <3>2
  <2>4. ASSUME NEW a \in Admins, admin[a].at \in {"finish", "start"}
        PROVE  meta[admin[a].meta] # "freed"
    <3>1. owner # "destroyed"
      BY <1>3, <2>4 DEF IndInv, OwnerInv
    <3>2. Kept(admin[a].meta)
      BY <1>3, <2>4 DEF MetaInv, LoaderInv, UserInv
    <3> QED BY <2>1, <3>1, <3>2
  <2> QED BY <2>2, <2>3, <2>4 DEF NoDangling, Busy
<1>4. IndInv /\ Inv => ValidUntilReload
  BY <1>3 DEF ValidUntilReload
<1> HIDE DEF Inv
<1>5. RuntimeSpec => []Inv
  BY <1>1, <1>2, Inductive, PTL DEF RuntimeSpec
<1> QED BY <1>4, <1>5, Inductive, PTL


(* After unregister_model(m) or shutdown has returned, with nobody            *)
(* registering or stopping m, no worker thread of an executor of m is left    *)
(* (runtime.cpp:59 and 107).                                                  *)
THEOREM NoWorkersLeft == RuntimeSpec => []Quiet
<1>1. ASSUME IndInv PROVE Quiet
  <2> SUFFICES ASSUME NEW m \in Models, executors[m] = None, owner \notin {"stop", "members"},
                      \A a \in Admins : admin[a].model # m,
                      NEW e \in Execs, exec[e].model = m, Busy(e)
               PROVE  FALSE
    BY DEF Quiet, Busy
  <2>1. executors[m] = e \/ \E t \in Stoppers : e \in held[t]
    BY <1>1 DEF IndInv, BusyInv
  <2>2. executors[m] # e
    BY Kinds
  <2>3. PICK t \in Stoppers : e \in held[t]
    BY <2>1, <2>2
  <2>4. CASE t = Owner
    BY <1>1, <2>3, <2>4 DEF IndInv, HeldInv
  <2>5. CASE t \in Admins
    BY <1>1, <2>3, <2>5 DEF IndInv, HeldInv
  <2> QED BY <2>4, <2>5, Kinds
<1> QED BY <1>1, Inductive, PTL
=============================================================================

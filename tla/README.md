# TLA+ verification of jellybean

jellybean is an inference server: one reactor thread runs a fiber per client
connection, each fiber hands its requests to the executor of a model, the
executor's worker threads run them in batches, and a small pool of threads
waits for the answers and wakes the fibers. The modules here model the parts of
it in which threads, callbacks and the network interleave, the models' way from
a directory tree to an executor, and the support code underneath (allocators,
messages, codec, histogram, tensor batches). They are checked with TLC on small
instances. The safety properties of all components but the codec, and the FIFO
refinement of both rings, are also proved with TLAPS, for every capacity and any
number of threads, requests, fibers, models, timers, blocks or buckets.

## The system: components, state, hard parts

| Component (source) | State | Operations | What is hard | What makes it correct |
|---|---|---|---|---|
| `MpmcQueue` (`concurrency/mpmc_queue.hpp`) | ring of slots with sequence numbers, two ticket counters | `emplace`/`try_push`, `try_pop`, destructor | claim, access and publication of a slot are separate steps of many threads | one owner per slot; a bounded FIFO; "full" and "empty" only with reason; nothing stranded |
| `SpscQueue` (`concurrency/spsc_queue.hpp`) | ring, two wrapping indices | the same, one thread per side | unsigned wrap-around, an index of the other side that is old when used | a bounded FIFO |
| `Seqlock` (`concurrency/seqlock.hpp`) | `seq_` and the protected words | `write(fn)`, `read(fn)` | reader and writer overlap word by word | no torn or stale read; writers exclude each other |
| `WorkStealingDeque` (`scheduler/work_stealing_deque.hpp`) | `top_`, `bottom_`, current and retired arrays | `push` (with `resize`), `pop`, `steal` | the race for the last item; arrays replaced under a thief | each item returned once, from the right end |
| `ModelExecutor` (`model/model_executor.*`) | task queue, `queue_size_`, `stopped_`, mutex and condition variable, metrics | `infer_async`, `worker_loop`, `start`, `stop`, destructor | push, count and notify without the mutex; stop racing with all of it | each request answered once; counters exact; `stop` returns |
| `Reactor`, `EpollBackend` (`reactor/`) | `running_`, external queue and its counter, run queue, registrations | `run`, `schedule`, `stop`, `poll` | a fiber may be woken through three channels, from several threads | each suspended fiber is in exactly one of them |
| `ContinuationPool`, `FutureAwaitable` (`reactor/`) | task vector, mutex and condition variable, futures | `post`, `worker_loop`, the awaitable | a pool thread blocks on a future, then schedules from outside | the fiber of an answered inference runs again |
| `TimerWheel` (`reactor/timer_wheel.*`) | 512 buckets, current tick | `initialize` at every `Reactor::run`, `add_timer`, `advance` | callbacks add timers to the bucket being walked; catching up; `initialize` of a wheel that holds timers | each timer fires once, in its tick |
| session and `AsyncSocket` (`server/main.cpp`, `net/`) | position in the byte stream, fields read so far | read header, read payload, infer, write; signal handler | TCP cuts frames anywhere; the client leaves at any byte; a signal ends the reactor's loop | frames are kept apart; the session ends with its client |
| `InferenceRuntime`, `ModelRegistry`, `ModelRepository` | executors by name, metadata by name, `stopped_` | register, unregister, infer, shutdown, load, reload | lookups race with removal; raw metadata pointers across reload; workers started before a name is taken | no call reaches a destroyed executor or metadata; nothing runs on after `unregister_model` or `shutdown`; every future is resolved |
| Repository scan and `ModelConfig` (`model/`) | directory tree, `LoadResult` | `scan_and_load`, `from_dir` | listing order, duplicate names, configurations that throw | the outcome of a model depends on its own files only |
| `ArenaAllocator` (`memory/arena.*`) | chain of blocks, bump pointer, totals | `allocate`, `reset`, moves, destructor | chain surgery after `reset`, moves, alignment | live allocations are disjoint; each block is freed once; the byte counts do not wrap |
| `SlabAllocator` (`memory/slab.hpp`) | chunks, free list threaded through the slots | `allocate`, `deallocate`, moves | the list lives in the memory it manages | the list holds every free slot once |
| `Message`, `Mailbox`, `ActorRegistry` (`actor/`) | payload inline or on the heap; mailboxes by actor | `set`, copy, move, push, pop, register, find, unregister | who owns a payload when a mailbox is full, replaced or destroyed | each payload has one owner |
| Codec (`proto/`) | none | `encode_frame`, `parse_frame`, `crc32c` | padding, length limits, damaged length fields | parse inverts encode; damage is noticed |
| `LatencyHistogram` (`telemetry/metrics.*`) | buckets | `record`, `percentile` | two walks over counters that change meanwhile | the rank belongs to some moment of the call |
| `TorchBackend` (`inference/torch_backend.cpp`) | loaded models | `load`, `unload`, `infer`, `infer_batch` | requests share one tensor | a request gets the same alone and in a batch |

Calls and shared state: the accept loop spawns sessions through
`Reactor::schedule`; a session calls `InferenceRuntime::infer_async`, which
looks up a `ModelExecutor` and pushes onto its `MpmcQueue`; the session awaits
the future through `FutureAwaitable`, which posts to the `ContinuationPool`; a
pool thread blocks in `future::get` and then pushes the fiber onto the reactor's
external `MpmcQueue`; timers run on the reactor thread. `main` scans the model
repository into the `ModelRegistry` and registers what is Ready with the
runtime; an executor holds a raw pointer to the metadata the registry owns and
calls `infer_batch` of its backend; workers record into a histogram that the
metrics thread reads. The seqlock, the SPSC ring, the deque, the allocators,
the actors and the codec are library components that the server does not use.

## Modules

| Module | Models | State and actions |
|---|---|---|
| `BoundedQueue` | the promise of both rings: a FIFO of at most `Capacity` elements | `queue`, `got`; `Push`, `Pop`, `Clear` |
| `MpmcQueue` | `mpmc_queue.hpp` | one action per atomic access of `emplace` (`EmplaceBegin` ... `EmplacePublish`) and of `try_pop`; construction and move of an element are steps of their own; `Destroy` is the destructor. `log` is a history variable with the pushed elements by ticket |
| `SpscQueue` | `spsc_queue.hpp` | as above, with indices modulo `WordSize` |
| `Seqlock` | `seqlock.hpp` | loads, compare-and-swap, each word the callbacks touch, and release are separate steps; write number v stores v into every word |
| `WorkStealingDeque` | `work_stealing_deque.hpp` | owner and thieves step from atomic access to atomic access; `arrays` keeps the current and the retired arrays, each with its capacity and storage, which a thief may still read |
| `ModelExecutor` | `model_executor.cpp` | callers (`InferAsync`, `CallerFindsReady`, `CallerChecks`, `CallerPushes`, `CallerPublishes`, `CallerCounts`, `CallerNotifies`, `CallerTimesOut`, `CallerGivesUp`, ...), workers (`WorkerPops`, `WorkerUncounts`, `WorkerLocks`, `WorkerSleeps`, `WorkerExecutes`, `WorkerCounts`, `WorkerResponds`, ...) and the owner (`Start`, `Stop`, `StopBarrier`, `StopNotifies`, `StopJoins`, `Destroy`) |
| `Reactor` | `reactor.cpp`, `epoll_backend.cpp`, `continuation_pool.cpp`, `future_awaitable.hpp` | the reactor thread's loop, what a fiber may do when resumed, the pool threads, `Stop` |
| `Session` | `session()` of `server/main.cpp`, `async_socket.cpp` | one action per `co_await` together with the code up to the next one; `Deliver` and `Disconnect` are the network; `SignalHandler` clears `g_running` and, when the signal arrives on the reactor's thread, stops the reactor, which then ends (`ReactorReturns`) and resumes nobody |
| `Runtime` | `runtime.cpp`, `model_registry.cpp`, `load_model` of `model_repository.cpp`, the registration in `main.cpp` | administering threads (`Load` ... `LoadFinishes`, `Register`, `RegisterRefuses`, `RegisterStarts`, `RegisterEmplaces`, `Unregister`), any of them on any name at any time, the owner (`Serve` ends main's loading, `Shutdown`, `DestroyRuntime`), callers (`Route`, `Enter`, `Push`, `Leave`) and what an executor's workers do, in steps as long as the locks are held; `Refs` and `Drop` are the `shared_ptr` |
| `ModelRepository` | `scan_and_load`, `model_config.cpp`, the verdict in `main.cpp` | `ScanBegins` picks any directory tree, `ScanSkips` and `ScanLoads` take its entries in any order, `FromDir` walks the versions in any order, `MainDecides` |
| `Arena` | `arena.cpp` | two arenas; addresses are numbers; a block is live until a destructor or an assignment frees it |
| `Slab` | `slab.hpp` | two slabs; `next_free` is the pointer stored inside each slot |
| `Actor` | `actor.cpp`, `mailbox.hpp`, `registry.hpp` | two message variables, two mailboxes, the three holders of a mailbox's `shared_ptr` |
| `Codec` | `codec.cpp`, `frame.hpp`, `wire.hpp` | pure operators; `Encode` and `Corrupt` enumerate their inputs |
| `LatencyHistogram` | `metrics.hpp`, `metrics.cpp` | `Record` of workers interleaved with the two walks of `percentile`, one load per step |
| `TorchBackend` | `torch_backend.cpp` | `TorchLoad`, `TorchUnload`, `InferBatch`; a tensor is its shape and the names of its rows |
| `TimerWheel` | `timer_wheel.cpp`, its use in `Reactor::run` | `RunStarts` (with `initialize`) and `RunReturns`; `AddTimer`, also before and between runs; `advance` as `Advance`, `Walk`, `Fire` (one callback, which may add a timer), `Erase`, `AdvanceReturns` |
| `MpmcQueueProofs`, `SeqlockProofs`, `WorkStealingDequeProofs`, `ModelExecutorProofs`, `SessionProofs`, `RuntimeProofs` | theorems about the module of that name | see "Proofs" |
| `ReactorProofs` | theorems about `Reactor` and `TimerWheel` | see "Proofs" |
| `LibraryProofs` | theorems about `SpscQueue`, `Actor`, `Slab`, `Arena`, `ModelRepository`, `LatencyHistogram` and `TorchBackend` | see "Proofs" |

`ModelExecutor` and `Reactor` use the queue as the FIFO that `MpmcQueue` is
shown to implement, but keep the one thing a FIFO hides and callers can see: an
element that is claimed and not yet published makes `try_pop` report empty.
`Runtime` leaves out what happens inside an executor: a worker may leave a
request in the queue for ever, which covers the lost wake-up found in
`ModelExecutor`.
Each `MC...` module instantiates its component for TLC. `MCLibrary` puts ten
components that share no state into one run, and `MCServer` three more; there a
behaviour is about one of them, its `subject`, and the others stay in their
initial states, in which the fairness of `MCServer` asks nothing of them. Operators whose comment
says "mutant" are plausible bugs of the definition that follows them, none of
which occurs in the specifications.

Memory is sequentially consistent in all modules. For `MpmcQueue` and `Seqlock`
each load is a separate step whose result is used later, which covers loads
that return older values; weaker reorderings are not modelled.

## Runs

| Run | Instance | Shows |
|---|---|---|
| `mpmc_queue` | 2 producers, 2 consumers, 2 slots, 3 tickets and those already begun | exclusivity, no overwrite, justified full/empty, refinement of `BoundedQueue`, drain |
| `model_executor` | 2 requests, 2 workers, 1 slot, batches of 2, one start/stop/destroy cycle | one place per request, `queue_size_` exact up to the threads between two steps, metrics never behind the answers they count, no orphaned future, `stop` returns |
| `executor_lost_wakeup` | 1 request, 1 worker, never stopped | **violated**: the notification is lost and the request is never answered |
| `reactor` | accept loop, 2 sessions, 2 pool threads, external queue of 1, counter modulo 4 | one home per fiber, exact counter up to wrap-around, answered fibers run again |
| `reactor_stop` | accept loop only | **violated**: a stop before `run` has stored `true` is overwritten |
| `server`: session | 2 frames of 9 bytes, every cut, disconnects, signals, garbled counts up to one above the maximum | framing holds unless a header field is cut; the session ends with its client |
| `server`: runtime | 1 model, 2 metadata objects, 2 executors, 1 call, 2 administering threads and the owner | with loads, reloads and registrations of one name at the same moment: a call's executor lives until the call has left it; no worker is left after `unregister_model` or `shutdown`; no future stays open; until the first reload no raw pointer to metadata outlives its object |
| `server`: seqlock | 2 writers, 1 reader, 2 words, 4 writes | no torn or stale read, exclusive writers, calls return |
| `session_framing` | the session of `server` | **violated**: a cut header field loses the frame boundaries |
| `timer_rearm` | 4 buckets, 4 timers, re-arming by a full turn | **violated**: the new timer is called at once |
| `runtime_reload` | 1 model, 2 metadata objects, 1 executor, 1 call, 1 administering thread | **violated**: a reload frees the metadata of a model that is being served |
| `arena_leak` | the arenas of `library` | **violated**: blocks cut off after a `reset` are never freed |
| `repository_errors` | the directories of `library` | **violated**: a number that `std::stoi` rejects ends the scan; a failed model without a name is registered nowhere |
| `library` | see below | one property or more for each of ten components |

The instances of `library`:

| Subject | Instance | Properties |
|---|---|---|
| arena | 2 arenas, 3 blocks of 3 units, sizes 0 and 2, alignments 1 and 2, blocks at odd and even addresses | `ArenaDisjoint`, `ArenaBlocksOwned`, `ArenaBytes` |
| slab | 2 slabs, 2 chunks of 2 slots | `SlabFreeListExact` |
| actor | 2 message variables, 3 heap blocks, 2 mailboxes of 2 | `PayloadsOwned` |
| codec | payloads of up to 4 bytes, one more than the length field can state; every change of one byte | `FrameRoundTrip`, `CorruptionDetected` |
| histogram | latencies of 3 bits, 4 samples, p50, p95 and p99 | `PercentileRank` |
| torch | batches of up to 3, scalar, empty, one- and two-dimensional shapes, buffers that fit and that do not | `BatchLikeSingle` |
| repository | 2 directories, 2 versions, every content of them | `ScanFaithful` |
| wheel | 4 buckets, ticks of 2, 3 timers, 9 ticks, delays of 1, 4 and 6 ticks, timers added before, during and between runs of the reactor, re-arming delays that are no multiple of a turn | `FiresOnTime` |
| spsc | 4 slots, indices modulo 8 | `AbstractSpec`: the bounded FIFO through any number of wrap-arounds; `RefusesWhenFull`: an element is refused only when no slot is free |
| deque | owner, 2 thieves, initial capacity 1, 3 pushes | `NeverTwice`, `NothingLost`, `Ends`: each item exactly once and from the right end, through two resizes under thieves |

What some of these say about the code, beyond that they hold:

* `ValidUntilReload`: for the server as `main` runs it `NoDangling` holds, because
  the repository is loaded before there is a runtime, and afterwards models are
  only registered and unregistered. `load_model` may also be called later ("hot
  reload path", `model_repository.cpp:50`; the history variable `reloaded` records
  it). It then frees the old metadata at once, although the model's executor and
  the calls entering it point there; the state `Unloading`, which
  `model_repository.hpp` mentions, is never set. `runtime_reload` shows the
  shortest case. The other properties of the runtime do not depend on the
  metadata and hold after reloads too.
* `MetricsAccount`: completed, rejected and timed-out requests are counted before
  their promise is fulfilled, so the counters may be ahead of the answers and
  never behind. Requests that find the model not ready, the executor stopped or
  the backend gone, and those whose promise is broken, appear in
  `requests_received` only.
* `EndsWithClient` has two exceptions that the code has: after a signal on the
  reactor's thread the loop ends and suspended sessions are never resumed, and a
  session whose inference is not answered (`executor_lost_wakeup`) stays in it.
* `FiresOnTime` separates the timers set for a tick after `run` began, which fire
  in exactly that tick, from those that `initialize` has jumped over: they fire
  when the wheel comes to their bucket, within one turn (half a second). Until
  then `advance` returns with expired timers waiting, although `timer_wheel.hpp:63`
  says that it "executes all expired timers"; two of the repository's tests
  (`test_reactor.cpp:32-37`, `test_pedagogical_demo.cpp:419-425`) add their timer
  before `run` and pass because they wait.
* `Quiet` includes models registered after `shutdown`: `register_model` accepts
  them, and their workers run until the runtime's members are destroyed, so the
  property speaks of names that are not in `executors_`.
* `ArenaBlocksOwned` says that nothing is freed twice; that everything is freed is
  `ArenaFreesAll`, which the code violates: after a `reset` the first overflow
  links the new block behind the first one and the rest is lost (`arena_leak`).
* `SlabFreeListExact` is about slabs that were not moved from.
* `PercentileRank` leaves out targets of 0 (few samples): `percentile` then
  returns 1 even if every sample is larger.
* `BatchLikeSingle` needs equal shapes that are not scalar; the session sends
  the configured shape with every request. Modules are assumed to map rows to
  rows.
* `ScanFaithful` is about models whose name is unique and directories whose
  configuration does not throw: of two directories with one name the later
  replaces the earlier, even a Ready one by a Failed one. What the comment in
  `model_repository.hpp` promises of failures is stated separately
  (`ErrorsIsolated`) and violated.
* `CorruptionDetected` is about single changed bytes. Padding is not covered by
  the checksum and may change unnoticed; a changed length moves the place where
  the checksum is looked for and is left out.

Why the bounds are enough. The rings are lapped several times (two or four
slots, more tickets than slots) with two threads per side, so every pair of
roles meets on one slot in different laps; the SPSC index words are twice
the capacity, so the indices wrap every second lap. Two threads per contended
role are what each of the protocols distinguishes (a winner and a loser), a
queue of one slot (1024 or more in the code; the modules use it as a FIFO, for
which one place is a legal size) makes "full" the common case, and a batch of two lets a
worker hold one request while it polls for another. The frames are shorter than
the real ones but every field is longer than one byte except the one-byte field.
The deque grows from 1 to 4, which three pushes bring about. `MaxTickets`, `MaxWrites`, `MaxPushes`,
`MaxStarts` and `MaxNow` cut off further calls; all are guards of the action
that begins a call, so calls in progress run to their end. The library's
instances are the least at which each data structure has a first, a middle and a
last element, or one more of something than fits. All configurations
disable the deadlock check: a server without requests, a
destroyed object and a bounded number of calls all legitimately stop.

The timer wheel of `library` leaves re-arming by a full turn to `timer_rearm`: that
case violates `NeverEarly`, and when the bucket's vector reallocates the code's
iterators dangle; the model stops there (`undefined`). A clock of 9 ticks covers
two turns of the wheel; a run of the reactor may begin at any of them.

### Fairness

* `MpmcQueue`, `Seqlock`: a thread inside a call keeps running (weak fairness),
  and a compare-and-swap that is possible again and again succeeds some time
  (strong fairness). The code's `Backoff` makes repeated loss unlikely but does
  not exclude it, so `AlwaysDrained` and `AllReturn` say what happens without
  perpetual bad luck. Consumers poll. Nobody has to begin a write or a push.
* `ModelExecutor`: threads run; `cv_mu_` is granted to a thread that keeps
  asking (strong fairness on `WorkerLocks` and `StopBarrier`). No fairness for
  `InferAsync`, `Start`, `Stop` or spurious wake-ups.
* `Reactor`: the reactor thread and the pool threads run; a resumed fiber
  suspends some time (a session writes to its socket after each inference);
  every future is answered (the promise of `ModelExecutor`, which the lost
  wake-up breaks); a pool thread that retries against a full external queue
  finds room some time.
* `Session`: as long as its loop runs the reactor resumes a session whose socket is
  readable, or whose client has gone, and a loop that was asked to stop ends. The
  client need do nothing, no inference need be answered, no signal need come.
* `Runtime`: a thread that has begun an operation goes on with it, and a worker
  that holds a request answers it. Nobody has to begin an operation, and no
  worker has to take a request from the queue, so `ResolvedByShutdown` does not
  rest on the notification that can be lost.

The fairness of `Session`, `Runtime` and `Seqlock` is disabled until an operation begins, so `server` can
assume all of it at once. The runs of safety properties only (`library`, and the violated
ones about framing, timers, arenas, reload and the scan) rest on no fairness.

`AllReturn`, `ResolvedByShutdown` and `EndsWithClient` are written with `[]<>` where one
might expect `~>`. `P ~> ~P` is `[]<>~P`; and where `P` once true stays true (a client that
has gone, a shutdown that has returned), `P ~> Q` is `[]<>(P => Q)`.

## Proofs

Each theorem listed here is checked by TLAPS for every value of the constants
that satisfies the module's assumptions. The bounds of the models (`MaxTickets`,
`MaxWrites`, `MaxPushes`, `MaxStarts`, `Frames`, the sets `Metas` and `Execs`) are
constants like the others, so the theorems hold however large they are.

| Module | Theorem | States | For every |
|---|---|---|---|
| `MpmcQueueProofs` | `TypeCorrect`, `SlotsExclusive`, `NeverOverwritten`, `DestructorDrains` | the invariants of run `mpmc_queue`, and `DestroyedIsEmpty` | set of producers and consumers, capacity of at least 2 |
| | `FullOnlyWhenFull`, `EmptyOnlyWhenEmpty` | the action properties `FullIsFull`, `EmptyIsEmpty` | |
| | `Refinement` | `Spec => AbstractSpec`: the ring is a bounded FIFO | |
| `LibraryProofs` | `RingIsFifo` | `SpscSpec => AbstractSpec`: the same of the SPSC ring | capacity, and word size that it divides |
| | `RefusesOnlyWhenFull` | `RefusesWhenFull` | |
| | `EveryPayloadOwned` | `PayloadsOwned` | number of heap blocks, mailbox capacity |
| | `FreeListExact` | `SlabFreeListExact` | number of chunks, objects in a chunk |
| | `ArenaHandsOutDisjoint`, `ArenaOwnsOnce`, `BytesAddUp` | `ArenaDisjoint`, `ArenaBlocksOwned`, `ArenaBytes` | number of blocks, block size, request sizes, alignments, and addresses that malloc may return |
| | `ScanIsFaithful` | `ScanFaithful` | finite set of directories and versions, every content of them, and listing order |
| | `PercentileIsOfTheCall` | `PercentileRank` | number of buckets and samples, set of latencies |
| | `BatchedLikeAlone` | `BatchLikeSingle` | set of shapes and buffer sizes, batch size |
| `SeqlockProofs` | `Exclusion`, `ReadsAreWhole` | `WritersExclusive`, `NoTornReads` | set of writers, readers and words |
| `WorkStealingDequeProofs` | `ReturnedOnce`, `NoneLost`, `OppositeEnds` | `NeverTwice`, `NothingLost`, `Ends` | set of thieves, initial capacity, number of pushes and so of resizes |
| `ModelExecutorProofs` | `RequestsHaveOnePlace`, `QueueSizeIsExact`, `MetricsAddUp`, `NobodyOrphaned` | `OnePlace`, `QueueSizeExact`, `MetricsAccount`, `NoOrphans` | finite sets of requests and workers, queue capacity, batch size, number of starts |
| `ReactorProofs` | `HandlesHaveOneHome`, `PendingIsExact` | `OneHome`, `PendingExact` | set of fibers, finite pool, queue capacity, counter width |
| | `TimersFireOnTime`, `TimersInTheWheel`, `NoTimerEarly` | `FiresOnTime`, `InTheWheel`, `NeverEarly`, each under `RearmsOffTurn` | number of buckets, tick length, set of timers and delays, and clock readings |
| `SessionProofs` | `FramingKept` | `FramedUnlessHeaderSplit` | size of each field, number of frames and elements, and way the stream is cut |
| `RuntimeProofs` | `CallsKeepTheirExecutors`, `NoWorkersLeft` | `CallsKeepExecutors`, `Quiet` | finite sets of models, metadata, executors, calls and administering threads |
| | `PointersStayValid` | `ValidUntilReload` | |

Every proof module also has the theorem that its inductive invariant holds
(`Invariance` in `MpmcQueueProofs`, `Inductive` in the others; `WheelInductive`,
`SlabInductive`, `ArenaInductive`, `BytesInductive`, `ScanInductive`,
`HistogramInductive` and `TorchInductive` for the components that share a proof
module; for `SpscQueue` and `Actor` it is a step of the theorem). Apart from
`PayloadsOwned`, which only lacks its types, none of the checked properties is
inductive; TLC agrees with their strengthenings on instances like those of the
runs.

`DestroyedIsEmpty` and `InTheWheel` are stated for their theorems; no run checks them.

### Assumptions

The proofs use the named assumptions of the modules, which TLC evaluates in the
runs. Beyond types they say:

* `CapacityAssumption`: the MPMC ring has at least 2 slots (the template demands
  it). `SpscAssumption`: `WordSize % Capacity = 0` (both are powers of two in the
  code) and `WordSize > Capacity + 1`. The second came out of the proof: with one
  slot and a word of two values the ring that is full and the ring that was
  overrun would look the same. With 64-bit indices every power-of-two capacity
  satisfies it.
* `ThreadsAssumption`, `Writers \cap Readers = {}`, `HoldersAssumption`: different
  roles have different names. A thread that plays two roles in turn appears under
  two names, which only adds interleavings.
* `ReactorAssumption`: the counter is wider than the queue and the pool together
  (2^64 against 1024 + 4).
* `ArenaAssumption`: malloc's blocks do not overlap. Block `b` lies in the `b`-th
  of the stretches of `ArenaStride` addresses, at a distance in `Residues` from
  its start; the assumption says that a block of any size that is asked for fits.
  The stretch is a multiple of every alignment, so `Residues` alone decides how a
  block is aligned. That a later block has a higher address is
  the model's choice; no property depends on it.
* `HistogramAssumption`: a latency is less than 2 to the number of bits, which is
  64 in the code.
* `RearmsOffTurn` is not an assumption of the module but a hypothesis of the three
  theorems about timers: no callback re-arms with a delay that is a whole number
  of turns of the wheel (512 ticks). It cannot be dropped: `timer_rearm` shows what
  happens otherwise.
* `~reloaded` is likewise a hypothesis, inside the property `ValidUntilReload`:
  `load_model` has not been called since the runtime exists. `runtime_reload` shows
  that it is needed.
* Finiteness of the sets whose cardinality a counter is compared with, and that
  the values standing for "nothing" are not names of things.

That capacities are powers of two is not needed: the models compute slots with
`%`, which is what `& mask` does for those capacities.

### The arguments

`MpmcQueue`. That a slot has one owner depends
on what the slot's sequence number says about tickets a lap apart. `IndInv`
states for each ticket `t` near the window `dequeue_pos .. enqueue_pos` what its
slot looks like: a pushed and not yet popped ticket is published
(`sequence = t + 1`, the element in place) or its producer is still at work
(`Filled`); a ticket that can be pushed next is open (`sequence = t`, no object)
or the consumer of ticket `t - Capacity` has not released it (`Free`). To this
come what a thread at each label knows (`ProducerInv`, `ConsumerInv`,
`PusherInv`, `PopperInv`), that a ticket has one claimant (`ClaimedOnce`) and
that a destroyed queue is drained (`Dead`). The step that carries the argument
is the compare-and-swap: position and sequence number were read at different
times, but the counters only grow, so a successful compare-and-swap proves that
the sequence number read earlier is still the slot's. Arithmetic about slots
(`Slot(t)` is injective on any window shorter than the capacity) is a lemma of
its own. The refinement maps both operations to their successful
compare-and-swap.

`SpscQueue`. `RingInv` says that the distance from `head` to `tail`, modulo the
word, is at most the capacity, that exactly the slots of that window hold
objects, and that the index of the other side which a thread read earlier errs
only on the safe side (`SlotsApart`, `Distances` and `OwnSlots` are the modular
arithmetic). The refinement mapping reads the FIFO off the ring from the oldest
element that has not been moved out; the store to `tail` is the push, and the
move out of the slot is the pop, ahead of the store to `head`. A refinement of the
FIFO may refuse at will, so `RefusesOnlyWhenFull` is a theorem of its own: the head
loaded at the test is the present one, and the distance is then exact.

`Actor`. `ActorInv` is the property for each block separately: a block on the
heap has exactly one owner among the message variables and the places in
mailboxes that still have a holder, and a free block has none. Each operation
changes the owner of at most one block in and one out.

`Seqlock`. `seq_` is twice the number of completed writes plus one for the writer
inside (`Accounted`); a writer whose compare-and-swap would succeed has read an
even number (`CasEven`), so it finds nobody inside; the words outside a write
all hold the last completed one (`Settled`). For a reader: as long as `seq_` is
what it read, the words it has copied are those of write `s / 2`. The second load
therefore decides whether the whole copy is good.

`WorkStealingDeque`. The items at the positions `top .. bottom - 1` of the current
array are the ones pushed and not returned, in the order they were pushed; every
retired array agrees with the current one on the positions from the `top` at
which a thief may still win its compare-and-swap. `ThiefInv` says so of each
thief: if `top` is still what it read, the item it read is the oldest. `OwnerInv`
says how far `pop` has lowered `bottom`, and that between the lowering and the
load of `top` no thief can reach the youngest item unless it is the last.

`ModelExecutor`. `Places` gives every request its place, the queue or one batch,
without repetition; `Control` ties the labels of callers, workers and owner to
`stopped_`, the mutex and the batches (a joined worker has an empty batch, a
destroyed executor an empty queue); `SizeInv` and `MetricsInv` add to what is in
the queue, or answered, the threads that stand between two steps: those that have
pushed or popped and not counted, and those that have counted an outcome and not
fulfilled its promise. Cardinalities of sets that gain or lose one thread
are lemmas of their own.

`Reactor`. `Once` and `Apart`: no handle is twice in one place or in two places.
`PublishInv` ties each entry of the external queue that cannot be popped yet to the
pool thread that is publishing it, `LoopInv` says what the loop holds at each
label, `PendingInv` is the counter modulo its width.

`Session`. While no header field was cut, the position in the stream is
`served * FrameBytes` plus the fields of the current frame already read
(`Aligned`), and the payload loop has read no more than it asked for
(`PayloadInv`).

`Runtime`. Every executor with workers is in `executors_` or in the hands of one
thread that registers or stops it (`TableInv`, `HeldInv`, `BusyInv`), and a call
keeps the executor it is inside of alive through the `shared_ptr` (`CallerInv`).
None of this speaks of metadata, so it holds whatever threads load, reload,
register and unregister at once; it is `IndInv`, and `Quiet` and
`CallsKeepExecutors` follow. Until the first reload there is a second invariant on top of
it, `MetaInv`: while something is being loaded there is no executor and no other
operation (`ServingInv`), the registry owns what it lists (`RegistryInv`,
`LoaderInv`), and what an executor or a registration points to is listed
(`UserInv`). So nothing that is in use is freed before the end of `main`, when no
executor is left.

`TimerWheel`. `WheelInv`: an entry is in the bucket of its tick (`EntriesOK`), a
timer is in a bucket at most once, and each timer has fired as it should or is
still ahead of the walk (`TimersOK`). A past tick does not mean that a timer has
fired, because `initialize` jumps; the invariant says instead that the present run
has not yet come to the bucket of a timer that is due and has not fired (`Unmet`:
none of the ticks handled since `run_tick` is at or after the timer's tick and
shares its bucket). For a timer set for a later tick than `run_tick` that is its own
tick, for one that was jumped over the first tick of the run with that bucket,
which is at most a turn away; hence `FiredWell`. `RunKeeps` is the step that begins a run:
nothing is handled yet, so `Unmet` holds of every timer that waits. While
callbacks run, the bucket is split at `mid` into timers of later turns and timers
that are due now (`Middle`). `stable_partition` is a permutation (`PlaceOf` is one
to one), and an addition by a callback lands in another bucket by `RearmsOffTurn`.
`fired` and the iterator are parameters of the invariant because a callback may
add a timer between the two updates.

*Induction over data.* The library's induction theorems take operators as
parameters, which the provers cannot instantiate, but first-order forms suffice: a
non-empty set of naturals has a least element (`Least`, from the library's
`NatLessThanWellFounded`), and a recursion over `0 .. n` whose step is given as a
function has a solution (`Recursion`, from `Least`). The walks over chains and free lists, the sums over buckets,
`Pow2`, the folds of `Product` and `FlattenSeq` and the sums over finite sets are
all unfolded with these.

`Slab`. `Listed`: for a usable slab there is a sequence of slots that the stored
pointers run through from the head to null, without repetition, and that holds
exactly the free slots of its chunks. `allocate` takes its first element,
`deallocate` puts one in front, a new chunk is a sequence of its own, a move hands
the sequence over. That `FreeList`, the walk the property is stated with, lists
this sequence is one induction at the end.

`Arena`. `next` leads to a younger block (`NextUp`), so the chain from a block is
the one set that contains it, is closed under `next` and in which every other
element has a predecessor (`IsChain`); each change of the chain is checked
against these conditions and not by walking it. `Ownership`: blocks in chains are
live and the chains of two arenas have none in common. An allocation is in a block of its arena that is
not behind the head, and in the head's block below the bump pointer (`Inside`);
this is what `reset`, which goes back to the first block, and the slow path
need. For the byte counts, sums over finite sets are developed from the
recursion they are defined by (`Additive`, `SumGrows`, `Covers`): a sum does not
depend on the order, and it is monotone. `BytesInv` then says that each block's
mark lies within the block, and is 0 in blocks behind the head; that the sizes of a
chain add up to at most the total; and that the allocations add up to at most
what is filled, where the head's block counts up to the bump pointer.

`ModelRepository`. `ScanInv` says of the entries visited so far what the scan
promises of all of them: the registry holds what a directory with a unique name
asks for (`RegisteredAsExpected`), each is counted once, and a model is Ready only
if something was counted as loaded. The version chosen does not depend on the
order in which versions are listed because the walk keeps the greatest one that
has a file.

`LatencyHistogram`. Buckets only grow. So what the first walk has added up is the
sum of some counts `v` between those at the call and the present ones, and the
target is a percentile of `v` (`TargetSet`); what the second walk has added
up below bucket `i` is at least the sum below `i` at the call and at most the
present one. The second walk therefore stops in the range.

`TorchBackend`. The rows of `n` tensors of `k` rows, put one behind the other, have row
`r` of tensor `i` at place `(i - 1) * k + r` (`Stacked`), and `ceil(n * k / n) = k`, so
`chunk` cuts where `cat` has joined; for `k = 0` there are `n` empty pieces.

### Model-checked only

* Liveness (`AlwaysDrained`, `AllReturn`, `StopReturns`, `Woken`,
  `EndsWithClient`, `ResolvedByShutdown`): fairness is outside the prover's reach.
* `FrameRoundTrip` and `CorruptionDetected` of `Codec`: the checksum is computed with
  the bitwise operators of the community modules, which are recursive and cost the
  prover its arithmetic.
* The properties that the code violates: `Answered`, `StopEndsTheLoop`, `Framed`,
  `ArenaFreesAll`, `ErrorsIsolated`, and, without the hypotheses of the theorems about
  them, `NeverEarly` and `NoDangling`.

## What is not modelled

* Inside LibTorch, and the trimming and splitting of configuration text, logging,
  huge pages and CPU pinning: library calls or sequential text processing.
* The io_uring backend: a stub that discards completions; the server uses epoll.
* `MetricsServer`: a thread that accepts, writes one page and closes. Its `stop`
  writes `listen_fd_` while the thread reads it, which is a race whose outcomes
  are the system's.
* The end of the process: `main` destroys the reactor while threads of the static
  `ContinuationPool` may still schedule fibers on it, and promises broken by the
  runtime's end throw on those threads. Nothing in the code orders these, so
  there is no property to state beyond what the code plainly lacks.
* Real time: deadlines and delays are nondeterministic choices (the 50 ms
  deadline of `infer_async`, during which the reactor thread stands still; the
  batching delay).
* Short sends of a response, the life of file descriptors and coroutine frames
  (a finished session's frame is never destroyed), callbacks of `Seqlock::write`
  that throw, the observers `size`/`empty`, and the awaitable interface of
  `Task<T>`, which the server does not use.
* A constructor of `T` that throws inside `SlabAllocator::allocate` (`slab.hpp:78-82`):
  the slot has left the free list by then and is in use by nobody.
* Whether a request's input has as many elements as its shape says: the session
  does not test it, and the models have no bytes behind a shape.

## Plan

1. Done: the queue and its proof, the other concurrent containers, the
   executor, the reactor with the continuation pool, the session, the timers;
   the runtime with registry and reload; allocators, actors, codec, histogram,
   LibTorch batches and the repository scan.
2. Done: the proofs above, of every safety property that the runs find to hold,
   except for the codec.
3. Left: the codec, for which the checksum would have to be written without bitwise
   operators. Eight modules hold theorems; further ones about library components
   belong in `LibraryProofs`.

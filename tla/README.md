# TLA+ models of the Rain runtime

Rain is a header-only C++23 asynchronous runtime: coroutines on one event loop
per core, an epoll reactor, a timer wheel, cancellation by `std::stop_token`, a
pool of threads for blocking work, and combinators over tasks. This directory
models it in TLA+, checks it with TLC on small instances, and proves the safety
properties of all its components with TLAPS, for every value of their constants. Paths below are relative to `src/src/`.

## The system and its parts

| Part | Source | Model |
|---|---|---|
| Channel, a bounded queue between threads | `sync/channel.hpp` | `Channel`, its abstract form `BoundedFifo`, `ChannelProofs` |
| ThreadPool over a Channel | `runtime/thread_pool.hpp` | `ThreadPool` (extends `Channel`), proofs in `ChannelProofs` |
| spawn_blocking bridge, pool to loop | `runtime/bridge.hpp` | `Bridge` (over `BoundedFifo`) |
| Files | `fs/*.hpp` | `File` (extends `Bridge`), `FileProofs` for both |
| EventLoop, spawned tasks, accept awaiter | `async/event_loop.hpp`, `net/accept_awaiter.hpp` | `EventLoop`, `EventLoopProofs` |
| Task, JoinHandle, block_on, retry and pipes | `async/task.hpp`, `runtime/runtime.hpp`, `async/combinators.hpp` | `Task`, `TaskProofs` |
| when_all, when_any, timeout | `async/combinators.hpp` | `Combinators`, `CombinatorsProofs` |
| Timer wheel, SleepAwaiter | `async/timer.hpp` | `TimerWheel`, `TimerWheelProofs` |
| Epoll reactor, I/O awaiters, close | `async/io_reactor.hpp`, `net/io_awaiters.hpp`, `net/socket_fd_ops.hpp` | `Reactor`, proofs in `RuntimeProofs` |
| Streams: read, write, send_file, connect, accept | `net/stream_io_ops.hpp`, `net/tcp_*.hpp` | `Stream` (extends `Reactor`), proofs in `RuntimeProofs` |
| Executor: cores, faults, stopping | `runtime/executor.hpp` | `Executor`, proofs in `RuntimeProofs` |
| Runtime, Builder, signals | `runtime/runtime.hpp`, `async/signal.hpp` | `Runtime` (extends `Executor`), `RuntimeProofs` |
| Addresses, socket options, Result, metrics, spinlock | `net/`, `core/`, `sync/spinlock.hpp` | no: conversions, system calls, values |

How they interact: a coroutine suspends in an awaiter, which registers its
handle with the reactor or the wheel and may install a stop callback. The loop
polls, collects the handles that became ready, and resumes them in a batch. A
coroutine that awaits another transfers control to it, so a resumed handle runs
a whole chain up to its next leaf. Other threads reach a loop through `submit()`
and the stop requests, which write an eventfd. A worker of the pool reaches it
through an eventfd of its own per call. The Executor runs one loop per thread, and
stops all of them; the Runtime owns the Executor and the pool.

## Modules

Each component module declares the component's state as variables, with the
member each one stands for in its comment, and one action per operation. An
action covers the whole of the code that runs without letting another actor in:
a critical section, or a coroutine's run from one suspension to the next.

**Channel.** Threads call `send`, `try_send`, `recv`, `try_recv`,
`recv_timeout` and `close`. A thread's phase says in which condition variable it
sleeps, or that it was woken and has yet to look at its predicate again, so that
others may come first. `notify_one` wakes some waiter; spurious wake-ups and
timeouts are actions. History variables record what was accepted and received.
`BoundedFifo` is the promise: atomic enqueue, dequeue and close.

**ThreadPool** extends `Channel` with the worker loop, jobs (which may submit to
the pool that runs them) and `shutdown()`, in its three steps: the exchange of
`shutdown_`, the close, the join.

**Bridge** takes the pool's channel as `BoundedFifo`, which `Channel` implements.
A call's `BlockingState` is the set of its holders (the frame and the function
object). The worker's steps, run, write, notify and release, interleave with the
loop's, with the pool's shutdown and with the destruction of the loop.

**File** says what the functions of the bridge do. One `File` is opened by a call
of its own and shared by the operations in flight: its `State` is freed, and its
descriptor closed, by the last holder. An operation takes the mutex and transfers
cell by cell, since the system calls may be short; `close()` takes the same mutex
on the loop's thread. Calls that name a path open a descriptor of their own.

**EventLoop** follows `run()`: resume a batch, clean up, exit check, poll, collect
what fired, drain. A task's own behaviour is left open: it suspends, returns,
spawns, and asks for a stop. Reactor and wheel are the choice of which waits a
pass completes. Foreign threads take `submit`, `request_stop` and
`request_graceful_stop` in their steps: for the last, the stop callbacks run one
by one on the calling thread, beside the owner. The eventfd is registered
edge-triggered, so its counter and its place in epoll's ready list are separate.

**Task** has the frames below `block_on()`: the main coroutine, the coroutine that
awaits its `JoinHandle` and moves the result out, and the tasks the main coroutine
awaits, which may await others to any depth and wait in any number of leaves. The
main coroutine is `retry`, `with_deadline_check` or a pipe. A frame has a
continuation, a token it hands to what it awaits, and a result. A leaf takes the
token if its awaiter has `set_cancellation()` (sleep, readiness, connect, accept); a
frame that waits in one that does not (`spawn_blocking`, signals, the reactor's
`async_read` and `async_write`) is in `deaf`, and a stop does not reach it. Awaiting the value of a task that threw is
undefined in the code, and any result in the model.

**Combinators** keeps the shared state of the racers, their leaf waits and their
stop sources. The combinator and its tasks are chosen at the start.

**TimerWheel** keeps the four levels, the slot map with its generations and free
list, cascading, and the race of timer, reactor and cancellation for one
WaitState. Time has `Units` per tick, so that the casts to ticks truncate. `tick()` is
one step for the clock and one for each id it visits: `todo` counts the levels that
it has not finished, and the ids that `std::exchange` took out of a slot are in the
place `InHand` until the loops of `cascade()` (`CascadeId`) and
`process_current_slot()` (`FireId`) reach them. No other call happens meanwhile, as
all of it runs on the loop's thread. The order in which the levels cascade, the
recursion of `cascade()`, is the choice of the first level in `Tick` and the way down
in `CascadeEnd`.

**Reactor** keeps, per descriptor, the two waiters and what the kernel has:
membership in the epoll set, the armed directions (cleared by each one-shot
event), readiness. The timer wheel is the choice of which live timers expire.

**Stream** adds the coroutines that use the reactor: each tries its system call,
waits when the call would block, and tries again. Sockets are counts of bytes to
read and of free space; peers move and die at any moment. `write_all` and
`send_file_all` go through rounds under one deadline, `connect()` carries a raw
descriptor until it hands it on or closes it, and closed numbers are reused.

**Executor** has the owner thread, one worker per core and the watchdog of
`graceful_stop()`; every loop over the cores is one step per core. A loop is what
`EventLoop` shows of it. **Runtime** adds the pool's threads, the destructor in
the order of the members, and one signal: which threads block it, which loops have
a signalfd for it, and where a signal sent to the process ends. A set-up may add
signals and spawn tasks and then fail. The loops are destroyed one at a time, in any
order, as the standard does not say in which order a vector destroys its elements;
each `SignalSet` restores the mask that it found.

The `MC` modules add symmetry sets and sets of inputs for TLC; the other modules
are checked as they are.

## Runs

Nine runs pass; three show a disagreement between the code and what its comments
or tests say.

| Run | What it shows |
|---|---|
| `Channel` | No wake-up is lost on either side (`NoLostWakeup`), `close()` leaves nobody blocked (`ClosedBlocksNobody`), and the channel refines `BoundedFifo` (`ImplementsFifo`) |
| `ThreadPool` | `shutdown()` drains (`ShutdownDrains`) and returns (`ShutdownReturns`); an accepted job is held up only if all workers are blocked in a submit of their own (`AcceptedJobsFinish`) |
| `EventLoop` | A task is lost only to a stop callback on a foreign thread (`NoOrphanedTask`), no submit goes unnoticed (`NoLostSubmitWakeup`), a handle is queued at most once (`HandlesResumableOnce`), a callback never outlives its awaiter (`CallbackFrameAlive`), `run()` returns after a stop (`StopReturns`) and drains after a graceful one (`GracefulDrains`) |
| `EventLoopOrphan` (violated) | `GracefulStopCrossCore` fails if another thread calls `request_graceful_stop()` |
| `TimerWheel` | Slot map, ids and entries are consistent and die with their wait, and `next_deadline()` finds a timer if there is one (`SlotMapConsistent`); no timer is late and delays below level 2 are exact (`FiresOnTime`) |
| `TimerWheelEarly` (violated) | `NeverEarly` fails for a timer that cascades from level 2 |
| `Stream` | No waiter is left disarmed (`WaitsAreWatched`), none is pointed to after its wait (`EntriesAlive`) or completed twice (`CompletedOnce`); `write_all` sends each byte once and in order (`WriteAllExact`), every descriptor has one owner (`FdsOwned`), calls end (`CallsEnd`) |
| `Combinators` | The first decision stands (`WinnerStands`), parent and racers are woken once (`WokenOnce`), all results are in place (`AllResultsInPlace`), races and their losers end (`RacesEnd`) |
| `WhenAnyMoved` (violated) | `ReturnsTheResult` fails for types whose move empties the source |
| `File` | The shared state outlives its users (`SharedStateAlive`), the result is not read while it is written (`NoResultRace`) and arrives (`OutcomeDelivered`, `CallsReturn`); a descriptor is not closed under an operation (`FileOpenInUse`), no read sees half a write (`ReadsWhole`), nothing leaks (`NothingLeaks`) |
| `Runtime` | After a join or the destructor no thread is left and the first fault was reported, and no loop is destroyed beside another thread (`JoinIsComplete`), work is cut short only for a reason (`NoWorkCutShort`), no thread takes a signal from the signalfds until one of them is closed (`SignalsCaught`), the owner's mask is restored (`MaskRestored`), FailFast, `graceful_stop()` and the destructor come to an end (`StopsEnd`) |
| `Task` | Each suspended frame has exactly one thing that will resume it (`OneWaker`), after a stop no leaf that takes a token is left waiting (`TokenReachesLeaf`), `block_on()` returns (`BlockOnReturns`) the result the combinator promises (`BlockOnResult`) |

Each module states its type invariant as documentation of its variables; for all
but the part of Stream above the reactor it is proved.

What the violated runs show:

* `request_graceful_stop()` runs stop callbacks on the calling thread, where the
  thread-local `g_event_loop` is null; the accept awaiter's callback marks the
  wait cancelled, deregisters it and notifies nobody. `Executor::graceful_stop()`
  makes this call from the main thread, and then ends by its watchdog.
* `cascade()` re-places an entry after the time has moved on; with a distance of a
  lap of level 0 less one tick it lands in the slot processed in the same tick.
  At the code's sizes a delay of 16640 ticks fires at tick 16385.
* `when_any` and `timeout` discard the value `await_resume()` moved out of the
  shared state, and move from that state again.

### Bounds

Bounds are constants named in the modules: `MaxSends` (Channel, ThreadPool),
`MaxSuspends` (EventLoop), `MaxTicks` and `MaxScheduleTick` (TimerWheel),
`MaxWaits` (Combinators), `MaxAttempts` and `MaxChildren` (Task), `Bytes` and
`Buffer` (Stream), `Size` (File). Why they suffice for the cases of interest:

* Channel: four threads, capacity 2 and five sends. Two items fill the channel, two
  senders wait in `not_full_`, and one more send can overtake them; two or three
  receivers wait in `not_empty_`. The proofs cover all sizes.
* ThreadPool: capacity 1, two workers and five sends let both workers block on
  their own full queue, or a worker and a client, with every worker running a job.
  `ShutdownDrains` is proved for all sizes.
* EventLoop: one task in flight, two services, one foreign thread that may call
  everything. The safety properties are proved for all sizes.
* TimerWheel: levels of two slots; delays of every level, started in each of the
  first eight ticks, which are all the phases of the levels below the last, and
  followed for more than a lap of the wheel. Two waits reuse one index. Both
  invariants are proved for all sizes, delays and numbers of waits. The violated
  run takes every delay for one wait, with four slots in level 0.
* Stream: one descriptor and two coroutines: both directions at once, two
  operations that want the same direction, and a number that is closed and reused.
  A buffer of one byte makes each `write_all` of two bytes take two rounds. The
  safety properties are proved for all sizes.
* Combinators: up to three tasks of two suspensions each; the safety properties are
  proved for all finite sets of tasks.
* File: the opening call and two others, two workers, a queue of one: run, queued
  and refused at once. Two cells are enough for a read to see half of a write. The
  invariants are proved for all calls, workers, capacities and sizes.
* Runtime: two cores; a fault on each, in either order, against all calls, with
  and without a pool, signals in either set-up, both or none, set-ups that fail
  before or after that, and either loop destroyed first. The safety properties
  are proved for every number of cores.
* Task: three attempts of `retry` or two stages of a pipe, and five tasks below the
  main coroutine, awaited one after another or one in another to any depth that five
  tasks give. The number of leaves a task waits in is not bounded. The safety
  properties are proved for any number of attempts and tasks.

Deadlock is not checked where the system may stop: when all calls have returned,
the loop has left `run()`, or a bound is reached. `Stream` checks it.

### Fairness

* ThreadPool, File, Runtime: weak fairness of each thread's own steps: the
  operating system runs every thread that can run. Jobs and functions end; nobody
  has to call anything. The tasks of a core need not end; a loop that was asked to
  stop returns, which `EventLoop` shows.
* EventLoop: weak fairness of the owner's steps, since epoll_wait has a timeout of
  at most 10 ms, and of a foreign thread's call once begun. Strong fairness of the
  completion of waits of ordinary tasks: a peer or a timer completes them in
  some pass. No connection has to arrive for a service, so `GracefulDrains` rests on
  cancellation.
* Stream: weak fairness of the loop and of the running coroutine; strong fairness of
  the next batch, of the event of a descriptor and of the expiry of a timer, which
  are possible again in each pass. This assumes that no coroutine occupies the loop
  for ever with calls that succeed at once. It is an assumption about the program
  and its peers: nothing in the code bounds how long a batch may run.
  Peers need not do anything.
* Combinators: the loop resumes what is ready and the wheel ends the sleep of a
  timeout. No other leaf has to complete.
* Task: the loop runs, every leaf completes, and no task awaits one thing after
  another for ever (strong fairness of the return of the tasks below the main
  coroutine); `block_on()` has no timeout.

## Proofs

The proof modules hold for every set of threads, tasks, calls, descriptors and
coroutines, every number of cores, every capacity and every bound. They assume only
what the modules' `ASSUME`s say. `QueueLemmas` says what the operations on queues do
to the elements of a queue that holds each of them once. Where a safety property is
not inductive, the invariant it needs was first checked by TLC with the constants of
the component's run.

**Channel.** The inductive invariant is the conjunction of the type invariant and
its safety invariants: those the run checks, `FifoConservation` and
`CapacityRespected`. They need each other: a receiver that was woken and finds the
queue empty goes back to sleep, which loses no wake-up only because every item is
covered by as many woken receivers as it needs; the same holds for senders and free
places; close wakes both sides. Lemmas about `NotifyOne` bound what a notification
does to the counts of woken threads. `NothingAcceptedAfterClose` and the refinement
of `BoundedFifo` follow step by step: each action is an enqueue, a dequeue, a close
or a stutter.

**ThreadPool.** `PoolUsesChannel` shows that every step of the pool is a step of the
channel or leaves it alone (`PoolSpec => Spec`), so that the channel's theorems hold of
the pool's channel. `ShutdownDrains` is proved from `PoolInv`: the jobs that have ended
and those in the hands of a worker are as many as the items received, and a worker has
left its loop only with the channel closed and empty, which no step undoes. The
theorem assumes that there is a worker: a pool of none, which the constructor allows,
never runs what it accepts.

**EventLoop.** `HandlesResumableOnce` is not inductive. `HandleInv` adds that the
three queues are duplicate-free and disjoint, that a queued coroutine is neither
running nor registered, that a pending wait is registered and its frame
suspended, and that nothing is left of a batch outside of its phase;
`CallbackFrameAlive` is part of it, as a callback may only queue a suspended
coroutine. `NoLostSubmitWakeup` is inductive with the type invariant.
`NoOrphanedTask` is proved from a further invariant: a registered wait is pending,
and each suspended frame is queued, registered, or was cancelled by a foreign
thread; `EventLoopOrphan` shows that the last alternative happens.

**TimerWheel.** It is assumed that levels have slots, that a tick has units, and that
delays are positive (`SizesAssumption`, `DelaysAssumption`): nothing is assumed of the
ratio of the levels or of how long a delay is, so the theorems cover delays beyond
`kMaxDelay`. Neither `SlotMapConsistent` nor `FiresOnTime` is inductive. `WheelInv`
adds to the first

* `ClockInv`: the wheel keeps no tick count, only a position per level, modulo its
  size. In every state, inside a tick too, the position of level l is the number of
  slots of level l that the wheel has passed (`Passed`, the ticks divided by the span of a
  slot and rounded up), modulo the size of the level;
* `IdsIssued` and `HandlesOwn`: an id in the wheel or in the hands of a wait is not of
  a later generation than its index, so the next generation is new and a stale id can
  never become live again;
* `EntriesInTime`: an entry due in tick D is in the slot of its level that the digits of
  D name, and the number of that slot is not one that was passed; an entry with a short
  delay is also less than a lap ahead of its level, so it is not met early.

The argument for `FiresOnTime` is the step of a cascade: what is in hand is due in this
tick or later, and `place()` puts it into a slot ahead of the wheel, or into one of a
lower level that the same tick still handles (`Place` and `Passed` are compared by lemmas
on division and remainder). A pending timer has a live entry, a live entry is in the
wheel, and its slot is not passed, so its deadline is not either. That the last clause
stops at level 2 is necessary: `TimerWheelEarly` shows a longer delay fire early.

**Reactor**, as `Stream` drives it. None of `WaitsAreWatched`, `EntriesAlive` and
`CompletedOnce` is inductive. `ReactorInv` says that slots and waits agree in both
directions (`SlotHolds`, `HoldsSlot`), that every slot in use is armed
(`WaitersArmed`), and that the two queues hold the completed waits once each
(`QueuesHold`). The hard step is the resumption of a wait that timed out, which
leaves its slot by descriptor and direction, and not by identity: it removes
nobody else only because such a wait still holds its slot then. That in turn needs
that it is resumed before the next poll (`TimedOutInPass`), where an event would
empty the slot for others to take.

**Stream.** `FdsOwned` is proved with the fact that two `connect()` calls never
carry the same descriptor (`OwnersInv`). `WriteAllExact` is proved from `ExactInv`:
at every moment the kernel has exactly the first `total` bytes, and a `write_all`
that is about to return Ok has counted all of them.

**Bridge and File.** None of the properties is inductive. `QueueInv` says that a
closure exists exactly while its function is in the pool's queue or with one worker;
that keeps the `BlockingState` alive (`SharedStateAlive`). `CallInv` says what the loop
may conclude from an eventfd that was written: the function has ended and its worker
only has to release it, so nobody writes the result while it is read
(`NoResultRace`, `OutcomeDelivered`). For the File, `InUseInv` and `FileOpenInUse`
say that one operation at a time is in the mutex and that the descriptor is open
meanwhile. `ReadsWhole` is proved from `ContentInv`: outside of a write the file is
empty or all of one write; during a write the first cells are the writer's and
the rest are as before; what a reader has read is the beginning of the file. All of that
holds until a write fails half-way or someone writes by path (`torn`).

**Combinators.** `WinnerStands`, `WokenOnce` and `AllResultsInPlace` are inductive
together with `CountInv` and `ResultsInv`: `remaining` is the number of racers that
have not returned, so exactly one return brings it to zero and wakes the parent; a
racer that has returned is in no leaf, so a stop does not queue it again. The proof is
about finitely many tasks, as the parameter pack of the code has. `MaxWaits` is not 0,
since the sleep of a timeout suspends once.

**Task.** `OneWaker` needs that the loop's two queues hold the frames to be resumed
once each (`QueueInv`) and that continuations form a chain in both directions: a frame
that awaits is the continuation of exactly one frame that has not ended (`ChainInv`).
`TokenReachesLeaf` is proved from `TokenInv`: below a frame with the token every
frame has it, and after a stop a frame with the token that is pending is in a leaf that
does not take one. `BlockOnResult` needs
`JoinInv`, which follows the result from the main coroutine through the `JoinHandle`
into the slot of `block_on()`, and `ScriptInv`, which says what the combinator has
seen when it goes on and what it promises when it ends.

**Executor and Runtime.** The type invariant is not inductive alone: `stop()` goes
on to what `after` says, which is a state of the owner only because a stop has begun
(`StopInv`). `OwnerInv` ties the owner's position in its loops over the cores to the
state of each core, `WatchdogInv` and `LifeInv` say when the watchdog and the pool
exist, and that loops are destroyed only when every other thread is gone;
`JoinIsComplete` follows from these. `NoWorkCutShort` needs that only a stop, a
fault under FailFast or the watchdog asks a loop to stop (`StopInv`).
`SignalsCaught` and `MaskRestored` need which threads block the signal while no
`SignalSet` has been destroyed, and what the owner's mask is afterwards, if there was
one set (`SignalInv`).

Only model-checked: liveness, everywhere, since fairness and ENABLED are out of reach
of TLAPS 1.4.5.

## Not modelled

* Memory orders: mutexes, atomics and stop sources are sequentially consistent. The
  fields a foreign stop callback shares with the owner without a lock are read and
  written in whole steps.
* Failures of eventfd writes, which need a counter of 2^64 - 1, and of re-arming a
  registered descriptor. `EpollReactor::rearm_or_erase` ignores the latter.
* Closing a descriptor that has waiters, and destroying a coroutine that waits in the
  reactor: the closing drops the waiter and does not wake it, and a `connect()`
  destroyed while it waits leaks its descriptor. `Stream` closes a stream only when
  no operation on it is in progress.
* The reactor's own awaiters `async_read` and `async_write`, whose entries have no
  WaitState, and moving or destroying a reactor. Errors of awaiters on a thread
  without an event loop.
* `schedule_at` with a deadline in the past; the wall clock. The widths of a `TimerId`:
  an index has 24 bits and a generation 40, and both are natural numbers here. That a
  stale id never becomes live again holds in the code for 2^40 uses of an index and
  2^24 timers at a time.
* A submit to a loop that is leaving `run()` is in the model and is dropped there, as
  in the code. `next_deadline()` may return a later deadline than the earliest, when
  that is in a higher level; the cap of 10 ms on the poll bounds the delay.
* A `JoinHandle` the program keeps after its task has ended: the loop destroys the
  frame it points to. `JoinHandle::request_stop()` stops a source no awaiter is
  given.
* Combinators of combinators: the awaiters of `timeout` and `when_any` take no token.
* The pool's threads exist before any set-up blocks a signal, so `SignalsCaught` is
  about a Runtime without a pool. Of two `SignalSet`s the one created first unblocks the
  signal when it is destroyed, though the signalfd of the other may be open, and the one
  created second restores a mask in which the signal is blocked; so `SignalsCaught`
  ends with the first destruction, and `MaskRestored` is about one set. All of these
  cases are in the model, and neither property says anything about them.
* Coroutines that call `spawn_blocking` while `~Runtime` has destroyed the pool and
  not yet stopped the cores.
* `write_at` on a File opened for appending, whose offset the kernel ignores.
* Addresses, listener sockets and options (conversions and system calls without shared
  state), diagnostics (counters nothing reads), the core value types, and the spinlock
  (its mutual exclusion is assumed for the cross-core queue).

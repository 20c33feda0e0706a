# Verification of Allpix Squared

This directory holds a formal model of Allpix Squared: TLA+ modules, TLC
configurations that check them on small instances, and proofs that TLAPS checks
for every value of the constants. It covers the core framework
(`src/src/core`, `src/src/exec`), and those simulation modules, objects and tools
that have a protocol of their own: the propagation of charge carriers, the
readers of event input, the interface to Geant4, and the storage of objects.
Paths below are relative to `src/src/core` unless they start with `src/`.

Allpix Squared simulates silicon detectors. Its physics lives in plugins, the
*simulation modules*; the core loads them, lets them exchange *messages*, and
takes *events* through the list of modules, in parallel on a thread pool. What
is hard to get right in the core is a two-queue thread pool whose tasks put
themselves back, modules that must see events in order, per-thread random
engines, exceptions and signals that arrive in any stage, and a registry of
listeners that refers to modules by raw pointers. Outside of the core it is
state that outlives an event or a call: data of a thread that the next event
inherits, references between objects, positions in a file, and groups of charge
carriers that move on clocks of their own.

## 1. Inventory

| Component | Source | State | Operations | Hard behaviour | Modelled in |
|---|---|---|---|---|---|
| SafeQueue | `module/ThreadPool.tpp` 14-173 | `queue_`, `priority_queue_`, `completed_ids_`, `current_id_`, `valid_`, two condition variables | `pop`, `push` (standard, priority), `complete`, `invalidate` | one mutex given up inside loops, one-thread notifications, a reserve for tasks that come back | `OrderedQueue`, `SafeQueue` |
| ThreadPool | `module/ThreadPool.{hpp,tpp,cpp}` | `run_cnt_`, `done_`, `paused_`, `exception_ptr_`, static maps of thread numbers | `submit`, `worker`, `wait`, `checkException`, `setPaused`, `destroy` | count updated late and without a lock, pause gate, exceptions in every stage, an unguarded map | `ThreadPool` |
| Histograms | `histograms/ThreadedHistogram.*` | one histogram per thread number | `Fill`, `Merge` | slots chosen by the number of the thread, found in an unguarded map | `ThreadPool` |
| Event loop | `module/ModuleManager.cpp` 700-926, `module/Event.cpp` | per-event `module_iter` and random state, `events_*` counters, `stop_requested` | `run` and the task it submits | events overtake each other, sequential modules, buffering, abort, stop | `EventOrder`, `EventLoop` |
| Loading of modules | `module/ModuleManager.cpp` 160-486, `config/ConfigManager.cpp` 129-161 | `modules_`, `id_to_module_`, instance configurations | `load`, `create_unique_modules`, `create_detector_modules` | instances replaced or dropped while their delegates are registered, constructors that throw | `ModuleLoader` |
| Messenger | `messenger/*` | `delegates_`, `delegate_to_iterator_`; per event `messages_`, `sent_messages_` | `bindSingle`, `bindMulti`, `registerFilter`, `dispatchMessage`, `hasReceiver`, `isSatisfied`, fetching | three kinds of names, base-type listeners, raw pointers | `Messenger`, `ModuleLoader` |
| Allpix and the executable | `Allpix.cpp`, `src/src/exec/allpix.cpp` | `stop_source_`, `exception_ptr_`, `has_run_`, the managers; signal, bridge thread | `load`, `initialize`, `start`/`run`, `wait`, `checkException`, `finalize`, signals | four threads of control, a stop request between any two stages | `Lifecycle` |
| Objects, ROOTObjectWriter, ROOTObjectReader | `src/src/objects`, `src/src/modules/ROOTObject*` | pointers between objects, trees, branches, the table of references of the process | `petrifyHistory`, `loadHistory`, `run` of both modules | branches that appear late, reference numbers that repeat in every event, events read at the same time | `ObjectStore` |
| Charge propagation | `src/src/modules/{Generic,Transient}Propagation` | remaining charge of a deposit, a stack of calls, summary bins, statistics | `run`, recursive `propagate` | secondaries propagated in the middle of a step, traps longer than the integration time | `ChargePropagation` |
| Interactive propagation | `src/src/modules/InteractivePropagation` | clocks, positions and states of all groups, states of the step before | `run`, `propagate_together` | groups on their own clocks that feel each other, moved one by one in place; a first step divided at every deposit | `InteractivePropagation` |
| Input readers | `src/src/modules/Deposition{Reader,Generator}` | position in the file, number in hand | `run`, `getParticles` | five ways to match event numbers, end of the file in the middle of an event | `InputReaders` |
| DepositionGeant4 and the run managers | `src/src/modules/DepositionGeant4`, `src/src/tools/geant4` | thread-local: seeds, tracks, hits, scatters, state of Geant4 | `run`, hooks of tracks and steps, dispatching | exceptions that leave Geant4 in the middle of an event, track numbers that start again | `DepositionGeant4` |
| Geometry | `geometry/*` | detectors, models, closed flag | look-up, lazy closing | real-valued; only the closing is stateful | not modelled |
| Configuration | `config/*` | sections and keys | parsing, look-up | single-threaded text processing | not modelled (instance configurations are, in `ModuleLoader`) |
| Utilities, physics models | `utils/*`, `src/src/physics` | - | formatting, formulas over reals | no protocol | not modelled (their outcomes are choices of the propagation modules) |
| Other simulation modules | `src/src/modules` | none between events | `initialize`, `run`, `finalize`, thread hooks | any of them may throw, abort, stop | by what their hooks may do, in `EventLoop` |
| Mesh converter | `src/tools/mesh_converter` | - | parsing, interpolation | no protocol | not modelled |

How they interact: `main()` drives the `Allpix` object, which starts a thread
for `ModuleManager::run()`; a bridge thread polls the signal variable and calls
`Allpix::interrupt()`. `run()` submits one task per event to the `ThreadPool`,
whose workers pop tasks from the `SafeQueue`. A task calls `run()` of each
module in turn, and a module dispatches messages into the boxes of the event's
`LocalMessenger`. A task that meets a sequential module out of turn stores the
state of its random engine and submits itself as a priority task. Exceptions
travel worker -> pool -> `run()` -> `Allpix::run()` -> `main()`. In an event,
deposits come from Geant4 (`DepositionGeant4`) or from a file (`InputReaders`),
are divided into groups and moved by one of the propagation modules, and end up
as pixel charges and hits, which `ObjectStore` writes with their relations. The
readers and `ROOTObjectWriter` are sequential modules: `EventOrder` is what they
rely on, and `InputReaders` and `ObjectStore` take their events in that order.

What makes each of them correct:

- **SafeQueue**: identifiers complete in order and none is lost; a task that is
  put back always finds a place; no thread sleeps when it could proceed; all
  member functions are atomic to their callers.
- **ThreadPool**: `wait()` returns only when nothing is left; the first
  exception reaches the owner; destruction always ends. **Histograms**: no entry
  is lost, which holds only if no two threads meet in the map of their numbers.
- **Event loop**: a sequential module sees one event at a time and in order;
  an event draws the same random numbers whether it was buffered or not; no
  event is lost or counted twice; the run ends.
- **Loading**: one instance for each name, the one with the highest priority;
  nothing refers to a module that is gone.
- **Messenger**: every module finds its messages, once and in order; it runs
  exactly if its required messages have come.
- **Life cycle**: stages keep their order, a thread that was initialized is
  finalized, whatever is interrupted or thrown is finalized or reported, and the
  process ends.
- **Storage**: an entry number means the same event in every tree; a relation
  that was stored leads to the same object of the same event.
- **Charge propagation**: no carrier is lost or invented; statistics, message
  and summary tell the same story.
- **Interactive propagation**: groups keep step with each other and feel the
  same sources, so that forces are mutual and the order of visits is irrelevant.
- **Input readers**: each event is given what the file holds for it, once.
- **DepositionGeant4**: an event is simulated with its own seeds and dispatched
  with its own data, whatever happened to the event before it.

## 2. Modules

```
OrderedQueue     atomic contract of the queue (also an abstract specification)
 |- SafeQueue      the monitor that implements it          MCSafeQueue
 |    `- SafeQueueProofs
 |- ThreadPool     workers, count, pause, exceptions,      MCThreadPool
 |    |            thread numbers and histogram slots
 |    `- ThreadPoolProofs
 `- EventLoop      ModuleManager::run                      MCEventLoop
      | implements EventOrder
      `- EventLoopProofs
Lifecycle        executable, single-threaded run           MCLifecycle
 `- LifecycleProofs
Messenger        registry and boxes, operations only
 `- ModuleLoader   loading, one event, destruction         MCModuleLoader
      `- ModuleLoaderProofs
FileAccess       files of events: what both have in common
 |- ObjectStore      objects written and read back         MCObjectStore
 |- InputReaders     five formats of event input           MCInputReaders
 `- FilesProofs      of both
Carriers         deposits and settings of time
 |- ChargePropagation        groups and secondaries        MCChargePropagation
 |- InteractivePropagation   groups that feel each other   MCInteractivePropagation
 `- PropagationProofs        of both
DepositionGeant4 one worker thread with Geant4             MCDepositionGeant4
 `- DepositionGeant4Proofs
```
`map` in `PROJECT.json` names the source lines of every definition. In each
module operators whose comment begins with "Mutant" are deliberately wrong
variants of the definition below them; no specification uses them. They show
that each property can fail.

**OrderedQueue.** The queue as atomic operations: `queue` (standard),
`buffered` (the identifiers of the priority queue, which is ordered by
identifier), `completed`, `current`, `valid`. `PriorityReady` and
`StandardReady` are the two predicates of `pop()`. `Complete` and `Advance` are
the two critical sections of `complete()`: an identifier is entered, and then,
with the mutex given up in between, `current_id_` advances.

**SafeQueue.** The same state seen by threads. An action is one critical
section, or one notification after the mutex was released; `popWaiters` and
`pushWaiters` are the threads blocked on the condition variables, spurious
wakeups included; `iter` is the iterator that `complete()` keeps while it does
not hold the mutex. Its callers are those of the event loop.

**ThreadPool.** The worker loop from `initialize_function` to
`finalize_function`, with `run_cnt_` (modulo `Modulus`, which stands for 2^32),
the pause gate (evaluation of the predicate, blocking, notification and wake-up
are separate steps, since `setPaused()` takes no lock), `exception_ptr_`, and
the main thread that submits, waits, checks for exceptions and destroys the
pool. `CountUp` is a step of its own because the code increments `run_cnt_`
after the push. A worker registers its number in static maps that no lock
guards: `raced` remembers the threads that met an insertion there, after which
anything may happen to a look-up. `slots`, `filling` and `fills` are a
`ThreadedHistogram`, whose `Fill()` reads and writes the slot of the number of
its thread. There is one pool in the life of the process, as in the program:
`thread_cnt_` is a static counter that is never reset, and numbers go out in the
order in which the workers register.

**EventLoop.** `ModuleManager::run()` and its task. `position` is `module_iter`
of each event, `engine` the thread-local random engine (seed and number of
draws), `saved` the state an event stores when it is buffered, `drawn` a
history of what its modules drew. A module may skip (required message
missing), throw `MissingDependenciesException`, `AbortEventException`,
`EndOfRunException` or anything else; the constant `Faults` says which of these
an instance considers, together with the interruption by a signal. The pool is
reduced to what the loop sees of it.

**EventOrder.** What the loop promises to modules: events overtake each other,
but an event is in a sequential module only when all earlier ones are finished.

**Lifecycle.** `main()`, the run thread and the signal bridge for a run without
multithreading, where `ThreadPool` has no threads and executes each task inline.
`initializeThread()` and `finalizeThread()` are called for one module after the
other (`threadInits`, `hook`, `threadFinals`), and each call may throw.
It covers exceptions in every stage, the destruction of `Allpix` during stack
unwinding, and the death of the process (`death`: null pointer,
`std::terminate`, `abort`).

**Messenger, ModuleLoader.** `Messenger` has the state and operations of the
registry and of the boxes of one event. `ModuleLoader` is the specification: it
constructs the instances of each section one delegate at a time, refuses one
that does not forward its detector (`InvalidState`), places, replaces or drops them, processes an event and destroys the modules. The
priorities of instances that share a name, and the delegates each constructor
binds, are chosen in `Init`; a filter decides nondeterministically. Delegates do
not change after loading and every event has its own boxes, so one event stands
for all. Sequences are selected and folded by recursive functions (`Picked`, `after`
in `Deliver`), since an operator that takes an operator, such as `SelectSeq`,
cannot be reasoned about by the provers.

**ObjectStore.** Two jobs after each other. `ROOTObjectWriter` gets the events
in the order of the sequential modules, filters their messages, turns pointers
into reference numbers (`Petrified` says which ones) and fills all trees; a tree
or branch that appears late is filled up with empty entries. `ROOTObjectReader`
reads entry after entry while other events are still alive, in the table of
references that the whole process shares (`crowded` remembers the events that
were not alone). An object is its class, detector and generation; physical data
is left out.

**ChargePropagation.** One event of `GenericPropagation` or
`TransientPropagation`, a state after each step of a group. `stack` holds the
nested calls of `propagate()`: where a step sets carriers free, those of the
opposite type are propagated by a call in the middle of that step, while charge
and samples of the caller wait in its local variables (the entries of `stack`).
How long a step takes and what it leads to are free choices. The groups of the
message carry the number of carriers; that `TransientPropagation` sends the sum of
the induced pulses as their charge is a formula over reals, and no property is
about it.

**InteractivePropagation.** One event of the module that moves all groups
together. `run()` divides the deposits; `propagate_together()` goes in outer
steps, in which it samples the summary, freezes the states of all sources
(`previous`), and visits the groups one after the other. A group moves if its
own `clock` is inside of the outer step: for a whole timestep, or in the refined
first step up to its end. Instead of forces a group has the *evaluations* of the
field in its step (`felt`): the time and the set of sources of each Runge-Kutta
stage. The refined step is divided at the times of all deposits and then into a
power of two of pieces. Outcomes of a step (motion, halt, recombination, a trap
of some duration) are free. Times are doubles, that is, some of the integer multiples
of the smallest one: `FlAdd` and `FlSub` are their sums and differences as they are rounded, of which
`ArithmeticAssumption` says that they keep the order, that adding to zero is exact, that a
timestep is never lost in the rounding (or the loop would not end), and that
the refined step meets its end within `time_sync_tolerance` (or the module throws).
`fmod()` and comparisons are exact, as they are for doubles. The merging of
boundaries that are closer than the tolerance (lines 6327-6356) is left out.

**InputReaders.** The event loop calls the module once for each event, and a
step reads one record. `CSV`, `ROOT` and `BLOCKS` (a tree without sequential
numbers) are formats of `DepositionReader`, `GENIE` and `HEPMC` of
`DepositionGenerator`. Each has actions of its own, because each compares,
consumes and keeps records in its own way. `newline` says whether the file ends with a
newline: without it `getline()` sets `eof()` along with the last line of a CSV
file, and the reader drops the line (`Readable`).

**DepositionGeant4.** One worker thread with the thread-local state that
outlives an event: queue of seeds, state of Geant4, the track manager, the hits
of the sensitive detectors and the list of scatters. Geant4 is external: it
calls the hooks for the start of a track, each step, and the end of a track, may
create secondaries, and refuses a run if its state is not idle. Events end
regularly, by an `AbortEventException` while primaries are generated
(`AbortPrimaries`) or tracked (`AbortEvent`, a negative step included), or by another
exception that the event loop does not catch (`stranded`). For a sensor without
hits `dispatchMessages()` dereferences `std::min_element()` of an empty map
(`SensitiveDetectorActionG4.cpp:185-187`); what it reads is not used, as there is
nothing to send, so the model has no outcome for it.

## 3. Runs

Each run finishes within about two minutes with two workers of TLC. Every
configuration says `CHECK_DEADLOCK FALSE`, since a run of the program ends:
hanging is excluded by liveness properties instead (`EventuallyDrained`,
`InvalidateReleases`, `Terminates`, `EventsFinish`).

| Run | Instance | What it shows |
|---|---|---|
| `SafeQueue` | 3 workers, 4 tasks, 1 standard place, 3 priority places; 774k states | no completion is lost (`NoLostCompletion`); held tasks always have room, a task that comes back is not behind `current_id_`, and each task is in one place (`QueueSound`); no wake-up is lost (`EventuallyDrained`), invalidation releases everyone (`InvalidateReleases`), and the monitor implements the atomic queue (`RefinesOrderedQueue`) |
| `ThreadPool` | 2 workers, 3 tasks, one pause, exceptions in all stages | `run_cnt_` is exact up to pushes not counted yet (`RunCountExact`), `wait()` returns only when all is done (`WaitReturnsDrained`), task exceptions reach the owner (`TaskExceptionsReachMain`), the run ends unless a worker hangs at the pause gate of a pool that nobody destroys (`Terminates`) |
| `EventLoop` | 2 workers, events 2..4 after 1 skipped, 2 modules with the second sequential, all faults; 538k states | mutual exclusion and order in sequential modules (`SequentialExclusion`, `SequentialOrder`), continued random sequences (`EngineContinues`), exact counters (`FinishedCountExact`), no lost event (`NoEventLost`), termination, and the refinement of `EventOrder` |
| `Lifecycle` | 2 modules, events 2..4, signals and exceptions everywhere | order of stages (`StagesInOrder`), exceptions reach the exit code (`ExceptionsReachExit`), a run is followed by the finalization of all modules (`RunsAreFinalized`), all modules or none finalize the thread, and how often (`ThreadHooksPaired`), single-threaded events are never postponed (`InTurn`), termination |
| `ModuleLoader` | 4 instances in 3 sections, two of one name with all priorities, 2 message types, 2 names, 1 detector, up to 3 messages, required filters that refuse some or all of them; 1.7M states | the registry matches the modules that exist (`RegistryExact`), the best instance and its configuration are kept (`BestInstanceRuns`), messages arrive once and in order and single bindings are unambiguous (`MessagesTrue`), `run()` is called exactly if the required messages came before (`RequiredBeforeRun`) |
| `ObjectStore` | 3 events of 4 kinds, 2 filters each for writing and reading, 2 events alive at a time | every event gets its own objects (`ReadBackExact`), and stored relations lead where they led (`LinksRestored`) |
| `ChargePropagation` | 3 lists of deposits, both modules, groups of 2, one level of secondaries, samples at 0 and 2 | carriers and statistics add up, and in `GenericPropagation` agree with the charge of the message (`AccountsExact`), each sample holds each group once (`SummaryExact`) |
| `InteractivePropagation` | 5 lists of deposits, 3 settings, outer steps of 10 up to 24, samples every 11, traps of 1 and 14, 3 significant bits; 658k states | the division is exact and all charge is counted (`GroupsExact`), groups keep step but for those that the refined step leaves behind by rounding (`LockStep`), feel the same sources (`SourcesCommon`), and are sampled while they are there (`SummaryTrue`) |
| `InputReaders` | every file with numbers from 0 to 3, no items, items outside or a shower; 4 events from 1, 2 or 4 on, CSV files with and without a final newline | events are given what the file holds for them, once and in order, and just a last line without a newline is lost (`DeliveredExactly`), particles and parents are right (`ParticlesTrue`), reading comes to an end (`EventsFinish`) |
| `DepositionGeant4` | 2 sensors, 3 events of 2 particles, 2 tracks for each, 3 steps | own seeds (`SeedsMatch`), own data (`OwnDataOnly`), true relations of particles and tracks (`HistoryTrue`) |

Two runs, `SafeQueueIterators` and `LifecycleInterrupt`, end in a violation on
purpose: each checks a sentence of the sources or the documentation that the
code does not keep (section 5).

Why the bounds are enough. Threads do not differ from each other except by what
they hold. Two workers suffice for one to overtake the other. The queue needs
three: one iterator is stale only if two others advance past it, and a
notification that goes to the wrong thread needs a right one. The real queue
has 128 places per thread (standard) and 256 (priority, configurable); the
model takes the smallest values the constructor accepts, one standard place and
as many priority places as workers, where the limits are reached at once. There
is at least one task more than the buffer has places, so that a push can block
and a pop must be held back. One skipped event exercises the marking of the
identifiers that are never submitted. For the messenger the two instances of a
name in different sections, with all nine pairs of priorities, give every
outcome of the placement; three messages are a first one, an overwriting one,
and one of another name or type in between. The abstract `Modulus` = 8 makes
`run_cnt_` wrap below zero as the real counter does, and exceeds any count that
can occur.

`ObjectStore` needs two events alive and a third to be written between them, and
kinds of events in which a branch is missing, appears late, or is there from the
start. In `ChargePropagation` a step is shorter or longer than the distance of
the samples, a detrapping ends before and after the integration time, and a
secondary has a secondary that is cut (`MaxLevel`, `MaxSecondaries` bound the
model). `InteractivePropagation` has deposits at 0, inside the first outer step
(1, 3 and 7), at its end (10), at the integration time (24) and beyond it (28);
a trap that ends in the step it began in or the next, and one that lasts longer than a step;
and a summary step that is no multiple of the timestep. With three significant bits
the refined step from a deposit at 1 ends at 8 instead of 10, where the group is
left behind, and the outer step from 20 ends at 32. `InputReaders` enumerates all files over four numbers, so that the first
event of the run is before, in or after the file. `DepositionGeant4` needs an
event that fails between two others (`MaxTracks`, `MaxSteps` bound the model);
its two sensors are interchangeable, and the run, which has no liveness property,
uses their symmetry. No other run uses symmetry. The proofs of section 4 do not
depend on any of these bounds.

Fairness. `FairSpec` of each module of the core assumes that the operating
system schedules every thread that can go on (`WF` of each worker and of the
main thread) and that every module returns from its hooks. Condition variables
give no more than that: which waiter a notification wakes is arbitrary, and
nothing is forced to wake spuriously. Nobody is obliged to stop, pause, signal
or throw; in `ThreadPool` whoever pauses the pool resumes it, as a pause without
a resume suspends the run by design. `InputReaders` has weak fairness of `ReadInput`:
a module that was called goes on reading, while nobody has to start another
event. The other modules have no liveness property and no fairness: they are
bounded sequential code.

## 4. Proofs

All theorems are for arbitrary constants that satisfy the named assumptions
(`QueueAssumption`, `ThreadsAssumption`, `PoolAssumption`, `EventLoopAssumption`,
`LifecycleAssumption`, `CarriersAssumption`, `PropagationAssumption`,
`InteractiveAssumption`, `ArithmeticAssumption`, `MessengerAssumption`, `LoaderAssumption`,
`EventsAssumption`, `StoreAssumption`, `InputAssumption`, `Geant4Assumption`): any finite set of workers, any
numbers of events, skipped events and modules, any set of sequential modules,
any sets of faults, any queue sizes the pool accepts.

**Queue.** `SafeQueueProofs` proves the two invariants of the queue and that it
implements `OrderedQueue`. They rest on one inductive invariant, `QueueInv`:
types; `OrderInv`, that the standard queue holds the youngest pushed tasks in
increasing order, every other one that is not complete is buffered or in the
hands of one worker, and none is below `current_id_`; `IterInv`, that the
iterator of a thread inside `complete()` is at the end, on a completed
identifier, or on one below `current_id_`; and `NoLostCompletion` itself.
`IterInv` is why the loop of `complete()` is right in spite of the iterator
another thread may have invalidated: what such an iterator still reads is
never `current_id_`, so the thread only goes on if the next identifier is
really in the set (`NextInLine`). Then the thread that moved
`current_id_` looks at the least identifier left, and by `OrderInv` this is the next in
line if that is complete at all (`LossTurn`); a thread that leaves the loop
looked at another one. For `QueueSound` there remains the room for the tasks
that are held, which every step keeps: taking a buffered task and pushing one
back change its place only, and a new task is taken only while one place per
worker is free. In the refinement (`QueueSteps`) each action is the
atomic operation of its name, a further turn of `complete()` is `Advance`
(`AdvanceStep`, again by `NextInLine` and `OrderInv`), and waiting,
notifications and returns stutter.

**Pool.** `ThreadPoolProofs` proves `RunCountExact`, `WaitReturnsDrained` and
`TaskExceptionsReachMain`, one after the other. `RunCountExact` is inductive
(`CountInv`) with the order of the tasks (`OrderInv`), so that a task pushed
back is a new one in the priority queue, and with the room kept for it
(`RoomInv`), so that it is not refused while the queue is valid, which it is
until an exception is saved or the pool destroyed (`ValidInv`): every step then
moves the count and what it counts alike (`LoadMoves`), where counting down
below zero and wrapping is no exception (`ModPlus`, `ModMinus`). That `wait()`
may rely on the count needs more, because zero modulo 2^32 is also reached with
pushes that are not counted yet. Every submitted task is complete, queued or held
unless a task failed (`PlaceInv`); a completed one that is next in line has a worker
still in `markComplete()` (`TurnInv`); the queues and the workers together are
fewer than the modulus (`QueueBound`, `UncountedBusy`), so the count is zero as
a number; and then every worker that is not idle is about to count a push of a
task that is over already (`WaitDrains`). Nothing can start from there
(`DrainedStays`). Hence an exception of a task that the main thread does not meet in
the submission loop was saved before `wait()` returned (`ThrewInv`,
`OutcomeInv`).

**Event loop.** `EventLoopProofs` proves the typing invariant `TypeInv`
(`TypeCorrect`: `TypeOK`). It is more than `TypeOK`, which is not inductive: a
worker's event must be a submitted number, which comes from the contents of the
queues.

Order: `SequentialExclusionHolds` and `SequentialOrderHolds`.
The argument is in `OrderInv`: the standard queue holds the youngest submitted
events in increasing order; every event that left it (`Passed`) is held by one
worker, buffered or complete, never two of these; and all of them are at or
above `current_id_`. `SequenceInv` adds that the event in a sequential module is
equal to `current_id_`: it was when the turn was tested, and `current_id_` can
only move past it when that very event is marked complete, which its worker
does later. Two workers in a sequential module would hold the same event, and
an earlier event would be below `current_id_`.

Counts: `BufferNeverFullHolds` follows from `RoomInv`, that buffered
and held events together fit into the priority queue, which `pop()` maintains
because it leaves one place for each worker. In `FinishedCountExactHolds` the difficulty is that one completion may move `current_id_` over many
identifiers, without changing the sum of `current_id_` and the size of
`completed_ids_`. `BufferNeverFull` has no run: what keeps it is the queue's, and
`QueueSound` is about that with more tasks than places.

`NoEventLostHolds`: a run that was neither stopped nor
failed has finished and counted every event. While nobody threw or destroyed the
pool (`Calm`), the queue is valid and every submitted event is complete, in a
queue or with a worker (`PlaceInv`); that a push back is not refused is
`RoomInv`. A completed identifier at `current_id_` has a worker that is still in
`markComplete()` (`TurnInv`), and workers only end when the calm does
(`EndInv`). So when `wait()` returns, with empty queues and no task running, all
identifiers are below `current_id_` (`Drained`), and this lasts until the run
returns (`PhaseInv`). The count then follows from `FinishedCountExact`.

`EngineContinuesHolds`: the state of the random engine of an event that was started is stored with the event, or in the engine
of the worker that moves it, seeded for that event and drawn from as often as
the event has drawn (`EngineInv`); an event that is still in the standard queue
was never started. Refinement: `ImplementsEventOrderHolds`. The
refinement mapping takes the abstract sequence to be occupied by `current_id_`
while some worker is in a sequential module, which `OrderInv` and `SequenceInv`
make the event of that worker. `StartEvent`, `EnterModule`, leaving or failing
in a sequential module and `MarkComplete` are the abstract `Start`,
`EnterSequence`, `LeaveSequence` and `Finish`; all other steps, those of the
main thread included, stutter.

**Life cycle.** `LifecycleProofs` proves `StagesInOrder`, `ExceptionsReachExit`,
`RunsAreFinalized`, `ThreadHooksPaired` and `InTurn`, for any number of modules and events.
The inductive invariant `Inv` has six parts besides the types: which stages of
`main()` and of the run thread can coincide (`ThreadsInv`), how far the modules are
initialized and finalized in each (`StagesInv`), when the pool exists
(`PoolInv`), which modules have been called to finalize the thread, and how often, while
the loop over them is on its way (`HookInv`), where an exception is on its way
to the exit code (`ThrewInv`), and which identifiers are complete (`TurnInv`).

**Interactive propagation.** `PropagationProofs` proves `GroupsExact`, `LockStep`,
`SourcesCommon` and `SummaryTrue` for any deposits, settings, timestep,
integration time and detrapping times, and for any arithmetic that satisfies
`ArithmeticAssumption`: that rounding keeps the order is enough to compare the clocks of
groups, which are rounded sums of their own, with the outer steps. None of the
last three is inductive, because a
group is in one of two outer steps: the one in progress, or the next one if the
loop has passed it. The invariant therefore speaks of `Due(g)`, the outer step
in which `g` is due next: its clock is not before `Due(g)` while it can move, unless
the refined step left it behind (`ClockInv`); a group that ended did so before `Due(g)`,
and what was frozen for the field agrees with that (`EndInv`); of its traps only the last can
be pending, and the others were over in time (`TrapInv`); and drifts and evaluations
belong to the outer step (`DriftInv`, `FeltInv`). `SampleInv` says the same
of past samples: what `InSummary` decided from states and clocks at the time of
a sample is what the history says now. That the first boundary after a given one
exists, in the refined step, is the least element of a set of numbers
(`LeastNat`, from the well-foundedness of `<`).

`GroupsExactHolds` adds up charges. The sum of the community modules is a recursive
function that takes the elements of a set in an order of its own (`CHOOSE`). That it
does not depend on this order (`SumLess`), and splits over disjoint sets (`SumUnion`),
is shown at a counterexample of the least cardinality. The groups of a deposit are a row of
equal portions and a rest, which add up to its charge (`RowSum`); the groups are
those of the deposits throughout the event (`DividedInv`); and what was counted by state
is the charge of the groups that ended (`CountsInv`).

**Charge propagation.** `PropagationProofs` also proves `AccountsExact` and
`SummaryExact`, for any deposits, step times, detrapping times and numbers of
secondaries, and calls nested as deep as one likes. Both hold only at the end of the event; the
invariants say what holds at every step when the calls still on the stack are
counted in. `CarriersInv`: of each type, the charge that finished, that
moves, that remains of the deposit in work and that was lost is what was created
and what the deposits so far had. `StatisticsInv`: the statistics, and what the calls on
the stack have collected from those that returned to them, are the amounts of all groups
that finished. `SamplesInv`: a sample has what the finished groups contribute to it, and
what those on the stack recorded in it. For that the running index of each group must be
right about which samples are settled (`Indexed`): those before its start, and those
with a step at or after their time. A step settles just the samples that
are due, which are consecutive (`DueCount`), and the end of a group adds exactly the rest of
its contribution (`FinalContribution`). The sums are over sequences (`Held`), each with a
weight of its own, so that the effect of a step (`StepHeld`) and of a return
(`ReturnHeld`) on the stack is shown once for all of them.

**Loading and messages.** `ModuleLoaderProofs` proves, for any sections,
delegates, priorities, filters and messages, the four invariants of the run and
`HasReceiverAgrees`. Three invariants build on each other. `ListInv` is about the
lists: instances being constructed and instances listed are different, names are
unique in the run list, and every instance before `next` is used, in one of the lists,
or was dropped for another of its name (`BestInstanceRunsHolds`). `RegInv` is about
the registry: the delegates of a module are registered in the order it binds them,
each at the place its name and type give, once, and `location` leads back to it
(`RegistryExactHolds`). This needs `ListInv`, because the destruction of an instance
has to remove all of its delegates, and those of no other. `EventInv` states
for every registered delegate what its box holds as a function of the messages
sent (`Reads`): the numbers of those it heard, in order, less those its filter
refused; and that `run()` was called just if every required delegate had heard
something by the module's turn (`JustRun`). A message is delivered to three lists of
delegates one by one; that every addressed delegate is met exactly once comes from
the registry (`ReceiversExact`), and the loop over them is followed by way of the first
position where the claim would fail (`DeliveredToAll`), as the provers have no induction.

**Storage.** `FilesProofs` proves `ReadBackExact`, `LinksRestored` and `TreesAligned`,
for any contents of the events, any filters, and any number of events read at the same time.
`FileInv` says what every branch holds: for each event written, the objects of the
messages that belong into the branch, which are none for the events before it was
created, since a message always finds its branch (`WriteEventInv`). So one entry number selects
the records of one event in all trees, as many as were kept (`RecordsExact`).
`SequenceInv` adds that without an aborted event the entries are numbered as
the events. For the pointers, different objects of an event have different
reference numbers (`NumberInjective`: the number of an object counts those first
referenced no later), and a stored pointer to a stored object has one
(`ReferencesAre`). Registering the records makes each number lead to the copy in this
event, whatever it led to before (`RegisteredCopies`), so all pointers are
restored at once (`LoadRestores`); and the table only refers to events that are alive
(`TableInv`), so that a number found in it by an event read alone is its own.

**Input.** `FilesProofs` also proves `DeliveredExactly` and `ParticlesTrue` of
`InputReaders`, for any set of files and any number of events. Of a file
`InputAssumption` demands only what identifies its contents: events with
increasing numbers, and items whose identity is their order. The argument
is in `InputInv`, and has three parts. `GivenInv` (`Book`) accounts for all items that
were given or are in hand: each comes from a record before the next one to be
read, and that record fits the event in its format's way to compare numbers; they
are in the order of the file; and `DepositionReader` has taken all of the usable ones
it passed. Sequences of items with increasing identities are known by their
elements (`SortedUnique`), so that every equality of two sequences in the property
becomes one of sets, and no recursion over the flattened sequences is needed.
`RegularInv` is about files with all numbers and a final newline (`RegularFile`), where nothing is
passed over: every item of an event that is over was given (`Complete`), and the
number of the next record is that of the event or the next, depending on the
format and on whether reading has begun (`Bounds`); there is no gap by which a reader
could lag behind (`Gapless`). `ParticleInv` says that the list of particles is a
function of the deposits in hand, the first deposit of a track giving its parent,
and `ChargeAppend` that one more deposit adds its charge to one particle.

**Geant4.** `DepositionGeant4Proofs` proves the three invariants of the run, for any
number of events, particles, tracks and steps. `SeedInv` links the seeds queue to
the stage of the run of Geant4: as long as no exception stranded the thread, the queue
has the seeds of the event and nothing else until the first Geant4 event takes
them, and the engine belongs to the event afterwards (`SeedsMatchHolds`). `DataInv`
compares the deposits and scatters collected so far with the history of this
event, and says that they are empty between two events (`OwnDataOnlyHolds`). `HistInv`
is the long one, as track numbers of Geant4 start again in each of its events: a
waiting track is known by its Geant4 event and its number, no earlier
track has that identity, and the number that the manager remembers for its parent
leads to the parent (`Stack`); the numbers of the manager are places in the history
(`Numbers`); each record, deposit and particle carries the place of its own
track (`Records`, `InSensor`), and a track with a hit is kept or is in work and
marked to be kept. Hence the messages have the particles, parents and tracks
of the history (`HistoryTrueHolds`).

**Only model-checked.** Liveness properties (`Terminates`, `EventuallyDrained`,
`InvalidateReleases`, `EventsFinish`), which need fairness, are beyond the
prover.

## 5. Disagreements between the code and what is said of it

Two have a run that exhibits them; the trace is printed by TLC.

1. `SafeQueueIterators` (`module/ThreadPool.tpp:132`). `complete()` gives up the
   mutex to notify while it holds an iterator into `completed_ids_`. Another
   thread in `complete()` can erase that element; the next dereference reads
   freed memory, in a class described as thread-safe. The model treats the read
   as undefined: it yields the old identifier or an element of the set, and the
   other properties of `SafeQueue` hold nevertheless.
2. `LifecycleInterrupt` (`Allpix.cpp:431`). A signal before `load()` makes it
   return early, and `finalize()` then uses the histogram manager that `load()`
   did not create.

Observed while modelling, without a run. Where a name is given, it is a
definition of the module that states the claim and that TLC refutes:

- Core. `ResumeWakesWorkers` (`module/ThreadPool.cpp:92`, `ThreadPool.hpp:238`):
  `setPaused()` stores `paused_` and notifies without `run_mutex_`, so that a worker
  about to block sleeps on a pool that is not paused; `Terminates` excludes
  exactly this hang. `ExceptionsReachMain` (`ThreadPool.cpp:154` and 102): an
  exception of `finalizeThread()`, or of a late `initializeThread()`, is saved
  after the last `checkException()` and dropped. `ThreadFinalizedOnce`
  (`ThreadPool.cpp:178`, `03_new_module.md:218`): after a stop request a pool
  without threads calls `finalizeThread()` twice. The comment at `ThreadPool.cpp:34` says that
  threads are created in an exception-safe way; but if `initializeThread()` of a later module
  throws, no module finalizes the thread, not even those before it, as the
  pool has no finalize function yet (`ThreadPool.cpp:62-70`; `ThreadHooksPaired`
  states it as the code has it). `NumbersUnique` and `FillsCounted` of `ThreadPool`
  (`ThreadPool.hpp:268`, `ThreadedHistogram.hpp:66`): two workers that meet in the unlocked map
  of the numbers may both be left without an entry, share a slot of a
  histogram, and lose an entry of it. `InterruptIgnoresQueue` of
  `EventLoop` (`ModuleManager.cpp:769`, `05_allpix_executable.md:76`): the stop token
  is looked at only while events are submitted; later interruptions are ignored.
- Messenger. The manual (`06_messages.md:27`) lets detector modules receive
  messages that are not bound to a detector, while `check_send()` rejects them;
  messages kept by `registerFilter()` for one type are stored under that type, and
  `fetchFilteredMessages()` only reads the entry of `BaseMessage`; a constructor
  that throws leaves the earlier instances of its section in a vector of raw
  pointers, so that the assertion in `~Messenger()` would fail. `isSatisfied()`
  looks up module and type, not the delegate: the model assumes, as holds for
  the modules in the repository, that a module binds a type at most once.
  `hasReceiver()` does not know of listeners to unnamed messages; apart from
  that it agrees with `dispatchMessage()` (`HasReceiverAgrees`, which is
  proved, but no module calls it).
- Storage. `RelationsSurvive`: the pointer from a pixel hit to its pulse is never
  stored. `MissingIsNoticed`: while two events are alive, a number that was not
  kept in one of them leads to an object of the other. Pixel pulses are written
  but never come back, since the table of creators has none for them
  (`src/src/objects/objects.h:26`, `ROOTObjectReaderModule.cpp:305-312`).
- Charge propagation. `GroupsLimited` (`TransientPropagation/README.md:62`): the
  limit on groups is exceeded by one when the division has a rest.
  `SummaryComplete` (README 75-77): a group is in no sample between its last step
  and its end. `RecordedAsPropagated` (`GenericPropagationModule.cpp:827-834`):
  type and time of the object of a secondary are not those it was propagated
  with.
- Interactive propagation. The comment at `InteractivePropagationModule.cpp:6663`
  expects no halted or recombined group where in fact each of them comes by once:
  its clock ends in the next outer step. `Synchronized` (comment at line 6711: "Synchronize
  every carrier ... to the common outer-step time"): in doubles the committed
  clock of the refined step, `t + (end - t)`, can be just below `end`, which the
  check for synchronization tolerates (64 epsilon) and the test
  `clock < time` of the next step (line 6654) does not, so that the group does not move
  again. `SampledOnce` (TODO at line 3193 on floating point errors): as `fmod()` is taken of a
  time that was added up with rounding, a summary step may have two samples or none. The induced charge of the last drift
  before a trap is booked at the time of the release, also if that is after the
  integration time. The plots of the extension of the cloud include groups that
  are not deposited yet, as a TODO there says.
- Input. A last line of a CSV file is dropped if it has no newline, as
  `DepositionReader/README.md:92` warns. `NumbersMatched` (`DepositionGenerator/README.md:17`;
  `PrimariesReaderGenie.cpp:90-95`, `PrimariesReaderHepMC.cpp:78-82`): a number that is
  missing in the file does not leave its event empty. `HepMCEnds`
  (`PrimariesReaderHepMC.cpp:67` and 73-76): if the file ends before the first event
  of the run, the loop that drops early events does not end.
- Geant4. `EventsIndependent` (`MTRunManager.hpp:31-33`): after an exception that
  is not an `AbortEventException`, data of the thread goes to its next event.
  `NegativeStepAborts` (`StepInfoUserHookG4.cpp:43`): a negative step aborts the
  run of Geant4, not the event, which is dispatched with what it has so far.

## 6. What is left out, and why

- `exception_ptr_` is one variable that is read and written atomically.
- Axes and drawing of histograms, and the ROOT directories of `HistogramManager`.
- No module in the repository throws `MissingDependenciesException`; it is
  modelled as documented, for an event that is not next in line.
- `Lifecycle` covers single-threaded runs, `EventLoop` those with workers; the
  composition of `Lifecycle` with the worker pool is planned.
- Dynamic libraries, output directories, log settings, execution times,
  `can_parallelize_`, and the order of initialization inside one module.
- `hasReceiver()` inserts empty lists into `delegates_` under the mutex, which
  `dispatchMessage()` reads without it. No module in the repository calls
  `hasReceiver()`, and an empty list is the same as none to the model.
- Fields, mobility, diffusion, probabilities, positions and induced charge in the
  propagation modules: formulas over reals. Most of
  `InteractivePropagationModule.cpp` is such formulas, and diagnostics that repeat
  the first step in variants and log the differences without changing the
  result (about 2700 lines between 3477 and 6238).
- Stored configuration and geometry in ROOT files; parsing of a line of input,
  units and coordinates; sources and physics lists of Geant4, and the set-up and
  termination of its run managers.
- The other simulation modules (digitizers, transfer, writers of other formats,
  `DetectorHistogrammer`, `DepositionLaser`, field readers): numerics over the
  messages of one event. What they can do to the framework is in `EventLoop` and
  `Lifecycle`.
- Parsing of configurations, geometry, physics models, units and logging, and the
  mesh converter: data and formulas, no protocol. The share of the implementation
  that the map covers is limited by this: most of its lines are numerics,
  histograms and text.

## 7. Plan

Done, in order of importance: queue, pool with thread numbers and histograms,
event loop, its abstract order, life cycle, messenger and loading, storage of
objects, charge propagation, input readers, Geant4, interactive propagation;
proofs of the queue, of the pool, of the event loop, of the life cycle, of
loading and messages, of stored objects, of the input readers, of Geant4 and of both
kinds of propagation, and of both refinements.

Next, modelling:

1. `Lifecycle` with the multithreaded pool, reusing the outcome of `EventLoop`.
2. `can_parallelize_` and the choice between parallel and inline execution.
3. The chain from propagated charges to hits: `SimpleTransfer`, `PulseTransfer` and
   the digitizers, with the relations of their objects; the clustering of
   `DetectorHistogrammer`.
4. Closing of the geometry on first use.

Next, proofs: every safety property that a run checks is a theorem now. What comes
next belongs to the modelling above: the composition of `Lifecycle` with the pool, shown
to implement what `Lifecycle` assumes of a run, and the invariants of the chain from
charges to hits. Liveness stays with TLC.

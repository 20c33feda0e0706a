----------------------------- MODULE EventLoop -----------------------------
(***************************************************************************)
(* ModuleManager::run: the main thread submits one task per event to the   *)
(* pool, and every worker takes an event through the list of modules.  A   *)
(* module that requires a sequence stops an event that is not next in      *)
(* line; the event is buffered, with the state of its random engine, and   *)
(* continued when all earlier events are complete.                         *)
(*                                                                         *)
(* The queue is the atomic OrderedQueue and the pool is reduced to what    *)
(* the loop sees of it; ThreadPool models the pool itself, and shows that  *)
(* wait() returns when nothing is left to do.                              *)
(***************************************************************************)
EXTENDS OrderedQueue

CONSTANTS
    Workers,    \* the worker threads
    Main,       \* the thread that calls run()
    Skip,       \* skip_events
    Events,     \* number_of_events
    NumModules, \* length of modules_
    Sequential, \* positions of the modules that require a sequence
    Faults,     \* what may go wrong: see Skipped, Abort, EndOfRun, ... below
    Nothing     \* no saved engine state, no seed

Last     == Skip + Events
EventIds == (Skip + 1) .. Last
Threads  == Workers \cup {Main}

ASSUME EventLoopAssumption ==
    /\ Workers # {} /\ IsFiniteSet(Workers) /\ Main \notin Workers
    /\ Skip \in Nat /\ Events \in Nat \ {0}
    /\ NumModules \in Nat /\ Sequential \subseteq 1 .. NumModules
    /\ Faults \subseteq {"skip", "missing", "abort", "endofrun", "fatal", "interrupt"}
    /\ Nothing \notin Nat
    /\ Ids = 0 .. Last
    /\ Reserve = Cardinality(Workers)

VARIABLES
    pc,             \* where each thread is
    event,          \* the event of each worker; for Main the loop variable i
    position,       \* module_iter of each event; 0 before its Event exists
    engine,         \* random_engine of each worker: its seed and draws so far
    saved,          \* state_ of each event: the stored draws, or Nothing
    drawn,          \* history: numbers the modules have drawn for each event
    stopRequested,  \* stop_requested, set by a module
    interrupted,    \* stop_token, set by the signal thread
    exception,      \* the pool has saved an exception
    done,           \* the pool is destroyed
    eventsFinished, \* events_finished_
    eventsAborted,  \* events_aborted_
    outcome         \* how run() is left

stopVars  == <<stopRequested, interrupted>>
poolVars  == <<exception, done, outcome>>
countVars == <<eventsFinished, eventsAborted>>
eventVars == <<event, position, engine, saved, drawn>>
vars == <<queue, buffered, completed, current, valid, pc, event, position, engine,
          saved, drawn, stopRequested, interrupted, exception, done,
          eventsFinished, eventsAborted, outcome>>

Init ==
    /\ QueueInit
    /\ pc = [t \in Threads |-> IF t = Main THEN "mark" ELSE "idle"]
    /\ event = [t \in Threads |-> 0]
    /\ position = [e \in EventIds |-> 0]
    /\ engine = [w \in Workers |-> [seed |-> Nothing, draws |-> 0]]
    /\ saved = [e \in EventIds |-> Nothing]
    /\ drawn = [e \in EventIds |-> 0]
    /\ stopRequested = FALSE
    /\ interrupted = FALSE
    /\ exception = FALSE
    /\ done = FALSE
    /\ eventsFinished = 0
    /\ eventsAborted = 0
    /\ outcome = "none"

Goto(t, label) == pc' = [pc EXCEPT ![t] = label]

-----------------------------------------------------------------------------
(* A worker takes a task: the event continues with the module it stopped   *)
(* at, or starts with the first one.                                       *)

Take(w) ==
    /\ pc[w] = "idle"
    /\ \/ PopPriority /\ event' = [event EXCEPT ![w] = current]
       \/ PopStandard /\ event' = [event EXCEPT ![w] = Head(queue)]
    /\ Goto(w, "taken")
    /\ UNCHANGED <<position, engine, saved, drawn, stopVars, poolVars, countVars>>

StartEvent(w) ==
    /\ pc[w] = "taken" /\ ~done
    /\ position[event[w]] = 0
    /\ position' = [position EXCEPT ![event[w]] = 1]
    /\ engine' = [engine EXCEPT ![w] = [seed |-> event[w], draws |-> 0]]
    /\ Goto(w, "module")
    /\ UNCHANGED <<queueVars, event, saved, drawn, stopVars, poolVars, countVars>>

\* Mutant: a continued event restarts its random sequence.
ContinueEventReseeded(w) ==
    /\ pc[w] = "taken" /\ ~done
    /\ position[event[w]] # 0
    /\ engine' = [engine EXCEPT ![w] = [seed |-> event[w], draws |-> 0]]
    /\ Goto(w, "module")
    /\ UNCHANGED <<queueVars, event, position, saved, drawn, stopVars, poolVars, countVars>>

\* restore_random_engine_state() reads the stored state once.
ContinueEvent(w) ==
    /\ pc[w] = "taken" /\ ~done
    /\ position[event[w]] # 0
    /\ LET draws == IF saved[event[w]] = Nothing THEN 0 ELSE saved[event[w]]
       IN  engine' = [engine EXCEPT ![w] = [seed |-> event[w], draws |-> draws]]
    /\ saved' = [saved EXCEPT ![event[w]] = Nothing]
    /\ Goto(w, "module")
    /\ UNCHANGED <<queueVars, event, position, drawn, stopVars, poolVars, countVars>>

\* A worker of a destroyed pool drops its task and ends.
EndWorker(w) ==
    /\ pc[w] \in {"idle", "taken"}
    /\ done
    /\ Goto(w, "end")
    /\ UNCHANGED <<queueVars, eventVars, stopVars, poolVars, countVars>>

-----------------------------------------------------------------------------
(* The loop over the modules *)

Module(w) == position[event[w]]

NextModule(w) == position' = [position EXCEPT ![event[w]] = @ + 1]

\* The module is given a number of the event's random sequence.
Draw(w) ==
    /\ engine' = [engine EXCEPT ![w].draws = @ + 1]
    /\ drawn' = [drawn EXCEPT ![event[w]] = @ + 1]

\* check_delegates() fails: not all required messages were received.
SkipModule(w) ==
    /\ pc[w] = "module" /\ Module(w) <= NumModules
    /\ "skip" \in Faults
    /\ NextModule(w)
    /\ UNCHANGED <<queueVars, pc, event, engine, saved, drawn,
                   stopVars, poolVars, countVars>>

\* store_random_engine_state() keeps a state that was not restored yet.
StoreEngine(w) ==
    saved' = [saved EXCEPT ![event[w]] = IF @ = Nothing THEN engine[w].draws ELSE @]

\* A module that requires a sequence stops an event whose turn it is not.
Postpone(w) ==
    /\ pc[w] = "module" /\ Module(w) \in Sequential
    /\ event[w] # current
    /\ StoreEngine(w)
    /\ Goto(w, "requeue")
    /\ UNCHANGED <<queueVars, event, position, engine, drawn,
                   stopVars, poolVars, countVars>>

\* Mutant: no check of the sequence.
EnterModuleAnytime(w) ==
    /\ pc[w] = "module" /\ Module(w) <= NumModules
    /\ Goto(w, "running")
    /\ UNCHANGED <<queueVars, eventVars, stopVars, poolVars, countVars>>

EnterModule(w) ==
    /\ pc[w] = "module" /\ Module(w) <= NumModules
    /\ Module(w) \in Sequential => event[w] = current
    /\ Goto(w, "running")
    /\ UNCHANGED <<queueVars, eventVars, stopVars, poolVars, countVars>>

LeaveModule(w) ==
    /\ pc[w] = "running"
    /\ Draw(w)
    /\ NextModule(w)
    /\ Goto(w, "module")
    /\ UNCHANGED <<queueVars, event, saved, stopVars, poolVars, countVars>>

\* MissingDependenciesException, documented to make an event wait until all
\* earlier events are done, leaves the module as a failed sequence check does.
MissingDependencies(w) ==
    /\ pc[w] = "running" /\ "missing" \in Faults
    /\ event[w] # current
    /\ StoreEngine(w)
    /\ Goto(w, "requeue")
    /\ UNCHANGED <<queueVars, event, position, engine, drawn,
                   stopVars, poolVars, countVars>>

\* Mutant: an aborted event returns without markComplete().
AbortAndReturn(w) ==
    /\ pc[w] = "running" /\ "abort" \in Faults
    /\ Draw(w)
    /\ eventsAborted' = eventsAborted + 1
    /\ Goto(w, "idle")
    /\ UNCHANGED <<queueVars, event, position, saved,
                   stopVars, poolVars, eventsFinished>>

\* AbortEventException: no further modules, but the event counts as finished.
Abort(w) ==
    /\ pc[w] = "running" /\ "abort" \in Faults
    /\ Draw(w)
    /\ eventsAborted' = eventsAborted + 1
    /\ Goto(w, "finish")
    /\ UNCHANGED <<queueVars, event, position, saved,
                   stopVars, poolVars, eventsFinished>>

\* EndOfRunException: the event goes on with the next module.
EndOfRun(w) ==
    /\ pc[w] = "running" /\ "endofrun" \in Faults
    /\ stopRequested' = TRUE
    /\ Draw(w)
    /\ NextModule(w)
    /\ Goto(w, "module")
    /\ UNCHANGED <<queueVars, event, saved, interrupted, poolVars, countVars>>

\* Any other exception ends the worker and, through the pool, the run.
Fail(w) ==
    /\ pc[w] = "running" /\ "fatal" \in Faults
    /\ Goto(w, "catch")
    /\ UNCHANGED <<queueVars, eventVars, stopVars, poolVars, countVars>>

Catch(w) ==
    /\ pc[w] = "catch"
    /\ IF exception THEN UNCHANGED queueVars ELSE Invalidate
    /\ exception' = TRUE
    /\ Goto(w, "end")
    /\ UNCHANGED <<eventVars, stopVars, done, outcome, countVars>>

\* submit(event->number, ...): the task goes to the priority queue, or is lost
\* when the queue refuses it.
Requeue(w) ==
    /\ pc[w] = "requeue"
    /\ PushPriority(event[w]) \/ (PriorityRefused /\ UNCHANGED queueVars)
    /\ Goto(w, "idle")
    /\ UNCHANGED <<eventVars, stopVars, poolVars, countVars>>

AllModulesRun(w) ==
    /\ pc[w] = "module" /\ Module(w) > NumModules
    /\ Goto(w, "finish")
    /\ UNCHANGED <<queueVars, eventVars, stopVars, poolVars, countVars>>

\* markComplete(event->number), up to its first notification ...
MarkComplete(w) ==
    /\ pc[w] = "finish"
    /\ Complete(event[w])
    /\ Goto(w, "marked")
    /\ UNCHANGED <<eventVars, stopVars, poolVars, countVars>>

\* Mutant: every identifier that is passed over counts as a finished event.
MarkNextCounting(w) ==
    /\ pc[w] = "marked"
    /\ Advance
    /\ eventsFinished' = eventsFinished + 1
    /\ UNCHANGED <<pc, eventVars, stopVars, poolVars, eventsAborted>>

\* ... and every further identifier it advances over.
MarkNext(w) ==
    /\ pc[w] = "marked"
    /\ Advance
    /\ UNCHANGED <<pc, eventVars, stopVars, poolVars, countVars>>

\* A worker leaves markComplete() when nothing is left to advance over, or
\* another one will do it (SafeQueue's NoLostCompletion).
FinishEvent(w) ==
    /\ pc[w] = "marked"
    /\ StartsAtCurrent(completed) => \E v \in Workers \ {w} : pc[v] = "marked"
    /\ eventsFinished' = eventsFinished + 1
    /\ Goto(w, "idle")
    /\ UNCHANGED <<queueVars, eventVars, stopVars, poolVars, eventsAborted>>

WorkerStep(w) ==
    \/ Take(w) \/ StartEvent(w) \/ ContinueEvent(w) \/ EndWorker(w)
    \/ SkipModule(w) \/ Postpone(w) \/ EnterModule(w) \/ LeaveModule(w)
    \/ MissingDependencies(w) \/ Abort(w) \/ EndOfRun(w) \/ Fail(w) \/ Catch(w)
    \/ Requeue(w) \/ AllModulesRun(w) \/ MarkComplete(w) \/ MarkNext(w)
    \/ FinishEvent(w)

-----------------------------------------------------------------------------
(* The main thread *)

\* Mutant: one identifier too many is marked complete in advance.
MarkSkippedBeyond ==
    /\ pc[Main] = "mark"
    /\ Complete(event[Main])
    /\ event' = [event EXCEPT ![Main] = @ + 1]
    /\ Goto(Main, IF event[Main] > Skip THEN "poll" ELSE "mark")
    /\ UNCHANGED <<position, engine, saved, drawn, stopVars, poolVars, countVars>>

\* Events start at one: identifier zero and the skipped ones are complete.
MarkSkipped ==
    /\ pc[Main] = "mark"
    /\ Complete(event[Main])
    /\ event' = [event EXCEPT ![Main] = @ + 1]
    /\ Goto(Main, IF event[Main] = Skip THEN "poll" ELSE "mark")
    /\ UNCHANGED <<position, engine, saved, drawn, stopVars, poolVars, countVars>>

\* Stop requests are polled at the top of the submission loop, nowhere else.
KeepSubmitting ==
    /\ pc[Main] = "poll"
    /\ ~stopRequested /\ ~interrupted
    /\ Goto(Main, "submit")
    /\ UNCHANGED <<queueVars, eventVars, stopVars, poolVars, countVars>>

StopSubmitting ==
    /\ pc[Main] = "poll"
    /\ stopRequested \/ interrupted
    /\ outcome' = "stopped"
    /\ Goto(Main, "destroy")
    /\ UNCHANGED <<queueVars, eventVars, stopVars, exception, done, countVars>>

Submit ==
    /\ pc[Main] = "submit"
    /\ PushStandard(event[Main]) \/ (~valid /\ UNCHANGED queueVars)
    /\ Goto(Main, "check")
    /\ UNCHANGED <<eventVars, stopVars, poolVars, countVars>>

\* checkException(): destroy the pool and rethrow, or go on.
CheckException(next) ==
    IF exception
      THEN outcome' = "exception" /\ Goto(Main, "destroy")
      ELSE outcome' = outcome /\ Goto(Main, next)

\* Mutant: the submission loop goes one event too far.
CheckAfterSubmitBeyond ==
    /\ pc[Main] = "check"
    /\ CheckException(IF event[Main] > Last THEN "wait" ELSE "poll")
    /\ event' = [event EXCEPT ![Main] = @ + 1]
    /\ UNCHANGED <<queueVars, position, engine, saved, drawn, stopVars,
                   exception, done, countVars>>

CheckAfterSubmit ==
    /\ pc[Main] = "check"
    /\ CheckException(IF event[Main] = Last THEN "wait" ELSE "poll")
    /\ event' = [event EXCEPT ![Main] = @ + 1]
    /\ UNCHANGED <<queueVars, position, engine, saved, drawn, stopVars,
                   exception, done, countVars>>

\* wait() returns when all submitted tasks are over (ThreadPool's
\* WaitReturnsDrained), after an exception, or on a destroyed pool.
Wait ==
    /\ pc[Main] = "wait"
    /\ \/ exception \/ done
       \/ queue = <<>> /\ buffered = {} /\ \A w \in Workers : pc[w] = "idle"
    /\ Goto(Main, "checkLast")
    /\ UNCHANGED <<queueVars, eventVars, stopVars, poolVars, countVars>>

\* number_of_events is set to eventsFinished, and the pool is reset.
CheckAfterWait ==
    /\ pc[Main] = "checkLast"
    /\ CheckException("reset")
    /\ UNCHANGED <<queueVars, eventVars, stopVars, exception, done, countVars>>

ResetPool ==
    /\ pc[Main] = "reset"
    /\ outcome' = IF done THEN "interrupted" ELSE "completed"
    /\ Goto(Main, "destroy")
    /\ UNCHANGED <<queueVars, eventVars, stopVars, exception, done, countVars>>

Destroy ==
    /\ pc[Main] = "destroy"
    /\ done' = TRUE
    /\ Invalidate
    /\ Goto(Main, "join")
    /\ UNCHANGED <<eventVars, stopVars, exception, outcome, countVars>>

Join ==
    /\ pc[Main] = "join"
    /\ \A w \in Workers : pc[w] = "end"
    /\ Goto(Main, IF outcome = "stopped" THEN "wait" ELSE "end")
    /\ UNCHANGED <<queueVars, eventVars, stopVars, poolVars, countVars>>

\* The signal thread requests the stop token.
Interrupt ==
    /\ "interrupt" \in Faults
    /\ ~interrupted
    /\ interrupted' = TRUE
    /\ UNCHANGED <<queueVars, pc, eventVars, stopRequested, poolVars, countVars>>

MainStep ==
    \/ MarkSkipped \/ KeepSubmitting \/ StopSubmitting \/ Submit
    \/ CheckAfterSubmit \/ Wait \/ CheckAfterWait \/ ResetPool \/ Destroy \/ Join

Next ==
    \/ \E w \in Workers : WorkerStep(w)
    \/ MainStep
    \/ Interrupt

Spec == Init /\ [][Next]_vars

\* Every thread is scheduled, and every module returns.
FairSpec ==
    /\ Spec
    /\ WF_vars(MainStep)
    /\ \A w \in Workers : WF_vars(WorkerStep(w))

-----------------------------------------------------------------------------
MainLabels == {"mark", "poll", "submit", "check", "wait", "checkLast", "reset",
               "destroy", "join", "end"}

\* A worker with an event that is not complete yet, and with one or none.
HoldingLabels == {"taken", "module", "running", "requeue", "finish", "catch"}
WorkerLabels == HoldingLabels \cup {"idle", "marked", "end"}

TypeOK ==
    /\ QueueTypeOK
    /\ pc \in [Threads -> MainLabels \cup WorkerLabels]
    /\ pc[Main] \in MainLabels /\ \A w \in Workers : pc[w] \in WorkerLabels
    /\ event \in [Threads -> 0 .. Last + 1]
    /\ position \in [EventIds -> Nat]
    /\ engine \in [Workers -> [seed : EventIds \cup {Nothing}, draws : Nat]]
    /\ saved \in [EventIds -> Nat \cup {Nothing}]
    /\ drawn \in [EventIds -> Nat]
    /\ stopRequested \in BOOLEAN /\ interrupted \in BOOLEAN
    /\ exception \in BOOLEAN /\ done \in BOOLEAN
    /\ eventsFinished \in Nat /\ eventsAborted \in Nat
    /\ outcome \in {"none", "stopped", "interrupted", "completed", "exception"}

Holding == {w \in Workers : pc[w] \in HoldingLabels}

InSequence(w) == pc[w] = "running" /\ Module(w) \in Sequential

\* Sequential modules are never entered by two events at once.
SequentialExclusion ==
    \A v, w \in Workers : InSequence(v) /\ InSequence(w) => v = w

\* While an event is in a sequential module no earlier event is on its way: none
\* waits in a queue and none is held by another worker.
SequentialOrder ==
    \A w \in Workers : InSequence(w) =>
        /\ \A i \in DOMAIN queue : queue[i] > event[w]
        /\ \A e \in buffered : e > event[w]
        /\ \A v \in Holding \ {w} : event[v] > event[w]

\* A module draws the same numbers whether the event was buffered or not: the
\* engine of the worker, shared by all events it processes, is where the event's
\* own sequence stands.
EngineContinues ==
    \A w \in Workers : pc[w] \in {"module", "running"} =>
        engine[w] = [seed |-> event[w], draws |-> drawn[event[w]]]

\* assert(future.valid() || !thread_pool_->valid()) after the event is pushed
\* back: a valid queue has room for it.
BufferNeverFull ==
    \A w \in Workers : pc[w] = "requeue" /\ valid => Cardinality(buffered) < MaxPriority

\* events_finished_, reported as number_of_events, counts each complete event.
Marked == {w \in Workers : pc[w] = "marked"}
FinishedCountExact ==
    pc[Main] # "mark" =>
        eventsFinished + Cardinality(Marked) =
            current - (Skip + 1) + Cardinality(completed)

\* A run that was neither stopped nor failed has finished every event.
NoEventLost ==
    outcome = "completed" => eventsFinished = Events /\ current = Last + 1

\* run() always comes to an end: no worker waits for an event that cannot come.
Terminates == <>(pc[Main] = "end")

\* The run implements the abstract order of events.
Started == {e \in EventIds : position[e] > 0}
Finished == {e \in EventIds : e < current \/ e \in completed}
Sequence ==
    IF \E w \in Workers : InSequence(w)
      THEN event[CHOOSE w \in Workers : InSequence(w)]
      ELSE Nothing
Order == INSTANCE EventOrder WITH
    NoEvent <- Nothing,
    started <- Started, finished <- Finished, sequence <- Sequence
ImplementsEventOrder == Order!Spec

\* "currently processed events are finished, while events placed on the buffer as
\* well as all additionally requested events from the configuration file are
\* ignored" (05_allpix_executable.md:76): after an interruption no further event
\* is taken from the queue, also when every event has been submitted.
InterruptIgnoresQueue ==
    [][interrupted /\ pc[Main] = "wait" => queue' = queue \/ ~valid']_vars
=============================================================================

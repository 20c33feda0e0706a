----------------------------- MODULE Lifecycle -----------------------------
(***************************************************************************)
(* The life of the allpix executable with a single-threaded event loop:    *)
(* main() takes the Allpix object through load, initialize, run and        *)
(* finalize, the run thread executes the events inline on a pool without   *)
(* threads, and the signal bridge turns a signal into a stop request at    *)
(* any moment.  EventLoop and ThreadPool model the run with workers.       *)
(***************************************************************************)
EXTENDS Integers

CONSTANTS
    NumModules, \* length of modules_
    Skip,       \* skip_events
    Events      \* number_of_events

ASSUME LifecycleAssumption ==
    NumModules \in Nat \ {0} /\ Skip \in Nat /\ Events \in Nat

Last == Skip + Events

VARIABLES
    main, runner, bridge,   \* where main(), run_thread_ and signal_bridge are
    signal,         \* signal_v
    stop,           \* stop_source_ of Allpix
    bridgeStop,     \* stop request for signal_bridge
    death,          \* how the process was killed, or "no"
    returnCode,     \* return_code, reduced to 0 and 1
    histograms,     \* histo_mgr_ != nullptr
    initialized,    \* number of modules that are initialized
    finalized,      \* number of modules that are finalized
    hasRun,         \* has_run_
    exception,      \* exception_ptr_ of Allpix is set
    pool,           \* thread_pool_: "none", "live", or "destroyed" by destroy()
    event,          \* loop variable i
    module,         \* module_iter
    completed,      \* identifiers marked complete
    stopRequested,  \* stop_requested
    hook,           \* loop variable of finalize_function
    threadInits,    \* history: modules whose initializeThread() has returned
    threadFinals,   \* history: for every module, the calls of finalizeThread()
    threw           \* history: some exception was thrown

mainVars == <<returnCode, histograms, initialized, finalized>>
runVars  == <<hasRun, exception, pool, event, module, completed, stopRequested,
              hook, threadInits, threadFinals>>
hookVars == <<hook, threadInits, threadFinals>>
sigVars  == <<bridge, signal, stop, bridgeStop>>
vars == <<main, runner, bridge, signal, stop, bridgeStop, death, returnCode,
          histograms, initialized, finalized, hasRun, exception, pool, event, module,
          completed, stopRequested, hook, threadInits, threadFinals, threw>>

Init ==
    /\ main = "load" /\ runner = "none" /\ bridge = "poll"
    /\ signal = "none" /\ stop = FALSE /\ bridgeStop = FALSE
    /\ death = "no" /\ returnCode = 0
    /\ histograms = FALSE /\ initialized = 0 /\ finalized = 0
    /\ hasRun = FALSE /\ exception = FALSE
    /\ pool = "none" /\ event = 0 /\ module = 1 /\ completed = {}
    /\ stopRequested = FALSE
    /\ hook = 1 /\ threadInits = 0 /\ threadFinals = [m \in 1 .. NumModules |-> 0]
    /\ threw = FALSE

MainGoes(from, to) == main = from /\ main' = to /\ UNCHANGED <<runner, death, sigVars>>
RunnerGoes(from, to) == runner = from /\ runner' = to /\ UNCHANGED <<main, death, sigVars>>

-----------------------------------------------------------------------------
(* main(): the stages before the run; each is skipped after a stop request *)

LoadSkipped ==
    /\ stop
    /\ MainGoes("load", "initialize")
    /\ UNCHANGED <<mainVars, runVars, threw>>

Load ==
    /\ ~stop
    /\ MainGoes("load", "initialize")
    /\ histograms' = TRUE
    /\ UNCHANGED <<returnCode, initialized, finalized, runVars, threw>>

\* A bad configuration, before or after the histogram manager is created.
LoadThrows ==
    /\ ~stop
    /\ MainGoes("load", "unwind")
    /\ histograms' \in BOOLEAN
    /\ threw' = TRUE
    /\ UNCHANGED <<returnCode, initialized, finalized, runVars>>

InitializeSkipped ==
    /\ stop
    /\ MainGoes("initialize", "start")
    /\ UNCHANGED <<mainVars, runVars, threw>>

InitializeEnter ==
    /\ ~stop
    /\ MainGoes("initialize", "initializing")
    /\ UNCHANGED <<mainVars, runVars, threw>>

InitializeModule ==
    /\ initialized < NumModules
    /\ MainGoes("initializing", "initializing")
    /\ initialized' = initialized + 1
    /\ UNCHANGED <<returnCode, histograms, finalized, runVars, threw>>

InitializeThrows ==
    /\ initialized < NumModules
    /\ MainGoes("initializing", "unwind")
    /\ threw' = TRUE
    /\ UNCHANGED <<mainVars, runVars>>

InitializeDone ==
    /\ initialized = NumModules
    /\ MainGoes("initializing", "start")
    /\ UNCHANGED <<mainVars, runVars, threw>>

Start ==
    /\ main = "start"
    /\ main' = "wait"
    /\ runner' = "start"
    /\ UNCHANGED <<death, sigVars, mainVars, runVars, threw>>

-----------------------------------------------------------------------------
(* Allpix::run and ModuleManager::run, on the run thread *)

RunSkipped ==
    /\ stop
    /\ RunnerGoes("start", "over")
    /\ UNCHANGED <<mainVars, runVars, threw>>

\* Mutant: run() does not look at the stop token.
CreatePoolAnyway ==
    /\ RunnerGoes("start", "initThread")
    /\ UNCHANGED <<mainVars, runVars, threw>>

\* Without workers the constructor of the pool runs initialize_function here.
CreatePool ==
    /\ ~stop
    /\ RunnerGoes("start", "initThread")
    /\ UNCHANGED <<mainVars, runVars, threw>>

InitializeThread ==
    /\ threadInits < NumModules
    /\ RunnerGoes("initThread", "initThread")
    /\ threadInits' = threadInits + 1
    /\ UNCHANGED <<mainVars, hasRun, exception, pool, event, module, completed,
                   stopRequested, hook, threadFinals, threw>>

\* The pool is not constructed, and the destroy() of the constructor does not
\* know the finalize function yet: nothing undoes the earlier initializeThread().
InitializeThreadThrows ==
    /\ threadInits < NumModules
    /\ RunnerGoes("initThread", "caught")
    /\ threw' = TRUE
    /\ UNCHANGED <<mainVars, runVars>>

\* The finalize function is stored, and the skipped events are marked complete.
PoolCreated ==
    /\ threadInits = NumModules
    /\ RunnerGoes("initThread", "poll")
    /\ pool' = "live"
    /\ completed' = 0 .. Skip
    /\ event' = Skip + 1
    /\ UNCHANGED <<mainVars, hasRun, exception, module, stopRequested, hookVars, threw>>

\* Mutant: the loop goes one event too far.
SubmitBeyond ==
    /\ event <= Last + 1 /\ ~stop /\ ~stopRequested
    /\ RunnerGoes("poll", "event")
    /\ module' = 1
    /\ UNCHANGED <<mainVars, hasRun, exception, pool, event, completed, stopRequested,
                   hookVars, threw>>

\* submit() runs the task of the event inline.
Submit ==
    /\ event <= Last /\ ~stop /\ ~stopRequested
    /\ RunnerGoes("poll", "event")
    /\ module' = 1
    /\ UNCHANGED <<mainVars, hasRun, exception, pool, event, completed, stopRequested,
                   hookVars, threw>>

AllSubmitted ==
    /\ event > Last
    /\ RunnerGoes("poll", "reset")
    /\ UNCHANGED <<mainVars, runVars, threw>>

\* destroy() of a pool without threads runs finalize_function here.
Interrupted ==
    /\ event <= Last /\ (stop \/ stopRequested)
    /\ RunnerGoes("poll", "destroy")
    /\ pool' = "destroyed"
    /\ UNCHANGED <<mainVars, hasRun, exception, event, module, completed, stopRequested,
                   hookVars, threw>>

\* One turn of the loop of finalize_function, whoever runs it.
FinalizeThread ==
    /\ hook <= NumModules
    /\ hook' = hook + 1
    /\ threadFinals' = [threadFinals EXCEPT ![hook] = @ + 1]
    /\ UNCHANGED <<main, runner, death, sigVars, mainVars, hasRun, exception, pool, event,
                   module, completed, stopRequested, threadInits, threw>>

\* The exception leaves destroy() and run(); the pool stays behind.
InterruptedThrows ==
    /\ hook <= NumModules
    /\ RunnerGoes("destroy", "caught")
    /\ hook' = 1
    /\ threadFinals' = [threadFinals EXCEPT ![hook] = @ + 1]
    /\ threw' = TRUE
    /\ UNCHANGED <<mainVars, hasRun, exception, pool, event, module, completed,
                   stopRequested, threadInits>>

Destroyed ==
    /\ hook > NumModules
    /\ RunnerGoes("destroy", "reset")
    /\ hook' = 1
    /\ UNCHANGED <<mainVars, hasRun, exception, pool, event, module, completed,
                   stopRequested, threadInits, threadFinals, threw>>

\* A module runs, or is skipped for want of messages.
RunModule ==
    /\ module <= NumModules
    /\ RunnerGoes("event", "event")
    /\ module' = module + 1
    /\ UNCHANGED <<mainVars, hasRun, exception, pool, event, completed, stopRequested,
                   hookVars, threw>>

EndOfRun ==
    /\ module <= NumModules
    /\ RunnerGoes("event", "event")
    /\ module' = module + 1
    /\ stopRequested' = TRUE
    /\ UNCHANGED <<mainVars, hasRun, exception, pool, event, completed,
                   hookVars, threw>>

\* Mutant: an aborted event is left without markComplete().
AbortAndReturn ==
    /\ module <= NumModules
    /\ RunnerGoes("event", "poll")
    /\ event' = event + 1
    /\ UNCHANGED <<mainVars, hasRun, exception, pool, module, completed, stopRequested,
                   hookVars, threw>>

AbortEvent ==
    /\ module <= NumModules
    /\ RunnerGoes("event", "complete")
    /\ UNCHANGED <<mainVars, runVars, threw>>

\* The exception leaves submit() and run(); the pool stays behind.
ModuleThrows ==
    /\ module <= NumModules
    /\ RunnerGoes("event", "caught")
    /\ threw' = TRUE
    /\ UNCHANGED <<mainVars, runVars>>

AllModulesRun ==
    /\ module > NumModules
    /\ RunnerGoes("event", "complete")
    /\ UNCHANGED <<mainVars, runVars, threw>>

CompleteEvent ==
    /\ RunnerGoes("complete", "poll")
    /\ completed' = completed \cup {event}
    /\ event' = event + 1
    /\ UNCHANGED <<mainVars, hasRun, exception, pool, module, stopRequested,
                   hookVars, threw>>

\* wait() and checkException() have nothing to do; the destructor of the pool
\* calls destroy(), whether it was called before or not, and so finalizes this
\* thread once more.
ResetPool ==
    /\ hook > NumModules
    /\ RunnerGoes("reset", "leave")
    /\ pool' = "none"
    /\ hook' = 1
    /\ UNCHANGED <<mainVars, hasRun, exception, event, module, completed, stopRequested,
                   threadInits, threadFinals, threw>>

Caught ==
    /\ RunnerGoes("caught", "leave")
    /\ exception' = TRUE
    /\ UNCHANGED <<mainVars, hasRun, pool, event, module, completed, stopRequested,
                   hookVars, threw>>

\* Mutant: an interrupted run does not count as a run.
LeaveUnlessStopped ==
    /\ RunnerGoes("leave", "over")
    /\ hasRun' = ~stop
    /\ UNCHANGED <<mainVars, exception, pool, event, module, completed, stopRequested,
                   hookVars, threw>>

Leave ==
    /\ RunnerGoes("leave", "over")
    /\ hasRun' = TRUE
    /\ UNCHANGED <<mainVars, exception, pool, event, module, completed, stopRequested,
                   hookVars, threw>>

-----------------------------------------------------------------------------
(* main(): the stages after the run *)

Wait ==
    /\ runner = "over"
    /\ MainGoes("wait", "check")
    /\ UNCHANGED <<mainVars, runVars, threw>>

\* Mutant: the exception of the run thread is not rethrown.
CheckExceptionNever ==
    /\ MainGoes("check", "finalize")
    /\ UNCHANGED <<mainVars, runVars, threw>>

CheckException ==
    /\ MainGoes("check", IF exception THEN "unwind" ELSE "finalize")
    /\ exception' = FALSE
    /\ UNCHANGED <<mainVars, hasRun, pool, event, module, completed, stopRequested,
                   hookVars, threw>>

FinalizeModule ==
    /\ hasRun /\ finalized < NumModules
    /\ MainGoes("finalize", "finalize")
    /\ finalized' = finalized + 1
    /\ UNCHANGED <<returnCode, histograms, initialized, runVars, threw>>

FinalizeThrows ==
    /\ hasRun /\ finalized < NumModules
    /\ MainGoes("finalize", "unwind")
    /\ threw' = TRUE
    /\ UNCHANGED <<mainVars, runVars>>

\* histo_mgr_->finalize(), through whatever histo_mgr_ points to.
FinalizeHistograms ==
    /\ hasRun => finalized = NumModules
    /\ histograms
    /\ MainGoes("finalize", "stopBridge")
    /\ UNCHANGED <<mainVars, runVars, threw>>

FinalizeNull ==
    /\ main = "finalize"
    /\ hasRun => finalized = NumModules
    /\ ~histograms
    /\ death' = "null"
    /\ UNCHANGED <<main, runner, sigVars, mainVars, runVars, threw>>

\* Mutant: the bridge is joined without a stop request.
StopBridgeForgotten ==
    /\ \/ main = "stopBridge" /\ main' = "join"
       \/ main = "unwind" /\ main' = "unwindJoin"
    /\ UNCHANGED <<runner, death, sigVars, mainVars, runVars, threw>>

\* request_stop(), called at the end of the try block or by the destructor of
\* signal_bridge while an exception unwinds the stack; then the thread is joined.
StopBridge ==
    /\ \/ main = "stopBridge" /\ main' = "join"
       \/ main = "unwind" /\ main' = "unwindJoin"
    /\ bridgeStop' = TRUE
    /\ UNCHANGED <<runner, death, bridge, signal, stop, mainVars, runVars, threw>>

JoinBridge ==
    /\ bridge = "over"
    /\ \/ main = "join" /\ UNCHANGED returnCode
       \/ main = "unwindJoin" /\ returnCode' = 1
    /\ main' = "destruct"
    /\ UNCHANGED <<runner, death, sigVars, histograms, initialized, finalized,
                   runVars, threw>>

\* Mutant: a pool left behind by an exception is not destroyed.
DestructKeepsPool ==
    /\ MainGoes("destruct", "end")
    /\ UNCHANGED <<mainVars, runVars, threw>>

\* apx.reset() destroys a pool that an exception left behind, after the modules
\* have finalized this thread.
Destruct ==
    /\ pool # "none" => hook > NumModules
    /\ MainGoes("destruct", "end")
    /\ pool' = "none"
    /\ hook' = 1
    /\ UNCHANGED <<mainVars, hasRun, exception, event, module, completed, stopRequested,
                   threadInits, threadFinals, threw>>

\* An exception of finalizeThread() in a destructor terminates the process.
DestructorThrows ==
    /\ runner = "reset" \/ (main = "destruct" /\ pool # "none")
    /\ hook <= NumModules
    /\ death' = "terminate"
    /\ threw' = TRUE
    /\ UNCHANGED <<main, runner, sigVars, mainVars, runVars>>

-----------------------------------------------------------------------------
(* The signal handler and the signal bridge *)

Signal ==
    /\ \E s \in {"terminate", "abort"} : s # signal /\ signal' = s
    /\ UNCHANGED <<main, runner, bridge, stop, bridgeStop, death, mainVars, runVars, threw>>

BridgePoll ==
    /\ bridge = "poll"
    /\ signal # "none" \/ bridgeStop
    /\ bridge' = "act"
    /\ UNCHANGED <<main, runner, signal, stop, bridgeStop, death, mainVars, runVars, threw>>

BridgeAct ==
    /\ bridge = "act"
    /\ bridge' = "over"
    /\ stop' = (stop \/ signal = "terminate")
    /\ death' = IF signal = "abort" THEN "abort" ELSE death
    /\ UNCHANGED <<main, runner, signal, bridgeStop, mainVars, runVars, threw>>

-----------------------------------------------------------------------------
Alive == death = "no"

MainStep ==
    /\ Alive
    /\ \/ LoadSkipped \/ Load \/ LoadThrows
       \/ InitializeSkipped \/ InitializeEnter \/ InitializeModule
       \/ InitializeThrows \/ InitializeDone \/ Start
       \/ Wait \/ CheckException \/ FinalizeModule \/ FinalizeThrows
       \/ FinalizeHistograms \/ FinalizeNull
       \/ StopBridge \/ JoinBridge
       \/ main = "destruct" /\ pool # "none" /\ FinalizeThread
       \/ Destruct

RunStep ==
    /\ Alive
    /\ \/ RunSkipped \/ CreatePool \/ InitializeThread \/ InitializeThreadThrows
       \/ PoolCreated \/ Submit \/ AllSubmitted
       \/ Interrupted \/ InterruptedThrows \/ Destroyed
       \/ runner \in {"destroy", "reset"} /\ FinalizeThread
       \/ RunModule \/ EndOfRun \/ AbortEvent \/ ModuleThrows
       \/ AllModulesRun \/ CompleteEvent \/ ResetPool \/ Caught \/ Leave

BridgeStep == Alive /\ (BridgePoll \/ BridgeAct)

Next ==
    \/ MainStep
    \/ RunStep
    \/ BridgeStep
    \/ Alive /\ DestructorThrows
    \/ Alive /\ main # "end" /\ Signal

Spec == Init /\ [][Next]_vars

\* The three threads are scheduled, and every module returns.
FairSpec == Spec /\ WF_vars(MainStep) /\ WF_vars(RunStep) /\ WF_vars(BridgeStep)

-----------------------------------------------------------------------------
TypeOK ==
    /\ main \in {"load", "initialize", "initializing", "start", "wait", "check",
                 "finalize", "stopBridge", "join", "unwind", "unwindJoin",
                 "destruct", "end"}
    /\ runner \in {"none", "start", "initThread", "poll", "event", "complete",
                   "destroy", "reset", "caught", "leave", "over"}
    /\ bridge \in {"poll", "act", "over"}
    /\ signal \in {"none", "terminate", "abort"}
    /\ stop \in BOOLEAN /\ bridgeStop \in BOOLEAN
    /\ death \in {"no", "null", "terminate", "abort"}
    /\ returnCode \in {0, 1}
    /\ histograms \in BOOLEAN
    /\ initialized \in 0 .. NumModules /\ finalized \in 0 .. NumModules
    /\ hasRun \in BOOLEAN /\ exception \in BOOLEAN
    /\ pool \in {"none", "live", "destroyed"}
    /\ event \in 0 .. Last + 1 /\ module \in 1 .. NumModules + 1
    /\ completed \in SUBSET (0 .. Last)
    /\ stopRequested \in BOOLEAN
    /\ hook \in 1 .. NumModules + 1 /\ threadInits \in 0 .. NumModules
    /\ threadFinals \in [1 .. NumModules -> 0 .. 2]
    /\ threw \in BOOLEAN

\* Wherever a stop request arrives between two stages, no thread is initialized
\* before all modules are, no event runs before all modules have initialized the
\* thread, none runs after the first has finalized it, and no module is finalized
\* before the run thread is over and its pool is gone.
StagesInOrder ==
    /\ runner \in {"initThread", "poll", "event", "complete", "destroy", "reset"}
          => initialized = NumModules
    /\ runner \in {"poll", "event", "complete"}
          => threadInits = NumModules /\ \A m \in 1 .. NumModules : threadFinals[m] = 0
    /\ finalized > 0 => initialized = NumModules /\ runner = "over" /\ pool = "none"

\* An exception of any stage and any thread ends in a failure of the process.
ExceptionsReachExit == main = "end" /\ threw => returnCode # 0

\* A run that created its pool is followed by the finalization of every module,
\* also when it was interrupted by a signal or by a module.
RunsAreFinalized ==
    main = "end" /\ ~threw /\ threadInits = NumModules => finalized = NumModules

\* If every module has initialized the run thread, every module has finalized it
\* before the process ends, and before any module is finalized, also when an
\* exception left the pool behind: once, or a second time if the run was asked to
\* stop (see ThreadFinalizedOnce).  If the initialization was cut short by an
\* exception, no module finalizes the thread, not even those that initialized it.
ThreadHooksPaired ==
    main = "end" \/ finalized > 0 =>
        \A m \in 1 .. NumModules :
            threadFinals[m] \in IF threadInits < NumModules THEN {0}
                               ELSE IF stop \/ stopRequested THEN 1 .. 2 ELSE {1}

\* Single-threaded, no event is ever postponed by a sequential module: all
\* earlier events are complete.  (A postponed event would be submitted from
\* within its own task, and the inline execution would never return.)
InTurn == runner = "event" => completed = 0 .. event - 1

\* The process ends, in whatever stage a signal or an exception hits it.
Terminates == <>(main = "end" \/ ~Alive)

\* On a SIGINT "the finalization stage is run for every module to ensure that
\* the simulation terminates properly" (05_allpix_executable.md:77).
InterruptEndsProperly == death # "null"

\* finalizeThread(): "if the simulation is run single-threaded, it is called once
\* by the main thread" (03_new_module.md:218).
ThreadFinalizedOnce == \A m \in 1 .. NumModules : threadFinals[m] <= 1
=============================================================================

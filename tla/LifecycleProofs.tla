-------------------------- MODULE LifecycleProofs --------------------------
(***************************************************************************)
(* The safety properties of Lifecycle for any number of modules and        *)
(* events.  The inductive invariant ties the three threads together: which *)
(* stages of main() go with which stages of the run thread, what the pool  *)
(* and the hooks are in each of them, and where an exception is on its way *)
(* to the exit code.                                                       *)
(***************************************************************************)
EXTENDS Lifecycle, TLAPS

Running  == {"start", "initThread", "poll", "event", "complete", "destroy", "reset",
             "caught", "leave"}
Unwinding == {"unwind", "unwindJoin"}

\* main() waits while the run thread runs; the later stages follow it.
ThreadsInv ==
    /\ runner \in Running => main = "wait"
    /\ main \in {"load", "initialize", "initializing", "start"} => runner = "none"
    /\ main \in {"check", "finalize", "stopBridge", "join"} => runner = "over"
    /\ main = "wait" => runner # "none"

\* Modules are initialized before they run, and run before they are finalized.
StagesInv ==
    /\ main = "start" \/ runner = "start" => stop \/ initialized = NumModules
    /\ runner \in Running \ {"start"} => initialized = NumModules
    /\ hasRun => initialized = NumModules /\ runner = "over"
    /\ finalized > 0 => hasRun /\ pool = "none"
    /\ main \in {"stopBridge", "join"} /\ hasRun => finalized = NumModules
    /\ main \in {"destruct", "end"} /\ hasRun /\ ~threw => finalized = NumModules

\* The pool exists between its creation and its reset.
PoolInv ==
    /\ runner \in {"none", "start", "initThread"} => pool = "none"
    /\ runner \in {"poll", "event", "complete"} => pool = "live"
    /\ runner = "destroy" => pool = "destroyed"
    /\ runner = "reset" => pool # "none"
    /\ runner \in {"leave", "over"} /\ main \in {"wait", "check"} /\ ~exception => pool = "none"
    /\ main \in {"finalize", "stopBridge", "join", "end"} => pool = "none"
    /\ pool # "none" => threadInits = NumModules
    /\ pool = "destroyed" => stop \/ stopRequested
    /\ runner \in {"none", "start"} => threadInits = 0
    /\ runner = "over" /\ ~hasRun => threadInits = 0

\* The modules that have finalized the run thread: those before the loop variable
\* where the loop runs for the first time, and all of them, perhaps once more,
\* where it runs again or is over.
HookInv ==
    /\ hook # 1 => \/ runner \in {"destroy", "reset"}
                   \/ main = "destruct" /\ pool # "none"
    /\ \A m \in 1 .. NumModules :
          /\ threadInits < NumModules \/ runner = "initThread" => threadFinals[m] = 0
          /\ pool = "live" \/ runner = "destroy"
                => threadFinals[m] = IF m < hook THEN 1 ELSE 0
          /\ pool = "destroyed" /\ runner # "destroy"
                => threadFinals[m] \in IF m < hook THEN 1 .. 2 ELSE 0 .. 1
          /\ pool = "none" /\ threadInits = NumModules /\ runner # "initThread"
                => threadFinals[m] \in IF stop \/ stopRequested THEN 1 .. 2 ELSE {1}

\* An exception is on its way to the exit code.
ThrewInv ==
    /\ exception \/ runner = "caught" \/ main \in Unwinding \/ returnCode = 1 => threw
    /\ threw => \/ main \in Unwinding
                \/ returnCode = 1
                \/ main \in {"wait", "check"} /\ (exception \/ runner = "caught")
                \/ death = "terminate" /\ main # "end"

\* Single-threaded, events complete one by one.
TurnInv ==
    /\ runner \in {"poll", "event", "complete"} => completed = 0 .. event - 1
    /\ runner \in {"event", "complete"} => event <= Last

CoreInv == TypeOK /\ ThreadsInv /\ StagesInv /\ PoolInv /\ ThrewInv /\ TurnInv

Inv == CoreInv /\ HookInv

-----------------------------------------------------------------------------
\* The invariant holds when the executable starts.
LEMMA InitInv == Init => Inv
<1> SUFFICES ASSUME Init PROVE Inv
  OBVIOUS
<1>1. TypeOK
  <2>1. Last \in Nat
    BY LifecycleAssumption DEF Last
  <2>2. /\ event \in 0 .. Last + 1 /\ module \in 1 .. NumModules + 1
        /\ initialized \in 0 .. NumModules /\ finalized \in 0 .. NumModules
        /\ completed \in SUBSET (0 .. Last)
    BY <2>1, LifecycleAssumption DEF Init
  <2>3. /\ stop \in BOOLEAN /\ bridgeStop \in BOOLEAN /\ histograms \in BOOLEAN
        /\ hasRun \in BOOLEAN /\ exception \in BOOLEAN
        /\ stopRequested \in BOOLEAN /\ threw \in BOOLEAN
    BY DEF Init
  <2>4. /\ hook \in 1 .. NumModules + 1 /\ threadInits \in 0 .. NumModules
        /\ threadFinals \in [1 .. NumModules -> 0 .. 2] /\ returnCode \in {0, 1}
    BY LifecycleAssumption DEF Init
  <2> QED
    BY <2>2, <2>3, <2>4 DEF Init, TypeOK
<1>2. ThreadsInv /\ StagesInv
  BY DEF Init, ThreadsInv, StagesInv, Running
<1>3. PoolInv /\ ThrewInv /\ TurnInv
  BY LifecycleAssumption DEF Init, PoolInv, ThrewInv, TurnInv, Running, Unwinding
<1>4. HookInv
  BY LifecycleAssumption DEF Init, HookInv
<1> QED
  BY <1>1, <1>2, <1>3, <1>4 DEF Inv, CoreInv

\* A call of finalizeThread() leaves every count within its bounds.
LEMMA FinalizeInv ==
    ASSUME Inv, FinalizeThread,
           runner \in {"destroy", "reset"} \/ (main = "destruct" /\ pool # "none")
    PROVE  Inv'
<1> USE LifecycleAssumption
<1>1. /\ hook \in 1 .. NumModules /\ hook' = hook + 1
      /\ threadFinals \in [1 .. NumModules -> 0 .. 2]
      /\ threadFinals' = [threadFinals EXCEPT ![hook] = @ + 1]
  BY DEF Inv, CoreInv, TypeOK, FinalizeThread
<1>2. threadFinals[hook] \in 0 .. 1
  BY <1>1 DEF Inv, CoreInv, TypeOK, PoolInv, HookInv
<1>3. /\ threadFinals' \in [1 .. NumModules -> 0 .. 2]
      /\ \A m \in 1 .. NumModules :
            threadFinals'[m] = IF m = hook THEN threadFinals[m] + 1 ELSE threadFinals[m]
  BY <1>1, <1>2
<1>4. CoreInv'
  BY <1>1, <1>3 DEF Inv, CoreInv, TypeOK, ThreadsInv, StagesInv, PoolInv, ThrewInv, TurnInv,
     FinalizeThread, mainVars, runVars, sigVars
<1>5. HookInv'
  <2>1. pool # "none" /\ threadInits = NumModules /\ runner # "initThread"
    BY DEF Inv, CoreInv, ThreadsInv, PoolInv, Running
  <2>2. UNCHANGED <<main, runner, pool, stop, stopRequested, threadInits>>
    BY DEF FinalizeThread, sigVars
  <2>3. \A m \in 1 .. NumModules : m < hook' <=> m < hook \/ m = hook
    BY <1>1
  <2> QED
    BY <1>1, <1>2, <1>3, <2>1, <2>2, <2>3 DEF Inv, HookInv
<1> QED
  BY <1>4, <1>5 DEF Inv

\* The main thread preserves the invariant.
LEMMA MainInv ==
    ASSUME Inv, MainStep, ~(main = "destruct" /\ pool # "none" /\ FinalizeThread)
    PROVE  CoreInv'
<1> USE LifecycleAssumption DEF Inv, CoreInv, TypeOK, ThreadsInv, StagesInv, PoolInv, ThrewInv,
     TurnInv, Running, Unwinding, Last, mainVars, runVars, sigVars, hookVars, MainGoes
<1>0. death = "no"
  BY DEF MainStep, Alive
<1>1. CASE LoadSkipped
  BY <1>1 DEF LoadSkipped
<1>2. CASE Load
  BY <1>2 DEF Load
<1>3. CASE LoadThrows
  BY <1>3 DEF LoadThrows
<1>4. CASE InitializeSkipped
  BY <1>4 DEF InitializeSkipped
<1>5. CASE InitializeEnter
  BY <1>5 DEF InitializeEnter
<1>6. CASE InitializeModule
  BY <1>6 DEF InitializeModule
<1>7. CASE InitializeThrows
  BY <1>7 DEF InitializeThrows
<1>8. CASE InitializeDone
  BY <1>8 DEF InitializeDone
<1>9. CASE Start
  BY <1>9 DEF Start
<1>10. CASE Wait
  BY <1>10 DEF Wait
<1>11. CASE CheckException
  <2>1. TypeOK'
    <3>1. main' \in {"unwind", "finalize"}
      BY <1>11 DEF CheckException
    <3>2. /\ exception' \in BOOLEAN /\ stop' \in BOOLEAN /\ bridgeStop' \in BOOLEAN
          /\ histograms' \in BOOLEAN /\ hasRun' \in BOOLEAN
          /\ stopRequested' \in BOOLEAN /\ threw' \in BOOLEAN
      BY <1>11 DEF CheckException
    <3>3. UNCHANGED <<runner, bridge, signal, death, returnCode, initialized, finalized,
                      pool, event, module, completed, hook, threadInits, threadFinals>>
      BY <1>11 DEF CheckException
    <3>4. /\ event' \in 0 .. Last + 1 /\ module' \in 1 .. NumModules + 1
          /\ initialized' \in 0 .. NumModules /\ finalized' \in 0 .. NumModules
          /\ completed' \in SUBSET (0 .. Last)
          /\ hook' \in 1 .. NumModules + 1 /\ threadInits' \in 0 .. NumModules
          /\ threadFinals' \in [1 .. NumModules -> 0 .. 2] /\ returnCode' \in {0, 1}
      BY <3>3
    <3> QED
      BY <3>1, <3>2, <3>3, <3>4
  <2>2. ThreadsInv'
    BY <1>11 DEF CheckException
  <2>6. StagesInv'
    BY <1>11 DEF CheckException
  <2>3. PoolInv'
    BY <1>11 DEF CheckException
  <2>4. ThrewInv'
    BY <1>11 DEF CheckException
  <2>5. TurnInv'
    BY <1>11 DEF CheckException
  <2> QED
    BY <2>1, <2>2, <2>3, <2>4, <2>5, <2>6
<1>12. CASE FinalizeModule
  BY <1>12 DEF FinalizeModule
<1>13. CASE FinalizeThrows
  BY <1>13 DEF FinalizeThrows
<1>14. CASE FinalizeHistograms
  BY <1>14 DEF FinalizeHistograms
<1>15. CASE FinalizeNull
  BY <1>0, <1>15 DEF FinalizeNull
<1>16. CASE StopBridge
  BY <1>16 DEF StopBridge
<1>17. CASE JoinBridge
  BY <1>17 DEF JoinBridge
<1>18. CASE Destruct
  BY <1>0, <1>18 DEF Destruct
<1> QED
  BY <1>1, <1>2, <1>3, <1>4, <1>5, <1>6, <1>7, <1>8, <1>9, <1>10, <1>11, <1>12, <1>13, <1>14, <1>15, <1>16, <1>17, <1>18 DEF MainStep

\* The run thread preserves the invariant.
LEMMA RunInv ==
    ASSUME Inv, RunStep, ~(runner \in {"destroy", "reset"} /\ FinalizeThread)
    PROVE  CoreInv'
<1> USE LifecycleAssumption DEF Inv, CoreInv, TypeOK, ThreadsInv, StagesInv, PoolInv, ThrewInv,
     TurnInv, Running, Unwinding, Last, mainVars, runVars, sigVars, hookVars, RunnerGoes
<1>1. CASE RunSkipped
  BY <1>1 DEF RunSkipped
<1>2. CASE CreatePool
  BY <1>2 DEF CreatePool
<1>3. CASE InitializeThread
  BY <1>3 DEF InitializeThread
<1>19. CASE InitializeThreadThrows
  BY <1>19 DEF InitializeThreadThrows
<1>17. CASE PoolCreated
  BY <1>17 DEF PoolCreated
<1>4. CASE Submit
  BY <1>4 DEF Submit
<1>5. CASE AllSubmitted
  BY <1>5 DEF AllSubmitted
<1>6. CASE Interrupted
  BY <1>6 DEF Interrupted
<1>7. CASE InterruptedThrows
  <2>1. threadFinals[hook] = 0
    BY <1>7 DEF InterruptedThrows, HookInv
  <2>2. threadFinals' \in [1 .. NumModules -> 0 .. 2]
    BY <1>7, <2>1 DEF InterruptedThrows
  <2> QED
    BY <1>7, <2>2 DEF InterruptedThrows
<1>18. CASE Destroyed
  BY <1>18 DEF Destroyed
<1>8. CASE RunModule
  BY <1>8 DEF RunModule
<1>9. CASE EndOfRun
  BY <1>9 DEF EndOfRun
<1>10. CASE AbortEvent
  BY <1>10 DEF AbortEvent
<1>11. CASE ModuleThrows
  BY <1>11 DEF ModuleThrows
<1>12. CASE AllModulesRun
  BY <1>12 DEF AllModulesRun
<1>13. CASE CompleteEvent
  <2>1. event \in Nat /\ event <= Last /\ completed = 0 .. event - 1
    BY <1>13 DEF CompleteEvent
  <2>2. (0 .. event - 1) \cup {event} = 0 .. (event + 1) - 1
    BY <2>1
  <2>3. completed' = 0 .. event' - 1 /\ event' = event + 1
    BY <1>13, <2>1, <2>2 DEF CompleteEvent
  <2>4. event' \in 0 .. Last + 1 /\ completed' \in SUBSET (0 .. Last)
    BY <2>1, <2>3
  <2> QED
    BY <1>13, <2>3, <2>4 DEF CompleteEvent
<1>14. CASE ResetPool
  BY <1>14 DEF ResetPool
<1>15. CASE Caught
  BY <1>15 DEF Caught
<1>16. CASE Leave
  BY <1>16 DEF Leave
<1> QED
  BY <1>1, <1>2, <1>3, <1>4, <1>5, <1>6, <1>7, <1>8, <1>9, <1>10, <1>11, <1>12, <1>13, <1>14, <1>15, <1>16, <1>17,
     <1>18, <1>19 DEF RunStep

\* Signals, the bridge and exceptions in destructors preserve the invariant.
LEMMA OtherInv ==
    ASSUME Inv, Alive /\ (Signal \/ BridgePoll \/ BridgeAct \/ DestructorThrows)
    PROVE  CoreInv'
<1> USE LifecycleAssumption DEF Inv, CoreInv, TypeOK, ThreadsInv, StagesInv, PoolInv, ThrewInv,
     TurnInv, Running, Unwinding, Last, mainVars, runVars, sigVars, Alive
<1>1. CASE Signal
  BY <1>1 DEF Signal
<1>2. CASE BridgePoll
  BY <1>2 DEF BridgePoll
<1>3. CASE BridgeAct
  BY <1>3 DEF BridgeAct
<1>4. CASE DestructorThrows
  BY <1>4 DEF DestructorThrows
<1> QED
  BY <1>1, <1>2, <1>3, <1>4

\* A step outside the loops of the hooks that leaves the pool alone preserves the
\* account of the calls.
LEMMA HooksUnchanged ==
    ASSUME Inv, UNCHANGED <<pool, hookVars>>, hook = 1 \/ runner' = runner,
           stop \/ stopRequested => stop' \/ stopRequested',
           main = "destruct" /\ pool # "none" => main' = "destruct",
           runner' = "initThread" => threadInits = 0,
           runner = "initThread" => threadInits < NumModules \/ runner' = runner,
           runner' = "destroy" <=> runner = "destroy"
    PROVE  HookInv'
<1> USE LifecycleAssumption DEF Inv, CoreInv, TypeOK, PoolInv, HookInv, hookVars
<1>1. hook' # 1 => \/ runner' \in {"destroy", "reset"}
                   \/ main' = "destruct" /\ pool' # "none"
  OBVIOUS
<1>2. ASSUME NEW m \in 1 .. NumModules
      PROVE  /\ threadInits' < NumModules \/ runner' = "initThread" => threadFinals'[m] = 0
             /\ pool' = "live" \/ runner' = "destroy"
                   => threadFinals'[m] = IF m < hook' THEN 1 ELSE 0
             /\ pool' = "destroyed" /\ runner' # "destroy"
                   => threadFinals'[m] \in IF m < hook' THEN 1 .. 2 ELSE 0 .. 1
             /\ pool' = "none" /\ threadInits' = NumModules /\ runner' # "initThread"
                   => threadFinals'[m] \in IF stop' \/ stopRequested' THEN 1 .. 2 ELSE {1}
  BY <1>2
<1> QED
  BY <1>1, <1>2

\* Every other step preserves the account of the calls of finalizeThread(): most
\* change nothing of it, the others begin or leave the loop.
LEMMA HooksInv ==
    ASSUME Inv, [Next]_vars,
           ~(main = "destruct" /\ pool # "none" /\ FinalizeThread),
           ~(runner \in {"destroy", "reset"} /\ FinalizeThread)
    PROVE  HookInv'
<1>0. \/ MainStep \/ RunStep \/ BridgeStep
      \/ Alive /\ (DestructorThrows \/ Signal)
      \/ UNCHANGED vars
  BY DEF Next
<1> USE LifecycleAssumption DEF Inv, CoreInv, TypeOK, ThreadsInv, PoolInv, HookInv, Running,
     hookVars
<1>1. CASE MainStep /\ ~Destruct
  <2>1. /\ UNCHANGED <<pool, hookVars>> /\ (runner' # runner => hook = 1 /\ runner' = "start")
        /\ main # "destruct" /\ (stop \/ stopRequested => stop' \/ stopRequested')
    BY <1>1 DEF MainStep, LoadSkipped, Load, LoadThrows, InitializeSkipped, InitializeEnter,
       InitializeModule, InitializeThrows, InitializeDone, Start, Wait, CheckException,
       FinalizeModule, FinalizeThrows, FinalizeHistograms, FinalizeNull, StopBridge,
       JoinBridge, MainGoes, mainVars, runVars, sigVars
  <2>2. runner' # runner => main = "start"
    BY <1>1 DEF MainStep, LoadSkipped, Load, LoadThrows, InitializeSkipped, InitializeEnter,
       InitializeModule, InitializeThrows, InitializeDone, Start, Wait, CheckException,
       FinalizeModule, FinalizeThrows, FinalizeHistograms, FinalizeNull, StopBridge,
       JoinBridge, MainGoes
  <2> QED
    BY <2>1, <2>2, HooksUnchanged
<1>2. CASE Destruct
  BY <1>2 DEF Destruct, MainGoes, sigVars
<1>3. CASE RunStep
  <2> USE DEF RunnerGoes, sigVars, mainVars, runVars
  <2>1. CASE RunSkipped \/ CreatePool \/ InitializeThreadThrows
    <3>1. /\ UNCHANGED <<pool, hookVars, stop, stopRequested, main>> /\ hook = 1
          /\ runner' = "initThread" => threadInits = 0
          /\ runner = "initThread" => threadInits < NumModules
          /\ runner' # "destroy" /\ runner # "destroy"
      BY <2>1 DEF RunSkipped, CreatePool, InitializeThreadThrows
    <3> QED
      BY <3>1, HooksUnchanged
  <2>2. CASE InitializeThread
    BY <2>2 DEF InitializeThread
  <2>3. CASE PoolCreated
    BY <2>3 DEF PoolCreated
  <2>4. CASE \/ Submit \/ AllSubmitted \/ RunModule \/ EndOfRun \/ AbortEvent
             \/ ModuleThrows \/ AllModulesRun \/ CompleteEvent \/ Caught \/ Leave
    <3>1. /\ UNCHANGED <<pool, hookVars, stop, main>> /\ (stopRequested => stopRequested')
          /\ runner \notin {"initThread", "destroy", "reset"}
          /\ runner' \notin {"initThread", "destroy"}
      BY <2>4 DEF Submit, AllSubmitted, RunModule, EndOfRun, AbortEvent, ModuleThrows,
         AllModulesRun, CompleteEvent, Caught, Leave
    <3>2. hook = 1
      BY <2>4, <3>1 DEF RunStep, Submit, AllSubmitted, RunModule, EndOfRun, AbortEvent,
         ModuleThrows, AllModulesRun, CompleteEvent, Caught, Leave
    <3> QED
      BY <3>1, <3>2, HooksUnchanged
  <2>5. CASE Interrupted
    BY <2>5 DEF Interrupted
  <2>6. CASE InterruptedThrows
    <3>1. /\ hook \in 1 .. NumModules /\ threadFinals[hook] = 0 /\ hook' = 1
          /\ threadFinals' = [threadFinals EXCEPT ![hook] = @ + 1]
          /\ pool = "destroyed" /\ runner' = "caught" /\ threadInits = NumModules
          /\ UNCHANGED <<pool, threadInits>>
      BY <2>6 DEF InterruptedThrows
    <3>2. ASSUME NEW m \in 1 .. NumModules PROVE threadFinals'[m] \in 0 .. 1
      <4>1. threadFinals[m] \in 0 .. 1
        BY <2>6 DEF InterruptedThrows
      <4>2. threadFinals'[m] = IF m = hook THEN 1 ELSE threadFinals[m]
        BY <3>1
      <4> QED
        BY <4>1, <4>2
    <3> QED
      BY <3>1, <3>2
  <2>7. CASE Destroyed
    BY <2>7 DEF Destroyed
  <2>8. CASE ResetPool
    BY <2>8 DEF ResetPool
  <2> QED
    BY <1>3, <2>1, <2>2, <2>3, <2>4, <2>5, <2>6, <2>7, <2>8 DEF RunStep
<1>4. CASE BridgeStep \/ (Alive /\ (DestructorThrows \/ Signal)) \/ UNCHANGED vars
  <2>1. /\ UNCHANGED <<pool, hookVars, main, runner, stopRequested>> /\ (stop => stop')
    BY <1>4 DEF BridgeStep, BridgePoll, BridgeAct, DestructorThrows, Signal, vars, mainVars,
       runVars, sigVars
  <2> QED
    BY <2>1, HooksUnchanged
<1> QED
  BY <1>0, <1>1, <1>2, <1>3, <1>4

\* The inductive invariant holds in every reachable state.
THEOREM Invariant == Spec => []Inv
<1>1. Inv /\ [Next]_vars => Inv'
  <2> SUFFICES ASSUME Inv, [Next]_vars PROVE Inv'
    OBVIOUS
  <2>1. CASE \/ main = "destruct" /\ pool # "none" /\ FinalizeThread
             \/ runner \in {"destroy", "reset"} /\ FinalizeThread
    BY <2>1, FinalizeInv
  <2>2. CASE /\ ~(main = "destruct" /\ pool # "none" /\ FinalizeThread)
             /\ ~(runner \in {"destroy", "reset"} /\ FinalizeThread)
    <3>1. CoreInv'
      <4>1. CASE MainStep
        BY <2>2, <4>1, MainInv
      <4>2. CASE RunStep
        BY <2>2, <4>2, RunInv
      <4>3. CASE BridgeStep
        BY <4>3, OtherInv DEF BridgeStep
      <4>4. CASE Alive /\ (DestructorThrows \/ Signal)
        BY <4>4, OtherInv
      <4>5. CASE UNCHANGED vars
        BY <4>5 DEF vars, Inv, CoreInv, TypeOK, ThreadsInv, StagesInv, PoolInv, ThrewInv, TurnInv
      <4> QED
        BY <4>1, <4>2, <4>3, <4>4, <4>5 DEF Next
    <3> QED
      BY <2>2, <3>1, HooksInv DEF Inv
  <2> QED
    BY <2>1, <2>2
<1> QED
  BY <1>1, InitInv, PTL DEF Spec

\* No event runs before all modules are initialized, and no module is finalized
\* while the run thread or its pool is left.
THEOREM StagesInOrderHolds == Spec => []StagesInOrder
<1>1. Inv => StagesInOrder
  <2> SUFFICES ASSUME Inv PROVE StagesInOrder
    OBVIOUS
  <2>1. ASSUME runner \in {"poll", "event", "complete"}
        PROVE  threadInits = NumModules /\ \A m \in 1 .. NumModules : threadFinals[m] = 0
    BY <2>1, LifecycleAssumption DEF Inv, CoreInv, TypeOK, ThreadsInv, PoolInv, HookInv, Running
  <2> QED
    BY <2>1, LifecycleAssumption DEF Inv, CoreInv, TypeOK, StagesInv, Running, StagesInOrder
<1> QED
  BY <1>1, Invariant, PTL

\* An exception of any stage ends in a return code other than zero.
THEOREM ExceptionsReachExitHolds == Spec => []ExceptionsReachExit
<1>1. Inv => ExceptionsReachExit
  BY DEF Inv, CoreInv, ThrewInv, Unwinding, ExceptionsReachExit
<1> QED
  BY <1>1, Invariant, PTL

\* Every run that created its pool is followed by the finalization of all modules
\* unless an exception was thrown.
THEOREM RunsAreFinalizedHolds == Spec => []RunsAreFinalized
<1>1. Inv => RunsAreFinalized
  BY LifecycleAssumption DEF Inv, CoreInv, TypeOK, ThreadsInv, StagesInv, PoolInv, Running, RunsAreFinalized
<1> QED
  BY <1>1, Invariant, PTL

\* A thread that every module has initialized is finalized by every module, once
\* unless the run was asked to stop; one whose initialization failed, by none.
THEOREM ThreadHooksPairedHolds == Spec => []ThreadHooksPaired
<1>1. Inv => ThreadHooksPaired
  BY LifecycleAssumption DEF Inv, CoreInv, TypeOK, StagesInv, PoolInv, HookInv, ThreadsInv,
     Running, ThreadHooksPaired
<1> QED
  BY <1>1, Invariant, PTL

\* A single-threaded event finds all earlier events complete.
THEOREM InTurnHolds == Spec => []InTurn
<1>1. Inv => InTurn
  BY DEF Inv, CoreInv, TurnInv, InTurn
<1> QED
  BY <1>1, Invariant, PTL
=============================================================================

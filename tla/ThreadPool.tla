----------------------------- MODULE ThreadPool -----------------------------
(***************************************************************************)
(* ThreadPool: the worker loop, the outstanding-task count run_cnt_, the   *)
(* pause gate, exceptions and the destruction of the pool, driven by a     *)
(* main thread that submits tasks 1 .. Tasks as ModuleManager::run does.   *)
(*                                                                         *)
(* The queue is the atomic OrderedQueue.  A worker that runs a task may    *)
(* mark it complete, submit it again as a priority task when it is not its *)
(* turn, or throw.  Any thread may pause and resume the pool, at most      *)
(* MaxPauses times.                                                        *)
(*                                                                         *)
(* The workers register their numbers in a static map that no lock guards, *)
(* and fill a ThreadedHistogram with one slot per number.                  *)
(***************************************************************************)
EXTENDS OrderedQueue

CONSTANTS
    Workers,    \* threads_
    Main,       \* the thread that owns the pool
    Tasks,      \* number of tasks submitted
    Modulus,    \* run_cnt_ counts modulo this (2^32)
    Throws,     \* stages in which the modules may throw
    MaxPauses,  \* bound on setPaused(true)
    NoWorker    \* exception_ptr_ == nullptr

ASSUME PoolAssumption ==
    /\ Workers # {} /\ IsFiniteSet(Workers)
    /\ Main \notin Workers /\ NoWorker \notin Workers
    /\ Tasks \in Nat \ {0}
    /\ Modulus \in Nat /\ Modulus > Tasks + Cardinality(Workers)
    /\ Throws \subseteq {"init", "task", "finalize"}
    /\ MaxPauses \in Nat
    /\ Ids = 0 .. Tasks
    /\ Reserve = Cardinality(Workers)

Threads == Workers \cup {Main}

VARIABLES
    pc,         \* where each thread is
    task,       \* the task of each worker; for Main the next one to submit
    runCount,   \* run_cnt_
    done,       \* done_
    paused,     \* paused_
    notifying,  \* setPaused() is between its store and its notification
    pauses,     \* number of setPaused(true) so far
    runWaiters, \* threads blocked on run_condition_
    exception,  \* exception_ptr_: the worker that set it
    threw,      \* history: the stage in which each worker threw
    outcome,    \* how the main thread leaves the event loop
    counter,    \* thread_cnt_
    numbers,    \* thread_nums_: the numbers of the registered threads
    raced,      \* history: threads whose access to thread_nums_ met an insertion
    slots,      \* objects_ of a histogram: the entries of each slot in use
    threadNum,  \* thread_num of each worker
    filling,    \* Fill() in progress in each worker: the slot and its entries
    fills       \* history: number of completed calls of Fill()

poolVars == <<done, paused, notifying, pauses, exception, threw, outcome>>
registry == <<counter, numbers, threadNum>>
histogram == <<slots, filling, fills>>
statics == <<registry, raced, histogram>>
vars == <<queue, buffered, completed, current, valid, pc, task, runCount, done,
          paused, notifying, pauses, runWaiters, exception, threw, outcome, statics>>

Init ==
    /\ QueueInit
    /\ pc = [t \in Threads |-> IF t = Main THEN "mark" ELSE "start"]
    /\ task = [t \in Threads |-> 0]
    /\ runCount = 0
    /\ done = FALSE
    /\ paused = FALSE
    /\ notifying = FALSE
    /\ pauses = 0
    /\ runWaiters = {}
    /\ exception = NoWorker
    /\ threw = [w \in Workers |-> "no"]
    /\ outcome = "none"
    /\ counter = 1 /\ numbers = <<>> /\ raced = {}
    /\ threadNum = [w \in Workers |-> 0]
    /\ slots = [n \in {0} |-> 0] /\ filling = [w \in Workers |-> <<0, 0>>] /\ fills = 0

\* A map after an entry is set.
Put(f, x, v) == [y \in DOMAIN f \cup {x} |-> IF y = x THEN v ELSE f[y]]

Goto(t, label) == pc' = [pc EXCEPT ![t] = label]

\* run_mutex_ is held across two steps in one place only: between evaluating
\* the pause predicate and blocking on run_condition_.
RunMutexFree == \A w \in Workers : pc[w] # "blocking"

NotifyAllRun == runWaiters' = {}

-----------------------------------------------------------------------------
(* worker(): initialization, pop and the pause gate *)

\* Worker threads whose insertion into thread_nums_ is under way.
Inserting == {w \in Workers : pc[w] = "insert"}

\* thread_cnt_++ gives the number; the insertion into the map begins.
Register(w) ==
    /\ pc[w] = "start"
    /\ counter' = counter + 1
    /\ threadNum' = [threadNum EXCEPT ![w] = counter]
    /\ raced' = IF Inserting = {} THEN raced ELSE raced \cup {w} \cup Inserting
    /\ Goto(w, "insert")
    /\ UNCHANGED <<queueVars, poolVars, task, runCount, runWaiters, numbers, histogram>>

\* The end of the insertion, which another one at the same time may undo.
Insert(w) ==
    /\ pc[w] = "insert"
    /\ \/ numbers' = Put(numbers, w, threadNum[w])
       \/ w \in raced /\ UNCHANGED numbers
    /\ Goto(w, "init")
    /\ UNCHANGED <<queueVars, poolVars, task, runCount, runWaiters, counter, threadNum,
                   raced, histogram>>

InitThread(w) ==
    /\ pc[w] = "init"
    /\ Goto(w, "loop")
    /\ UNCHANGED <<queueVars, poolVars, task, runCount, runWaiters>>

\* while(!done_)
LoopTest(w) ==
    /\ pc[w] = "loop"
    /\ Goto(w, IF done THEN "finalize" ELSE "pop")
    /\ UNCHANGED <<queueVars, poolVars, task, runCount, runWaiters>>

PopBuffered(w) ==
    /\ pc[w] = "pop"
    /\ PopPriority
    /\ task' = [task EXCEPT ![w] = current]
    /\ Goto(w, "gate")
    /\ UNCHANGED <<poolVars, runCount, runWaiters>>

PopQueued(w) ==
    /\ pc[w] = "pop"
    /\ PopStandard
    /\ task' = [task EXCEPT ![w] = Head(queue)]
    /\ Goto(w, "gate")
    /\ UNCHANGED <<poolVars, runCount, runWaiters>>

\* pop() returns false: the worker goes round the loop again.
PopInvalid(w) ==
    /\ pc[w] = "pop"
    /\ ~valid
    /\ Goto(w, "loop")
    /\ UNCHANGED <<queueVars, poolVars, task, runCount, runWaiters>>

\* run_condition_.wait with the predicate !paused_ || done_, evaluated under
\* run_mutex_ on entry and after every wakeup.
GateEnter(w) ==
    pc[w] \in {"gate", "gateWait"} /\ w \notin runWaiters /\ RunMutexFree

GateOpen(w) ==
    /\ GateEnter(w)
    /\ ~paused \/ done
    /\ Goto(w, "gated")
    /\ UNCHANGED <<queueVars, poolVars, task, runCount, runWaiters>>

GateClosed(w) ==
    /\ GateEnter(w)
    /\ paused /\ ~done
    /\ Goto(w, "blocking")
    /\ UNCHANGED <<queueVars, poolVars, task, runCount, runWaiters>>

GateBlock(w) ==
    /\ pc[w] = "blocking"
    /\ runWaiters' = runWaiters \cup {w}
    /\ Goto(w, "gateWait")
    /\ UNCHANGED <<queueVars, poolVars, task, runCount>>

\* A destroyed pool drops the task it was holding.
StartTask(w) ==
    /\ pc[w] = "gated"
    /\ Goto(w, IF done THEN "finalize" ELSE "run")
    /\ UNCHANGED <<queueVars, poolVars, task, runCount, runWaiters>>

-----------------------------------------------------------------------------
(* The task, as the event loop's tasks behave *)

\* markComplete(), whose loop gives up the queue between two turns.
TaskComplete(w) ==
    /\ pc[w] = "run"
    /\ Complete(task[w])
    /\ Goto(w, "completing")
    /\ UNCHANGED <<poolVars, task, runCount, runWaiters>>

TaskAdvance(w) ==
    /\ pc[w] = "completing"
    /\ Advance
    /\ UNCHANGED <<poolVars, pc, task, runCount, runWaiters>>

\* A thread may leave markComplete() before every completed identifier is
\* passed over if another one is still in its loop (SafeQueue's
\* NoLostCompletion).
TaskCompleted(w) ==
    /\ pc[w] = "completing"
    /\ StartsAtCurrent(completed) => \E v \in Workers \ {w} : pc[v] = "completing"
    /\ Goto(w, "fill")
    /\ UNCHANGED <<queueVars, poolVars, task, runCount, runWaiters>>

\* threadNum(): threads that are not found share zero with the main thread.
ThreadNum(w) == IF w \in DOMAIN numbers THEN numbers[w] ELSE 0

\* The entries of a slot, which are none before it is made.
Entries(n) == IF n \in DOMAIN slots THEN slots[n] ELSE 0

\* The task fills a histogram, as buffer_fill_level_ when its event is complete.
\* Get() finds the slot of the thread, or makes an empty one.  A look-up during an
\* insertion may miss.
FillBegin(w) ==
    /\ pc[w] = "fill"
    /\ \E n \in {ThreadNum(w)} \cup (IF Inserting = {} THEN {} ELSE {0}) :
         filling' = [filling EXCEPT ![w] = <<n, Entries(n)>>]
    /\ raced' = IF Inserting = {} THEN raced ELSE raced \cup {w}
    /\ Goto(w, "filling")
    /\ UNCHANGED <<queueVars, poolVars, task, runCount, runWaiters, registry, slots, fills>>

FillEnd(w) ==
    /\ pc[w] = "filling"
    /\ slots' = Put(slots, filling[w][1], filling[w][2] + 1)
    /\ filling' = [filling EXCEPT ![w] = <<0, 0>>]
    /\ fills' = fills + 1
    /\ Goto(w, "ran")
    /\ UNCHANGED <<queueVars, poolVars, task, runCount, runWaiters, registry, raced>>

\* objects_ has a slot for each thread of threadCount(): the main thread and the
\* workers that ModuleManager::initialize() announced.
NumSlots == 1 + Cardinality(Workers)

\* merge(): the entries of the histogram as it is written after the run, slot by slot.
Merged ==
    LET added[n \in 0 .. NumSlots] == IF n = 0 THEN 0 ELSE added[n - 1] + Entries(n - 1)
    IN  added[NumSlots]

\* submit(n, ...) from within the task, after it read that it is not its turn.
TaskDefer(w) ==
    /\ pc[w] = "run"
    /\ task[w] # current
    /\ Goto(w, "resubmit")
    /\ UNCHANGED <<queueVars, poolVars, task, runCount, runWaiters>>

Resubmit(w) ==
    /\ pc[w] = "resubmit"
    /\ PushPriority(task[w]) \/ (PriorityRefused /\ UNCHANGED queueVars)
    /\ Goto(w, "count")
    /\ UNCHANGED <<poolVars, task, runCount, runWaiters>>

\* Mutant: a task that is submitted from within a task is not counted.
CountUpMainOnly(t) ==
    /\ pc[t] = "count"
    /\ runCount' = IF t = Main THEN (runCount + 1) % Modulus ELSE runCount
    /\ Goto(t, IF t = Main THEN "check" ELSE "ran")
    /\ UNCHANGED <<queueVars, poolVars, task, runWaiters>>

\* ++run_cnt_ follows the push, without a lock, whether it succeeded or not.
CountUp(t) ==
    /\ pc[t] = "count"
    /\ runCount' = (runCount + 1) % Modulus
    /\ Goto(t, IF t = Main THEN "check" ELSE "ran")
    /\ UNCHANGED <<queueVars, poolVars, task, runWaiters>>

\* if(--run_cnt_ == 0) run_condition_.notify_all(), under run_mutex_.
CountDown(w) ==
    /\ pc[w] = "ran"
    /\ RunMutexFree
    /\ runCount' = (runCount + Modulus - 1) % Modulus
    /\ IF runCount' = 0 THEN NotifyAllRun ELSE UNCHANGED runWaiters
    /\ Goto(w, "loop")
    /\ UNCHANGED <<queueVars, poolVars, task>>

-----------------------------------------------------------------------------
(* worker(): exceptions and the end of the thread *)

\* A module throws in initializeThread, in the task or in finalizeThread.
Throw(w) ==
    /\ \E stage \in Throws :
         /\ pc[w] = (IF stage = "task" THEN "run" ELSE stage)
         /\ threw' = [threw EXCEPT ![w] = stage]
    /\ Goto(w, "catch")
    /\ UNCHANGED <<queueVars, task, runCount, runWaiters,
                   done, paused, notifying, pauses, exception, outcome>>

\* The first exception is saved and invalidates the queue.
Catch(w) ==
    /\ pc[w] = "catch"
    /\ RunMutexFree
    /\ IF exception = NoWorker
         THEN exception' = w /\ Invalidate
         ELSE UNCHANGED <<queueVars, exception>>
    /\ NotifyAllRun
    /\ Goto(w, "end")
    /\ UNCHANGED <<task, runCount, done, paused, notifying, pauses, threw, outcome>>

FinalizeThread(w) ==
    /\ pc[w] = "finalize"
    /\ Goto(w, "end")
    /\ UNCHANGED <<queueVars, poolVars, task, runCount, runWaiters>>

-----------------------------------------------------------------------------
(* The main thread: ModuleManager::run over the pool *)

MarkZero ==
    /\ pc[Main] = "mark"
    /\ Complete(0)
    /\ task' = [task EXCEPT ![Main] = 1]
    /\ Goto(Main, "poll")
    /\ UNCHANGED <<poolVars, runCount, runWaiters>>

Submit ==
    /\ pc[Main] = "submit"
    /\ PushStandard(task[Main]) \/ (~valid /\ UNCHANGED queueVars)
    /\ Goto(Main, "count")
    /\ UNCHANGED <<poolVars, task, runCount, runWaiters>>

\* The top of the submission loop polls for a stop request, which ends the loop
\* by destroy() and break.
KeepSubmitting ==
    /\ pc[Main] = "poll"
    /\ Goto(Main, "submit")
    /\ UNCHANGED <<queueVars, poolVars, task, runCount, runWaiters>>

StopEarly ==
    /\ pc[Main] = "poll"
    /\ outcome' = "stopped"
    /\ Goto(Main, "destroy")
    /\ UNCHANGED <<queueVars, task, runCount, runWaiters,
                   done, paused, notifying, pauses, exception, threw>>

\* checkException(): destroy() and rethrow, if a worker saved an exception.
CheckException(next, otherwise) ==
    /\ IF exception # NoWorker
         THEN outcome' = "exception" /\ Goto(Main, "destroy")
         ELSE outcome' = otherwise /\ Goto(Main, next)
    /\ UNCHANGED <<queueVars, runCount, runWaiters,
                   done, paused, notifying, pauses, exception, threw>>

\* Mutant: the submission loop goes one task too far.
CheckAfterSubmitBeyond ==
    /\ pc[Main] = "check"
    /\ CheckException(IF task[Main] > Tasks THEN "wait" ELSE "poll", outcome)
    /\ task' = [task EXCEPT ![Main] = @ + 1]

CheckAfterSubmit ==
    /\ pc[Main] = "check"
    /\ CheckException(IF task[Main] = Tasks THEN "wait" ELSE "poll", outcome)
    /\ task' = [task EXCEPT ![Main] = @ + 1]

\* Mutant: no check for exceptions after wait().
CheckAfterWaitSkipped ==
    /\ pc[Main] = "checkLast"
    /\ outcome' = "returned"
    /\ Goto(Main, "destroy")
    /\ UNCHANGED <<queueVars, task, runCount, runWaiters,
                   done, paused, notifying, pauses, exception, threw>>

\* After wait(); without an exception the pool is destroyed by reset().
CheckAfterWait ==
    /\ pc[Main] = "checkLast"
    /\ CheckException("destroy", "returned")
    /\ UNCHANGED task

\* Mutant: wait() does not wait for the last task.
WaitOverEarly == exception # NoWorker \/ runCount <= 1 \/ done

\* wait(): evaluating the predicate and blocking is one step, because all that
\* can make the predicate true happens under run_mutex_.
WaitOver == exception # NoWorker \/ runCount = 0 \/ done

Wait ==
    /\ pc[Main] = "wait"
    /\ Main \notin runWaiters
    /\ RunMutexFree
    /\ IF WaitOver
         THEN Goto(Main, "checkLast") /\ UNCHANGED runWaiters
         ELSE runWaiters' = runWaiters \cup {Main} /\ UNCHANGED pc
    /\ UNCHANGED <<queueVars, poolVars, task, runCount>>

\* Mutant: destroy() does not notify run_condition_.
DestroySilently ==
    /\ pc[Main] = "destroy"
    /\ RunMutexFree
    /\ done' = TRUE
    /\ Invalidate
    /\ Goto(Main, "join")
    /\ UNCHANGED <<task, runCount, runWaiters,
                   paused, notifying, pauses, exception, threw, outcome>>

Destroy ==
    /\ pc[Main] = "destroy"
    /\ RunMutexFree
    /\ done' = TRUE
    /\ Invalidate
    /\ NotifyAllRun
    /\ Goto(Main, "join")
    /\ UNCHANGED <<task, runCount, paused, notifying, pauses, exception, threw, outcome>>

Join ==
    /\ pc[Main] = "join"
    /\ \A w \in Workers : pc[w] = "end"
    /\ IF outcome = "stopped"
         THEN outcome' = "none" /\ Goto(Main, "wait")
         ELSE outcome' = outcome /\ Goto(Main, "end")
    /\ UNCHANGED <<queueVars, task, runCount, runWaiters,
                   done, paused, notifying, pauses, exception, threw>>

-----------------------------------------------------------------------------
(* setPaused(): a store and a notification, neither under run_mutex_ *)

StorePaused(pause) ==
    /\ ~notifying
    /\ paused # pause
    /\ pause => pauses < MaxPauses
    /\ paused' = pause
    /\ notifying' = TRUE
    /\ pauses' = IF pause THEN pauses + 1 ELSE pauses
    /\ UNCHANGED <<queueVars, pc, task, runCount, runWaiters,
                   done, exception, threw, outcome>>

NotifyPaused ==
    /\ notifying
    /\ notifying' = FALSE
    /\ NotifyAllRun
    /\ UNCHANGED <<queueVars, pc, task, runCount,
                   done, paused, pauses, exception, threw, outcome>>

SpuriousWakeup ==
    /\ \E t \in runWaiters : runWaiters' = runWaiters \ {t}
    /\ UNCHANGED <<queueVars, poolVars, pc, task, runCount>>

-----------------------------------------------------------------------------
RegistryStep(w) == Register(w) \/ Insert(w) \/ FillBegin(w) \/ FillEnd(w)

PoolStep(w) ==
    \/ InitThread(w) \/ LoopTest(w)
    \/ PopBuffered(w) \/ PopQueued(w) \/ PopInvalid(w)
    \/ GateOpen(w) \/ GateClosed(w) \/ GateBlock(w) \/ StartTask(w)
    \/ TaskComplete(w) \/ TaskAdvance(w) \/ TaskCompleted(w)
    \/ TaskDefer(w) \/ Resubmit(w) \/ CountUp(w) \/ CountDown(w)
    \/ Throw(w) \/ Catch(w) \/ FinalizeThread(w)

WorkerStep(w) == RegistryStep(w) \/ (PoolStep(w) /\ UNCHANGED statics)

MainStep ==
    /\ \/ MarkZero \/ KeepSubmitting \/ StopEarly \/ Submit \/ CountUp(Main)
       \/ CheckAfterSubmit \/ Wait \/ CheckAfterWait \/ Destroy \/ Join
    /\ UNCHANGED statics

Pause == \E pause \in BOOLEAN : StorePaused(pause) /\ UNCHANGED statics
Resume == StorePaused(FALSE) /\ UNCHANGED statics
PauseNotified == NotifyPaused /\ UNCHANGED statics

Next ==
    \/ \E w \in Workers : WorkerStep(w)
    \/ MainStep
    \/ Pause \/ PauseNotified
    \/ SpuriousWakeup /\ UNCHANGED statics

Spec == Init /\ [][Next]_vars

\* The operating system runs every thread.  Whoever pauses the pool resumes it;
\* nobody is obliged to pause it, to stop it or to throw.
FairSpec ==
    /\ Spec
    /\ WF_vars(MainStep)
    /\ \A w \in Workers : WF_vars(WorkerStep(w))
    /\ WF_vars(Resume)
    /\ WF_vars(PauseNotified)

-----------------------------------------------------------------------------
TypeOK ==
    /\ QueueTypeOK
    /\ pc \in [Threads -> {"mark", "poll", "submit", "count", "check", "wait",
                           "checkLast", "destroy", "join", "start", "insert", "init", "loop", "pop", "gate",
                           "blocking", "gateWait", "gated", "run", "completing",
                           "resubmit", "fill", "filling", "ran", "catch", "finalize", "end"}]
    /\ task \in [Threads -> 0 .. Tasks + 1]
    /\ runCount \in 0 .. Modulus - 1
    /\ done \in BOOLEAN /\ paused \in BOOLEAN /\ notifying \in BOOLEAN
    /\ pauses \in 0 .. MaxPauses
    /\ runWaiters \subseteq Threads
    /\ exception \in Workers \cup {NoWorker}
    /\ threw \in [Workers -> Throws \cup {"no"}]
    /\ outcome \in {"none", "stopped", "exception", "returned"}

\* Workers that hold a task that run_cnt_ has to cover.
Busy == {w \in Workers :
           \/ pc[w] \in {"gate", "blocking", "gateWait", "gated", "run",
                        "completing", "resubmit", "count", "fill", "filling", "ran"}
           \/ pc[w] = "catch" /\ threw[w] = "task"}

\* Threads that pushed a task they have not counted yet.
Uncounted == {t \in Threads : pc[t] = "count"}

\* run_cnt_ is exact up to the pushes that are not counted yet: it may even run
\* below zero, and wrap, when a task is over before its submission is counted.
RunCountExact ==
    valid => runCount = (Len(queue) + Cardinality(buffered) + Cardinality(Busy)
                            - Cardinality(Uncounted)) % Modulus

\* wait() returns without an exception or a stop only when every submitted task
\* is complete, although run_cnt_ is decremented before a push is counted.
WaitReturnsDrained ==
    pc[Main] = "checkLast" /\ exception = NoWorker /\ ~done
        => current = Tasks + 1 /\ completed = {}

\* An exception thrown by a task reaches the main thread, whichever of the
\* submission loop, the final wait or a stop meets it first.
TaskExceptionsReachMain ==
    pc[Main] = "end" /\ (\E w \in Workers : threw[w] = "task")
        => outcome = "exception"

\* The run ends: every blocked pop, push, wait and join is woken up.  The only
\* place where a thread may hang is the pause gate of a pool that is not being
\* destroyed (see ResumeWakesWorkers): destroy() opens the gate for good.
Terminates ==
    <>(pc[Main] = "end") \/ <>[](~done /\ \E w \in Workers : pc[w] = "gateWait")

\* "Get the unique number of the current thread" (ThreadPool.hpp:268).  It is not:
\* two workers that meet in the unguarded map may both be left without an entry.
NumbersUnique ==
    \A v, w \in Workers : pc[v] = "filling" /\ pc[w] = "filling"
                          /\ filling[v][1] = filling[w][1] => v = w

\* ThreadedHistogram "enables filling histograms in parallel"
\* (ThreadedHistogram.hpp:66).  Two threads without a number of their own share a
\* slot, and an entry is lost.
FillsCounted == Merged = fills

\* "Calling with `pause = false` resumes all workers" (ThreadPool.hpp:238).
ResumeWakesWorkers ==
    \A w \in Workers : pc[w] = "gateWait" /\ ~paused ~> pc[w] # "gateWait" \/ paused

\* "If an exception is thrown by a module, the first exception is saved to
\* propagate in the main thread" (ThreadPool.cpp:102).
ExceptionsReachMain ==
    pc[Main] = "end" /\ (\E w \in Workers : threw[w] # "no") => outcome = "exception"
=============================================================================

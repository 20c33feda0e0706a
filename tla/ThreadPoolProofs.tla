-------------------------- MODULE ThreadPoolProofs --------------------------
(***************************************************************************)
(* Proofs about ThreadPool for any numbers of workers, tasks and places:   *)
(* run_cnt_ is exact, wait() returns only when every task is complete, and *)
(* an exception of a task reaches the main thread.                         *)
(***************************************************************************)
EXTENDS ThreadPool, FiniteSetTheorems, SequenceTheorems, TLAPS

-----------------------------------------------------------------------------
(* Numbers modulo m                                                        *)

\* A number is a multiple of m and a rest below m.
LEMMA ModParts ==
  ASSUME NEW m \in Nat \ {0}, NEW x \in Int
  PROVE  x % m \in 0 .. m - 1 /\ \E q \in Int : x = m * q + (x % m)
<1>1. x % m \in 0 .. m - 1
  OBVIOUS
<1>2. x = m * (x \div m) + (x % m) /\ x \div m \in Int
  OBVIOUS
<1> QED
  BY <1>1, <1>2

\* There is one such rest.
LEMMA ModIs ==
  ASSUME NEW m \in Nat \ {0}, NEW q \in Int, NEW r \in 0 .. m - 1
  PROVE  (m * q + r) % m = r
<1> DEFINE x == m * q + r
<1>1. PICK p \in Int, s \in 0 .. m - 1 : x = m * p + s /\ s = x % m
  <2>1. x \in Int
    OBVIOUS
  <2> QED
    BY <2>1, ModParts
<1>2. m * q - m * p = s - r /\ m * q - m * p = m * (q - p)
  BY <1>1
<1>3. s - r < m /\ s - r > -m /\ q - p \in Int
  OBVIOUS
<1>4. \A d \in Int : m * d < m /\ m * d > -m => d = 0
  OBVIOUS
<1>5. q - p = 0
  BY <1>2, <1>3, <1>4
<1> QED
  BY <1>1, <1>2, <1>5

\* One may count up modulo m ...
LEMMA ModPlus ==
  ASSUME NEW m \in Nat \ {0}, NEW x \in Int
  PROVE  ((x % m) + 1) % m = (x + 1) % m
<1>1. PICK q \in Int, r \in 0 .. m - 1 : x = m * q + r /\ r = x % m
  BY ModParts
<1>2. CASE r + 1 < m
  <2>1. (m * q + (r + 1)) % m = r + 1
    BY <1>2, ModIs
  <2>2. (m * 0 + (r + 1)) % m = r + 1
    BY <1>2, ModIs
  <2>3. x + 1 = m * q + (r + 1) /\ m * 0 + (r + 1) = r + 1
    BY <1>1
  <2> QED
    BY <1>1, <2>1, <2>2, <2>3
<1>3. CASE r + 1 = m
  <2>1. (m * (q + 1) + 0) % m = 0
    BY ModIs
  <2>2. (m * 1 + 0) % m = 0
    BY ModIs
  <2>3. x + 1 = m * (q + 1) + 0 /\ m * 1 + 0 = r + 1
    BY <1>1, <1>3
  <2> QED
    BY <1>1, <2>1, <2>2, <2>3
<1> QED
  BY <1>2, <1>3

\* ... and down.
LEMMA ModMinus ==
  ASSUME NEW m \in Nat \ {0}, NEW x \in Int
  PROVE  ((x % m) + m - 1) % m = (x - 1) % m
<1>1. PICK q \in Int, r \in 0 .. m - 1 : x = m * q + r /\ r = x % m
  BY ModParts
<1>2. CASE r > 0
  <2>1. (m * q + (r - 1)) % m = r - 1
    BY <1>2, ModIs
  <2>2. (m * 1 + (r - 1)) % m = r - 1
    BY <1>2, ModIs
  <2>3. x - 1 = m * q + (r - 1) /\ m * 1 + (r - 1) = r + m - 1
    BY <1>1
  <2> QED
    BY <1>1, <2>1, <2>2, <2>3
<1>3. CASE r = 0
  <2>1. (m * (q - 1) + (m - 1)) % m = m - 1
    BY ModIs
  <2>2. (m * 0 + (m - 1)) % m = m - 1
    BY ModIs
  <2>3. x - 1 = m * (q - 1) + (m - 1) /\ m * 0 + (m - 1) = r + m - 1
    BY <1>1, <1>3
  <2> QED
    BY <1>1, <2>1, <2>2, <2>3
<1> QED
  BY <1>2, <1>3

-----------------------------------------------------------------------------
(* Types                                                                   *)

TaskIds == 1 .. Tasks

MainLabels == {"mark", "poll", "submit", "count", "check", "wait", "checkLast",
               "destroy", "join", "end"}

\* A worker with a task that is neither complete nor given back.
HoldingLabels == {"gate", "blocking", "gateWait", "gated", "run", "resubmit"}

\* A worker whose task is complete and is still counted.
AfterLabels == {"completing", "fill", "filling", "ran"}

FreeLabels == {"start", "insert", "init", "loop", "pop", "finalize", "end"}

WorkerLabels == HoldingLabels \cup AfterLabels \cup FreeLabels \cup {"count", "catch"}

Holding == {w \in Workers : pc[w] \in HoldingLabels}

\* The last identifier the main thread marked or pushed.
LastPushed == IF pc[Main] \in {"count", "check"} THEN task[Main] ELSE task[Main] - 1

TypeInv ==
    /\ queue \in Seq(TaskIds) /\ buffered \in SUBSET TaskIds
    /\ completed \in SUBSET Ids /\ current \in Nat
    /\ pc \in [Threads -> MainLabels \cup WorkerLabels]
    /\ pc[Main] \in MainLabels /\ \A w \in Workers : pc[w] \in WorkerLabels
    /\ task \in [Threads -> Int]
    /\ pc[Main] = "mark" => task[Main] = 0
    /\ pc[Main] \in {"poll", "submit", "count", "check"} => task[Main] \in TaskIds
    /\ \A w \in Holding : task[w] \in TaskIds
    /\ threw \in [Workers -> {"no", "init", "task", "finalize"}]

\* The sets of numbers and threads these proofs work with.
NumberSets ==
    /\ TaskIds \in SUBSET Ids /\ TaskIds \in SUBSET Int /\ Ids \in SUBSET Int /\ 0 \in Ids
    /\ \A n \in TaskIds : n >= 1 /\ n <= Tasks
    /\ Tasks \in Nat \ {0}
    /\ Main \in Threads /\ Main \notin Workers /\ \A w \in Workers : w \in Threads /\ w # Main
    /\ \A t \in Threads : t = Main \/ t \in Workers

\* They follow from the assumptions.
LEMMA Numbers == NumberSets
BY PoolAssumption DEF NumberSets, TaskIds, Threads

\* The queue is empty and nobody has thrown at first.
LEMMA TypeInit == Init => TypeInv
<1> SUFFICES ASSUME Init PROVE TypeInv
  OBVIOUS
<1>1. pc[Main] = "mark" /\ task[Main] = 0 /\ \A w \in Workers : pc[w] = "start"
  BY Numbers DEF Init, NumberSets
<1>2. pc \in [Threads -> MainLabels \cup WorkerLabels]
  BY DEF Init, MainLabels, WorkerLabels, FreeLabels
<1>3. task \in [Threads -> Int] /\ threw \in [Workers -> {"no", "init", "task", "finalize"}]
  BY DEF Init
<1>4. queue \in Seq(TaskIds) /\ buffered = {} /\ completed = {} /\ current = 0
  BY DEF Init, QueueInit
<1>5. Holding = {}
  BY <1>1 DEF Holding, HoldingLabels
<1> QED
  BY <1>1, <1>2, <1>3, <1>4, <1>5
     DEF TypeInv, MainLabels, WorkerLabels, FreeLabels

-----------------------------------------------------------------------------
(* The steps, sorted by what they change                                   *)

coreVars == <<queue, buffered, completed, current, valid, task, runCount, done,
              exception, threw, outcome>>

\* Settle moves current only over an identifier that is complete.
LEMMA SettleCases ==
  ASSUME NEW ids, Settle(ids)
  PROVE  \/ /\ current \in ids /\ \A n \in ids : current <= n
            /\ completed' = ids \ {current} /\ current' = current + 1
         \/ /\ current \notin ids \/ \E n \in ids : ~(current <= n)
            /\ completed' = ids /\ current' = current
BY Zenon DEF Settle, StartsAtCurrent

\* A worker goes on to label and changes nothing else; it drops its task only when the
\* pool is destroyed, and leaves markComplete() when nothing is left to pass over.
QuietStep(w, label) ==
    /\ UNCHANGED coreVars
    /\ pc' = [pc EXCEPT ![w] = label]
    /\ label \in HoldingLabels => pc[w] \in HoldingLabels
    /\ label \in AfterLabels => pc[w] \in AfterLabels
    /\ label \in FreeLabels => pc[w] \in FreeLabels \/ done
    /\ label \in {"fill", "filling", "ran"} \cup HoldingLabels \cup FreeLabels
    /\ pc[w] \notin {"catch", "count", "ran", "end"}
    /\ label = "finalize" => done
    /\ label = "end" => pc[w] = "finalize"
    /\ pc[w] = "completing" =>
         (StartsAtCurrent(completed) => \E v \in Workers \ {w} : pc[v] = "completing")

\* The other steps of a worker.
LoudStep(w) ==
    \/ PopBuffered(w) \/ PopQueued(w) \/ TaskComplete(w) \/ TaskAdvance(w) \/ Resubmit(w)
    \/ CountUp(w) \/ CountDown(w) \/ Throw(w) \/ Catch(w)

\* Every step of a worker is of one of these sorts.
LEMMA WorkerCases ==
  ASSUME NEW w \in Workers, WorkerStep(w)
  PROVE  LoudStep(w) \/ \E label \in WorkerLabels : QuietStep(w, label)
<1> USE DEF Goto
<1>1. CASE Register(w) \/ Insert(w) \/ FillBegin(w) \/ FillEnd(w)
  <2>1. UNCHANGED coreVars
    BY <1>1, Zenon DEF Register, Insert, FillBegin, FillEnd, coreVars, queueVars, poolVars
  <2>2. \/ pc[w] = "start" /\ pc' = [pc EXCEPT ![w] = "insert"]
        \/ pc[w] = "insert" /\ pc' = [pc EXCEPT ![w] = "init"]
        \/ pc[w] = "fill" /\ pc' = [pc EXCEPT ![w] = "filling"]
        \/ pc[w] = "filling" /\ pc' = [pc EXCEPT ![w] = "ran"]
    BY <1>1, Zenon DEF Register, Insert, FillBegin, FillEnd
  <2> QED
    BY <2>1, <2>2
       DEF QuietStep, WorkerLabels, HoldingLabels, AfterLabels, FreeLabels
<1>2. CASE InitThread(w) \/ LoopTest(w) \/ PopInvalid(w) \/ FinalizeThread(w)
  <2>1. UNCHANGED coreVars
    BY <1>2, Zenon
       DEF InitThread, LoopTest, PopInvalid, FinalizeThread, coreVars, queueVars, poolVars
  <2>2. \/ pc[w] = "init" /\ pc' = [pc EXCEPT ![w] = "loop"]
        \/ pc[w] = "loop" /\ pc' = [pc EXCEPT ![w] = "finalize"] /\ done
        \/ pc[w] = "loop" /\ pc' = [pc EXCEPT ![w] = "pop"]
        \/ pc[w] = "pop" /\ pc' = [pc EXCEPT ![w] = "loop"]
        \/ pc[w] = "finalize" /\ pc' = [pc EXCEPT ![w] = "end"]
    BY <1>2 DEF InitThread, LoopTest, PopInvalid, FinalizeThread
  <2> QED
    BY <2>1, <2>2
       DEF QuietStep, WorkerLabels, HoldingLabels, AfterLabels, FreeLabels
<1>3. CASE GateOpen(w) \/ GateClosed(w) \/ GateBlock(w) \/ StartTask(w) \/ TaskDefer(w)
  <2>1. UNCHANGED coreVars
    BY <1>3, Zenon
       DEF GateOpen, GateClosed, GateBlock, StartTask, TaskDefer, coreVars, queueVars, poolVars
  <2>2. \/ pc[w] \in HoldingLabels /\ \E label \in HoldingLabels : pc' = [pc EXCEPT ![w] = label]
        \/ pc[w] = "gated" /\ pc' = [pc EXCEPT ![w] = "finalize"] /\ done
    BY <1>3 DEF GateOpen, GateClosed, GateEnter, GateBlock, StartTask, TaskDefer, HoldingLabels
  <2> QED
    BY <2>1, <2>2
       DEF QuietStep, WorkerLabels, HoldingLabels, AfterLabels, FreeLabels
<1>4. CASE TaskCompleted(w)
  <2>1. UNCHANGED coreVars
    BY <1>4, Zenon DEF TaskCompleted, coreVars, queueVars, poolVars
  <2> QED
    BY <1>4, <2>1
       DEF TaskCompleted, QuietStep, WorkerLabels, HoldingLabels, AfterLabels, FreeLabels
<1> QED
  BY <1>1, <1>2, <1>3, <1>4, Zenon DEF WorkerStep, RegistryStep, PoolStep, LoudStep

\* Steps of the pause, wakeups and stuttering.
StillStep == UNCHANGED coreVars /\ UNCHANGED pc

\* Every step is one of a worker, of the main thread, or of these.
LEMMA NextCases ==
  ASSUME [Next]_vars
  PROVE  (\E w \in Workers : WorkerStep(w)) \/ MainStep \/ StillStep
<1>1. ASSUME Pause PROVE StillStep
  BY <1>1, Zenon DEF Pause, StorePaused, StillStep, coreVars, queueVars
<1>2. ASSUME PauseNotified PROVE StillStep
  BY <1>2, Zenon DEF PauseNotified, NotifyPaused, StillStep, coreVars, queueVars
<1>3. ASSUME SpuriousWakeup \/ UNCHANGED vars PROVE StillStep
  BY <1>3, Zenon DEF SpuriousWakeup, vars, StillStep, coreVars, queueVars, poolVars
<1> QED
  BY <1>1, <1>2, <1>3 DEF Next

-----------------------------------------------------------------------------
(* Every step keeps the types                                              *)

QueueTyped ==
    /\ queue \in Seq(TaskIds) /\ buffered \in SUBSET TaskIds
    /\ completed \in SUBSET Ids /\ current \in Nat

\* A step of worker w that goes to label, with a task if it has to have one.
LEMMA TypeWorker ==
  ASSUME TypeInv, NEW w \in Workers, NEW label \in WorkerLabels, QueueTyped',
         pc' = [pc EXCEPT ![w] = label],
         task' = task \/ \E n \in Int : task' = [task EXCEPT ![w] = n],
         label \in HoldingLabels => task'[w] \in TaskIds,
         threw' \in [Workers -> {"no", "init", "task", "finalize"}]
  PROVE  TypeInv'
<1>1. w \in Threads /\ Main \in Threads /\ w # Main /\ \A v \in Workers : v \in Threads
  BY Numbers DEF NumberSets
<1>2. /\ pc' \in [Threads -> MainLabels \cup WorkerLabels] /\ task' \in [Threads -> Int]
      /\ pc'[w] = label /\ \A t \in Threads \ {w} : pc'[t] = pc[t] /\ task'[t] = task[t]
  BY <1>1 DEF TypeInv
<1>3. (pc[Main] \in MainLabels /\ \A v \in Workers : pc[v] \in WorkerLabels)'
  BY <1>1, <1>2 DEF TypeInv
<1>4. (/\ pc[Main] = "mark" => task[Main] = 0
       /\ pc[Main] \in {"poll", "submit", "count", "check"} => task[Main] \in TaskIds)'
  BY <1>1, <1>2 DEF TypeInv
<1>5. \A v \in Holding' : task'[v] \in TaskIds
  BY <1>1, <1>2 DEF TypeInv, Holding
<1> QED
  BY <1>2, <1>3, <1>4, <1>5 DEF TypeInv, QueueTyped

\* A step of the main thread.
LEMMA TypeMain ==
  ASSUME TypeInv, NEW label \in MainLabels \ {"mark"}, QueueTyped',
         pc' = [pc EXCEPT ![Main] = label],
         task' = task \/ \E n \in Int : task' = [task EXCEPT ![Main] = n],
         label \in {"poll", "submit", "count", "check"} => task'[Main] \in TaskIds,
         threw' = threw
  PROVE  TypeInv'
<1>1. Main \in Threads /\ \A v \in Workers : v \in Threads /\ v # Main
  BY Numbers DEF NumberSets
<1>2. /\ pc' \in [Threads -> MainLabels \cup WorkerLabels] /\ task' \in [Threads -> Int]
      /\ pc'[Main] = label /\ \A v \in Workers : pc'[v] = pc[v] /\ task'[v] = task[v]
  BY <1>1 DEF TypeInv
<1>3. (pc[Main] \in MainLabels /\ \A v \in Workers : pc[v] \in WorkerLabels)'
  BY <1>1, <1>2 DEF TypeInv
<1>4. (/\ pc[Main] = "mark" => task[Main] = 0
       /\ pc[Main] \in {"poll", "submit", "count", "check"} => task[Main] \in TaskIds)'
  BY <1>2
<1>5. \A v \in Holding' : task'[v] \in TaskIds
  BY <1>2 DEF TypeInv, Holding
<1> QED
  BY <1>2, <1>3, <1>4, <1>5 DEF TypeInv, QueueTyped

\* What one turn of the loop of markComplete() leaves is typed.
LEMMA TypeSettle ==
  ASSUME TypeInv, NEW ids \in SUBSET Ids, Settle(ids),
         queue' = queue, buffered' = buffered
  PROVE  QueueTyped'
BY SettleCases DEF TypeInv, QueueTyped

\* The queue as it is, or emptied, is typed.
LEMMA TypeSame ==
  ASSUME TypeInv, completed' = completed, current' = current,
         (queue' = queue /\ buffered' = buffered) \/ (queue' = <<>> /\ buffered' = {})
  PROVE  QueueTyped'
<1>1. queue \in Seq(TaskIds) /\ buffered \in SUBSET TaskIds /\ <<>> \in Seq(TaskIds)
  BY DEF TypeInv
<1>2. completed \in SUBSET Ids /\ current \in Nat
  BY DEF TypeInv
<1> QED
  BY <1>1, <1>2, Zenon DEF QueueTyped

\* Steps of a worker keep the types.
LEMMA TypeWorkerStep ==
  ASSUME TypeInv, NEW w \in Workers, WorkerStep(w)
  PROVE  TypeInv'
<1> USE DEF Goto
<1>0. /\ QueueTyped /\ threw \in [Workers -> {"no", "init", "task", "finalize"}]
      /\ w \in Threads /\ TaskIds \in SUBSET Ids /\ TaskIds \in SUBSET Int /\ w # Main
  BY Numbers DEF TypeInv, QueueTyped, NumberSets
<1>1. ASSUME NEW label \in WorkerLabels, QuietStep(w, label) PROVE TypeInv'
  <2>1. /\ queue' = queue /\ buffered' = buffered /\ completed' = completed
        /\ current' = current /\ task' = task /\ threw' = threw
        /\ pc' = [pc EXCEPT ![w] = label]
    BY <1>1, Zenon DEF QuietStep, coreVars
  <2>2. label \in HoldingLabels => task'[w] \in TaskIds
    BY <1>1, <2>1 DEF QuietStep, TypeInv, Holding
  <2> QED
    BY <1>0, <2>1, <2>2, TypeSame, TypeWorker
<1>2. CASE PopBuffered(w)
  <2>1. current \in TaskIds /\ current \in Int /\ QueueTyped'
    BY <1>2, <1>0 DEF PopBuffered, PopPriority, PriorityReady, StartsAtCurrent, QueueTyped
  <2>2. task' = [task EXCEPT ![w] = current] /\ task'[w] = current /\ threw' = threw
    BY <1>0, <1>2 DEF PopBuffered, TypeInv, poolVars
  <2> QED
    BY <1>0, <1>2, <2>1, <2>2, TypeWorker DEF PopBuffered, WorkerLabels, HoldingLabels
<1>3. CASE PopQueued(w)
  <2>1. queue # <<>> /\ queue' = Tail(queue) /\ UNCHANGED <<buffered, completed, current>>
    BY <1>3 DEF PopQueued, PopStandard, StandardReady
  <2>2. queue \in Seq(TaskIds)
    BY <1>0 DEF QueueTyped
  <2>3. Head(queue) \in TaskIds /\ Tail(queue) \in Seq(TaskIds)
    BY <2>1, <2>2
  <2>4. Head(queue) \in Int /\ QueueTyped'
    BY <1>0, <2>1, <2>3 DEF QueueTyped
  <2>5. task' = [task EXCEPT ![w] = Head(queue)] /\ task'[w] = Head(queue) /\ threw' = threw
    BY <1>0, <1>3 DEF PopQueued, TypeInv, poolVars
  <2> QED
    BY <1>0, <1>3, <2>3, <2>4, <2>5, TypeWorker DEF PopQueued, WorkerLabels, HoldingLabels
<1>4. CASE TaskComplete(w)
  <2>1. task[w] \in TaskIds
    BY <1>4 DEF TaskComplete, TypeInv, Holding, HoldingLabels
  <2>2. completed \cup {task[w]} \in SUBSET Ids
    BY <1>0, <2>1 DEF QueueTyped
  <2>3. QueueTyped'
    BY <1>4, <2>2, TypeSettle DEF TaskComplete, Complete
  <2> QED
    BY <1>0, <1>4, <2>3, TypeWorker
       DEF TaskComplete, poolVars, WorkerLabels, AfterLabels, HoldingLabels
<1>5. CASE TaskAdvance(w)
  <2>1. QueueTyped'
    BY <1>0, <1>5, TypeSettle DEF TaskAdvance, Advance, QueueTyped
  <2>2. pc' = pc /\ task' = task /\ threw' = threw
    BY <1>5 DEF TaskAdvance, poolVars
  <2> QED
    BY <2>1, <2>2 DEF TypeInv, QueueTyped, Holding
<1>6. CASE Resubmit(w)
  <2>1. task[w] \in TaskIds
    BY <1>6 DEF Resubmit, TypeInv, Holding, HoldingLabels
  <2>2. CASE PushPriority(task[w])
    <3>1. QueueTyped'
      BY <1>0, <2>1, <2>2 DEF PushPriority, QueueTyped
    <3> QED
      BY <1>0, <1>6, <3>1, TypeWorker DEF Resubmit, poolVars, WorkerLabels, HoldingLabels
  <2>3. CASE UNCHANGED queueVars
    <3>1. QueueTyped'
      BY <1>0, <2>3 DEF queueVars, QueueTyped
    <3> QED
      BY <1>0, <1>6, <3>1, TypeWorker DEF Resubmit, poolVars, WorkerLabels, HoldingLabels
  <2> QED
    BY <1>6, <2>2, <2>3 DEF Resubmit
<1>7. CASE CountUp(w) \/ CountDown(w)
  <2>1. QueueTyped' /\ task' = task /\ threw' = threw
    BY <1>0, <1>7 DEF CountUp, CountDown, queueVars, poolVars, QueueTyped
  <2>2. PICK label \in {"ran", "loop"} : pc' = [pc EXCEPT ![w] = label]
    BY <1>0, <1>7 DEF CountUp, CountDown
  <2> QED
    BY <1>0, <2>1, <2>2, TypeWorker DEF WorkerLabels, AfterLabels, FreeLabels, HoldingLabels
<1>8. CASE Throw(w)
  <2>1. PICK stage \in Throws : threw' = [threw EXCEPT ![w] = stage]
    BY <1>8 DEF Throw
  <2>2. threw' \in [Workers -> {"no", "init", "task", "finalize"}]
    BY <1>0, <2>1, PoolAssumption
  <2>3. QueueTyped' /\ task' = task /\ pc' = [pc EXCEPT ![w] = "catch"]
    BY <1>0, <1>8 DEF Throw, queueVars, QueueTyped
  <2> QED
    BY <2>2, <2>3, TypeWorker DEF WorkerLabels, HoldingLabels
<1>9. CASE Catch(w)
  <2>1. /\ completed' = completed /\ current' = current
        /\ (queue' = queue /\ buffered' = buffered) \/ (queue' = <<>> /\ buffered' = {})
    BY <1>9, Zenon DEF Catch, Invalidate, queueVars
  <2>2. task' = task /\ threw' = threw /\ pc' = [pc EXCEPT ![w] = "end"]
    BY <1>9, Zenon DEF Catch
  <2> QED
    BY <1>0, <2>1, <2>2, TypeSame, TypeWorker DEF WorkerLabels, FreeLabels, HoldingLabels
<1> QED
  BY <1>1, <1>2, <1>3, <1>4, <1>5, <1>6, <1>7, <1>8, <1>9, WorkerCases DEF LoudStep

\* The main thread goes on to label; it may turn to the next task, and leave the loop.
QuietMain(label) ==
    /\ UNCHANGED <<queueVars, runCount, done, exception, threw>>
    /\ pc' = [pc EXCEPT ![Main] = label]
    /\ \/ pc[Main] # "check" /\ task' = task /\ label # "poll"
       \/ /\ pc[Main] = "check" /\ task' = [task EXCEPT ![Main] = @ + 1]
          /\ label \in {"poll", "wait", "destroy"}
          /\ label = "poll" => task[Main] # Tasks
          /\ label = "wait" => task[Main] = Tasks
    /\ pc[Main] \notin {"mark", "count", "submit"}
    /\ label \notin {"mark", "count", "check"}
    /\ label = "submit" => pc[Main] = "poll"

\* Most steps of the main thread are of this sort.
LEMMA MainCases ==
  ASSUME MainStep
  PROVE  \/ MarkZero \/ Submit \/ CountUp(Main) \/ Destroy
         \/ (Wait /\ pc' = pc) \/ \E label \in MainLabels : QuietMain(label)
<1> USE DEF Goto
<1>1. CASE KeepSubmitting \/ StopEarly
  BY <1>1 DEF KeepSubmitting, StopEarly, QuietMain, queueVars, poolVars, MainLabels
<1>2. CASE Wait
  BY <1>2 DEF Wait, QuietMain, queueVars, poolVars, MainLabels
<1>3. CASE CheckAfterSubmit
  <2>1. UNCHANGED <<queueVars, runCount, done, exception, threw>>
    BY <1>3, Zenon DEF CheckAfterSubmit, CheckException
  <2>2. /\ pc[Main] = "check" /\ task' = [task EXCEPT ![Main] = @ + 1]
        /\ \/ pc' = [pc EXCEPT ![Main] = "destroy"]
           \/ pc' = [pc EXCEPT ![Main] = "wait"] /\ task[Main] = Tasks
           \/ pc' = [pc EXCEPT ![Main] = "poll"] /\ task[Main] # Tasks
    BY <1>3 DEF CheckAfterSubmit, CheckException
  <2> QED
    BY <2>1, <2>2 DEF QuietMain, MainLabels
<1>4. CASE CheckAfterWait
  <2>1. UNCHANGED <<queueVars, runCount, done, exception, threw, task>>
    BY <1>4, Zenon DEF CheckAfterWait, CheckException
  <2>2. pc[Main] = "checkLast" /\ pc' = [pc EXCEPT ![Main] = "destroy"]
    BY <1>4 DEF CheckAfterWait, CheckException
  <2> QED
    BY <2>1, <2>2 DEF QuietMain, MainLabels
<1>5. CASE Join
  <2>1. UNCHANGED <<queueVars, runCount, done, exception, threw, task>>
    BY <1>5, Zenon DEF Join
  <2>2. /\ pc[Main] = "join"
        /\ pc' = [pc EXCEPT ![Main] = "wait"] \/ pc' = [pc EXCEPT ![Main] = "end"]
    BY <1>5 DEF Join
  <2> QED
    BY <2>1, <2>2 DEF QuietMain, MainLabels
<1> QED
  BY <1>1, <1>2, <1>3, <1>4, <1>5 DEF MainStep

\* Steps of the main thread keep the types.
LEMMA TypeMainStep ==
  ASSUME TypeInv, MainStep
  PROVE  TypeInv'
<1> USE DEF Goto
<1>0. /\ QueueTyped /\ task[Main] \in Int /\ Main \in Threads
      /\ TaskIds \in SUBSET Ids /\ TaskIds \in SUBSET Int /\ 0 \in Ids /\ Tasks \in Nat \ {0}
  BY Numbers DEF TypeInv, QueueTyped, NumberSets
<1>1. CASE MarkZero
  <2>1. completed \cup {0} \in SUBSET Ids
    BY <1>0 DEF QueueTyped
  <2>2. QueueTyped'
    BY <1>1, <2>1, TypeSettle DEF MarkZero, Complete
  <2>3. /\ task' = [task EXCEPT ![Main] = 1] /\ threw' = threw
        /\ pc' = [pc EXCEPT ![Main] = "poll"]
    BY <1>1, Zenon DEF MarkZero, poolVars
  <2>4. task'[Main] \in TaskIds /\ \E n \in Int : task' = [task EXCEPT ![Main] = n]
    <3>1. task'[Main] = 1
      BY <1>0, <2>3 DEF TypeInv
    <3>2. 1 \in TaskIds /\ 1 \in Int
      BY <1>0 DEF TaskIds
    <3>3. \E n \in Int : task' = [task EXCEPT ![Main] = n]
      BY <2>3, <3>2, Zenon
    <3> QED
      BY <3>1, <3>2, <3>3, Zenon
  <2>5. "poll" \in MainLabels \ {"mark"}
    BY DEF MainLabels
  <2> QED
    BY <2>2, <2>3, <2>4, <2>5, TypeMain
<1>2. CASE Submit
  <2>1. task[Main] \in TaskIds
    BY <1>2 DEF Submit, TypeInv
  <2>2. QueueTyped'
    <3>1. CASE PushStandard(task[Main])
      BY <1>0, <2>1, <3>1 DEF PushStandard, QueueTyped
    <3>2. CASE UNCHANGED queueVars
      BY <1>0, <3>2 DEF queueVars, QueueTyped
    <3> QED
      BY <1>2, <3>1, <3>2 DEF Submit
  <2> QED
    BY <1>2, <2>1, <2>2, TypeMain DEF Submit, poolVars, MainLabels
<1>3. CASE CountUp(Main)
  <2>1. task[Main] \in TaskIds
    BY <1>3 DEF CountUp, TypeInv
  <2>2. QueueTyped'
    BY <1>0, <1>3 DEF CountUp, queueVars, QueueTyped
  <2> QED
    BY <1>3, <2>1, <2>2, TypeMain DEF CountUp, poolVars, MainLabels
<1>4. CASE Destroy
  <2>1. /\ completed' = completed /\ current' = current
        /\ queue' = <<>> /\ buffered' = {}
    BY <1>4, Zenon DEF Destroy, Invalidate
  <2> QED
    BY <1>4, <2>1, TypeSame, TypeMain DEF Destroy, MainLabels
<1>5. CASE Wait /\ pc' = pc
  BY <1>5 DEF Wait, queueVars, poolVars, TypeInv, Holding
<1>6. ASSUME NEW label \in MainLabels, QuietMain(label) PROVE TypeInv'
  <2>1. QueueTyped' /\ threw' = threw
    BY <1>0, <1>6 DEF QuietMain, queueVars, QueueTyped
  <2>2. label \in {"poll", "submit", "count", "check"} => task'[Main] \in TaskIds
    BY <1>0, <1>6 DEF QuietMain, TypeInv, TaskIds
  <2>3. task' = task \/ \E n \in Int : task' = [task EXCEPT ![Main] = n]
    BY <1>0, <1>6 DEF QuietMain
  <2> QED
    BY <1>6, <2>1, <2>2, <2>3, TypeMain DEF QuietMain
<1> QED
  BY <1>1, <1>2, <1>3, <1>4, <1>5, <1>6, MainCases

\* Every step keeps the types.
LEMMA TypeNext == TypeInv /\ [Next]_vars => TypeInv'
<1> SUFFICES ASSUME TypeInv, [Next]_vars PROVE TypeInv'
  OBVIOUS
<1>1. ASSUME StillStep PROVE TypeInv'
  BY <1>1 DEF StillStep, coreVars, TypeInv, Holding
<1> QED
  BY <1>1, NextCases, TypeWorkerStep, TypeMainStep

\* Sequences, sets and threads are typed in every state of the pool.
THEOREM TypeInvariant == Spec => []TypeInv
BY TypeInit, TypeNext, PTL DEF Spec

-----------------------------------------------------------------------------
(* Order.  Every task has one place, the standard queue holds the youngest *)
(* of the submitted tasks in order, and nothing is behind current.         *)

\* A task that has left the standard queue.
Passed(n) ==
    current <= n /\ n <= LastPushed /\ \A i \in 1 .. Len(queue) : n < queue[i]

\* What holds before the first task is submitted.
MarkingInv ==
    pc[Main] = "mark" =>
        /\ current = 0 /\ completed = {} /\ queue = <<>> /\ buffered = {}
        /\ Holding = {}

\* The standard queue.
StandardInv ==
    /\ current <= LastPushed + 1
    /\ \A i \in 1 .. Len(queue) : current <= queue[i] /\ queue[i] <= LastPushed
    /\ \A i, j \in 1 .. Len(queue) : i < j => queue[i] < queue[j]

\* The buffered and the completed identifiers.
BufferInv ==
    /\ \A n \in buffered : Passed(n) /\ n \notin completed
    /\ \A n \in completed : Passed(n)

\* The tasks the workers hold.
HoldInv ==
    /\ \A w \in Holding : Passed(task[w]) /\ task[w] \notin buffered /\ task[w] \notin completed
    /\ \A v, w \in Holding : task[v] = task[w] => v = w

OrderInv == MarkingInv /\ StandardInv /\ BufferInv /\ HoldInv

\* The types these proofs need.
NumberTypes ==
    /\ queue \in Seq(Int) /\ buffered \in SUBSET Int /\ completed \in SUBSET Int
    /\ current \in Int /\ task \in [Threads -> Int]
    /\ LastPushed \in Int
    /\ pc \in [Threads -> MainLabels \cup WorkerLabels]
    /\ pc[Main] \in MainLabels /\ \A w \in Workers : pc[w] \in WorkerLabels
    /\ Main \in Threads /\ \A w \in Workers : w \in Threads /\ w # Main
    /\ \A w \in Workers : w \in Holding <=> pc[w] \in HoldingLabels

\* The typing invariant gives them.
LEMMA NumberTyped == TypeInv => NumberTypes
<1> SUFFICES ASSUME TypeInv PROVE NumberTypes
  OBVIOUS
<1>1. /\ TaskIds \in SUBSET Int /\ Ids \in SUBSET Int
      /\ Main \in Threads /\ \A w \in Workers : w \in Threads /\ w # Main
  BY Numbers DEF NumberSets
<1>2. queue \in Seq(Int)
  BY <1>1, SeqMonotonic DEF TypeInv
<1>3. LastPushed \in Int
  BY <1>1 DEF LastPushed, TypeInv
<1> QED
  BY <1>1, <1>2, <1>3 DEF TypeInv, NumberTypes, Holding

\* Nothing is submitted at first.
LEMMA OrderInit == Init => OrderInv
<1> SUFFICES ASSUME Init PROVE OrderInv
  OBVIOUS
<1>1. pc[Main] = "mark" /\ task[Main] = 0 /\ \A w \in Workers : pc[w] = "start"
  BY Numbers DEF Init, NumberSets
<1>2. queue = <<>> /\ buffered = {} /\ completed = {} /\ current = 0
  BY DEF Init, QueueInit
<1>3. LastPushed = -1 /\ Holding = {}
  BY <1>1 DEF LastPushed, Holding, HoldingLabels
<1> QED
  BY <1>1, <1>2, <1>3 DEF OrderInv, MarkingInv, StandardInv, BufferInv, HoldInv

\* Worker w goes to label and takes no other thread along.
WorkerGoes(w, label) ==
    /\ pc'[w] = label /\ pc'[Main] = pc[Main]
    /\ \A t \in Threads \ {w} : pc'[t] = pc[t]
    /\ Holding' = IF label \in HoldingLabels THEN Holding \cup {w} ELSE Holding \ {w}

\* That is what a step of a worker does.
LEMMA WorkerGoing ==
  ASSUME NumberTypes, NEW w \in Workers, NEW label, pc' = [pc EXCEPT ![w] = label]
  PROVE  WorkerGoes(w, label)
<1>1. pc'[w] = label /\ pc'[Main] = pc[Main] /\ \A t \in Threads \ {w} : pc'[t] = pc[t]
  BY DEF NumberTypes
<1>2. CASE label \in HoldingLabels
  BY <1>1, <1>2 DEF WorkerGoes, Holding, NumberTypes
<1>3. CASE label \notin HoldingLabels
  BY <1>1, <1>3 DEF WorkerGoes, Holding, NumberTypes
<1> QED
  BY <1>2, <1>3

\* The main thread goes to label.
LEMMA MainGoing ==
  ASSUME NumberTypes, NEW label, pc' = [pc EXCEPT ![Main] = label]
  PROVE  /\ pc'[Main] = label /\ \A w \in Workers : pc'[w] = pc[w]
         /\ Holding' = Holding
BY DEF NumberTypes, Holding

\* The workers hold no more tasks than before.
KeepHolding == \A w \in Holding' : w \in Holding /\ task'[w] = task[w]

\* Steps that move no task, or empty the queues.
LEMMA OrderStay ==
  ASSUME NumberTypes, OrderInv, KeepHolding, LastPushed' \in Int, LastPushed <= LastPushed',
         pc'[Main] = "mark" => pc[Main] = "mark",
         completed' = completed, current' = current,
         \/ queue' = queue /\ buffered' = buffered
         \/ queue' = <<>> /\ buffered' = {}
  PROVE  OrderInv'
<1>1. \A n \in Int : Passed(n) => Passed(n)'
  BY DEF Passed, NumberTypes
<1>2. \A w \in Holding' : w \in Holding /\ task'[w] = task[w] /\ task[w] \in Int
  BY DEF KeepHolding, Holding, NumberTypes
<1>3. HoldInv'
  BY <1>1, <1>2 DEF OrderInv, HoldInv, NumberTypes
<1>4. BufferInv'
  BY <1>1 DEF OrderInv, BufferInv, NumberTypes
<1>5. StandardInv'
  <2>1. \A i \in 1 .. Len(queue) : queue[i] \in Int
    BY DEF NumberTypes
  <2>2. LastPushed \in Int /\ current \in Int
    BY DEF NumberTypes
  <2>3. current' <= LastPushed' + 1
    <3>1. current <= LastPushed + 1
      BY DEF OrderInv, StandardInv
    <3>2. \A n, c \in Int : n <= c /\ current <= n + 1 => current <= c + 1
      BY <2>2
    <3> QED
      BY <2>2, <3>1, <3>2
  <2>4. \A i \in 1 .. Len(queue) : current <= queue[i] /\ queue[i] <= LastPushed'
    BY <2>1, <2>2 DEF OrderInv, StandardInv
  <2>5. \A i, j \in 1 .. Len(queue) : i < j => queue[i] < queue[j]
    BY DEF OrderInv, StandardInv
  <2>6. CASE queue' = queue
    BY <2>3, <2>4, <2>5, <2>6 DEF StandardInv
  <2>7. CASE queue' = <<>>
    BY <2>3, <2>7 DEF StandardInv
  <2> QED
    BY <2>6, <2>7
<1>6. MarkingInv'
  BY <1>2 DEF OrderInv, MarkingInv
<1> QED
  BY <1>3, <1>4, <1>5, <1>6 DEF OrderInv

\* A worker takes the buffered task that is next in line ...
LEMMA OrderTakeBuffered ==
  ASSUME NumberTypes, OrderInv, NEW w \in Workers, PopBuffered(w)
  PROVE  OrderInv'
<1>1. /\ current \in buffered /\ buffered' = buffered \ {current}
      /\ queue' = queue /\ completed' = completed /\ current' = current
  BY DEF PopBuffered, PopPriority, PriorityReady, StartsAtCurrent
<1>2. /\ task'[w] = current /\ pc[w] = "pop" /\ pc' = [pc EXCEPT ![w] = "gate"]
      /\ \A t \in Threads \ {w} : task'[t] = task[t]
  BY DEF NumberTypes, PopBuffered, Goto
<1>3. Holding' = Holding \cup {w} /\ w \notin Holding /\ pc'[Main] = pc[Main]
  BY <1>2, WorkerGoing DEF WorkerGoes, NumberTypes, HoldingLabels
<1>4. LastPushed' = LastPushed
  BY <1>2, <1>3 DEF LastPushed, NumberTypes
<1>5. \A n \in Int : Passed(n) => Passed(n)'
  BY <1>1, <1>4 DEF Passed
<1>6. Passed(current)' /\ current \notin completed
  BY <1>1, <1>5 DEF OrderInv, BufferInv, NumberTypes
<1>7. \A v \in Holding : task'[v] = task[v] /\ task[v] \in Int /\ task[v] # current
  BY <1>1, <1>2, <1>3 DEF Holding, NumberTypes, OrderInv, HoldInv
<1>8. HoldInv'
  BY <1>1, <1>2, <1>3, <1>5, <1>6, <1>7 DEF OrderInv, HoldInv
<1>9. BufferInv'
  BY <1>1, <1>5 DEF OrderInv, BufferInv, NumberTypes
<1>10. pc'[Main] # "mark"
  BY <1>1, <1>3 DEF OrderInv, MarkingInv
<1> QED
  BY <1>1, <1>4, <1>8, <1>9, <1>10 DEF OrderInv, MarkingInv, StandardInv

\* ... or the oldest one of the standard queue.
LEMMA OrderTakeQueued ==
  ASSUME NumberTypes, OrderInv, NEW w \in Workers, PopQueued(w)
  PROVE  OrderInv'
<1>1. /\ queue # <<>> /\ queue' = Tail(queue)
      /\ buffered' = buffered /\ completed' = completed /\ current' = current
  BY DEF PopQueued, PopStandard, StandardReady
<1>2. /\ Len(queue) >= 1 /\ Len(queue') = Len(queue) - 1 /\ Len(queue) \in Nat
      /\ \A i \in 1 .. Len(queue') : queue'[i] = queue[i + 1]
      /\ \A i \in 1 .. Len(queue) : queue[i] \in Int
  BY <1>1 DEF NumberTypes
<1>h. PICK h \in Int : h = queue[1] /\ h = Head(queue)
  BY <1>2
<1>3. /\ task'[w] = h /\ pc[w] = "pop" /\ pc' = [pc EXCEPT ![w] = "gate"]
      /\ \A t \in Threads \ {w} : task'[t] = task[t]
  BY <1>h DEF NumberTypes, PopQueued, Goto
<1>4. Holding' = Holding \cup {w} /\ w \notin Holding /\ pc'[Main] = pc[Main]
  BY <1>3, WorkerGoing DEF WorkerGoes, NumberTypes, HoldingLabels
<1>5. LastPushed' = LastPushed
  BY <1>3, <1>4 DEF LastPushed, NumberTypes
<1>6. \A n \in Int : Passed(n) => Passed(n)' /\ n # h
  BY <1>1, <1>2, <1>5, <1>h DEF Passed
<1>7. Passed(h)' /\ h \notin buffered /\ h \notin completed
  <2>1. \A i \in 1 .. Len(queue') : h < queue'[i]
    BY <1>2, <1>h DEF OrderInv, StandardInv
  <2>2. current <= h /\ h <= LastPushed
    BY <1>2, <1>h DEF OrderInv, StandardInv
  <2>3. ~Passed(h)
    BY <1>2, <1>h DEF Passed
  <2> QED
    BY <2>1, <2>2, <2>3, <1>1, <1>5 DEF Passed, OrderInv, BufferInv
<1>8. \A v \in Holding : task'[v] = task[v] /\ task[v] \in Int /\ task[v] # h
  BY <1>3, <1>4, <1>6 DEF Holding, NumberTypes, OrderInv, HoldInv
<1>9. HoldInv'
  BY <1>1, <1>3, <1>4, <1>6, <1>7, <1>8 DEF OrderInv, HoldInv
<1>10. BufferInv'
  BY <1>1, <1>6 DEF OrderInv, BufferInv, NumberTypes
<1>11. StandardInv'
  BY <1>1, <1>2, <1>5 DEF OrderInv, StandardInv
<1>12. pc'[Main] # "mark"
  BY <1>1, <1>4 DEF OrderInv, MarkingInv
<1> QED
  BY <1>9, <1>10, <1>11, <1>12 DEF OrderInv, MarkingInv

\* The main thread submits a task that is younger than all before it.
LEMMA OrderPush ==
  ASSUME NumberTypes, OrderInv, Submit, PushStandard(task[Main])
  PROVE  OrderInv'
<1>1. /\ queue' = Append(queue, task[Main])
      /\ buffered' = buffered /\ completed' = completed /\ current' = current
  BY DEF PushStandard
<1>2. /\ pc[Main] = "submit" /\ task' = task /\ pc' = [pc EXCEPT ![Main] = "count"]
  BY Zenon DEF Submit, Goto
<1>3. Holding' = Holding /\ pc'[Main] = "count"
  BY <1>2, MainGoing
<1>4. LastPushed' = task[Main] /\ LastPushed = task[Main] - 1 /\ task[Main] \in Int
  BY <1>2, <1>3 DEF LastPushed, NumberTypes
<1>5. /\ Len(queue') = Len(queue) + 1 /\ Len(queue) \in Nat
      /\ \A i \in 1 .. Len(queue) : queue'[i] = queue[i] /\ queue[i] \in Int
      /\ queue'[Len(queue) + 1] = task[Main]
  BY <1>1, <1>4 DEF NumberTypes
<1>6. \A n \in Int : Passed(n) => Passed(n)'
  BY <1>1, <1>4, <1>5 DEF Passed, NumberTypes
<1>7. HoldInv'
  <2>1. \A v \in Holding : task[v] \in Int
    BY DEF Holding, NumberTypes
  <2> QED
    BY <1>1, <1>2, <1>3, <1>6, <2>1 DEF OrderInv, HoldInv
<1>8. BufferInv'
  BY <1>1, <1>6 DEF OrderInv, BufferInv, NumberTypes
<1>9. StandardInv'
  BY <1>1, <1>4, <1>5 DEF OrderInv, StandardInv, NumberTypes
<1> QED
  BY <1>3, <1>7, <1>8, <1>9 DEF OrderInv, MarkingInv

\* A worker submits its task again.
LEMMA OrderRequeue ==
  ASSUME NumberTypes, OrderInv, NEW w \in Workers, Resubmit(w), PushPriority(task[w])
  PROVE  OrderInv'
<1>1. /\ queue' = queue /\ buffered' = buffered \cup {task[w]}
      /\ completed' = completed /\ current' = current /\ task' = task
  BY Zenon DEF Resubmit, PushPriority
<1>2. pc[w] = "resubmit" /\ pc' = [pc EXCEPT ![w] = "count"]
  BY Zenon DEF Resubmit, Goto
<1>3. Holding' = Holding \ {w} /\ w \in Holding /\ pc'[Main] = pc[Main]
  BY <1>2, WorkerGoing DEF WorkerGoes, NumberTypes, HoldingLabels
<1>4. LastPushed' = LastPushed
  BY <1>1, <1>3 DEF LastPushed, NumberTypes
<1>5. \A n \in Int : Passed(n) => Passed(n)'
  BY <1>1, <1>4 DEF Passed
<1>6. task[w] \in Int /\ Passed(task[w]) /\ task[w] \notin completed
  BY <1>3 DEF OrderInv, HoldInv, NumberTypes
<1>7. BufferInv'
  BY <1>1, <1>5, <1>6 DEF OrderInv, BufferInv, NumberTypes
<1>8. \A v \in Holding' : v \in Holding /\ task[v] \in Int /\ task[v] # task[w]
  BY <1>3 DEF OrderInv, HoldInv, Holding, NumberTypes
<1>9. HoldInv'
  BY <1>1, <1>5, <1>8 DEF OrderInv, HoldInv
<1>10. pc'[Main] # "mark"
  BY <1>3 DEF OrderInv, MarkingInv
<1> QED
  BY <1>1, <1>4, <1>7, <1>9, <1>10 DEF OrderInv, MarkingInv, StandardInv

\* The next identifier leaves completed_ids_, and current goes past it.
LEMMA OrderMoves ==
  ASSUME NumberTypes, OrderInv, pc'[Main] # "mark", LastPushed' = LastPushed,
         queue' = queue, buffered' = buffered,
         current' = current + 1, Passed(current),
         NEW ids \in SUBSET Int, completed' = ids \ {current},
         \A n \in ids : Passed(n), \A n \in buffered : n \notin ids,
         Holding' \in SUBSET Holding,
         \A v \in Holding' : task'[v] = task[v] /\ task[v] \notin ids /\ task[v] # current,
         current \in ids
  PROVE  OrderInv'
<1>1. \A n \in Int : Passed(n) /\ n # current => Passed(n)'
  BY DEF Passed, NumberTypes
<1>2. BufferInv'
  BY <1>1 DEF OrderInv, BufferInv, NumberTypes
<1>3. HoldInv'
  <2>1. \A v \in Holding' : task[v] \in Int
    BY DEF Holding, NumberTypes
  <2> QED
    BY <1>1, <2>1 DEF OrderInv, HoldInv
<1>4. StandardInv'
  BY DEF OrderInv, StandardInv, Passed, NumberTypes
<1> QED
  BY <1>2, <1>3, <1>4 DEF OrderInv, MarkingInv

\* A worker completes its task.
LEMMA OrderComplete ==
  ASSUME NumberTypes, OrderInv, NEW w \in Workers, TaskComplete(w)
  PROVE  OrderInv'
<1>1. /\ queue' = queue /\ buffered' = buffered /\ Settle(completed \cup {task[w]})
      /\ task' = task
  BY Zenon DEF TaskComplete, Complete
<1>2. pc[w] = "run" /\ pc' = [pc EXCEPT ![w] = "completing"]
  BY Zenon DEF TaskComplete, Goto
<1>3. Holding' = Holding \ {w} /\ w \in Holding /\ pc'[Main] = pc[Main]
  BY <1>2, WorkerGoing DEF WorkerGoes, NumberTypes, HoldingLabels
<1>4. LastPushed' = LastPushed
  BY <1>1, <1>3 DEF LastPushed, NumberTypes
<1>5. task[w] \in Int /\ Passed(task[w]) /\ task[w] \notin buffered /\ task[w] \notin completed
  BY <1>3 DEF OrderInv, HoldInv, NumberTypes
<1>6. pc'[Main] # "mark"
  BY <1>3 DEF OrderInv, MarkingInv
<1>7. \A n \in completed \cup {task[w]} : Passed(n)
  BY <1>5 DEF OrderInv, BufferInv
<1>8. \A v \in Holding' :
        task'[v] = task[v] /\ task[v] \notin completed \cup {task[w]} /\ task[v] \in Int
  BY <1>1, <1>3 DEF OrderInv, HoldInv, Holding, NumberTypes
<1>9. /\ completed \cup {task[w]} \in SUBSET Int
      /\ \A n \in buffered : n \notin completed \cup {task[w]}
  BY <1>5 DEF OrderInv, BufferInv, NumberTypes
<1>10. CASE current' = current + 1 /\ current \in completed \cup {task[w]}
            /\ completed' = (completed \cup {task[w]}) \ {current}
  BY <1>1, <1>3, <1>4, <1>6, <1>7, <1>8, <1>9, <1>10, OrderMoves
<1>11. CASE current' = current /\ completed' = completed \cup {task[w]}
  <2>1. \A n \in Int : Passed(n) => Passed(n)'
    BY <1>1, <1>4, <1>11 DEF Passed
  <2>2. BufferInv'
    BY <1>1, <1>7, <1>9, <1>11, <2>1 DEF OrderInv, BufferInv, NumberTypes
  <2>3. HoldInv'
    BY <1>1, <1>3, <1>8, <1>11, <2>1 DEF OrderInv, HoldInv
  <2> QED
    BY <1>1, <1>4, <1>6, <1>11, <2>2, <2>3 DEF OrderInv, MarkingInv, StandardInv
<1> QED
  BY <1>1, <1>10, <1>11, SettleCases

\* What a further turn of the loop of markComplete() does.
LEMMA AdvanceMoves ==
  ASSUME Advance
  PROVE  /\ queue' = queue /\ buffered' = buffered /\ current \in completed
         /\ completed' = completed \ {current} /\ current' = current + 1
<1>1. queue' = queue /\ buffered' = buffered /\ Settle(completed) /\ StartsAtCurrent(completed)
  BY Zenon DEF Advance
<1> QED
  BY <1>1, SettleCases DEF StartsAtCurrent

\* A worker goes on in the loop of markComplete().
LEMMA OrderAdvance ==
  ASSUME NumberTypes, OrderInv, NEW w \in Workers, TaskAdvance(w)
  PROVE  OrderInv'
<1>1. /\ queue' = queue /\ buffered' = buffered /\ task' = task /\ pc' = pc
      /\ completed' = completed \ {current} /\ current' = current + 1 /\ current \in completed
  <2>1. Advance /\ task' = task /\ pc' = pc
    BY Zenon DEF TaskAdvance
  <2> QED
    BY <2>1, AdvanceMoves
<1>2. Holding' = Holding /\ LastPushed' = LastPushed
  BY <1>1 DEF Holding, LastPushed
<1>3. pc'[Main] # "mark"
  BY <1>1 DEF OrderInv, MarkingInv
<1>4. /\ \A n \in completed : Passed(n) /\ n \in Int
      /\ \A n \in buffered : n \notin completed
  BY DEF OrderInv, BufferInv, NumberTypes
<1>5. \A v \in Holding' : task'[v] = task[v] /\ task[v] \notin completed /\ task[v] # current
  BY <1>1, <1>2 DEF OrderInv, HoldInv
<1>6. completed \in SUBSET Int /\ Passed(current)
  BY <1>1, <1>4
<1> QED
  BY <1>1, <1>2, <1>3, <1>4, <1>5, <1>6, OrderMoves

\* What the main thread does before the first task.
MarkedZero ==
    /\ completed = {} /\ queue = <<>> /\ buffered = {} /\ Holding = {}
    /\ completed' = {} /\ queue' = <<>> /\ buffered' = {} /\ Holding' = {}
    /\ current' = 1 /\ LastPushed' = 0 /\ pc[Main] = "mark" /\ pc'[Main] = "poll"
    /\ \A w \in Workers : pc'[w] = pc[w] /\ task'[w] = task[w]

\* The main thread marks the identifier zero.
LEMMA MarkZeroMoves ==
  ASSUME NumberTypes, OrderInv, MarkZero
  PROVE  MarkedZero
<1>1. /\ pc[Main] = "mark" /\ queue' = queue /\ buffered' = buffered
      /\ Settle(completed \cup {0})
      /\ task' = [task EXCEPT ![Main] = 1] /\ pc' = [pc EXCEPT ![Main] = "poll"]
  BY Zenon DEF MarkZero, Complete, Goto
<1>2. current = 0 /\ completed = {} /\ queue = <<>> /\ buffered = {} /\ Holding = {}
  BY <1>1 DEF OrderInv, MarkingInv
<1>3. completed' = {} /\ current' = 1
  BY <1>1, <1>2, SettleCases
<1>4. task'[Main] = 1 /\ \A w \in Workers : task'[w] = task[w]
  BY <1>1 DEF NumberTypes
<1>5. /\ pc'[Main] = "poll" /\ \A w \in Workers : pc'[w] = pc[w]
      /\ Holding' = Holding
  BY <1>1, MainGoing
<1>6. LastPushed' = 0
  BY <1>4, <1>5 DEF LastPushed
<1> QED
  BY <1>1, <1>2, <1>3, <1>4, <1>5, <1>6 DEF MarkedZero

\* That keeps the order.
LEMMA OrderMarkZero ==
  ASSUME NumberTypes, OrderInv, MarkZero
  PROVE  OrderInv'
<1>1. MarkedZero
  BY MarkZeroMoves
<1> QED
  BY <1>1 DEF MarkedZero, OrderInv, MarkingInv, StandardInv, BufferInv, HoldInv

\* The identifiers are as they were, and the queues too, or emptied.
SameQueues ==
    /\ completed' = completed /\ current' = current
    /\ \/ queue' = queue /\ buffered' = buffered
       \/ queue' = <<>> /\ buffered' = {}

\* A step of worker w that takes no task.
LEMMA OrderOther ==
  ASSUME NumberTypes, OrderInv, SameQueues, NEW w \in Workers, NEW label,
         pc' = [pc EXCEPT ![w] = label], task' = task,
         label \in HoldingLabels => pc[w] \in HoldingLabels
  PROVE  OrderInv'
<1>1. WorkerGoes(w, label)
  BY WorkerGoing
<1>2. KeepHolding /\ LastPushed' = LastPushed /\ pc'[Main] = pc[Main] /\ LastPushed \in Int
  BY <1>1 DEF WorkerGoes, KeepHolding, LastPushed, NumberTypes
<1> QED
  BY <1>2, OrderStay DEF SameQueues

\* What the steps that neither pop nor push nor complete leave alone.
LEMMA OtherSteps ==
  ASSUME NEW w \in Workers
  PROVE  /\ \A label : QuietStep(w, label) => SameQueues /\ task' = task
         /\ CountUp(w) => SameQueues /\ task' = task /\ pc' = [pc EXCEPT ![w] = IF w = Main THEN "check" ELSE "ran"]
         /\ CountDown(w) => SameQueues /\ task' = task /\ pc' = [pc EXCEPT ![w] = "loop"]
         /\ Throw(w) => SameQueues /\ task' = task /\ pc' = [pc EXCEPT ![w] = "catch"]
         /\ Catch(w) => SameQueues /\ task' = task /\ pc' = [pc EXCEPT ![w] = "end"]
<1>1. ASSUME NEW label, QuietStep(w, label) PROVE SameQueues /\ task' = task
  BY <1>1, Zenon DEF QuietStep, coreVars, SameQueues
<1>2. ASSUME CountUp(w)
      PROVE  SameQueues /\ task' = task /\ pc' = [pc EXCEPT ![w] = IF w = Main THEN "check" ELSE "ran"]
  BY <1>2, Zenon DEF CountUp, queueVars, SameQueues, Goto
<1>3. ASSUME CountDown(w)
      PROVE  SameQueues /\ task' = task /\ pc' = [pc EXCEPT ![w] = "loop"]
  BY <1>3, Zenon DEF CountDown, queueVars, SameQueues, Goto
<1>4. ASSUME Throw(w)
      PROVE  SameQueues /\ task' = task /\ pc' = [pc EXCEPT ![w] = "catch"]
  BY <1>4, Zenon DEF Throw, queueVars, SameQueues, Goto
<1>5. ASSUME Catch(w)
      PROVE  SameQueues /\ task' = task /\ pc' = [pc EXCEPT ![w] = "end"]
  BY <1>5, Zenon DEF Catch, Invalidate, queueVars, SameQueues, Goto
<1> QED
  BY <1>1, <1>2, <1>3, <1>4, <1>5

\* A task that is refused is given up.
LEMMA Refused ==
  ASSUME NEW w \in Workers, Resubmit(w), ~PushPriority(task[w])
  PROVE  SameQueues /\ task' = task /\ pc' = [pc EXCEPT ![w] = "count"] /\ PriorityRefused
BY Zenon DEF Resubmit, queueVars, SameQueues, Goto

\* The workers' steps keep the order.
LEMMA OrderWorker ==
  ASSUME NumberTypes, OrderInv, NEW w \in Workers, WorkerStep(w)
  PROVE  OrderInv'
<1>0. w # Main
  BY DEF NumberTypes
<1>1. ASSUME NEW label \in WorkerLabels, QuietStep(w, label) PROVE OrderInv'
  BY <1>1, OtherSteps, OrderOther DEF QuietStep
<1>2. CASE CountUp(w) \/ CountDown(w) \/ Throw(w) \/ Catch(w)
  <2>1. /\ SameQueues /\ task' = task
        /\ \E label \in {"ran", "loop", "catch", "end"} : pc' = [pc EXCEPT ![w] = label]
    BY <1>0, <1>2, OtherSteps
  <2> QED
    BY <2>1, OrderOther DEF HoldingLabels
<1>3. CASE Resubmit(w) /\ ~PushPriority(task[w])
  BY <1>3, Refused, OrderOther DEF HoldingLabels
<1> QED
  BY <1>1, <1>2, <1>3, WorkerCases, OrderTakeBuffered, OrderTakeQueued, OrderRequeue,
     OrderComplete, OrderAdvance DEF LoudStep

\* The main thread goes to label with no new task, or with the next one.
LEMMA MainQuiet ==
  ASSUME NumberTypes, NEW label \in MainLabels, QuietMain(label)
  PROVE  SameQueues /\ LastPushed' = LastPushed /\ KeepHolding /\ pc'[Main] # "mark"
<1>1. SameQueues
  BY Zenon DEF QuietMain, queueVars, SameQueues
<1>2. /\ pc'[Main] = label /\ \A w \in Workers : pc'[w] = pc[w]
      /\ Holding' = Holding /\ label \notin {"mark", "count", "check"}
  BY MainGoing DEF QuietMain
<1>3. CASE pc[Main] # "check" /\ task' = task
  <2>1. pc[Main] \notin {"count", "check"}
    BY <1>3 DEF QuietMain
  <2> QED
    BY <1>1, <1>2, <1>3, <2>1 DEF LastPushed, KeepHolding
<1>4. CASE pc[Main] = "check" /\ task' = [task EXCEPT ![Main] = @ + 1]
  <2>1. task'[Main] = task[Main] + 1 /\ \A w \in Workers : task'[w] = task[w]
    BY <1>4 DEF NumberTypes
  <2>2. task[Main] \in Int /\ \A w \in Holding : w \in Workers
    BY DEF NumberTypes, Holding
  <2> QED
    BY <1>1, <1>2, <1>4, <2>1, <2>2 DEF LastPushed, KeepHolding
<1> QED
  BY <1>3, <1>4 DEF QuietMain

\* The other steps of the main thread that push nothing.
LEMMA MainStays ==
  ASSUME NumberTypes,
         \/ CountUp(Main)
         \/ Destroy
         \/ Wait /\ pc' = pc
         \/ Submit /\ ~PushStandard(task[Main])
  PROVE  /\ SameQueues /\ KeepHolding /\ pc'[Main] # "mark" /\ task' = task
         /\ Holding' = Holding /\ \A w \in Workers : pc'[w] = pc[w]
<1> USE DEF Goto
<1>1. CASE CountUp(Main)
  <2>1. SameQueues /\ task' = task /\ pc' = [pc EXCEPT ![Main] = "check"] /\ "check" # "mark"
    BY <1>1, Zenon DEF CountUp, queueVars, SameQueues
  <2>2. Holding' = Holding /\ pc'[Main] # "mark" /\ \A w \in Workers : pc'[w] = pc[w]
    BY <2>1, MainGoing
  <2> QED
    BY <2>1, <2>2, Zenon DEF KeepHolding
<1>2. CASE Destroy
  <2>1. SameQueues /\ task' = task /\ pc' = [pc EXCEPT ![Main] = "join"] /\ "join" # "mark"
    BY <1>2, Zenon DEF Destroy, Invalidate, SameQueues
  <2>2. Holding' = Holding /\ pc'[Main] # "mark" /\ \A w \in Workers : pc'[w] = pc[w]
    BY <2>1, MainGoing
  <2> QED
    BY <2>1, <2>2, Zenon DEF KeepHolding
<1>3. CASE Wait /\ pc' = pc
  <2>1. SameQueues /\ task' = task /\ pc' = pc /\ pc[Main] = "wait"
    BY <1>3, Zenon DEF Wait, queueVars, SameQueues
  <2> QED
    BY <2>1 DEF KeepHolding, Holding
<1>4. CASE Submit /\ ~PushStandard(task[Main])
  <2>1. SameQueues /\ task' = task /\ pc' = [pc EXCEPT ![Main] = "count"] /\ "count" # "mark"
    BY <1>4, Zenon DEF Submit, queueVars, SameQueues
  <2>2. Holding' = Holding /\ pc'[Main] # "mark" /\ \A w \in Workers : pc'[w] = pc[w]
    BY <2>1, MainGoing
  <2> QED
    BY <2>1, <2>2, Zenon DEF KeepHolding
<1> QED
  BY <1>1, <1>2, <1>3, <1>4

\* The main thread's steps keep the order.
LEMMA OrderMain ==
  ASSUME NumberTypes, OrderInv, NumberTypes', MainStep
  PROVE  OrderInv'
<1>1. ASSUME NEW label \in MainLabels, QuietMain(label) PROVE OrderInv'
  <2>1. SameQueues /\ LastPushed' = LastPushed /\ KeepHolding /\ pc'[Main] # "mark"
    BY <1>1, MainQuiet
  <2>2. LastPushed \in Int
    BY DEF NumberTypes
  <2> QED
    BY <2>1, <2>2, OrderStay DEF SameQueues
<1>2. CASE CountUp(Main) \/ Destroy \/ (Wait /\ pc' = pc) \/ (Submit /\ ~PushStandard(task[Main]))
  <2>1. /\ SameQueues /\ KeepHolding /\ pc'[Main] # "mark" /\ task' = task
    BY <1>2, MainStays
  <2>2. LastPushed <= LastPushed' /\ LastPushed' \in Int
    <3>1. task[Main] \in Int
      BY DEF NumberTypes
    <3>2. CASE CountUp(Main)
      BY <2>1, <3>1, <3>2, MainGoing DEF CountUp, Goto, LastPushed
    <3>3. CASE ~CountUp(Main)
      <4>1. pc[Main] \notin {"count", "check"}
        BY <1>2, <3>3 DEF Destroy, Wait, Submit
      <4> QED
        BY <2>1, <3>1, <4>1 DEF LastPushed
    <3> QED
      BY <3>2, <3>3
  <2> QED
    BY <2>1, <2>2, OrderStay DEF SameQueues
<1> QED
  BY <1>1, <1>2, MainCases, OrderMarkZero, OrderPush

\* Every step keeps the order.
LEMMA OrderNext == TypeInv /\ OrderInv /\ [Next]_vars => OrderInv'
<1> SUFFICES ASSUME TypeInv, OrderInv, [Next]_vars PROVE OrderInv'
  OBVIOUS
<1>0. NumberTypes /\ NumberTypes'
  <2>1. TypeInv'
    BY TypeNext
  <2> QED
    BY <2>1, NumberTyped, PTL
<1>1. ASSUME StillStep PROVE OrderInv'
  <2>1. SameQueues /\ pc' = pc /\ task' = task
    BY <1>1, Zenon DEF StillStep, coreVars, SameQueues
  <2>2. KeepHolding /\ LastPushed' = LastPushed
    BY <2>1 DEF KeepHolding, Holding, LastPushed
  <2>3. LastPushed \in Int
    BY <1>0 DEF NumberTypes
  <2> QED
    BY <1>0, <2>1, <2>2, <2>3, OrderStay DEF SameQueues
<1> QED
  BY <1>0, <1>1, NextCases, OrderWorker, OrderMain

-----------------------------------------------------------------------------
(* The queue is valid until an exception is caught or the pool destroyed.  *)

Calm == exception = NoWorker /\ ~done

ValidInv == valid <=> Calm

\* Nothing makes an invalid queue valid again.
CalmMoves == ValidInv' /\ (Calm' => Calm)

\* Catch, Destroy, and steps that leave the queue and the exception alone.
LEMMA CalmNext == ValidInv /\ [Next]_vars => CalmMoves
<1> SUFFICES ASSUME ValidInv, [Next]_vars PROVE CalmMoves
  OBVIOUS
<1> DEFINE Kept == valid' = valid /\ done' = done /\ exception' = exception
<1>k. ASSUME Kept PROVE CalmMoves
  BY <1>k, Zenon DEF CalmMoves, ValidInv, Calm
<1>1. ASSUME NEW w \in Workers, NEW label, QuietStep(w, label) PROVE Kept
  BY <1>1, Zenon DEF QuietStep, coreVars
<1>2. ASSUME NEW w \in Workers, LoudStep(w), ~Catch(w) PROVE Kept
  BY <1>2, Zenon
     DEF LoudStep, PopBuffered, PopPriority, PopQueued, PopStandard, TaskComplete, Complete,
         TaskAdvance, Advance, Resubmit, PushPriority, CountUp, CountDown, Throw,
         queueVars, poolVars
<1>3. ASSUME NEW w \in Workers, Catch(w) PROVE CalmMoves
  <2>1. CASE exception = NoWorker
    <3>1. exception' = w /\ valid' = FALSE /\ w # NoWorker
      BY <1>3, <2>1, PoolAssumption, Zenon DEF Catch, Invalidate
    <3> QED
      BY <3>1, Zenon DEF CalmMoves, ValidInv, Calm
  <2>2. CASE exception # NoWorker
    <3>1. exception' = exception /\ valid' = valid /\ done' = done
      BY <1>3, <2>2, Zenon DEF Catch, queueVars
    <3> QED
      BY <1>k, <3>1, Zenon
  <2> QED
    BY <2>1, <2>2
<1>4. ASSUME Destroy PROVE CalmMoves
  BY <1>4, Zenon DEF Destroy, Invalidate, CalmMoves, ValidInv, Calm
<1>5. ASSUME NEW label, QuietMain(label) PROVE Kept
  BY <1>5, Zenon DEF QuietMain, queueVars
<1>6. ASSUME MarkZero \/ Submit \/ CountUp(Main) \/ Wait PROVE Kept
  BY <1>6, Zenon
     DEF MarkZero, Complete, Submit, PushStandard, CountUp, Wait, queueVars, poolVars
<1>7. ASSUME StillStep PROVE Kept
  BY <1>7, Zenon DEF StillStep, coreVars
<1> HIDE DEF Kept
<1>8. ASSUME NEW w \in Workers, WorkerStep(w) PROVE CalmMoves
  BY <1>8, <1>1, <1>2, <1>3, <1>k, WorkerCases
<1>9. ASSUME MainStep PROVE CalmMoves
  BY <1>9, <1>4, <1>5, <1>6, <1>k, MainCases
<1> QED
  BY <1>7, <1>8, <1>9, <1>k, NextCases

\* The queue is valid at first.
LEMMA CalmInit == Init => ValidInv
BY Zenon DEF Init, QueueInit, ValidInv, Calm

-----------------------------------------------------------------------------
(* Room.  The tasks that may be submitted again have their places.         *)

RoomInv == valid => Cardinality(buffered) + Cardinality(Holding) <= MaxPriority

\* The sets these proofs count.
FiniteSets ==
    /\ IsFiniteSet(buffered) /\ Cardinality(buffered) \in Nat
    /\ IsFiniteSet(Holding) /\ Cardinality(Holding) \in Nat
    /\ Cardinality(Holding) <= Cardinality(Workers) /\ Cardinality(Workers) \in Nat
    /\ MaxPriority \in Nat /\ Reserve = Cardinality(Workers)

\* They are finite.
LEMMA FiniteTyped == TypeInv => FiniteSets
<1> SUFFICES ASSUME TypeInv PROVE FiniteSets
  OBVIOUS
<1>1. IsFiniteSet(TaskIds)
  BY FS_Interval, PoolAssumption DEF TaskIds
<1>2. buffered \subseteq TaskIds
  BY DEF TypeInv
<1>3. IsFiniteSet(buffered)
  BY <1>1, <1>2, FS_Subset
<1>4. IsFiniteSet(Workers) /\ Holding \subseteq Workers
  BY PoolAssumption DEF Holding
<1>5. IsFiniteSet(Holding) /\ Cardinality(Holding) <= Cardinality(Workers)
  BY <1>4, FS_Subset
<1> QED
  BY <1>3, <1>4, <1>5, FS_CardinalityType, PoolAssumption, QueueAssumption DEF FiniteSets

\* A worker that neither takes a task nor submits one.
LEMMA RoomOther ==
  ASSUME NumberTypes, NEW w \in Workers, WorkerStep(w),
         ~PopBuffered(w), ~PopQueued(w), ~(Resubmit(w) /\ PushPriority(task[w]))
  PROVE  /\ Holding' \subseteq Holding /\ (buffered' = buffered \/ buffered' = {})
         /\ queue' = queue \/ (queue' = <<>> /\ buffered' = {})
<1>0. w # Main
  BY DEF NumberTypes
<1>1. ASSUME NEW label, pc' = [pc EXCEPT ![w] = label],
             label \in HoldingLabels => pc[w] \in HoldingLabels
      PROVE  Holding' \subseteq Holding
  BY <1>1, WorkerGoing DEF WorkerGoes, NumberTypes
<1>2. ASSUME NEW label \in WorkerLabels, QuietStep(w, label)
      PROVE  Holding' \subseteq Holding /\ SameQueues
  BY <1>1, <1>2, OtherSteps DEF QuietStep
<1>3. ASSUME CountUp(w) \/ CountDown(w) \/ Throw(w) \/ Catch(w)
      PROVE  Holding' \subseteq Holding /\ SameQueues
  <2>1. SameQueues /\ \E label \in {"ran", "loop", "catch", "end"} : pc' = [pc EXCEPT ![w] = label]
    BY <1>0, <1>3, OtherSteps
  <2> QED
    BY <1>1, <2>1 DEF HoldingLabels
<1>4. ASSUME Resubmit(w) PROVE Holding' \subseteq Holding /\ SameQueues
  BY <1>1, <1>4, Refused DEF HoldingLabels
<1>5. ASSUME TaskComplete(w)
      PROVE  Holding' \subseteq Holding /\ queue' = queue /\ buffered' = buffered
  <2>1. queue' = queue /\ buffered' = buffered /\ pc' = [pc EXCEPT ![w] = "completing"]
    BY <1>5, Zenon DEF TaskComplete, Complete, Goto
  <2> QED
    BY <1>1, <2>1 DEF HoldingLabels
<1>6. ASSUME TaskAdvance(w)
      PROVE  Holding' \subseteq Holding /\ queue' = queue /\ buffered' = buffered
  BY <1>6, Zenon DEF TaskAdvance, Advance, Holding
<1> QED
  BY <1>2, <1>3, <1>4, <1>5, <1>6, WorkerCases DEF LoudStep, SameQueues

\* The main thread does nothing of the kind.
LEMMA RoomMain ==
  ASSUME NumberTypes, OrderInv, MainStep
  PROVE  Holding' = Holding /\ (buffered' = buffered \/ buffered' = {})
<1>1. ASSUME NEW label \in MainLabels, QuietMain(label)
      PROVE  Holding' = Holding /\ SameQueues
  BY <1>1, MainQuiet, MainGoing DEF QuietMain
<1>2. ASSUME Submit, PushStandard(task[Main])
      PROVE  Holding' = Holding /\ buffered' = buffered
  <2>1. pc' = [pc EXCEPT ![Main] = "count"] /\ buffered' = buffered
    BY <1>2, Zenon DEF Submit, PushStandard, Goto
  <2> QED
    BY <2>1, MainGoing
<1>3. ASSUME MarkZero PROVE Holding' = Holding /\ buffered' = buffered
  <2>1. MarkedZero
    BY <1>3, MarkZeroMoves
  <2> QED
    BY <2>1 DEF MarkedZero
<1> QED
  BY <1>1, <1>2, <1>3, MainStays, MainCases DEF SameQueues

\* A task is taken from the standard queue only if all the workers' tasks have a place
\* in the priority queue.
LEMMA RoomNext ==
  ASSUME TypeInv, TypeInv', OrderInv, ValidInv, RoomInv, [Next]_vars
  PROVE  RoomInv'
<1> SUFFICES ASSUME valid'
             PROVE  Cardinality(buffered') + Cardinality(Holding') <= MaxPriority
  BY DEF RoomInv
<1>0. NumberTypes /\ FiniteSets /\ FiniteSets'
  BY NumberTyped, FiniteTyped, PTL
<1>1. Cardinality(buffered) + Cardinality(Holding) <= MaxPriority
  <2>1. valid
    BY CalmNext, Zenon DEF CalmMoves, ValidInv
  <2> QED
    BY <2>1 DEF RoomInv
<1>2. ASSUME Holding' \subseteq Holding, buffered' \subseteq buffered
      PROVE  Cardinality(buffered') + Cardinality(Holding') <= MaxPriority
  <2>1. Cardinality(Holding') <= Cardinality(Holding)
    BY <1>0, <1>2, FS_Subset DEF FiniteSets
  <2>2. Cardinality(buffered') <= Cardinality(buffered)
    BY <1>0, <1>2, FS_Subset DEF FiniteSets
  <2> QED
    BY <1>0, <1>1, <2>1, <2>2 DEF FiniteSets
<1>3. ASSUME NEW w \in Workers, PopBuffered(w)
      PROVE  Cardinality(buffered') + Cardinality(Holding') <= MaxPriority
  <2>1. current \in buffered /\ buffered' = buffered \ {current}
    BY <1>3 DEF PopBuffered, PopPriority, PriorityReady, StartsAtCurrent
  <2>2. pc[w] = "pop" /\ pc' = [pc EXCEPT ![w] = "gate"]
    BY <1>3, Zenon DEF PopBuffered, Goto
  <2>3. w \notin Holding /\ Holding' = Holding \cup {w}
    BY <1>0, <2>2, WorkerGoing DEF WorkerGoes, NumberTypes, HoldingLabels
  <2>4. Cardinality(buffered') = Cardinality(buffered) - 1
    BY <1>0, <2>1, FS_RemoveElement DEF FiniteSets
  <2>5. Cardinality(Holding') = Cardinality(Holding) + 1
    BY <1>0, <2>3, FS_AddElement DEF FiniteSets
  <2> QED
    BY <1>0, <1>1, <2>4, <2>5 DEF FiniteSets
<1>4. ASSUME NEW w \in Workers, PopQueued(w)
      PROVE  Cardinality(buffered') + Cardinality(Holding') <= MaxPriority
  <2>1. buffered' = buffered /\ Cardinality(buffered) + Reserve <= MaxPriority
    BY <1>4 DEF PopQueued, PopStandard, StandardReady
  <2> QED
    BY <1>0, <2>1 DEF FiniteSets
<1>5. ASSUME NEW w \in Workers, Resubmit(w), PushPriority(task[w])
      PROVE  Cardinality(buffered') + Cardinality(Holding') <= MaxPriority
  <2>1. pc[w] = "resubmit" /\ pc' = [pc EXCEPT ![w] = "count"] /\ buffered' = buffered \cup {task[w]}
    BY <1>5, Zenon DEF Resubmit, PushPriority, Goto
  <2>2. w \in Holding /\ Holding' = Holding \ {w}
    BY <1>0, <2>1, WorkerGoing DEF WorkerGoes, NumberTypes, HoldingLabels
  <2>3. Cardinality(buffered') <= Cardinality(buffered) + 1
    <3>1. Cardinality(buffered \cup {task[w]}) =
            IF task[w] \in buffered THEN Cardinality(buffered) ELSE Cardinality(buffered) + 1
      BY <1>0, FS_AddElement DEF FiniteSets
    <3> QED
      BY <1>0, <2>1, <3>1 DEF FiniteSets
  <2>4. Cardinality(Holding') = Cardinality(Holding) - 1
    BY <1>0, <2>2, FS_RemoveElement DEF FiniteSets
  <2> QED
    BY <1>0, <1>1, <2>3, <2>4 DEF FiniteSets
<1>6. ASSUME StillStep PROVE Holding' = Holding /\ buffered' = buffered
  BY <1>6, Zenon DEF StillStep, coreVars, Holding
<1> QED
  BY <1>0, <1>2, <1>3, <1>4, <1>5, <1>6, NextCases, RoomOther, RoomMain

\* There is room at first.
LEMMA RoomInit == Init => RoomInv
<1> SUFFICES ASSUME Init PROVE RoomInv
  OBVIOUS
<1>1. \A w \in Workers : pc[w] = "start"
  BY Numbers DEF Init, NumberSets
<1>2. buffered = {} /\ Holding = {}
  BY <1>1 DEF Init, QueueInit, Holding, HoldingLabels
<1>3. Cardinality({}) = 0
  BY FS_EmptySet
<1> QED
  BY <1>2, <1>3, QueueAssumption DEF RoomInv

-----------------------------------------------------------------------------
(* run_cnt_ is exact.                                                      *)

\* A worker at label, which threw in stage, holds a task that run_cnt_ covers.
Covered(label, stage) ==
    label \in HoldingLabels \cup AfterLabels \cup {"count"} \/ (label = "catch" /\ stage = "task")

Load == Len(queue) + Cardinality(buffered) + Cardinality(Busy) - Cardinality(Uncounted)

\* The sets that RunCountExact counts.
CountedSets ==
    /\ IsFiniteSet(buffered) /\ Cardinality(buffered) \in Nat
    /\ IsFiniteSet(Busy) /\ Cardinality(Busy) \in Nat
    /\ IsFiniteSet(Uncounted) /\ Cardinality(Uncounted) \in Nat
    /\ Len(queue) \in Nat
    /\ \A w \in Workers : w \in Busy <=> Covered(pc[w], threw[w])

\* They are finite.
LEMMA CountedTyped == TypeInv => CountedSets
<1> SUFFICES ASSUME TypeInv PROVE CountedSets
  OBVIOUS
<1>1. IsFiniteSet(Workers) /\ IsFiniteSet(Threads)
  BY PoolAssumption, FS_AddElement DEF Threads
<1>2. Busy \subseteq Workers /\ Uncounted \subseteq Threads
  BY DEF Busy, Uncounted
<1>3. IsFiniteSet(Busy) /\ IsFiniteSet(Uncounted)
  BY <1>1, <1>2, FS_Subset
<1>4. IsFiniteSet(buffered)
  BY FiniteTyped DEF FiniteSets
<1>5. Len(queue) \in Nat
  BY DEF TypeInv
<1>6. \A w \in Workers : w \in Busy <=> Covered(pc[w], threw[w])
  BY DEF Busy, Covered, HoldingLabels, AfterLabels
<1> QED
  BY <1>3, <1>4, <1>5, <1>6, FS_CardinalityType DEF CountedSets

\* What a step of worker w to label does to the numbers that are counted.
Recounted(w, label) ==
    /\ (Covered(pc[w], threw[w]) <=> Covered(label, threw'[w])) =>
         Cardinality(Busy') = Cardinality(Busy)
    /\ ~Covered(pc[w], threw[w]) /\ Covered(label, threw'[w]) =>
         Cardinality(Busy') = Cardinality(Busy) + 1
    /\ Covered(pc[w], threw[w]) /\ ~Covered(label, threw'[w]) =>
         Cardinality(Busy') = Cardinality(Busy) - 1
    /\ (pc[w] = "count" <=> label = "count") =>
         Cardinality(Uncounted') = Cardinality(Uncounted)
    /\ pc[w] # "count" /\ label = "count" =>
         Cardinality(Uncounted') = Cardinality(Uncounted) + 1
    /\ pc[w] = "count" /\ label # "count" =>
         Cardinality(Uncounted') = Cardinality(Uncounted) - 1

\* One thread enters or leaves a set, or stays.
LEMMA OneMoves ==
  ASSUME NEW S, IsFiniteSet(S), NEW T, NEW x, S \ {x} = T \ {x}
  PROVE  /\ (x \in S <=> x \in T) => Cardinality(T) = Cardinality(S)
         /\ x \notin S /\ x \in T => Cardinality(T) = Cardinality(S) + 1
         /\ x \in S /\ x \notin T => Cardinality(T) = Cardinality(S) - 1
<1>1. ASSUME x \in S <=> x \in T PROVE T = S
  BY <1>1
<1>2. ASSUME x \notin S, x \in T PROVE T = S \cup {x}
  BY <1>2
<1>3. ASSUME x \in S, x \notin T PROVE T = S \ {x}
  BY <1>3
<1>4. /\ x \notin S => Cardinality(S \cup {x}) = Cardinality(S) + 1
      /\ x \in S => Cardinality(S \ {x}) = Cardinality(S) - 1
  BY FS_AddElement, FS_RemoveElement
<1> QED
  BY <1>1, <1>2, <1>3, <1>4

\* Only the worker itself moves.
LEMMA Recounting ==
  ASSUME TypeInv, NEW w \in Workers, NEW label, pc' = [pc EXCEPT ![w] = label],
         \A v \in Workers \ {w} : threw'[v] = threw[v]
  PROVE  Recounted(w, label)
<1>1. pc'[w] = label /\ \A t \in Threads \ {w} : pc'[t] = pc[t]
  BY NumberTyped, WorkerGoing DEF WorkerGoes
<1>2. w \in Threads /\ \A v \in Workers : v \in Threads
  BY Numbers DEF NumberSets
<1>3. /\ \A v \in Workers : v \in Busy <=> Covered(pc[v], threw[v])
      /\ \A v \in Workers : v \in Busy' <=> Covered(pc'[v], threw'[v])
  BY DEF Busy, Covered, HoldingLabels, AfterLabels
<1>4. Busy \subseteq Workers /\ Busy' \subseteq Workers
  BY DEF Busy
<1>5. \A v \in Workers \ {w} : v \in Busy' <=> v \in Busy
  BY <1>1, <1>2, <1>3
<1>6. /\ Busy \ {w} = Busy' \ {w}
      /\ w \in Busy <=> Covered(pc[w], threw[w])
      /\ w \in Busy' <=> Covered(label, threw'[w])
  BY <1>1, <1>3, <1>4, <1>5
<1>7. /\ Uncounted \ {w} = Uncounted' \ {w}
      /\ w \in Uncounted <=> pc[w] = "count"
      /\ w \in Uncounted' <=> label = "count"
  BY <1>1, <1>2 DEF Uncounted
<1>8. IsFiniteSet(Busy) /\ IsFiniteSet(Uncounted)
  BY CountedTyped DEF CountedSets
<1>9. /\ (w \in Busy <=> w \in Busy') => Cardinality(Busy') = Cardinality(Busy)
      /\ w \notin Busy /\ w \in Busy' => Cardinality(Busy') = Cardinality(Busy) + 1
      /\ w \in Busy /\ w \notin Busy' => Cardinality(Busy') = Cardinality(Busy) - 1
  BY <1>6, <1>8, OneMoves
<1>10. /\ (w \in Uncounted <=> w \in Uncounted') =>
            Cardinality(Uncounted') = Cardinality(Uncounted)
       /\ w \notin Uncounted /\ w \in Uncounted' =>
            Cardinality(Uncounted') = Cardinality(Uncounted) + 1
       /\ w \in Uncounted /\ w \notin Uncounted' =>
            Cardinality(Uncounted') = Cardinality(Uncounted) - 1
  BY <1>7, <1>8, OneMoves
<1> QED
  BY <1>6, <1>7, <1>9, <1>10 DEF Recounted

\* The main thread moves.
LEMMA RecountingMain ==
  ASSUME TypeInv, NEW label, pc' = [pc EXCEPT ![Main] = label], threw' = threw
  PROVE  /\ Busy' = Busy
         /\ (pc[Main] = "count" <=> label = "count") =>
              Cardinality(Uncounted') = Cardinality(Uncounted)
         /\ pc[Main] # "count" /\ label = "count" =>
              Cardinality(Uncounted') = Cardinality(Uncounted) + 1
         /\ pc[Main] = "count" /\ label # "count" =>
              Cardinality(Uncounted') = Cardinality(Uncounted) - 1
<1>1. /\ pc'[Main] = label /\ \A t \in Threads \ {Main} : pc'[t] = pc[t]
      /\ Main \in Threads /\ \A v \in Workers : v \in Threads /\ v # Main
  BY Numbers DEF NumberSets, TypeInv
<1>2. Busy' = Busy
  BY <1>1 DEF Busy
<1>3. /\ Uncounted \ {Main} = Uncounted' \ {Main}
      /\ Main \in Uncounted <=> pc[Main] = "count"
      /\ Main \in Uncounted' <=> label = "count"
  BY <1>1 DEF Uncounted
<1>4. IsFiniteSet(Uncounted)
  BY CountedTyped DEF CountedSets
<1> QED
  BY <1>2, <1>3, <1>4, OneMoves

\* A step at which neither a task nor a count moves.
LEMMA LoadSame ==
  ASSUME TypeInv, NEW w \in Workers, NEW label, pc' = [pc EXCEPT ![w] = label],
         \A v \in Workers \ {w} : threw'[v] = threw[v],
         Covered(label, threw'[w]) <=> Covered(pc[w], threw[w]),
         label = "count" <=> pc[w] = "count",
         queue' = queue, buffered' = buffered
  PROVE  Load' = Load
<1>1. Cardinality(Busy') = Cardinality(Busy) /\ Cardinality(Uncounted') = Cardinality(Uncounted)
  BY Recounting DEF Recounted
<1> QED
  BY <1>1 DEF Load

\* Without an exception and before destroy(), a step of a worker moves the load and
\* run_cnt_ alike.
LoadMoves ==
    \/ Load' = Load /\ runCount' = runCount
    \/ Load' = Load + 1 /\ runCount' = (runCount + 1) % Modulus
    \/ Load' = Load - 1 /\ runCount' = (runCount + Modulus - 1) % Modulus

\* Taking a task moves it from a queue to the worker.
LEMMA LoadTaken ==
  ASSUME TypeInv, NEW w \in Workers, PopBuffered(w) \/ PopQueued(w)
  PROVE  LoadMoves
<1>1. /\ pc[w] = "pop" /\ pc' = [pc EXCEPT ![w] = "gate"] /\ threw' = threw
      /\ runCount' = runCount
  BY Zenon DEF PopBuffered, PopQueued, poolVars, Goto
<1>2. Recounted(w, "gate")
  BY <1>1, Recounting
<1>3. CountedSets
  BY CountedTyped
<1>4. /\ Cardinality(Busy') = Cardinality(Busy) + 1
      /\ Cardinality(Uncounted') = Cardinality(Uncounted)
  BY <1>1, <1>2 DEF Recounted, Covered, HoldingLabels, AfterLabels
<1>5. CASE PopBuffered(w)
  <2>1. current \in buffered /\ buffered' = buffered \ {current} /\ queue' = queue
    BY <1>5 DEF PopBuffered, PopPriority, PriorityReady, StartsAtCurrent
  <2>2. Cardinality(buffered') = Cardinality(buffered) - 1
    BY <1>3, <2>1, FS_RemoveElement DEF CountedSets
  <2> QED
    BY <1>1, <1>2, <1>3, <1>4, <2>1, <2>2 DEF Load, LoadMoves, CountedSets
<1>6. CASE PopQueued(w)
  <2>1. queue # <<>> /\ queue' = Tail(queue) /\ buffered' = buffered
    BY <1>6 DEF PopQueued, PopStandard, StandardReady
  <2>2. queue \in Seq(TaskIds)
    BY DEF TypeInv
  <2>3. Len(queue') = Len(queue) - 1
    BY <2>1, <2>2
  <2> QED
    BY <1>1, <1>2, <1>3, <1>4, <2>1, <2>3 DEF Load, LoadMoves, CountedSets
<1> QED
  BY <1>5, <1>6

\* A task that is submitted again stays covered by its worker until it is counted.
LEMMA LoadRequeued ==
  ASSUME TypeInv, OrderInv, NEW w \in Workers, Resubmit(w), PushPriority(task[w])
  PROVE  LoadMoves
<1>1. /\ pc[w] = "resubmit" /\ pc' = [pc EXCEPT ![w] = "count"] /\ threw' = threw
      /\ runCount' = runCount /\ queue' = queue /\ buffered' = buffered \cup {task[w]}
  BY Zenon DEF Resubmit, PushPriority, poolVars, Goto
<1>2. Recounted(w, "count")
  BY <1>1, Recounting
<1>3. CountedSets
  BY CountedTyped
<1>4. task[w] \notin buffered
  BY <1>1 DEF OrderInv, HoldInv, Holding, HoldingLabels
<1>5. /\ Cardinality(Busy') = Cardinality(Busy)
      /\ Cardinality(Uncounted') = Cardinality(Uncounted) + 1
  BY <1>1, <1>2 DEF Recounted, Covered, HoldingLabels, AfterLabels
<1>6. Cardinality(buffered') = Cardinality(buffered) + 1
  BY <1>1, <1>3, <1>4, FS_AddElement DEF CountedSets
<1> QED
  BY <1>1, <1>2, <1>3, <1>5, <1>6 DEF Load, LoadMoves, CountedSets

\* Counting up and down.
LEMMA LoadCounted ==
  ASSUME TypeInv, NEW w \in Workers, CountUp(w) \/ CountDown(w)
  PROVE  LoadMoves
<1>0. CountedSets /\ w # Main
  BY CountedTyped, Numbers DEF NumberSets
<1>1. CASE CountUp(w)
  <2>1. /\ pc[w] = "count" /\ pc' = [pc EXCEPT ![w] = "ran"] /\ threw' = threw
        /\ runCount' = (runCount + 1) % Modulus /\ queue' = queue /\ buffered' = buffered
    BY <1>0, <1>1 DEF CountUp, Goto, queueVars, poolVars
  <2>2. Recounted(w, "ran")
    BY <2>1, Recounting
  <2>3. /\ Cardinality(Busy') = Cardinality(Busy)
        /\ Cardinality(Uncounted') = Cardinality(Uncounted) - 1
    BY <2>1, <2>2 DEF Recounted, Covered, HoldingLabels, AfterLabels
  <2> QED
    BY <1>0, <2>1, <2>2, <2>3 DEF Load, LoadMoves, CountedSets
<1>2. CASE CountDown(w)
  <2>1. /\ pc[w] = "ran" /\ pc' = [pc EXCEPT ![w] = "loop"] /\ threw' = threw
        /\ runCount' = (runCount + Modulus - 1) % Modulus
        /\ queue' = queue /\ buffered' = buffered
    BY <1>2, Zenon DEF CountDown, Goto, queueVars, poolVars
  <2>2. Recounted(w, "loop")
    BY <2>1, Recounting
  <2>3. /\ Cardinality(Busy') = Cardinality(Busy) - 1
        /\ Cardinality(Uncounted') = Cardinality(Uncounted)
    BY <2>1, <2>2 DEF Recounted, Covered, HoldingLabels, AfterLabels
  <2> QED
    BY <1>0, <2>1, <2>2, <2>3 DEF Load, LoadMoves, CountedSets
<1> QED
  BY <1>1, <1>2

\* Where the queue stays valid, nothing was caught and the pool is not destroyed.
LEMMA CalmStep ==
  ASSUME ValidInv, [Next]_vars, Calm'
  PROVE  /\ Calm /\ valid /\ valid' /\ ~done /\ exception = NoWorker
         /\ ~Destroy /\ \A w \in Workers : ~Catch(w)
<1>1. Calm /\ valid /\ valid' /\ ~done /\ exception = NoWorker /\ exception' = NoWorker /\ ~done'
  BY CalmNext, Zenon DEF CalmMoves, ValidInv, Calm
<1>2. ~Destroy
  BY <1>1, Zenon DEF Destroy
<1>3. ASSUME NEW w \in Workers, Catch(w) PROVE FALSE
  BY <1>1, <1>3, PoolAssumption DEF Catch
<1> QED
  BY <1>1, <1>2, <1>3

\* A worker that submits its task again finds room.
LEMMA NotRefused ==
  ASSUME TypeInv, RoomInv, valid, NEW w \in Workers, Resubmit(w)
  PROVE  PushPriority(task[w])
<1> SUFFICES ASSUME ~PushPriority(task[w]) PROVE FALSE
  OBVIOUS
<1>1. PriorityRefused
  BY Refused
<1>2. Cardinality(buffered) >= MaxPriority /\ Cardinality(buffered) + Cardinality(Holding) <= MaxPriority
  BY <1>1, Zenon DEF PriorityRefused, RoomInv
<1>3. w \in Holding
  BY DEF Resubmit, Holding, HoldingLabels
<1>4. Cardinality(Holding) # 0
  BY <1>3, FiniteTyped, FS_EmptySet DEF FiniteSets
<1> QED
  BY <1>2, <1>4, FiniteTyped DEF FiniteSets

\* The worker's steps move the load and the count alike.
LEMMA LoadWorker ==
  ASSUME TypeInv, OrderInv, RoomInv, ValidInv, [Next]_vars, Calm',
         NEW w \in Workers, WorkerStep(w)
  PROVE  LoadMoves
<1>0. /\ valid /\ ~done /\ ~Catch(w)
      /\ threw \in [Workers -> {"no", "init", "task", "finalize"}] /\ pc[w] \in WorkerLabels
  BY CalmStep DEF TypeInv
<1>1. ASSUME NEW label \in WorkerLabels, QuietStep(w, label) PROVE LoadMoves
  <2>1. /\ queue' = queue /\ buffered' = buffered /\ runCount' = runCount /\ threw' = threw
        /\ pc' = [pc EXCEPT ![w] = label]
    BY <1>1, Zenon DEF QuietStep, coreVars
  <2>2. /\ label \in HoldingLabels => pc[w] \in HoldingLabels
        /\ label \in AfterLabels => pc[w] \in AfterLabels
        /\ label \in FreeLabels => pc[w] \in FreeLabels
        /\ label \in {"fill", "filling", "ran"} \cup HoldingLabels \cup FreeLabels
        /\ pc[w] \notin {"catch", "count"}
    BY <1>0, <1>1 DEF QuietStep
  <2>3. (Covered(label, threw'[w]) <=> Covered(pc[w], threw[w])) /\ label # "count"
    BY <2>2 DEF Covered, HoldingLabels, AfterLabels, FreeLabels
  <2>4. Load' = Load
    BY <2>1, <2>2, <2>3, LoadSame
  <2> QED
    BY <2>1, <2>4 DEF LoadMoves
<1>2. CASE TaskComplete(w)
  <2>1. /\ queue' = queue /\ buffered' = buffered /\ runCount' = runCount /\ threw' = threw
        /\ pc[w] = "run" /\ pc' = [pc EXCEPT ![w] = "completing"]
    BY <1>2, Zenon DEF TaskComplete, Complete, poolVars, Goto
  <2>2. Covered("completing", threw'[w]) /\ Covered(pc[w], threw[w])
    BY <2>1 DEF Covered, HoldingLabels, AfterLabels
  <2>3. Load' = Load
    BY <2>1, <2>2, LoadSame
  <2> QED
    BY <2>1, <2>3 DEF LoadMoves
<1>3. CASE TaskAdvance(w)
  <2>1. /\ queue' = queue /\ buffered' = buffered /\ runCount' = runCount /\ threw' = threw
        /\ pc' = pc
    BY <1>3, Zenon DEF TaskAdvance, Advance, poolVars
  <2> QED
    BY <2>1 DEF LoadMoves, Load, Busy, Uncounted
<1>4. CASE Throw(w)
  <2>1. PICK stage \in Throws : /\ pc[w] = (IF stage = "task" THEN "run" ELSE stage)
                                /\ threw' = [threw EXCEPT ![w] = stage]
    BY <1>4 DEF Throw
  <2>2. /\ queue' = queue /\ buffered' = buffered /\ runCount' = runCount
        /\ pc' = [pc EXCEPT ![w] = "catch"]
    BY <1>4, Zenon DEF Throw, queueVars, Goto
  <2>3. threw'[w] = stage /\ stage \in {"init", "task", "finalize"}
    BY <1>0, <2>1, PoolAssumption
  <2>4. Covered("catch", threw'[w]) <=> Covered(pc[w], threw[w])
    BY <2>1, <2>3 DEF Covered, HoldingLabels, AfterLabels
  <2>5. pc[w] # "count" /\ \A v \in Workers \ {w} : threw'[v] = threw[v]
    BY <1>0, <2>1, <2>3
  <2>6. Load' = Load
    BY <2>2, <2>4, <2>5, LoadSame
  <2> QED
    BY <2>2, <2>6 DEF LoadMoves
<1>5. CASE Resubmit(w)
  BY <1>0, <1>5, NotRefused, LoadRequeued
<1> QED
  BY <1>0, <1>1, <1>2, <1>3, <1>4, <1>5, WorkerCases, LoadTaken, LoadCounted DEF LoudStep

\* So do the main thread's: a submitted task is not counted yet.
LEMMA LoadMain ==
  ASSUME TypeInv, OrderInv, ValidInv, [Next]_vars, Calm', MainStep
  PROVE  LoadMoves
<1>0. CountedSets /\ NumberTypes
  BY CountedTyped, NumberTyped
<1>1. ASSUME NEW label, pc' = [pc EXCEPT ![Main] = label], pc[Main] # "count", label # "count",
             queue' = queue, buffered' = buffered, threw' = threw, runCount' = runCount
      PROVE  LoadMoves
  BY <1>1, RecountingMain DEF Load, LoadMoves
<1>2. ASSUME NEW label \in MainLabels, QuietMain(label) PROVE LoadMoves
  <2>1. /\ queue' = queue /\ buffered' = buffered /\ threw' = threw /\ runCount' = runCount
        /\ pc' = [pc EXCEPT ![Main] = label]
    BY <1>2, Zenon DEF QuietMain, queueVars
  <2>2. pc[Main] # "count" /\ label # "count"
    BY <1>2 DEF QuietMain
  <2> QED
    BY <1>1, <2>1, <2>2
<1>3. CASE MarkZero
  <2>1. /\ queue' = queue /\ buffered' = buffered /\ threw' = threw /\ runCount' = runCount
        /\ pc[Main] = "mark" /\ pc' = [pc EXCEPT ![Main] = "poll"]
    BY <1>3, Zenon DEF MarkZero, Complete, poolVars, Goto
  <2> QED
    BY <1>1, <2>1
<1>4. CASE Submit
  <2>1. PushStandard(task[Main])
    BY <1>4, CalmStep DEF Submit
  <2>2. /\ queue' = Append(queue, task[Main]) /\ buffered' = buffered /\ threw' = threw
        /\ runCount' = runCount /\ pc[Main] = "submit" /\ pc' = [pc EXCEPT ![Main] = "count"]
    BY <1>4, <2>1, Zenon DEF Submit, PushStandard, poolVars, Goto
  <2>3. Len(queue') = Len(queue) + 1
    <3>1. queue \in Seq(Int) /\ task[Main] \in Int
      BY <1>0 DEF NumberTypes
    <3> QED
      BY <2>2, <3>1
  <2>4. Busy' = Busy /\ Cardinality(Uncounted') = Cardinality(Uncounted) + 1
    BY <2>2, RecountingMain
  <2> QED
    BY <1>0, <2>2, <2>3, <2>4 DEF Load, LoadMoves, CountedSets
<1>5. CASE CountUp(Main)
  <2>1. /\ queue' = queue /\ buffered' = buffered /\ threw' = threw
        /\ runCount' = (runCount + 1) % Modulus
        /\ pc[Main] = "count" /\ pc' = [pc EXCEPT ![Main] = "check"]
    BY <1>5 DEF CountUp, queueVars, poolVars, Goto
  <2>2. pc' = [pc EXCEPT ![Main] = "check"] /\ pc[Main] = "count" /\ "check" # "count"
    BY <2>1
  <2>3. Busy' = Busy /\ Cardinality(Uncounted') = Cardinality(Uncounted) - 1
    BY <2>1, <2>2, RecountingMain, Zenon
  <2> QED
    BY <1>0, <2>1, <2>3 DEF Load, LoadMoves, CountedSets
<1>6. CASE Wait /\ pc' = pc
  <2>1. /\ queue' = queue /\ buffered' = buffered /\ threw' = threw /\ runCount' = runCount
    BY <1>6, Zenon DEF Wait, queueVars, poolVars
  <2> QED
    BY <1>6, <2>1 DEF Load, LoadMoves, Busy, Uncounted
<1> QED
  BY <1>2, <1>3, <1>4, <1>5, <1>6, MainCases, CalmStep

\* The count follows the load.
LEMMA RunCountNext ==
  ASSUME TypeInv, OrderInv, RoomInv, ValidInv, RunCountExact, [Next]_vars
  PROVE  RunCountExact'
<1> SUFFICES ASSUME valid' PROVE runCount' = Load' % Modulus
  BY DEF RunCountExact, Load
<1>0. Calm'
  BY CalmNext, Zenon DEF CalmMoves, ValidInv
<1>1. runCount = Load % Modulus
  BY <1>0, CalmStep DEF RunCountExact, Load
<1>2. Load \in Int /\ Modulus \in Nat \ {0}
  <2>1. Modulus \in Nat /\ Modulus > Tasks + Cardinality(Workers) /\ Tasks \in Nat \ {0}
    BY PoolAssumption
  <2>2. Cardinality(Workers) \in Nat
    BY FiniteTyped DEF FiniteSets
  <2> QED
    BY <2>1, <2>2, CountedTyped DEF CountedSets, Load
<1>3. LoadMoves
  <2>1. ASSUME StillStep PROVE LoadMoves
    <3>1. /\ queue' = queue /\ buffered' = buffered /\ threw' = threw /\ runCount' = runCount
          /\ pc' = pc
      BY <2>1, Zenon DEF StillStep, coreVars
    <3> QED
      BY <3>1 DEF Load, LoadMoves, Busy, Uncounted
  <2> QED
    BY <1>0, <2>1, NextCases, LoadWorker, LoadMain
<1>4. /\ ((Load % Modulus) + 1) % Modulus = (Load + 1) % Modulus
      /\ ((Load % Modulus) + Modulus - 1) % Modulus = (Load - 1) % Modulus
  BY <1>2, ModPlus, ModMinus
<1>5. CASE Load' = Load /\ runCount' = runCount
  BY <1>1, <1>5
<1>6. CASE Load' = Load + 1 /\ runCount' = (runCount + 1) % Modulus
  BY <1>1, <1>4, <1>6
<1>7. CASE Load' = Load - 1 /\ runCount' = (runCount + Modulus - 1) % Modulus
  BY <1>1, <1>4, <1>7
<1> QED
  BY <1>3, <1>5, <1>6, <1>7 DEF LoadMoves

\* It is zero at first.
LEMMA RunCountInit == Init => RunCountExact
<1> SUFFICES ASSUME Init PROVE RunCountExact
  OBVIOUS
<1>1. pc[Main] = "mark" /\ \A w \in Workers : pc[w] = "start"
  BY Numbers DEF Init, NumberSets
<1>2. queue = <<>> /\ buffered = {} /\ runCount = 0
  BY DEF Init, QueueInit
<1>3. Busy = {} /\ Uncounted = {}
  BY <1>1 DEF Busy, Uncounted, Threads
<1>4. Cardinality({}) = 0
  BY FS_EmptySet
<1>5. Modulus \in Nat /\ Modulus > Tasks + Cardinality(Workers) /\ Tasks \in Nat \ {0}
      /\ Cardinality(Workers) \in Nat
  BY PoolAssumption, FS_CardinalityType
<1>6. 0 % Modulus = 0
  BY <1>5
<1>7. Len(queue) + Cardinality(buffered) + Cardinality(Busy) - Cardinality(Uncounted) = 0
  BY <1>2, <1>3, <1>4
<1> QED
  BY <1>2, <1>6, <1>7 DEF RunCountExact

\* The invariant of the counter: order, validity and room.
CountInv == TypeInv /\ OrderInv /\ ValidInv /\ RoomInv /\ RunCountExact

\* It holds in every state.
THEOREM CountInvariant == Spec => []CountInv
<1>1. Init => CountInv
  BY TypeInit, OrderInit, CalmInit, RoomInit, RunCountInit DEF CountInv
<1>2. CountInv /\ [Next]_vars => CountInv'
  BY TypeNext, OrderNext, CalmNext, RoomNext, RunCountNext DEF CountInv, CalmMoves
<1> QED
  BY <1>1, <1>2, PTL DEF Spec

\* run_cnt_ is the number of tasks in the queues and in the workers, less those whose
\* submission is not counted yet, modulo 2^32: ++run_cnt_ without a lock after a push
\* and --run_cnt_ after a task keep it, for any number of workers.
THEOREM RunCountExactHolds == Spec => []RunCountExact
<1>1. CountInv => RunCountExact
  BY DEF CountInv
<1> QED
  BY <1>1, CountInvariant, PTL

-----------------------------------------------------------------------------
(* What one thread leaves to the others.                                   *)

\* A step of worker w changes nothing of the other threads.  Only Catch leaves the catch
\* block, and there is no step from the end of the thread.
WorkerAlone(w) ==
    /\ \A v \in Workers \ {w} : pc'[v] = pc[v] /\ threw'[v] = threw[v] /\ task'[v] = task[v]
    /\ pc'[Main] = pc[Main] /\ task'[Main] = task[Main] /\ LastPushed' = LastPushed
    /\ pc[w] # "end" /\ (pc[w] = "catch" => Catch(w))
    /\ threw' = threw \/ Throw(w)
    /\ Catch(w) \/ UNCHANGED <<exception, valid>>

\* That is so for every step of a worker.
LEMMA WorkerFrame ==
  ASSUME TypeInv, NEW w \in Workers, WorkerStep(w)
  PROVE  WorkerAlone(w) /\ outcome' = outcome /\ done' = done
<1> USE DEF Goto
<1>0. /\ w \in Threads /\ w # Main /\ Main \in Threads
      /\ \A v \in Workers : v \in Threads /\ v # Main
  BY Numbers DEF NumberSets
<1>1. outcome' = outcome /\ done' = done /\ (threw' = threw \/ Throw(w))
  <2>1. ASSUME NEW label, QuietStep(w, label) PROVE UNCHANGED <<outcome, done, threw>>
    BY <2>1, Zenon DEF QuietStep, coreVars
  <2>2. ASSUME LoudStep(w) PROVE UNCHANGED <<outcome, done>> /\ (threw' = threw \/ Throw(w))
    BY <2>2, Zenon
       DEF LoudStep, PopBuffered, PopQueued, TaskComplete, TaskAdvance, Resubmit, CountUp,
           CountDown, Throw, Catch, poolVars
  <2> QED
    BY <2>1, <2>2, WorkerCases, Zenon
<1>2. Catch(w) \/ UNCHANGED <<exception, valid>>
  <2>1. ASSUME NEW label, QuietStep(w, label) PROVE UNCHANGED <<exception, valid>>
    BY <2>1, Zenon DEF QuietStep, coreVars
  <2>2. ASSUME LoudStep(w), ~Catch(w) PROVE UNCHANGED <<exception, valid>>
    BY <2>2, Zenon
       DEF LoudStep, PopBuffered, PopPriority, PopQueued, PopStandard, TaskComplete, Complete,
           TaskAdvance, Advance, Resubmit, PushPriority, CountUp, CountDown, Throw,
           queueVars, poolVars
  <2> QED
    BY <2>1, <2>2, WorkerCases, Zenon
<1>3. /\ pc' = pc \/ \E label : pc' = [pc EXCEPT ![w] = label]
      /\ task' = task \/ \E n : task' = [task EXCEPT ![w] = n]
      /\ threw' = threw \/ \E stage : threw' = [threw EXCEPT ![w] = stage]
  <2>1. ASSUME NEW label \in WorkerLabels, QuietStep(w, label)
        PROVE  pc' = [pc EXCEPT ![w] = label] /\ task' = task /\ threw' = threw
    BY <2>1, Zenon DEF QuietStep, coreVars
  <2>2. ASSUME LoudStep(w)
        PROVE  /\ pc' = pc \/ \E label : pc' = [pc EXCEPT ![w] = label]
               /\ task' = task \/ \E n : task' = [task EXCEPT ![w] = n]
               /\ threw' = threw \/ \E stage : threw' = [threw EXCEPT ![w] = stage]
    BY <2>2, Zenon
       DEF LoudStep, PopBuffered, PopQueued, TaskComplete, TaskAdvance, Resubmit, CountUp,
           CountDown, Throw, Catch, poolVars
  <2> QED
    BY <2>1, <2>2, WorkerCases
<1>4. /\ \A t \in Threads \ {w} : pc'[t] = pc[t] /\ task'[t] = task[t]
      /\ \A v \in Workers \ {w} : threw'[v] = threw[v]
  BY <1>3 DEF TypeInv
<1>5. pc[w] # "end" /\ (pc[w] = "catch" => Catch(w))
  <2>1. ASSUME NEW label, QuietStep(w, label) PROVE pc[w] \notin {"end", "catch"}
    BY <2>1 DEF QuietStep
  <2>2. ASSUME PopBuffered(w) \/ PopQueued(w) \/ TaskComplete(w) \/ TaskAdvance(w) \/ Resubmit(w)
               \/ CountUp(w) \/ CountDown(w)
        PROVE  pc[w] \notin {"end", "catch"}
    BY <2>2 DEF PopBuffered, PopQueued, TaskComplete, TaskAdvance, Resubmit, CountUp, CountDown
  <2>3. ASSUME Throw(w) PROVE pc[w] \notin {"end", "catch"}
    BY <2>3, PoolAssumption DEF Throw
  <2>4. ASSUME Catch(w) PROVE pc[w] # "end"
    BY <2>4 DEF Catch
  <2> QED
    BY <2>1, <2>2, <2>3, <2>4, WorkerCases DEF LoudStep
<1>6. LastPushed' = LastPushed
  BY <1>0, <1>4 DEF LastPushed
<1> QED
  BY <1>0, <1>1, <1>2, <1>4, <1>5, <1>6, Zenon DEF WorkerAlone

\* A step of the main thread changes nothing of the workers.
MainAlone ==
    /\ \A w \in Workers : pc'[w] = pc[w] /\ task'[w] = task[w]
    /\ threw' = threw /\ exception' = exception

\* That is so for every step of the main thread.
LEMMA MainFrame ==
  ASSUME TypeInv, OrderInv, MainStep
  PROVE  MainAlone
<1>0. NumberTypes
  BY NumberTyped
<1>1. ASSUME NEW label \in MainLabels, QuietMain(label) PROVE MainAlone
  <2>1. /\ threw' = threw /\ exception' = exception /\ pc' = [pc EXCEPT ![Main] = label]
        /\ task' = task \/ task' = [task EXCEPT ![Main] = @ + 1]
    BY <1>1, Zenon DEF QuietMain
  <2> QED
    BY <1>0, <2>1 DEF MainAlone, NumberTypes
<1>2. ASSUME MarkZero PROVE MainAlone
  <2>1. threw' = threw /\ exception' = exception
    BY <1>2, Zenon DEF MarkZero, poolVars
  <2> QED
    BY <1>0, <1>2, <2>1, MarkZeroMoves DEF MarkedZero, MainAlone
<1>3. ASSUME Submit PROVE MainAlone
  <2>1. /\ threw' = threw /\ exception' = exception /\ task' = task
        /\ pc' = [pc EXCEPT ![Main] = "count"]
    BY <1>3, Zenon DEF Submit, poolVars, Goto
  <2> QED
    BY <1>0, <2>1, MainGoing DEF MainAlone
<1>4. ASSUME CountUp(Main) \/ Destroy \/ (Wait /\ pc' = pc) PROVE MainAlone
  <2>1. threw' = threw /\ exception' = exception
    BY <1>4, Zenon DEF CountUp, Destroy, Wait, poolVars
  <2> QED
    BY <1>0, <1>4, <2>1, MainStays DEF MainAlone
<1> QED
  BY <1>1, <1>2, <1>3, <1>4, MainCases

-----------------------------------------------------------------------------
(* Every submitted task is somewhere, unless a task has failed.            *)

\* A task threw and the exception is not saved yet.
Failing == \E w \in Workers : pc[w] = "catch" /\ threw[w] = "task"

Queued(n) == \E i \in 1 .. Len(queue) : queue[i] = n
Held(n) == \E w \in Holding : task[w] = n
Placed(n) == n \in completed \/ n \in buffered \/ Queued(n) \/ Held(n)

PlaceInv == Calm /\ ~Failing => \A n \in current .. LastPushed : Placed(n)

\* Until it is caught, the failure stays.
LEMMA FailingStays ==
  ASSUME TypeInv, OrderInv, ValidInv, [Next]_vars, Calm', Failing
  PROVE  Failing'
<1>1. PICK v \in Workers : pc[v] = "catch" /\ threw[v] = "task"
  BY DEF Failing
<1>2. ASSUME NEW w \in Workers, WorkerStep(w) PROVE Failing'
  <2>1. WorkerAlone(w) /\ ~Catch(w)
    BY <1>2, WorkerFrame, CalmStep
  <2>2. v # w
    BY <1>1, <2>1 DEF WorkerAlone
  <2> QED
    BY <1>1, <2>1, <2>2 DEF WorkerAlone, Failing
<1>3. ASSUME MainStep PROVE Failing'
  BY <1>1, <1>3, MainFrame DEF MainAlone, Failing
<1>4. ASSUME StillStep PROVE Failing'
  <2>1. pc' = pc /\ threw' = threw
    BY <1>4, Zenon DEF StillStep, coreVars
  <2> QED
    BY <1>1, <2>1 DEF Failing
<1> QED
  BY <1>2, <1>3, <1>4, NextCases

\* A step that moves no task.
LEMMA PlacedStill ==
  ASSUME NumberTypes, queue' = queue, buffered' = buffered,
         completed' = completed, current' = current, LastPushed' = LastPushed,
         Holding' = Holding, \A v \in Holding : task'[v] = task[v],
         \A n \in current .. LastPushed : Placed(n)
  PROVE  \A n \in current' .. LastPushed' : Placed(n)'
BY DEF Placed, Queued, Held

\* A completed task leaves the worker and goes to completed_ids_, or is passed over.
LEMMA PlacedSettled ==
  ASSUME NumberTypes, queue' = queue, buffered' = buffered, LastPushed' = LastPushed,
         NEW ids \in SUBSET Int, Settle(ids), completed \in SUBSET ids,
         \A v \in Holding : (v \in Holding' /\ task'[v] = task[v]) \/ task[v] \in ids,
         \A n \in current .. LastPushed : Placed(n)
  PROVE  \A n \in current' .. LastPushed' : Placed(n)'
<1>1. ASSUME NEW n \in Int, Placed(n) PROVE n \in ids \/ (buffered' = buffered /\ Placed(n)')
  BY <1>1 DEF Placed, Queued, Held
<1>2. CASE completed' = ids \ {current} /\ current' = current + 1
  BY <1>1, <1>2 DEF Placed, NumberTypes
<1>3. CASE completed' = ids /\ current' = current
  BY <1>1, <1>3 DEF Placed, NumberTypes
<1> QED
  BY <1>2, <1>3, SettleCases

\* Taking a task moves it from a queue to the worker.
LEMMA PlacedTaken ==
  ASSUME NumberTypes, NEW w \in Workers, PopBuffered(w) \/ PopQueued(w),
         \A n \in current .. LastPushed : Placed(n)
  PROVE  \A n \in current' .. LastPushed' : Placed(n)'
<1>1. /\ completed' = completed /\ current' = current
      /\ pc[w] = "pop" /\ pc' = [pc EXCEPT ![w] = "gate"]
  BY Zenon DEF PopBuffered, PopPriority, PopQueued, PopStandard, Goto
<1>2. Holding' = Holding \cup {w} /\ w \notin Holding /\ pc'[Main] = pc[Main]
  BY <1>1, WorkerGoing DEF WorkerGoes, NumberTypes, HoldingLabels
<1>3. \A t \in Threads \ {w} : task'[t] = task[t]
  BY DEF NumberTypes, PopBuffered, PopQueued
<1>4. LastPushed' = LastPushed
  BY <1>2, <1>3 DEF LastPushed, NumberTypes
<1>5. ASSUME NEW n, Held(n) PROVE Held(n)'
  <2>1. PICK v \in Holding : task[v] = n
    BY <1>5 DEF Held
  <2>2. v \in Holding' /\ task'[v] = n
    BY <1>2, <1>3, <2>1 DEF NumberTypes, Holding
  <2> QED
    BY <2>2 DEF Held
<1>6. CASE PopBuffered(w)
  <2>1. buffered' = buffered \ {current} /\ queue' = queue
    BY <1>6 DEF PopBuffered, PopPriority
  <2>2. task'[w] = current
    BY <1>6 DEF NumberTypes, PopBuffered
  <2>3. Held(current)'
    BY <1>1, <1>2, <2>2 DEF Held
  <2> QED
    BY <1>1, <1>4, <1>5, <2>1, <2>3 DEF Placed, Queued
<1>7. CASE PopQueued(w)
  <2>1. queue # <<>> /\ queue' = Tail(queue) /\ buffered' = buffered
    BY <1>7 DEF PopQueued, PopStandard, StandardReady
  <2>2. /\ Len(queue) >= 1 /\ Len(queue') = Len(queue) - 1 /\ Len(queue) \in Nat
        /\ \A i \in 1 .. Len(queue') : queue'[i] = queue[i + 1]
    BY <2>1 DEF NumberTypes
  <2>h. PICK h \in Int : h = queue[1] /\ h = Head(queue)
    BY <2>2 DEF NumberTypes
  <2>3. task'[w] = h
    BY <1>7, <2>h DEF NumberTypes, PopQueued
  <2>4. Held(h)'
    BY <1>2, <2>3 DEF Held
  <2>5. ASSUME NEW n, Queued(n) PROVE Queued(n)' \/ n = h
    <3>1. PICK i \in 1 .. Len(queue) : queue[i] = n
      BY <2>5 DEF Queued
    <3>2. CASE i = 1
      BY <2>h, <3>1, <3>2
    <3>3. CASE i # 1
      <4>1. i - 1 \in 1 .. Len(queue') /\ queue'[i - 1] = n
        BY <2>2, <3>1, <3>3
      <4> QED
        BY <4>1 DEF Queued
    <3> QED
      BY <3>2, <3>3
  <2>6. ASSUME NEW n, Placed(n) PROVE Placed(n)'
    BY <1>1, <1>5, <2>1, <2>4, <2>5, <2>6 DEF Placed
  <2> QED
    BY <1>1, <1>4, <2>6
<1> QED
  BY <1>6, <1>7

\* A task that is submitted again goes to the priority queue.
LEMMA PlacedRequeued ==
  ASSUME NumberTypes, NEW w \in Workers, Resubmit(w), PushPriority(task[w]),
         \A n \in current .. LastPushed : Placed(n)
  PROVE  \A n \in current' .. LastPushed' : Placed(n)'
<1>1. /\ queue' = queue /\ buffered' = buffered \cup {task[w]}
      /\ completed' = completed /\ current' = current /\ task' = task
      /\ pc' = [pc EXCEPT ![w] = "count"]
  BY Zenon DEF Resubmit, PushPriority, Goto
<1>2. Holding' = Holding \ {w} /\ pc'[Main] = pc[Main]
  BY <1>1, WorkerGoing DEF WorkerGoes, HoldingLabels
<1>3. LastPushed' = LastPushed
  BY <1>1, <1>2 DEF LastPushed
<1>4. ASSUME NEW n, Held(n) PROVE Held(n)' \/ n = task[w]
  BY <1>1, <1>2, <1>4 DEF Held
<1> QED
  BY <1>1, <1>3, <1>4 DEF Placed, Queued

\* The workers' steps lose no task.
LEMMA PlaceWorker ==
  ASSUME TypeInv, OrderInv, RoomInv, ValidInv, [Next]_vars, Calm', ~Failing',
         NEW w \in Workers, WorkerStep(w), \A n \in current .. LastPushed : Placed(n)
  PROVE  \A n \in current' .. LastPushed' : Placed(n)'
<1>0. /\ NumberTypes /\ valid /\ ~done /\ ~Catch(w) /\ w # Main
      /\ LastPushed' = LastPushed /\ pc[w] \in WorkerLabels
  BY NumberTyped, CalmStep, WorkerFrame DEF WorkerAlone, NumberTypes
<1>1. ASSUME NEW label, pc' = [pc EXCEPT ![w] = label], task' = task,
             queue' = queue, buffered' = buffered, completed' = completed, current' = current,
             label \in HoldingLabels <=> pc[w] \in HoldingLabels
      PROVE  \A n \in current' .. LastPushed' : Placed(n)'
  <2>1. Holding' = Holding
    <3>1. w \in Holding <=> pc[w] \in HoldingLabels
      BY DEF Holding
    <3>2. Holding' = IF label \in HoldingLabels THEN Holding \cup {w} ELSE Holding \ {w}
      BY <1>0, <1>1, WorkerGoing DEF WorkerGoes
    <3>3. CASE label \in HoldingLabels
      BY <1>1, <3>1, <3>2, <3>3
    <3>4. CASE label \notin HoldingLabels
      BY <1>1, <3>1, <3>2, <3>4
    <3> QED
      BY <3>3, <3>4
  <2> QED
    BY <1>0, <1>1, <2>1, PlacedStill
<1>2. ASSUME NEW label \in WorkerLabels, QuietStep(w, label)
      PROVE  \A n \in current' .. LastPushed' : Placed(n)'
  <2>1. /\ queue' = queue /\ buffered' = buffered /\ completed' = completed
        /\ current' = current /\ task' = task /\ pc' = [pc EXCEPT ![w] = label]
    BY <1>2, Zenon DEF QuietStep, coreVars
  <2>2. label \in HoldingLabels <=> pc[w] \in HoldingLabels
    BY <1>0, <1>2 DEF QuietStep, HoldingLabels, AfterLabels, FreeLabels
  <2> QED
    BY <1>1, <2>1, <2>2
<1>3. CASE CountUp(w) \/ CountDown(w)
  <2>1. /\ queue' = queue /\ buffered' = buffered /\ completed' = completed
        /\ current' = current /\ task' = task
    BY <1>3, Zenon DEF CountUp, CountDown, queueVars
  <2>2. pc[w] \in {"count", "ran"} /\ \E label \in {"ran", "loop"} : pc' = [pc EXCEPT ![w] = label]
    BY <1>0, <1>3 DEF CountUp, CountDown, Goto
  <2> QED
    BY <1>1, <2>1, <2>2 DEF HoldingLabels
<1>4. CASE Throw(w)
  <2>1. /\ queue' = queue /\ buffered' = buffered /\ completed' = completed
        /\ current' = current /\ task' = task /\ pc' = [pc EXCEPT ![w] = "catch"]
    BY <1>4, Zenon DEF Throw, queueVars, Goto
  <2>2. PICK stage \in Throws : /\ pc[w] = (IF stage = "task" THEN "run" ELSE stage)
                                /\ threw' = [threw EXCEPT ![w] = stage]
    BY <1>4 DEF Throw
  <2>3. stage \in {"init", "task", "finalize"}
    BY PoolAssumption
  <2>4. stage # "task"
    <3> SUFFICES ASSUME stage = "task" PROVE FALSE
      OBVIOUS
    <3>1. threw'[w] = "task" /\ pc'[w] = "catch"
      BY <1>0, <2>1, <2>2 DEF TypeInv, NumberTypes
    <3> QED
      BY <3>1 DEF Failing
  <2> QED
    BY <1>1, <2>1, <2>2, <2>3, <2>4 DEF HoldingLabels
<1>5. CASE TaskComplete(w)
  <2>1. /\ queue' = queue /\ buffered' = buffered /\ task' = task
        /\ Settle(completed \cup {task[w]}) /\ pc' = [pc EXCEPT ![w] = "completing"]
    BY <1>5, Zenon DEF TaskComplete, Complete, Goto
  <2>2. Holding' = Holding \ {w}
    BY <1>0, <2>1, WorkerGoing DEF WorkerGoes, HoldingLabels
  <2>3. completed \cup {task[w]} \in SUBSET Int
    BY <1>0 DEF NumberTypes
  <2> QED
    BY <1>0, <2>1, <2>2, <2>3, PlacedSettled
<1>6. CASE TaskAdvance(w)
  <2>1. /\ queue' = queue /\ buffered' = buffered /\ task' = task
        /\ Settle(completed) /\ pc' = pc
    BY <1>6, Zenon DEF TaskAdvance, Advance
  <2>2. Holding' = Holding /\ completed \in SUBSET Int
    BY <1>0, <2>1 DEF Holding, NumberTypes
  <2> QED
    BY <1>0, <2>1, <2>2, PlacedSettled
<1>7. CASE Resubmit(w)
  BY <1>0, <1>7, NotRefused, PlacedRequeued
<1> QED
  BY <1>0, <1>2, <1>3, <1>4, <1>5, <1>6, <1>7, PlacedTaken, WorkerCases DEF LoudStep

\* The main thread's steps lose none.
LEMMA PlaceMain ==
  ASSUME TypeInv, OrderInv, ValidInv, [Next]_vars, Calm', MainStep,
         \A n \in current .. LastPushed : Placed(n)
  PROVE  \A n \in current' .. LastPushed' : Placed(n)'
<1>0. NumberTypes /\ MainAlone /\ \A w \in Holding : w \in Workers
  BY NumberTyped, MainFrame DEF Holding
<1>1. Holding' = Holding /\ \A w \in Holding : task'[w] = task[w]
  BY <1>0 DEF MainAlone, Holding
<1>2. ASSUME queue' = queue, buffered' = buffered, completed' = completed,
             current' = current, LastPushed' = LastPushed
      PROVE  \A n \in current' .. LastPushed' : Placed(n)'
  BY <1>0, <1>1, <1>2, PlacedStill
<1>3. ASSUME NEW label \in MainLabels, QuietMain(label)
      PROVE  \A n \in current' .. LastPushed' : Placed(n)'
  <2>1. queue' = queue /\ buffered' = buffered /\ completed' = completed /\ current' = current
    BY <1>3, Zenon DEF QuietMain, queueVars
  <2>2. LastPushed' = LastPushed
    BY <1>0, <1>3, MainQuiet
  <2> QED
    BY <1>2, <2>1, <2>2
<1>4. CASE MarkZero
  <2>1. current' = 1 /\ LastPushed' = 0
    BY <1>0, <1>4, MarkZeroMoves DEF MarkedZero
  <2> QED
    BY <2>1
<1>5. CASE Submit
  <2>1. PushStandard(task[Main])
    BY <1>5, CalmStep DEF Submit
  <2>2. /\ queue' = Append(queue, task[Main]) /\ buffered' = buffered
        /\ completed' = completed /\ current' = current /\ task' = task
        /\ pc[Main] = "submit" /\ pc' = [pc EXCEPT ![Main] = "count"]
    BY <1>5, <2>1, Zenon DEF Submit, PushStandard, Goto
  <2>3. pc'[Main] = "count"
    BY <1>0, <2>2, MainGoing
  <2>h. PICK h \in Int : h = task[Main]
    BY <1>0 DEF NumberTypes
  <2>4. LastPushed' = h /\ LastPushed = h - 1
    BY <2>2, <2>3, <2>h DEF LastPushed
  <2>5. /\ Len(queue') = Len(queue) + 1 /\ Len(queue) \in Nat
        /\ \A i \in 1 .. Len(queue) : queue'[i] = queue[i]
        /\ queue'[Len(queue) + 1] = h
    BY <1>0, <2>2, <2>h DEF NumberTypes
  <2>6. Queued(h)' /\ \A n : Queued(n) => Queued(n)'
    BY <2>5 DEF Queued
  <2>7. \A n : Held(n) => Held(n)'
    BY <1>1 DEF Held
  <2>8. \A n : Placed(n) => Placed(n)'
    BY <2>2, <2>6, <2>7 DEF Placed
  <2> QED
    BY <1>0, <2>2, <2>4, <2>6, <2>8 DEF Placed, NumberTypes
<1>6. CASE CountUp(Main)
  <2>1. /\ queue' = queue /\ buffered' = buffered /\ completed' = completed
        /\ current' = current /\ task' = task /\ pc[Main] = "count"
        /\ pc' = [pc EXCEPT ![Main] = "check"]
    BY <1>6 DEF CountUp, queueVars, Goto
  <2>2. pc'[Main] = "check"
    BY <1>0, <2>1, MainGoing
  <2>3. LastPushed' = LastPushed
    BY <2>1, <2>2 DEF LastPushed
  <2> QED
    BY <1>2, <2>1, <2>3
<1>7. CASE Wait /\ pc' = pc
  <2>1. /\ queue' = queue /\ buffered' = buffered /\ completed' = completed
        /\ current' = current /\ task' = task
    BY <1>7, Zenon DEF Wait, queueVars
  <2>2. LastPushed' = LastPushed
    BY <1>7, <2>1 DEF LastPushed
  <2> QED
    BY <1>2, <2>1, <2>2
<1> QED
  BY <1>3, <1>4, <1>5, <1>6, <1>7, MainCases, CalmStep

\* No step loses a task.
LEMMA PlaceNext ==
  ASSUME TypeInv, OrderInv, RoomInv, ValidInv, PlaceInv, [Next]_vars
  PROVE  PlaceInv'
<1> SUFFICES ASSUME Calm', ~Failing'
             PROVE  \A n \in current' .. LastPushed' : Placed(n)'
  BY DEF PlaceInv
<1>1. \A n \in current .. LastPushed : Placed(n)
  BY CalmStep, FailingStays DEF PlaceInv
<1>2. ASSUME StillStep PROVE \A n \in current' .. LastPushed' : Placed(n)'
  <2>1. /\ queue' = queue /\ buffered' = buffered /\ completed' = completed
        /\ current' = current /\ task' = task /\ pc' = pc
    BY <1>2, Zenon DEF StillStep, coreVars
  <2>2. LastPushed' = LastPushed /\ Holding' = Holding
    BY <2>1 DEF LastPushed, Holding
  <2> QED
    BY <1>1, <2>1, <2>2, NumberTyped, PlacedStill
<1> QED
  BY <1>1, <1>2, NextCases, PlaceWorker, PlaceMain

-----------------------------------------------------------------------------
(* The next identifier in line is passed over by a thread.                 *)

TurnInv == current \in completed => \E w \in Workers : pc[w] = "completing"

\* A thread leaves markComplete() when the next identifier is not complete, or with
\* another thread in it.
LEMMA TurnNext ==
  ASSUME TypeInv, OrderInv, TurnInv, [Next]_vars
  PROVE  TurnInv'
<1> SUFFICES ASSUME current' \in completed' PROVE \E w \in Workers : pc'[w] = "completing"
  BY DEF TurnInv
<1>0. NumberTypes
  BY NumberTyped
<1>1. ASSUME completed' = completed, current' = current,
             \A v \in Workers : pc[v] = "completing" => pc'[v] = "completing"
      PROVE  \E w \in Workers : pc'[w] = "completing"
  BY <1>1 DEF TurnInv
<1>2. ASSUME NEW w \in Workers, NEW label \in WorkerLabels, QuietStep(w, label)
      PROVE  \E v \in Workers : pc'[v] = "completing"
  <2>1. completed' = completed /\ current' = current /\ pc' = [pc EXCEPT ![w] = label]
    BY <1>2, Zenon DEF QuietStep, coreVars
  <2>2. \A v \in Workers \ {w} : pc'[v] = pc[v]
    BY <1>0, <2>1 DEF NumberTypes
  <2>3. CASE pc[w] # "completing"
    BY <1>1, <2>1, <2>2, <2>3
  <2>4. CASE pc[w] = "completing"
    <3>1. StartsAtCurrent(completed)
      BY <2>1 DEF StartsAtCurrent, OrderInv, BufferInv, Passed
    <3>2. PICK v \in Workers \ {w} : pc[v] = "completing"
      BY <1>2, <2>4, <3>1 DEF QuietStep
    <3> QED
      BY <2>2, <3>2
  <2> QED
    BY <2>3, <2>4
<1>3. ASSUME NEW w \in Workers, LoudStep(w) PROVE \E v \in Workers : pc'[v] = "completing"
  <2>1. CASE TaskComplete(w)
    BY <1>0, <2>1 DEF TaskComplete, Goto, NumberTypes
  <2>2. CASE TaskAdvance(w)
    <3>1. pc[w] = "completing" /\ pc' = pc
      BY <2>2, Zenon DEF TaskAdvance
    <3> QED
      BY <3>1
  <2>3. CASE ~TaskComplete(w) /\ ~TaskAdvance(w)
    <3>1. completed' = completed /\ current' = current
      BY <1>3, <2>3, Zenon
         DEF LoudStep, PopBuffered, PopPriority, PopQueued, PopStandard, Resubmit, PushPriority,
             CountUp, CountDown, Throw, Catch, Invalidate, queueVars
    <3>2. pc[w] # "completing"
      BY <1>3, <2>3, PoolAssumption
         DEF LoudStep, PopBuffered, PopQueued, Resubmit, CountUp, CountDown, Throw, Catch
    <3>3. \E label : pc' = [pc EXCEPT ![w] = label]
      BY <1>3, <2>3, Zenon
         DEF LoudStep, PopBuffered, PopQueued, Resubmit, CountUp, CountDown, Throw, Catch, Goto
    <3>4. \A v \in Workers \ {w} : pc'[v] = pc[v]
      BY <1>0, <3>3 DEF NumberTypes
    <3> QED
      BY <1>1, <3>1, <3>2, <3>4
  <2> QED
    BY <2>1, <2>2, <2>3
<1>4. ASSUME MainStep PROVE \E v \in Workers : pc'[v] = "completing"
  <2>1. \A v \in Workers : pc'[v] = pc[v]
    BY <1>4, MainFrame DEF MainAlone
  <2>2. ~MarkZero
    BY <1>0, MarkZeroMoves DEF MarkedZero
  <2>3. completed' = completed /\ current' = current
    <3>1. ASSUME NEW label \in MainLabels, QuietMain(label)
          PROVE  completed' = completed /\ current' = current
      BY <3>1, Zenon DEF QuietMain, queueVars
    <3>2. ASSUME Submit PROVE completed' = completed /\ current' = current
      BY <3>2, Zenon DEF Submit, PushStandard, queueVars
    <3> QED
      BY <1>0, <1>4, <2>2, <3>1, <3>2, MainCases, MainStays DEF SameQueues
  <2> QED
    BY <1>1, <2>1, <2>3
<1>5. ASSUME StillStep PROVE \E v \in Workers : pc'[v] = "completing"
  <2>1. completed' = completed /\ current' = current /\ pc' = pc
    BY <1>5, Zenon DEF StillStep, coreVars
  <2> QED
    BY <1>1, <2>1
<1> QED
  BY <1>2, <1>3, <1>4, <1>5, NextCases, WorkerCases

-----------------------------------------------------------------------------
(* wait() ends a run in which nothing is left to do.                       *)

\* Workers that neither hold a task nor are about to complete one.
RestingLabels == FreeLabels \cup {"count", "ran"}

\* Every task is complete, and nobody holds one.
Drained ==
    /\ task[Main] = Tasks + 1 /\ current = Tasks + 1 /\ completed = {}
    /\ queue = <<>> /\ buffered = {}
    /\ \A w \in Workers : pc[w] \in RestingLabels \/ (pc[w] = "catch" /\ threw[w] # "task")

AllEnd == \A w \in Workers : pc[w] = "end"

\* There are at most as many tasks in the queues as there are tasks.
LEMMA QueueBound ==
  ASSUME TypeInv, OrderInv
  PROVE  Len(queue) + Cardinality(buffered) <= Tasks
<1> DEFINE f == [i \in 1 .. Len(queue) |-> queue[i]]
<1> DEFINE rest == TaskIds \ buffered
<1>0. Tasks \in Nat \ {0} /\ Len(queue) \in Nat /\ NumberTypes
  BY NumberTyped, PoolAssumption DEF TypeInv
<1>1. IsFiniteSet(TaskIds) /\ Cardinality(TaskIds) = Tasks
  BY <1>0, FS_Interval DEF TaskIds
<1>2. buffered \subseteq TaskIds /\ TaskIds \cap buffered = buffered
  BY DEF TypeInv
<1>3. IsFiniteSet(rest) /\ Cardinality(rest) = Tasks - Cardinality(buffered)
  BY <1>1, <1>2, FS_Difference
<1>4. \A i \in 1 .. Len(queue) : queue[i] \in TaskIds /\ queue[i] \notin buffered
  <2>1. \A i \in 1 .. Len(queue) : queue[i] \in TaskIds /\ queue[i] \in Int
    <3>1. queue \in Seq(TaskIds)
      BY DEF TypeInv
    <3> QED
      BY <1>0, <3>1 DEF NumberTypes
  <2>2. \A n \in buffered : \A i \in 1 .. Len(queue) : n < queue[i]
    BY DEF OrderInv, BufferInv, Passed
  <2>3. \A i \in 1 .. Len(queue) : ~(queue[i] < queue[i])
    BY <2>1
  <2> QED
    BY <2>1, <2>2, <2>3
<1>5. f \in Injection(1 .. Len(queue), rest)
  <2>1. f \in [1 .. Len(queue) -> rest]
    BY <1>4
  <2>2. \A i, j \in 1 .. Len(queue) : queue[i] = queue[j] => i = j
    <3>1. \A i, j \in 1 .. Len(queue) : i < j => queue[i] < queue[j]
      BY DEF OrderInv, StandardInv
    <3>2. \A i \in 1 .. Len(queue) : queue[i] \in Int
      BY <1>0 DEF NumberTypes
    <3> QED
      BY <1>0, <3>1, <3>2
  <2> QED
    BY <2>1, <2>2 DEF Injection, IsInjective
<1> HIDE DEF f, rest
<1>6. Cardinality(1 .. Len(queue)) <= Cardinality(rest)
  BY <1>3, <1>5, FS_Injection
<1>7. Cardinality(1 .. Len(queue)) = Len(queue)
  BY <1>0, FS_Interval
<1> QED
  BY <1>0, <1>3, <1>6, <1>7, FiniteTyped DEF FiniteSets

\* Workers that submitted a task and did not count it yet are busy with their own.
LEMMA UncountedBusy ==
  ASSUME TypeInv, pc[Main] # "count"
  PROVE  /\ Uncounted \subseteq Busy /\ Cardinality(Uncounted) <= Cardinality(Busy)
         /\ Cardinality(Busy) <= Cardinality(Workers)
         /\ Cardinality(Uncounted) = Cardinality(Busy) => Uncounted = Busy
<1>1. Uncounted \subseteq Busy
  BY Numbers DEF Uncounted, Busy, NumberSets
<1>2. IsFiniteSet(Busy) /\ IsFiniteSet(Workers) /\ Busy \subseteq Workers
  BY CountedTyped, PoolAssumption DEF CountedSets, Busy
<1> QED
  BY <1>1, <1>2, FS_Subset

\* After the last task was counted, run_cnt_ is zero only when nothing is left to do.
LEMMA WaitDrains ==
  ASSUME CountInv, PlaceInv, TurnInv, Calm, pc[Main] = "wait", task[Main] = Tasks + 1,
         runCount = 0
  PROVE  Drained
<1>0. TypeInv /\ OrderInv /\ NumberTypes /\ CountedSets /\ Tasks \in Nat \ {0}
  BY NumberTyped, CountedTyped, PoolAssumption DEF CountInv
<1>1. Load % Modulus = 0
  <2>1. valid
    BY Zenon DEF CountInv, ValidInv
  <2> QED
    BY <2>1 DEF CountInv, RunCountExact, Load
<1>2. /\ Uncounted \subseteq Busy /\ Cardinality(Uncounted) <= Cardinality(Busy)
      /\ Cardinality(Busy) <= Cardinality(Workers)
      /\ Cardinality(Uncounted) = Cardinality(Busy) => Uncounted = Busy
  BY <1>0, UncountedBusy
<1>3. Load = 0
  <2>1. Modulus \in Nat /\ Modulus > Tasks + Cardinality(Workers)
    BY PoolAssumption
  <2>2. Cardinality(Workers) \in Nat
    BY <1>0, FiniteTyped DEF FiniteSets
  <2>3. Load >= 0 /\ Load < Modulus /\ Load \in Int /\ Modulus \in Nat \ {0}
    BY <1>0, <1>2, <2>1, <2>2, QueueBound DEF Load, CountedSets
  <2>4. (Modulus * 0 + Load) % Modulus = Load
    BY <2>3, ModIs
  <2> QED
    BY <1>1, <2>3, <2>4
<1>4. Len(queue) = 0 /\ Cardinality(buffered) = 0 /\ Cardinality(Uncounted) = Cardinality(Busy)
  BY <1>0, <1>2, <1>3 DEF Load, CountedSets
<1>5. queue = <<>> /\ buffered = {} /\ Uncounted = Busy
  <2>1. queue = <<>>
    <3>1. queue \in Seq(TaskIds)
      BY <1>0 DEF TypeInv
    <3> QED
      BY <1>4, <3>1
  <2>2. buffered = {}
    BY <1>0, <1>4, FS_EmptySet DEF CountedSets
  <2> QED
    BY <1>2, <1>4, <2>1, <2>2
<1>6. \A w \in Workers : Covered(pc[w], threw[w]) => pc[w] = "count"
  BY <1>0, <1>5 DEF CountedSets, Uncounted
<1>7. \A w \in Workers : pc[w] \in RestingLabels \/ (pc[w] = "catch" /\ threw[w] # "task")
  <2>1. \A w \in Workers : pc[w] \in WorkerLabels
    BY <1>0 DEF TypeInv
  <2> QED
    BY <1>6, <2>1
       DEF Covered, WorkerLabels, RestingLabels, HoldingLabels, AfterLabels, FreeLabels
<1>8. Holding = {} /\ ~Failing /\ current \notin completed
  BY <1>6 DEF Covered, Holding, Failing, TurnInv, HoldingLabels, AfterLabels
<1>9. LastPushed = Tasks /\ current <= Tasks + 1 /\ current \in Int
  BY <1>0 DEF LastPushed, OrderInv, StandardInv, NumberTypes
<1>10. \A n \in current .. Tasks : n \in completed
  BY <1>4, <1>5, <1>8, <1>9 DEF PlaceInv, Placed, Queued, Held
<1>11. current = Tasks + 1
  BY <1>0, <1>8, <1>9, <1>10
<1>12. completed = {}
  <2>1. \A n \in completed : current <= n /\ n <= Tasks /\ n \in Int
    BY <1>0, <1>9 DEF OrderInv, BufferInv, Passed, NumberTypes
  <2> QED
    BY <1>0, <1>11, <2>1
<1> QED
  BY <1>5, <1>7, <1>11, <1>12 DEF Drained

\* Then nothing is left to do for ever.
LEMMA DrainedStays ==
  ASSUME TypeInv, OrderInv, Drained, [Next]_vars
  PROVE  Drained'
<1>0. NumberTypes /\ Tasks \in Nat \ {0} /\ Holding = {}
  BY NumberTyped, PoolAssumption
     DEF Drained, Holding, RestingLabels, HoldingLabels, FreeLabels
<1>1. ASSUME NEW w \in Workers, WorkerStep(w) PROVE Drained'
  <2>0. WorkerAlone(w)
    BY <1>1, WorkerFrame
  <2>1. /\ ~PopBuffered(w) /\ ~PopQueued(w) /\ ~TaskComplete(w) /\ ~TaskAdvance(w) /\ ~Resubmit(w)
    BY DEF Drained, RestingLabels, FreeLabels, PopBuffered, PopPriority, PriorityReady,
           StartsAtCurrent, PopQueued, PopStandard, StandardReady, TaskComplete, TaskAdvance,
           Resubmit
  <2>2. ASSUME NEW label \in RestingLabels, pc' = [pc EXCEPT ![w] = label], SameQueues
        PROVE  Drained'
    <3>1. pc'[w] = label /\ \A v \in Workers \ {w} : pc'[v] = pc[v] /\ threw'[v] = threw[v]
      BY <1>0, <2>0, <2>2 DEF NumberTypes, WorkerAlone
    <3> QED
      BY <2>0, <2>2, <3>1 DEF Drained, SameQueues, WorkerAlone
  <2>3. ASSUME NEW label \in WorkerLabels, QuietStep(w, label) PROVE Drained'
    <3>1. SameQueues /\ pc' = [pc EXCEPT ![w] = label]
      BY <2>3, OtherSteps DEF QuietStep
    <3>2. label \in RestingLabels
      BY <2>3 DEF QuietStep, Drained, RestingLabels, HoldingLabels, AfterLabels, FreeLabels
    <3> QED
      BY <2>2, <3>1, <3>2
  <2>4. CASE CountUp(w) \/ CountDown(w) \/ Catch(w)
    <3>1. SameQueues /\ \E label \in {"ran", "loop", "end"} : pc' = [pc EXCEPT ![w] = label]
      BY <1>0, <2>4, OtherSteps DEF NumberTypes
    <3> QED
      BY <2>2, <3>1 DEF RestingLabels, FreeLabels
  <2>5. CASE Throw(w)
    <3>1. SameQueues /\ pc' = [pc EXCEPT ![w] = "catch"]
      BY <2>5, OtherSteps
    <3>2. PICK stage \in Throws : /\ pc[w] = (IF stage = "task" THEN "run" ELSE stage)
                                  /\ threw' = [threw EXCEPT ![w] = stage]
      BY <2>5 DEF Throw
    <3>3. stage # "task"
      BY <3>2 DEF Drained, RestingLabels, FreeLabels
    <3>4. pc'[w] = "catch" /\ threw'[w] # "task"
      BY <1>0, <3>1, <3>2, <3>3 DEF NumberTypes, TypeInv
    <3> QED
      BY <2>0, <3>1, <3>4 DEF Drained, SameQueues, WorkerAlone
  <2> QED
    BY <1>1, <2>1, <2>3, <2>4, <2>5, WorkerCases DEF LoudStep
<1>2. ASSUME MainStep PROVE Drained'
  <2>0. MainAlone
    BY <1>2, MainFrame
  <2>1. pc[Main] \notin {"mark", "poll", "submit", "count", "check"}
    BY <1>0 DEF Drained, TypeInv, TaskIds
  <2>2. SameQueues /\ task' = task
    <3>1. ASSUME NEW label \in MainLabels, QuietMain(label) PROVE SameQueues /\ task' = task
      BY <1>0, <2>1, <3>1, MainQuiet DEF QuietMain
    <3>2. ~Submit /\ ~MarkZero
      BY <2>1 DEF Submit, MarkZero
    <3> QED
      BY <1>0, <1>2, <3>1, <3>2, MainStays, MainCases
  <2> QED
    BY <2>0, <2>2 DEF Drained, SameQueues, MainAlone
<1>3. ASSUME StillStep PROVE Drained'
  <2>1. SameQueues /\ pc' = pc /\ task' = task /\ threw' = threw
    BY <1>3, Zenon DEF StillStep, coreVars, SameQueues
  <2> QED
    BY <2>1 DEF Drained, SameQueues
<1> QED
  BY <1>1, <1>2, <1>3, NextCases

\* A worker that has ended does not start again.
LEMMA AllEndStays ==
  ASSUME TypeInv, OrderInv, AllEnd, [Next]_vars
  PROVE  AllEnd'
<1>1. ASSUME NEW w \in Workers, WorkerStep(w) PROVE AllEnd'
  BY <1>1, WorkerFrame DEF WorkerAlone, AllEnd
<1>2. ASSUME MainStep PROVE AllEnd'
  BY <1>2, MainFrame DEF MainAlone, AllEnd
<1>3. ASSUME StillStep PROVE AllEnd'
  BY <1>3 DEF StillStep, AllEnd
<1> QED
  BY <1>1, <1>2, <1>3, NextCases

\* Where the main thread stands: until it leaves the submission loop the pool is not
\* destroyed, and after wait() nothing is left to do, or the workers have ended.
PhaseInv ==
    /\ pc[Main] \in {"mark", "poll", "submit", "count", "check"} => ~done
    /\ pc[Main] = "join" => done
    /\ pc[Main] = "wait" => (done => AllEnd) /\ (done \/ task[Main] = Tasks + 1)
    /\ pc[Main] = "checkLast" => (Calm => Drained) /\ (done => AllEnd)

\* How it leaves: without an exception only if no task threw.
OutcomeInv ==
    /\ pc[Main] \in {"destroy", "join"} => outcome \in {"stopped", "exception", "returned"}
    /\ pc[Main] = "end" => outcome \in {"exception", "returned"}
    /\ pc[Main] \notin {"destroy", "join", "end"} => outcome = "none"
    /\ outcome = "returned" =>
         (Drained \/ AllEnd) /\ \A w \in Workers : threw[w] # "task"

\* An exception of a task is on its way until it is saved.
ThrewInv ==
    \A w \in Workers : threw[w] = "task" =>
        pc[w] = "catch" \/ (pc[w] = "end" /\ exception # NoWorker)

WaitInv == CountInv /\ PlaceInv /\ TurnInv /\ PhaseInv /\ OutcomeInv /\ ThrewInv

\* It holds at first.
LEMMA WaitInit == Init => WaitInv
<1> SUFFICES ASSUME Init PROVE WaitInv
  OBVIOUS
<1>1. /\ pc[Main] = "mark" /\ task[Main] = 0 /\ outcome = "none"
      /\ \A w \in Workers : threw[w] = "no"
  BY Numbers DEF Init, NumberSets
<1>2. ~done
  BY Zenon DEF Init
<1>3. current = 0 /\ completed = {}
  BY DEF Init, QueueInit
<1>4. CountInv
  BY TypeInit, OrderInit, CalmInit, RoomInit, RunCountInit DEF CountInv
<1>5. LastPushed = -1
  BY <1>1 DEF LastPushed
<1>6. PlaceInv /\ TurnInv
  BY <1>3, <1>5 DEF PlaceInv, TurnInv
<1> QED
  BY <1>1, <1>2, <1>4, <1>6 DEF WaitInv, PhaseInv, OutcomeInv, ThrewInv

\* Every step keeps the exceptions of tasks.
LEMMA ThrewNext ==
  ASSUME TypeInv, OrderInv, ThrewInv, [Next]_vars
  PROVE  ThrewInv'
<1>1. ASSUME NEW w \in Workers, WorkerStep(w) PROVE ThrewInv'
  <2>0. WorkerAlone(w) /\ NumberTypes
    BY <1>1, WorkerFrame, NumberTyped
  <2>1. exception # NoWorker => exception' # NoWorker
    BY <2>0, PoolAssumption DEF WorkerAlone, Catch
  <2>2. Catch(w) => pc'[w] = "end" /\ exception' # NoWorker
    BY <2>0, PoolAssumption DEF Catch, Goto, NumberTypes
  <2>3. Throw(w) => pc'[w] = "catch"
    BY <2>0 DEF Throw, Goto, NumberTypes
  <2>4. ASSUME NEW v \in Workers, threw'[v] = "task"
        PROVE  pc'[v] = "catch" \/ (pc'[v] = "end" /\ exception' # NoWorker)
    <3>1. CASE v # w
      BY <2>0, <2>1, <2>4, <3>1 DEF WorkerAlone, ThrewInv
    <3>2. CASE v = w
      BY <2>0, <2>2, <2>3, <2>4, <3>2 DEF WorkerAlone, ThrewInv
    <3> QED
      BY <3>1, <3>2
  <2> QED
    BY <2>4 DEF ThrewInv
<1>2. ASSUME MainStep PROVE ThrewInv'
  BY <1>2, MainFrame DEF MainAlone, ThrewInv
<1>3. ASSUME StillStep PROVE ThrewInv'
  <2>1. pc' = pc /\ threw' = threw /\ exception' = exception
    BY <1>3, Zenon DEF StillStep, coreVars
  <2> QED
    BY <2>1 DEF ThrewInv
<1> QED
  BY <1>1, <1>2, <1>3, NextCases

\* A step that is not the main thread's keeps where it stands and how it leaves.
LEMMA PhaseOthers ==
  ASSUME TypeInv, OrderInv, ValidInv, PhaseInv, OutcomeInv, [Next]_vars,
         (\E w \in Workers : WorkerStep(w)) \/ StillStep
  PROVE  PhaseInv' /\ OutcomeInv'
<1>1. pc'[Main] = pc[Main] /\ task'[Main] = task[Main] /\ outcome' = outcome /\ (done' <=> done)
  <2>1. ASSUME NEW w \in Workers, WorkerStep(w)
        PROVE  /\ pc'[Main] = pc[Main] /\ task'[Main] = task[Main] /\ outcome' = outcome
               /\ done' <=> done
    <3>1. WorkerAlone(w) /\ outcome' = outcome /\ done' = done
      BY <2>1, WorkerFrame
    <3> QED
      BY <3>1, Zenon DEF WorkerAlone
  <2>2. ASSUME StillStep
        PROVE  /\ pc'[Main] = pc[Main] /\ task'[Main] = task[Main] /\ outcome' = outcome
               /\ done' <=> done
    BY <2>2, Zenon DEF StillStep, coreVars
  <2> QED
    BY <2>1, <2>2
<1>2. (Drained => Drained') /\ (AllEnd => AllEnd') /\ (Calm' => Calm)
  BY DrainedStays, AllEndStays, CalmNext DEF CalmMoves
<1>3. PhaseInv'
  BY <1>1, <1>2 DEF PhaseInv
<1>4. ASSUME Drained \/ AllEnd, \A w \in Workers : threw[w] # "task"
      PROVE  \A w \in Workers : threw'[w] # "task"
  <2>1. ASSUME NEW w \in Workers, WorkerStep(w), Throw(w)
        PROVE  threw'[w] # "task"
    <3>1. PICK stage \in Throws : /\ pc[w] = (IF stage = "task" THEN "run" ELSE stage)
                                  /\ threw' = [threw EXCEPT ![w] = stage]
      BY <2>1 DEF Throw
    <3>2. pc[w] # "run"
      BY <1>4 DEF Drained, AllEnd, RestingLabels, FreeLabels
    <3> QED
      BY <3>1, <3>2 DEF TypeInv
  <2>2. ASSUME NEW w \in Workers, WorkerStep(w)
        PROVE  \A v \in Workers : threw'[v] # "task"
    <3>1. WorkerAlone(w)
      BY <2>2, WorkerFrame
    <3> QED
      BY <1>4, <2>1, <2>2, <3>1 DEF WorkerAlone
  <2>3. ASSUME StillStep PROVE \A v \in Workers : threw'[v] # "task"
    <3>1. threw' = threw
      BY <2>3, Zenon DEF StillStep, coreVars
    <3> QED
      BY <1>4, <3>1
  <2> QED
    BY <2>2, <2>3
<1>5. OutcomeInv'
  BY <1>1, <1>2, <1>4 DEF OutcomeInv
<1> QED
  BY <1>3, <1>5

\* The main thread goes to label and leaves with out.
MainGoes(label, out) == pc'[Main] = label /\ outcome' = out /\ (done' <=> done)

\* Where each of its steps leads.
LEMMA MainWays ==
  ASSUME NumberTypes, MainStep, ~Destroy
  PROVE  \/ /\ pc[Main] \in {"mark", "poll", "submit", "count"}
            /\ \E label \in {"poll", "submit", "count", "check"} : MainGoes(label, outcome)
         \/ pc[Main] = "poll" /\ MainGoes("destroy", "stopped")
         \/ pc[Main] = "check" /\ MainGoes("destroy", "exception")
         \/ pc[Main] = "check" /\ MainGoes("poll", outcome)
         \/ /\ pc[Main] = "check" /\ MainGoes("wait", outcome)
            /\ task[Main] = Tasks /\ task'[Main] = Tasks + 1
         \/ /\ pc[Main] = "wait" /\ MainGoes("wait", outcome) /\ task'[Main] = task[Main]
         \/ pc[Main] = "wait" /\ MainGoes("checkLast", outcome) /\ WaitOver
         \/ pc[Main] = "checkLast" /\ MainGoes("destroy", "exception")
         \/ pc[Main] = "checkLast" /\ exception = NoWorker /\ MainGoes("destroy", "returned")
         \/ pc[Main] = "join" /\ AllEnd /\ outcome = "stopped" /\ MainGoes("wait", "none")
         \/ pc[Main] = "join" /\ AllEnd /\ outcome # "stopped" /\ MainGoes("end", outcome)
<1> USE DEF Goto
<1>0. ASSUME NEW label, pc' = [pc EXCEPT ![Main] = label] PROVE pc'[Main] = label
  BY <1>0 DEF NumberTypes
<1>1. CASE MarkZero
  <2>1. /\ pc[Main] = "mark" /\ pc' = [pc EXCEPT ![Main] = "poll"]
        /\ outcome' = outcome /\ (done' <=> done)
    BY <1>1, Zenon DEF MarkZero, poolVars
  <2> QED
    BY <1>0, <2>1 DEF MainGoes
<1>2. CASE KeepSubmitting
  <2>1. /\ pc[Main] = "poll" /\ pc' = [pc EXCEPT ![Main] = "submit"]
        /\ outcome' = outcome /\ (done' <=> done)
    BY <1>2, Zenon DEF KeepSubmitting, poolVars
  <2> QED
    BY <1>0, <2>1 DEF MainGoes
<1>3. CASE StopEarly
  <2>1. /\ pc[Main] = "poll" /\ pc' = [pc EXCEPT ![Main] = "destroy"]
        /\ outcome' = "stopped" /\ (done' <=> done)
    BY <1>3, Zenon DEF StopEarly
  <2> QED
    BY <1>0, <2>1 DEF MainGoes
<1>4. CASE Submit
  <2>1. /\ pc[Main] = "submit" /\ pc' = [pc EXCEPT ![Main] = "count"]
        /\ outcome' = outcome /\ (done' <=> done)
    BY <1>4, Zenon DEF Submit, poolVars
  <2> QED
    BY <1>0, <2>1 DEF MainGoes
<1>5. CASE CountUp(Main)
  <2>1. /\ pc[Main] = "count" /\ pc' = [pc EXCEPT ![Main] = "check"]
        /\ outcome' = outcome /\ (done' <=> done)
    BY <1>5, Zenon DEF CountUp, poolVars
  <2> QED
    BY <1>0, <2>1 DEF MainGoes
<1>6. CASE CheckAfterSubmit
  <2>1. /\ pc[Main] = "check" /\ task' = [task EXCEPT ![Main] = @ + 1] /\ (done' <=> done)
        /\ \/ outcome' = "exception" /\ pc' = [pc EXCEPT ![Main] = "destroy"]
           \/ /\ outcome' = outcome
              /\ pc' = [pc EXCEPT ![Main] = IF task[Main] = Tasks THEN "wait" ELSE "poll"]
    BY <1>6, Zenon DEF CheckAfterSubmit, CheckException
  <2>2. task'[Main] = task[Main] + 1
    BY <2>1 DEF NumberTypes
  <2>3. CASE outcome' = "exception" /\ pc' = [pc EXCEPT ![Main] = "destroy"]
    BY <1>0, <2>1, <2>3 DEF MainGoes
  <2>4. CASE outcome' = outcome /\ task[Main] = Tasks /\ pc' = [pc EXCEPT ![Main] = "wait"]
    BY <1>0, <2>1, <2>2, <2>4 DEF MainGoes
  <2>5. CASE outcome' = outcome /\ task[Main] # Tasks /\ pc' = [pc EXCEPT ![Main] = "poll"]
    BY <1>0, <2>1, <2>5 DEF MainGoes
  <2> QED
    BY <2>1, <2>3, <2>4, <2>5
<1>7. CASE Wait
  <2>1. /\ pc[Main] = "wait" /\ task' = task /\ outcome' = outcome /\ (done' <=> done)
        /\ \/ WaitOver /\ pc' = [pc EXCEPT ![Main] = "checkLast"]
           \/ pc' = pc
    BY <1>7, Zenon DEF Wait, poolVars
  <2>2. CASE WaitOver /\ pc' = [pc EXCEPT ![Main] = "checkLast"]
    BY <1>0, <2>1, <2>2 DEF MainGoes
  <2>3. CASE pc' = pc
    BY <2>1, <2>3 DEF MainGoes
  <2> QED
    BY <2>1, <2>2, <2>3
<1>8. CASE CheckAfterWait
  <2>1. /\ pc[Main] = "checkLast" /\ pc' = [pc EXCEPT ![Main] = "destroy"] /\ (done' <=> done)
        /\ \/ outcome' = "exception"
           \/ outcome' = "returned" /\ exception = NoWorker
    BY <1>8, Zenon DEF CheckAfterWait, CheckException
  <2> QED
    BY <1>0, <2>1 DEF MainGoes
<1>9. CASE Join
  <2>1. /\ pc[Main] = "join" /\ AllEnd /\ (done' <=> done)
        /\ \/ outcome = "stopped" /\ outcome' = "none" /\ pc' = [pc EXCEPT ![Main] = "wait"]
           \/ outcome # "stopped" /\ outcome' = outcome /\ pc' = [pc EXCEPT ![Main] = "end"]
    BY <1>9, Zenon DEF Join, AllEnd
  <2> QED
    BY <1>0, <2>1 DEF MainGoes
<1> QED
  BY <1>1, <1>2, <1>3, <1>4, <1>5, <1>6, <1>7, <1>8, <1>9 DEF MainStep

\* The main thread's steps keep where it stands and how it leaves.
LEMMA PhaseMain ==
  ASSUME WaitInv, [Next]_vars, MainStep
  PROVE  PhaseInv' /\ OutcomeInv'
<1>0. /\ TypeInv /\ OrderInv /\ ValidInv /\ CountInv /\ PlaceInv /\ TurnInv
      /\ PhaseInv /\ OutcomeInv /\ ThrewInv /\ NumberTypes
  BY NumberTyped DEF WaitInv, CountInv
<1>1. /\ threw' = threw /\ (Drained => Drained') /\ (AllEnd => AllEnd') /\ (Calm' => Calm)
  BY <1>0, MainFrame, DrainedStays, AllEndStays, CalmNext DEF MainAlone, CalmMoves
<1>2. pc[Main] \in {"wait", "checkLast"} => (done => AllEnd) /\ outcome = "none"
  BY <1>0 DEF PhaseInv, OutcomeInv
<1>3. CASE Destroy
  <2>1. pc[Main] = "destroy" /\ done' /\ outcome' = outcome /\ pc' = [pc EXCEPT ![Main] = "join"]
    BY <1>3, Zenon DEF Destroy, Goto
  <2>2. pc'[Main] = "join"
    BY <1>0, <2>1, MainGoing
  <2>3. PhaseInv'
    BY <2>1, <2>2 DEF PhaseInv
  <2>4. OutcomeInv'
    BY <1>0, <1>1, <2>1, <2>2 DEF OutcomeInv
  <2> QED
    BY <2>3, <2>4
<1>4. ASSUME pc[Main] \in {"mark", "poll", "submit", "count", "check"},
             NEW label \in {"poll", "submit", "count", "check"}, MainGoes(label, outcome)
      PROVE  PhaseInv' /\ OutcomeInv'
  <2>1. outcome = "none" /\ ~done
    BY <1>0, <1>4 DEF PhaseInv, OutcomeInv
  <2> QED
    BY <1>4, <2>1 DEF MainGoes, PhaseInv, OutcomeInv
<1>5. ASSUME MainGoes("destroy", "stopped") \/ MainGoes("destroy", "exception")
      PROVE  PhaseInv' /\ OutcomeInv'
  BY <1>5 DEF MainGoes, PhaseInv, OutcomeInv
<1>6. ASSUME pc[Main] = "check", MainGoes("wait", outcome), task'[Main] = Tasks + 1
      PROVE  PhaseInv' /\ OutcomeInv'
  <2>1. outcome = "none" /\ ~done
    BY <1>0, <1>6 DEF PhaseInv, OutcomeInv
  <2> QED
    BY <1>6, <2>1 DEF MainGoes, PhaseInv, OutcomeInv
<1>7. ASSUME pc[Main] = "wait", MainGoes("wait", outcome), task'[Main] = task[Main]
      PROVE  PhaseInv' /\ OutcomeInv'
  BY <1>0, <1>1, <1>2, <1>7 DEF MainGoes, PhaseInv, OutcomeInv
<1>8. ASSUME pc[Main] = "wait", MainGoes("checkLast", outcome), WaitOver
      PROVE  PhaseInv' /\ OutcomeInv'
  <2>1. Calm' => Drained'
    <3> SUFFICES ASSUME Calm' PROVE Drained'
      OBVIOUS
    <3>1. Calm /\ ~done /\ exception = NoWorker
      BY <1>1, Zenon DEF Calm
    <3>2. runCount = 0 /\ task[Main] = Tasks + 1
      BY <1>0, <1>8, <3>1 DEF WaitOver, PhaseInv
    <3> QED
      BY <1>0, <1>1, <1>8, <3>1, <3>2, WaitDrains
  <2>2. PhaseInv'
    BY <1>1, <1>2, <1>8, <2>1 DEF MainGoes, PhaseInv
  <2>3. OutcomeInv'
    BY <1>2, <1>8 DEF MainGoes, OutcomeInv
  <2> QED
    BY <2>2, <2>3
<1>9. ASSUME pc[Main] = "checkLast", exception = NoWorker, MainGoes("destroy", "returned")
      PROVE  PhaseInv' /\ OutcomeInv'
  <2>1. Drained \/ AllEnd
    <3>1. CASE done
      BY <1>2, <1>9, <3>1
    <3>2. CASE ~done
      BY <1>0, <1>9, <3>2 DEF PhaseInv, Calm
    <3> QED
      BY <3>1, <3>2
  <2>2. \A w \in Workers : threw[w] # "task"
    BY <1>0, <1>9, <2>1 DEF ThrewInv, Drained, AllEnd, RestingLabels, FreeLabels
  <2> QED
    BY <1>1, <1>9, <2>1, <2>2 DEF MainGoes, PhaseInv, OutcomeInv
<1>10. ASSUME pc[Main] = "join", AllEnd, MainGoes("wait", "none")
       PROVE  PhaseInv' /\ OutcomeInv'
  <2>1. done
    BY <1>0, <1>10 DEF PhaseInv
  <2> QED
    BY <1>1, <1>10, <2>1 DEF MainGoes, PhaseInv, OutcomeInv
<1>11. ASSUME pc[Main] = "join", outcome # "stopped", MainGoes("end", outcome)
       PROVE  PhaseInv' /\ OutcomeInv'
  <2>1. outcome \in {"exception", "returned"}
    BY <1>0, <1>11 DEF OutcomeInv
  <2> QED
    BY <1>0, <1>1, <1>11, <2>1 DEF MainGoes, PhaseInv, OutcomeInv
<1> QED
  BY <1>0, <1>3, <1>4, <1>5, <1>6, <1>7, <1>8, <1>9, <1>10, <1>11, MainWays

\* The invariant of wait(): on top of the count, no task is lost, and the main thread
\* knows that it does not wait for one.
THEOREM WaitInvariant == Spec => []WaitInv
<1>1. WaitInv /\ [Next]_vars => WaitInv'
  <2> SUFFICES ASSUME WaitInv, [Next]_vars PROVE WaitInv'
    OBVIOUS
  <2>1. /\ TypeInv /\ OrderInv /\ ValidInv /\ RoomInv /\ RunCountExact
        /\ PlaceInv /\ TurnInv /\ PhaseInv /\ OutcomeInv /\ ThrewInv
    BY DEF WaitInv, CountInv
  <2>2. CountInv'
    BY <2>1, TypeNext, OrderNext, CalmNext, RoomNext, RunCountNext DEF CountInv, CalmMoves
  <2>3. PlaceInv' /\ TurnInv' /\ ThrewInv'
    BY <2>1, PlaceNext, TurnNext, ThrewNext
  <2>4. PhaseInv' /\ OutcomeInv'
    BY <2>1, NextCases, PhaseOthers, PhaseMain
  <2> QED
    BY <2>2, <2>3, <2>4 DEF WaitInv
<1> QED
  BY <1>1, WaitInit, PTL DEF Spec

\* When wait() returns without an exception or a stop, every submitted task is complete
\* and marked, although run_cnt_ counts a task only after it was pushed.
THEOREM WaitReturnsDrainedHolds == Spec => []WaitReturnsDrained
<1>1. WaitInv => WaitReturnsDrained
  BY DEF WaitInv, PhaseInv, WaitReturnsDrained, Calm, Drained
<1> QED
  BY <1>1, WaitInvariant, PTL

\* When the event loop is over and a task threw, it ends with an exception: neither the
\* end of the submission loop nor wait() overlooks it.
THEOREM TaskExceptionsReachMainHolds == Spec => []TaskExceptionsReachMain
<1>1. WaitInv => TaskExceptionsReachMain
  BY DEF WaitInv, OutcomeInv, TaskExceptionsReachMain
<1> QED
  BY <1>1, WaitInvariant, PTL
=============================================================================

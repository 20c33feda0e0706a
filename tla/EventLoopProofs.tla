-------------------------- MODULE EventLoopProofs --------------------------
(***************************************************************************)
(* Proofs about EventLoop for any number of workers, events and modules,   *)
(* any set of sequential modules and any faults: typing, the order of the  *)
(* events in sequential modules, their numbers, the random numbers of each *)
(* event, and that the event loop implements EventOrder.                   *)
(***************************************************************************)
EXTENDS EventLoop, FiniteSetTheorems, SequenceTheorems, TLAPS

-----------------------------------------------------------------------------
(* TypeOK is not inductive: what the main thread submits has to be an      *)
(* event of the run, and so does what the queue and the workers hold.      *)

TypeInv ==
    /\ TypeOK
    /\ queue \in Seq(EventIds) /\ buffered \in SUBSET EventIds
    /\ pc[Main] = "mark" => event[Main] <= Skip
    /\ pc[Main] \in {"poll", "submit", "check"} => event[Main] \in EventIds
    /\ \A w \in Holding : event[w] \in EventIds

\* The typing invariant holds initially.
LEMMA TypeInit == Init => TypeInv
<1> SUFFICES ASSUME Init PROVE TypeInv
  OBVIOUS
<1> USE EventLoopAssumption, QueueAssumption
<1> USE DEF Init, QueueInit, EventIds, Last, Threads
<1>1. pc \in [Threads -> MainLabels \cup WorkerLabels]
  BY DEF MainLabels, WorkerLabels, HoldingLabels
<1>2. pc[Main] = "mark" /\ \A w \in Workers : pc[w] = "idle"
  OBVIOUS
<1>3. QueueTypeOK /\ queue \in Seq(EventIds) /\ buffered \in SUBSET EventIds
  BY DEF QueueTypeOK
<1>4. engine \in [Workers -> [seed : EventIds \cup {Nothing}, draws : Nat]]
  OBVIOUS
<1>5. /\ event \in [Threads -> 0 .. Last + 1]
      /\ position \in [EventIds -> Nat]
  OBVIOUS
<1>6. /\ saved \in [EventIds -> Nat \cup {Nothing}]
      /\ drawn \in [EventIds -> Nat]
  OBVIOUS
<1>7. TypeOK
  BY <1>1, <1>2, <1>3, <1>4, <1>5, <1>6 DEF TypeOK, MainLabels, WorkerLabels
<1> QED
  BY <1>2, <1>3, <1>7 DEF TypeInv, Holding, HoldingLabels

\* Settle moves current only over an identifier that is complete.
LEMMA SettleCases ==
  ASSUME NEW ids, Settle(ids)
  PROVE  \/ /\ current \in ids /\ \A n \in ids : current <= n
            /\ completed' = ids \ {current} /\ current' = current + 1
         \/ /\ current \notin ids \/ \E n \in ids : ~(current <= n)
            /\ completed' = ids /\ current' = current
BY Zenon DEF Settle, StartsAtCurrent

\* Settle keeps the types of completed and current.
LEMMA SettleTyped ==
  ASSUME NEW ids \in SUBSET Ids, current \in Nat, Settle(ids)
  PROVE  (completed \in SUBSET Ids)' /\ (current \in Nat)'
BY SettleCases

\* The operations of the queue keep its types.
QueueTyped ==
    /\ queue \in Seq(Ids) /\ queue \in Seq(EventIds)
    /\ buffered \in SUBSET Ids /\ buffered \in SUBSET EventIds
    /\ completed \in SUBSET Ids
    /\ current \in Nat

\* A step of the queue keeps its types.
LEMMA QueueStepTyped ==
  ASSUME QueueTypeOK, queue \in Seq(EventIds), buffered \in SUBSET EventIds,
         \/ PopPriority \/ PopStandard \/ Advance \/ Invalidate \/ UNCHANGED queueVars
         \/ \E n \in EventIds : PushStandard(n) \/ PushPriority(n) \/ Complete(n)
         \/ \E n \in 0 .. Skip : Complete(n)
  PROVE  QueueTypeOK' /\ (queue \in Seq(EventIds))' /\ (buffered \in SUBSET EventIds)'
<1> USE EventLoopAssumption DEF EventIds, Last
<1>a. QueueTyped
  BY DEF QueueTypeOK, QueueTyped
<1>b. valid \in BOOLEAN /\ EventIds \subseteq Ids
  BY DEF QueueTypeOK
<1>1. CASE PopPriority
  <2>1. QueueTyped'
    BY <1>a, <1>1 DEF PopPriority, QueueTyped
  <2> QED
    BY <2>1, <1>1, <1>b, Zenon DEF PopPriority, QueueTyped, QueueTypeOK
<1>2. CASE PopStandard
  <2>1. queue # <<>>
    BY <1>2 DEF PopStandard, StandardReady
  <2>2. QueueTyped'
    BY <1>a, <1>2, <2>1 DEF PopStandard, QueueTyped
  <2> QED
    BY <2>2, <1>2, <1>b, Zenon DEF PopStandard, QueueTyped, QueueTypeOK
<1>3. CASE Advance
  <2>1. Settle(completed)
    BY <1>3, Zenon DEF Advance
  <2>2. (completed \in SUBSET Ids)' /\ (current \in Nat)'
    BY <1>a, <2>1, SettleTyped DEF QueueTyped
  <2>3. QueueTyped'
    BY <1>a, <2>2, <1>3, Zenon DEF Advance, QueueTyped
  <2> QED
    BY <2>3, <1>3, <1>b, Zenon DEF Advance, QueueTyped, QueueTypeOK
<1>4. CASE Invalidate
  <2>1. QueueTyped'
    BY <1>a, <1>4 DEF Invalidate, QueueTyped
  <2>2. (valid \in BOOLEAN)'
    BY <1>4 DEF Invalidate
  <2> QED
    BY <2>1, <2>2, Zenon DEF QueueTyped, QueueTypeOK
<1>5. CASE UNCHANGED queueVars
  BY <1>5 DEF queueVars, QueueTypeOK
<1>6. ASSUME NEW n \in EventIds, PushStandard(n)
      PROVE  QueueTypeOK' /\ (queue \in Seq(EventIds))' /\ (buffered \in SUBSET EventIds)'
  <2>1. QueueTyped'
    BY <1>a, <1>b, <1>6 DEF PushStandard, QueueTyped
  <2> QED
    BY <2>1, <1>6, <1>b, Zenon DEF PushStandard, QueueTyped, QueueTypeOK
<1>7. ASSUME NEW n \in EventIds, PushPriority(n)
      PROVE  QueueTypeOK' /\ (queue \in Seq(EventIds))' /\ (buffered \in SUBSET EventIds)'
  <2>1. QueueTyped'
    BY <1>a, <1>b, <1>7 DEF PushPriority, QueueTyped
  <2> QED
    BY <2>1, <1>7, <1>b, Zenon DEF PushPriority, QueueTyped, QueueTypeOK
<1>8. ASSUME NEW n \in Ids, Complete(n)
      PROVE  QueueTypeOK' /\ (queue \in Seq(EventIds))' /\ (buffered \in SUBSET EventIds)'
  <2>1. Settle(completed \cup {n})
    BY <1>8, Zenon DEF Complete
  <2>2. (completed \in SUBSET Ids)' /\ (current \in Nat)'
    BY <1>a, <2>1, SettleTyped DEF QueueTyped
  <2>3. QueueTyped'
    BY <1>a, <2>2, <1>8, Zenon DEF Complete, QueueTyped
  <2> QED
    BY <2>3, <1>8, <1>b, Zenon DEF Complete, QueueTyped, QueueTypeOK
<1>9. 0 .. Skip \subseteq Ids
  OBVIOUS
<1> QED
  BY <1>1, <1>2, <1>3, <1>4, <1>5, <1>6, <1>7, <1>8, <1>9, <1>b

-----------------------------------------------------------------------------
FlowTyped ==
    /\ pc \in [Threads -> MainLabels \cup WorkerLabels]
    /\ pc[Main] \in MainLabels /\ \A w \in Workers : pc[w] \in WorkerLabels

DataTyped ==
    /\ event \in [Threads -> 0 .. Last + 1]
    /\ position \in [EventIds -> Nat]
    /\ engine \in [Workers -> [seed : EventIds \cup {Nothing}, draws : Nat]]
    /\ saved \in [EventIds -> Nat \cup {Nothing}]
    /\ drawn \in [EventIds -> Nat]
    /\ eventsFinished \in Nat /\ eventsAborted \in Nat

FlagsTyped ==
    /\ stopRequested \in BOOLEAN /\ interrupted \in BOOLEAN
    /\ exception \in BOOLEAN /\ done \in BOOLEAN
    /\ outcome \in {"none", "stopped", "interrupted", "completed", "exception"}

BoundTyped ==
    /\ pc[Main] = "mark" => event[Main] <= Skip
    /\ pc[Main] \in {"poll", "submit", "check"} => event[Main] \in EventIds
    /\ \A w \in Workers : pc[w] \in HoldingLabels => event[w] \in EventIds

\* The task at the front of the queue is an event of the run.
LEMMA HeadTyped ==
  ASSUME queue \in Seq(EventIds), queue # <<>>
  PROVE  Head(queue) \in EventIds
OBVIOUS

\* A worker's step keeps the types of all but the queue.
LEMMA TypeWorker ==
  ASSUME NEW w \in Workers, FlowTyped, DataTyped, BoundTyped,
         queue \in Seq(EventIds), buffered \in SUBSET EventIds, WorkerStep(w)
  PROVE  FlowTyped' /\ DataTyped' /\ BoundTyped'
<1> DEFINE Typed == FlowTyped' /\ DataTyped' /\ BoundTyped'
<1> USE EventLoopAssumption DEF Threads, EventIds, Last, Goto
<1>h. ASSUME pc[w] \in HoldingLabels
      PROVE  event[w] \in EventIds /\ position[event[w]] \in Nat
  BY <1>h DEF DataTyped, BoundTyped
<1>d. ASSUME pc[w] \in HoldingLabels, Draw(w)
      PROVE  /\ engine' \in [Workers -> [seed : EventIds \cup {Nothing}, draws : Nat]]
             /\ drawn' \in [EventIds -> Nat]
  <2>1. engine[w] \in [seed : EventIds \cup {Nothing}, draws : Nat]
    BY DEF DataTyped
  <2>2. engine' = [engine EXCEPT ![w] = [engine[w] EXCEPT !.draws = engine[w].draws + 1]]
    BY <1>d DEF Draw
  <2>3. drawn[event[w]] + 1 \in Nat
    BY <1>d, <1>h DEF DataTyped
  <2>r. [engine[w] EXCEPT !.draws = engine[w].draws + 1]
           \in [seed : EventIds \cup {Nothing}, draws : Nat]
    BY <2>1
  <2>4. engine' \in [Workers -> [seed : EventIds \cup {Nothing}, draws : Nat]]
    BY <2>r, <2>2, Zenon DEF DataTyped
  <2>5. drawn' \in [EventIds -> Nat]
    BY <2>3, <1>d, <1>h DEF DataTyped, Draw
  <2> QED
    BY <2>4, <2>5
<1>n. ASSUME pc[w] \in HoldingLabels, NextModule(w)
      PROVE  position' \in [EventIds -> Nat]
  BY <1>h, <1>n DEF DataTyped, NextModule
<1>s. ASSUME pc[w] \in HoldingLabels, StoreEngine(w)
      PROVE  saved' \in [EventIds -> Nat \cup {Nothing}]
  BY <1>h, <1>s DEF DataTyped, StoreEngine
<1>1. CASE Take(w)
  <2>1. PICK e \in EventIds : event' = [event EXCEPT ![w] = e]
    <3>1. CASE PopPriority /\ event' = [event EXCEPT ![w] = current]
      BY <3>1 DEF PopPriority, PriorityReady, StartsAtCurrent
    <3>2. CASE PopStandard /\ event' = [event EXCEPT ![w] = Head(queue)]
      BY <3>2, HeadTyped DEF PopStandard, StandardReady
    <3> QED
      BY <1>1, <3>1, <3>2 DEF Take
  <2>2. event' \in [Threads -> 0 .. Last + 1]
    BY <2>1 DEF DataTyped
  <2>3. DataTyped'
    BY <1>1, <2>2, Zenon DEF Take, DataTyped, countVars
  <2>4. FlowTyped'
    BY <1>1 DEF Take, FlowTyped, WorkerLabels, HoldingLabels
  <2>5. BoundTyped'
    BY <1>1, <2>1 DEF Take, FlowTyped, DataTyped, BoundTyped
  <2> QED
    BY <2>3, <2>4, <2>5
<1>2. CASE StartEvent(w)
  <2>1. pc[w] \in HoldingLabels
    BY <1>2 DEF StartEvent, HoldingLabels
  <2>2. position' \in [EventIds -> Nat]
    BY <1>2, <2>1, <1>h DEF StartEvent, DataTyped
  <2>3. engine' \in [Workers -> [seed : EventIds \cup {Nothing}, draws : Nat]]
    BY <1>2, <2>1, <1>h DEF StartEvent, DataTyped
  <2>4. DataTyped'
    BY <1>2, <2>2, <2>3, Zenon DEF StartEvent, DataTyped, countVars
  <2>5. FlowTyped'
    BY <1>2 DEF StartEvent, FlowTyped, WorkerLabels, HoldingLabels
  <2>6. BoundTyped'
    BY <1>2 DEF StartEvent, FlowTyped, DataTyped, BoundTyped, HoldingLabels
  <2> QED
    BY <2>4, <2>5, <2>6
<1>3. CASE ContinueEvent(w)
  <2>1. pc[w] \in HoldingLabels
    BY <1>3 DEF ContinueEvent, HoldingLabels
  <2>2. engine' \in [Workers -> [seed : EventIds \cup {Nothing}, draws : Nat]]
    BY <1>3, <2>1, <1>h DEF ContinueEvent, DataTyped
  <2>3. saved' \in [EventIds -> Nat \cup {Nothing}]
    BY <1>3, <2>1, <1>h DEF ContinueEvent, DataTyped
  <2>4. DataTyped'
    BY <1>3, <2>2, <2>3, Zenon DEF ContinueEvent, DataTyped, countVars
  <2>5. FlowTyped'
    BY <1>3 DEF ContinueEvent, FlowTyped, WorkerLabels, HoldingLabels
  <2>6. BoundTyped'
    BY <1>3, <2>1, <1>h DEF ContinueEvent, FlowTyped, DataTyped, BoundTyped, HoldingLabels
  <2> QED
    BY <2>4, <2>5, <2>6
<1>4. CASE EndWorker(w)
  <2>1. FlowTyped'
    BY <1>4 DEF EndWorker, FlowTyped, WorkerLabels, HoldingLabels
  <2>2. DataTyped'
    BY <1>4, Zenon DEF EndWorker, DataTyped, eventVars, countVars
  <2>3. BoundTyped'
    BY <1>4 DEF EndWorker, FlowTyped, DataTyped, BoundTyped, eventVars, HoldingLabels
  <2> QED
    BY <2>1, <2>2, <2>3
<1>5. CASE SkipModule(w)
  <2>1. pc[w] \in HoldingLabels
    BY <1>5 DEF SkipModule, HoldingLabels
  <2>2. position' \in [EventIds -> Nat]
    BY <1>5, <2>1, <1>n DEF SkipModule, Module
  <2>3. DataTyped'
    BY <1>5, <2>2, Zenon DEF SkipModule, DataTyped, countVars
  <2>4. FlowTyped'
    BY <1>5 DEF SkipModule, FlowTyped, WorkerLabels, HoldingLabels
  <2>5. BoundTyped'
    BY <1>5, <2>1, <1>h DEF SkipModule, FlowTyped, DataTyped, BoundTyped, HoldingLabels, NextModule
  <2> QED
    BY <2>3, <2>4, <2>5
<1>6. CASE Postpone(w)
  <2>1. pc[w] \in HoldingLabels
    BY <1>6 DEF Postpone, HoldingLabels
  <2>2. saved' \in [EventIds -> Nat \cup {Nothing}]
    BY <1>6, <2>1, <1>s DEF Postpone
  <2>3. DataTyped'
    BY <1>6, <2>2, Zenon DEF Postpone, DataTyped, countVars
  <2>4. FlowTyped'
    BY <1>6 DEF Postpone, FlowTyped, WorkerLabels, HoldingLabels
  <2>5. BoundTyped'
    BY <1>6, <2>1, <1>h DEF Postpone, FlowTyped, DataTyped, BoundTyped, HoldingLabels
  <2> QED
    BY <2>3, <2>4, <2>5
<1>7. CASE EnterModule(w)
  <2>1. FlowTyped'
    BY <1>7 DEF EnterModule, FlowTyped, WorkerLabels, HoldingLabels
  <2>2. DataTyped'
    BY <1>7, Zenon DEF EnterModule, DataTyped, eventVars, countVars
  <2>3. BoundTyped'
    BY <1>7, <1>h DEF EnterModule, Module, FlowTyped, DataTyped, BoundTyped, eventVars, HoldingLabels
  <2> QED
    BY <2>1, <2>2, <2>3
<1>8. CASE LeaveModule(w)
  <2>1. pc[w] \in HoldingLabels
    BY <1>8 DEF LeaveModule, HoldingLabels
  <2>2. engine' \in [Workers -> [seed : EventIds \cup {Nothing}, draws : Nat]] /\ drawn' \in [EventIds -> Nat]
    BY <1>8, <2>1, <1>d DEF LeaveModule
  <2>3. position' \in [EventIds -> Nat]
    BY <1>8, <2>1, <1>n DEF LeaveModule
  <2>4. DataTyped'
    BY <1>8, <2>2, <2>3, Zenon DEF LeaveModule, DataTyped, countVars
  <2>5. FlowTyped'
    BY <1>8 DEF LeaveModule, FlowTyped, WorkerLabels, HoldingLabels
  <2>6. BoundTyped'
    BY <1>8, <2>1, <1>h DEF LeaveModule, FlowTyped, DataTyped, BoundTyped, HoldingLabels, NextModule
  <2> QED
    BY <2>4, <2>5, <2>6
<1>9. CASE MissingDependencies(w)
  <2>1. pc[w] \in HoldingLabels
    BY <1>9 DEF MissingDependencies, HoldingLabels
  <2>2. saved' \in [EventIds -> Nat \cup {Nothing}]
    BY <1>9, <2>1, <1>s DEF MissingDependencies
  <2>3. DataTyped'
    BY <1>9, <2>2, Zenon DEF MissingDependencies, DataTyped, countVars
  <2>4. FlowTyped'
    BY <1>9 DEF MissingDependencies, FlowTyped, WorkerLabels, HoldingLabels
  <2>5. BoundTyped'
    BY <1>9, <2>1, <1>h DEF MissingDependencies, FlowTyped, DataTyped, BoundTyped, HoldingLabels
  <2> QED
    BY <2>3, <2>4, <2>5
<1>10. CASE Abort(w)
  <2>1. pc[w] \in HoldingLabels
    BY <1>10 DEF Abort, HoldingLabels
  <2>2. engine' \in [Workers -> [seed : EventIds \cup {Nothing}, draws : Nat]] /\ drawn' \in [EventIds -> Nat]
    BY <1>10, <2>1, <1>d DEF Abort
  <2>3. eventsAborted' \in Nat
    BY <1>10, <2>1 DEF Abort, DataTyped
  <2>4. DataTyped'
    BY <1>10, <2>2, <2>3, Zenon DEF Abort, DataTyped
  <2>5. FlowTyped'
    BY <1>10 DEF Abort, FlowTyped, WorkerLabels, HoldingLabels
  <2>6. BoundTyped'
    BY <1>10, <2>1, <1>h DEF Abort, FlowTyped, DataTyped, BoundTyped, HoldingLabels
  <2> QED
    BY <2>4, <2>5, <2>6
<1>11. CASE EndOfRun(w)
  <2>1. pc[w] \in HoldingLabels
    BY <1>11 DEF EndOfRun, HoldingLabels
  <2>2. engine' \in [Workers -> [seed : EventIds \cup {Nothing}, draws : Nat]] /\ drawn' \in [EventIds -> Nat]
    BY <1>11, <2>1, <1>d DEF EndOfRun
  <2>3. position' \in [EventIds -> Nat]
    BY <1>11, <2>1, <1>n DEF EndOfRun
  <2>4. DataTyped'
    BY <1>11, <2>2, <2>3, Zenon DEF EndOfRun, DataTyped, countVars
  <2>5. FlowTyped'
    BY <1>11 DEF EndOfRun, FlowTyped, WorkerLabels, HoldingLabels
  <2>6. BoundTyped'
    BY <1>11, <2>1, <1>h DEF EndOfRun, FlowTyped, DataTyped, BoundTyped, HoldingLabels, NextModule
  <2> QED
    BY <2>4, <2>5, <2>6
<1>12. CASE Fail(w)
  <2>1. FlowTyped'
    BY <1>12 DEF Fail, FlowTyped, WorkerLabels, HoldingLabels
  <2>2. DataTyped'
    BY <1>12, Zenon DEF Fail, DataTyped, eventVars, countVars
  <2>3. BoundTyped'
    BY <1>12 DEF Fail, FlowTyped, DataTyped, BoundTyped, eventVars, HoldingLabels
  <2> QED
    BY <2>1, <2>2, <2>3
<1>13. CASE Catch(w)
  <2>1. FlowTyped'
    BY <1>13 DEF Catch, FlowTyped, WorkerLabels, HoldingLabels
  <2>2. DataTyped'
    BY <1>13, Zenon DEF Catch, DataTyped, eventVars, countVars
  <2>3. BoundTyped'
    BY <1>13 DEF Catch, FlowTyped, DataTyped, BoundTyped, eventVars, HoldingLabels
  <2> QED
    BY <2>1, <2>2, <2>3
<1>14. CASE Requeue(w)
  <2>1. FlowTyped'
    BY <1>14 DEF Requeue, FlowTyped, WorkerLabels, HoldingLabels
  <2>2. DataTyped'
    BY <1>14, Zenon DEF Requeue, DataTyped, eventVars, countVars
  <2>3. BoundTyped'
    BY <1>14 DEF Requeue, FlowTyped, DataTyped, BoundTyped, eventVars, HoldingLabels
  <2> QED
    BY <2>1, <2>2, <2>3
<1>15. CASE AllModulesRun(w)
  <2>1. FlowTyped'
    BY <1>15 DEF AllModulesRun, FlowTyped, WorkerLabels, HoldingLabels
  <2>2. DataTyped'
    BY <1>15, Zenon DEF AllModulesRun, DataTyped, eventVars, countVars
  <2>3. BoundTyped'
    BY <1>15 DEF AllModulesRun, FlowTyped, DataTyped, BoundTyped, eventVars, HoldingLabels
  <2> QED
    BY <2>1, <2>2, <2>3
<1>16. CASE MarkComplete(w)
  <2>1. FlowTyped'
    BY <1>16 DEF MarkComplete, FlowTyped, WorkerLabels, HoldingLabels
  <2>2. DataTyped'
    BY <1>16, Zenon DEF MarkComplete, DataTyped, eventVars, countVars
  <2>3. BoundTyped'
    BY <1>16 DEF MarkComplete, FlowTyped, DataTyped, BoundTyped, eventVars, HoldingLabels
  <2> QED
    BY <2>1, <2>2, <2>3
<1>17. CASE MarkNext(w)
  <2>1. FlowTyped'
    BY <1>17 DEF MarkNext, FlowTyped, WorkerLabels, HoldingLabels
  <2>2. DataTyped'
    BY <1>17, Zenon DEF MarkNext, DataTyped, eventVars, countVars
  <2>3. BoundTyped'
    BY <1>17 DEF MarkNext, FlowTyped, DataTyped, BoundTyped, eventVars, HoldingLabels
  <2> QED
    BY <2>1, <2>2, <2>3
<1>18. CASE FinishEvent(w)
  <2>1. FlowTyped'
    BY <1>18 DEF FinishEvent, FlowTyped, WorkerLabels, HoldingLabels
  <2>2. DataTyped'
    BY <1>18 DEF FinishEvent, DataTyped, eventVars
  <2>3. BoundTyped'
    BY <1>18 DEF FinishEvent, FlowTyped, DataTyped, BoundTyped, eventVars, HoldingLabels
  <2> QED
    BY <2>1, <2>2, <2>3
<1> QED
  BY <1>1, <1>2, <1>3, <1>4, <1>5, <1>6, <1>7, <1>8, <1>9, <1>10, <1>11, <1>12, <1>13, <1>14, <1>15, <1>16, <1>17, <1>18
     DEF WorkerStep

\* A step of the main thread keeps the types of all but the queue.
LEMMA TypeMain ==
  ASSUME FlowTyped, DataTyped, BoundTyped, MainStep
  PROVE  FlowTyped' /\ DataTyped' /\ BoundTyped'
<1> USE EventLoopAssumption DEF Threads, EventIds, Last, Goto
<1>1. CASE MarkSkipped
  <2>1. event[Main] \in 0 .. Last
    BY <1>1 DEF MarkSkipped, DataTyped, BoundTyped
  <2>2. event' = [event EXCEPT ![Main] = event[Main] + 1]
    BY <1>1 DEF MarkSkipped
  <2>3. event' \in [Threads -> 0 .. Last + 1]
    BY <2>1, <2>2 DEF DataTyped
  <2>4. FlowTyped'
    BY <1>1 DEF MarkSkipped, FlowTyped, MainLabels
  <2>5. DataTyped'
    BY <1>1, <2>3, Zenon DEF MarkSkipped, DataTyped, countVars
  <2>6. BoundTyped'
    BY <1>1, <2>1, <2>2 DEF MarkSkipped, FlowTyped, DataTyped, BoundTyped
  <2> QED
    BY <2>4, <2>5, <2>6
<1>2. CASE KeepSubmitting
  <2>1. FlowTyped'
    BY <1>2 DEF KeepSubmitting, FlowTyped, MainLabels
  <2>2. DataTyped'
    BY <1>2, Zenon DEF KeepSubmitting, DataTyped, eventVars, countVars
  <2>3. BoundTyped'
    BY <1>2 DEF KeepSubmitting, FlowTyped, DataTyped, BoundTyped, eventVars
  <2> QED
    BY <2>1, <2>2, <2>3
<1>3. CASE StopSubmitting
  <2>1. FlowTyped'
    BY <1>3 DEF StopSubmitting, FlowTyped, MainLabels
  <2>2. DataTyped'
    BY <1>3, Zenon DEF StopSubmitting, DataTyped, eventVars, countVars
  <2>3. BoundTyped'
    BY <1>3 DEF StopSubmitting, FlowTyped, DataTyped, BoundTyped, eventVars
  <2> QED
    BY <2>1, <2>2, <2>3
<1>4. CASE Submit
  <2>1. FlowTyped'
    BY <1>4 DEF Submit, FlowTyped, MainLabels
  <2>2. DataTyped'
    BY <1>4, Zenon DEF Submit, DataTyped, eventVars, countVars
  <2>3. BoundTyped'
    BY <1>4 DEF Submit, FlowTyped, DataTyped, BoundTyped, eventVars
  <2> QED
    BY <2>1, <2>2, <2>3
<1>5. CASE CheckAfterSubmit
  <2>1. event[Main] \in 0 .. Last
    BY <1>5 DEF CheckAfterSubmit, DataTyped, BoundTyped
  <2>2. event' = [event EXCEPT ![Main] = event[Main] + 1]
    BY <1>5 DEF CheckAfterSubmit
  <2>3. event' \in [Threads -> 0 .. Last + 1]
    BY <2>1, <2>2 DEF DataTyped
  <2>4. FlowTyped'
    BY <1>5 DEF CheckAfterSubmit, CheckException, FlowTyped, MainLabels
  <2>5. DataTyped'
    BY <1>5, <2>3, Zenon DEF CheckAfterSubmit, DataTyped, countVars
  <2>6. BoundTyped'
    <3>1. event'[Main] = event[Main] + 1 /\ event[Main] \in EventIds
      BY <1>5, <2>2 DEF CheckAfterSubmit, DataTyped, BoundTyped
    <3>2. pc'[Main] \in {"destroy", "wait"} \/ (pc'[Main] = "poll" /\ event[Main] # Last)
      BY <1>5 DEF CheckAfterSubmit, CheckException, FlowTyped
    <3>3. \A w \in Workers : pc'[w] = pc[w] /\ event'[w] = event[w]
      BY <1>5, <2>2 DEF CheckAfterSubmit, CheckException, FlowTyped, DataTyped
    <3> QED
      BY <3>1, <3>2, <3>3 DEF BoundTyped
  <2> QED
    BY <2>4, <2>5, <2>6
<1>6. CASE Wait
  <2>1. FlowTyped'
    BY <1>6 DEF Wait, FlowTyped, MainLabels
  <2>2. DataTyped'
    BY <1>6, Zenon DEF Wait, DataTyped, eventVars, countVars
  <2>3. BoundTyped'
    BY <1>6 DEF Wait, FlowTyped, DataTyped, BoundTyped, eventVars
  <2> QED
    BY <2>1, <2>2, <2>3
<1>7. CASE CheckAfterWait
  <2>1. FlowTyped'
    BY <1>7 DEF CheckAfterWait, CheckException, FlowTyped, MainLabels
  <2>2. DataTyped'
    BY <1>7, Zenon DEF CheckAfterWait, DataTyped, eventVars, countVars
  <2>3. BoundTyped'
    BY <1>7 DEF CheckAfterWait, CheckException, FlowTyped, DataTyped, BoundTyped, eventVars
  <2> QED
    BY <2>1, <2>2, <2>3
<1>8. CASE ResetPool
  <2>1. FlowTyped'
    BY <1>8 DEF ResetPool, FlowTyped, MainLabels
  <2>2. DataTyped'
    BY <1>8, Zenon DEF ResetPool, DataTyped, eventVars, countVars
  <2>3. BoundTyped'
    BY <1>8 DEF ResetPool, FlowTyped, DataTyped, BoundTyped, eventVars
  <2> QED
    BY <2>1, <2>2, <2>3
<1>9. CASE Destroy
  <2>1. FlowTyped'
    BY <1>9 DEF Destroy, FlowTyped, MainLabels
  <2>2. DataTyped'
    BY <1>9, Zenon DEF Destroy, DataTyped, eventVars, countVars
  <2>3. BoundTyped'
    BY <1>9 DEF Destroy, FlowTyped, DataTyped, BoundTyped, eventVars
  <2> QED
    BY <2>1, <2>2, <2>3
<1>10. CASE Join
  <2>1. FlowTyped'
    BY <1>10 DEF Join, FlowTyped, MainLabels
  <2>2. DataTyped'
    BY <1>10, Zenon DEF Join, DataTyped, eventVars, countVars
  <2>3. BoundTyped'
    BY <1>10 DEF Join, FlowTyped, DataTyped, BoundTyped, eventVars
  <2> QED
    BY <2>1, <2>2, <2>3
<1> QED
  BY <1>1, <1>2, <1>3, <1>4, <1>5, <1>6, <1>7, <1>8, <1>9, <1>10 DEF MainStep

\* What a step does to the queue.
QueueStep ==
    \/ PopPriority \/ PopStandard \/ Advance \/ Invalidate \/ UNCHANGED queueVars
    \/ \E n \in EventIds : PushStandard(n) \/ PushPriority(n) \/ Complete(n)
    \/ \E n \in 0 .. Skip : Complete(n)

\* Every step of the event loop is one operation of the queue, or none.
LEMMA NextQueueStep ==
  ASSUME TypeInv, [Next]_vars
  PROVE  QueueStep
<1>1. ASSUME NEW w \in Workers, WorkerStep(w)
      PROVE  QueueStep
  <2>1. ASSUME pc[w] \in HoldingLabels
        PROVE  event[w] \in EventIds
    BY <2>1 DEF TypeInv, Holding
  <2>2. CASE Take(w)
    BY <2>2, Zenon DEF Take, QueueStep
  <2>3. CASE Requeue(w)
    BY <2>1, <2>3 DEF Requeue, HoldingLabels, QueueStep
  <2>4. CASE MarkComplete(w)
    BY <2>1, <2>4 DEF MarkComplete, HoldingLabels, QueueStep
  <2>5. CASE Catch(w) \/ MarkNext(w)
    BY <2>5, Zenon DEF Catch, MarkNext, QueueStep
  <2>6. CASE UNCHANGED queueVars
    BY <2>6, Zenon DEF QueueStep
  <2> QED
    BY <1>1, <2>2, <2>3, <2>4, <2>5, <2>6, Zenon
       DEF WorkerStep, StartEvent, ContinueEvent, EndWorker, SkipModule, Postpone,
           EnterModule, LeaveModule, MissingDependencies, Abort, EndOfRun, Fail,
           AllModulesRun, FinishEvent
<1>2. ASSUME MainStep
      PROVE  QueueStep
  <2>1. CASE MarkSkipped
    <3>1. event[Main] \in 0 .. Skip
      BY <2>1, EventLoopAssumption DEF MarkSkipped, TypeInv, TypeOK, Threads
    <3> QED
      BY <2>1, <3>1, Zenon DEF MarkSkipped, QueueStep
  <2>2. CASE Submit
    BY <2>2 DEF Submit, TypeInv, QueueStep
  <2>3. CASE Destroy
    BY <2>3, Zenon DEF Destroy, QueueStep
  <2>4. CASE UNCHANGED queueVars
    BY <2>4, Zenon DEF QueueStep
  <2> QED
    BY <1>2, <2>1, <2>2, <2>3, <2>4, Zenon
       DEF MainStep, KeepSubmitting, StopSubmitting, CheckAfterSubmit, Wait,
           CheckAfterWait, ResetPool, Join
<1>3. CASE Interrupt \/ UNCHANGED vars
  BY <1>3, Zenon DEF Interrupt, vars, queueVars, QueueStep
<1> QED
  BY <1>1, <1>2, <1>3, Zenon DEF Next

\* What a step does to the flags.
LEMMA FlagsStep ==
  ASSUME FlagsTyped, [Next]_vars
  PROVE  FlagsTyped'
<1> USE DEF FlagsTyped
<1>1. ASSUME NEW w \in Workers, WorkerStep(w)
      PROVE  FlagsTyped'
  BY <1>1, Zenon
     DEF WorkerStep, stopVars, poolVars, Take, StartEvent, ContinueEvent, EndWorker,
         SkipModule, Postpone, EnterModule, LeaveModule, MissingDependencies, Abort,
         EndOfRun, Fail, Catch, Requeue, AllModulesRun, MarkComplete, MarkNext,
         FinishEvent
<1>2. ASSUME MainStep
      PROVE  FlagsTyped'
  BY <1>2
     DEF MainStep, stopVars, poolVars, MarkSkipped, KeepSubmitting, StopSubmitting,
         Submit, CheckException, CheckAfterSubmit, Wait, CheckAfterWait, ResetPool,
         Destroy, Join
<1>3. CASE Interrupt \/ UNCHANGED vars
  BY <1>3, Zenon DEF Interrupt, vars, poolVars
<1> QED
  BY <1>1, <1>2, <1>3, Zenon DEF Next

\* The typing invariant, taken apart by the provers that handle each part.
LEMMA TypeParts ==
  TypeInv <=> /\ QueueTypeOK /\ queue \in Seq(EventIds) /\ buffered \in SUBSET EventIds
              /\ FlowTyped /\ DataTyped /\ FlagsTyped /\ BoundTyped
BY Zenon DEF TypeInv, TypeOK, FlowTyped, DataTyped, FlagsTyped, BoundTyped, Holding

\* Every step keeps the typing invariant.
LEMMA TypeNext == TypeInv /\ [Next]_vars => TypeInv'
<1> SUFFICES ASSUME TypeInv, [Next]_vars PROVE TypeInv'
  OBVIOUS
<1>1. QueueTypeOK' /\ (queue \in Seq(EventIds))' /\ (buffered \in SUBSET EventIds)'
  <2>1. QueueStep
    BY NextQueueStep
  <2>2. QueueTypeOK /\ queue \in Seq(EventIds) /\ buffered \in SUBSET EventIds
    BY DEF TypeInv, TypeOK
  <2> QED
    BY <2>1, <2>2, QueueStepTyped DEF QueueStep
<1>2. FlagsTyped'
  BY TypeParts, FlagsStep
<1>3. FlowTyped' /\ DataTyped' /\ BoundTyped'
  <2>1. FlowTyped /\ DataTyped /\ BoundTyped
    BY TypeParts
  <2>2. queue \in Seq(EventIds) /\ buffered \in SUBSET EventIds
    BY DEF TypeInv
  <2>3. CASE \E w \in Workers : WorkerStep(w)
    BY <2>1, <2>2, <2>3, TypeWorker
  <2>4. CASE MainStep
    BY <2>1, <2>4, TypeMain
  <2>5. CASE Interrupt \/ UNCHANGED vars
    BY <2>1, <2>5, Zenon
       DEF Interrupt, vars, eventVars, countVars, FlowTyped, DataTyped, BoundTyped
  <2> QED
    BY <2>3, <2>4, <2>5 DEF Next
<1> QED
  BY <1>1, <1>2, <1>3, Zenon
     DEF TypeInv, TypeOK, FlowTyped, DataTyped, FlagsTyped, BoundTyped, Holding

\* The typing invariant holds in every state of the event loop.
THEOREM TypeInvariant == Spec => []TypeInv
BY TypeInit, TypeNext, PTL DEF Spec

\* Every variable of the event loop keeps its type, and every event that a worker
\* holds or a queue contains is one of the events of the run (ModuleManager::run).
THEOREM TypeCorrect == Spec => []TypeOK
<1>1. TypeInv => TypeOK
  BY DEF TypeInv
<1> QED
  BY <1>1, TypeInvariant, PTL

-----------------------------------------------------------------------------
(***************************************************************************)
(* Proofs about the order in which EventLoop takes events through modules  *)
(* that require a sequence, for any constants.                             *)
(***************************************************************************)

(* Order.  Every event that was submitted and is not complete has one      *)
(* place, and the standard queue holds the youngest of them in order.      *)

LastSubmitted == IF pc[Main] = "check" THEN event[Main] ELSE event[Main] - 1

\* An event that has left the standard queue.
Passed(n) ==
    current <= n /\ n <= LastSubmitted /\ \A i \in 1 .. Len(queue) : n < queue[i]

OrderInv ==
    /\ pc[Main] = "mark" =>
         /\ event[Main] = current /\ completed = {} /\ queue = <<>> /\ buffered = {}
         /\ \A w \in Workers : pc[w] \notin HoldingLabels
    /\ current <= LastSubmitted + 1
    /\ \A i \in 1 .. Len(queue) : current <= queue[i] /\ queue[i] <= LastSubmitted
    /\ \A i, j \in 1 .. Len(queue) : i < j => queue[i] < queue[j]
    /\ \A n \in buffered : Passed(n) /\ n \notin completed
    /\ \A n \in completed : Passed(n)
    /\ \A w \in Holding :
         Passed(event[w]) /\ event[w] \notin buffered /\ event[w] \notin completed
    /\ \A v, w \in Holding : event[v] = event[w] => v = w

\* The types these proofs need.
NumberTypes ==
    /\ queue \in Seq(Int) /\ buffered \in SUBSET EventIds
    /\ completed \in SUBSET Ids /\ current \in Nat
    /\ event \in [Threads -> Int]
    /\ \A w \in Holding : event[w] \in EventIds
    /\ EventIds \in SUBSET Int /\ Ids \in SUBSET Int
    /\ \A n \in EventIds : n > Skip /\ n <= Last
    /\ pc \in [Threads -> MainLabels \cup WorkerLabels]
    /\ Main \in Threads /\ Main \notin Workers /\ \A w \in Workers : w \in Threads

\* The typing invariant gives the types of the numbers.
LEMMA NumberTyped == TypeInv => NumberTypes
<1> SUFFICES ASSUME TypeInv PROVE NumberTypes
  OBVIOUS
<1>1. EventIds \in SUBSET Int /\ Ids \in SUBSET Int
  BY EventLoopAssumption DEF EventIds, Last
<1>2. queue \in Seq(Int)
  BY <1>1, SeqMonotonic DEF TypeInv
<1> QED
  BY <1>1, <1>2, EventLoopAssumption
     DEF TypeInv, TypeOK, QueueTypeOK, NumberTypes, EventIds, Last, Threads

\* The order holds initially.
LEMMA OrderInit == Init => OrderInv
BY EventLoopAssumption
   DEF Init, QueueInit, OrderInv, Threads, Holding, HoldingLabels, LastSubmitted

\* The workers hold no more events than before.
KeepHolding ==
    \A w \in Workers : pc'[w] \in HoldingLabels =>
        pc[w] \in HoldingLabels /\ event'[w] = event[w]

\* Steps that leave the queue alone, or empty it.
LEMMA OrderStay ==
  ASSUME NumberTypes, OrderInv, KeepHolding, LastSubmitted' = LastSubmitted,
         pc'[Main] = "mark" => pc[Main] = "mark" /\ event'[Main] = event[Main],
         completed' = completed, current' = current,
         \/ queue' = queue /\ buffered' = buffered
         \/ queue' = <<>> /\ buffered' = {}
  PROVE  OrderInv'
<1>1. \A n \in Int : Passed(n) => Passed(n)'
  BY DEF Passed, NumberTypes
<1>2. \A w \in Holding' : w \in Holding /\ event'[w] = event[w]
  BY DEF KeepHolding, Holding
<1>3. (\A w \in Holding :
         Passed(event[w]) /\ event[w] \notin buffered /\ event[w] \notin completed)'
  BY <1>1, <1>2 DEF OrderInv, NumberTypes
<1>4. (/\ \A n \in buffered : Passed(n) /\ n \notin completed
       /\ \A n \in completed : Passed(n))'
  BY <1>1 DEF OrderInv, NumberTypes
<1>5. (/\ \A i \in 1 .. Len(queue) : current <= queue[i] /\ queue[i] <= LastSubmitted
       /\ \A i, j \in 1 .. Len(queue) : i < j => queue[i] < queue[j])'
  BY DEF OrderInv, NumberTypes
<1>6. (pc[Main] = "mark" =>
         /\ event[Main] = current /\ completed = {} /\ queue = <<>> /\ buffered = {}
         /\ \A w \in Workers : pc[w] \notin HoldingLabels)'
  BY DEF OrderInv, KeepHolding
<1>7. (current <= LastSubmitted + 1)' /\ (\A v, w \in Holding : event[v] = event[w] => v = w)'
  BY <1>2 DEF OrderInv
<1> QED
  BY <1>3, <1>4, <1>5, <1>6, <1>7, Zenon DEF OrderInv

\* A worker takes the buffered event that is next in line ...
LEMMA OrderTakeBuffered ==
  ASSUME NumberTypes, OrderInv, NEW w \in Workers, pc[w] = "idle",
         PopPriority, event' = [event EXCEPT ![w] = current],
         pc' = [pc EXCEPT ![w] = "taken"]
  PROVE  OrderInv'
<1>1. /\ current \in buffered /\ buffered' = buffered \ {current}
      /\ queue' = queue /\ completed' = completed /\ current' = current
  BY DEF PopPriority, PriorityReady, StartsAtCurrent
<1>2. /\ event'[w] = current
      /\ \A v \in Workers \ {w} : event'[v] = event[v] /\ pc'[v] = pc[v]
      /\ event'[Main] = event[Main] /\ pc'[Main] = pc[Main]
  BY DEF NumberTypes
<1>3. Holding' = Holding \cup {w} /\ w \notin Holding
  BY <1>2 DEF Holding, HoldingLabels, NumberTypes
<1>4. LastSubmitted' = LastSubmitted
  BY <1>2 DEF LastSubmitted
<1>5. \A n \in Int : Passed(n) => Passed(n)'
  BY <1>1, <1>4 DEF Passed
<1>6. Passed(current)' /\ current \notin completed
  BY <1>1, <1>5 DEF OrderInv, NumberTypes
<1>7. (/\ \A v \in Holding : Passed(event[v]) /\ event[v] \notin buffered /\ event[v] \notin completed
       /\ \A u, v \in Holding : event[u] = event[v] => u = v)'
  BY <1>1, <1>2, <1>3, <1>5, <1>6 DEF OrderInv, NumberTypes, Holding
<1>8. (/\ \A n \in buffered : Passed(n) /\ n \notin completed
       /\ \A n \in completed : Passed(n))'
  BY <1>1, <1>5 DEF OrderInv, NumberTypes
<1>9. (pc[Main] = "mark" =>
         /\ event[Main] = current /\ completed = {} /\ queue = <<>> /\ buffered = {}
         /\ \A v \in Workers : pc[v] \notin HoldingLabels)'
  BY <1>1, <1>2 DEF OrderInv
<1> QED
  BY <1>1, <1>4, <1>7, <1>8, <1>9 DEF OrderInv

\* ... or the oldest one of the standard queue.
LEMMA OrderTakeQueued ==
  ASSUME NumberTypes, OrderInv, NEW w \in Workers, pc[w] = "idle",
         PopStandard, event' = [event EXCEPT ![w] = Head(queue)],
         pc' = [pc EXCEPT ![w] = "taken"]
  PROVE  OrderInv'
<1>1. /\ queue # <<>> /\ queue' = Tail(queue)
      /\ buffered' = buffered /\ completed' = completed /\ current' = current
  BY DEF PopStandard, StandardReady
<1>2. /\ Len(queue) >= 1 /\ Len(queue') = Len(queue) - 1
      /\ \A i \in 1 .. Len(queue') : queue'[i] = queue[i + 1]
      /\ \A i \in 1 .. Len(queue) : queue[i] \in Int
  BY <1>1 DEF NumberTypes
<1>h. PICK h \in Int : h = queue[1] /\ h = Head(queue)
  BY <1>2
<1>3. /\ event'[w] = h
      /\ \A v \in Workers \ {w} : event'[v] = event[v] /\ pc'[v] = pc[v]
      /\ event'[Main] = event[Main] /\ pc'[Main] = pc[Main]
  BY <1>h DEF NumberTypes
<1>4. Holding' = Holding \cup {w} /\ w \notin Holding
  BY <1>3 DEF Holding, HoldingLabels, NumberTypes
<1>5. LastSubmitted' = LastSubmitted
  BY <1>3 DEF LastSubmitted
<1>6. \A n \in Int : Passed(n) => Passed(n)' /\ n # h
  BY <1>1, <1>2, <1>5, <1>h DEF Passed
<1>7. Passed(h)' /\ h \notin buffered /\ h \notin completed
  <2>1. \A i \in 1 .. Len(queue') : h < queue'[i]
    BY <1>2, <1>h DEF OrderInv
  <2>2. current <= h /\ h <= LastSubmitted
    BY <1>2, <1>h DEF OrderInv
  <2> QED
    BY <2>1, <2>2, <1>1, <1>2, <1>5, <1>h DEF Passed, OrderInv
<1>8. (/\ \A v \in Holding : Passed(event[v]) /\ event[v] \notin buffered /\ event[v] \notin completed
       /\ \A u, v \in Holding : event[u] = event[v] => u = v)'
  BY <1>1, <1>3, <1>4, <1>6, <1>7 DEF OrderInv, NumberTypes, Holding
<1>9. (/\ \A n \in buffered : Passed(n) /\ n \notin completed
       /\ \A n \in completed : Passed(n))'
  BY <1>1, <1>6 DEF OrderInv, NumberTypes
<1>10. (/\ \A i \in 1 .. Len(queue) : current <= queue[i] /\ queue[i] <= LastSubmitted
        /\ \A i, j \in 1 .. Len(queue) : i < j => queue[i] < queue[j])'
  BY <1>1, <1>2, <1>5 DEF OrderInv
<1>11. pc'[Main] # "mark"
  BY <1>1, <1>3 DEF OrderInv
<1> QED
  BY <1>1, <1>5, <1>8, <1>9, <1>10, <1>11 DEF OrderInv

\* The main thread submits an event that is younger than all before it.
LEMMA OrderSubmit ==
  ASSUME NumberTypes, OrderInv, pc[Main] = "submit", PushStandard(event[Main]),
         pc' = [pc EXCEPT ![Main] = "check"], event' = event
  PROVE  OrderInv'
<1>1. /\ queue' = Append(queue, event[Main])
      /\ buffered' = buffered /\ completed' = completed /\ current' = current
  BY DEF PushStandard
<1>2. /\ pc'[Main] = "check" /\ \A v \in Workers : pc'[v] = pc[v]
      /\ Holding' = Holding
  BY DEF NumberTypes, Holding
<1>3. LastSubmitted' = event[Main] /\ LastSubmitted = event[Main] - 1 /\ event[Main] \in Int
  BY <1>2 DEF LastSubmitted, NumberTypes
<1>4. /\ Len(queue') = Len(queue) + 1 /\ Len(queue) \in Nat
      /\ \A i \in 1 .. Len(queue) : queue'[i] = queue[i] /\ queue[i] \in Int
      /\ queue'[Len(queue) + 1] = event[Main]
  BY <1>1 DEF NumberTypes, Threads
<1>5. \A n \in Int : Passed(n) => Passed(n)'
  BY <1>1, <1>3, <1>4 DEF Passed
<1>6. (\A v \in Holding : Passed(event[v]) /\ event[v] \notin buffered /\ event[v] \notin completed)'
  BY <1>1, <1>2, <1>5 DEF OrderInv, NumberTypes
<1>7. (/\ \A n \in buffered : Passed(n) /\ n \notin completed
       /\ \A n \in completed : Passed(n))'
  BY <1>1, <1>5 DEF OrderInv, NumberTypes
<1>8. (/\ \A i \in 1 .. Len(queue) : current <= queue[i] /\ queue[i] <= LastSubmitted
       /\ \A i, j \in 1 .. Len(queue) : i < j => queue[i] < queue[j])'
  BY <1>1, <1>3, <1>4 DEF OrderInv, NumberTypes
<1>9. (\A u, v \in Holding : event[u] = event[v] => u = v)'
  BY <1>2 DEF OrderInv
<1> QED
  BY <1>1, <1>2, <1>3, <1>6, <1>7, <1>8, <1>9 DEF OrderInv, NumberTypes

\* A worker pushes its event back.
LEMMA OrderRequeue ==
  ASSUME NumberTypes, OrderInv, NEW w \in Workers, pc[w] = "requeue",
         PushPriority(event[w]), pc' = [pc EXCEPT ![w] = "idle"], event' = event
  PROVE  OrderInv'
<1>1. /\ queue' = queue /\ buffered' = buffered \cup {event[w]}
      /\ completed' = completed /\ current' = current
  BY DEF PushPriority
<1>2. /\ \A v \in Workers \ {w} : pc'[v] = pc[v]
      /\ pc'[Main] = pc[Main]
  BY DEF NumberTypes
<1>3. Holding' = Holding \ {w} /\ w \in Holding
  BY <1>2 DEF Holding, HoldingLabels, NumberTypes
<1>4. LastSubmitted' = LastSubmitted
  BY <1>2 DEF LastSubmitted
<1>5. \A n \in Int : Passed(n) => Passed(n)'
  BY <1>1, <1>4 DEF Passed
<1>6. event[w] \in Int /\ Passed(event[w]) /\ event[w] \notin completed
  BY <1>3 DEF OrderInv, NumberTypes
<1>7. (/\ \A n \in buffered : Passed(n) /\ n \notin completed
       /\ \A n \in completed : Passed(n))'
  BY <1>1, <1>5, <1>6 DEF OrderInv, NumberTypes
<1>8. (/\ \A v \in Holding : Passed(event[v]) /\ event[v] \notin buffered /\ event[v] \notin completed
       /\ \A u, v \in Holding : event[u] = event[v] => u = v)'
  BY <1>1, <1>3, <1>5 DEF OrderInv, NumberTypes
<1>9. pc'[Main] # "mark"
  BY <1>2, <1>3 DEF OrderInv, Holding
<1> QED
  BY <1>1, <1>4, <1>7, <1>8, <1>9 DEF OrderInv

\* A worker marks its event complete.
LEMMA OrderMark ==
  ASSUME NumberTypes, OrderInv, NEW w \in Workers, pc[w] = "finish",
         Complete(event[w]), pc' = [pc EXCEPT ![w] = "marked"], event' = event
  PROVE  OrderInv'
<1>1. queue' = queue /\ buffered' = buffered /\ Settle(completed \cup {event[w]})
  BY DEF Complete
<1>2. /\ \A v \in Workers \ {w} : pc'[v] = pc[v]
      /\ pc'[Main] = pc[Main]
  BY DEF NumberTypes
<1>3. Holding' = Holding \ {w} /\ w \in Holding
  BY <1>2 DEF Holding, HoldingLabels, NumberTypes
<1>4. LastSubmitted' = LastSubmitted
  BY <1>2 DEF LastSubmitted
<1>5. pc'[Main] # "mark"
  BY <1>2, <1>3 DEF OrderInv, Holding
<1>6. event[w] \in Int /\ Passed(event[w])
  BY <1>3 DEF OrderInv, NumberTypes
<1>7. /\ completed' \subseteq completed \cup {event[w]}
      /\ current' = current \/ (current' = current + 1 /\ current \notin completed'
                                /\ current \in completed \cup {event[w]})
  BY <1>1, SettleCases
<1>8. \A n \in Int : Passed(n) /\ n # current => Passed(n)'
  BY <1>1, <1>4, <1>7 DEF Passed, NumberTypes
<1>9. \A n \in completed' : n # current \/ current' = current
  BY <1>7
<1>10. \A n \in Int : Passed(n) /\ current' = current => Passed(n)'
  BY <1>1, <1>4 DEF Passed
<1>11. (\A n \in completed : Passed(n))'
  BY <1>6, <1>7, <1>8, <1>9, <1>10 DEF OrderInv, NumberTypes
<1>12. (\A n \in buffered : Passed(n) /\ n \notin completed)'
  <2>1. \A n \in buffered : n # event[w] /\ n \notin completed
    BY <1>3 DEF OrderInv
  <2> QED
    BY <2>1, <1>1, <1>7, <1>8, <1>10 DEF OrderInv, NumberTypes
<1>13. (/\ \A v \in Holding : Passed(event[v]) /\ event[v] \notin buffered /\ event[v] \notin completed
        /\ \A u, v \in Holding : event[u] = event[v] => u = v)'
  <2>1. \A v \in Holding' : event[v] # event[w] /\ event[v] \notin completed
    BY <1>3 DEF OrderInv
  <2> QED
    BY <2>1, <1>1, <1>3, <1>7, <1>8, <1>10 DEF OrderInv, NumberTypes
<1>14. (current <= LastSubmitted + 1)'
  <2>1. current \in Int /\ LastSubmitted \in Int /\ current <= LastSubmitted
    BY <1>6 DEF Passed, LastSubmitted, NumberTypes
  <2> QED
    BY <2>1, <1>4, <1>7
<1>15. (/\ \A i \in 1 .. Len(queue) : current <= queue[i] /\ queue[i] <= LastSubmitted
        /\ \A i, j \in 1 .. Len(queue) : i < j => queue[i] < queue[j])'
  <2>1. ASSUME current' = current + 1
        PROVE  \A i \in 1 .. Len(queue) : current < queue[i]
    BY <2>1, <1>6, <1>7 DEF OrderInv, Passed, NumberTypes
  <2>2. \A i \in 1 .. Len(queue) : current' <= queue[i]
    BY <2>1, <1>7 DEF OrderInv, NumberTypes
  <2> QED
    BY <2>2, <1>1, <1>4 DEF OrderInv
<1> QED
  BY <1>5, <1>11, <1>12, <1>13, <1>14, <1>15 DEF OrderInv

\* A worker advances over one more completed event.
LEMMA OrderAdvance ==
  ASSUME NumberTypes, OrderInv, Advance, pc' = pc, event' = event
  PROVE  OrderInv'
<1>1. /\ queue' = queue /\ buffered' = buffered
      /\ current \in completed /\ completed' = completed \ {current}
      /\ current' = current + 1
  BY SettleCases DEF Advance, StartsAtCurrent
<1>2. LastSubmitted' = LastSubmitted /\ Holding' = Holding
  BY DEF LastSubmitted, Holding
<1>3. \A n \in Int : Passed(n) /\ n # current => Passed(n)'
  BY <1>1, <1>2 DEF Passed, NumberTypes
<1>4. pc'[Main] # "mark"
  BY <1>1 DEF OrderInv
<1>5. (/\ \A n \in buffered : Passed(n) /\ n \notin completed
       /\ \A n \in completed : Passed(n))'
  BY <1>1, <1>3 DEF OrderInv, NumberTypes
<1>6. (/\ \A v \in Holding : Passed(event[v]) /\ event[v] \notin buffered /\ event[v] \notin completed
       /\ \A u, v \in Holding : event[u] = event[v] => u = v)'
  BY <1>1, <1>2, <1>3 DEF OrderInv, NumberTypes
<1>7. (current <= LastSubmitted + 1)'
  <2>1. current \in Int /\ LastSubmitted \in Int /\ current <= LastSubmitted
    BY <1>1 DEF OrderInv, Passed, LastSubmitted, NumberTypes
  <2> QED
    BY <2>1, <1>1, <1>2
<1>8. (/\ \A i \in 1 .. Len(queue) : current <= queue[i] /\ queue[i] <= LastSubmitted
       /\ \A i, j \in 1 .. Len(queue) : i < j => queue[i] < queue[j])'
  BY <1>1, <1>2 DEF OrderInv, Passed, NumberTypes
<1> QED
  BY <1>4, <1>5, <1>6, <1>7, <1>8 DEF OrderInv

\* The main thread marks an identifier before the first event.
LEMMA OrderMarkSkipped ==
  ASSUME NumberTypes, OrderInv, MarkSkipped
  PROVE  OrderInv'
<1>1. /\ event[Main] = current /\ completed = {} /\ queue = <<>> /\ buffered = {}
      /\ \A w \in Workers : pc[w] \notin HoldingLabels
  BY DEF OrderInv, MarkSkipped
<1>2. queue' = <<>> /\ buffered' = {} /\ Settle({current})
  BY <1>1 DEF MarkSkipped, Complete
<1>3. completed' = {} /\ current' = current + 1
  BY <1>2, SettleCases DEF NumberTypes
<1>4. /\ event'[Main] = event[Main] + 1 /\ pc'[Main] \in {"poll", "mark"}
      /\ \A w \in Workers : pc'[w] = pc[w]
  BY DEF MarkSkipped, Goto, NumberTypes
<1>5. Holding' = {}
  BY <1>1, <1>4 DEF Holding
<1>6. LastSubmitted' = current
  BY <1>1, <1>4 DEF LastSubmitted, NumberTypes
<1> QED
  BY <1>1, <1>2, <1>3, <1>4, <1>5, <1>6 DEF OrderInv, NumberTypes

\* A step of worker w that neither takes nor gives back an event.
LEMMA OrderQuietWorker ==
  ASSUME NumberTypes, OrderInv, NEW w \in Workers, NEW label,
         pc' = [pc EXCEPT ![w] = label], event' = event,
         label \in HoldingLabels => pc[w] \in HoldingLabels,
         UNCHANGED queueVars \/ Invalidate
  PROVE  OrderInv'
<1>1. /\ \A v \in Workers \ {w} : pc'[v] = pc[v]
      /\ pc'[w] = label /\ pc'[Main] = pc[Main]
  BY DEF NumberTypes
<1>2. KeepHolding /\ LastSubmitted' = LastSubmitted
  BY <1>1 DEF KeepHolding, LastSubmitted
<1>3. /\ completed' = completed /\ current' = current
      /\ \/ queue' = queue /\ buffered' = buffered
         \/ queue' = <<>> /\ buffered' = {}
  BY Zenon DEF queueVars, Invalidate
<1> QED
  BY <1>1, <1>2, <1>3, OrderStay, Zenon

\* A step of the main thread that submits nothing.
LEMMA OrderQuietMain ==
  ASSUME NumberTypes, OrderInv, NEW label, label \notin {"mark", "check"},
         pc' = [pc EXCEPT ![Main] = label],
         \/ pc[Main] # "check" /\ event' = event
         \/ pc[Main] = "check" /\ event' = [event EXCEPT ![Main] = @ + 1],
         UNCHANGED queueVars \/ Invalidate
  PROVE  OrderInv'
<1>1. /\ \A w \in Workers : pc'[w] = pc[w] /\ event'[w] = event[w]
      /\ pc'[Main] = label
  BY DEF NumberTypes
<1>2. LastSubmitted' = LastSubmitted
  BY <1>1 DEF LastSubmitted, NumberTypes
<1>3. KeepHolding
  BY <1>1 DEF KeepHolding
<1>4. /\ completed' = completed /\ current' = current
      /\ \/ queue' = queue /\ buffered' = buffered
         \/ queue' = <<>> /\ buffered' = {}
  BY Zenon DEF queueVars, Invalidate
<1> QED
  BY <1>1, <1>2, <1>3, <1>4, OrderStay

\* A submission that an invalid queue refuses.
LEMMA OrderRefused ==
  ASSUME NumberTypes, OrderInv, pc[Main] = "submit", UNCHANGED queueVars,
         pc' = [pc EXCEPT ![Main] = "check"], event' = event
  PROVE  OrderInv'
<1>1. /\ \A w \in Workers : pc'[w] = pc[w]
      /\ pc'[Main] = "check" /\ Holding' = Holding
  BY DEF NumberTypes, Holding
<1>2. /\ queue' = queue /\ buffered' = buffered
      /\ completed' = completed /\ current' = current
  BY DEF queueVars
<1>3. /\ LastSubmitted' = LastSubmitted + 1 /\ LastSubmitted \in Int
      /\ \A i \in 1 .. Len(queue) : queue[i] \in Int
  BY <1>1 DEF LastSubmitted, NumberTypes
<1>4. \A n \in Int : Passed(n) => Passed(n)'
  BY <1>2, <1>3 DEF Passed, NumberTypes
<1>5. (\A v \in Holding : Passed(event[v]) /\ event[v] \notin buffered /\ event[v] \notin completed)'
  BY <1>1, <1>2, <1>4 DEF OrderInv, NumberTypes
<1>6. (/\ \A n \in buffered : Passed(n) /\ n \notin completed
       /\ \A n \in completed : Passed(n))'
  BY <1>2, <1>4 DEF OrderInv, NumberTypes
<1>7. (/\ current <= LastSubmitted + 1
       /\ \A i \in 1 .. Len(queue) : current <= queue[i] /\ queue[i] <= LastSubmitted)'
  BY <1>2, <1>3 DEF OrderInv, NumberTypes
<1> QED
  BY <1>1, <1>2, <1>5, <1>6, <1>7 DEF OrderInv

\* A step of a worker keeps the order.
LEMMA OrderWorker ==
  ASSUME NumberTypes, OrderInv, NEW w \in Workers, WorkerStep(w)
  PROVE  OrderInv'
<1> USE DEF Goto
<1>1. CASE Take(w)
  BY <1>1, OrderTakeBuffered, OrderTakeQueued DEF Take
<1>2. CASE StartEvent(w)
  BY <1>2, OrderQuietWorker DEF StartEvent, HoldingLabels
<1>3. CASE ContinueEvent(w)
  BY <1>3, OrderQuietWorker DEF ContinueEvent, HoldingLabels
<1>4. CASE EndWorker(w)
  BY <1>4, OrderQuietWorker DEF EndWorker, eventVars, HoldingLabels
<1>5. CASE SkipModule(w)
  <2>1. pc' = [pc EXCEPT ![w] = pc[w]]
    BY <1>5 DEF SkipModule, NumberTypes
  <2> QED
    BY <1>5, <2>1, OrderQuietWorker DEF SkipModule
<1>6. CASE Postpone(w)
  BY <1>6, OrderQuietWorker DEF Postpone, HoldingLabels
<1>7. CASE EnterModule(w)
  BY <1>7, OrderQuietWorker DEF EnterModule, eventVars, HoldingLabels
<1>8. CASE LeaveModule(w)
  BY <1>8, OrderQuietWorker DEF LeaveModule, HoldingLabels
<1>9. CASE MissingDependencies(w)
  BY <1>9, OrderQuietWorker DEF MissingDependencies, HoldingLabels
<1>10. CASE Abort(w)
  BY <1>10, OrderQuietWorker DEF Abort, HoldingLabels
<1>11. CASE EndOfRun(w)
  BY <1>11, OrderQuietWorker DEF EndOfRun, HoldingLabels
<1>12. CASE Fail(w)
  BY <1>12, OrderQuietWorker DEF Fail, eventVars, HoldingLabels
<1>13. CASE Catch(w)
  BY <1>13, OrderQuietWorker DEF Catch, eventVars, HoldingLabels
<1>14. CASE Requeue(w)
  BY <1>14, OrderRequeue, OrderQuietWorker DEF Requeue, eventVars, HoldingLabels
<1>15. CASE AllModulesRun(w)
  BY <1>15, OrderQuietWorker DEF AllModulesRun, eventVars, HoldingLabels
<1>16. CASE MarkComplete(w)
  BY <1>16, OrderMark DEF MarkComplete, eventVars
<1>17. CASE MarkNext(w)
  BY <1>17, OrderAdvance DEF MarkNext, eventVars
<1>18. CASE FinishEvent(w)
  BY <1>18, OrderQuietWorker DEF FinishEvent, eventVars, HoldingLabels
<1> QED
  BY <1>1, <1>2, <1>3, <1>4, <1>5, <1>6, <1>7, <1>8, <1>9, <1>10, <1>11, <1>12,
     <1>13, <1>14, <1>15, <1>16, <1>17, <1>18 DEF WorkerStep

\* A step of the main thread keeps the order.
LEMMA OrderMain ==
  ASSUME NumberTypes, OrderInv, MainStep
  PROVE  OrderInv'
<1> USE DEF Goto
<1>1. CASE MarkSkipped
  BY <1>1, OrderMarkSkipped
<1>2. CASE KeepSubmitting
  BY <1>2, OrderQuietMain DEF KeepSubmitting, eventVars
<1>3. CASE StopSubmitting
  BY <1>3, OrderQuietMain DEF StopSubmitting, eventVars
<1>4. CASE Submit
  <2>1. CASE PushStandard(event[Main])
    BY <1>4, <2>1, OrderSubmit DEF Submit, eventVars
  <2>2. CASE UNCHANGED queueVars
    BY <1>4, <2>2, OrderRefused DEF Submit, eventVars
  <2> QED
    BY <1>4, <2>1, <2>2 DEF Submit
<1>5. CASE CheckAfterSubmit
  <2>1. PICK label : label \notin {"mark", "check"} /\ pc' = [pc EXCEPT ![Main] = label]
    BY <1>5 DEF CheckAfterSubmit, CheckException
  <2> QED
    BY <1>5, <2>1, OrderQuietMain DEF CheckAfterSubmit
<1>6. CASE Wait
  BY <1>6, OrderQuietMain DEF Wait, eventVars
<1>7. CASE CheckAfterWait
  <2>1. PICK label : label \notin {"mark", "check"} /\ pc' = [pc EXCEPT ![Main] = label]
    BY <1>7 DEF CheckAfterWait, CheckException
  <2> QED
    BY <1>7, <2>1, OrderQuietMain DEF CheckAfterWait, eventVars
<1>8. CASE ResetPool
  BY <1>8, OrderQuietMain DEF ResetPool, eventVars
<1>9. CASE Destroy
  BY <1>9, OrderQuietMain DEF Destroy, eventVars
<1>10. CASE Join
  BY <1>10, OrderQuietMain DEF Join, eventVars
<1> QED
  BY <1>1, <1>2, <1>3, <1>4, <1>5, <1>6, <1>7, <1>8, <1>9, <1>10 DEF MainStep

\* Every step keeps the order.
LEMMA OrderNext == TypeInv /\ OrderInv /\ [Next]_vars => OrderInv'
<1> SUFFICES ASSUME TypeInv, OrderInv, [Next]_vars PROVE OrderInv'
  OBVIOUS
<1>1. NumberTypes
  BY NumberTyped
<1>2. CASE Interrupt \/ UNCHANGED vars
  <2>1. /\ queue' = queue /\ buffered' = buffered /\ completed' = completed
        /\ current' = current /\ pc' = pc /\ event' = event
    BY <1>2, Zenon DEF Interrupt, vars, queueVars, eventVars
  <2>2. KeepHolding /\ LastSubmitted' = LastSubmitted
    BY <2>1 DEF KeepHolding, LastSubmitted
  <2> QED
    BY <1>1, <2>1, <2>2, OrderStay
<1> QED
  BY <1>1, <1>2, OrderWorker, OrderMain DEF Next

\* The order of the events holds in every state of the event loop.
THEOREM OrderInvariant == Spec => []OrderInv
BY OrderInit, OrderNext, TypeInvariant, PTL DEF Spec

-----------------------------------------------------------------------------
(* Sequence.  The event in a sequential module stays the one that is next  *)
(* in line: current only moves over complete events, and it is not one.    *)

SequenceInv == \A w \in Workers : InSequence(w) => event[w] = current

\* The step of one worker leaves the event of another one where it is, and does
\* not move current away from it.
LEMMA OtherWorker ==
  ASSUME NumberTypes, position \in [EventIds -> Nat], OrderInv,
         NEW v \in Workers, NEW w \in Holding, v # w, WorkerStep(v)
  PROVE  /\ pc'[w] = pc[w] /\ event'[w] = event[w]
         /\ position'[event[w]] = position[event[w]]
         /\ event[w] = current => current' = current
<1> USE DEF Goto
<1>1. w \in Workers /\ event[w] \in EventIds
  BY DEF Holding, NumberTypes
<1>2. ASSUME pc[v] \in HoldingLabels
      PROVE  event[v] \in EventIds /\ event[v] # event[w]
  BY <1>2 DEF OrderInv, NumberTypes, Holding
<1>3. pc'[w] = pc[w] /\ event'[w] = event[w]
  BY <1>1 DEF WorkerStep, NumberTypes, eventVars, Take, StartEvent, ContinueEvent,
       EndWorker, SkipModule, Postpone, EnterModule, LeaveModule, MissingDependencies,
       Abort, EndOfRun, Fail, Catch, Requeue, AllModulesRun, MarkComplete, MarkNext,
       FinishEvent
<1>4. position'[event[w]] = position[event[w]]
  <2>1. CASE \E n \in Nat : position' = [position EXCEPT ![event[v]] = n]
    <3>1. CASE pc[v] \in HoldingLabels
      BY <1>1, <1>2, <2>1, <3>1
    <3>2. CASE pc[v] \notin HoldingLabels
      BY <3>2 DEF WorkerStep, HoldingLabels, eventVars, Take, StartEvent, ContinueEvent,
         EndWorker, SkipModule, Postpone, EnterModule, LeaveModule,
         MissingDependencies, Abort, EndOfRun, Fail, Catch, Requeue, AllModulesRun,
         MarkComplete, MarkNext, FinishEvent
    <3> QED
      BY <3>1, <3>2
  <2>2. CASE position' = position
    BY <2>2
  <2>3. CASE StartEvent(v)
    BY <2>1, <2>3 DEF StartEvent
  <2>4. CASE SkipModule(v) \/ LeaveModule(v) \/ EndOfRun(v)
    <3>1. pc[v] \in HoldingLabels /\ NextModule(v)
      BY <2>4 DEF SkipModule, LeaveModule, EndOfRun, HoldingLabels
    <3> QED
      BY <3>1, <1>1, <1>2 DEF NextModule
  <2> QED
    BY <2>2, <2>3, <2>4, Zenon
       DEF WorkerStep, eventVars, Take, ContinueEvent, EndWorker, Postpone,
           EnterModule, MissingDependencies, Abort, Fail, Catch, Requeue,
           AllModulesRun, MarkComplete, MarkNext, FinishEvent
<1>5. ASSUME event[w] = current
      PROVE  current' = current
  <2>1. current \notin completed
    BY <1>5 DEF OrderInv
  <2>2. CASE MarkComplete(v)
    <3>1. Settle(completed \cup {event[v]}) /\ event[v] # current
      BY <1>2, <1>5, <2>2 DEF MarkComplete, Complete, HoldingLabels
    <3> QED
      BY <3>1, <2>1, SettleCases
  <2>3. ~MarkNext(v)
    BY <2>1 DEF MarkNext, Advance, StartsAtCurrent
  <2>4. CASE current' = current
    BY <2>4
  <2> QED
    BY <2>2, <2>3, <2>4, Zenon
       DEF WorkerStep, queueVars, Take, PopPriority, PopStandard, StartEvent,
           ContinueEvent, EndWorker, SkipModule, Postpone, EnterModule, LeaveModule,
           MissingDependencies, Abort, EndOfRun, Fail, Catch, Invalidate, Requeue,
           PushPriority, AllModulesRun, FinishEvent
<1> QED
  BY <1>3, <1>4, <1>5

\* A worker's own step puts it into a sequential module only at its turn.
LEMMA OwnStep ==
  ASSUME NumberTypes, NEW w \in Workers, WorkerStep(w), pc'[w] = "running",
         InSequence(w)'
  PROVE  event'[w] = current'
<1>1. EnterModule(w)
  BY DEF NumberTypes, Goto, WorkerStep, Take, StartEvent, ContinueEvent, EndWorker,
       SkipModule, Postpone, EnterModule, LeaveModule, MissingDependencies, Abort,
       EndOfRun, Fail, Catch, Requeue, AllModulesRun, MarkComplete, MarkNext,
       FinishEvent
<1>2. /\ Module(w) \in Sequential => event[w] = current
      /\ event' = event /\ position' = position /\ current' = current
  BY <1>1, Zenon DEF EnterModule, eventVars, queueVars
<1> QED
  BY <1>2 DEF InSequence, Module

\* Neither the main thread nor the signal thread moves an event or current while
\* a worker holds an event.
LEMMA MainKeepsEvents ==
  ASSUME NumberTypes, OrderInv, MainStep \/ Interrupt \/ UNCHANGED vars,
         NEW w \in Workers, pc'[w] \in HoldingLabels
  PROVE  /\ pc'[w] = pc[w] /\ event'[w] = event[w] /\ position' = position
         /\ current' = current
<1> USE DEF Goto, eventVars, queueVars
<1>1. pc'[w] = pc[w] /\ event'[w] = event[w]
  BY DEF NumberTypes, MainStep, MarkSkipped, KeepSubmitting, StopSubmitting, Submit,
       CheckException, CheckAfterSubmit, Wait, CheckAfterWait, ResetPool, Destroy,
       Join, Interrupt, vars
<1>2. ~MarkSkipped
  BY <1>1 DEF MarkSkipped, OrderInv
<1>3. position' = position /\ current' = current
  BY <1>2, Zenon
     DEF MainStep, KeepSubmitting, StopSubmitting, Submit, PushStandard,
         CheckAfterSubmit, Wait, CheckAfterWait, ResetPool, Destroy, Invalidate,
         Join, Interrupt, vars
<1> QED
  BY <1>1, <1>3

\* Every step keeps the event of a sequential module next in line.
LEMMA SequenceNext ==
  TypeInv /\ OrderInv /\ SequenceInv /\ [Next]_vars => SequenceInv'
<1> SUFFICES ASSUME TypeInv, OrderInv, SequenceInv, [Next]_vars,
                    NEW w \in Workers, InSequence(w)'
             PROVE  event'[w] = current'
  BY DEF SequenceInv
<1>1. NumberTypes /\ position \in [EventIds -> Nat]
  BY NumberTyped DEF TypeInv, TypeOK
<1>2. pc'[w] = "running"
  BY DEF InSequence
<1>3. ASSUME NEW v \in Workers, WorkerStep(v), v # w
      PROVE  event'[w] = current'
  <2>1. pc[w] = pc'[w]
    BY <1>1, <1>3
       DEF NumberTypes, Goto, WorkerStep, Take, StartEvent, ContinueEvent, EndWorker,
           SkipModule, Postpone, EnterModule, LeaveModule, MissingDependencies, Abort,
           EndOfRun, Fail, Catch, Requeue, AllModulesRun, MarkComplete, MarkNext,
           FinishEvent, eventVars
  <2>2. w \in Holding
    BY <1>2, <2>1 DEF Holding, HoldingLabels
  <2>3. /\ event'[w] = event[w]
        /\ position'[event[w]] = position[event[w]]
        /\ event[w] = current => current' = current
    BY <1>1, <1>3, <2>2, OtherWorker
  <2>4. InSequence(w)
    BY <1>2, <2>1, <2>3 DEF InSequence, Module
  <2> QED
    BY <2>3, <2>4 DEF SequenceInv
<1>4. CASE MainStep \/ Interrupt \/ UNCHANGED vars
  <2>1. /\ pc'[w] = pc[w] /\ event'[w] = event[w] /\ position' = position
        /\ current' = current
    BY <1>1, <1>2, <1>4, MainKeepsEvents DEF HoldingLabels
  <2>2. InSequence(w)
    BY <2>1 DEF InSequence, Module
  <2> QED
    BY <2>1, <2>2 DEF SequenceInv
<1> QED
  BY <1>1, <1>2, <1>3, <1>4, OwnStep DEF Next

\* The event in a sequential module is always the one that is next in line.
THEOREM SequenceInvariant == Spec => []SequenceInv
<1>1. Init => SequenceInv
  BY EventLoopAssumption DEF Init, SequenceInv, InSequence, Threads
<1> QED
  BY <1>1, SequenceNext, TypeInvariant, OrderInvariant, PTL DEF Spec

\* Two events are never in modules that require a sequence at the same time
\* (the check of currentUniqueIdentifier() in ModuleManager::run).
THEOREM SequentialExclusionHolds == Spec => []SequentialExclusion
<1>1. OrderInv /\ SequenceInv => SequentialExclusion
  BY DEF OrderInv, SequenceInv, SequentialExclusion, InSequence, Holding, HoldingLabels
<1> QED
  BY <1>1, OrderInvariant, SequenceInvariant, PTL

\* While an event is in a module that requires a sequence, every earlier event is
\* through all modules: none is queued, buffered or held by another worker.
THEOREM SequentialOrderHolds == Spec => []SequentialOrder
<1>1. ASSUME TypeInv, OrderInv, SequenceInv
      PROVE  SequentialOrder
  <2> SUFFICES ASSUME NEW w \in Workers, InSequence(w)
               PROVE  /\ \A i \in DOMAIN queue : queue[i] > event[w]
                      /\ \A e \in buffered : e > event[w]
                      /\ \A v \in Holding \ {w} : event[v] > event[w]
    BY DEF SequentialOrder
  <2>1. NumberTypes /\ w \in Holding /\ event[w] = current
    BY <1>1, NumberTyped DEF SequenceInv, InSequence, Holding, HoldingLabels
  <2>2. \A i \in DOMAIN queue : queue[i] > event[w]
    BY <1>1, <2>1 DEF OrderInv, Passed, NumberTypes
  <2>3. \A e \in buffered : e > event[w]
    BY <1>1, <2>1 DEF OrderInv, Passed, NumberTypes
  <2>4. ASSUME NEW v \in Holding \ {w}
        PROVE  event[v] > event[w]
    <3>1. event[v] # event[w] /\ current <= event[v]
      BY <1>1, <2>1 DEF OrderInv, Passed
    <3>2. event[v] \in Int /\ current \in Int
      BY <2>1 DEF NumberTypes
    <3> QED
      BY <3>1, <3>2, <2>1
  <2> QED
    BY <2>2, <2>3, <2>4
<1> QED
  BY <1>1, TypeInvariant, OrderInvariant, SequenceInvariant, PTL

-----------------------------------------------------------------------------
(***************************************************************************)
(* Proofs about the numbers of events in EventLoop, for any constants: the *)
(* priority queue has room for every event that is pushed back, finished   *)
(* events are counted once, and a run that is neither stopped nor failed   *)
(* has finished every event.                                               *)
(***************************************************************************)

\* pop() takes an event from the standard queue only while the priority queue has
\* room for one event of every worker; so the held events always fit.
RoomInv == valid => Cardinality(buffered) + Cardinality(Holding) <= MaxPriority

\* The buffered and the held events are finitely many.
LEMMA FiniteParts ==
  ASSUME TypeInv
  PROVE  /\ IsFiniteSet(buffered) /\ IsFiniteSet(Holding)
         /\ Cardinality(Holding) <= Cardinality(Workers)
         /\ Cardinality(buffered) \in Nat /\ Cardinality(Holding) \in Nat
         /\ Cardinality(Workers) \in Nat /\ MaxPriority \in Nat
<1>1. IsFiniteSet(EventIds)
  BY FS_Interval, EventLoopAssumption DEF EventIds, Last
<1>2. IsFiniteSet(buffered)
  BY <1>1, FS_Subset DEF TypeInv
<1>3. IsFiniteSet(Workers) /\ Holding \in SUBSET Workers
  BY EventLoopAssumption DEF Holding
<1>4. IsFiniteSet(Holding) /\ Cardinality(Holding) <= Cardinality(Workers)
  BY <1>3, FS_Subset
<1> QED
  BY <1>2, <1>3, <1>4, FS_CardinalityType, QueueAssumption

\* A step of worker w that takes no event.
LEMMA RoomQuiet ==
  ASSUME TypeInv, RoomInv, Holding' \subseteq Holding,
         UNCHANGED <<buffered, valid>> \/ Invalidate
  PROVE  RoomInv'
<1>1. CASE Invalidate
  BY <1>1, Zenon DEF Invalidate, RoomInv
<1>2. CASE UNCHANGED <<buffered, valid>>
  <2>1. Cardinality(Holding') <= Cardinality(Holding) /\ Cardinality(Holding') \in Nat
    BY FiniteParts, FS_Subset, FS_CardinalityType
  <2>2. ASSUME Cardinality(buffered) + Cardinality(Holding) <= MaxPriority
        PROVE  Cardinality(buffered) + Cardinality(Holding') <= MaxPriority
    BY <2>1, <2>2, FiniteParts
  <2> QED
    BY <1>2, <2>2, Zenon DEF RoomInv
<1> QED
  BY <1>1, <1>2

\* A buffered event that is taken changes its place only.
LEMMA RoomTakeBuffered ==
  ASSUME TypeInv, RoomInv, NEW w \in Workers, w \notin Holding,
         Holding' = Holding \cup {w}, PopPriority
  PROVE  RoomInv'
<1>1. current \in buffered /\ buffered' = buffered \ {current}
  BY Zenon DEF PopPriority, PriorityReady, StartsAtCurrent
<1>2. valid' = valid
  BY Zenon DEF PopPriority
<1>3. Cardinality(Holding') = Cardinality(Holding) + 1
  BY FiniteParts, FS_AddElement
<1>4. Cardinality(buffered') = Cardinality(buffered) - 1
  BY <1>1, FiniteParts, FS_RemoveElement
<1>5. Cardinality(buffered') + Cardinality(Holding')
        = Cardinality(buffered) + Cardinality(Holding)
  BY <1>3, <1>4, FiniteParts
<1> QED
  BY <1>2, <1>5, Zenon DEF RoomInv

\* A new event is taken when there is room for one of every worker.
LEMMA RoomTakeQueued ==
  ASSUME TypeInv, TypeInv', PopStandard
  PROVE  RoomInv'
<1>1. Cardinality(buffered) + Reserve <= MaxPriority /\ buffered' = buffered
  BY Zenon DEF PopStandard, StandardReady
<1>2. Cardinality(Holding') <= Cardinality(Workers) /\ Cardinality(Holding') \in Nat
  <2>1. IsFiniteSet(Workers) /\ Holding' \in SUBSET Workers
    BY EventLoopAssumption DEF Holding
  <2> QED
    BY <2>1, FS_Subset, FS_CardinalityType
<1>3. Cardinality(buffered') + Cardinality(Holding') <= MaxPriority
  BY <1>1, <1>2, FiniteParts, EventLoopAssumption
<1> QED
  BY <1>3, Zenon DEF RoomInv

\* An event that is pushed back changes its place only.
LEMMA RoomRequeue ==
  ASSUME TypeInv, RoomInv, NEW w \in Holding, event[w] \notin buffered,
         Holding' = Holding \ {w}, PushPriority(event[w])
  PROVE  RoomInv'
<1>1. buffered' = buffered \cup {event[w]}
  BY Zenon DEF PushPriority
<1>2. valid' = valid
  BY Zenon DEF PushPriority
<1>3. Cardinality(Holding') = Cardinality(Holding) - 1
  BY FiniteParts, FS_RemoveElement
<1>4. Cardinality(buffered') = Cardinality(buffered) + 1
  BY <1>1, FiniteParts, FS_AddElement
<1>5. Cardinality(buffered') + Cardinality(Holding')
        = Cardinality(buffered) + Cardinality(Holding)
  BY <1>3, <1>4, FiniteParts
<1> QED
  BY <1>2, <1>5, Zenon DEF RoomInv

\* The events workers hold after a step.
LEMMA HoldingStep ==
  ASSUME NumberTypes, NEW w \in Workers, WorkerStep(w)
  PROVE  /\ Take(w) => w \notin Holding /\ Holding' = Holding \cup {w}
         /\ Requeue(w) => w \in Holding /\ Holding' = Holding \ {w}
         /\ ~Take(w) => Holding' \subseteq Holding
<1> USE DEF NumberTypes, Holding, HoldingLabels, Goto
<1>1. \A v \in Workers \ {w} : pc'[v] = pc[v]
  BY DEF WorkerStep, Take, StartEvent, ContinueEvent, EndWorker, SkipModule, Postpone,
         EnterModule, LeaveModule, MissingDependencies, Abort, EndOfRun, Fail, Catch,
         Requeue, AllModulesRun, MarkComplete, MarkNext, FinishEvent
<1>2. CASE Take(w)
  <2>1. pc[w] = "idle" /\ pc'[w] = "taken"
    BY <1>2 DEF Take
  <2> QED
    BY <1>1, <1>2, <2>1 DEF Requeue
<1>3. CASE Requeue(w)
  <2>1. pc[w] = "requeue" /\ pc'[w] = "idle"
    BY <1>3 DEF Requeue
  <2> QED
    BY <1>1, <2>1 DEF Take
<1>4. ASSUME ~Take(w)
      PROVE  pc'[w] \in HoldingLabels => pc[w] \in HoldingLabels
  BY <1>4
     DEF WorkerStep, StartEvent, ContinueEvent, EndWorker, SkipModule, Postpone,
         EnterModule, LeaveModule, MissingDependencies, Abort, EndOfRun, Fail, Catch,
         Requeue, AllModulesRun, MarkComplete, MarkNext, FinishEvent
<1> QED
  BY <1>1, <1>2, <1>3, <1>4

\* Every step leaves room for the held events.
LEMMA RoomNext == TypeInv /\ OrderInv /\ RoomInv /\ [Next]_vars => RoomInv'
<1> SUFFICES ASSUME TypeInv, OrderInv, RoomInv, [Next]_vars PROVE RoomInv'
  OBVIOUS
<1>1. NumberTypes /\ TypeInv'
  BY NumberTyped, TypeNext
<1>2. ASSUME NEW w \in Workers, WorkerStep(w)
      PROVE  RoomInv'
  <2>1. CASE Take(w)
    BY <1>1, <1>2, <2>1, HoldingStep, RoomTakeBuffered, RoomTakeQueued, Zenon DEF Take
  <2>2. CASE Requeue(w)
    <3>1. w \in Holding /\ Holding' = Holding \ {w} /\ event[w] \notin buffered
      BY <1>1, <1>2, <2>2, HoldingStep DEF OrderInv
    <3>2. Holding' \subseteq Holding
      BY <3>1
    <3>3. PushPriority(event[w]) \/ UNCHANGED <<buffered, valid>>
      BY <2>2, Zenon DEF Requeue, queueVars
    <3> QED
      BY <3>1, <3>2, <3>3, RoomRequeue, RoomQuiet, Zenon
  <2>3. CASE ~Take(w) /\ ~Requeue(w)
    <3>1. Holding' \subseteq Holding
      BY <1>1, <1>2, <2>3, HoldingStep
    <3>2. UNCHANGED <<buffered, valid>> \/ Invalidate
      BY <1>2, <2>3, Zenon
         DEF WorkerStep, queueVars, StartEvent, ContinueEvent, EndWorker, SkipModule,
             Postpone, EnterModule, LeaveModule, MissingDependencies, Abort, EndOfRun,
             Fail, Catch, AllModulesRun, MarkComplete, Complete, MarkNext, Advance,
             FinishEvent
    <3> QED
      BY <3>1, <3>2, RoomQuiet, Zenon
  <2> QED
    BY <2>1, <2>2, <2>3
<1>3. CASE MainStep \/ Interrupt \/ UNCHANGED vars
  <2>1. Holding' \subseteq Holding
    <3>1. \A w \in Workers : pc'[w] \in HoldingLabels => pc'[w] = pc[w]
      BY <1>1, <1>3
         DEF NumberTypes, Goto, MainStep, MarkSkipped, KeepSubmitting, StopSubmitting,
             Submit, CheckException, CheckAfterSubmit, Wait, CheckAfterWait,
             ResetPool, Destroy, Join, Interrupt, vars
    <3> QED
      BY <3>1 DEF Holding
  <2>2. UNCHANGED <<buffered, valid>> \/ Invalidate
    BY <1>3, Zenon
       DEF MainStep, queueVars, MarkSkipped, Complete, KeepSubmitting, StopSubmitting,
           Submit, PushStandard, CheckAfterSubmit, Wait, CheckAfterWait, ResetPool,
           Destroy, Join, Interrupt, vars
  <2> QED
    BY <2>1, <2>2, RoomQuiet, Zenon
<1> QED
  BY <1>2, <1>3 DEF Next

\* The held and the buffered events always fit into the priority queue.
THEOREM RoomInvariant == Spec => []RoomInv
<1>1. Init => RoomInv
  <2> SUFFICES ASSUME Init PROVE RoomInv
    OBVIOUS
  <2>1. buffered = {} /\ Holding = {}
    BY EventLoopAssumption DEF Init, QueueInit, Holding, HoldingLabels, Threads
  <2>2. Cardinality(buffered) + Cardinality(Holding) <= MaxPriority
    BY <2>1, FS_EmptySet, QueueAssumption
  <2> QED
    BY <2>2, Zenon DEF RoomInv
<1> QED
  BY <1>1, RoomNext, TypeInvariant, OrderInvariant, PTL DEF Spec

\* A valid queue has room for an event that is pushed back: the assertion on the
\* future of submit() in ModuleManager::run never fails.
THEOREM BufferNeverFullHolds == Spec => []BufferNeverFull
<1>1. ASSUME TypeInv, RoomInv
      PROVE  BufferNeverFull
  <2> SUFFICES ASSUME NEW w \in Workers, pc[w] = "requeue", valid
               PROVE  Cardinality(buffered) < MaxPriority
    BY DEF BufferNeverFull
  <2>1. Cardinality(buffered) + Cardinality(Holding) <= MaxPriority
    BY <1>1, Zenon DEF RoomInv
  <2>2. Holding # {}
    BY DEF Holding, HoldingLabels
  <2>3. Cardinality(Holding) # 0
    BY <1>1, <2>2, FiniteParts, FS_EmptySet
  <2> QED
    BY <1>1, <2>1, <2>3, FiniteParts
<1> QED
  BY <1>1, TypeInvariant, RoomInvariant, PTL

-----------------------------------------------------------------------------
(* The count of finished events: current and completed_ids_ together count *)
(* the events that were marked, and so do the workers that still have to   *)
(* count their event and the counter.                                      *)

CountInv ==
    /\ pc[Main] = "mark" => eventsFinished = 0 /\ Marked = {}
    /\ FinishedCountExact

CountTypes ==
    /\ IsFiniteSet(completed) /\ IsFiniteSet(Marked)
    /\ Cardinality(completed) \in Nat /\ Cardinality(Marked) \in Nat
    /\ eventsFinished \in Nat /\ current \in Nat /\ Skip \in Nat

\* The counted sets are finite.
LEMMA CountTyped ==
  ASSUME TypeInv
  PROVE  CountTypes
<1>1. IsFiniteSet(Ids)
  BY FS_Interval, EventLoopAssumption DEF Last
<1>2. IsFiniteSet(completed)
  BY <1>1, FS_Subset DEF TypeInv, TypeOK, QueueTypeOK
<1>3. IsFiniteSet(Workers) /\ Marked \in SUBSET Workers
  BY EventLoopAssumption DEF Marked
<1>4. IsFiniteSet(Marked)
  BY <1>3, FS_Subset
<1> QED
  BY <1>2, <1>4, FS_CardinalityType, EventLoopAssumption
     DEF TypeInv, TypeOK, QueueTypeOK, CountTypes

\* Settle moves an identifier from the set to the count below current.
LEMMA SettleCount ==
  ASSUME NEW ids, IsFiniteSet(ids), current \in Nat, Settle(ids)
  PROVE  current' + Cardinality(completed') = current + Cardinality(ids)
<1>1. CASE current \in ids /\ completed' = ids \ {current} /\ current' = current + 1
  <2>1. Cardinality(completed') = Cardinality(ids) - 1
    BY <1>1, FS_RemoveElement
  <2> QED
    BY <1>1, <2>1, FS_CardinalityType
<1>2. CASE completed' = ids /\ current' = current
  BY <1>2
<1> QED
  BY <1>1, <1>2, SettleCases

\* The workers between markComplete() and the increment of the counter.
LEMMA MarkedStep ==
  ASSUME NumberTypes, NEW w \in Workers, WorkerStep(w)
  PROVE  /\ MarkComplete(w) => w \notin Marked /\ Marked' = Marked \cup {w}
         /\ FinishEvent(w) => w \in Marked /\ Marked' = Marked \ {w}
         /\ ~MarkComplete(w) /\ ~FinishEvent(w) => Marked' = Marked
<1> USE DEF NumberTypes, Marked, Goto
<1>1. \A v \in Workers \ {w} : pc'[v] = pc[v]
  BY DEF WorkerStep, Take, StartEvent, ContinueEvent, EndWorker, SkipModule, Postpone,
         EnterModule, LeaveModule, MissingDependencies, Abort, EndOfRun, Fail, Catch,
         Requeue, AllModulesRun, MarkComplete, MarkNext, FinishEvent
<1>2. CASE MarkComplete(w)
  <2>1. pc[w] = "finish" /\ pc'[w] = "marked"
    BY <1>2 DEF MarkComplete
  <2> QED
    BY <1>1, <1>2, <2>1 DEF FinishEvent
<1>3. CASE FinishEvent(w)
  <2>1. pc[w] = "marked" /\ pc'[w] = "idle"
    BY <1>3 DEF FinishEvent
  <2> QED
    BY <1>1, <1>3, <2>1 DEF MarkComplete
<1>4. ASSUME ~MarkComplete(w), ~FinishEvent(w)
      PROVE  pc'[w] = "marked" <=> pc[w] = "marked"
  BY <1>4
     DEF WorkerStep, Take, StartEvent, ContinueEvent, EndWorker, SkipModule, Postpone,
         EnterModule, LeaveModule, MissingDependencies, Abort, EndOfRun, Fail, Catch,
         Requeue, AllModulesRun, MarkNext
<1> QED
  BY <1>1, <1>2, <1>3, <1>4

\* A step of a worker after the first event was submitted.
LEMMA CountWorker ==
  ASSUME TypeInv, OrderInv, FinishedCountExact, pc[Main] # "mark",
         NEW w \in Workers, WorkerStep(w)
  PROVE  eventsFinished' + Cardinality(Marked')
           = current' - (Skip + 1) + Cardinality(completed')
<1>1. NumberTypes /\ CountTypes
  BY NumberTyped, CountTyped
<1>2. eventsFinished + Cardinality(Marked) = current - (Skip + 1) + Cardinality(completed)
  BY DEF FinishedCountExact
<1>3. CASE MarkComplete(w)
  <2>1. w \notin Marked /\ Marked' = Marked \cup {w}
    BY <1>1, <1>3, MarkedStep
  <2>2. Cardinality(Marked') = Cardinality(Marked) + 1
    BY <1>1, <2>1, FS_AddElement DEF CountTypes
  <2>3. event[w] \notin completed
    BY <1>3 DEF MarkComplete, OrderInv, Holding, HoldingLabels
  <2>4. /\ IsFiniteSet(completed \cup {event[w]})
        /\ Cardinality(completed \cup {event[w]}) = Cardinality(completed) + 1
    BY <1>1, <2>3, FS_AddElement DEF CountTypes
  <2>5. current' + Cardinality(completed') = current + Cardinality(completed) + 1
    BY <1>1, <1>3, <2>4, SettleCount DEF CountTypes, MarkComplete, Complete
  <2>6. eventsFinished' = eventsFinished
    BY <1>3 DEF MarkComplete, countVars
  <2>7. TypeInv'
    BY TypeNext DEF Next
  <2>8. CountTypes'
    BY <2>7, CountTyped, PTL
  <2> QED
    BY <1>1, <1>2, <2>2, <2>5, <2>6, <2>8 DEF CountTypes
<1>4. CASE MarkNext(w)
  <2>1. Marked' = Marked /\ eventsFinished' = eventsFinished
    BY <1>4, Zenon DEF MarkNext, Marked, countVars
  <2>2. current' + Cardinality(completed') = current + Cardinality(completed)
    BY <1>1, <1>4, SettleCount DEF CountTypes, MarkNext, Advance
  <2>3. TypeInv'
    BY TypeNext DEF Next
  <2>4. CountTypes'
    BY <2>3, CountTyped, PTL
  <2> QED
    BY <1>1, <1>2, <2>1, <2>2, <2>4 DEF CountTypes
<1>5. CASE FinishEvent(w)
  <2>1. w \in Marked /\ Marked' = Marked \ {w}
    BY <1>1, <1>5, MarkedStep
  <2>2. Cardinality(Marked') = Cardinality(Marked) - 1
    BY <1>1, <2>1, FS_RemoveElement DEF CountTypes
  <2>3. /\ eventsFinished' = eventsFinished + 1
        /\ current' = current /\ completed' = completed
    BY <1>5, Zenon DEF FinishEvent, queueVars
  <2> QED
    BY <1>1, <1>2, <2>2, <2>3 DEF CountTypes
<1>6. CASE ~MarkComplete(w) /\ ~MarkNext(w) /\ ~FinishEvent(w)
  <2>1. Marked' = Marked
    BY <1>1, <1>6, MarkedStep
  <2>2. /\ eventsFinished' = eventsFinished
        /\ current' = current /\ completed' = completed
    BY <1>6, Zenon
       DEF WorkerStep, queueVars, countVars, Take, PopPriority, PopStandard,
           StartEvent, ContinueEvent, EndWorker, SkipModule, Postpone, EnterModule,
           LeaveModule, MissingDependencies, Abort, EndOfRun, Fail, Catch, Invalidate,
           Requeue, PushPriority, AllModulesRun
  <2> QED
    BY <1>2, <2>1, <2>2
<1> QED
  BY <1>3, <1>4, <1>5, <1>6

\* Every step keeps the count exact.
LEMMA CountNext == TypeInv /\ OrderInv /\ CountInv /\ [Next]_vars => CountInv'
<1> SUFFICES ASSUME TypeInv, OrderInv, CountInv, [Next]_vars PROVE CountInv'
  OBVIOUS
<1>1. NumberTypes
  BY NumberTyped
<1>2. ASSUME NEW w \in Workers, WorkerStep(w)
      PROVE  CountInv'
  <2>1. pc'[Main] = pc[Main]
    BY <1>1, <1>2
       DEF NumberTypes, Goto, WorkerStep, Take, StartEvent, ContinueEvent, EndWorker,
           SkipModule, Postpone, EnterModule, LeaveModule, MissingDependencies, Abort,
           EndOfRun, Fail, Catch, Requeue, AllModulesRun, MarkComplete, MarkNext,
           FinishEvent
  <2>2. CASE pc[Main] = "mark"
    <3>1. ~MarkComplete(w) /\ ~FinishEvent(w)
      BY <2>2 DEF MarkComplete, FinishEvent, OrderInv, HoldingLabels, CountInv, Marked
    <3>2. Marked' = Marked
      BY <1>1, <1>2, <3>1, MarkedStep
    <3>3. eventsFinished' = eventsFinished
      BY <1>2, <3>1, Zenon
         DEF WorkerStep, countVars, Take, StartEvent, ContinueEvent, EndWorker,
             SkipModule, Postpone, EnterModule, LeaveModule, MissingDependencies,
             Abort, EndOfRun, Fail, Catch, Requeue, AllModulesRun, MarkNext
    <3> QED
      BY <2>1, <2>2, <3>2, <3>3 DEF CountInv, FinishedCountExact
  <2>3. CASE pc[Main] # "mark"
    BY <1>2, <2>1, <2>3, CountWorker DEF CountInv, FinishedCountExact
  <2> QED
    BY <2>2, <2>3
<1>3. CASE MarkSkipped
  <2>1. /\ event[Main] = current /\ completed = {} /\ pc[Main] = "mark"
        /\ eventsFinished = 0 /\ Marked = {}
    BY <1>3 DEF MarkSkipped, OrderInv, CountInv
  <2>2. Settle({current})
    BY <1>3, <2>1 DEF MarkSkipped, Complete
  <2>3. completed' = {} /\ current' = current + 1
    BY <2>2, SettleCases, <1>1 DEF NumberTypes
  <2>4. Marked' = {} /\ eventsFinished' = 0
    BY <1>1, <1>3, <2>1 DEF MarkSkipped, Goto, Marked, NumberTypes, countVars
  <2>5. pc'[Main] # "mark" => current = Skip
    BY <1>1, <1>3, <2>1 DEF MarkSkipped, Goto, NumberTypes
  <2>6. pc'[Main] # "mark" => current' - (Skip + 1) + Cardinality(completed') = 0
    BY <2>3, <2>5, FS_EmptySet, EventLoopAssumption
  <2> QED
    BY <2>4, <2>6, FS_EmptySet DEF CountInv, FinishedCountExact
<1>4. CASE (MainStep /\ ~MarkSkipped) \/ Interrupt \/ UNCHANGED vars
  <2>1. Marked' = Marked
    BY <1>1, <1>4
       DEF NumberTypes, Marked, Goto, MainStep, KeepSubmitting, StopSubmitting, Submit,
           CheckException, CheckAfterSubmit, Wait, CheckAfterWait, ResetPool, Destroy,
           Join, Interrupt, vars
  <2>2. /\ eventsFinished' = eventsFinished
        /\ current' = current /\ completed' = completed
    BY <1>4, Zenon
       DEF MainStep, queueVars, countVars, KeepSubmitting, StopSubmitting, Submit,
           PushStandard, CheckAfterSubmit, Wait, CheckAfterWait, ResetPool, Destroy,
           Invalidate, Join, Interrupt, vars
  <2>3. pc'[Main] = "mark" <=> pc[Main] = "mark"
    BY <1>1, <1>4
       DEF NumberTypes, Goto, MainStep, KeepSubmitting, StopSubmitting, Submit,
           CheckException, CheckAfterSubmit, Wait, CheckAfterWait, ResetPool, Destroy,
           Join, Interrupt, vars
  <2> QED
    BY <2>1, <2>2, <2>3 DEF CountInv, FinishedCountExact
<1> QED
  BY <1>2, <1>3, <1>4 DEF Next

\* events_finished_ counts each event that was marked complete once, but for the
\* workers that are still between markComplete() and the increment.
THEOREM FinishedCountExactHolds == Spec => []FinishedCountExact
<1>1. Init => CountInv
  BY EventLoopAssumption DEF Init, CountInv, FinishedCountExact, Marked, Threads
<1>2. CountInv => FinishedCountExact
  BY DEF CountInv
<1> QED
  BY <1>1, <1>2, CountNext, TypeInvariant, OrderInvariant, PTL DEF Spec

-----------------------------------------------------------------------------
(* As long as nothing went wrong, every event that was submitted and is    *)
(* not complete is somewhere, and completion does not get stuck.           *)

Calm == ~exception /\ ~done

Placed(n) ==
    \/ n \in completed \/ n \in buffered
    \/ \E i \in 1 .. Len(queue) : queue[i] = n
    \/ \E w \in Holding : event[w] = n

PlaceInv == Calm => valid /\ \A n \in current .. LastSubmitted : Placed(n)

\* Somebody moves current over the identifier that is complete.
TurnInv == current \in completed => Marked # {}

EndInv == (\E w \in Workers : pc[w] = "end") => ~Calm

\* Every event is complete, and no worker has anything left to do.
Drained ==
    /\ event[Main] = Last + 1 /\ current = Last + 1 /\ completed = {}
    /\ queue = <<>> /\ buffered = {} /\ \A w \in Workers : pc[w] \in {"idle", "end"}

PhaseInv ==
    /\ pc[Main] = "join" => done
    /\ pc[Main] = "wait" /\ ~done => event[Main] = Last + 1
    /\ pc[Main] = "checkLast" /\ Calm => Drained
    /\ pc[Main] = "reset" /\ ~done => Drained
    /\ pc[Main] \notin {"destroy", "join", "end"} => outcome # "completed"
    /\ outcome = "completed" => Drained

LossInv == PlaceInv /\ TurnInv /\ EndInv /\ PhaseInv

\* Nothing is submitted and nobody has ended at first.
LEMMA LossInit == Init => LossInv
<1> SUFFICES ASSUME Init PROVE LossInv
  OBVIOUS
<1>1. /\ pc[Main] = "mark" /\ event[Main] = 0 /\ current = 0 /\ completed = {}
      /\ valid = TRUE /\ outcome = "none" /\ \A w \in Workers : pc[w] = "idle"
  BY EventLoopAssumption DEF Init, QueueInit, Threads
<1>2. current .. LastSubmitted = {}
  BY <1>1 DEF LastSubmitted
<1>3. PlaceInv
  BY <1>1, <1>2, Zenon DEF PlaceInv
<1> QED
  BY <1>1, <1>3 DEF LossInv, TurnInv, EndInv, PhaseInv

-----------------------------------------------------------------------------
(* The steps of a worker                                                   *)

\* After a step that leaves the pool alive the worker has neither failed nor ended.
LEMMA CalmWorker ==
  ASSUME NEW w \in Workers, WorkerStep(w)
  PROVE  /\ done' = done
         /\ Calm' => Calm /\ ~Catch(w) /\ ~EndWorker(w)
<1>1. CASE Catch(w)
  BY <1>1, Zenon DEF Catch, Calm
<1>2. CASE EndWorker(w)
  BY <1>2, Zenon DEF EndWorker, Calm, poolVars
<1>3. ASSUME ~Catch(w), ~EndWorker(w)
      PROVE  done' = done /\ exception' = exception
  BY <1>3, Zenon DEF poolVars, WorkerStep, Take, StartEvent, ContinueEvent,
     SkipModule, Postpone, EnterModule, LeaveModule, MissingDependencies, Abort, EndOfRun,
     Fail, Requeue, AllModulesRun, MarkComplete, MarkNext, FinishEvent
<1> QED
  BY <1>1, <1>2, <1>3 DEF Calm

\* The worker and the queue, for a step that moves no event between them.
LEMMA HeldStays ==
  ASSUME NumberTypes, NEW w \in Workers, WorkerStep(w), ~Take(w), ~Requeue(w), ~Catch(w),
         ~EndWorker(w), ~MarkComplete(w)
  PROVE  /\ \A v \in Holding : v \in Holding' /\ event'[v] = event[v]
         /\ queue' = queue /\ buffered' = buffered /\ valid' = valid
<1>1. \A v \in Holding : v \in Holding' /\ event'[v] = event[v]
  BY DEF NumberTypes, Holding, HoldingLabels, Goto, eventVars, WorkerStep, StartEvent,
       ContinueEvent, SkipModule, Postpone, EnterModule, LeaveModule, MissingDependencies,
       Abort, EndOfRun, Fail, AllModulesRun, MarkNext, FinishEvent
<1>2. queue' = queue /\ buffered' = buffered /\ valid' = valid
  BY Zenon DEF queueVars, WorkerStep, StartEvent, ContinueEvent, SkipModule, Postpone,
       EnterModule, LeaveModule, MissingDependencies, Abort, EndOfRun, Fail, AllModulesRun,
       MarkNext, Advance, FinishEvent
<1> QED
  BY <1>1, <1>2

\* While the queue is valid, an event that is pushed back is not refused.
LEMMA NotRefused ==
  ASSUME TypeInv, RoomInv, NEW w \in Workers, Requeue(w), valid
  PROVE  PushPriority(event[w])
<1>1. Cardinality(buffered) + Cardinality(Holding) <= MaxPriority
  BY Zenon DEF RoomInv
<1>2. w \in Holding
  BY DEF Requeue, Holding, HoldingLabels
<1>3. Cardinality(Holding) # 0
  BY <1>2, FiniteParts, FS_EmptySet
<1>4. ~(Cardinality(buffered) >= MaxPriority)
  BY <1>1, <1>3, FiniteParts
<1> QED
  BY <1>4, Zenon DEF Requeue, PriorityRefused

\* An event keeps a place: it moves from a queue to a worker, back, or is complete.
LEMMA PlacedWorker ==
  ASSUME TypeInv, OrderInv, RoomInv, valid, NEW w \in Workers, WorkerStep(w),
         ~Catch(w), ~EndWorker(w), NEW n \in Int, Placed(n), current' <= n
  PROVE  Placed(n)'
<1>1. NumberTypes
  BY NumberTyped
<1>2. CASE Take(w)
  <2>1. \A v \in Holding : v # w /\ v \in Holding' /\ event'[v] = event[v]
    BY <1>1, <1>2 DEF Take, Goto, Holding, HoldingLabels, NumberTypes
  <2>2. w \in Holding'
    BY <1>1, <1>2 DEF Take, Goto, Holding, HoldingLabels, NumberTypes
  <2>3. CASE PopPriority /\ event' = [event EXCEPT ![w] = current]
    <3>1. /\ buffered' = buffered \ {current} /\ queue' = queue /\ completed' = completed
          /\ event'[w] = current
      BY <1>1, <2>3, Zenon DEF PopPriority, NumberTypes
    <3> QED
      BY <2>1, <2>2, <3>1 DEF Placed
  <2>4. CASE PopStandard /\ event' = [event EXCEPT ![w] = Head(queue)]
    <3>1. /\ queue # <<>> /\ queue' = Tail(queue) /\ buffered' = buffered
          /\ completed' = completed /\ event'[w] = Head(queue)
      BY <1>1, <2>4 DEF PopStandard, StandardReady, NumberTypes
    <3>2. /\ Len(queue') = Len(queue) - 1 /\ Len(queue) \in Nat /\ Head(queue) = queue[1]
          /\ \A i \in 1 .. Len(queue') : queue'[i] = queue[i + 1]
      BY <1>1, <3>1 DEF NumberTypes
    <3>3. ASSUME NEW i \in 1 .. Len(queue), queue[i] = n
          PROVE  event'[w] = n \/ \E j \in 1 .. Len(queue') : queue'[j] = n
      <4>1. CASE i = 1
        BY <3>1, <3>2, <3>3, <4>1
      <4>2. CASE i # 1
        <5>1. i - 1 \in 1 .. Len(queue') /\ queue'[i - 1] = n
          BY <3>2, <3>3, <4>2
        <5> QED
          BY <5>1
      <4> QED
        BY <4>1, <4>2
    <3> QED
      BY <2>1, <2>2, <3>1, <3>3 DEF Placed
  <2> QED
    BY <1>2, <2>3, <2>4 DEF Take
<1>3. CASE Requeue(w)
  <2>1. PushPriority(event[w]) /\ event' = event
    BY <1>3, NotRefused DEF Requeue, eventVars
  <2>2. buffered' = buffered \cup {event[w]} /\ queue' = queue /\ completed' = completed
    BY <2>1 DEF PushPriority
  <2>3. Holding' = Holding \ {w}
    BY <1>1, <1>3, HoldingStep
  <2> QED
    BY <2>1, <2>2, <2>3 DEF Placed
<1>4. CASE MarkComplete(w)
  <2>1. /\ Settle(completed \cup {event[w]}) /\ queue' = queue /\ buffered' = buffered
        /\ event' = event
    BY <1>4 DEF MarkComplete, Complete, eventVars
  <2>2. \A v \in Holding : v # w => v \in Holding'
    BY <1>1, <1>4 DEF MarkComplete, Goto, Holding, NumberTypes
  <2>3. \/ completed' = completed \cup {event[w]}
        \/ completed' = (completed \cup {event[w]}) \ {current} /\ current' = current + 1
    BY <2>1, SettleCases
  <2>4. n \in completed \cup {event[w]} => n \in completed'
    BY <1>1, <2>3 DEF NumberTypes
  <2> QED
    BY <2>1, <2>2, <2>4 DEF Placed
<1>5. CASE ~Take(w) /\ ~Requeue(w) /\ ~MarkComplete(w)
  <2>1. /\ \A v \in Holding : v \in Holding' /\ event'[v] = event[v]
        /\ queue' = queue /\ buffered' = buffered
    BY <1>1, <1>5, HeldStays
  <2>2. n \in completed => n \in completed'
    <3>1. CASE MarkNext(w)
      <4>1. \/ completed' = completed
            \/ completed' = completed \ {current} /\ current' = current + 1
        BY <3>1, SettleCases DEF MarkNext, Advance
      <4> QED
        BY <1>1, <4>1 DEF NumberTypes
    <3>2. CASE completed' = completed
      BY <3>2
    <3> QED
      BY <1>5, <3>1, <3>2, Zenon
         DEF queueVars, WorkerStep, StartEvent, ContinueEvent, SkipModule, Postpone,
           EnterModule, LeaveModule, MissingDependencies, Abort, EndOfRun, Fail,
           AllModulesRun, FinishEvent
  <2> QED
    BY <2>1, <2>2 DEF Placed
<1> QED
  BY <1>2, <1>3, <1>4, <1>5

\* Every submitted event still has a place.
LEMMA PlaceWorker ==
  ASSUME TypeInv, OrderInv, RoomInv, PlaceInv, NEW w \in Workers, WorkerStep(w)
  PROVE  PlaceInv'
<1> SUFFICES ASSUME Calm' PROVE valid' /\ \A n \in current' .. LastSubmitted' : Placed(n)'
  BY Zenon DEF PlaceInv
<1>1. NumberTypes /\ NumberTypes'
  <2>1. TypeInv'
    BY TypeNext DEF Next
  <2> QED
    BY <2>1, NumberTyped, PTL
<1>2. /\ ~Catch(w) /\ ~EndWorker(w) /\ valid
      /\ \A n \in current .. LastSubmitted : Placed(n)
  BY CalmWorker, Zenon DEF PlaceInv
<1>3. valid'
  BY <1>2, Zenon DEF queueVars, WorkerStep, Take, PopPriority, PopStandard, StartEvent,
       ContinueEvent, SkipModule, Postpone, EnterModule, LeaveModule, MissingDependencies,
       Abort, EndOfRun, Fail, Requeue, PushPriority, AllModulesRun, MarkComplete, Complete,
       MarkNext, Advance, FinishEvent
<1>4. LastSubmitted' = LastSubmitted /\ LastSubmitted \in Int
  BY <1>1 DEF LastSubmitted, NumberTypes, Goto, eventVars, WorkerStep, Take, StartEvent,
       ContinueEvent, EndWorker, SkipModule, Postpone, EnterModule, LeaveModule,
       MissingDependencies, Abort, EndOfRun, Fail, Catch, Requeue, AllModulesRun,
       MarkComplete, MarkNext, FinishEvent
<1>5. current <= current'
  <2>1. CASE MarkComplete(w) \/ MarkNext(w)
    <3>1. \E ids : Settle(ids)
      BY <2>1, Zenon DEF MarkComplete, Complete, MarkNext, Advance
    <3>2. current' = current \/ current' = current + 1
      BY <3>1, SettleCases
    <3> QED
      BY <1>1, <3>2 DEF NumberTypes
  <2>2. CASE current' = current
    BY <1>1, <2>2 DEF NumberTypes
  <2> QED
    BY <1>2, <2>1, <2>2, Zenon DEF queueVars, WorkerStep, Take, PopPriority, PopStandard,
       StartEvent, ContinueEvent, SkipModule, Postpone, EnterModule, LeaveModule,
       MissingDependencies, Abort, EndOfRun, Fail, Requeue, PushPriority, AllModulesRun,
       FinishEvent
<1>6. ASSUME NEW n \in current' .. LastSubmitted'
      PROVE  Placed(n)'
  <2>1. n \in Int /\ current' <= n /\ n \in current .. LastSubmitted
    BY <1>1, <1>4, <1>5 DEF NumberTypes
  <2> QED
    BY <1>2, <2>1, PlacedWorker
<1> QED
  BY <1>3, <1>6

\* A complete identifier that is next in line still has somebody who moves current.
LEMMA TurnWorker ==
  ASSUME NumberTypes, OrderInv, TurnInv, NEW w \in Workers, WorkerStep(w)
  PROVE  TurnInv'
<1>1. CASE MarkComplete(w)
  <2>1. w \in Marked'
    BY <1>1, MarkedStep
  <2> QED
    BY <2>1 DEF TurnInv
<1>2. CASE MarkNext(w)
  <2>1. w \in Marked'
    BY <1>2 DEF MarkNext, Marked
  <2> QED
    BY <2>1 DEF TurnInv
<1>3. CASE FinishEvent(w)
  <2>1. /\ current' = current /\ completed' = completed /\ Marked' = Marked \ {w}
        /\ StartsAtCurrent(completed) => \E v \in Workers \ {w} : v \in Marked
    BY <1>3, MarkedStep DEF FinishEvent, queueVars, Marked
  <2>2. current \in completed => StartsAtCurrent(completed)
    BY DEF StartsAtCurrent, OrderInv, Passed
  <2> QED
    BY <2>1, <2>2 DEF TurnInv
<1>4. CASE ~MarkComplete(w) /\ ~MarkNext(w) /\ ~FinishEvent(w)
  <2>1. Marked' = Marked
    BY <1>4, MarkedStep
  <2>2. current' = current /\ completed' = completed
    BY <1>4, Zenon
       DEF WorkerStep, queueVars, Take, PopPriority, PopStandard, StartEvent,
           ContinueEvent, EndWorker, SkipModule, Postpone, EnterModule, LeaveModule,
           MissingDependencies, Abort, EndOfRun, Fail, Catch, Invalidate, Requeue,
           PushPriority, AllModulesRun
  <2> QED
    BY <2>1, <2>2 DEF TurnInv
<1> QED
  BY <1>1, <1>2, <1>3, <1>4

\* Workers only end when the pool is not alive any more.
LEMMA EndWorkerInv ==
  ASSUME NumberTypes, EndInv, NEW w \in Workers, WorkerStep(w)
  PROVE  EndInv'
<1> SUFFICES ASSUME Calm', NEW v \in Workers, pc'[v] = "end" PROVE FALSE
  BY Zenon DEF EndInv
<1>1. Calm /\ ~Catch(w) /\ ~EndWorker(w)
  BY CalmWorker
<1>2. pc[v] = "end"
  BY <1>1 DEF NumberTypes, Goto, eventVars, WorkerStep, Take, StartEvent, ContinueEvent,
       SkipModule, Postpone, EnterModule, LeaveModule, MissingDependencies, Abort,
       EndOfRun, Fail, Requeue, AllModulesRun, MarkComplete, MarkNext, FinishEvent
<1> QED
  BY <1>1, <1>2, Zenon DEF EndInv

\* When nothing is left to do, a worker can only end.
LEMMA DrainedWorker ==
  ASSUME NumberTypes, Drained, NEW w \in Workers, WorkerStep(w)
  PROVE  EndWorker(w) /\ Drained'
<1>1. pc[w] \in {"idle", "end"} /\ queue = <<>> /\ buffered = {}
  BY DEF Drained
<1>2. ~Take(w)
  BY <1>1, Zenon
     DEF Take, PopPriority, PriorityReady, StartsAtCurrent, PopStandard, StandardReady
<1>3. EndWorker(w)
  BY <1>1, <1>2
     DEF WorkerStep, StartEvent, ContinueEvent, SkipModule, Postpone, EnterModule,
         LeaveModule, MissingDependencies, Abort, EndOfRun, Fail, Catch, Requeue,
         AllModulesRun, MarkComplete, MarkNext, FinishEvent
<1>4. /\ queue' = queue /\ buffered' = buffered /\ completed' = completed
      /\ current' = current /\ event' = event
  BY <1>3, Zenon DEF EndWorker, queueVars, eventVars
<1>5. \A v \in Workers : pc'[v] \in {"idle", "end"}
  BY <1>3 DEF EndWorker, Goto, NumberTypes, Drained
<1> QED
  BY <1>3, <1>4, <1>5 DEF Drained

\* The end of the run is not disturbed by a worker.
LEMMA PhaseWorker ==
  ASSUME NumberTypes, PhaseInv, NEW w \in Workers, WorkerStep(w)
  PROVE  PhaseInv'
<1>1. pc'[Main] = pc[Main] /\ event'[Main] = event[Main]
  BY DEF NumberTypes, Goto, eventVars, WorkerStep, Take, StartEvent, ContinueEvent, EndWorker,
       SkipModule, Postpone, EnterModule, LeaveModule, MissingDependencies, Abort,
       EndOfRun, Fail, Catch, Requeue, AllModulesRun, MarkComplete, MarkNext, FinishEvent
<1>2. outcome' = outcome
  BY Zenon DEF poolVars, WorkerStep, Take, StartEvent, ContinueEvent, EndWorker,
       SkipModule, Postpone, EnterModule, LeaveModule, MissingDependencies, Abort,
       EndOfRun, Fail, Catch, Requeue, AllModulesRun, MarkComplete, MarkNext, FinishEvent
<1>3. done' = done /\ (Calm' => Calm) /\ (EndWorker(w) => done)
  BY CalmWorker, Zenon DEF EndWorker
<1>4. pc[Main] = "checkLast" /\ Calm => Drained'
  BY <1>3, DrainedWorker DEF PhaseInv
<1>5. pc[Main] = "reset" /\ ~done => Drained'
  BY <1>3, DrainedWorker DEF PhaseInv
<1>6. outcome = "completed" => Drained'
  BY DrainedWorker DEF PhaseInv
<1> QED
  BY <1>1, <1>2, <1>3, <1>4, <1>5, <1>6 DEF PhaseInv

-----------------------------------------------------------------------------
(* The steps of the main thread                                            *)

\* The workers stay where they are, and the pool does not come back to life.
LEMMA MainKeepsWorkers ==
  ASSUME NumberTypes, MainStep \/ Interrupt \/ UNCHANGED vars
  PROVE  /\ \A w \in Workers : pc'[w] = pc[w] /\ event'[w] = event[w]
         /\ Holding' = Holding /\ Marked' = Marked
         /\ exception' = exception
         /\ Destroy \/ done' = done
<1>1. \A w \in Workers : pc'[w] = pc[w] /\ event'[w] = event[w]
  BY DEF NumberTypes, Goto, eventVars, MainStep, MarkSkipped, KeepSubmitting,
       StopSubmitting, Submit, CheckException, CheckAfterSubmit, Wait, CheckAfterWait,
       ResetPool, Destroy, Join, Interrupt, vars
<1>2. Holding' = Holding /\ Marked' = Marked
  BY <1>1 DEF Holding, Marked
<1>3. exception' = exception
  BY Zenon DEF poolVars, MainStep, MarkSkipped, KeepSubmitting, StopSubmitting, Submit,
       CheckAfterSubmit, Wait, CheckAfterWait, ResetPool, Destroy, Join, Interrupt, vars
<1>4. Destroy \/ done' = done
  BY Zenon DEF poolVars, MainStep, MarkSkipped, KeepSubmitting, StopSubmitting, Submit,
       CheckAfterSubmit, Wait, CheckAfterWait, ResetPool, Join, Interrupt, vars
<1> QED
  BY <1>1, <1>2, <1>3, <1>4

\* A pool that is alive was alive before, and is not being destroyed.
LEMMA CalmMain ==
  ASSUME NumberTypes, MainStep \/ Interrupt \/ UNCHANGED vars
  PROVE  Calm' => Calm /\ ~Destroy
<1>1. Destroy => ~Calm'
  BY Zenon DEF Destroy, Calm
<1>2. done' = done /\ exception' = exception /\ Calm' => Calm
  BY DEF Calm
<1> QED
  BY <1>1, <1>2, MainKeepsWorkers

\* Only the identifiers that are marked in advance, and the submitted ones, move.
LEMMA MainQueue ==
  ASSUME MainStep \/ Interrupt \/ UNCHANGED vars
  PROVE  \/ MarkSkipped
         \/ Submit /\ PushStandard(event[Main])
         \/ Destroy
         \/ UNCHANGED queueVars /\ (Submit => ~valid)
BY Zenon DEF queueVars, MainStep, MarkSkipped, KeepSubmitting, StopSubmitting, Submit,
     CheckAfterSubmit, Wait, CheckAfterWait, ResetPool, Join, Interrupt, vars

\* A submitted event is placed in the standard queue, and no other one moves.
LEMMA PlaceMain ==
  ASSUME NumberTypes, OrderInv, PlaceInv, MainStep \/ Interrupt \/ UNCHANGED vars
  PROVE  PlaceInv'
<1> SUFFICES ASSUME Calm' PROVE valid' /\ \A n \in current' .. LastSubmitted' : Placed(n)'
  BY Zenon DEF PlaceInv
<1>1. /\ ~Destroy /\ valid /\ \A n \in current .. LastSubmitted : Placed(n)
  BY CalmMain, Zenon DEF PlaceInv
<1>2. Holding' = Holding /\ \A w \in Holding : event'[w] = event[w]
  BY MainKeepsWorkers DEF Holding
<1>3. CASE MarkSkipped
  <2>1. /\ event[Main] = current /\ completed = {} /\ Settle(completed \cup {current})
        /\ event'[Main] = current + 1 /\ pc'[Main] # "check"
    BY <1>3 DEF MarkSkipped, Complete, Goto, OrderInv, NumberTypes
  <2>2. current' = current + 1
    BY <2>1, SettleCases DEF NumberTypes
  <2>3. current' .. LastSubmitted' = {}
    BY <2>1, <2>2 DEF LastSubmitted, NumberTypes
  <2>4. valid'
    BY <1>1, <1>3, Zenon DEF MarkSkipped, Complete
  <2> QED
    BY <2>3, <2>4
<1>4. CASE Submit /\ PushStandard(event[Main])
  <2>1. /\ queue' = Append(queue, event[Main]) /\ completed' = completed
        /\ buffered' = buffered /\ current' = current
        /\ pc[Main] = "submit" /\ pc'[Main] = "check" /\ event' = event
    BY <1>4 DEF Submit, PushStandard, Goto, eventVars, NumberTypes
  <2>2. /\ LastSubmitted' = LastSubmitted + 1 /\ LastSubmitted' = event[Main]
        /\ LastSubmitted \in Int /\ current \in Int
    BY <2>1 DEF LastSubmitted, NumberTypes
  <2>3. /\ Len(queue') = Len(queue) + 1 /\ Len(queue) \in Nat
        /\ queue'[Len(queue) + 1] = event[Main]
        /\ \A i \in 1 .. Len(queue) : queue'[i] = queue[i] /\ i \in 1 .. Len(queue')
    BY <2>1 DEF NumberTypes
  <2>4. ASSUME NEW n \in current' .. LastSubmitted'
        PROVE  Placed(n)'
    <3>1. CASE n = event[Main]
      <4>1. Len(queue) + 1 \in 1 .. Len(queue')
        BY <2>3
      <4> QED
        BY <2>3, <3>1, <4>1 DEF Placed
    <3>2. CASE n # event[Main]
      <4>1. n \in current .. LastSubmitted
        BY <2>1, <2>2, <2>4, <3>2
      <4>2. Placed(n)
        BY <1>1, <4>1
      <4> QED
        BY <1>2, <2>1, <2>3, <4>2 DEF Placed
    <3> QED
      BY <3>1, <3>2
  <2>5. valid'
    BY <1>1, <1>4, Zenon DEF PushStandard
  <2> QED
    BY <2>4, <2>5
<1>5. CASE UNCHANGED queueVars /\ ~Submit /\ ~MarkSkipped
  <2>1. /\ queue' = queue /\ completed' = completed /\ buffered' = buffered
        /\ current' = current
    BY <1>5 DEF queueVars
  <2>2. LastSubmitted' = LastSubmitted
    BY <1>5 DEF LastSubmitted, NumberTypes, Goto, eventVars, MainStep, KeepSubmitting,
       StopSubmitting, CheckException, CheckAfterSubmit, Wait, CheckAfterWait, ResetPool,
       Destroy, Join, Interrupt, vars
  <2>3. \A n \in current' .. LastSubmitted' : Placed(n)'
    BY <1>1, <1>2, <2>1, <2>2 DEF Placed
  <2>4. valid'
    BY <1>1, <1>5, Zenon DEF queueVars
  <2> QED
    BY <2>3, <2>4
<1> QED
  BY <1>1, <1>3, <1>4, <1>5, MainQueue, Zenon

\* The main thread marks an identifier, and moves current over it, in one step.
LEMMA TurnMain ==
  ASSUME NumberTypes, OrderInv, TurnInv, MainStep \/ Interrupt \/ UNCHANGED vars
  PROVE  TurnInv'
<1>1. Marked' = Marked
  BY MainKeepsWorkers
<1>2. CASE MarkSkipped
  <2>1. /\ event[Main] = current /\ completed = {} /\ Settle(completed \cup {current})
    BY <1>2 DEF MarkSkipped, Complete, OrderInv
  <2>2. completed' = {}
    BY <2>1, SettleCases DEF NumberTypes
  <2> QED
    BY <2>2 DEF TurnInv
<1>3. CASE current' = current /\ completed' = completed
  BY <1>1, <1>3 DEF TurnInv
<1> QED
  BY <1>2, <1>3, MainQueue, Zenon DEF queueVars, PushStandard, Destroy, Invalidate

\* The main thread ends no worker.
LEMMA EndMain ==
  ASSUME NumberTypes, EndInv, MainStep \/ Interrupt \/ UNCHANGED vars
  PROVE  EndInv'
<1>1. \A w \in Workers : pc'[w] = pc[w]
  BY MainKeepsWorkers
<1>2. Calm' => Calm
  BY CalmMain
<1> QED
  BY <1>1, <1>2, Zenon DEF EndInv

\* wait() returns in a pool that is alive only when every event is complete.
LEMMA DrainedWait ==
  ASSUME NumberTypes, OrderInv, LossInv, Wait, Calm
  PROVE  Drained
<1>1. /\ queue = <<>> /\ buffered = {} /\ \A w \in Workers : pc[w] = "idle"
      /\ pc[Main] = "wait"
  BY Zenon DEF Wait, Calm
<1>2. event[Main] = Last + 1 /\ LastSubmitted = Last /\ Last \in Int
  BY <1>1, EventLoopAssumption DEF LossInv, PhaseInv, Calm, LastSubmitted, Last
<1>3. current \notin completed
  BY <1>1 DEF LossInv, TurnInv, Marked
<1>4. current = Last + 1
  <2>1. current <= Last + 1 /\ current \in Int
    BY <1>2 DEF OrderInv, NumberTypes
  <2>2. current <= Last => current \in current .. LastSubmitted
    BY <1>2, <2>1
  <2>3. ~Placed(current)
    BY <1>1, <1>3 DEF Placed, Holding, HoldingLabels
  <2>4. \A n \in current .. LastSubmitted : Placed(n)
    BY Zenon DEF LossInv, PlaceInv
  <2>5. ~(current <= Last)
    BY <2>2, <2>3, <2>4
  <2> QED
    BY <1>2, <2>1, <2>5
<1>5. completed = {}
  <2>1. \A n \in completed : n \in Int /\ current <= n /\ n <= Last
    BY <1>2 DEF OrderInv, Passed, NumberTypes
  <2> QED
    BY <1>2, <1>4, <2>1
<1> QED
  BY <1>1, <1>2, <1>4, <1>5 DEF Drained

\* The main thread does not disturb the end of a run.
LEMMA DrainedMain ==
  ASSUME NumberTypes, Drained, MainStep \/ Interrupt \/ UNCHANGED vars,
         pc[Main] \notin {"mark", "submit", "check"}
  PROVE  Drained'
<1>1. \A w \in Workers : pc'[w] \in {"idle", "end"}
  BY MainKeepsWorkers DEF Drained
<1>2. event' = event
  BY Zenon DEF eventVars, MainStep, MarkSkipped, KeepSubmitting, StopSubmitting, Submit,
     CheckAfterSubmit, Wait, CheckAfterWait, ResetPool, Destroy, Join, Interrupt, vars
<1>3. ~MarkSkipped /\ ~Submit
  BY DEF MarkSkipped, Submit
<1>4. /\ current' = current /\ completed' = completed
      /\ queue' = queue \/ queue' = <<>>
      /\ buffered' = buffered \/ buffered' = {}
  BY <1>3, MainQueue, Zenon DEF queueVars, Destroy, Invalidate
<1> QED
  BY <1>1, <1>2, <1>4 DEF Drained

\* The main thread completes a run only when every event is complete.
LEMMA PhaseMain ==
  ASSUME NumberTypes, OrderInv, LossInv, MainStep \/ Interrupt \/ UNCHANGED vars
  PROVE  PhaseInv'
<1> USE DEF Goto, NumberTypes, LossInv, PhaseInv
<1>1. CASE MarkSkipped \/ KeepSubmitting \/ Submit
  <2>1. /\ pc'[Main] \in {"mark", "poll", "submit", "check"} /\ outcome' = outcome
        /\ pc[Main] \in {"mark", "poll", "submit"}
    BY <1>1 DEF MarkSkipped, KeepSubmitting, Submit, poolVars
  <2> QED
    BY <2>1
<1>2. CASE StopSubmitting
  <2>1. pc'[Main] = "destroy" /\ outcome' = "stopped"
    BY <1>2 DEF StopSubmitting
  <2> QED
    BY <2>1
<1>3. CASE CheckAfterSubmit
  <2>1. /\ pc[Main] = "check" /\ event'[Main] = event[Main] + 1
        /\ outcome' = outcome \/ outcome' = "exception"
        /\ pc'[Main] \in {"destroy", "wait", "poll"}
        /\ pc'[Main] = "wait" => event[Main] = Last
    BY <1>3 DEF CheckAfterSubmit, CheckException
  <2> QED
    BY <2>1
<1>4. CASE Wait
  <2>1. pc[Main] = "wait" /\ pc'[Main] = "checkLast" /\ outcome' = outcome
    BY <1>4 DEF Wait, poolVars
  <2>2. Calm' => Drained'
    BY <1>4, <2>1, CalmMain, DrainedWait, DrainedMain
  <2> QED
    BY <2>1, <2>2
<1>5. CASE CheckAfterWait
  <2>1. /\ pc[Main] = "checkLast"
        /\ outcome' = outcome \/ outcome' = "exception"
        /\ pc'[Main] \in {"destroy", "reset"}
    BY <1>5 DEF CheckAfterWait, CheckException
  <2>2. pc'[Main] = "reset" => ~exception
    BY <1>5 DEF CheckAfterWait, CheckException
  <2>3. done' <=> done
    BY <1>5, MainKeepsWorkers DEF CheckAfterWait, Destroy
  <2>4. ASSUME pc'[Main] = "reset", ~done'
        PROVE  Drained'
    <3>1. Calm
      BY <2>2, <2>3, <2>4, Zenon DEF Calm
    <3>2. Drained
      BY <2>1, <3>1
    <3> QED
      BY <1>5, <2>1, <3>2, DrainedMain
  <2> QED
    BY <2>1, <2>4
<1>6. CASE ResetPool
  <2>1. pc[Main] = "reset" /\ pc'[Main] = "destroy"
    BY <1>6 DEF ResetPool
  <2>2. outcome' = "completed" => ~done
    BY <1>6 DEF ResetPool
  <2>3. outcome' = "completed" => Drained'
    BY <2>1, <2>2, DrainedMain
  <2> QED
    BY <2>1, <2>3
<1>7. CASE Destroy
  <2>1. /\ pc[Main] = "destroy" /\ pc'[Main] = "join" /\ outcome' = outcome
    BY <1>7 DEF Destroy
  <2>2. done'
    BY <1>7, Zenon DEF Destroy
  <2>3. outcome' = "completed" => Drained'
    BY <2>1, DrainedMain
  <2> QED
    BY <2>1, <2>2, <2>3
<1>8. CASE Join
  <2>1. /\ pc[Main] = "join" /\ outcome' = outcome
        /\ pc'[Main] = IF outcome = "stopped" THEN "wait" ELSE "end"
    BY <1>8 DEF Join, poolVars
  <2>2. done'
    BY <1>8, <2>1, Zenon DEF Join, poolVars
  <2>3. outcome' = "completed" => Drained'
    BY <2>1, DrainedMain
  <2> QED
    BY <2>1, <2>2, <2>3
<1>9. CASE Interrupt \/ UNCHANGED vars
  <2>1. pc' = pc /\ event' = event /\ outcome' = outcome
    BY <1>9, Zenon DEF Interrupt, vars, eventVars, poolVars
  <2>2. UNCHANGED <<queue, buffered, completed, current>>
    BY <1>9, Zenon DEF Interrupt, vars, queueVars
  <2>3. Drained' <=> Drained
    BY <2>1, <2>2 DEF Drained
  <2>4. done' = done /\ (Calm' => Calm)
    BY <1>9, CalmMain, Zenon DEF Interrupt, vars, poolVars
  <2> QED
    BY <2>1, <2>3, <2>4
<1> QED
  BY <1>1, <1>2, <1>3, <1>4, <1>5, <1>6, <1>7, <1>8, <1>9 DEF MainStep

-----------------------------------------------------------------------------
\* Nothing is lost in any state.
THEOREM LossInvariant == Spec => []LossInv
<1>1. ASSUME TypeInv, OrderInv, RoomInv, LossInv, [Next]_vars
      PROVE  LossInv'
  <2>1. NumberTypes
    BY <1>1, NumberTyped
  <2>2. CASE \E w \in Workers : WorkerStep(w)
    BY <1>1, <2>1, <2>2, PlaceWorker, TurnWorker, EndWorkerInv, PhaseWorker DEF LossInv
  <2>3. CASE MainStep \/ Interrupt \/ UNCHANGED vars
    BY <1>1, <2>1, <2>3, PlaceMain, TurnMain, EndMain, PhaseMain DEF LossInv
  <2> QED
    BY <1>1, <2>2, <2>3 DEF Next
<1> QED
  BY <1>1, LossInit, TypeInvariant, OrderInvariant, RoomInvariant, PTL DEF Spec

\* A run that was neither stopped nor failed has finished every event, and counted
\* every one of them (the submission loop, wait() and checkException() of
\* ModuleManager::run).
THEOREM NoEventLostHolds == Spec => []NoEventLost
<1>1. ASSUME TypeInv, LossInv, FinishedCountExact
      PROVE  NoEventLost
  <2> SUFFICES ASSUME outcome = "completed"
               PROVE  eventsFinished = Events /\ current = Last + 1
    BY DEF NoEventLost
  <2>1. Drained /\ pc[Main] \in {"destroy", "join", "end"}
    BY <1>1 DEF LossInv, PhaseInv
  <2>2. completed = {} /\ Marked = {} /\ current = Last + 1
    BY <2>1 DEF Drained, Marked
  <2>3. eventsFinished + 0 = current - (Skip + 1) + 0
    BY <1>1, <2>1, <2>2, FS_EmptySet DEF FinishedCountExact
  <2>4. eventsFinished \in Nat
    BY <1>1, CountTyped DEF CountTypes
  <2> QED
    BY <2>2, <2>3, <2>4, EventLoopAssumption DEF Last
<1> QED
  BY <1>1, LossInvariant, FinishedCountExactHolds, TypeInvariant, PTL

-----------------------------------------------------------------------------
(***************************************************************************)
(* Proofs for any constants that an event of EventLoop that is taken up    *)
(* again, by whatever worker, continues its own sequence of random         *)
(* numbers; and that EventLoop implements EventOrder: every step starts an *)
(* event, enters or leaves a sequential module, finishes an event, or      *)
(* changes nothing that the modules could see.                             *)
(***************************************************************************)

(* The state of the engine of an event that was started is in one place:   *)
(* with the worker that moves it, or stored with the event.                *)

Stored(e) == position[e] # 0 /\ saved[e] = drawn[e]

\* An event that was submitted and has left the standard queue.
Left(e) == e <= LastSubmitted /\ \A i \in 1 .. Len(queue) : e < queue[i]

EventFresh(e) ==
    /\ position[e] = 0 => drawn[e] = 0 /\ saved[e] = Nothing
    /\ position[e] # 0 => Left(e)

EngineOf(w) ==
    /\ pc[w] = "taken" => position[event[w]] = 0 \/ Stored(event[w])
    /\ pc[w] \in {"module", "running"} =>
         /\ position[event[w]] # 0 /\ saved[event[w]] = Nothing
         /\ engine[w] = [seed |-> event[w], draws |-> drawn[event[w]]]
    /\ pc[w] = "requeue" => Stored(event[w])
    /\ pc[w] = "finish" => position[event[w]] # 0

EngineInv ==
    /\ \A e \in EventIds : EventFresh(e)
    /\ \A e \in buffered : Stored(e)
    /\ \A w \in Workers : EngineOf(w)

EngineTypes ==
    /\ NumberTypes /\ queue \in Seq(EventIds)
    /\ position \in [EventIds -> Nat] /\ drawn \in [EventIds -> Nat]
    /\ saved \in [EventIds -> Nat \cup {Nothing}]
    /\ engine \in [Workers -> [seed : EventIds \cup {Nothing}, draws : Nat]]
    /\ Nothing \notin Nat

\* The typing invariant gives these types.
LEMMA EngineTyped == TypeInv => EngineTypes
BY NumberTyped, EventLoopAssumption DEF TypeInv, TypeOK, EngineTypes

\* No event has been started at first.
LEMMA EngineInit == Init => EngineInv
<1> SUFFICES ASSUME Init PROVE EngineInv
  OBVIOUS
<1>1. \A e \in EventIds : position[e] = 0 /\ drawn[e] = 0 /\ saved[e] = Nothing
  BY DEF Init
<1>2. buffered = {} /\ \A w \in Workers : pc[w] = "idle"
  BY EventLoopAssumption DEF Init, QueueInit, Threads
<1> QED
  BY <1>1, <1>2 DEF EngineInv, EventFresh, EngineOf

-----------------------------------------------------------------------------
(* What a step of a worker leaves alone.                                   *)

\* The other threads stay where they are.
LEMMA EngineOtherThreads ==
  ASSUME EngineTypes, NEW w \in Workers, WorkerStep(w)
  PROVE  /\ \A v \in Workers \ {w} : /\ pc'[v] = pc[v] /\ event'[v] = event[v]
                                     /\ engine'[v] = engine[v]
         /\ pc'[Main] = pc[Main] /\ event'[Main] = event[Main]
BY DEF EngineTypes, NumberTypes, Goto, WorkerStep, eventVars, Draw, Take, StartEvent,
       ContinueEvent, EndWorker, SkipModule, Postpone, EnterModule, LeaveModule,
       MissingDependencies, Abort, EndOfRun, Fail, Catch, Requeue, AllModulesRun,
       MarkComplete, MarkNext, FinishEvent

\* Only the event of the worker is touched.
EventKept(e) == position'[e] = position[e] /\ saved'[e] = saved[e] /\ drawn'[e] = drawn[e]

\* All other events keep their modules and engines.
LEMMA EngineOtherEvents ==
  ASSUME EngineTypes, NEW w \in Workers, WorkerStep(w)
  PROVE  /\ \A e \in EventIds : e # event[w] => EventKept(e)
         /\ pc[w] \notin HoldingLabels \/ pc[w] = "requeue" => \A e \in EventIds : EventKept(e)
<1>1. \A e \in EventIds : e # event[w] => EventKept(e)
  BY DEF EngineTypes, EventKept, WorkerStep, eventVars, Draw, NextModule, StoreEngine, Take,
       StartEvent, ContinueEvent, EndWorker, SkipModule, Postpone, EnterModule, LeaveModule,
       MissingDependencies, Abort, EndOfRun, Fail, Catch, Requeue, AllModulesRun,
       MarkComplete, MarkNext, FinishEvent
<1>2. ASSUME pc[w] \notin HoldingLabels \/ pc[w] = "requeue"
      PROVE  UNCHANGED <<position, saved, drawn>>
  BY <1>2 DEF HoldingLabels, WorkerStep, eventVars, Take,
       StartEvent, ContinueEvent, EndWorker, SkipModule, Postpone, EnterModule, LeaveModule,
       MissingDependencies, Abort, EndOfRun, Fail, Catch, Requeue, AllModulesRun,
       MarkComplete, MarkNext, FinishEvent
<1> QED
  BY <1>1, <1>2 DEF EventKept

\* The queues lose events, or the worker's own one is buffered.
LEMMA EngineQueues ==
  ASSUME NEW w \in Workers, WorkerStep(w)
  PROVE  /\ \/ queue' = queue
            \/ queue # <<>> /\ queue' = Tail(queue)
            \/ queue' = <<>>
         /\ \/ buffered' \in SUBSET buffered
            \/ pc[w] = "requeue" /\ buffered' = buffered \cup {event[w]}
<1>1. CASE Take(w)
  BY <1>1 DEF Take, PopPriority, PopStandard, StandardReady
<1>2. CASE Requeue(w)
  BY <1>2 DEF Requeue, PushPriority, queueVars
<1>3. CASE Catch(w)
  BY <1>3 DEF Catch, Invalidate, queueVars
<1>4. CASE MarkComplete(w) \/ MarkNext(w)
  BY <1>4, Zenon DEF MarkComplete, MarkNext, Complete, Advance
<1>5. CASE UNCHANGED queueVars
  BY <1>5 DEF queueVars
<1> QED
  BY <1>1, <1>2, <1>3, <1>4, <1>5, Zenon
     DEF WorkerStep, StartEvent, ContinueEvent, EndWorker, SkipModule, Postpone, EnterModule,
         LeaveModule, MissingDependencies, Abort, EndOfRun, Fail, AllModulesRun, FinishEvent

\* An event that has left the standard queue does not come back to it.
LEMMA LeftForGood ==
  ASSUME EngineTypes, NEW e \in EventIds, Left(e), LastSubmitted' = LastSubmitted,
         \/ queue' = queue
         \/ queue # <<>> /\ queue' = Tail(queue)
         \/ queue' = <<>>
  PROVE  Left(e)'
<1>1. CASE queue' = queue
  BY <1>1 DEF Left
<1>2. CASE queue # <<>> /\ queue' = Tail(queue)
  <2>1. /\ Len(queue') = Len(queue) - 1 /\ Len(queue) \in Nat
        /\ \A i \in 1 .. Len(queue') : queue'[i] = queue[i + 1]
    BY <1>2 DEF EngineTypes, NumberTypes
  <2> QED
    BY <2>1 DEF Left
<1>3. CASE queue' = <<>>
  BY <1>3 DEF Left
<1> QED
  BY <1>1, <1>2, <1>3

-----------------------------------------------------------------------------
(* A step of a worker, seen by itself and by the others.                   *)

\* The worker's own event.
LEMMA EngineOwn ==
  ASSUME EngineTypes, OrderInv, EngineInv, NEW w \in Workers, WorkerStep(w)
  PROVE  EngineOf(w)'
<1> USE DEF Goto, EngineOf
<1>1. w \in Threads /\ (pc[w] \in HoldingLabels => event[w] \in EventIds) /\ EngineOf(w)
  BY DEF EngineTypes, NumberTypes, Holding, EngineInv
<1>2. CASE Take(w)
  <2>1. pc'[w] = "taken" /\ UNCHANGED <<position, saved, drawn>>
    BY <1>1, <1>2 DEF Take, EngineTypes, NumberTypes
  <2>2. CASE PopPriority /\ event' = [event EXCEPT ![w] = current]
    <3>1. current \in buffered /\ event'[w] = current
      BY <1>1, <2>2 DEF PopPriority, PriorityReady, StartsAtCurrent, EngineTypes, NumberTypes
    <3> QED
      BY <2>1, <3>1 DEF EngineInv, Stored
  <2>3. CASE PopStandard /\ event' = [event EXCEPT ![w] = Head(queue)]
    <3>1. queue # <<>> /\ event'[w] = Head(queue)
      BY <1>1, <2>3 DEF PopStandard, StandardReady, EngineTypes, NumberTypes
    <3>2. PICK h \in Int : 1 \in 1 .. Len(queue) /\ h = queue[1] /\ h = Head(queue)
      BY <3>1 DEF EngineTypes, NumberTypes
    <3>3. h \in EventIds /\ ~Left(h)
      BY <3>2 DEF EngineTypes, Left
    <3>4. position[h] = 0
      BY <3>3 DEF EngineInv, EventFresh
    <3> QED
      BY <2>1, <3>1, <3>2, <3>4
  <2> QED
    BY <1>2, <2>2, <2>3 DEF Take
<1>3. ASSUME event' = event, pc'[w] \notin {"taken", "module", "running", "requeue", "finish"}
      PROVE  EngineOf(w)'
  BY <1>3
<1>4. CASE StartEvent(w)
  <2>1. /\ pc'[w] = "module" /\ event'[w] = event[w] /\ event[w] \in EventIds
        /\ position'[event[w]] = 1 /\ engine'[w] = [seed |-> event[w], draws |-> 0]
        /\ saved' = saved /\ drawn' = drawn /\ position[event[w]] = 0
    BY <1>1, <1>4 DEF StartEvent, HoldingLabels, EngineTypes, NumberTypes
  <2> QED
    BY <2>1 DEF EngineInv, EventFresh
<1>5. CASE ContinueEvent(w)
  <2>1. /\ pc'[w] = "module" /\ event'[w] = event[w] /\ event[w] \in EventIds
        /\ position' = position /\ drawn' = drawn /\ position[event[w]] # 0
        /\ saved'[event[w]] = Nothing /\ Stored(event[w])
    BY <1>1, <1>5 DEF ContinueEvent, HoldingLabels, EngineTypes, NumberTypes
  <2>2. engine'[w] = [seed |-> event[w], draws |-> drawn[event[w]]]
    BY <1>5, <2>1 DEF ContinueEvent, Stored, EngineTypes
  <2> QED
    BY <2>1, <2>2
<1>6. CASE SkipModule(w)
  <2>1. /\ pc[w] = "module" /\ pc'[w] = pc[w] /\ event'[w] = event[w] /\ event[w] \in EventIds
        /\ position'[event[w]] = position[event[w]] + 1 /\ position[event[w]] \in Nat
        /\ engine' = engine /\ saved' = saved /\ drawn' = drawn
    BY <1>1, <1>6 DEF SkipModule, NextModule, HoldingLabels, EngineTypes
  <2> QED
    BY <2>1, <1>1
<1>7. CASE Postpone(w) \/ MissingDependencies(w)
  <2>1. /\ pc[w] \in {"module", "running"} /\ pc'[w] = "requeue"
        /\ event'[w] = event[w] /\ event[w] \in EventIds
        /\ position' = position /\ drawn' = drawn
        /\ saved'[event[w]] =
             IF saved[event[w]] = Nothing THEN engine[w].draws ELSE saved[event[w]]
    BY <1>1, <1>7
       DEF Postpone, MissingDependencies, StoreEngine, HoldingLabels, EngineTypes, NumberTypes
  <2> QED
    BY <2>1, <1>1 DEF Stored
<1>8. CASE EnterModule(w) \/ AllModulesRun(w)
  <2>1. /\ pc[w] = "module" /\ pc'[w] \in {"running", "finish"} /\ UNCHANGED eventVars
    BY <1>1, <1>8 DEF EnterModule, AllModulesRun, EngineTypes, NumberTypes
  <2> QED
    BY <2>1, <1>1 DEF eventVars
<1>9. CASE LeaveModule(w) \/ EndOfRun(w)
  <2>1. /\ pc[w] = "running" /\ pc'[w] = "module" /\ event' = event /\ event[w] \in EventIds
        /\ position'[event[w]] = position[event[w]] + 1 /\ position[event[w]] \in Nat
        /\ saved' = saved /\ Draw(w)
    BY <1>1, <1>9
       DEF LeaveModule, EndOfRun, NextModule, HoldingLabels, EngineTypes, NumberTypes
  <2>2. /\ drawn'[event[w]] = drawn[event[w]] + 1
        /\ engine'[w] = [engine[w] EXCEPT !.draws = engine[w].draws + 1]
    BY <2>1 DEF Draw, EngineTypes
  <2>3. engine'[w] = [seed |-> event[w], draws |-> drawn[event[w]] + 1]
    BY <1>1, <2>1, <2>2
  <2> QED
    BY <2>1, <2>2, <2>3, <1>1
<1>10. CASE Abort(w)
  <2>1. /\ pc[w] = "running" /\ pc'[w] = "finish" /\ event' = event /\ position' = position
    BY <1>1, <1>10 DEF Abort, EngineTypes, NumberTypes
  <2> QED
    BY <2>1, <1>1
<1>11. CASE EndWorker(w) \/ Fail(w) \/ Catch(w) \/ Requeue(w) \/ MarkComplete(w) \/ FinishEvent(w)
  <2>1. pc'[w] \in {"end", "catch", "idle", "marked"} /\ event' = event
    BY <1>1, <1>11 DEF EndWorker, Fail, Catch, Requeue, MarkComplete, FinishEvent, eventVars,
         EngineTypes, NumberTypes
  <2> QED
    BY <2>1, <1>3
<1>12. CASE MarkNext(w)
  <2>1. pc'[w] = "marked" /\ event' = event
    BY <1>1, <1>12 DEF MarkNext, eventVars
  <2> QED
    BY <2>1, <1>3
<1> QED
  BY <1>2, <1>4, <1>5, <1>6, <1>7, <1>8, <1>9, <1>10, <1>11, <1>12 DEF WorkerStep

\* Every event, when a worker moves.
LEMMA EngineFreshWorker ==
  ASSUME EngineTypes, OrderInv, EngineInv, NEW w \in Workers, WorkerStep(w), NEW e \in EventIds
  PROVE  EventFresh(e)'
<1>1. LastSubmitted' = LastSubmitted
  BY EngineOtherThreads DEF LastSubmitted
<1>2. Left(e) => Left(e)'
  BY <1>1, EngineQueues, LeftForGood
<1>3. CASE EventKept(e)
  BY <1>2, <1>3 DEF EventKept, EngineInv, EventFresh
<1>4. CASE ~EventKept(e)
  <2>1. e = event[w] /\ w \in Holding
    BY <1>4, EngineOtherEvents DEF Holding
  <2>2. Left(e)
    BY <2>1 DEF OrderInv, Passed, Left
  <2>3. position'[e] # 0
    <3>1. pc[w] \in {"module", "running"} => position[e] # 0
      BY <2>1 DEF EngineInv, EngineOf
    <3>2. position[e] \in Nat
      BY DEF EngineTypes
    <3>3. CASE StartEvent(w)
      BY <2>1, <3>3 DEF StartEvent, EngineTypes
    <3>4. CASE ContinueEvent(w)
      BY <2>1, <3>4 DEF ContinueEvent
    <3>5. CASE SkipModule(w) \/ LeaveModule(w) \/ EndOfRun(w)
      BY <2>1, <3>1, <3>2, <3>5 DEF SkipModule, LeaveModule, EndOfRun, NextModule, EngineTypes
    <3>6. CASE Postpone(w) \/ MissingDependencies(w) \/ Abort(w)
      BY <3>1, <3>6 DEF Postpone, MissingDependencies, Abort
    <3>7. CASE UNCHANGED <<position, saved, drawn>>
      BY <1>4, <3>7 DEF EventKept
    <3> QED
      BY <3>3, <3>4, <3>5, <3>6, <3>7, Zenon
         DEF WorkerStep, eventVars, Take, EndWorker, EnterModule, Fail, Catch, Requeue,
             AllModulesRun, MarkComplete, MarkNext, FinishEvent
  <2> QED
    BY <1>2, <2>2, <2>3 DEF EventFresh
<1> QED
  BY <1>3, <1>4

\* Every worker, when one of them moves.
LEMMA EngineWorker ==
  ASSUME EngineTypes, OrderInv, EngineInv, NEW w \in Workers, WorkerStep(w)
  PROVE  EngineInv'
<1>1. ASSUME NEW v \in Workers, v # w
      PROVE  EngineOf(v)'
  <2>1. /\ pc'[v] = pc[v] /\ event'[v] = event[v] /\ engine'[v] = engine[v]
        /\ EngineOf(v)
    BY <1>1, EngineOtherThreads DEF EngineInv
  <2>2. CASE v \notin Holding
    BY <1>1, <2>1, <2>2 DEF EngineOf, Holding, HoldingLabels
  <2>3. CASE v \in Holding
    <3>1. event[v] \in EventIds /\ (w \in Holding => event[v] # event[w])
      BY <1>1, <2>3 DEF OrderInv, EngineTypes, NumberTypes
    <3>2. EventKept(event[v])
      BY <3>1, EngineOtherEvents DEF Holding
    <3> QED
      BY <2>1, <3>2 DEF EngineOf, EventKept, Stored
  <2> QED
    BY <2>2, <2>3
<1>2. ASSUME NEW e \in buffered'
      PROVE  Stored(e)'
  <2>1. CASE e \in buffered
    <3>1. e \in EventIds /\ (w \in Holding => e # event[w])
      BY <2>1 DEF OrderInv, EngineTypes, NumberTypes
    <3>2. EventKept(e)
      BY <3>1, EngineOtherEvents DEF Holding
    <3> QED
      BY <2>1, <3>2 DEF EngineInv, EventKept, Stored
  <2>2. CASE pc[w] = "requeue" /\ e = event[w]
    <3>1. w \in Holding /\ e \in EventIds
      BY <2>2 DEF Holding, HoldingLabels, EngineTypes, NumberTypes
    <3>2. EventKept(e)
      BY <2>2, <3>1, EngineOtherEvents
    <3> QED
      BY <2>2, <3>2 DEF EngineInv, EngineOf, EventKept, Stored
  <2> QED
    BY <1>2, <2>1, <2>2, EngineQueues
<1> QED
  BY <1>1, <1>2, EngineOwn, EngineFreshWorker DEF EngineInv

-----------------------------------------------------------------------------
(* The main thread touches neither the events nor the engines.             *)

\* What the main thread, the signal thread and a stutter leave alone.
LEMMA EngineMainKeeps ==
  ASSUME EngineTypes, MainStep \/ Interrupt \/ UNCHANGED vars
  PROVE  /\ \A w \in Workers : pc'[w] = pc[w] /\ event'[w] = event[w]
         /\ UNCHANGED <<position, engine, saved, drawn>>
         /\ buffered' \in SUBSET buffered
         /\ LastSubmitted <= LastSubmitted'
<1>1. \A w \in Workers : pc'[w] = pc[w] /\ event'[w] = event[w]
  BY DEF EngineTypes, NumberTypes, Goto, eventVars, MainStep, MarkSkipped, KeepSubmitting,
       StopSubmitting, Submit, CheckException, CheckAfterSubmit, Wait, CheckAfterWait,
       ResetPool, Destroy, Join, Interrupt, vars
<1>2. UNCHANGED <<position, engine, saved, drawn>>
  BY Zenon DEF eventVars, MainStep, MarkSkipped, KeepSubmitting, StopSubmitting, Submit,
       CheckAfterSubmit, Wait, CheckAfterWait, ResetPool, Destroy, Join, Interrupt, vars
<1>3. buffered' = buffered \/ buffered' = {}
  BY Zenon DEF queueVars, MainStep, MarkSkipped, Complete, KeepSubmitting, StopSubmitting,
       Submit, PushStandard, CheckAfterSubmit, Wait, CheckAfterWait, ResetPool, Destroy,
       Invalidate, Join, Interrupt, vars
<1>4. LastSubmitted <= LastSubmitted'
  BY DEF EngineTypes, NumberTypes, Goto, eventVars, LastSubmitted, MainStep, MarkSkipped,
       KeepSubmitting, StopSubmitting, Submit, CheckException, CheckAfterSubmit, Wait,
       CheckAfterWait, ResetPool, Destroy, Join, Interrupt, vars
<1> QED
  BY <1>1, <1>2, <1>3, <1>4

\* The main thread only appends an event that is younger than all others.
LEMMA LeftByMain ==
  ASSUME EngineTypes, MainStep \/ Interrupt \/ UNCHANGED vars, NEW e \in EventIds, Left(e)
  PROVE  Left(e)'
<1>1. LastSubmitted <= LastSubmitted' /\ LastSubmitted \in Int /\ LastSubmitted' \in Int
  <2>1. LastSubmitted \in Int
    BY DEF LastSubmitted, EngineTypes, NumberTypes
  <2>2. event'[Main] \in Int
    BY DEF EngineTypes, NumberTypes, eventVars, MainStep, MarkSkipped, KeepSubmitting,
       StopSubmitting, Submit, CheckAfterSubmit, Wait, CheckAfterWait,
       ResetPool, Destroy, Join, Interrupt, vars
  <2> QED
    BY <2>1, <2>2, EngineMainKeeps DEF LastSubmitted
<1>2. e \in Int
  BY DEF EngineTypes, NumberTypes
<1>3. CASE queue' = queue
  BY <1>1, <1>2, <1>3 DEF Left
<1>4. CASE queue' = <<>>
  BY <1>1, <1>2, <1>4 DEF Left
<1>5. CASE Submit /\ PushStandard(event[Main])
  <2>1. queue' = Append(queue, event[Main]) /\ LastSubmitted = event[Main] - 1
    BY <1>5 DEF PushStandard, Submit, LastSubmitted, EngineTypes, NumberTypes
  <2>2. /\ Len(queue') = Len(queue) + 1 /\ Len(queue) \in Nat
        /\ queue'[Len(queue) + 1] = event[Main] /\ event[Main] \in Int
        /\ \A i \in 1 .. Len(queue) : queue'[i] = queue[i]
    BY <2>1 DEF EngineTypes, NumberTypes
  <2>3. e < event[Main]
    BY <1>2, <2>1, <2>2 DEF Left
  <2>4. \A i \in 1 .. Len(queue') : i = Len(queue) + 1 \/ i \in 1 .. Len(queue)
    BY <2>2
  <2>5. \A i \in 1 .. Len(queue') : e < queue'[i]
    BY <2>2, <2>3, <2>4 DEF Left
  <2> QED
    BY <1>1, <1>2, <2>5 DEF Left
<1> QED
  BY <1>3, <1>4, <1>5, Zenon
     DEF queueVars, MainStep, MarkSkipped, Complete, KeepSubmitting, StopSubmitting,
       Submit, CheckAfterSubmit, Wait, CheckAfterWait, ResetPool, Destroy,
       Invalidate, Join, Interrupt, vars

\* A step that is not a worker's.
LEMMA EngineMain ==
  ASSUME EngineTypes, EngineInv, MainStep \/ Interrupt \/ UNCHANGED vars
  PROVE  EngineInv'
<1>1. \A e \in EventIds : EventKept(e)
  BY EngineMainKeeps DEF EventKept
<1>2. \A e \in EventIds : EventFresh(e)'
  BY <1>1, LeftByMain DEF EngineInv, EventFresh, EventKept
<1>3. \A e \in buffered' : Stored(e)'
  BY EngineMainKeeps DEF EngineInv, Stored
<1>4. ASSUME NEW w \in Workers
      PROVE  EngineOf(w)'
  <2>1. EngineOf(w)
    BY DEF EngineInv
  <2> QED
    BY <2>1, EngineMainKeeps DEF EngineOf, Stored
<1> QED
  BY <1>2, <1>3, <1>4 DEF EngineInv

-----------------------------------------------------------------------------
\* In every state the engine of a started event is with its worker or stored.
THEOREM EngineInvariant == Spec => []EngineInv
<1>1. ASSUME TypeInv, OrderInv, EngineInv, [Next]_vars
      PROVE  EngineInv'
  BY <1>1, EngineTyped, EngineWorker, EngineMain DEF Next
<1> QED
  BY <1>1, EngineInit, TypeInvariant, OrderInvariant, PTL DEF Spec

\* A module draws the next number of the event's own sequence, however often the
\* event was buffered and whichever worker continues it (the store and restore of
\* the random engine state in ModuleManager::run).
THEOREM EngineContinuesHolds == Spec => []EngineContinues
<1>1. EngineInv => EngineContinues
  BY DEF EngineInv, EngineOf, EngineContinues
<1> QED
  BY <1>1, EngineInvariant, PTL

-----------------------------------------------------------------------------
(* The abstract order of events                                            *)

LoopInv == TypeInv /\ OrderInv /\ SequenceInv /\ EngineInv

Busy == \E w \in Workers : InSequence(w)

\* The event in a sequential module is current, in this state ...
LEMMA SequenceIs ==
  ASSUME SequenceInv
  PROVE  Sequence = IF Busy THEN current ELSE Nothing
<1>1. ASSUME Busy
      PROVE  event[CHOOSE w \in Workers : InSequence(w)] = current
  <2>1. PICK w \in Workers : w = (CHOOSE v \in Workers : InSequence(v)) /\ InSequence(w)
    BY <1>1, Zenon DEF Busy
  <2> QED
    BY <2>1, Zenon DEF SequenceInv
<1> QED
  BY <1>1, Zenon DEF Busy, Sequence

\* ... and in the next one.
LEMMA SequenceIsNext ==
  ASSUME SequenceInv'
  PROVE  Sequence' = IF Busy' THEN current' ELSE Nothing
<1>1. ASSUME Busy'
      PROVE  (event[CHOOSE w \in Workers : InSequence(w)])' = current'
  <2>1. PICK w \in Workers : w = (CHOOSE v \in Workers : InSequence(v)') /\ InSequence(w)'
    BY <1>1, Zenon DEF Busy
  <2> QED
    BY <2>1, Zenon DEF SequenceInv
<1> QED
  BY <1>1, Zenon DEF Busy, Sequence

\* Sequential modules look the same when no worker enters or leaves one, and
\* current is not moved away from an event that is in one.
LEMMA SequenceSame ==
  ASSUME SequenceInv, SequenceInv', Busy' <=> Busy, Busy => current' = current
  PROVE  Sequence' = Sequence
<1>1. CASE Busy
  BY <1>1, SequenceIs, SequenceIsNext
<1>2. CASE ~Busy
  BY <1>2, SequenceIs, SequenceIsNext
<1> QED
  BY <1>1, <1>2

-----------------------------------------------------------------------------
(* The steps of a worker                                                   *)

\* The other workers neither enter nor leave a sequential module.
LEMMA OthersInSequence ==
  ASSUME LoopInv, NEW w \in Workers, WorkerStep(w), NEW v \in Workers, v # w
  PROVE  /\ (InSequence(v)' <=> InSequence(v))
         /\ InSequence(v) => current' = current
<1>1. EngineTypes /\ OrderInv
  BY EngineTyped DEF LoopInv
<1>2. pc'[v] = pc[v]
  BY <1>1, EngineOtherThreads
<1>3. CASE pc[v] # "running"
  BY <1>2, <1>3 DEF InSequence
<1>4. CASE pc[v] = "running"
  <2>1. v \in Holding
    BY <1>4 DEF Holding, HoldingLabels
  <2>2. /\ event'[v] = event[v] /\ position'[event[v]] = position[event[v]]
        /\ event[v] = current => current' = current
    BY <1>1, <2>1, OtherWorker DEF EngineTypes
  <2> QED
    BY <1>2, <2>2 DEF InSequence, Module, LoopInv, SequenceInv
<1> QED
  BY <1>3, <1>4

\* A step that leaves the worker outside, or inside, leaves the sequence alone.
LEMMA SequenceOwn ==
  ASSUME LoopInv, SequenceInv', NEW w \in Workers, WorkerStep(w),
         InSequence(w)' <=> InSequence(w), InSequence(w) => current' = current
  PROVE  Sequence' = Sequence
<1>1. \A v \in Workers : /\ (InSequence(v)' <=> InSequence(v))
                         /\ InSequence(v) => current' = current
  BY OthersInSequence
<1> QED
  BY <1>1, SequenceSame, Zenon DEF Busy, LoopInv

\* A worker that leaves a sequential module leaves none of them in use.
LEMMA SequenceLeft ==
  ASSUME LoopInv, SequenceInv', NEW w \in Workers, WorkerStep(w),
         InSequence(w), ~InSequence(w)'
  PROVE  Sequence' = Nothing
<1>1. ASSUME NEW v \in Workers, v # w
      PROVE  ~InSequence(v)
  BY <1>1 DEF LoopInv, OrderInv, SequenceInv, InSequence, Holding, HoldingLabels
<1>2. ~Busy'
  BY <1>1, OthersInSequence DEF Busy
<1> QED
  BY <1>2, SequenceIsNext, Zenon

\* An event is started by StartEvent alone, and finished by markComplete() alone.
LEMMA StartedSame ==
  ASSUME LoopInv, NEW w \in Workers, WorkerStep(w), ~StartEvent(w)
  PROVE  Started' = Started
<1> EngineTypes
  BY EngineTyped DEF LoopInv
<1>1. CASE SkipModule(w) \/ LeaveModule(w) \/ EndOfRun(w)
  <2>1. NextModule(w)
    BY <1>1 DEF SkipModule, LeaveModule, EndOfRun
  <2>2. ASSUME NEW e \in EventIds
        PROVE  position'[e] > 0 <=> position[e] > 0
    <3>1. position'[e] = position[e] \/ (e = event[w] /\ position'[e] = position[e] + 1)
      BY <2>1 DEF NextModule, EngineTypes
    <3>2. e = event[w] => position[e] # 0
      BY <1>1 DEF SkipModule, LeaveModule, EndOfRun, LoopInv, EngineInv, EngineOf
    <3>3. position[e] \in Nat
      BY DEF EngineTypes
    <3> QED
      BY <3>1, <3>2, <3>3
  <2> QED
    BY <2>2 DEF Started
<1>2. CASE position' = position
  BY <1>2 DEF Started
<1> QED
  BY <1>1, <1>2, Zenon
     DEF WorkerStep, eventVars, Take, ContinueEvent, EndWorker, Postpone, EnterModule,
         MissingDependencies, Abort, Fail, Catch, Requeue, AllModulesRun, MarkComplete,
         MarkNext, FinishEvent

\* Only the identifiers that are added become finished, whatever moves current.
LEMMA FinishedSettle ==
  ASSUME EngineTypes, NEW ids, Settle(ids)
  PROVE  Finished' = {e \in EventIds : e < current \/ e \in ids}
<1>1. current \in Nat /\ EventIds \in SUBSET Int
  BY DEF EngineTypes, NumberTypes
<1>2. CASE current \in ids /\ completed' = ids \ {current} /\ current' = current + 1
  <2>1. ASSUME NEW e \in EventIds
        PROVE  e < current' \/ e \in completed' <=> e < current \/ e \in ids
    <3>1. e \in Int
      BY <1>1
    <3>2. e < current + 1 <=> e < current \/ e = current
      BY <1>1, <3>1
    <3> QED
      BY <1>2, <3>2, Zenon
  <2> QED
    BY <2>1 DEF Finished
<1>3. CASE completed' = ids /\ current' = current
  BY <1>3 DEF Finished
<1> QED
  BY <1>2, <1>3, SettleCases

\* No other step than markComplete() finishes an event.
LEMMA FinishedSame ==
  ASSUME EngineTypes, NEW w \in Workers, WorkerStep(w), ~MarkComplete(w)
  PROVE  Finished' = Finished
<1>1. CASE MarkNext(w)
  BY <1>1, FinishedSettle DEF MarkNext, Advance, Finished
<1>2. CASE completed' = completed /\ current' = current
  BY <1>2 DEF Finished
<1> QED
  BY <1>1, <1>2, Zenon
     DEF WorkerStep, queueVars, Take, PopPriority, PopStandard, StartEvent, ContinueEvent,
         EndWorker, SkipModule, Postpone, EnterModule, LeaveModule, MissingDependencies,
         Abort, EndOfRun, Fail, Catch, Invalidate, Requeue, PushPriority, AllModulesRun,
         FinishEvent

\* A worker outside of the sequential modules comes into one by EnterModule alone.
LEMMA EnterAlone ==
  ASSUME EngineTypes, NEW w \in Workers, WorkerStep(w), InSequence(w)'
  PROVE  EnterModule(w) /\ Module(w) \in Sequential
<1>1. EnterModule(w)
  BY DEF EngineTypes, NumberTypes, InSequence, Goto, WorkerStep, Take, StartEvent,
       ContinueEvent, EndWorker, SkipModule, Postpone, EnterModule, LeaveModule,
       MissingDependencies, Abort, EndOfRun, Fail, Catch, Requeue, AllModulesRun,
       MarkComplete, MarkNext, FinishEvent
<1>2. event' = event /\ position' = position
  BY <1>1 DEF EnterModule, eventVars
<1> QED
  BY <1>1, <1>2 DEF InSequence, Module

\* Every step of a worker is a step of EventOrder or changes nothing there.
LEMMA WorkerImplements ==
  ASSUME LoopInv, SequenceInv', NEW w \in Workers, WorkerStep(w)
  PROVE  Order!Next \/ UNCHANGED <<Started, Finished, Sequence>>
<1> EngineTypes
  BY EngineTyped DEF LoopInv
<1>1. pc[w] \in HoldingLabels =>
        /\ event[w] \in EventIds /\ event[w] \in Int /\ event[w] \notin completed
        /\ current <= event[w] /\ current \in Nat
  BY DEF LoopInv, OrderInv, Passed, Holding, EngineTypes, NumberTypes
<1>2. CASE StartEvent(w)
  <2>1. /\ event[w] \in EventIds /\ position[event[w]] = 0
        /\ position' = [position EXCEPT ![event[w]] = 1] /\ pc[w] = "taken"
    BY <1>1, <1>2 DEF StartEvent, HoldingLabels
  <2>2. event[w] \notin Started /\ Started' = Started \cup {event[w]}
    BY <2>1 DEF Started, EngineTypes
  <2>3. ~InSequence(w) /\ ~InSequence(w)'
    BY <1>2, <2>1, EnterAlone DEF InSequence, StartEvent, EnterModule
  <2>4. Finished' = Finished /\ Sequence' = Sequence
    BY <1>2, <2>1, <2>3, FinishedSame, SequenceOwn DEF MarkComplete
  <2>5. Order!Start(event[w])
    BY <2>2, <2>4 DEF Order!Start
  <2> QED
    BY <2>1, <2>5 DEF Order!Next
<1>3. CASE EnterModule(w) /\ Module(w) \in Sequential
  <2>1. /\ pc[w] = "module" /\ event[w] = current
        /\ pc'[w] = "running" /\ UNCHANGED eventVars /\ UNCHANGED queueVars
    BY <1>3 DEF EnterModule, Goto, EngineTypes, NumberTypes
  <2>2. InSequence(w)' /\ current' = current
    BY <1>3, <2>1 DEF InSequence, Module, eventVars, queueVars
  <2>3. Busy' /\ Sequence' = event[w]
    BY <2>1, <2>2, SequenceIsNext DEF Busy
  <2>4. ~Busy /\ Sequence = Nothing
    <3>1. ASSUME NEW v \in Workers, InSequence(v)
          PROVE  FALSE
      BY <2>1, <3>1 DEF LoopInv, SequenceInv, OrderInv, InSequence, Holding, HoldingLabels
    <3> QED
      BY <3>1, SequenceIs, Zenon DEF Busy, LoopInv
  <2>5. event[w] \in EventIds /\ event[w] \in Started \ Finished
    <3>1. event[w] \in EventIds /\ event[w] \notin completed /\ ~(event[w] < current)
      BY <1>1, <2>1 DEF HoldingLabels
    <3>2. position[event[w]] # 0 /\ position[event[w]] \in Nat
      BY <2>1, <3>1 DEF LoopInv, EngineInv, EngineOf, EngineTypes
    <3> QED
      BY <3>1, <3>2 DEF Started, Finished
  <2>6. \A f \in EventIds : f < event[w] => f \in Finished
    BY <2>1 DEF Finished
  <2>7. Started' = Started /\ Finished' = Finished
    BY <2>1, FinishedSame, StartedSame DEF StartEvent, MarkComplete
  <2>8. Order!EnterSequence(event[w])
    BY <2>3, <2>4, <2>5, <2>6, <2>7 DEF Order!EnterSequence
  <2> QED
    BY <2>5, <2>8 DEF Order!Next
<1>4. CASE MarkComplete(w)
  <2>1. /\ pc[w] = "finish" /\ Settle(completed \cup {event[w]})
        /\ event[w] \in EventIds /\ position[event[w]] # 0
    BY <1>1, <1>4 DEF MarkComplete, Complete, HoldingLabels, LoopInv, EngineInv, EngineOf
  <2>2. event[w] \in Started \ Finished
    BY <1>1, <2>1 DEF HoldingLabels, Started, Finished, EngineTypes
  <2>3. Finished' = Finished \cup {event[w]}
    BY <2>1, FinishedSettle DEF Finished
  <2>4. ~InSequence(w) /\ ~InSequence(w)'
    BY <2>1, EnterAlone DEF InSequence, EnterModule
  <2>5. Started' = Started /\ Sequence' = Sequence
    BY <2>1, <2>4, StartedSame, SequenceOwn DEF StartEvent
  <2>6. event[w] # Sequence
    <3>1. ASSUME NEW v \in Workers, InSequence(v)
          PROVE  event[w] # current
      BY <2>1, <3>1 DEF LoopInv, SequenceInv, OrderInv, InSequence, Holding, HoldingLabels
    <3>2. event[w] # Nothing
      BY <2>1, EventLoopAssumption DEF EventIds, Last
    <3> QED
      BY <3>1, <3>2, SequenceIs DEF Busy, LoopInv
  <2>7. Order!Finish(event[w])
    BY <2>2, <2>3, <2>5, <2>6 DEF Order!Finish
  <2> QED
    BY <2>1, <2>7 DEF Order!Next
<1>5. CASE InSequence(w)
  <2>1. pc[w] = "running"
    BY <1>5 DEF InSequence
  <2>2. ~InSequence(w)'
    BY <2>1, EnterAlone DEF EnterModule
  <2>3. Sequence' = Nothing
    BY <1>5, <2>2, SequenceLeft
  <2>4. Started' = Started /\ Finished' = Finished
    BY <2>1, FinishedSame, StartedSame DEF StartEvent, MarkComplete
  <2> QED
    BY <2>3, <2>4 DEF Order!Next, Order!LeaveSequence
<1>6. ASSUME ~StartEvent(w), ~(EnterModule(w) /\ Module(w) \in Sequential),
             ~MarkComplete(w), ~InSequence(w)
      PROVE  UNCHANGED <<Started, Finished, Sequence>>
  <2>1. ~InSequence(w)'
    BY <1>6, EnterAlone
  <2> QED
    BY <1>6, <2>1, StartedSame, FinishedSame, SequenceOwn
<1> QED
  BY <1>2, <1>3, <1>4, <1>5, <1>6

-----------------------------------------------------------------------------
\* The main thread and the signal thread change nothing that modules could see:
\* the identifiers that are marked complete in advance belong to no event.
LEMMA MainImplements ==
  ASSUME LoopInv, SequenceInv', MainStep \/ Interrupt \/ UNCHANGED vars
  PROVE  UNCHANGED <<Started, Finished, Sequence>>
<1> EngineTypes
  BY EngineTyped DEF LoopInv
<1>1. /\ \A w \in Workers : pc'[w] = pc[w] /\ event'[w] = event[w]
      /\ position' = position
  BY EngineMainKeeps
<1>2. Busy' <=> Busy
  BY <1>1 DEF Busy, InSequence, Module
<1>3. Busy => current' = current
  BY <1>1, MainKeepsEvents DEF Busy, InSequence, HoldingLabels, LoopInv, EngineTypes
<1>4. Sequence' = Sequence
  BY <1>2, <1>3, SequenceSame DEF LoopInv
<1>5. Started' = Started
  BY <1>1 DEF Started
<1>6. Finished' = Finished
  <2>1. CASE MarkSkipped
    <3>1. Settle(completed \cup {event[Main]}) /\ event[Main] <= Skip
      BY <2>1 DEF MarkSkipped, Complete, LoopInv, TypeInv
    <3>2. event[Main] \notin EventIds
      BY <3>1, EventLoopAssumption DEF EngineTypes, NumberTypes
    <3> QED
      BY <3>1, <3>2, FinishedSettle DEF Finished
  <2>2. CASE completed' = completed /\ current' = current
    BY <2>2 DEF Finished
  <2> QED
    BY <2>1, <2>2, Zenon
       DEF queueVars, MainStep, KeepSubmitting, StopSubmitting, Submit, PushStandard,
         CheckAfterSubmit, Wait, CheckAfterWait, ResetPool, Destroy, Invalidate, Join,
         Interrupt, vars
<1> QED
  BY <1>4, <1>5, <1>6

\* No event is started, finished or in a module at first.
LEMMA InitImplements == Init => Order!Init
<1> SUFFICES ASSUME Init PROVE Order!Init
  OBVIOUS
<1>1. Started = {}
  BY DEF Init, Started
<1>2. Finished = {}
  BY EventLoopAssumption DEF Init, QueueInit, Finished, EventIds, Last
<1>3. Sequence = Nothing
  BY EventLoopAssumption, Zenon DEF Init, Sequence, InSequence, Threads
<1> QED
  BY <1>1, <1>2, <1>3 DEF Order!Init

\* The event loop implements the abstract order of events: sequential modules see
\* one event at a time, and an event only when all earlier ones are finished.
THEOREM ImplementsEventOrderHolds == Spec => ImplementsEventOrder
<1>1. ASSUME LoopInv, SequenceInv', [Next]_vars
      PROVE  [Order!Next]_<<Started, Finished, Sequence>>
  BY <1>1, WorkerImplements, MainImplements DEF Next
<1>2. Spec => []LoopInv
  BY TypeInvariant, OrderInvariant, SequenceInvariant, EngineInvariant, PTL DEF LoopInv
<1> QED
  BY <1>1, <1>2, InitImplements, SequenceInvariant, PTL
     DEF Spec, ImplementsEventOrder, Order!Spec
=============================================================================

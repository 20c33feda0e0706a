-------------------------- MODULE SafeQueueProofs --------------------------
(***************************************************************************)
(* Proofs about SafeQueue for any numbers of workers, tasks and places: no *)
(* completion is lost, the queue is sound whenever the mutex is free, and  *)
(* its member functions behave like the operations of OrderedQueue.        *)
(***************************************************************************)
EXTENDS SafeQueue, FiniteSetTheorems, SequenceTheorems, WellFoundedInduction, TLAPS

Tasks == (Skip + 1) .. Last

MainLabels == {"mark", "push", "pushWait", "pushed", "erased", "relocked", "end"}
HoldingLabels == {"notifyPop", "notifyPush", "task", "requeue"}
WorkerLabels == HoldingLabels \cup {"pop", "popWait", "requeued", "erased", "relocked", "end"}

\* The main thread still marks the skipped identifiers.
Marking == pc[Main] \in {"mark", "erased", "relocked"}

TypeInv ==
    /\ queue \in Seq(Tasks) /\ buffered \in SUBSET Tasks
    /\ completed \in SUBSET Ids /\ current \in Nat
    /\ pc \in [Threads -> MainLabels \cup WorkerLabels]
    /\ pc[Main] \in MainLabels /\ \A w \in Workers : pc[w] \in WorkerLabels
    /\ held \in [Threads -> Int] /\ iter \in [Threads -> Ids \cup {End}]
    /\ Marking => held[Main] \in 0 .. Skip
    /\ pc[Main] \in {"push", "pushWait", "pushed"} => held[Main] \in Tasks
    /\ \A w \in Holding : held[w] \in Tasks

\* The sets of numbers and threads these proofs work with.
NumberSets ==
    /\ Tasks \in SUBSET Ids /\ Ids \in SUBSET Nat /\ Ids \in SUBSET Int /\ 0 .. Skip \in SUBSET Ids
    /\ \A n \in Tasks : n > Skip /\ n <= Last
    /\ Skip \in Nat /\ Last \in Nat /\ Skip < Last
    /\ Main \in Threads /\ Main \notin Workers /\ \A w \in Workers : w \in Threads /\ w # Main
    /\ \A t \in Threads : t = Main \/ t \in Workers
    /\ End \notin Nat

\* They follow from the assumptions.
LEMMA Numbers == NumberSets
BY ThreadsAssumption DEF NumberSets, Tasks, Last, Threads, End

\* The queue is empty and the main thread marks at first.
LEMMA TypeInit == Init => TypeInv
<1> SUFFICES ASSUME Init PROVE TypeInv
  OBVIOUS
<1>1. pc[Main] = "mark" /\ held[Main] = 0 /\ \A w \in Workers : pc[w] = "pop"
  BY Numbers DEF Init, NumberSets
<1>2. pc \in [Threads -> MainLabels \cup WorkerLabels]
  BY DEF Init, MainLabels, WorkerLabels
<1>3. held \in [Threads -> Int] /\ iter \in [Threads -> Ids \cup {End}]
  BY DEF Init
<1>4. queue \in Seq(Tasks) /\ buffered = {} /\ completed = {} /\ current = 0
  BY DEF Init, QueueInit
<1> QED
  BY <1>1, <1>2, <1>3, <1>4, Numbers
     DEF TypeInv, MainLabels, WorkerLabels, Holding, Marking, NumberSets

-----------------------------------------------------------------------------
(* What the steps have in common                                           *)

\* Settle moves current only over an identifier that is complete.
LEMMA SettleCases ==
  ASSUME NEW ids, Settle(ids)
  PROVE  \/ /\ current \in ids /\ \A n \in ids : current <= n
            /\ completed' = ids \ {current} /\ current' = current + 1
         \/ /\ current \notin ids \/ \E n \in ids : ~(current <= n)
            /\ completed' = ids /\ current' = current
BY Zenon DEF Settle, StartsAtCurrent

\* A step of one thread leaves the others where they are.
LEMMA OtherThreads ==
  ASSUME TypeInv, NEW t \in Threads,
         \/ t \in Workers /\ WorkerStep(t)
         \/ t = Main /\ MainStep
  PROVE  \A s \in Threads \ {t} : pc'[s] = pc[s] /\ held'[s] = held[s] /\ iter'[s] = iter[s]
BY DEF TypeInv, Goto, WorkerStep, MainStep, CompleteStep, ReturnFromComplete, PopInvalid,
       PopBuffered, PopQueued, PopBlock, PopNotifyPop, PopNotifyPush, Defer, Requeue,
       RequeueRefused, RequeueNotify, CompleteInsert, CompleteNotify, CompleteAtEnd,
       CompleteReturn, CompleteNext, PushBlock, PushInvalid, Push, PushNotify

\* FirstOf is the least element of a set of numbers, or the end.
LEMMA FirstOfLeast ==
  ASSUME NEW S, S \subseteq Nat
  PROVE  \/ S = {} /\ FirstOf(S) = End
         \/ FirstOf(S) \in S /\ \A n \in S : FirstOf(S) <= n
<1>1. CASE S = {}
  BY <1>1 DEF FirstOf
<1>2. CASE S # {}
  <2>1. PICK x \in S : \A y \in S : ~(<<y, x>> \in OpToRel(<, Nat))
    BY <1>2, NatLessThanWellFounded, WFMin
  <2>2. \A y \in S : <<y, x>> \notin OpToRel(<, Nat) => x <= y
    BY DEF OpToRel
  <2>3. \A y \in S : x <= y
    BY <2>1, <2>2
  <2>4. Min(S) \in S /\ \A y \in S : Min(S) <= y
    BY <2>3 DEF Min
  <2> QED
    BY <1>2, <2>4 DEF FirstOf
<1> QED
  BY <1>1, <1>2

-----------------------------------------------------------------------------
(* Types                                                                   *)

QueueTyped ==
    /\ queue \in Seq(Tasks) /\ buffered \in SUBSET Tasks
    /\ completed \in SUBSET Ids /\ current \in Nat

\* A step of worker w that goes to label, with a task if it has to have one.
LEMMA TypeWorker ==
  ASSUME TypeInv, NEW w \in Workers, NEW label \in WorkerLabels, QueueTyped',
         pc' = [pc EXCEPT ![w] = label],
         held' = held \/ \E n \in Int : held' = [held EXCEPT ![w] = n],
         label \in HoldingLabels => held'[w] \in Tasks,
         iter' \in [Threads -> Ids \cup {End}]
  PROVE  TypeInv'
<1>1. w \in Threads /\ Main \in Threads /\ w # Main /\ \A v \in Workers : v \in Threads
  BY Numbers DEF NumberSets
<1>2. /\ pc' \in [Threads -> MainLabels \cup WorkerLabels] /\ held' \in [Threads -> Int]
      /\ pc'[w] = label /\ \A t \in Threads \ {w} : pc'[t] = pc[t] /\ held'[t] = held[t]
  BY <1>1 DEF TypeInv
<1>3. (pc[Main] \in MainLabels /\ \A v \in Workers : pc[v] \in WorkerLabels)'
  BY <1>1, <1>2 DEF TypeInv
<1>4. (/\ Marking => held[Main] \in 0 .. Skip
       /\ pc[Main] \in {"push", "pushWait", "pushed"} => held[Main] \in Tasks)'
  BY <1>1, <1>2 DEF TypeInv, Marking
<1>5. \A v \in Holding' : held'[v] \in Tasks
  BY <1>1, <1>2 DEF TypeInv, Holding, HoldingLabels
<1> QED
  BY <1>2, <1>3, <1>4, <1>5 DEF TypeInv, QueueTyped

\* A step of the main thread.
LEMMA TypeMain ==
  ASSUME TypeInv, NEW label \in MainLabels, QueueTyped',
         pc' = [pc EXCEPT ![Main] = label],
         held' = held \/ held' = [held EXCEPT ![Main] = @ + 1],
         label \in {"mark", "erased", "relocked"} => held'[Main] \in 0 .. Skip,
         label \in {"push", "pushWait", "pushed"} => held'[Main] \in Tasks,
         iter' \in [Threads -> Ids \cup {End}]
  PROVE  TypeInv'
<1>1. Main \in Threads /\ \A v \in Workers : v \in Threads /\ v # Main
  BY Numbers DEF NumberSets
<1>2. /\ pc' \in [Threads -> MainLabels \cup WorkerLabels] /\ held' \in [Threads -> Int]
      /\ pc'[Main] = label /\ \A v \in Workers : pc'[v] = pc[v] /\ held'[v] = held[v]
  BY <1>1 DEF TypeInv
<1>3. (pc[Main] \in MainLabels /\ \A v \in Workers : pc[v] \in WorkerLabels)'
  BY <1>1, <1>2 DEF TypeInv
<1>4. (/\ Marking => held[Main] \in 0 .. Skip
       /\ pc[Main] \in {"push", "pushWait", "pushed"} => held[Main] \in Tasks)'
  BY <1>2 DEF Marking
<1>5. \A v \in Holding' : held'[v] \in Tasks
  BY <1>2 DEF TypeInv, Holding
<1> QED
  BY <1>2, <1>3, <1>4, <1>5 DEF TypeInv, QueueTyped

\* What one turn of the loop of complete() leaves is typed.
LEMMA TypeSettle ==
  ASSUME TypeInv, NEW ids \in SUBSET Ids, Settle(ids),
         queue' = queue, buffered' = buffered
  PROVE  QueueTyped' /\ FirstOf(completed') \in Ids \cup {End}
<1>1. completed' \in SUBSET Ids /\ current' \in Nat
  BY SettleCases DEF TypeInv
<1>2. FirstOf(completed') \in Ids \cup {End}
  BY <1>1, FirstOfLeast, Numbers DEF NumberSets
<1> QED
  BY <1>1, <1>2 DEF TypeInv, QueueTyped

\* A further turn of the loop is one, too.
LEMMA TypeAdvance ==
  ASSUME TypeInv, NEW t \in Threads, CompleteNext(t)
  PROVE  QueueTyped' /\ FirstOf(completed') \in Ids \cup {End}
<1>1. completed' \in SUBSET Ids /\ current' \in Nat
  BY DEF TypeInv, CompleteNext
<1>2. FirstOf(completed') \in Ids \cup {End}
  BY <1>1, FirstOfLeast, Numbers DEF NumberSets
<1> QED
  BY <1>1, <1>2 DEF TypeInv, QueueTyped, CompleteNext

\* The worker's steps keep the types.
LEMMA TypeWorkerStep ==
  ASSUME TypeInv, NEW w \in Workers, WorkerStep(w)
  PROVE  TypeInv'
<1> USE DEF Goto
<1>0. /\ QueueTyped /\ iter \in [Threads -> Ids \cup {End}]
      /\ w \in Threads /\ Tasks \in SUBSET Ids /\ Tasks \in SUBSET Int /\ w # Main
  BY Numbers DEF TypeInv, QueueTyped, NumberSets
<1>1. ASSUME UNCHANGED queueVars PROVE QueueTyped'
  BY <1>0, <1>1 DEF QueueTyped, queueVars
<1>2. CASE PopInvalid(w) \/ PopBlock(w) \/ RequeueRefused(w) \/ RequeueNotify(w)
  BY <1>0, <1>1, <1>2, TypeWorker
     DEF PopInvalid, PopBlock, RequeueRefused, RequeueNotify, WorkerLabels, HoldingLabels
<1>3. CASE PopNotifyPop(w) \/ PopNotifyPush(w) \/ Defer(w)
  <2>1. held[w] \in Tasks
    BY <1>3 DEF PopNotifyPop, PopNotifyPush, Defer, TypeInv, Holding
  <2> QED
    BY <1>0, <1>1, <1>3, <2>1, TypeWorker
       DEF PopNotifyPop, PopNotifyPush, Defer, WorkerLabels, HoldingLabels
<1>4. CASE PopBuffered(w)
  <2>1. current \in Tasks /\ current \in Int /\ QueueTyped'
    BY <1>4, <1>0 DEF PopBuffered, PopPriority, PriorityReady, StartsAtCurrent, QueueTyped
  <2>2. held' = [held EXCEPT ![w] = current] /\ held'[w] = current
    BY <1>0, <1>4 DEF PopBuffered, TypeInv
  <2> QED
    BY <1>0, <1>4, <2>1, <2>2, TypeWorker DEF PopBuffered, WorkerLabels, HoldingLabels
<1>5. CASE PopQueued(w)
  <2>1. queue # <<>> /\ queue' = Tail(queue) /\ UNCHANGED <<buffered, completed, current>>
    BY <1>5 DEF PopQueued, PopStandard, StandardReady
  <2>a. queue \in Seq(Tasks)
    BY <1>0 DEF QueueTyped
  <2>b. Head(queue) \in Tasks /\ Tail(queue) \in Seq(Tasks)
    BY <2>1, <2>a
  <2>2. Head(queue) \in Tasks /\ Head(queue) \in Int /\ QueueTyped'
    BY <1>0, <2>1, <2>b DEF QueueTyped
  <2>3. held' = [held EXCEPT ![w] = Head(queue)] /\ held'[w] = Head(queue)
    BY <1>0, <1>5 DEF PopQueued, TypeInv
  <2> QED
    BY <1>0, <1>5, <2>2, <2>3, TypeWorker DEF PopQueued, WorkerLabels, HoldingLabels
<1>6. CASE Requeue(w)
  <2>1. held[w] \in Tasks
    BY <1>6 DEF Requeue, TypeInv, Holding
  <2>2. QueueTyped'
    BY <1>0, <1>6, <2>1 DEF Requeue, PushPriority, QueueTyped
  <2> QED
    BY <1>0, <1>6, <2>2, TypeWorker DEF Requeue, WorkerLabels, HoldingLabels
<1>7. CASE CompleteInsert(w)
  <2>1. held[w] \in Tasks
    <3>1. pc[w] \in WorkerLabels
      BY DEF TypeInv
    <3> QED
      BY <1>7, <3>1 DEF CompleteInsert, TypeInv, Holding, WorkerLabels, HoldingLabels
  <2>2. QueueTyped' /\ FirstOf(completed') \in Ids \cup {End}
    <3>1. completed \cup {held[w]} \in SUBSET Ids
      BY <1>0, <2>1 DEF QueueTyped
    <3> QED
      BY <1>7, <3>1, TypeSettle DEF CompleteInsert, Complete
  <2>3. PICK label \in {"erased", "pop"} : pc' = [pc EXCEPT ![w] = label] /\ held' = held
    BY <1>0, <1>7 DEF CompleteInsert, ReturnFromComplete
  <2>4. iter' \in [Threads -> Ids \cup {End}]
    BY <1>0, <1>7, <2>2 DEF CompleteInsert
  <2> QED
    BY <2>2, <2>3, <2>4, TypeWorker DEF WorkerLabels, HoldingLabels
<1>8. CASE CompleteNotify(w) \/ CompleteAtEnd(w) \/ CompleteReturn(w)
  BY <1>0, <1>1, <1>8, TypeWorker
     DEF CompleteNotify, CompleteAtEnd, CompleteReturn, ReturnFromComplete, WorkerLabels,
         HoldingLabels
<1>9. CASE CompleteNext(w)
  <2>1. iter' \in [Threads -> Ids \cup {End}] /\ QueueTyped'
    BY <1>0, <1>9, TypeAdvance DEF CompleteNext
  <2> QED
    BY <1>9, <2>1, TypeWorker DEF CompleteNext, WorkerLabels, HoldingLabels
<1> QED
  BY <1>2, <1>3, <1>4, <1>5, <1>6, <1>7, <1>8, <1>9 DEF WorkerStep, CompleteStep

\* The main thread's steps keep the types.
LEMMA TypeMainStep ==
  ASSUME TypeInv, MainStep
  PROVE  TypeInv'
<1> USE DEF Goto
<1>0. /\ QueueTyped /\ iter \in [Threads -> Ids \cup {End}] /\ held[Main] \in Int
      /\ Main \in Threads /\ 0 .. Skip \in SUBSET Ids /\ Tasks \in SUBSET Ids
      /\ Skip \in Nat /\ Last \in Nat /\ Skip < Last
  BY Numbers DEF TypeInv, QueueTyped, NumberSets
<1>1. ASSUME UNCHANGED queueVars PROVE QueueTyped'
  BY <1>0, <1>1 DEF QueueTyped, queueVars
<1>m. /\ Marking => held[Main] \in 0 .. Skip
      /\ pc[Main] \in {"push", "pushWait", "pushed"} => held[Main] \in Tasks
  BY DEF TypeInv
<1>r. ASSUME Marking, ReturnFromComplete(Main), QueueTyped', iter' \in [Threads -> Ids \cup {End}]
      PROVE  TypeInv'
  <2>1. /\ held' = [held EXCEPT ![Main] = @ + 1] /\ held'[Main] = held[Main] + 1
        /\ pc' = [pc EXCEPT ![Main] = IF held[Main] = Skip THEN "push" ELSE "mark"]
    BY <1>r, <1>0 DEF ReturnFromComplete, TypeInv
  <2>2. held[Main] = Skip => held'[Main] \in Tasks
    BY <1>0, <2>1 DEF Tasks
  <2>3. held[Main] # Skip => held'[Main] \in 0 .. Skip
    BY <1>0, <1>m, <1>r, <2>1
  <2> QED
    BY <1>r, <2>1, <2>2, <2>3, TypeMain DEF MainLabels
<1>2. CASE PushBlock \/ PushInvalid
  BY <1>0, <1>1, <1>m, <1>2, TypeMain DEF PushBlock, PushInvalid, PushEnter, MainLabels
<1>3. CASE Push
  <2>1. held[Main] \in Tasks
    BY <1>3, <1>m DEF Push, PushEnter
  <2>2. QueueTyped'
    BY <1>0, <1>3, <2>1 DEF Push, PushStandard, QueueTyped
  <2> QED
    BY <1>0, <1>3, <2>1, <2>2, TypeMain DEF Push, MainLabels
<1>4. CASE PushNotify
  <2>1. /\ held' = [held EXCEPT ![Main] = @ + 1] /\ held'[Main] = held[Main] + 1
        /\ pc' = [pc EXCEPT ![Main] = IF held[Main] = Last THEN "end" ELSE "push"]
    BY <1>4, <1>0 DEF PushNotify, TypeInv
  <2>2. held[Main] # Last => held'[Main] \in Tasks
    BY <1>0, <1>4, <1>m, <2>1 DEF Tasks, PushNotify
  <2>3. QueueTyped' /\ iter' = iter
    BY <1>1, <1>4 DEF PushNotify
  <2> QED
    BY <1>0, <2>1, <2>2, <2>3, TypeMain DEF MainLabels
<1>5. CASE CompleteInsert(Main)
  <2>1. held[Main] \in 0 .. Skip /\ Marking
    <3>1. pc[Main] \in MainLabels
      BY DEF TypeInv
    <3> QED
      BY <1>5, <1>m, <3>1 DEF CompleteInsert, MainLabels, Marking
  <2>2. QueueTyped' /\ FirstOf(completed') \in Ids \cup {End}
    <3>1. completed \cup {held[Main]} \in SUBSET Ids
      BY <1>0, <2>1 DEF QueueTyped
    <3> QED
      BY <1>5, <3>1, TypeSettle DEF CompleteInsert, Complete
  <2>3. iter' \in [Threads -> Ids \cup {End}]
    BY <1>0, <1>5, <2>2 DEF CompleteInsert
  <2>4. \/ ReturnFromComplete(Main)
        \/ pc' = [pc EXCEPT ![Main] = "erased"] /\ held' = held
    BY <1>5 DEF CompleteInsert
  <2> QED
    BY <1>r, <2>1, <2>2, <2>3, <2>4, TypeMain DEF MainLabels
<1>6. CASE CompleteNotify(Main)
  <2>1. held[Main] \in 0 .. Skip
    BY <1>6, <1>m DEF CompleteNotify, Marking
  <2> QED
    BY <1>0, <1>1, <1>6, <2>1, TypeMain DEF CompleteNotify, MainLabels
<1>7. CASE CompleteAtEnd(Main) \/ CompleteReturn(Main)
  BY <1>0, <1>1, <1>r, <1>7 DEF CompleteAtEnd, CompleteReturn, Marking
<1>8. CASE CompleteNext(Main)
  <2>1. iter' \in [Threads -> Ids \cup {End}] /\ QueueTyped'
    BY <1>0, <1>8, TypeAdvance DEF CompleteNext
  <2>2. held[Main] \in 0 .. Skip
    BY <1>8, <1>m DEF CompleteNext, Marking
  <2> QED
    BY <1>8, <2>1, <2>2, TypeMain DEF CompleteNext, MainLabels
<1> QED
  BY <1>2, <1>3, <1>4, <1>5, <1>6, <1>7, <1>8 DEF MainStep, CompleteStep

\* Steps that leave the threads where they are.
StillStep ==
    /\ UNCHANGED <<pc, held, iter, completed, current>>
    /\ \/ UNCHANGED <<queue, buffered, valid>>
       \/ queue' = <<>> /\ buffered' = {} /\ valid' = FALSE

\* Invalidation and wakeups are such steps.
LEMMA NextCases ==
  ASSUME [Next]_vars
  PROVE  (\E w \in Workers : WorkerStep(w)) \/ MainStep \/ StillStep
<1>1. ASSUME InvalidateAll PROVE StillStep
  BY <1>1, Zenon DEF InvalidateAll, Invalidate, StillStep
<1>2. ASSUME SpuriousWakeup \/ UNCHANGED vars PROVE StillStep
  BY <1>2, Zenon DEF SpuriousWakeup, vars, queueVars, StillStep
<1> QED
  BY <1>1, <1>2 DEF Next

\* Every step keeps the types.
LEMMA TypeNext == TypeInv /\ [Next]_vars => TypeInv'
<1> SUFFICES ASSUME TypeInv, [Next]_vars PROVE TypeInv'
  OBVIOUS
<1>1. ASSUME StillStep PROVE TypeInv'
  <2>1. QueueTyped'
    <3>1. (queue' = queue /\ buffered' = buffered) \/ (queue' = <<>> /\ buffered' = {})
      BY <1>1, Zenon DEF StillStep
    <3>2. completed' = completed /\ current' = current
      BY <1>1, Zenon DEF StillStep
    <3>3. queue \in Seq(Tasks) /\ buffered \in SUBSET Tasks /\ <<>> \in Seq(Tasks)
      BY DEF TypeInv
    <3>4. completed \in SUBSET Ids /\ current \in Nat
      BY DEF TypeInv
    <3> QED
      BY <3>1, <3>2, <3>3, <3>4, Zenon DEF QueueTyped
  <2> QED
    BY <1>1, <2>1 DEF StillStep, TypeInv, QueueTyped, Holding, Marking
<1> QED
  BY <1>1, NextCases, TypeWorkerStep, TypeMainStep

\* The numbers, sequences and places of SafeQueue are typed in every state.
THEOREM TypeInvariant == Spec => []TypeInv
BY TypeInit, TypeNext, PTL DEF Spec

-----------------------------------------------------------------------------
(* Order.  Every task has one place, the standard queue holds the youngest *)
(* of the pushed tasks in order, and nothing is behind current.            *)

\* The last identifier the main thread marked or pushed.
LastPushed ==
    IF pc[Main] \in {"pushed", "erased", "relocked"} THEN held[Main] ELSE held[Main] - 1

\* A task that has left the standard queue.
Passed(n) ==
    current <= n /\ n <= LastPushed /\ \A i \in 1 .. Len(queue) : n < queue[i]

Idle == {"pop", "popWait", "end"}

\* What holds before the first task is pushed.
MarkingInv ==
    Marking =>
        /\ current = LastPushed + 1 /\ completed = {} /\ queue = <<>> /\ buffered = {}
        /\ \A w \in Workers : pc[w] \in Idle

\* The standard queue.
StandardInv ==
    /\ current <= LastPushed + 1
    /\ \A i \in 1 .. Len(queue) : current <= queue[i] /\ queue[i] <= LastPushed
    /\ \A i, j \in 1 .. Len(queue) : i < j => queue[i] < queue[j]

\* The buffered and the completed identifiers.
BufferInv ==
    /\ \A n \in buffered : Passed(n) /\ n \notin completed
    /\ \A n \in completed : Passed(n)

\* The tasks the workers hold.
HoldInv ==
    /\ \A w \in Holding : Passed(held[w]) /\ held[w] \notin buffered /\ held[w] \notin completed
    /\ \A v, w \in Holding : held[v] = held[w] => v = w

OrderInv == MarkingInv /\ StandardInv /\ BufferInv /\ HoldInv

\* The types these proofs need.
NumberTypes ==
    /\ queue \in Seq(Int) /\ buffered \in SUBSET Int /\ completed \in SUBSET Int
    /\ current \in Int /\ held \in [Threads -> Int]
    /\ LastPushed \in Int
    /\ pc \in [Threads -> MainLabels \cup WorkerLabels]
    /\ pc[Main] \in MainLabels /\ \A w \in Workers : pc[w] \in WorkerLabels
    /\ Main \in Threads /\ \A w \in Workers : w \in Threads /\ w # Main

\* The typing invariant gives them.
LEMMA NumberTyped == TypeInv => NumberTypes
<1> SUFFICES ASSUME TypeInv PROVE NumberTypes
  OBVIOUS
<1>1. /\ Tasks \in SUBSET Int /\ Ids \in SUBSET Int
      /\ Main \in Threads /\ \A w \in Workers : w \in Threads /\ w # Main
  BY Numbers DEF NumberSets
<1>2. queue \in Seq(Int)
  BY <1>1, SeqMonotonic DEF TypeInv
<1>3. LastPushed \in Int
  BY <1>1 DEF LastPushed, TypeInv
<1> QED
  BY <1>1, <1>2, <1>3 DEF TypeInv, NumberTypes

\* Nothing is pushed at first.
LEMMA OrderInit == Init => OrderInv
<1> SUFFICES ASSUME Init PROVE OrderInv
  OBVIOUS
<1>1. pc[Main] = "mark" /\ held[Main] = 0 /\ \A w \in Workers : pc[w] = "pop"
  BY Numbers DEF Init, NumberSets
<1>2. queue = <<>> /\ buffered = {} /\ completed = {} /\ current = 0
  BY DEF Init, QueueInit
<1>3. LastPushed = -1 /\ Holding = {}
  BY <1>1 DEF LastPushed, Holding
<1> QED
  BY <1>1, <1>2, <1>3 DEF OrderInv, MarkingInv, StandardInv, BufferInv, HoldInv, Idle

\* The workers hold no more tasks than before.
KeepHolding ==
    \A w \in Workers : pc'[w] \in HoldingLabels =>
        pc[w] \in HoldingLabels /\ held'[w] = held[w]

\* Holding in terms of the labels.
LEMMA HoldingIs == \A w \in Workers : w \in Holding <=> pc[w] \in HoldingLabels
BY DEF Holding, HoldingLabels

\* Steps that move no task, or empty the queues.
LEMMA OrderStay ==
  ASSUME NumberTypes, OrderInv, KeepHolding, LastPushed' = LastPushed,
         Marking' => Marking /\ \A w \in Workers : pc[w] \in Idle => pc'[w] \in Idle,
         completed' = completed, current' = current,
         \/ queue' = queue /\ buffered' = buffered
         \/ queue' = <<>> /\ buffered' = {}
  PROVE  OrderInv'
<1>1. \A n \in Int : Passed(n) => Passed(n)'
  BY DEF Passed, NumberTypes
<1>2. \A w \in Holding' : w \in Holding /\ held'[w] = held[w] /\ held[w] \in Int
  BY DEF KeepHolding, Holding, HoldingLabels, NumberTypes
<1>3. HoldInv'
  BY <1>1, <1>2 DEF OrderInv, HoldInv, NumberTypes
<1>4. BufferInv'
  BY <1>1 DEF OrderInv, BufferInv, NumberTypes
<1>5. StandardInv'
  BY DEF OrderInv, StandardInv, NumberTypes
<1>6. MarkingInv'
  BY DEF OrderInv, MarkingInv
<1> QED
  BY <1>3, <1>4, <1>5, <1>6 DEF OrderInv

\* A worker takes the buffered task that is next in line ...
LEMMA OrderTakeBuffered ==
  ASSUME NumberTypes, OrderInv, NEW w \in Workers, PopBuffered(w)
  PROVE  OrderInv'
<1>1. /\ current \in buffered /\ buffered' = buffered \ {current}
      /\ queue' = queue /\ completed' = completed /\ current' = current
  BY DEF PopBuffered, PopPriority, PriorityReady, StartsAtCurrent
<1>2. /\ held'[w] = current /\ pc'[w] = "notifyPop" /\ w \notin Holding
      /\ \A t \in Threads \ {w} : held'[t] = held[t] /\ pc'[t] = pc[t]
  BY DEF NumberTypes, PopBuffered, PopEnter, Goto, Holding
<1>3. Holding' = Holding \cup {w}
  BY <1>2 DEF Holding, NumberTypes
<1>4. LastPushed' = LastPushed
  BY <1>2 DEF LastPushed, NumberTypes
<1>5. \A n \in Int : Passed(n) => Passed(n)'
  BY <1>1, <1>4 DEF Passed
<1>6. Passed(current)' /\ current \notin completed
  BY <1>1, <1>5 DEF OrderInv, BufferInv, NumberTypes
<1>7. \A v \in Holding : held'[v] = held[v] /\ held[v] \in Int /\ held[v] # current
  BY <1>1, <1>2 DEF Holding, NumberTypes, OrderInv, HoldInv
<1>8. HoldInv'
  BY <1>1, <1>2, <1>3, <1>5, <1>6, <1>7 DEF OrderInv, HoldInv
<1>9. BufferInv'
  BY <1>1, <1>5 DEF OrderInv, BufferInv, NumberTypes
<1>10. ~Marking'
  BY <1>1, <1>2 DEF OrderInv, MarkingInv, Marking, NumberTypes
<1> QED
  BY <1>1, <1>4, <1>8, <1>9, <1>10 DEF OrderInv, MarkingInv, StandardInv

\* ... or the oldest one of the standard queue.
LEMMA OrderTakeQueued ==
  ASSUME NumberTypes, OrderInv, NEW w \in Workers, PopQueued(w)
  PROVE  OrderInv'
<1>1. /\ queue # <<>> /\ queue' = Tail(queue)
      /\ buffered' = buffered /\ completed' = completed /\ current' = current
  BY DEF PopQueued, PopStandard, StandardReady
<1>2. /\ Len(queue) >= 1 /\ Len(queue') = Len(queue) - 1 /\ Len(queue) \in Nat
      /\ \A i \in 1 .. Len(queue') : queue'[i] = queue[i + 1]
      /\ \A i \in 1 .. Len(queue) : queue[i] \in Int
  BY <1>1 DEF NumberTypes
<1>h. PICK h \in Int : h = queue[1] /\ h = Head(queue)
  BY <1>2
<1>3. /\ held'[w] = h /\ pc'[w] = "notifyPush" /\ w \notin Holding
      /\ \A t \in Threads \ {w} : held'[t] = held[t] /\ pc'[t] = pc[t]
  BY <1>h DEF NumberTypes, PopQueued, PopEnter, Goto, Holding
<1>4. Holding' = Holding \cup {w}
  BY <1>3 DEF Holding, NumberTypes
<1>5. LastPushed' = LastPushed
  BY <1>3 DEF LastPushed, NumberTypes
<1>6. \A n \in Int : Passed(n) => Passed(n)' /\ n # h
  BY <1>1, <1>2, <1>5, <1>h DEF Passed
<1>7. Passed(h)' /\ h \notin buffered /\ h \notin completed
  <2>1. \A i \in 1 .. Len(queue') : h < queue'[i]
    BY <1>2, <1>h DEF OrderInv, StandardInv
  <2>2. current <= h /\ h <= LastPushed
    BY <1>2, <1>h DEF OrderInv, StandardInv
  <2>3. ~Passed(h)
    BY <1>2, <1>h DEF Passed
  <2> QED
    BY <2>1, <2>2, <2>3, <1>1, <1>5 DEF Passed, OrderInv, BufferInv
<1>8. \A v \in Holding : held'[v] = held[v] /\ held[v] \in Int /\ held[v] # h
  BY <1>3, <1>6 DEF Holding, NumberTypes, OrderInv, HoldInv
<1>9. HoldInv'
  BY <1>1, <1>3, <1>4, <1>6, <1>7, <1>8 DEF OrderInv, HoldInv
<1>10. BufferInv'
  BY <1>1, <1>6 DEF OrderInv, BufferInv, NumberTypes
<1>11. StandardInv'
  BY <1>1, <1>2, <1>5 DEF OrderInv, StandardInv
<1>12. ~Marking'
  BY <1>1, <1>3 DEF OrderInv, MarkingInv, Marking, NumberTypes
<1> QED
  BY <1>9, <1>10, <1>11, <1>12 DEF OrderInv, MarkingInv

\* The main thread pushes a task that is younger than all before it.
LEMMA OrderPush ==
  ASSUME NumberTypes, OrderInv, Push
  PROVE  OrderInv'
<1>1. /\ queue' = Append(queue, held[Main])
      /\ buffered' = buffered /\ completed' = completed /\ current' = current
  BY DEF Push, PushStandard
<1>2. /\ pc'[Main] = "pushed" /\ held' = held /\ \A v \in Workers : pc'[v] = pc[v]
      /\ pc[Main] \in {"push", "pushWait"}
  BY DEF NumberTypes, Push, PushEnter, Goto
<1>3. Holding' = Holding
  BY <1>2 DEF Holding
<1>4. LastPushed' = held[Main] /\ LastPushed = held[Main] - 1 /\ held[Main] \in Int
  BY <1>2 DEF LastPushed, NumberTypes
<1>5. /\ Len(queue') = Len(queue) + 1 /\ Len(queue) \in Nat
      /\ \A i \in 1 .. Len(queue) : queue'[i] = queue[i] /\ queue[i] \in Int
      /\ queue'[Len(queue) + 1] = held[Main]
  BY <1>1, <1>4 DEF NumberTypes
<1>6. \A n \in Int : Passed(n) => Passed(n)'
  BY <1>1, <1>4, <1>5 DEF Passed, NumberTypes
<1>7. HoldInv'
  <2>1. \A v \in Holding : held[v] \in Int
    BY DEF Holding, NumberTypes
  <2> QED
    BY <1>1, <1>2, <1>3, <1>6, <2>1 DEF OrderInv, HoldInv
<1>8. BufferInv'
  BY <1>1, <1>6 DEF OrderInv, BufferInv, NumberTypes
<1>9. StandardInv'
  BY <1>1, <1>4, <1>5 DEF OrderInv, StandardInv, NumberTypes
<1>10. ~Marking'
  BY <1>2 DEF Marking
<1> QED
  BY <1>7, <1>8, <1>9, <1>10 DEF OrderInv, MarkingInv

\* A worker pushes its task back.
LEMMA OrderRequeue ==
  ASSUME NumberTypes, OrderInv, NEW w \in Workers, Requeue(w)
  PROVE  OrderInv'
<1>1. /\ queue' = queue /\ buffered' = buffered \cup {held[w]}
      /\ completed' = completed /\ current' = current /\ held' = held
  BY DEF Requeue, PushPriority
<1>2. /\ pc'[w] = "requeued" /\ w \in Holding /\ \A t \in Threads \ {w} : pc'[t] = pc[t]
  BY DEF NumberTypes, Requeue, Goto, Holding
<1>3. Holding' = Holding \ {w}
  BY <1>2 DEF Holding, NumberTypes
<1>4. LastPushed' = LastPushed
  BY <1>1, <1>2 DEF LastPushed, NumberTypes
<1>5. \A n \in Int : Passed(n) => Passed(n)'
  BY <1>1, <1>4 DEF Passed
<1>6. held[w] \in Int /\ Passed(held[w]) /\ held[w] \notin completed
  BY <1>2 DEF OrderInv, HoldInv, NumberTypes
<1>7. BufferInv'
  BY <1>1, <1>5, <1>6 DEF OrderInv, BufferInv, NumberTypes
<1>8. \A v \in Holding' : v \in Holding /\ held[v] \in Int /\ held[v] # held[w]
  BY <1>2, <1>3 DEF OrderInv, HoldInv, Holding, NumberTypes
<1>9. HoldInv'
  BY <1>1, <1>5, <1>8 DEF OrderInv, HoldInv
<1>10. ~Marking'
  BY <1>2 DEF OrderInv, MarkingInv, Marking, NumberTypes, Requeue, Idle
<1> QED
  BY <1>1, <1>4, <1>7, <1>9, <1>10 DEF OrderInv, MarkingInv, StandardInv

\* The next identifier leaves completed_ids_, and current goes past it.
LEMMA OrderMoves ==
  ASSUME NumberTypes, OrderInv, ~Marking', LastPushed' = LastPushed,
         queue' = queue, buffered' = buffered,
         current' = current + 1, Passed(current),
         NEW ids \in SUBSET Int, completed' = ids \ {current},
         \A n \in ids : Passed(n), \A n \in buffered : n \notin ids,
         Holding' \in SUBSET Holding,
         \A v \in Holding' : held'[v] = held[v] /\ held[v] \notin ids /\ held[v] # current,
         current \in ids
  PROVE  OrderInv'
<1>1. \A n \in Int : Passed(n) /\ n # current => Passed(n)'
  BY DEF Passed, NumberTypes
<1>2. BufferInv'
  BY <1>1 DEF OrderInv, BufferInv, NumberTypes
<1>3. HoldInv'
  <2>1. \A v \in Holding' : held[v] \in Int
    BY DEF Holding, NumberTypes
  <2> QED
    BY <1>1, <2>1 DEF OrderInv, HoldInv
<1>4. StandardInv'
  BY DEF OrderInv, StandardInv, Passed, NumberTypes
<1> QED
  BY <1>2, <1>3, <1>4 DEF OrderInv, MarkingInv

\* A worker completes its task.
LEMMA OrderInsert ==
  ASSUME NumberTypes, OrderInv, NEW w \in Workers, CompleteInsert(w)
  PROVE  OrderInv'
<1>1. /\ queue' = queue /\ buffered' = buffered /\ Settle(completed \cup {held[w]})
  BY DEF CompleteInsert, Complete
<1>2. /\ pc'[w] \in {"erased", "pop"} /\ w \in Holding /\ held' = held /\ pc[w] = "task"
      /\ \A t \in Threads \ {w} : pc'[t] = pc[t]
  <2>1. pc[w] = "task"
    BY DEF CompleteInsert, NumberTypes, WorkerLabels, HoldingLabels
  <2> QED
    BY <2>1 DEF NumberTypes, CompleteInsert, ReturnFromComplete, Goto, Holding
<1>3. Holding' = Holding \ {w}
  BY <1>2 DEF Holding, NumberTypes
<1>4. LastPushed' = LastPushed
  BY <1>2 DEF LastPushed, NumberTypes
<1>5. held[w] \in Int /\ Passed(held[w]) /\ held[w] \notin buffered /\ held[w] \notin completed
  BY <1>2 DEF OrderInv, HoldInv, NumberTypes
<1>6. ~Marking'
  BY <1>2 DEF OrderInv, MarkingInv, Marking, NumberTypes, Idle
<1>7. \A n \in completed \cup {held[w]} : Passed(n)
  BY <1>5 DEF OrderInv, BufferInv
<1>8. \A v \in Holding' :
        held'[v] = held[v] /\ held[v] \notin completed \cup {held[w]} /\ held[v] \in Int
  BY <1>2, <1>3 DEF OrderInv, HoldInv, Holding, NumberTypes
<1>9. /\ completed \cup {held[w]} \in SUBSET Int
      /\ \A n \in buffered : n \notin completed \cup {held[w]}
  BY <1>5 DEF OrderInv, BufferInv, NumberTypes
<1>10. CASE current' = current + 1 /\ current \in completed \cup {held[w]}
            /\ completed' = (completed \cup {held[w]}) \ {current}
  BY <1>1, <1>3, <1>4, <1>6, <1>7, <1>8, <1>9, <1>10, OrderMoves
<1>11. CASE current' = current /\ completed' = completed \cup {held[w]}
  <2>1. \A n \in Int : Passed(n) => Passed(n)'
    BY <1>1, <1>4, <1>11 DEF Passed
  <2>2. BufferInv'
    BY <1>1, <1>7, <1>9, <1>11, <2>1 DEF OrderInv, BufferInv, NumberTypes
  <2>3. HoldInv'
    BY <1>1, <1>3, <1>8, <1>11, <2>1 DEF OrderInv, HoldInv
  <2> QED
    BY <1>1, <1>4, <1>6, <1>11, <2>2, <2>3 DEF OrderInv, MarkingInv, StandardInv
<1> QED
  BY <1>1, <1>10, <1>11, SettleCases

\* A worker goes on in the loop of complete().
LEMMA OrderAdvance ==
  ASSUME NumberTypes, OrderInv, NEW w \in Workers, CompleteNext(w), current \in completed
  PROVE  OrderInv'
<1>1. /\ queue' = queue /\ buffered' = buffered /\ held' = held
      /\ completed' = completed \ {current} /\ current' = current + 1
  BY DEF CompleteNext
<1>2. pc'[w] = "erased" /\ pc[w] = "relocked" /\ \A t \in Threads \ {w} : pc'[t] = pc[t]
  BY DEF NumberTypes, CompleteNext, Goto
<1>3. Holding' = Holding /\ LastPushed' = LastPushed
  BY <1>1, <1>2 DEF Holding, LastPushed, NumberTypes
<1>4. ~Marking'
  BY <1>2 DEF OrderInv, MarkingInv, Marking, NumberTypes, Idle
<1>5. /\ \A n \in completed : Passed(n) /\ n \in Int
      /\ \A n \in buffered : n \notin completed
  BY DEF OrderInv, BufferInv, NumberTypes
<1>6. \A v \in Holding : held'[v] = held[v] /\ held[v] \notin completed /\ held[v] # current
  BY <1>1 DEF OrderInv, HoldInv
<1>7. completed \in SUBSET Int /\ Passed(current)
  BY <1>5
<1> QED
  BY <1>1, <1>3, <1>4, <1>5, <1>6, <1>7, OrderMoves

\* The main thread marks an identifier before the first task.
LEMMA OrderMarkSkipped ==
  ASSUME NumberTypes, OrderInv, CompleteInsert(Main)
  PROVE  OrderInv'
<1>1. pc[Main] = "mark"
  BY DEF CompleteInsert, NumberTypes, MainLabels
<1>2. /\ held[Main] = current /\ completed = {} /\ queue = <<>> /\ buffered = {}
      /\ LastPushed = held[Main] - 1 /\ \A w \in Workers : pc[w] \in Idle
  BY <1>1 DEF OrderInv, MarkingInv, Marking, LastPushed, NumberTypes
<1>3. queue' = <<>> /\ buffered' = {} /\ Settle({current})
  BY <1>2 DEF CompleteInsert, Complete
<1>4. completed' = {} /\ current' = current + 1
  BY <1>3, SettleCases DEF NumberTypes
<1>5. held' = held /\ pc'[Main] = "erased" /\ \A w \in Workers : pc'[w] = pc[w]
  BY <1>4 DEF CompleteInsert, Goto, NumberTypes
<1>6. Holding' = {} /\ LastPushed' = current
  BY <1>2, <1>5 DEF Holding, Idle, LastPushed
<1> QED
  BY <1>2, <1>3, <1>4, <1>5, <1>6
     DEF OrderInv, MarkingInv, StandardInv, BufferInv, HoldInv, NumberTypes

-----------------------------------------------------------------------------
(* The iterators of complete().                                            *)

\* An iterator points to a completed identifier, to the end, or to an identifier
\* another thread has erased, which is behind current.
IterInv == \A t \in Completing : iter[t] = End \/ iter[t] \in completed \/ iter[t] < current

\* So what a thread reads as the next identifier in line is in the set.
LEMMA NextInLine ==
  ASSUME TypeInv, IterInv, NEW t \in Threads, CompleteNext(t)
  PROVE  current \in completed
<1>1. t \in Completing /\ iter[t] # End /\ current \in Readable(t)
  BY DEF CompleteNext, Completing
<1>2. iter[t] \in completed \/ iter[t] < current
  BY <1>1 DEF IterInv
<1>3. current \in Int
  BY DEF TypeInv
<1> QED
  BY <1>1, <1>2, <1>3 DEF Readable

\* The main thread never finds a second identifier to erase.
LEMMA NoMainAdvance ==
  ASSUME TypeInv, OrderInv, IterInv
  PROVE  ~CompleteNext(Main)
<1> SUFFICES ASSUME CompleteNext(Main) PROVE FALSE
  OBVIOUS
<1>1. current \in completed
  BY NextInLine, Numbers DEF NumberSets
<1>2. Marking
  BY DEF CompleteNext, Marking
<1> QED
  BY <1>1, <1>2 DEF OrderInv, MarkingInv

\* A step that changes neither the queues nor what the workers hold.
LEMMA OrderQuiet ==
  ASSUME NumberTypes, OrderInv, UNCHANGED queueVars, KeepHolding,
         LastPushed' = LastPushed,
         Marking' => Marking /\ \A w \in Workers : pc[w] \in Idle => pc'[w] \in Idle
  PROVE  OrderInv'
<1>1. queue' = queue /\ buffered' = buffered /\ completed' = completed /\ current' = current
  BY Zenon DEF queueVars
<1> QED
  BY <1>1, OrderStay

\* A step of worker w that moves no task.
LEMMA OrderQuietWorker ==
  ASSUME NumberTypes, OrderInv, UNCHANGED queueVars, NEW w \in Workers, NEW label,
         pc' = [pc EXCEPT ![w] = label], held' = held,
         label \in HoldingLabels => pc[w] \in HoldingLabels,
         pc[w] \in Idle => label \in Idle
  PROVE  OrderInv'
<1>1. pc'[w] = label /\ \A t \in Threads \ {w} : pc'[t] = pc[t]
  BY DEF NumberTypes
<1>2. KeepHolding /\ LastPushed' = LastPushed
  BY <1>1 DEF KeepHolding, LastPushed, NumberTypes
<1>3. Marking' => Marking /\ \A v \in Workers : pc[v] \in Idle => pc'[v] \in Idle
  BY <1>1 DEF Marking, NumberTypes
<1> QED
  BY <1>2, <1>3, OrderQuiet

\* A step of the main thread that pushes nothing.
LEMMA OrderQuietMain ==
  ASSUME NumberTypes, OrderInv, UNCHANGED queueVars, NEW label,
         pc' = [pc EXCEPT ![Main] = label],
         LastPushed' = LastPushed, \A w \in Workers : held'[w] = held[w],
         label \in {"mark", "erased", "relocked"} => Marking
  PROVE  OrderInv'
<1>1. pc'[Main] = label /\ \A w \in Workers : pc'[w] = pc[w]
  BY DEF NumberTypes
<1>2. KeepHolding
  BY <1>1 DEF KeepHolding
<1>3. Marking' => Marking /\ \A v \in Workers : pc[v] \in Idle => pc'[v] \in Idle
  BY <1>1 DEF Marking
<1> QED
  BY <1>2, <1>3, OrderQuiet

\* The worker's steps keep the order.
LEMMA OrderWorker ==
  ASSUME TypeInv, OrderInv, IterInv, NEW w \in Workers, WorkerStep(w)
  PROVE  OrderInv'
<1> USE DEF Goto
<1>0. NumberTypes /\ w \in Threads /\ w # Main
  BY NumberTyped, Numbers DEF NumberSets
<1>1. CASE PopInvalid(w) \/ PopBlock(w)
  BY <1>0, <1>1, OrderQuietWorker DEF PopInvalid, PopBlock, HoldingLabels, Idle
<1>2. CASE PopNotifyPop(w) \/ PopNotifyPush(w) \/ Defer(w)
  BY <1>0, <1>2, OrderQuietWorker
     DEF PopNotifyPop, PopNotifyPush, Defer, HoldingLabels, Idle
<1>3. CASE RequeueRefused(w) \/ RequeueNotify(w)
  BY <1>0, <1>3, OrderQuietWorker DEF RequeueRefused, RequeueNotify, HoldingLabels, Idle
<1>4. CASE CompleteNotify(w) \/ CompleteAtEnd(w) \/ CompleteReturn(w)
  BY <1>0, <1>4, OrderQuietWorker
     DEF CompleteNotify, CompleteAtEnd, CompleteReturn, ReturnFromComplete,
         HoldingLabels, Idle
<1> QED
  BY <1>0, <1>1, <1>2, <1>3, <1>4, OrderTakeBuffered, OrderTakeQueued, OrderRequeue,
     OrderInsert, OrderAdvance, NextInLine DEF WorkerStep, CompleteStep

\* The main thread's steps keep the order.
LEMMA OrderMain ==
  ASSUME TypeInv, OrderInv, IterInv, MainStep
  PROVE  OrderInv'
<1> USE DEF Goto
<1>0. NumberTypes
  BY NumberTyped
<1>1. CASE PushBlock \/ PushInvalid
  <2>1. LastPushed' = LastPushed
    BY <1>0, <1>1 DEF PushBlock, PushInvalid, PushEnter, LastPushed, NumberTypes
  <2> QED
    BY <1>0, <1>1, <2>1, OrderQuietMain DEF PushBlock, PushInvalid
<1>2. CASE PushNotify
  <2>1. LastPushed' = LastPushed /\ \A w \in Workers : held'[w] = held[w]
    BY <1>0, <1>2 DEF PushNotify, LastPushed, NumberTypes
  <2> QED
    BY <1>0, <1>2, <2>1, OrderQuietMain DEF PushNotify
<1>3. CASE CompleteNotify(Main)
  <2>1. LastPushed' = LastPushed
    BY <1>0, <1>3 DEF CompleteNotify, LastPushed, NumberTypes
  <2> QED
    BY <1>0, <1>3, <2>1, OrderQuietMain DEF CompleteNotify, Marking
<1>4. CASE CompleteAtEnd(Main) \/ CompleteReturn(Main)
  <2>1. UNCHANGED queueVars /\ pc[Main] = "relocked" /\ ReturnFromComplete(Main)
    BY <1>4, Zenon DEF CompleteAtEnd, CompleteReturn
  <2>2. PICK label \in {"push", "mark"} :
          pc' = [pc EXCEPT ![Main] = label] /\ held' = [held EXCEPT ![Main] = @ + 1]
    BY <2>1 DEF ReturnFromComplete
  <2>3. /\ pc'[Main] = label /\ held'[Main] = held[Main] + 1 /\ held[Main] \in Int
        /\ \A w \in Workers : held'[w] = held[w]
    BY <1>0, <2>2 DEF NumberTypes
  <2>4. LastPushed' = LastPushed
    BY <2>1, <2>2, <2>3 DEF LastPushed
  <2> QED
    BY <1>0, <2>1, <2>2, <2>3, <2>4, OrderQuietMain DEF Marking
<1> QED
  BY <1>0, <1>1, <1>2, <1>3, <1>4, OrderPush, OrderMarkSkipped, NoMainAdvance
     DEF MainStep, CompleteStep

\* Every step keeps the order.
LEMMA OrderNext == TypeInv /\ OrderInv /\ IterInv /\ [Next]_vars => OrderInv'
<1> SUFFICES ASSUME TypeInv, OrderInv, IterInv, [Next]_vars PROVE OrderInv'
  OBVIOUS
<1>1. ASSUME StillStep PROVE OrderInv'
  <2>1. /\ completed' = completed /\ current' = current /\ pc' = pc /\ held' = held
        /\ \/ queue' = queue /\ buffered' = buffered
           \/ queue' = <<>> /\ buffered' = {}
    BY <1>1, Zenon DEF StillStep
  <2>2. KeepHolding /\ LastPushed' = LastPushed /\ Marking' = Marking
    BY <2>1 DEF KeepHolding, LastPushed, Marking
  <2> QED
    BY <2>1, <2>2, NumberTyped, OrderStay
<1> QED
  BY <1>1, NextCases, OrderWorker, OrderMain

\* What a step does to the identifiers in completed_ids_ and to current_id_.
IdsMove ==
    /\ current' = current \/ current' = current + 1
    /\ \A n \in completed : n \in completed' \/ n < current'

\* Complete only adds identifiers, or goes past the next one.
LEMMA IdsMoveNext == TypeInv /\ IterInv /\ [Next]_vars => IdsMove
<1> SUFFICES ASSUME TypeInv, IterInv, [Next]_vars PROVE IdsMove
  OBVIOUS
<1>1. ASSUME NEW t \in Threads, CompleteInsert(t) PROVE IdsMove
  BY <1>1, SettleCases DEF CompleteInsert, Complete, IdsMove, TypeInv
<1>2. ASSUME NEW t \in Threads, CompleteNext(t) PROVE IdsMove
  BY <1>2 DEF CompleteNext, IdsMove, TypeInv
<1>3. ASSUME completed' = completed, current' = current PROVE IdsMove
  BY <1>3 DEF IdsMove
<1>4. ASSUME NEW t \in Threads, CompleteNotify(t) \/ CompleteAtEnd(t) \/ CompleteReturn(t)
      PROVE  completed' = completed /\ current' = current
  BY <1>4, Zenon DEF CompleteNotify, CompleteAtEnd, CompleteReturn, queueVars
<1>5. ASSUME NEW w \in Workers, WorkerStep(w), ~CompleteStep(w)
      PROVE  completed' = completed /\ current' = current
  BY <1>5, Zenon
     DEF WorkerStep, PopInvalid, PopBuffered, PopPriority, PopQueued, PopStandard, PopBlock,
         PopNotifyPop, PopNotifyPush, Defer, Requeue, PushPriority, RequeueRefused,
         RequeueNotify, queueVars
<1>6. ASSUME MainStep, ~CompleteStep(Main)
      PROVE  completed' = completed /\ current' = current
  BY <1>6, Zenon DEF MainStep, PushBlock, PushInvalid, Push, PushStandard, PushNotify, queueVars
<1>7. ASSUME StillStep
      PROVE  completed' = completed /\ current' = current
  BY <1>7, Zenon DEF StillStep
<1>8. Main \in Threads /\ \A w \in Workers : w \in Threads
  BY Numbers DEF NumberSets
<1> QED
  BY <1>1, <1>2, <1>3, <1>4, <1>5, <1>6, <1>7, <1>8, NextCases DEF CompleteStep

\* A thread enters the loop of complete(), or turns in it, with its iterator on the
\* first identifier of the set.
LEMMA IterCases ==
  ASSUME TypeInv, [Next]_vars, NEW t \in Completing'
  PROVE  (t \in Completing /\ iter'[t] = iter[t]) \/ iter'[t] = FirstOf(completed')
<1>1. CASE StillStep
  BY <1>1, Zenon DEF StillStep, Completing
<1>2. ASSUME NEW s \in Threads, (s \in Workers /\ WorkerStep(s)) \/ (s = Main /\ MainStep)
      PROVE  (t \in Completing /\ iter'[t] = iter[t]) \/ iter'[t] = FirstOf(completed')
  <2>1. CASE t # s
    BY <1>2, <2>1, OtherThreads DEF Completing
  <2>2. CASE t = s
    <3>1. CASE CompleteInsert(s) \/ CompleteNext(s)
      BY <2>2, <3>1
         DEF CompleteInsert, CompleteNext, ReturnFromComplete, Goto, Completing, TypeInv
    <3>2. CASE CompleteNotify(s) \/ CompleteAtEnd(s) \/ CompleteReturn(s)
      BY <2>2, <3>2
         DEF CompleteNotify, CompleteAtEnd, CompleteReturn, Completing
    <3>3. CASE ~CompleteStep(s)
      <4>1. pc'[s] \notin {"erased", "relocked"}
        BY <1>2, <3>3
           DEF TypeInv, Goto, WorkerStep, MainStep, PopInvalid, PopBuffered, PopQueued,
               PopBlock, PopNotifyPop, PopNotifyPush, Defer, Requeue, RequeueRefused,
               RequeueNotify, PushBlock, PushInvalid, Push, PushNotify
      <4> QED
        BY <2>2, <4>1 DEF Completing
    <3> QED
      BY <3>1, <3>2, <3>3 DEF CompleteStep
  <2> QED
    BY <2>1, <2>2
<1>3. Main \in Threads /\ \A w \in Workers : w \in Threads
  BY Numbers DEF NumberSets
<1> QED
  BY <1>1, <1>2, <1>3, NextCases

\* Every step keeps the iterators.
LEMMA IterNext == TypeInv /\ IterInv /\ [Next]_vars => IterInv'
<1> SUFFICES ASSUME TypeInv, IterInv, [Next]_vars, NEW t \in Completing'
             PROVE  iter'[t] = End \/ iter'[t] \in completed' \/ iter'[t] < current'
  BY DEF IterInv
<1>1. IdsMove /\ TypeInv'
  BY IdsMoveNext, TypeNext
<1>2. CASE t \in Completing /\ iter'[t] = iter[t]
  <2>1. iter[t] \in Int /\ current \in Int
    <3>1. iter[t] \in Ids \cup {End} /\ current \in Nat
      BY <1>2 DEF TypeInv, Completing
    <3>2. Ids \in SUBSET Int /\ End \in Int
      BY Numbers DEF NumberSets, End
    <3>3. \A n \in Ids \cup {End} : n \in Int
      BY <3>2
    <3> QED
      BY <3>1, <3>3
  <2> QED
    BY <1>1, <1>2, <2>1 DEF IterInv, IdsMove
<1>3. CASE iter'[t] = FirstOf(completed')
  <2>1. completed' \subseteq Nat
    BY <1>1, Numbers DEF TypeInv, NumberSets
  <2> QED
    BY <1>3, <2>1, FirstOfLeast
<1> QED
  BY <1>2, <1>3, IterCases

-----------------------------------------------------------------------------
(* No completion is lost.                                                  *)

\* The thread that just moved current looks at the next identifier if it is there.
LEMMA LossTurn ==
  ASSUME TypeInv', OrderInv', NEW t \in Threads,
         iter'[t] = FirstOf(completed'), pc'[t] = "erased"
  PROVE  NoLostCompletion'
<1>1. completed' \subseteq Nat /\ current' \in Nat /\ \A n \in completed' : current' <= n
  BY Numbers DEF TypeInv, NumberSets, OrderInv, BufferInv, Passed
<1>2. ASSUME current' \in completed' PROVE FirstOf(completed') = current'
  <2>1. PICK first \in completed' : first = FirstOf(completed') /\ \A n \in completed' : first <= n
    BY <1>1, <1>2, FirstOfLeast
  <2>2. first \in Nat /\ first <= current' /\ current' <= first
    BY <1>1, <1>2, <2>1
  <2> QED
    BY <1>1, <2>1, <2>2
<1>3. t \in Completing'
  BY DEF Completing
<1> QED
  BY <1>2, <1>3 DEF NoLostCompletion

\* Identifiers do not move, and who looks at the next one goes on to do so.
LEMMA LossQuiet ==
  ASSUME NoLostCompletion, completed' = completed, current' = current,
         \A t \in Completing : iter[t] = current => t \in Completing' /\ iter'[t] = iter[t]
  PROVE  NoLostCompletion'
BY DEF NoLostCompletion

\* A step of thread t loses no completion.
LEMMA LossThread ==
  ASSUME TypeInv, TypeInv', OrderInv', NoLostCompletion, NEW t \in Threads,
         (t \in Workers /\ WorkerStep(t)) \/ (t = Main /\ MainStep)
  PROVE  NoLostCompletion'
<1>1. /\ \A s \in Completing : s # t => s \in Completing' /\ iter'[s] = iter[s]
      /\ pc \in [Threads -> MainLabels \cup WorkerLabels]
      /\ iter \in [Threads -> Ids \cup {End}]
  BY OtherThreads DEF Completing, TypeInv
<1>2. CASE CompleteInsert(t)
  <2>1. t \notin Completing
    BY <1>2 DEF CompleteInsert, Completing
  <2>2. CASE current' = current
    <3>1. current' \notin completed'
      <4>1. Settle(completed \cup {held[t]})
        BY <1>2 DEF CompleteInsert, Complete
      <4>2. current \in Nat
        BY DEF TypeInv
      <4>3. \/ current \notin completed \cup {held[t]}
            \/ \E n \in completed \cup {held[t]} : ~(current <= n)
        BY <2>2, <4>1, <4>2, SettleCases
      <4>4. completed' = completed \cup {held[t]}
        BY <2>2, <4>1, <4>2, SettleCases
      <4>5. \A n \in completed' : current' <= n
        BY DEF OrderInv, BufferInv, Passed
      <4> QED
        BY <2>2, <4>3, <4>4, <4>5
    <3> QED
      BY <3>1 DEF NoLostCompletion
  <2>3. CASE current' # current
    BY <1>1, <1>2, <2>3, LossTurn DEF CompleteInsert, Goto
  <2> QED
    BY <2>2, <2>3
<1>3. CASE CompleteNext(t)
  BY <1>1, <1>3, LossTurn DEF CompleteNext, Goto
<1>4. CASE CompleteNotify(t)
  <2>1. t \in Completing' /\ iter' = iter
    BY <1>1, <1>4 DEF CompleteNotify, Goto, Completing
  <2>2. completed' = completed /\ current' = current
    BY <1>4, Zenon DEF CompleteNotify, queueVars
  <2> QED
    BY <1>1, <2>1, <2>2, LossQuiet
<1>5. CASE CompleteAtEnd(t) \/ CompleteReturn(t)
  <2>1. completed' = completed /\ current' = current
    BY <1>5, Zenon DEF CompleteAtEnd, CompleteReturn, queueVars
  <2>2. CASE current \notin completed
    BY <2>1, <2>2 DEF NoLostCompletion
  <2>3. CASE current \in completed
    <3>1. iter[t] # current
      BY <1>5, <2>3, Numbers
         DEF CompleteAtEnd, CompleteReturn, Readable, NumberSets, TypeInv
    <3> QED
      BY <1>1, <2>1, <3>1, LossQuiet
  <2> QED
    BY <2>2, <2>3
<1>6. CASE ~CompleteStep(t)
  <2>1. t \notin Completing
    BY <1>6
       DEF Completing, WorkerStep, MainStep, PopEnter, PushEnter, PopInvalid, PopBuffered,
           PopQueued, PopBlock, PopNotifyPop, PopNotifyPush, Defer, Requeue,
           RequeueRefused, RequeueNotify, PushBlock, PushInvalid, Push, PushNotify
  <2>2. completed' = completed /\ current' = current
    BY <1>6, Zenon
       DEF WorkerStep, MainStep, PopInvalid, PopBuffered, PopPriority, PopQueued,
           PopStandard, PopBlock, PopNotifyPop, PopNotifyPush, Defer, Requeue,
           PushPriority, RequeueRefused, RequeueNotify, PushBlock, PushInvalid, Push,
           PushStandard, PushNotify, queueVars
  <2> QED
    BY <1>1, <2>1, <2>2, LossQuiet
<1> QED
  BY <1>2, <1>3, <1>4, <1>5, <1>6 DEF CompleteStep

\* Every step keeps a thread on the next completed identifier.
LEMMA LossNext ==
  TypeInv /\ OrderInv /\ IterInv /\ NoLostCompletion /\ [Next]_vars => NoLostCompletion'
<1> SUFFICES ASSUME TypeInv, OrderInv, IterInv, NoLostCompletion, [Next]_vars
             PROVE  NoLostCompletion'
  OBVIOUS
<1>1. TypeInv' /\ OrderInv'
  BY TypeNext, OrderNext
<1>2. ASSUME StillStep PROVE NoLostCompletion'
  <2>1. completed' = completed /\ current' = current /\ pc' = pc /\ iter' = iter
    BY <1>2, Zenon DEF StillStep
  <2> QED
    BY <2>1 DEF NoLostCompletion, Completing
<1> QED
  BY <1>1, <1>2, NextCases, LossThread, Numbers DEF NumberSets

QueueInv == TypeInv /\ OrderInv /\ IterInv /\ NoLostCompletion

\* Types, order, iterators and completions hold in every state.
THEOREM QueueInvariant == Spec => []QueueInv
<1>1. Init => QueueInv
  <2> SUFFICES ASSUME Init PROVE QueueInv
    OBVIOUS
  <2>1. Completing = {} /\ completed = {}
    BY DEF Init, QueueInit, Completing
  <2> QED
    BY <2>1, TypeInit, OrderInit DEF QueueInv, IterInv, NoLostCompletion
<1>2. QueueInv /\ [Next]_vars => QueueInv'
  BY TypeNext, OrderNext, IterNext, LossNext DEF QueueInv
<1> QED
  BY <1>1, <1>2, PTL DEF Spec

\* While the next identifier is already complete, a thread in the loop of
\* complete() has its iterator on it and goes on to erase it.
THEOREM NoLostCompletionHolds == Spec => []NoLostCompletion
<1>1. QueueInv => NoLostCompletion
  BY DEF QueueInv
<1> QED
  BY <1>1, QueueInvariant, PTL

-----------------------------------------------------------------------------
(* Room.  pop() takes a new task only while the priority queue has room    *)
(* for one task of every worker; so what the workers hold always fits.     *)

\* The buffered and the held tasks are finitely many.
LEMMA FiniteParts ==
  ASSUME TypeInv
  PROVE  /\ IsFiniteSet(buffered) /\ IsFiniteSet(Holding)
         /\ Cardinality(Holding) <= Cardinality(Workers)
         /\ Cardinality(buffered) \in Nat /\ Cardinality(Holding) \in Nat
         /\ Cardinality(Workers) \in Nat /\ MaxPriority \in Nat
<1>1. IsFiniteSet(Tasks)
  BY FS_Interval, Numbers DEF Tasks, NumberSets
<1>2. IsFiniteSet(buffered)
  BY <1>1, FS_Subset DEF TypeInv
<1>3. IsFiniteSet(Workers) /\ Holding \in SUBSET Workers
  BY ThreadsAssumption DEF Holding
<1>4. IsFiniteSet(Holding) /\ Cardinality(Holding) <= Cardinality(Workers)
  BY <1>3, FS_Subset
<1> QED
  BY <1>2, <1>3, <1>4, FS_CardinalityType, QueueAssumption

\* A step that takes no task.
LEMMA RoomQuiet ==
  ASSUME TypeInv, RoomForHeldTasks, Holding' \subseteq Holding,
         UNCHANGED <<buffered, valid>> \/ valid' = FALSE
  PROVE  RoomForHeldTasks'
<1>1. CASE valid' = FALSE
  BY <1>1, Zenon DEF RoomForHeldTasks
<1>2. CASE UNCHANGED <<buffered, valid>>
  <2>1. Cardinality(Holding') <= Cardinality(Holding) /\ Cardinality(Holding') \in Nat
    BY FiniteParts, FS_Subset, FS_CardinalityType
  <2>2. ASSUME Cardinality(buffered) + Cardinality(Holding) <= MaxPriority
        PROVE  Cardinality(buffered) + Cardinality(Holding') <= MaxPriority
    BY <2>1, <2>2, FiniteParts
  <2> QED
    BY <1>2, <2>2, Zenon DEF RoomForHeldTasks
<1> QED
  BY <1>1, <1>2

\* A buffered task that is taken changes its place only.
LEMMA RoomTakeBuffered ==
  ASSUME TypeInv, RoomForHeldTasks, NEW w \in Workers, w \notin Holding,
         Holding' = Holding \cup {w}, PopPriority
  PROVE  RoomForHeldTasks'
<1>1. current \in buffered /\ buffered' = buffered \ {current} /\ valid' = valid
  BY Zenon DEF PopPriority, PriorityReady, StartsAtCurrent
<1>2. Cardinality(Holding') = Cardinality(Holding) + 1
  BY FiniteParts, FS_AddElement
<1>3. Cardinality(buffered') = Cardinality(buffered) - 1
  BY <1>1, FiniteParts, FS_RemoveElement
<1>4. Cardinality(buffered') + Cardinality(Holding')
        = Cardinality(buffered) + Cardinality(Holding)
  BY <1>2, <1>3, FiniteParts
<1> QED
  BY <1>1, <1>4, Zenon DEF RoomForHeldTasks

\* A new task is taken when there is room for one of every worker.
LEMMA RoomTakeQueued ==
  ASSUME TypeInv, TypeInv', PopStandard
  PROVE  RoomForHeldTasks'
<1>1. Cardinality(buffered) + Reserve <= MaxPriority /\ buffered' = buffered
  BY Zenon DEF PopStandard, StandardReady
<1>2. Cardinality(Holding') <= Cardinality(Workers) /\ Cardinality(Holding') \in Nat
  <2>1. IsFiniteSet(Workers) /\ Holding' \in SUBSET Workers
    BY ThreadsAssumption DEF Holding
  <2> QED
    BY <2>1, FS_Subset, FS_CardinalityType
<1>3. Cardinality(buffered') + Cardinality(Holding') <= MaxPriority
  BY <1>1, <1>2, FiniteParts, ThreadsAssumption
<1> QED
  BY <1>3, Zenon DEF RoomForHeldTasks

\* A task that is pushed back changes its place only.
LEMMA RoomRequeue ==
  ASSUME TypeInv, RoomForHeldTasks, NEW w \in Holding, held[w] \notin buffered,
         Holding' = Holding \ {w}, PushPriority(held[w])
  PROVE  RoomForHeldTasks'
<1>1. buffered' = buffered \cup {held[w]} /\ valid' = valid
  BY Zenon DEF PushPriority
<1>2. Cardinality(Holding') = Cardinality(Holding) - 1
  BY FiniteParts, FS_RemoveElement
<1>3. Cardinality(buffered') = Cardinality(buffered) + 1
  BY <1>1, FiniteParts, FS_AddElement
<1>4. Cardinality(buffered') + Cardinality(Holding')
        = Cardinality(buffered) + Cardinality(Holding)
  BY <1>2, <1>3, FiniteParts
<1> QED
  BY <1>1, <1>4, Zenon DEF RoomForHeldTasks

\* The tasks workers hold after a step of a worker.
LEMMA HoldingStep ==
  ASSUME TypeInv, NEW w \in Workers, WorkerStep(w)
  PROVE  /\ PopBuffered(w) \/ PopQueued(w) => w \notin Holding /\ Holding' = Holding \cup {w}
         /\ Requeue(w) => w \in Holding /\ Holding' = Holding \ {w}
         /\ ~PopBuffered(w) /\ ~PopQueued(w) => Holding' \subseteq Holding
<1>1. \A v \in Workers \ {w} : pc'[v] = pc[v]
  BY OtherThreads, Numbers DEF NumberSets
<1>2. pc \in [Threads -> MainLabels \cup WorkerLabels] /\ w \in Threads
  BY Numbers DEF TypeInv, NumberSets
<1>3. ASSUME PopBuffered(w) \/ PopQueued(w)
      PROVE  w \notin Holding /\ Holding' = Holding \cup {w}
  <2>1. pc[w] \in {"pop", "popWait"} /\ pc'[w] \in {"notifyPop", "notifyPush"}
    BY <1>2, <1>3 DEF PopBuffered, PopQueued, PopEnter, Goto
  <2> QED
    BY <1>1, <2>1 DEF Holding
<1>4. ASSUME Requeue(w)
      PROVE  w \in Holding /\ Holding' = Holding \ {w}
  <2>1. pc[w] = "requeue" /\ pc'[w] = "requeued"
    BY <1>2, <1>4 DEF Requeue, Goto
  <2> QED
    BY <1>1, <2>1 DEF Holding
<1>5. ASSUME ~PopBuffered(w), ~PopQueued(w)
      PROVE  pc'[w] \in HoldingLabels => pc[w] \in HoldingLabels
  BY <1>2, <1>5, Numbers
     DEF HoldingLabels, NumberSets, Goto, WorkerStep, CompleteStep, ReturnFromComplete,
         PopInvalid, PopBlock, PopNotifyPop, PopNotifyPush, Defer, Requeue,
         RequeueRefused, RequeueNotify, CompleteInsert, CompleteNotify, CompleteAtEnd,
         CompleteReturn, CompleteNext
<1>6. ASSUME ~PopBuffered(w), ~PopQueued(w)
      PROVE  Holding' \subseteq Holding
  BY <1>1, <1>5, <1>6 DEF Holding, HoldingLabels
<1> QED
  BY <1>3, <1>4, <1>6

\* Every step leaves room for the held tasks.
LEMMA RoomNext == QueueInv /\ RoomForHeldTasks /\ [Next]_vars => RoomForHeldTasks'
<1> SUFFICES ASSUME QueueInv, RoomForHeldTasks, [Next]_vars PROVE RoomForHeldTasks'
  OBVIOUS
<1>0. TypeInv /\ OrderInv /\ TypeInv'
  BY TypeNext DEF QueueInv
<1>1. ASSUME NEW w \in Workers, WorkerStep(w)
      PROVE  RoomForHeldTasks'
  <2>1. CASE PopBuffered(w)
    BY <1>0, <1>1, <2>1, HoldingStep, RoomTakeBuffered, Zenon DEF PopBuffered
  <2>2. CASE PopQueued(w)
    BY <1>0, <1>1, <2>2, RoomTakeQueued, Zenon DEF PopQueued
  <2>3. CASE Requeue(w)
    <3>1. w \in Holding /\ Holding' = Holding \ {w} /\ held[w] \notin buffered
      BY <1>0, <1>1, <2>3, HoldingStep DEF OrderInv, HoldInv
    <3> QED
      BY <1>0, <2>3, <3>1, RoomRequeue, Zenon DEF Requeue
  <2>4. CASE ~PopBuffered(w) /\ ~PopQueued(w) /\ ~Requeue(w)
    <3>1. Holding' \subseteq Holding
      BY <1>0, <1>1, <2>4, HoldingStep
    <3>2. UNCHANGED <<buffered, valid>>
      BY <1>1, <2>4, Zenon
         DEF WorkerStep, CompleteStep, PopInvalid, PopBlock, PopNotifyPop, PopNotifyPush,
             Defer, RequeueRefused, RequeueNotify, CompleteInsert, Complete,
             CompleteNotify, CompleteAtEnd, CompleteReturn, CompleteNext, queueVars
    <3> QED
      BY <1>0, <3>1, <3>2, RoomQuiet, Zenon
  <2> QED
    BY <2>1, <2>2, <2>3, <2>4
<1>2. ASSUME MainStep
      PROVE  RoomForHeldTasks'
  <2>1. Holding' \subseteq Holding
    BY <1>0, <1>2, OtherThreads, Numbers DEF NumberSets, Holding
  <2>2. UNCHANGED <<buffered, valid>>
    BY <1>2, Zenon
       DEF MainStep, CompleteStep, PushBlock, PushInvalid, Push, PushStandard, PushNotify,
           CompleteInsert, Complete, CompleteNotify, CompleteAtEnd, CompleteReturn,
           CompleteNext, queueVars
  <2> QED
    BY <1>0, <2>1, <2>2, RoomQuiet, Zenon
<1>3. ASSUME StillStep
      PROVE  RoomForHeldTasks'
  <2>1. pc' = pc
    BY <1>3, Zenon DEF StillStep
  <2>2. Holding' \subseteq Holding
    BY <2>1 DEF Holding
  <2>3. UNCHANGED <<buffered, valid>> \/ valid' = FALSE
    BY <1>3, Zenon DEF StillStep
  <2> QED
    BY <1>0, <2>2, <2>3, RoomQuiet, Zenon
<1> QED
  BY <1>1, <1>2, <1>3, NextCases

\* At every release of the mutex a task that is pushed back finds room, no held
\* task is behind the identifier in line, and every task has one place.
THEOREM QueueSoundHolds == Spec => []QueueSound
<1>1. Init => RoomForHeldTasks
  <2> SUFFICES ASSUME Init PROVE RoomForHeldTasks
    OBVIOUS
  <2>1. buffered = {} /\ Holding = {}
    BY Numbers DEF Init, QueueInit, Holding, NumberSets
  <2>2. Cardinality(buffered) + Cardinality(Holding) <= MaxPriority
    BY <2>1, FS_EmptySet, QueueAssumption
  <2> QED
    BY <2>2, Zenon DEF RoomForHeldTasks
<1>2. QueueInv => NeverBehind
  <2> SUFFICES ASSUME QueueInv, NEW w \in Holding PROVE held[w] >= current
    BY DEF NeverBehind
  <2>1. current <= held[w]
    BY DEF QueueInv, OrderInv, HoldInv, Passed
  <2>2. current \in Int /\ held[w] \in Int
    BY NumberTyped DEF QueueInv, NumberTypes, Holding
  <2> QED
    BY <2>1, <2>2
<1>3. QueueInv => OnePlace
  <2> SUFFICES ASSUME QueueInv PROVE OnePlace
    OBVIOUS
  <2>0. NumberTypes /\ BufferInv /\ HoldInv
    BY NumberTyped DEF QueueInv, OrderInv
  <2>1. \A w \in Holding : held[w] \notin buffered \cup completed
    BY <2>0 DEF HoldInv
  <2>2. \A w \in Holding : \A v \in Holding \ {w} : held[v] # held[w]
    BY <2>0 DEF HoldInv
  <2>3. DOMAIN queue = 1 .. Len(queue) /\ \A i \in 1 .. Len(queue) : queue[i] \in Int
    BY <2>0 DEF NumberTypes
  <2>4. \A i \in 1 .. Len(queue) : queue[i] \notin buffered \cup completed
    BY <2>0, <2>3 DEF BufferInv, Passed
  <2>5. \A i \in 1 .. Len(queue) : \A w \in Holding : held[w] < queue[i]
    BY <2>0 DEF HoldInv, Passed
  <2> QED
    BY <2>1, <2>2, <2>3, <2>4, <2>5 DEF OnePlace
<1>4. RoomForHeldTasks /\ NeverBehind /\ OnePlace => QueueSound
  BY Zenon DEF QueueSound
<1> QED
  BY <1>1, <1>2, <1>3, <1>4, RoomNext, QueueInvariant, PTL DEF Spec

-----------------------------------------------------------------------------
(* Refinement                                                              *)

\* The first turn of the loop in complete() is Complete, a further one Advance.
LEMMA AdvanceStep ==
  ASSUME QueueInv, NEW t \in Threads, CompleteNext(t)
  PROVE  Advance
<1>1. current \in completed
  BY NextInLine DEF QueueInv
<1>2. \A n \in completed : current <= n
  BY DEF QueueInv, OrderInv, BufferInv, Passed
<1>3. StartsAtCurrent(completed)
  BY <1>1, <1>2 DEF StartsAtCurrent
<1>4. UNCHANGED <<queue, buffered, valid>>
  BY Zenon DEF CompleteNext
<1>5. completed' = completed \ {current} /\ current' = current + 1
  BY DEF CompleteNext
<1>6. Settle(completed)
  BY <1>3, <1>5, Zenon DEF Settle
<1> QED
  BY <1>3, <1>4, <1>6, Zenon DEF Advance

\* Every step of a thread is an atomic operation of the queue, or does not touch it.
LEMMA QueueSteps ==
  ASSUME QueueInv, [Next]_vars
  PROVE  QueueNext \/ UNCHANGED queueVars
<1>0. /\ TypeInv /\ Tasks \in SUBSET Ids /\ 0 .. Skip \in SUBSET Ids
      /\ Main \in Threads /\ Main \notin Workers
      /\ \A w \in Workers : w \in Threads
  BY Numbers DEF QueueInv, NumberSets
<1>1. ASSUME NEW t \in Threads, CompleteStep(t)
      PROVE  QueueNext \/ UNCHANGED queueVars
  <2>1. CASE CompleteInsert(t)
    <3>1. held[t] \in Ids
      <4>1. CASE t = Main
        BY <1>0, <2>1, <4>1 DEF CompleteInsert, TypeInv, Marking, MainLabels
      <4>2. CASE t # Main
        <5>1. t \in Workers /\ pc[t] \in WorkerLabels
          BY <1>0, <4>2, Numbers DEF NumberSets, TypeInv
        <5>2. t \in Holding
          BY <2>1, <5>1 DEF CompleteInsert, Holding, WorkerLabels, HoldingLabels
        <5> QED
          BY <1>0, <5>2 DEF TypeInv
      <4> QED
        BY <4>1, <4>2
    <3> QED
      BY <2>1, <3>1, Zenon DEF CompleteInsert, QueueNext
  <2>2. CASE CompleteNext(t)
    BY <2>2, AdvanceStep, Zenon DEF QueueNext
  <2>3. CASE CompleteNotify(t) \/ CompleteAtEnd(t) \/ CompleteReturn(t)
    BY <2>3, Zenon DEF CompleteNotify, CompleteAtEnd, CompleteReturn
  <2> QED
    BY <1>1, <2>1, <2>2, <2>3, Zenon DEF CompleteStep
<1>2. ASSUME NEW w \in Workers, WorkerStep(w), ~CompleteStep(w)
      PROVE  QueueNext \/ UNCHANGED queueVars
  <2>1. CASE PopBuffered(w) \/ PopQueued(w)
    BY <2>1, Zenon DEF PopBuffered, PopQueued, QueueNext
  <2>2. CASE Requeue(w)
    <3>1. held[w] \in Ids
      BY <1>0, <2>2 DEF Requeue, Holding, TypeInv
    <3> QED
      BY <2>2, <3>1, Zenon DEF Requeue, QueueNext
  <2>3. CASE ~PopBuffered(w) /\ ~PopQueued(w) /\ ~Requeue(w)
    BY <1>2, <2>3, Zenon
       DEF WorkerStep, PopInvalid, PopBlock, PopNotifyPop, PopNotifyPush, Defer,
           RequeueRefused, RequeueNotify
  <2> QED
    BY <2>1, <2>2, <2>3, Zenon
<1>3. ASSUME MainStep, ~CompleteStep(Main)
      PROVE  QueueNext \/ UNCHANGED queueVars
  <2>1. CASE Push
    <3>1. held[Main] \in Ids
      BY <1>0, <2>1 DEF Push, PushEnter, TypeInv
    <3> QED
      BY <2>1, <3>1, Zenon DEF Push, QueueNext
  <2>2. CASE ~Push
    BY <1>3, <2>2, Zenon DEF MainStep, PushBlock, PushInvalid, PushNotify
  <2> QED
    BY <2>1, <2>2, Zenon
<1>4. ASSUME InvalidateAll
      PROVE  QueueNext \/ UNCHANGED queueVars
  BY <1>4, Zenon DEF InvalidateAll, QueueNext
<1>5. ASSUME SpuriousWakeup \/ UNCHANGED vars
      PROVE  QueueNext \/ UNCHANGED queueVars
  BY <1>5, Zenon DEF SpuriousWakeup, vars, queueVars
<1>6. ASSUME MainStep
      PROVE  QueueNext \/ UNCHANGED queueVars
  BY <1>0, <1>1, <1>3, <1>6
<1>7. ASSUME NEW w \in Workers, WorkerStep(w)
      PROVE  QueueNext \/ UNCHANGED queueVars
  BY <1>0, <1>1, <1>2, <1>7
<1>8. \/ \E w \in Workers : WorkerStep(w)
      \/ MainStep \/ InvalidateAll \/ SpuriousWakeup \/ UNCHANGED vars
  BY Zenon DEF Next
<1> QED
  BY <1>4, <1>5, <1>6, <1>7, <1>8, Zenon

\* The critical sections and notifications of the member functions together behave
\* like the atomic operations of OrderedQueue.
THEOREM RefinesOrderedQueueHolds == Spec => RefinesOrderedQueue
<1>1. Init => Queue!QueueInit
  BY Zenon DEF Init, QueueInit, Queue!QueueInit
<1>0. Queue!Cardinality(buffered) = Cardinality(buffered)
  BY Zenon DEF Cardinality, Queue!Cardinality
<1>2. QueueNext \/ UNCHANGED queueVars => [Queue!QueueNext]_Queue!queueVars
  BY <1>0, Zenon
     DEF QueueNext, queueVars, PopPriority, PriorityReady, StartsAtCurrent, PopStandard,
         StandardReady, PushStandard, PushPriority, PriorityRefused, Complete, Settle,
         Advance, Invalidate, Queue!QueueNext, Queue!queueVars, Queue!PopPriority,
         Queue!PriorityReady, Queue!StartsAtCurrent, Queue!PopStandard,
         Queue!StandardReady, Queue!PushStandard, Queue!PushPriority,
         Queue!PriorityRefused, Queue!Complete, Queue!Settle, Queue!Advance,
         Queue!Invalidate
<1>3. QueueInv /\ [Next]_vars => [Queue!QueueNext]_Queue!queueVars
  BY <1>2, QueueSteps
<1> QED
  BY <1>1, <1>3, QueueInvariant, PTL DEF Spec, RefinesOrderedQueue, Queue!QueueSpec
=============================================================================

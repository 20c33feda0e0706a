----------------------------- MODULE SafeQueue -----------------------------
(***************************************************************************)
(* ThreadPool::SafeQueue as a monitor: one mutex, the condition variables  *)
(* push_condition_ and pop_condition_, and the threads inside its member   *)
(* functions.  An action is one critical section, or one notification sent *)
(* after the mutex was released, so that every place where another thread  *)
(* can get in between is a state of the model.                             *)
(*                                                                         *)
(* The callers are those of the event loop: the main thread marks the      *)
(* identifiers up to Skip complete and then pushes Events tasks; a worker  *)
(* pops a task and either completes it or, having seen that it is not its  *)
(* turn, pushes it back onto the priority queue.                           *)
(***************************************************************************)
EXTENDS OrderedQueue, FiniteSetsExt

CONSTANTS Workers, Main, Skip, Events

Threads == Workers \cup {Main}
Last    == Skip + Events

\* completed_ids_.end(), which no change of the set invalidates.
End == -1

VARIABLES
    pc,         \* where each thread is in the queue's code
    held,       \* the identifier each thread is working on
    iter,       \* local iterator of complete(): the identifier it points to
    popWaiters, \* threads blocked on pop_condition_
    pushWaiters \* threads blocked on push_condition_

waitSets == <<popWaiters, pushWaiters>>
vars == <<queue, buffered, completed, current, valid,
          pc, held, iter, popWaiters, pushWaiters>>

ASSUME ThreadsAssumption ==
    /\ Workers # {} /\ IsFiniteSet(Workers) /\ Main \notin Workers
    /\ Skip \in Nat /\ Events \in Nat \ {0}
    /\ Ids = 0 .. Last
    /\ Reserve = Cardinality(Workers)

Init ==
    /\ QueueInit
    /\ pc = [t \in Threads |-> IF t = Main THEN "mark" ELSE "pop"]
    /\ held = [t \in Threads |-> 0]
    /\ iter = [t \in Threads |-> End]
    /\ popWaiters = {}
    /\ pushWaiters = {}

Goto(t, label) == pc' = [pc EXCEPT ![t] = label]

NotifyOnePop ==
    /\ \/ popWaiters = {} /\ popWaiters' = {}
       \/ \E t \in popWaiters : popWaiters' = popWaiters \ {t}
    /\ UNCHANGED pushWaiters

NotifyOnePush ==
    /\ \/ pushWaiters = {} /\ pushWaiters' = {}
       \/ \E t \in pushWaiters : pushWaiters' = pushWaiters \ {t}
    /\ UNCHANGED popWaiters

-----------------------------------------------------------------------------
(* pop(out, buffer_left).  A thread at "pop" enters the function; one that *)
(* was woken on pop_condition_ evaluates the same conditions again.        *)

PopEnter(w) ==
    pc[w] \in {"pop", "popWait"} /\ w \notin popWaiters

PopInvalid(w) ==
    /\ PopEnter(w)
    /\ ~valid
    /\ Goto(w, "end")
    /\ UNCHANGED <<queueVars, held, iter, waitSets>>

PopBuffered(w) ==
    /\ PopEnter(w)
    /\ PopPriority
    /\ held' = [held EXCEPT ![w] = current]
    /\ Goto(w, "notifyPop")
    /\ UNCHANGED <<iter, waitSets>>

PopQueued(w) ==
    /\ PopEnter(w)
    /\ PopStandard
    /\ held' = [held EXCEPT ![w] = Head(queue)]
    /\ Goto(w, "notifyPush")
    /\ UNCHANGED <<iter, waitSets>>

PopBlock(w) ==
    /\ PopEnter(w)
    /\ valid /\ ~PriorityReady /\ ~StandardReady
    /\ popWaiters' = popWaiters \cup {w}
    /\ Goto(w, "popWait")
    /\ UNCHANGED <<queueVars, held, iter, pushWaiters>>

\* After a priority task: pop_condition_.notify_one().
PopNotifyPop(w) ==
    /\ pc[w] = "notifyPop"
    /\ NotifyOnePop
    /\ Goto(w, "notifyPush")
    /\ UNCHANGED <<queueVars, held, iter>>

\* After any task: push_condition_.notify_one().
PopNotifyPush(w) ==
    /\ pc[w] = "notifyPush"
    /\ NotifyOnePush
    /\ Goto(w, "task")
    /\ UNCHANGED <<queueVars, held, iter>>

-----------------------------------------------------------------------------
(* push(value, wait = true), called by the main thread for a new task.     *)

PushEnter == pc[Main] \in {"push", "pushWait"} /\ Main \notin pushWaiters

PushBlock ==
    /\ PushEnter
    /\ valid /\ Len(queue) >= MaxStandard
    /\ pushWaiters' = pushWaiters \cup {Main}
    /\ Goto(Main, "pushWait")
    /\ UNCHANGED <<queueVars, held, iter, popWaiters>>

PushInvalid ==
    /\ PushEnter
    /\ ~valid
    /\ Goto(Main, "end")
    /\ UNCHANGED <<queueVars, held, iter, waitSets>>

Push ==
    /\ PushEnter
    /\ PushStandard(held[Main])
    /\ Goto(Main, "pushed")
    /\ UNCHANGED <<held, iter, waitSets>>

\* Mutant: the submission loop goes one task too far.
PushNotifyBeyond ==
    /\ pc[Main] = "pushed"
    /\ NotifyOnePop
    /\ held' = [held EXCEPT ![Main] = @ + 1]
    /\ Goto(Main, IF held[Main] > Last THEN "end" ELSE "push")
    /\ UNCHANGED <<queueVars, iter>>

\* Mutant: push() notifies nobody.
PushNotifyNobody ==
    /\ pc[Main] = "pushed"
    /\ held' = [held EXCEPT ![Main] = @ + 1]
    /\ Goto(Main, IF held[Main] = Last THEN "end" ELSE "push")
    /\ UNCHANGED <<queueVars, iter, waitSets>>

PushNotify ==
    /\ pc[Main] = "pushed"
    /\ NotifyOnePop
    /\ held' = [held EXCEPT ![Main] = @ + 1]
    /\ Goto(Main, IF held[Main] = Last THEN "end" ELSE "push")
    /\ UNCHANGED <<queueVars, iter>>

-----------------------------------------------------------------------------
(* push(n, value, wait = false), called by a worker that found, by reading *)
(* currentId(), that it is not the turn of its task.                       *)

Defer(w) ==
    /\ pc[w] = "task"
    /\ held[w] # current
    /\ Goto(w, "requeue")
    /\ UNCHANGED <<queueVars, held, iter, waitSets>>

Requeue(w) ==
    /\ pc[w] = "requeue"
    /\ PushPriority(held[w])
    /\ Goto(w, "requeued")
    /\ UNCHANGED <<held, iter, waitSets>>

RequeueRefused(w) ==
    /\ pc[w] = "requeue"
    /\ PriorityRefused
    /\ Goto(w, "pop")
    /\ UNCHANGED <<queueVars, held, iter, waitSets>>

RequeueNotify(w) ==
    /\ pc[w] = "requeued"
    /\ NotifyOnePop
    /\ Goto(w, "pop")
    /\ UNCHANGED <<queueVars, held, iter>>

-----------------------------------------------------------------------------
(* complete(n).  The mutex is given up around the notification in every    *)
(* turn of the loop, while iter still points into completed_ids_.          *)

\* Where a thread goes when complete() returns: a worker pops again, the main
\* thread goes on with the next identifier.
ReturnFromComplete(t) ==
    IF t = Main
      THEN /\ held' = [held EXCEPT ![t] = @ + 1]
           /\ Goto(t, IF held[t] = Skip THEN "push" ELSE "mark")
      ELSE Goto(t, "pop") /\ UNCHANGED held

\* Mutant: the loop of complete() ends after one turn.
FirstOfNone(ids) == End

FirstOf(ids) == IF ids = {} THEN End ELSE Min(ids)

\* Insertion and the first turn of the loop, in one critical section.
CompleteInsert(t) ==
    /\ pc[t] \in {"mark", "task"}
    /\ Complete(held[t])
    /\ IF current' # current
         THEN /\ iter' = [iter EXCEPT ![t] = FirstOf(completed')]
              /\ Goto(t, "erased")
              /\ UNCHANGED held
         ELSE ReturnFromComplete(t) /\ UNCHANGED iter
    /\ UNCHANGED waitSets

CompleteNotify(t) ==
    /\ pc[t] = "erased"
    /\ NotifyOnePop
    /\ Goto(t, "relocked")
    /\ UNCHANGED <<queueVars, held, iter>>

CompleteAtEnd(t) ==
    /\ pc[t] = "relocked"
    /\ iter[t] = End
    /\ ReturnFromComplete(t)
    /\ UNCHANGED <<queueVars, iter, waitSets>>

\* What *iter may read.  When another thread erased the element meanwhile the
\* read is undefined: the freed node still holds the old identifier, or it was
\* reused for an element inserted since.
Readable(t) ==
    IF iter[t] \in completed THEN {iter[t]} ELSE {iter[t]} \cup completed

CompleteReturn(t) ==
    /\ pc[t] = "relocked"
    /\ iter[t] # End
    /\ \E id \in Readable(t) : id # current
    /\ ReturnFromComplete(t)
    /\ UNCHANGED <<queueVars, iter, waitSets>>

\* Mutant: the loop of complete() erases without comparing with current_id_.
CompleteNextUnchecked(t) ==
    /\ pc[t] = "relocked"
    /\ iter[t] # End
    /\ completed' = completed \ {iter[t]}
    /\ current' = current + 1
    /\ iter' = [iter EXCEPT ![t] = FirstOf(completed')]
    /\ Goto(t, "erased")
    /\ UNCHANGED <<queue, buffered, valid, held, waitSets>>

CompleteNext(t) ==
    /\ pc[t] = "relocked"
    /\ iter[t] # End
    /\ current \in Readable(t)
    /\ completed' = completed \ {current}
    /\ current' = current + 1
    /\ iter' = [iter EXCEPT ![t] = FirstOf(completed')]
    /\ Goto(t, "erased")
    /\ UNCHANGED <<queue, buffered, valid, held, waitSets>>

-----------------------------------------------------------------------------
\* Mutant: invalidate() does not wake the threads in pop().
InvalidatePushersOnly ==
    /\ valid
    /\ Invalidate
    /\ pushWaiters' = {}
    /\ UNCHANGED <<pc, held, iter, popWaiters>>

\* invalidate(), called by whoever stops the pool, at any time.
InvalidateAll ==
    /\ valid
    /\ Invalidate
    /\ popWaiters' = {}
    /\ pushWaiters' = {}
    /\ UNCHANGED <<pc, held, iter>>

\* A condition variable may wake a thread without a notification.
SpuriousWakeup ==
    /\ \/ \E t \in popWaiters :
            popWaiters' = popWaiters \ {t} /\ UNCHANGED pushWaiters
       \/ \E t \in pushWaiters :
            pushWaiters' = pushWaiters \ {t} /\ UNCHANGED popWaiters
    /\ UNCHANGED <<queueVars, pc, held, iter>>

CompleteStep(t) ==
    \/ CompleteInsert(t) \/ CompleteNotify(t) \/ CompleteAtEnd(t)
    \/ CompleteReturn(t) \/ CompleteNext(t)

WorkerStep(w) ==
    \/ PopInvalid(w) \/ PopBuffered(w) \/ PopQueued(w) \/ PopBlock(w)
    \/ PopNotifyPop(w) \/ PopNotifyPush(w)
    \/ Defer(w) \/ Requeue(w) \/ RequeueRefused(w) \/ RequeueNotify(w)
    \/ CompleteStep(w)

MainStep ==
    PushBlock \/ PushInvalid \/ Push \/ PushNotify \/ CompleteStep(Main)

Next ==
    \/ \E w \in Workers : WorkerStep(w)
    \/ MainStep
    \/ InvalidateAll
    \/ SpuriousWakeup

Spec == Init /\ [][Next]_vars

\* Every thread that can run is eventually scheduled.  Nothing forces a
\* spurious wakeup or an invalidation.
FairSpec ==
    /\ Spec
    /\ WF_vars(MainStep)
    /\ \A w \in Workers : WF_vars(WorkerStep(w))

-----------------------------------------------------------------------------
TypeOK ==
    /\ QueueTypeOK
    /\ pc \in [Threads -> {"mark", "push", "pushWait", "pushed", "pop", "popWait",
                           "notifyPop", "notifyPush", "task", "requeue", "requeued",
                           "erased", "relocked", "end"}]
    /\ held \in [Threads -> 0 .. Last + 1]
    /\ iter \in [Threads -> Ids \cup {End}]
    /\ popWaiters \subseteq Workers
    /\ pushWaiters \subseteq {Main}

\* Threads that are out of the critical section in the middle of complete().
Completing == {t \in Threads : pc[t] \in {"erased", "relocked"}}

\* Workers that hold a task they may still push back.
Holding == {w \in Workers :
              pc[w] \in {"notifyPop", "notifyPush", "task", "requeue"}}

\* No completion is lost (complete(), ThreadPool.tpp:122): while the next
\* identifier is already marked complete, some thread inside the loop of
\* complete() still has its iterator on it and will go on to erase it.
NoLostCompletion ==
    current \in completed => \E t \in Completing : iter[t] = current

\* The priority push of a popped task never finds its queue full: pop() takes a
\* new task only while every worker could still push back what it holds.
RoomForHeldTasks ==
    valid => Cardinality(buffered) + Cardinality(Holding) <= MaxPriority

\* assert(n >= current_id_) of the priority push: a task that is pushed back
\* is never behind the identifier that is next in line.
NeverBehind == \A w \in Holding : held[w] >= current

\* Every task has one place: waiting in one of the queues, in the hands of one
\* worker, or complete.
OnePlace ==
    /\ \A w \in Holding : held[w] \notin buffered \cup completed
    /\ \A w \in Holding : \A v \in Holding \ {w} : held[v] # held[w]
    /\ \A i \in DOMAIN queue :
         /\ queue[i] \notin buffered \cup completed
         /\ \A w \in Holding : held[w] < queue[i]

\* What push(), pop() and complete() hold together at every release of the mutex,
\* although the turn of a task is read before its push and other threads move
\* the identifier in line meanwhile: room, turns and places.
QueueSound == RoomForHeldTasks /\ NeverBehind /\ OnePlace

\* Identifiers complete in order and one at a time, whatever the order in which
\* the threads mark them: current never skips an identifier nobody completed.
InOrder == [][current' # current =>
                /\ current' = current + 1
                /\ \/ current \in completed
                   \/ \E t \in Threads : pc[t] \in {"mark", "task"} /\ held[t] = current
                /\ current \notin completed' ]_vars

\* No wakeup is lost: if nobody invalidates the queue every identifier is
\* eventually completed, although every notification wakes one thread only.
EventuallyDrained == <>(~valid \/ current = Last + 1)

\* invalidate() releases everyone who waits, and every thread leaves the queue.
InvalidateReleases == ~valid ~> \A t \in Threads : pc[t] = "end"

\* The member functions behave like the atomic operations of OrderedQueue.
Queue == INSTANCE OrderedQueue
RefinesOrderedQueue == Queue!QueueSpec

\* ThreadPool.hpp calls SafeQueue an "Internal thread-safe queuing system": the
\* iterator a thread dereferences in complete() points to an element of the set.
IteratorsAlive ==
    \A t \in Threads : pc[t] = "relocked" => iter[t] \in completed \cup {End}
=============================================================================

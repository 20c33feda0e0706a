---------------------------- MODULE OrderedQueue ----------------------------
(***************************************************************************)
(* What ThreadPool::SafeQueue promises: every member function is one       *)
(* atomic step on the five pieces of state it guards with mutex_.          *)
(*                                                                         *)
(* A task is identified by the number of the event it processes.  The      *)
(* priority queue of (identifier, task) pairs is the set of buffered       *)
(* identifiers: its top is the least element, and the event loop never     *)
(* buffers one event twice.  A blocking call is an action that is not      *)
(* enabled while the call would wait; SafeQueue models the waiting.        *)
(***************************************************************************)
EXTENDS Integers, Sequences, FiniteSets

CONSTANTS
    MaxStandard,    \* max_standard_size_
    MaxPriority,    \* max_priority_size_
    Reserve,        \* buffer_left of every pop: min(num_threads, max_buffered_size)
    Ids             \* identifiers the callers use

ASSUME QueueAssumption ==
    /\ MaxStandard \in Nat \ {0}
    /\ MaxPriority \in Nat
    /\ Reserve \in 0 .. MaxPriority
    /\ Ids \subseteq Nat

VARIABLES
    queue,      \* queue_: tasks in the order they were submitted
    buffered,   \* priority_queue_: identifiers of the buffered tasks
    completed,  \* completed_ids_: completed identifiers above current
    current,    \* current_id_: lowest identifier not yet complete
    valid       \* valid_

queueVars == <<queue, buffered, completed, current, valid>>

QueueTypeOK ==
    /\ queue \in Seq(Ids)
    /\ buffered \in SUBSET Ids
    /\ completed \in SUBSET Ids
    /\ current \in Nat
    /\ valid \in BOOLEAN

QueueInit ==
    /\ queue = <<>>
    /\ buffered = {}
    /\ completed = {}
    /\ current = 0
    /\ valid = TRUE

\* Mutant: the comparison with current_id_ is forgotten.
StartsAnywhere(S) == S # {}

\* The identifiers in S start with the one that is next in line.
StartsAtCurrent(S) == current \in S /\ \A n \in S : current <= n

-----------------------------------------------------------------------------
\* pop(): the top of the priority queue goes first when it is next in line.
PriorityReady == StartsAtCurrent(buffered)

\* Mutant: buffer_left is forgotten, no places are kept free for the tasks that
\* may be pushed back.
StandardReadyUnreserved == queue # <<>> /\ Cardinality(buffered) <= MaxPriority

\* pop(): a standard task may only be taken while the priority queue keeps
\* Reserve free places.
StandardReady ==
    queue # <<>> /\ Cardinality(buffered) + Reserve <= MaxPriority

\* Mutant: top() without pop().
PopPriorityKept ==
    /\ valid
    /\ PriorityReady
    /\ UNCHANGED queueVars

PopPriority ==
    /\ valid
    /\ PriorityReady
    /\ buffered' = buffered \ {current}
    /\ UNCHANGED <<queue, completed, current, valid>>

PopStandard ==
    /\ valid
    /\ ~PriorityReady
    /\ StandardReady
    /\ queue' = Tail(queue)
    /\ UNCHANGED <<buffered, completed, current, valid>>

\* push(value, wait = true): waits while the queue is full and valid.
PushStandard(n) ==
    /\ valid
    /\ Len(queue) < MaxStandard
    /\ queue' = Append(queue, n)
    /\ UNCHANGED <<buffered, completed, current, valid>>

\* push(n, value, wait = false): refuses when full or invalid.
PriorityRefused == ~valid \/ Cardinality(buffered) >= MaxPriority

PushPriority(n) ==
    /\ ~PriorityRefused
    /\ buffered' = buffered \cup {n}
    /\ UNCHANGED <<queue, completed, current, valid>>

\* Mutant: the identifier is not erased.
SettleKept(ids) ==
    /\ completed' = ids
    /\ current' = IF StartsAtCurrent(ids) THEN current + 1 ELSE current

\* One turn of the loop of complete(): if the least of the completed
\* identifiers ids is next in line, it is erased and the next one is current.
Settle(ids) ==
    IF StartsAtCurrent(ids)
      THEN completed' = ids \ {current} /\ current' = current + 1
      ELSE completed' = ids /\ current' = current

\* complete(n) up to the point where it first gives up the mutex.
Complete(n) ==
    /\ Settle(completed \cup {n})
    /\ UNCHANGED <<queue, buffered, valid>>

\* A further turn of the loop of complete().
Advance ==
    /\ StartsAtCurrent(completed)
    /\ Settle(completed)
    /\ UNCHANGED <<queue, buffered, valid>>

Invalidate ==
    /\ queue' = <<>>
    /\ buffered' = {}
    /\ valid' = FALSE
    /\ UNCHANGED <<completed, current>>

-----------------------------------------------------------------------------
QueueNext ==
    \/ PopPriority
    \/ PopStandard
    \/ \E n \in Ids : PushStandard(n) \/ PushPriority(n) \/ Complete(n)
    \/ Advance
    \/ Invalidate

QueueSpec == QueueInit /\ [][QueueNext]_queueVars
=============================================================================

----------------------------- MODULE EventOrder -----------------------------
(***************************************************************************)
(* What the event loop promises its modules: events are processed in       *)
(* parallel and may overtake each other, but a module that requires a      *)
(* sequence sees one event at a time, and an event only when all earlier   *)
(* events are finished.                                                    *)
(***************************************************************************)
EXTENDS Integers

CONSTANTS
    EventIds,   \* the numbers of the events of the run
    NoEvent     \* stands for: no event is in a sequential module

VARIABLES
    started,    \* events a worker has begun to process
    finished,   \* events that are through all modules
    sequence    \* the event in a sequential module, or NoEvent

Init ==
    /\ started = {}
    /\ finished = {}
    /\ sequence = NoEvent

Start(e) ==
    /\ e \notin started
    /\ started' = started \cup {e}
    /\ UNCHANGED <<finished, sequence>>

EnterSequence(e) ==
    /\ sequence = NoEvent
    /\ e \in started \ finished
    /\ \A f \in EventIds : f < e => f \in finished
    /\ sequence' = e
    /\ UNCHANGED <<started, finished>>

LeaveSequence ==
    /\ sequence' = NoEvent
    /\ UNCHANGED <<started, finished>>

Finish(e) ==
    /\ e \in started \ finished
    /\ e # sequence
    /\ finished' = finished \cup {e}
    /\ UNCHANGED <<started, sequence>>

Next ==
    \/ \E e \in EventIds : Start(e) \/ EnterSequence(e) \/ Finish(e)
    \/ LeaveSequence

Spec == Init /\ [][Next]_<<started, finished, sequence>>
=============================================================================

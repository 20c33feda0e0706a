----------------------------- MODULE FileAccess -----------------------------
(***************************************************************************)
(* What the modules that write and read files of events have in common.    *)
(***************************************************************************)
EXTENDS Naturals, FiniteSets, SequencesExt

CONSTANTS
    NumEvents,  \* number_of_events
    Detectors,  \* names of the detectors of the geometry
    NULL

ASSUME EventsAssumption == NumEvents \in Nat \ {0} /\ IsFiniteSet(Detectors)

\* The elements of a sequence that are in S: filters of messages, of references,
\* and of the lines of an input file.
Only(s, S) == FlattenSeq([i \in DOMAIN s |-> IF s[i] \in S THEN <<s[i]>> ELSE <<>>])
=============================================================================

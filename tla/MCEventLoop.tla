---------------------------- MODULE MCEventLoop ----------------------------
(* Instances of EventLoop for TLC. *)
EXTENDS EventLoop

CONSTANTS w1, w2

MCTwoWorkers == {w1, w2}
MCIds == 0 .. Last
MCReserve == Cardinality(Workers)
=============================================================================

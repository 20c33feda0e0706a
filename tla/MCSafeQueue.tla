---------------------------- MODULE MCSafeQueue ----------------------------
(* Instances of SafeQueue for TLC. *)
EXTENDS SafeQueue

CONSTANTS w1, w2, w3

MCWorkers == {w1, w2, w3}
MCIds == 0 .. Last
MCReserve == Cardinality(Workers)
=============================================================================

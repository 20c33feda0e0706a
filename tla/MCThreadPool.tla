---------------------------- MODULE MCThreadPool ----------------------------
(* Instances of ThreadPool for TLC. *)
EXTENDS ThreadPool

CONSTANTS w1, w2

MCWorkers == {w1, w2}
MCIds == 0 .. Tasks
MCReserve == Cardinality(Workers)
=============================================================================

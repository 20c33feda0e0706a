------------------------- MODULE MCDepositionGeant4 -------------------------
(* Two sensors that can change places.                                        *)
EXTENDS DepositionGeant4, TLC

Symmetry == Permutations(Sensors)
=============================================================================

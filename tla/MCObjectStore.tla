--------------------------- MODULE MCObjectStore ---------------------------
(* Events for TLC: a full chain with secondaries in one detector, one with    *)
(* pulses in two detectors, particles only, and nothing.                      *)
EXTENDS ObjectStore

All == ToSet(Classes)

MCContents == {
    [classes |-> All \ {"PixelPulse"}, detectors |-> {"d1"}, tracks |-> 2],
    [classes |-> All \ {"PropagatedCharge"}, detectors |-> {"d1", "d2"}, tracks |-> 1],
    [classes |-> {"MCTrack", "MCParticle"}, detectors |-> {"d2"}, tracks |-> 2],
    [classes |-> {}, detectors |-> {}, tracks |-> 1]}

MCWriteFilters == {All, All \ {"MCTrack"}}
MCReadFilters  == {All, All \ {"DepositedCharge", "PixelCharge"}}
=============================================================================

------------------------------ MODULE Carriers ------------------------------
(***************************************************************************)
(* What the modules that propagate charge carriers have in common: the     *)
(* deposits of an event, and the settings of time that all of them read.   *)
(***************************************************************************)
EXTENDS Integers, Sequences

CONSTANTS
    Deposits,           \* the deposited charges of an event: a set of sequences
    IntegrationTime,    \* integration_time
    SummaryStep,        \* output_propagation_summary_step
    DetrapTimes         \* possible results of the detrapping model

Electron == -1
Hole == 1
Types == {Electron, Hole}

DepositLists == Seq([type : Types, charge : Nat, time : Nat])

ASSUME CarriersAssumption ==
    /\ Deposits \subseteq DepositLists
    /\ {IntegrationTime, SummaryStep} \subseteq Nat \ {0}
    /\ DetrapTimes \subseteq Nat

VARIABLE deposits   \* the data of the DepositedChargeMessage

Ceil(a, b) == (a + b - 1) \div b
=============================================================================

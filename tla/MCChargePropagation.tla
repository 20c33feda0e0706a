------------------------ MODULE MCChargePropagation ------------------------
(* Events for TLC: a deposit divided into groups, two deposits of both types, *)
(* and one beyond the integration time.                                       *)
EXTENDS ChargePropagation

Deposit(type, charge, time) == [type |-> type, charge |-> charge, time |-> time]

MCDeposits == {
    <<Deposit(Electron, 3, 0)>>,
    <<Deposit(Hole, 1, 1), Deposit(Electron, 1, 0)>>,
    <<Deposit(Electron, 5, 4), Deposit(Hole, 5, 2)>>}
=============================================================================

---------------------- MODULE MCInteractivePropagation ----------------------
(* Events and settings for TLC: groups of one deposit, deposits within and     *)
(* after the first step and beyond the integration time, of both types; and    *)
(* doubles with three significant bits, rounded to the nearest, on ties to the *)
(* even one.                                                                   *)
EXTENDS InteractivePropagation

Deposit(type, charge, at) == [type |-> type, charge |-> charge, time |-> at]
Setting(perStep, maxGroups, propagates, refinement) ==
    [perStep |-> perStep, maxGroups |-> maxGroups, propagates |-> propagates,
     refinement |-> refinement]

MCDeposits == {
    <<Deposit(Electron, 5, 0)>>,
    <<Deposit(Electron, 2, 3), Deposit(Hole, 1, 0)>>,
    <<Deposit(Hole, 1, 12), Deposit(Electron, 3, 0)>>,
    <<Deposit(Electron, 1, 10), Deposit(Hole, 4, 28), Deposit(Hole, 3, 24)>>,
    <<Deposit(Hole, 2, 1), Deposit(Electron, 1, 7)>>}

MCSettings == {
    Setting(1, 3, Types, FALSE),
    Setting(2, 0, Types, TRUE),
    Setting(1, 2, {Electron}, TRUE)}
Spacing(n) == CHOOSE u \in {1, 2, 4, 8} : IF u = 8 THEN 32 <= n ELSE n < 8 * u /\ (u = 1 \/ 4 * u <= n)
MCTimes == {n \in 0 .. 56 : n % Spacing(n) = 0}

Round(n) ==
    LET u == Spacing(n)
        m == n \div u
        r == n % u
    IN  IF 2 * r < u \/ (2 * r = u /\ m % 2 = 0) THEN m * u ELSE (m + 1) * u
MCAdd == [a \in MCTimes |-> [b \in MCTimes |-> Min({56, Round(a + b)})]]
MCSub == [a \in MCTimes |-> [b \in MCTimes |-> IF a < b THEN 0 ELSE Round(a - b)]]
=============================================================================

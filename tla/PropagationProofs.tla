------------------------- MODULE PropagationProofs -------------------------
(***************************************************************************)
(* The safety properties of the modules that propagate charge carriers,    *)
(* for any deposits, settings and step times: first those of               *)
(* InteractivePropagation, then those of ChargePropagation.                *)
(***************************************************************************)
EXTENDS InteractivePropagation, ChargePropagation, FiniteSetTheorems,
        SequenceTheorems, WellFoundedInduction, TLAPS

-----------------------------------------------------------------------------
(* InteractivePropagation.  Every part of the invariant is stated for the   *)
(* outer step in which a group is due next: the current one while the loop  *)
(* has not reached the group, the one after it from then on.                *)

Evaluations == [at : Nat, since : Nat, sources : SUBSET groups]

\* Start of the next outer step.
StepEnd == FlAdd[time][Timestep]

TypeInv ==
    /\ \A g \in groups : Deposited(g) \in Times
    /\ time \in Times /\ stepping \in BOOLEAN /\ waiting \subseteq groups
    /\ stepping => time < IntegrationTime
    /\ clock \in [groups -> Times]
    /\ state \in [groups -> States] /\ previous \in [groups -> States]
    /\ samples \subseteq [at : Times, groups : SUBSET groups]
    /\ felt \in [groups -> SUBSET Evaluations]
    /\ drift \in [groups -> [from : Int, to : Int]]
    /\ traps \in [groups -> SUBSET [step : Times, to : Times]]
    /\ ended \in [groups -> Int]

Unvisited(g) == ~stepping \/ g \in waiting

\* Start of the outer step in which the group is due next.
Due(g) == IF Unvisited(g) THEN time ELSE StepEnd

ClockInv ==
    \A g \in groups :
        /\ Live(g) => Due(g) <= clock[g] \/ LeftBehind(g)
        /\ state[g] = "MOTION" => clock[g] <= FlAdd[Due(g)][Timestep] \/ clock[g] = Deposited(g)
        /\ Due(g) = 0 => state[g] = "MOTION" /\ clock[g] = Deposited(g)

\* A group ends once, and what the steps have frozen agrees with that.
EndInv ==
    \A g \in groups :
        /\ Live(g) <=> ended[g] = -1
        /\ ended[g] < Due(g)
        /\ stepping => (Charged(g) <=> ended[g] = -1 \/ time <= ended[g])
        /\ stepping /\ g \in waiting => previous[g] = state[g]

\* The release of a trap misses the step that comes after the one that trapped.
Missed(t) == t.to < FlAdd[t.step][Timestep]

\* A group is in at most one trap, the last one, and otherwise was released.
TrapInv ==
    \A g \in groups :
        /\ \A t \in traps[g] :
              /\ t.step < Due(g) /\ FlAdd[t.step][Timestep] <= Due(g)
              /\ \/ t.to < Due(g) /\ ~Missed(t)
                 \/ state[g] = "TRAPPED" /\ t.to = clock[g]
        /\ state[g] = "TRAPPED" =>
              \E t \in traps[g] : t.to = clock[g] /\ (Due(g) <= clock[g] \/ Missed(t))

\* The evaluations of a step cover a drift, and the clock of the group ends near it.
Covers(E, from, to) ==
    /\ \E e \in E : e.at = from
    /\ \E e \in E : e.at = to
    /\ \A e \in E : from <= e.at /\ e.at <= to
Near(t, to) == to - Tolerance <= t /\ t <= to + Tolerance

DriftInv ==
    \A g \in groups :
        /\ drift[g].from < Due(g)
        /\ stepping /\ time <= drift[g].from =>
              /\ Covers(felt[g], drift[g].from, drift[g].to)
              /\ state[g] = "MOTION" => Near(clock[g], drift[g].to)

FeltInv ==
    stepping => \A g \in groups : \A e \in felt[g] :
        /\ e.since <= e.at
        /\ e.sources = {h \in groups \ {g} : Deposited(h) <= e.since /\ Charged(h)}

\* The samples are of steps that have begun, and true of the groups.
SampleInv ==
    \A s \in samples :
        /\ s.at <= time /\ (s.at < time \/ stepping)
        /\ \A g \in groups :
              g \in s.groups <=>
                  /\ Deposited(g) <= s.at
                  /\ ~RecombinedBy(g, s.at)
                  /\ ~TrappedAt(g, s.at)

Inv == TypeInv /\ ClockInv /\ EndInv /\ TrapInv /\ DriftInv /\ FeltInv /\ SampleInv

-----------------------------------------------------------------------------
(* Facts about numbers and boundaries *)

\* What is used of the arithmetic.
LEMMA Arithmetic ==
    /\ Times \subseteq Nat /\ Timestep \in Times /\ Timestep \in Nat \ {0}
    /\ 0 \in Times /\ Timestep \div 2 \in Times /\ Tolerance \in Nat
    /\ IntegrationTime \in Nat
    /\ \A a, b \in Times :
          /\ FlAdd[a][b] \in Times /\ FlSub[a][b] \in Times
          /\ a <= FlAdd[a][b] /\ FlAdd[0][b] = b /\ FlSub[a][b] <= a
    /\ \A a, b, c \in Times :
          a <= b => FlAdd[a][c] <= FlAdd[b][c] /\ FlAdd[c][a] <= FlAdd[c][b]
    /\ \A t \in Times : t < IntegrationTime => t < FlAdd[t][Timestep]
    /\ \A t \in Times : t < Timestep => Near(FlAdd[t][FlSub[Timestep][t]], Timestep)
BY CarriersAssumption, InteractiveAssumption, ArithmeticAssumption DEF Near

\* A set of natural numbers that is not empty has a least element.
LEMMA LeastNat ==
    ASSUME NEW S, S \subseteq Nat, S # {}
    PROVE  \E x \in S : \A y \in S : x <= y
<1>1. PICK x \in S : \A y \in S : ~(<<y, x>> \in OpToRel(<, Nat))
    BY NatLessThanWellFounded, WFMin
<1>2. \A y \in S : <<y, x>> \notin OpToRel(<, Nat) => x <= y
    BY DEF OpToRel
<1> QED BY <1>1, <1>2

\* Min of the community modules is that element.
LEMMA MinNat ==
    ASSUME NEW S, S \subseteq Nat, S # {}
    PROVE  Min(S) \in S /\ \A y \in S : Min(S) <= y
BY LeastNat DEF Min

\* The boundaries of the refined step are from 0 to its end, and each of them but
\* the last has a next one.
LEMMA NextBoundaryAfter ==
    ASSUME \A g \in groups : Deposited(g) \in Nat, NEW b \in Boundaries, b < Timestep
    PROVE  /\ NextBoundary(b) \in Boundaries /\ b < NextBoundary(b)
           /\ \A c \in Boundaries : b < c => NextBoundary(b) <= c
           /\ Boundaries \subseteq Nat /\ Timestep \in Boundaries
           /\ \A c \in Boundaries : c <= Timestep
<1> DEFINE S == {c \in Boundaries : b < c}
<1>1. Boundaries \subseteq Nat /\ Timestep \in Boundaries
    BY CarriersAssumption, InteractiveAssumption DEF Boundaries
<1>2. \A c \in Boundaries : c <= Timestep
    BY CarriersAssumption, InteractiveAssumption DEF Boundaries
<1>3. S \subseteq Nat /\ S # {}
    BY <1>1
<1>4. Min(S) \in S /\ \A y \in S : Min(S) <= y
    BY <1>3, MinNat
<1> QED BY <1>1, <1>2, <1>4 DEF NextBoundary

\* The last interval of the refined step ends with the step.
LEMMA LastInterval ==
    ASSUME \A g \in groups : Deposited(g) \in Nat, NEW b \in Boundaries, b < Timestep
    PROVE  \E c \in Boundaries : b <= c /\ c < Timestep /\ NextBoundary(c) = Timestep
<1> DEFINE T == {n \in Nat : \E c \in Boundaries : b <= c /\ c < Timestep /\ n = Timestep - c}
<1>1. Boundaries \subseteq Nat /\ Timestep \in Nat /\ Timestep \in Boundaries
    BY CarriersAssumption, InteractiveAssumption DEF Boundaries
<1>2. Timestep - b \in T
    BY <1>1
<1>3. PICK n \in T : \A m \in T : n <= m
    BY <1>2, LeastNat
<1>4. PICK c \in Boundaries : b <= c /\ c < Timestep /\ n = Timestep - c
    BY <1>3
<1>5. \A d \in Boundaries : c < d => Timestep <= d
    <2> SUFFICES ASSUME NEW d \in Boundaries, c < d, d < Timestep PROVE FALSE
        BY <1>1
    <2>1. Timestep - d \in T
        BY <1>1, <1>4
    <2> QED BY <1>1, <1>3, <1>4, <2>1
<1>6. NextBoundary(c) \in Boundaries /\ NextBoundary(c) <= Timestep /\ c < NextBoundary(c)
    BY <1>4, NextBoundaryAfter
<1>7. NextBoundary(c) \in Nat /\ Timestep <= NextBoundary(c)
    BY <1>1, <1>5, <1>6
<1>8. NextBoundary(c) = Timestep
    BY <1>1, <1>6, <1>7
<1> QED BY <1>4, <1>8

\* The evaluations of the refined step cover the drift of a group from its
\* deposition to the end of the step.
LEMMA RefinedCovers ==
    ASSUME TypeInv, NEW g \in groups, Deposited(g) < Timestep
    PROVE  Covers(RefinedEvaluations(g), Deposited(g), Timestep)
<1> DEFINE start == Deposited(g)
           Starts == {c \in Boundaries : c < Timestep /\ start <= c}
<1>1. start \in Nat /\ Timestep \in Nat /\ \A h \in groups : Deposited(h) \in Nat
    BY Arithmetic DEF TypeInv
<1>2. start \in Boundaries
    BY <1>1 DEF Boundaries
<1>3. \A c \in Starts : \A t \in Stages(c) : Evaluation(g, t, c) \in RefinedEvaluations(g)
    BY DEF RefinedEvaluations
<1>4. \A e \in RefinedEvaluations(g) : \E c \in Starts : \E t \in Stages(c) : e = Evaluation(g, t, c)
    BY DEF RefinedEvaluations
<1>5. \A t, c : Evaluation(g, t, c).at = t
    BY DEF Evaluation
<1>6. \E e \in RefinedEvaluations(g) : e.at = start
    <2>1. start \in Stages(start) /\ start \in Starts
        BY <1>1, <1>2 DEF Stages
    <2> QED BY <1>3, <1>5, <2>1
<1>7. \E e \in RefinedEvaluations(g) : e.at = Timestep
    <2>1. PICK c \in Boundaries : start <= c /\ c < Timestep /\ NextBoundary(c) = Timestep
        BY <1>1, <1>2, LastInterval
    <2>2. c \in Starts /\ Timestep \in Stages(c)
        BY <2>1 DEF Stages
    <2> QED BY <1>3, <1>5, <2>2
<1>8. ASSUME NEW c \in Starts, NEW t \in Stages(c)
      PROVE  start <= t /\ t <= Timestep
    <2>1. /\ c \in Nat /\ NextBoundary(c) \in Nat /\ c < NextBoundary(c)
          /\ NextBoundary(c) <= Timestep
        BY <1>1, NextBoundaryAfter
    <2>2. t \in c .. NextBoundary(c)
        BY <2>1 DEF Stages
    <2> QED BY <1>1, <2>1, <2>2
<1>9. \A e \in RefinedEvaluations(g) : start <= e.at /\ e.at <= Timestep
    BY <1>4, <1>5, <1>8
<1> QED BY <1>6, <1>7, <1>9 DEF Covers

-----------------------------------------------------------------------------
(* The invariant *)

\* Every group belongs to a deposit of the event.
LEMMA InitGroups ==
    Init => \A g \in groups : Deposited(g) \in Times
<1> SUFFICES ASSUME Init, NEW g \in groups PROVE Deposited(g) \in Times
    OBVIOUS
<1>1. deposits \in Deposits
    BY DEF Init
<1>2. g[1] \in DOMAIN deposits
    BY DEF Init, GroupsOf, Applicable
<1> QED BY <1>1, <1>2, ArithmeticAssumption DEF Deposited

\* The invariant holds before the first outer step.
LEMMA InitInv == Init => Inv
<1> SUFFICES ASSUME Init PROVE Inv
    OBVIOUS
<1> USE Arithmetic, InitGroups
<1>1. TypeInv
    <2>1. \A g \in groups : Deposited(g) \in Times
        OBVIOUS
    <2>2. clock \in [groups -> Times] /\ drift \in [groups -> [from : Int, to : Int]]
        BY <2>1 DEF Init
    <2>3. /\ state \in [groups -> States] /\ previous \in [groups -> States]
          /\ felt \in [groups -> SUBSET Evaluations]
        BY DEF Init, States
    <2>4. /\ traps \in [groups -> SUBSET [step : Times, to : Times]]
          /\ ended \in [groups -> Int]
        BY DEF Init
    <2>5. /\ time \in Times /\ stepping = FALSE /\ waiting \subseteq groups /\ samples = {}
        BY DEF Init
    <2> QED BY <2>1, <2>2, <2>3, <2>4, <2>5 DEF TypeInv
<1>2. ClockInv
    BY DEF Init, ClockInv, Live, Due, Unvisited
<1>3. EndInv
    BY DEF Init, EndInv, Live, Due, Unvisited
<1>4. TrapInv
    BY DEF Init, TrapInv
<1>5. DriftInv
    BY DEF Init, DriftInv, Due, Unvisited
<1>6. FeltInv /\ SampleInv
    BY DEF Init, FeltInv, SampleInv
<1> QED BY <1>1, <1>2, <1>3, <1>4, <1>5, <1>6 DEF Inv

\* The outer step begins: what is frozen and sampled is true of the groups.
LEMMA BeginStepInv ==
    ASSUME Inv, BeginStep
    PROVE  Inv'
<1> USE DEF Inv
<1>1. /\ ~stepping /\ stepping' /\ waiting' = groups /\ time' = time /\ groups' = groups
      /\ clock' = clock /\ state' = state /\ previous' = state /\ setting' = setting
      /\ deposits' = deposits /\ drift' = drift /\ traps' = traps /\ ended' = ended
      /\ felt' = [g \in groups |-> {}] /\ time < IntegrationTime
    BY DEF BeginStep
<1>2. \A g \in groups : /\ Deposited(g)' = Deposited(g) /\ Due(g)' = Due(g) /\ Due(g) = time
                        /\ LeftBehind(g)' = LeftBehind(g)
    BY <1>1 DEF Deposited, Due, Unvisited, LeftBehind
<1>3. TypeInv'
    <2>1. samples' \subseteq [at : Times, groups : SUBSET groups]
        BY DEF BeginStep, TypeInv
    <2> QED BY <1>1, <1>2, <2>1 DEF TypeInv, Evaluations
<1>4. ClockInv'
    BY <1>1, <1>2 DEF ClockInv, Live
<1>5. EndInv'
    <2> SUFFICES ASSUME NEW g \in groups
                 PROVE  /\ Live(g)' <=> ended[g] = -1
                        /\ ended[g] < time
                        /\ Charged(g)' <=> ended[g] = -1 \/ time <= ended[g]
        BY <1>1, <1>2 DEF EndInv
    <2>1. /\ Live(g)' <=> Live(g)
          /\ Live(g) <=> ended[g] = -1
          /\ ended[g] < time
        BY <1>1, <1>2 DEF EndInv, Live
    <2>2. Charged(g)' <=> Live(g)
        BY <1>1 DEF Charged, Live, TypeInv, States
    <2> QED BY <2>1, <2>2, Arithmetic DEF TypeInv
<1>6. TrapInv'
    BY <1>1, <1>2 DEF TrapInv
<1>7. DriftInv'
    <2>1. \A g \in groups : drift[g].from < time /\ drift[g].from \in Int /\ time \in Nat
        BY <1>2, Arithmetic DEF DriftInv, TypeInv
    <2> QED BY <1>1, <1>2, <2>1 DEF DriftInv
<1>8. FeltInv'
    BY <1>1 DEF FeltInv
<1> DEFINE new == [at |-> time, groups |-> {g \in groups : InSummary(g)}]
<1>9. /\ samples' = IF SummaryDue THEN samples \union {new} ELSE samples
      /\ \A s \in samples : s.at \in Times /\ s.at < time
      /\ time \in Times /\ time \in Nat
    BY <1>1, Arithmetic DEF BeginStep, SampleInv, TypeInv
<1>10. ASSUME NEW g \in groups
       PROVE  InSummary(g) <=> /\ Deposited(g) <= time
                               /\ ~RecombinedBy(g, time)
                               /\ ~TrappedAt(g, time)
    <2>1. state[g] = "RECOMBINED" <=> RecombinedBy(g, time)
        BY <1>2 DEF RecombinedBy, EndInv
    <2>2. state[g] = "TRAPPED" => TrappedAt(g, time)
        <3> SUFFICES ASSUME state[g] = "TRAPPED" PROVE TrappedAt(g, time)
            OBVIOUS
        <3>1. PICK t \in traps[g] : t.to = clock[g] /\ (time <= clock[g] \/ Missed(t))
            BY <1>2 DEF TrapInv
        <3>2. t.step < time
            BY <1>2 DEF TrapInv
        <3> QED BY <3>1, <3>2 DEF TrappedAt, Missed
    <2>3. TrappedAt(g, time) => state[g] = "TRAPPED"
        <3>1. \A t \in traps[g] : t \in [step : Times, to : Times]
            BY DEF TypeInv
        <3>2. \A t \in traps[g] : t.to \in Nat
            BY <3>1, Arithmetic
        <3>3. \A t \in traps[g] : (t.to < time /\ ~Missed(t)) \/ state[g] = "TRAPPED"
            BY <1>2 DEF TrapInv
        <3> QED BY <1>9, <3>2, <3>3 DEF TrappedAt, Missed
    <2> QED BY <2>1, <2>2, <2>3 DEF InSummary
<1>11. \A g \in groups, t \in Times :
          (RecombinedBy(g, t)' <=> RecombinedBy(g, t)) /\ (TrappedAt(g, t)' <=> TrappedAt(g, t))
    BY <1>1 DEF RecombinedBy, TrappedAt
<1>12. SampleInv'
    <2>1. \A s \in samples' : s.at <= time /\ s.at \in Times
        <3>1. \A s \in samples : s.at \in Nat
            BY <1>9, Arithmetic
        <3>2. new.at = time
            OBVIOUS
        <3> HIDE DEF new
        <3> QED BY <1>9, <3>1, <3>2
    <2>2. ASSUME NEW s \in samples', NEW g \in groups
          PROVE  g \in s.groups <=> /\ Deposited(g) <= s.at
                                    /\ ~RecombinedBy(g, s.at)
                                    /\ ~TrappedAt(g, s.at)
        <3>1. CASE s \in samples
            BY <3>1 DEF SampleInv
        <3>2. CASE s = new
            BY <3>2, <1>10
        <3> QED BY <1>9, <3>1, <3>2
    <2> QED BY <1>1, <1>2, <1>11, <2>1, <2>2 DEF SampleInv
<1> QED BY <1>3, <1>4, <1>5, <1>6, <1>7, <1>8, <1>12

\* The outer step ends: groups are due in the next one already.
LEMMA EndStepInv ==
    ASSUME Inv, EndStep
    PROVE  Inv'
<1> USE DEF Inv
<1>1. /\ stepping /\ stepping' = FALSE /\ waiting = {} /\ waiting' = {} /\ time' = StepEnd
      /\ groups' = groups /\ deposits' = deposits /\ clock' = clock /\ state' = state
      /\ previous' = previous /\ samples' = samples /\ setting' = setting
      /\ drift' = drift /\ traps' = traps /\ ended' = ended /\ felt' = felt
    BY DEF EndStep, carriers, history, StepEnd
<1>2. \A g \in groups : /\ Deposited(g)' = Deposited(g)
                        /\ Due(g)' = Due(g) /\ Due(g) = StepEnd
                        /\ LeftBehind(g)' = LeftBehind(g)
    BY <1>1 DEF Deposited, Due, Unvisited, LeftBehind
<1>3. StepEnd \in Times /\ time < StepEnd /\ time \in Nat /\ StepEnd \in Nat
    BY <1>1, Arithmetic DEF TypeInv, StepEnd
<1>4. TypeInv'
    <2>1. stepping' \in BOOLEAN
        BY <1>1, Zenon
    <2>2. Evaluations' = Evaluations
        BY <1>1 DEF Evaluations
    <2> QED BY <1>1, <1>2, <1>3, <2>1, <2>2 DEF TypeInv
<1>5. ClockInv'
    BY <1>1, <1>2 DEF ClockInv, Live
<1>6. EndInv'
    BY <1>1, <1>2 DEF EndInv, Live
<1>7. TrapInv'
    BY <1>1, <1>2 DEF TrapInv
<1>8. DriftInv' /\ FeltInv'
    BY <1>1, <1>2 DEF DriftInv, FeltInv
<1>9. SampleInv'
    <2>1. \A g \in groups, t \in Times : /\ RecombinedBy(g, t)' <=> RecombinedBy(g, t)
                                         /\ TrappedAt(g, t)' <=> TrappedAt(g, t)
        BY <1>1 DEF RecombinedBy, TrappedAt
    <2>2. \A s \in samples : s.at \in Times /\ s.at \in Nat
        BY Arithmetic DEF TypeInv
    <2>3. \A s \in samples : s.at < StepEnd
        BY <1>3, <2>2 DEF SampleInv
    <2> QED BY <1>1, <1>2, <1>3, <2>1, <2>2, <2>3 DEF SampleInv
<1> QED BY <1>4, <1>5, <1>6, <1>7, <1>8, <1>9

\* What visiting a group leaves alone: the other groups are due as before, and
\* the group itself is due in the next outer step.
LEMMA VisitFrame ==
    ASSUME TypeInv, NEW g \in groups, Visit(g),
           UNCHANGED <<setting, deposits, groups, time, stepping>>
    PROVE  /\ stepping /\ g \in waiting /\ waiting' = waiting \ {g} /\ StepEnd' = StepEnd
           /\ \A h \in groups : Deposited(h)' = Deposited(h)
           /\ Due(g) = time /\ Due(g)' = StepEnd
           /\ \A h \in groups \ {g} : Due(h)' = Due(h)
           /\ \A h \in groups : Due(h) \in Times /\ Due(h)' \in Times /\ Due(h) <= Due(h)'
           /\ \A h \in groups : Due(h) \in Nat /\ Due(h)' \in Nat /\ clock[h] \in Nat
           /\ time \in Times /\ StepEnd \in Times /\ time < StepEnd /\ time \in Nat /\ StepEnd \in Nat
           /\ clock[g] \in Times
<1>1. /\ stepping /\ g \in waiting /\ waiting' = waiting \ {g} /\ StepEnd' = StepEnd
      /\ stepping'
      /\ \A h \in groups : Deposited(h)' = Deposited(h)
    BY DEF Visit, Deposited, StepEnd
<1>2. /\ time \in Times /\ StepEnd \in Times /\ time < StepEnd /\ time \in Nat /\ StepEnd \in Nat
      /\ clock[g] \in Times /\ \A h \in groups : clock[h] \in Nat
    BY <1>1, Arithmetic DEF TypeInv, StepEnd
<1>3. Due(g) = time /\ Due(g)' = StepEnd /\ \A h \in groups \ {g} : Due(h)' = Due(h)
    BY <1>1 DEF Due, Unvisited
<1>4. \A h \in groups : Due(h) \in {time, StepEnd}
    BY DEF Due
<1> QED BY <1>1, <1>2, <1>3, <1>4

\* Rounding keeps the steps in their order.
LEMMA LaterSteps == \A a, b \in Times : a <= b => FlAdd[a][Timestep] <= FlAdd[b][Timestep]
BY Arithmetic

\* A group whose clock is not in the outer step, or that has ended, is passed.
LEMMA PassGroupInv ==
    ASSUME Inv, NEW g \in groups, PassGroup(g)
    PROVE  Inv'
<1> USE DEF Inv
<1>1. /\ groups' = groups /\ deposits' = deposits /\ clock' = clock /\ state' = state
      /\ time' = time /\ stepping' = stepping /\ previous' = previous /\ samples' = samples
      /\ drift' = drift /\ traps' = traps /\ ended' = ended /\ felt' = felt
      /\ setting' = setting
    BY DEF PassGroup, carriers, history
<1>2. /\ stepping /\ g \in waiting /\ waiting' = waiting \ {g} /\ StepEnd' = StepEnd
      /\ \A h \in groups : Deposited(h)' = Deposited(h)
      /\ Due(g) = time /\ Due(g)' = StepEnd
      /\ \A h \in groups \ {g} : Due(h)' = Due(h)
      /\ \A h \in groups : Due(h) \in Times /\ Due(h)' \in Times /\ Due(h) <= Due(h)'
      /\ \A h \in groups : Due(h) \in Nat /\ Due(h)' \in Nat /\ clock[h] \in Nat
      /\ time \in Times /\ StepEnd \in Times /\ time < StepEnd /\ time \in Nat /\ StepEnd \in Nat
      /\ clock[g] \in Times
    BY <1>1, VisitFrame DEF PassGroup
<1>3. \A h \in groups : LeftBehind(h)' = LeftBehind(h)
    BY <1>1, <1>2 DEF LeftBehind
<1>4. Live(g) => StepEnd <= clock[g] \/ clock[g] < time
    BY <1>2 DEF PassGroup, Movable, InStep, Live, StepEnd
<1>5. TypeInv'
    BY <1>1, <1>2 DEF TypeInv, Evaluations
<1>6. ClockInv'
    <2> SUFFICES ASSUME NEW h \in groups
                 PROVE  /\ Live(h) => Due(h)' <= clock[h] \/ LeftBehind(h)
                        /\ state[h] = "MOTION" =>
                              clock[h] <= FlAdd[Due(h)'][Timestep] \/ clock[h] = Deposited(h)
                        /\ Due(h)' = 0 => state[h] = "MOTION" /\ clock[h] = Deposited(h)
        BY <1>1, <1>2, <1>3 DEF ClockInv, Live
    <2>1. Live(h) => Due(h)' <= clock[h] \/ LeftBehind(h)
        <3>1. CASE h = g
            BY <1>2, <1>4, <3>1 DEF ClockInv
        <3>2. CASE h # g
            BY <1>2, <3>2 DEF ClockInv
        <3> QED BY <3>1, <3>2
    <2>2. state[h] = "MOTION" =>
              clock[h] <= FlAdd[Due(h)'][Timestep] \/ clock[h] = Deposited(h)
        <3>1. FlAdd[Due(h)][Timestep] <= FlAdd[Due(h)'][Timestep]
            BY <1>2, LaterSteps
        <3>2. FlAdd[Due(h)][Timestep] \in Nat /\ FlAdd[Due(h)'][Timestep] \in Nat
            BY <1>2, Arithmetic
        <3> QED BY <1>2, <3>1, <3>2 DEF ClockInv
    <2>3. Due(h)' = 0 => state[h] = "MOTION" /\ clock[h] = Deposited(h)
        BY <1>2 DEF ClockInv
    <2> QED BY <2>1, <2>2, <2>3
<1>7. EndInv'
    <2>1. \A h \in groups : ended[h] \in Int /\ ended[h] < Due(h)
        BY DEF EndInv, TypeInv
    <2>2. \A h \in groups : ended[h] < Due(h)'
        BY <1>2, <2>1
    <2> QED BY <1>1, <1>2, <2>2 DEF EndInv, Live, Charged
<1>8. TrapInv'
    <2> SUFFICES ASSUME NEW h \in groups
                 PROVE  /\ \A t \in traps[h] :
                              /\ t.step < Due(h)' /\ FlAdd[t.step][Timestep] <= Due(h)'
                              /\ \/ t.to < Due(h)' /\ ~Missed(t)
                                 \/ state[h] = "TRAPPED" /\ t.to = clock[h]
                        /\ state[h] = "TRAPPED" =>
                              \E t \in traps[h] :
                                  t.to = clock[h] /\ (Due(h)' <= clock[h] \/ Missed(t))
        BY <1>1 DEF TrapInv, Missed
    <2>1. \A t \in traps[h] : /\ t.to \in Nat /\ t.step \in Nat /\ t.step \in Times
                              /\ FlAdd[t.step][Timestep] \in Nat
        <3>1. \A t \in traps[h] : t \in [step : Times, to : Times]
            BY DEF TypeInv
        <3> QED BY <3>1, Arithmetic
    <2>2. \A t \in traps[h] :
              /\ t.step < Due(h)' /\ FlAdd[t.step][Timestep] <= Due(h)'
              /\ \/ t.to < Due(h)' /\ ~Missed(t)
                 \/ state[h] = "TRAPPED" /\ t.to = clock[h]
        BY <1>2, <2>1 DEF TrapInv
    <2>3. ASSUME state[h] = "TRAPPED"
          PROVE  \E t \in traps[h] : t.to = clock[h] /\ (Due(h)' <= clock[h] \/ Missed(t))
        <3>1. PICK t \in traps[h] : t.to = clock[h] /\ (Due(h) <= clock[h] \/ Missed(t))
            BY <2>3 DEF TrapInv
        <3>2. CASE h # g
            BY <1>2, <3>1, <3>2
        <3>3. CASE h = g
            <4>1. StepEnd <= clock[g] \/ clock[g] < time
                BY <1>4, <2>3, <3>3 DEF Live
            <4> QED BY <1>2, <3>1, <3>3, <4>1
        <3> QED BY <3>2, <3>3
    <2> QED BY <2>2, <2>3
<1>9. DriftInv'
    <2>1. \A h \in groups : drift[h].from \in Int /\ drift[h].from < Due(h)
        BY DEF TypeInv, DriftInv
    <2>2. \A h \in groups : drift[h].from < Due(h)'
        BY <1>2, <2>1
    <2> QED BY <1>1, <2>2 DEF DriftInv
<1>10. FeltInv'
    BY <1>1, <1>2 DEF FeltInv, Charged
<1>11. SampleInv'
    <2>1. \A h \in groups, t \in Times : /\ RecombinedBy(h, t)' <=> RecombinedBy(h, t)
                                         /\ TrappedAt(h, t)' <=> TrappedAt(h, t)
        BY <1>1 DEF RecombinedBy, TrappedAt
    <2>2. \A s \in samples : s.at \in Times
        BY DEF TypeInv
    <2> QED BY <1>1, <1>2, <2>1, <2>2 DEF SampleInv
<1> QED BY <1>5, <1>6, <1>7, <1>8, <1>9, <1>10, <1>11

\* What a group feels in its step: the sources are those of the moment when the
\* step began, and the evaluations cover the drift of the group.
LEMMA MoveEvaluations ==
    ASSUME Inv, NEW g \in groups, Movable(g), Due(g) = time,
           NEW E, E = IF Refined THEN RefinedEvaluations(g) ELSE StepEvaluations(g, clock[g])
    PROVE  /\ E \subseteq Evaluations
           /\ Covers(E, clock[g], DriftEnd(g))
           /\ \A e \in E : /\ e.since <= e.at
                           /\ e.sources = {h \in groups \ {g} :
                                               Deposited(h) <= e.since /\ Charged(h)}
<1> USE DEF Inv
<1>1. /\ time \in Nat /\ Timestep \in Nat \ {0} /\ clock[g] \in Nat /\ clock[g] \in Times
      /\ time <= clock[g] /\ clock[g] < StepEnd
      /\ \A h \in groups : Deposited(h) \in Nat
    BY Arithmetic DEF TypeInv, Movable, InStep, StepEnd
<1>2. \A t, since \in Nat : Evaluation(g, t, since) \in Evaluations
    BY DEF Evaluation, Evaluations
<1>3. \A t, since : /\ Evaluation(g, t, since).at = t /\ Evaluation(g, t, since).since = since
                    /\ Evaluation(g, t, since).sources =
                          {h \in groups \ {g} : Deposited(h) <= since /\ Charged(h)}
    BY DEF Evaluation
<1>4. CASE ~Refined
    <2> DEFINE from == clock[g]
               mid == FlAdd[from][Timestep \div 2]
               end == FlAdd[from][Timestep]
    <2>1. DriftEnd(g) = end /\ E = StepEvaluations(g, from)
        BY <1>4 DEF DriftEnd
    <2>2. /\ mid \in Nat /\ end \in Nat /\ from \in Nat
          /\ from <= mid /\ mid <= end
        <3>1. Timestep \div 2 <= Timestep /\ Timestep \in Times /\ Timestep \div 2 \in Times
            BY Arithmetic
        <3> QED BY <1>1, <3>1, Arithmetic
    <2>3. /\ \A e \in E : \E t \in {from, mid, end} : e = Evaluation(g, t, t)
          /\ Evaluation(g, from, from) \in E
          /\ Evaluation(g, end, end) \in E
        BY <2>1 DEF StepEvaluations
    <2> HIDE DEF from, mid, end
    <2>4. Covers(E, from, end)
        <3>1. \A t \in {from, mid, end} : from <= t /\ t <= end
            BY <2>2
        <3>2. \A e \in E : from <= e.at /\ e.at <= end
            BY <1>3, <2>3, <3>1
        <3>3. (\E e \in E : e.at = from) /\ (\E e \in E : e.at = end)
            BY <1>3, <2>3
        <3> QED BY <3>2, <3>3 DEF Covers
    <2>5. E \subseteq Evaluations
        BY <1>2, <2>2, <2>3
    <2>6. \A e \in E : /\ e.since <= e.at
                       /\ e.sources = {h \in groups \ {g} :
                                           Deposited(h) <= e.since /\ Charged(h)}
        <3>1. \A t \in {from, mid, end} : t <= t
            BY <2>2
        <3> QED BY <1>3, <2>3, <3>1
    <2> QED BY <2>1, <2>4, <2>5, <2>6 DEF from
<1>5. CASE Refined
    <2>1. time = 0 /\ E = RefinedEvaluations(g)
        BY <1>5 DEF Refined
    <2>2. clock[g] = Deposited(g) /\ clock[g] < Timestep /\ DriftEnd(g) = Timestep
        <3>1. FlAdd[0][Timestep] = Timestep
            BY Arithmetic
        <3> QED BY <1>1, <1>5, <2>1, <3>1 DEF ClockInv, DriftEnd, StepEnd
    <2>3. Covers(E, clock[g], DriftEnd(g))
        BY <1>1, <2>1, <2>2, RefinedCovers
    <2> DEFINE Starts == {c \in Boundaries : c < Timestep /\ Deposited(g) <= c}
    <2>4. \A e \in E : \E c \in Starts : \E t \in Stages(c) : e = Evaluation(g, t, c)
        BY <2>1 DEF RefinedEvaluations
    <2>5. \A c \in Starts : \A t \in Stages(c) : c \in Nat /\ t \in Nat /\ c <= t
        <3> SUFFICES ASSUME NEW c \in Starts, NEW t \in Stages(c)
                     PROVE  c \in Nat /\ t \in Nat /\ c <= t
            OBVIOUS
        <3>1. c \in Nat /\ NextBoundary(c) \in Nat /\ c < NextBoundary(c)
            BY <1>1, NextBoundaryAfter
        <3> QED BY <3>1 DEF Stages
    <2>6. E \subseteq Evaluations
        BY <1>2, <2>4, <2>5
    <2>7. \A e \in E : /\ e.since <= e.at
                       /\ e.sources = {h \in groups \ {g} :
                                           Deposited(h) <= e.since /\ Charged(h)}
        BY <1>3, <2>4, <2>5
    <2> QED BY <2>3, <2>6, <2>7
<1> QED BY <1>4, <1>5

\* Where the clock of the group gets to: to the next outer step or beyond, but short
\* of it by a rounding error at most if the step is refined.
LEMMA MoveClock ==
    ASSUME Inv, NEW g \in groups, Movable(g), Due(g) = time
    PROVE  /\ ClockAfter(g) \in Times /\ DriftEnd(g) \in Times
           /\ Near(ClockAfter(g), DriftEnd(g))
           /\ ClockAfter(g) <= FlAdd[StepEnd][Timestep]
           /\ \/ StepEnd <= ClockAfter(g)
              \/ /\ setting.refinement /\ StepEnd = Timestep /\ Timestep - Tolerance <= ClockAfter(g)
                 /\ clock[g] = Deposited(g) /\ DriftEnd(g) = Timestep
<1> USE DEF Inv
<1>1. /\ time \in Times /\ clock[g] \in Times /\ StepEnd \in Times /\ Timestep \in Times
      /\ time <= clock[g] /\ clock[g] < StepEnd
    BY Arithmetic DEF TypeInv, Movable, InStep, StepEnd
<1>2. time \in Nat /\ clock[g] \in Nat /\ StepEnd \in Nat /\ Tolerance \in Nat
    BY <1>1, Arithmetic
<1>3. FlAdd[clock[g]][Timestep] <= FlAdd[StepEnd][Timestep] /\ StepEnd <= FlAdd[clock[g]][Timestep]
    BY <1>1, <1>2, LaterSteps DEF StepEnd
<1>4. FlAdd[clock[g]][Timestep] \in Times /\ FlAdd[clock[g]][Timestep] \in Nat
      /\ FlAdd[StepEnd][Timestep] \in Nat
    BY <1>1, Arithmetic
<1>5. CASE ~Refined
    <2>1. ClockAfter(g) = FlAdd[clock[g]][Timestep] /\ DriftEnd(g) = FlAdd[clock[g]][Timestep]
        BY <1>5 DEF ClockAfter, DriftEnd
    <2> QED BY <1>2, <1>3, <1>4, <2>1 DEF Near
<1>6. CASE Refined
    <2>1. /\ time = 0 /\ setting.refinement /\ StepEnd = Timestep /\ DriftEnd(g) = Timestep
          /\ clock[g] = Deposited(g)
        <3>1. FlAdd[0][Timestep] = Timestep
            BY Arithmetic
        <3> QED BY <1>6, <3>1 DEF Refined, StepEnd, DriftEnd, ClockInv
    <2> DEFINE rest == FlSub[Timestep][clock[g]]
    <2>2. ClockAfter(g) = FlAdd[clock[g]][rest] /\ rest \in Times /\ rest <= Timestep
        BY <1>1, <1>6, <2>1, Arithmetic DEF ClockAfter
    <2> HIDE DEF rest
    <2>3. ClockAfter(g) \in Times /\ ClockAfter(g) <= FlAdd[clock[g]][Timestep]
        <3>1. \A a, b \in Times : FlAdd[a][b] \in Times
            BY Arithmetic
        <3>2. \A a, b, c \in Times : a <= b => FlAdd[c][a] <= FlAdd[c][b]
            BY Arithmetic
        <3> QED BY <1>1, <2>2, <3>1, <3>2
    <2>4. Near(ClockAfter(g), Timestep)
        BY <1>1, <2>1, <2>2, Arithmetic DEF rest
    <2>5. ClockAfter(g) \in Nat
        BY <2>3, Arithmetic
    <2> QED BY <1>1, <1>2, <1>3, <1>4, <2>1, <2>3, <2>4, <2>5 DEF Near
<1> QED BY <1>5, <1>6

\* A group moves, and is due in the next outer step with whatever became of it.
LEMMA MoveGroupInv ==
    ASSUME Inv, NEW g \in groups, MoveGroup(g)
    PROVE  Inv'
<1> USE DEF Inv
<1> DEFINE end == ClockAfter(g)
           to == DriftEnd(g)
           E == IF Refined THEN RefinedEvaluations(g) ELSE StepEvaluations(g, clock[g])
<1>1. /\ groups' = groups /\ deposits' = deposits /\ setting' = setting
      /\ time' = time /\ stepping' = stepping /\ previous' = previous /\ samples' = samples
      /\ Visit(g) /\ Movable(g)
      /\ felt' = [felt EXCEPT ![g] = E]
      /\ drift' = [drift EXCEPT ![g] = [from |-> clock[g], to |-> to]]
    BY DEF MoveGroup
<1>2. /\ stepping /\ g \in waiting /\ waiting' = waiting \ {g} /\ StepEnd' = StepEnd
      /\ \A h \in groups : Deposited(h)' = Deposited(h)
      /\ Due(g) = time /\ Due(g)' = StepEnd
      /\ \A h \in groups \ {g} : Due(h)' = Due(h)
      /\ \A h \in groups : Due(h) \in Times /\ Due(h)' \in Times /\ Due(h) <= Due(h)'
      /\ \A h \in groups : Due(h) \in Nat /\ Due(h)' \in Nat /\ clock[h] \in Nat
      /\ time \in Times /\ StepEnd \in Times /\ time < StepEnd /\ time \in Nat /\ StepEnd \in Nat
      /\ clock[g] \in Times
    BY <1>1, VisitFrame
<1>3. /\ E \subseteq Evaluations
      /\ Covers(E, clock[g], to)
      /\ \A e \in E : /\ e.since <= e.at
                      /\ e.sources = {h \in groups \ {g} :
                                          Deposited(h) <= e.since /\ Charged(h)}
    BY <1>1, <1>2, MoveEvaluations
<1>4. /\ end \in Times /\ to \in Times /\ Near(end, to) /\ end <= FlAdd[StepEnd][Timestep]
      /\ \/ StepEnd <= end
         \/ /\ setting.refinement /\ StepEnd = Timestep /\ Timestep - Tolerance <= end
            /\ clock[g] = Deposited(g) /\ to = Timestep
    BY <1>1, <1>2, MoveClock
<1>5. end \in Nat /\ to \in Nat /\ FlAdd[StepEnd][Timestep] \in Nat /\ Tolerance \in Nat
    BY <1>2, <1>4, Arithmetic
<1>6. /\ time <= clock[g] /\ clock[g] < StepEnd
      /\ Live(g) /\ ended[g] = -1
    BY <1>1 DEF Movable, InStep, Live, EndInv, StepEnd
<1> HIDE DEF end, to, E
\* The three outcomes of a step, told apart by the new state.
<1>7. PICK s \in States, reached \in Times :
          /\ state' = [state EXCEPT ![g] = s]
          /\ clock' = [clock EXCEPT ![g] = reached]
          /\ end <= reached
          /\ s # "TRAPPED" => reached = end /\ traps' = traps
          /\ s = "TRAPPED" =>
                traps' = [traps EXCEPT ![g] = @ \union {[step |-> time, to |-> reached]}]
          /\ s \in {"MOTION", "TRAPPED"} => ended' = ended
          /\ s \notin {"MOTION", "TRAPPED"} => ended' = [ended EXCEPT ![g] = time]
    <2>1. CASE /\ state' = [state EXCEPT ![g] = "MOTION"]
               /\ clock' = [clock EXCEPT ![g] = end]
               /\ UNCHANGED <<traps, ended>>
        <3> "MOTION" \in States /\ end \in Times
            BY <1>4 DEF States
        <3>1. end <= end
            BY <1>5
        <3> WITNESS "MOTION" \in States, end \in Times
        <3> QED BY <2>1, <3>1
    <2>2. CASE /\ \E s \in {"HALTED", "RECOMBINED"} : state' = [state EXCEPT ![g] = s]
               /\ clock' = [clock EXCEPT ![g] = end]
               /\ ended' = [ended EXCEPT ![g] = time]
               /\ UNCHANGED traps
        <3>1. PICK s \in {"HALTED", "RECOMBINED"} : state' = [state EXCEPT ![g] = s]
            BY <2>2
        <3> s \in States /\ end \in Times
            BY <1>4 DEF States
        <3>2. end <= end /\ s # "MOTION" /\ s # "TRAPPED"
            BY <1>5
        <3> WITNESS s \in States, end \in Times
        <3> QED BY <2>2, <3>1, <3>2
    <2>3. CASE \E detrap \in DetrapTimes :
                  /\ state' = [state EXCEPT ![g] = "TRAPPED"]
                  /\ clock' = [clock EXCEPT ![g] = FlAdd[end][detrap]]
                  /\ traps' = [traps EXCEPT ![g] =
                                   @ \union {[step |-> time, to |-> clock'[g]]}]
                  /\ UNCHANGED ended
        <3>1. PICK detrap \in DetrapTimes :
                  /\ state' = [state EXCEPT ![g] = "TRAPPED"]
                  /\ clock' = [clock EXCEPT ![g] = FlAdd[end][detrap]]
                  /\ traps' = [traps EXCEPT ![g] =
                                   @ \union {[step |-> time, to |-> clock'[g]]}]
                  /\ UNCHANGED ended
            BY <2>3
        <3> DEFINE reached == FlAdd[end][detrap]
        <3> reached \in Times /\ "TRAPPED" \in States
            BY <1>4, Arithmetic, ArithmeticAssumption DEF States
        <3>2. end <= reached
            BY <1>4, Arithmetic, ArithmeticAssumption
        <3>3. clock'[g] = reached
            BY <3>1 DEF TypeInv
        <3> HIDE DEF reached
        <3>4. clock' = [clock EXCEPT ![g] = reached]
            BY <3>1 DEF reached
        <3> WITNESS "TRAPPED" \in States, reached \in Times
        <3> QED BY <3>1, <3>2, <3>3, <3>4
    <2> QED BY <2>1, <2>2, <2>3 DEF MoveGroup, end
<1>8. reached \in Nat
    BY Arithmetic
<1>9. /\ state'[g] = s /\ clock'[g] = reached
      /\ \A h \in groups \ {g} : /\ state'[h] = state[h] /\ clock'[h] = clock[h]
                                 /\ traps'[h] = traps[h] /\ ended'[h] = ended[h]
                                 /\ felt'[h] = felt[h] /\ drift'[h] = drift[h]
      /\ felt'[g] = E /\ drift'[g] = [from |-> clock[g], to |-> to]
      /\ drift'[g].from = clock[g] /\ drift'[g].to = to
      /\ s # "TRAPPED" => traps'[g] = traps[g]
      /\ s = "TRAPPED" => traps'[g] = traps[g] \union {[step |-> time, to |-> reached]}
      /\ s \in {"MOTION", "TRAPPED"} => ended'[g] = -1
      /\ s \notin {"MOTION", "TRAPPED"} => ended'[g] = time
    BY <1>1, <1>6, <1>7 DEF TypeInv
<1>10. TypeInv'
    <2>1. /\ clock' \in [groups -> Times] /\ state' \in [groups -> States]
          /\ drift' \in [groups -> [from : Int, to : Int]] /\ ended' \in [groups -> Int]
        BY <1>1, <1>2, <1>5, <1>7 DEF TypeInv
    <2>2. felt' \in [groups -> SUBSET Evaluations] /\ Evaluations' = Evaluations
        BY <1>1, <1>3 DEF TypeInv, Evaluations
    <2>3. traps' \in [groups -> SUBSET [step : Times, to : Times]]
        BY <1>2, <1>7 DEF TypeInv
    <2> QED BY <1>1, <1>2, <2>1, <2>2, <2>3 DEF TypeInv
<1>11. ClockInv'
    <2> SUFFICES ASSUME NEW h \in groups
                 PROVE  /\ state'[h] \in {"MOTION", "TRAPPED"} =>
                              Due(h)' <= clock'[h] \/ LeftBehind(h)'
                        /\ state'[h] = "MOTION" =>
                              clock'[h] <= FlAdd[Due(h)'][Timestep] \/ clock'[h] = Deposited(h)
                        /\ Due(h)' = 0 => state'[h] = "MOTION" /\ clock'[h] = Deposited(h)
        BY <1>1, <1>2 DEF ClockInv, Live
    <2>1. CASE h = g
        <3>1. StepEnd <= reached \/ LeftBehind(g)'
            <4> SUFFICES ASSUME ~(StepEnd <= reached) PROVE LeftBehind(g)'
                OBVIOUS
            <4>1. /\ setting.refinement /\ StepEnd = Timestep /\ Timestep - Tolerance <= reached
                  /\ clock[g] = Deposited(g) /\ to = Timestep /\ reached < Timestep
                BY <1>2, <1>4, <1>5, <1>7, <1>8
            <4> QED BY <1>1, <1>2, <1>9, <4>1 DEF LeftBehind
        <3>2. s = "MOTION" => reached <= FlAdd[StepEnd][Timestep]
            BY <1>4, <1>7
        <3>3. StepEnd # 0
            BY <1>2
        <3> QED BY <1>2, <1>9, <2>1, <3>1, <3>2, <3>3
    <2>2. CASE h # g
        <3>1. LeftBehind(h)' = LeftBehind(h)
            BY <1>1, <1>2, <1>9, <2>2 DEF LeftBehind
        <3> QED BY <1>2, <1>9, <2>2, <3>1 DEF ClockInv, Live
    <2> QED BY <2>1, <2>2
<1>12. EndInv'
    <2> SUFFICES ASSUME NEW h \in groups
                 PROVE  /\ state'[h] \in {"MOTION", "TRAPPED"} <=> ended'[h] = -1
                        /\ ended'[h] < Due(h)'
                        /\ Charged(h) <=> ended'[h] = -1 \/ time <= ended'[h]
                        /\ h \in waiting' => previous[h] = state'[h]
        BY <1>1 DEF EndInv, Live, Charged
    <2>1. CASE h = g
        <3>1. Charged(g)
            BY <1>2, <1>6 DEF EndInv
        <3> QED BY <1>2, <1>9, <2>1, <3>1
    <2>2. CASE h # g
        BY <1>2, <1>9, <2>2 DEF EndInv, Live
    <2> QED BY <2>1, <2>2
<1>13. TrapInv'
    <2> SUFFICES ASSUME NEW h \in groups
                 PROVE  /\ \A t \in traps'[h] :
                              /\ t.step < Due(h)' /\ FlAdd[t.step][Timestep] <= Due(h)'
                              /\ \/ t.to < Due(h)' /\ ~Missed(t)
                                 \/ state'[h] = "TRAPPED" /\ t.to = clock'[h]
                        /\ state'[h] = "TRAPPED" =>
                              \E t \in traps'[h] :
                                  t.to = clock'[h] /\ (Due(h)' <= clock'[h] \/ Missed(t))
        BY <1>1 DEF TrapInv, Missed
    <2>1. CASE h = g
        <3>1. ASSUME NEW t \in traps[g]
              PROVE  /\ t.step < StepEnd /\ FlAdd[t.step][Timestep] <= StepEnd
                     /\ t.to < StepEnd /\ ~Missed(t)
            <4>1. t.to \in Nat /\ t.step \in Times /\ t.step \in Nat /\ FlAdd[t.step][Timestep] \in Nat
                <5>1. t \in [step : Times, to : Times]
                    BY DEF TypeInv
                <5> QED BY <5>1, Arithmetic
            <4>2. /\ t.step < time /\ FlAdd[t.step][Timestep] <= time
                  /\ (t.to < time /\ ~Missed(t)) \/ t.to = clock[g]
                BY <1>2 DEF TrapInv
            <4> QED BY <1>2, <1>6, <4>1, <4>2 DEF Missed
        <3>2. CASE s # "TRAPPED"
            BY <1>2, <1>9, <2>1, <3>1, <3>2
        <3>3. CASE s = "TRAPPED"
            <4> DEFINE new == [step |-> time, to |-> reached]
            <4>1. /\ new \in traps'[g] /\ new.to = clock'[g] /\ new.step < StepEnd
                  /\ FlAdd[new.step][Timestep] = StepEnd
                BY <1>2, <1>9, <3>3 DEF StepEnd
            <4>2. \A t \in traps'[g] : t \in traps[g] \/ t = new
                BY <1>9, <3>3
            <4>3. StepEnd <= clock'[g] \/ Missed(new)
                BY <1>2, <1>8, <1>9, <4>1 DEF Missed
            <4> HIDE DEF new
            <4>4. \A t \in traps'[g] :
                      /\ t.step < StepEnd /\ FlAdd[t.step][Timestep] <= StepEnd
                      /\ (t.to < StepEnd /\ ~Missed(t)) \/ t.to = clock'[g]
                BY <1>2, <3>1, <4>1, <4>2
            <4> QED BY <1>2, <1>9, <2>1, <3>3, <4>1, <4>3, <4>4
        <3> QED BY <3>2, <3>3
    <2>2. CASE h # g
        BY <1>2, <1>9, <2>2 DEF TrapInv
    <2> QED BY <2>1, <2>2
<1>14. DriftInv'
    <2> SUFFICES ASSUME NEW h \in groups
                 PROVE  /\ drift'[h].from < Due(h)'
                        /\ time <= drift'[h].from =>
                              /\ Covers(felt'[h], drift'[h].from, drift'[h].to)
                              /\ state'[h] = "MOTION" => Near(clock'[h], drift'[h].to)
        BY <1>1 DEF DriftInv, Covers, Near
    <2>1. CASE h = g
        <3>1. s = "MOTION" => Near(reached, to)
            BY <1>4, <1>7
        <3> QED BY <1>2, <1>3, <1>6, <1>9, <2>1, <3>1
    <2>2. CASE h # g
        BY <1>2, <1>9, <2>2 DEF DriftInv
    <2> QED BY <2>1, <2>2
<1>15. FeltInv'
    <2> SUFFICES ASSUME NEW h \in groups, NEW e \in felt'[h]
                 PROVE  /\ e.since <= e.at
                        /\ e.sources = {f \in groups \ {h} : Deposited(f) <= e.since /\ Charged(f)}
        BY <1>1, <1>2 DEF FeltInv, Charged
    <2>1. CASE h = g
        BY <1>3, <1>9, <2>1
    <2>2. CASE h # g
        BY <1>2, <1>9, <2>2 DEF FeltInv
    <2> QED BY <2>1, <2>2
<1>16. SampleInv'
    <2>1. \A r \in samples : r.at \in Nat /\ r.at <= time
        BY Arithmetic DEF TypeInv, SampleInv
    <2>2. ASSUME NEW r \in samples
          PROVE  /\ RecombinedBy(g, r.at)' <=> RecombinedBy(g, r.at)
                 /\ TrappedAt(g, r.at)' <=> TrappedAt(g, r.at)
        <3> DEFINE caught(t) ==
                t.step < r.at /\ (r.at <= t.to \/ t.to < FlAdd[t.step][Timestep])
        <3>1. ~RecombinedBy(g, r.at)
            BY <1>6 DEF RecombinedBy, Live
        <3>2. ~(state'[g] = "RECOMBINED" /\ ended'[g] < r.at)
            BY <1>2, <1>9, <2>1
        <3>3. RecombinedBy(g, r.at)' <=> state'[g] = "RECOMBINED" /\ ended'[g] < r.at
            BY <1>1 DEF RecombinedBy
        <3>4. TrappedAt(g, r.at)' <=> \E t \in traps'[g] : caught(t)
            BY <1>1 DEF TrappedAt
        <3>5. ~caught([step |-> time, to |-> reached])
            BY <1>2, <2>1
        <3> HIDE DEF caught
        <3>6. (\E t \in traps'[g] : caught(t)) <=> (\E t \in traps[g] : caught(t))
            BY <1>9, <3>5
        <3>7. TrappedAt(g, r.at) <=> \E t \in traps[g] : caught(t)
            BY DEF TrappedAt, caught
        <3> QED BY <3>1, <3>2, <3>3, <3>4, <3>6, <3>7
    <2>3. \A r \in samples, h \in groups \ {g} :
              /\ RecombinedBy(h, r.at)' <=> RecombinedBy(h, r.at)
              /\ TrappedAt(h, r.at)' <=> TrappedAt(h, r.at)
        BY <1>1, <1>9 DEF RecombinedBy, TrappedAt
    <2> QED BY <1>1, <1>2, <2>2, <2>3 DEF SampleInv
<1> QED BY <1>10, <1>11, <1>12, <1>13, <1>14, <1>15, <1>16

\* Every step preserves the invariant.
LEMMA NextInv == Inv /\ [Next]_vars => Inv'
<1> SUFFICES ASSUME Inv, [Next]_vars PROVE Inv'
    OBVIOUS
<1>1. CASE BeginStep
    BY <1>1, BeginStepInv
<1>2. ASSUME NEW g \in groups, PassGroup(g) \/ MoveGroup(g) PROVE Inv'
    BY <1>2, PassGroupInv, MoveGroupInv
<1>3. CASE EndStep
    BY <1>3, EndStepInv
<1>4. CASE UNCHANGED <<setting, deposits, groups, progress, carriers, samples, history>>
    <2>1. UNCHANGED <<setting, deposits, groups, time, waiting, stepping, clock, state, previous,
                      samples, felt, drift, traps, ended>>
        BY <1>4 DEF progress, carriers, history
    <2>2. \A g \in groups : /\ Deposited(g)' = Deposited(g) /\ Due(g)' = Due(g)
                            /\ LeftBehind(g)' = LeftBehind(g)
        BY <2>1 DEF Deposited, Due, Unvisited, StepEnd, LeftBehind
    <2>3. TypeInv'
        BY <2>1, <2>2 DEF Inv, TypeInv, Evaluations
    <2>4. ClockInv' /\ EndInv' /\ TrapInv' /\ DriftInv' /\ FeltInv'
        BY <2>1, <2>2 DEF Inv, ClockInv, EndInv, TrapInv, DriftInv, FeltInv,
                          Live, Charged, Covers, Missed, Near
    <2>5. SampleInv'
        BY <2>1, <2>2 DEF Inv, SampleInv, RecombinedBy, TrappedAt
    <2> QED BY <2>3, <2>4, <2>5 DEF Inv
<1>5. CASE Output
    BY <1>4, <1>5 DEF Output
<1>6. CASE UNCHANGED vars
    BY <1>4, <1>6 DEF vars
<1> QED BY <1>1, <1>2, <1>3, <1>5, <1>6 DEF Next

THEOREM InvariantHolds == Spec => []Inv
BY InitInv, NextInv, PTL DEF Spec

-----------------------------------------------------------------------------
(* The properties *)

\* The clocks of all groups go along with the outer step, whatever the rounding of
\* their sums, but for a group that the refined first step leaves short of its end by
\* a rounding error; and in an outer step each group drifts from its own clock to
\* where the clock gets (propagate_together).
THEOREM LockStepHolds == Spec => []LockStep
<1>1. Inv => LockStep
    <2> SUFFICES ASSUME Inv, NEW g \in groups
                 PROVE  /\ Live(g) => time <= clock[g] \/ LeftBehind(g)
                        /\ ~stepping /\ state[g] = "MOTION" /\ Deposited(g) < time =>
                              clock[g] <= StepEnd
                        /\ stepping /\ time <= drift[g].from =>
                              /\ drift[g].from < StepEnd
                              /\ state[g] = "MOTION" => Near(clock[g], drift[g].to)
                              /\ Covers(felt[g], drift[g].from, drift[g].to)
        BY DEF LockStep, Covers, Near, StepEnd
    <2> USE DEF Inv
    <2>1. /\ time \in Times /\ time \in Nat /\ clock[g] \in Nat /\ Deposited(g) \in Nat
          /\ drift[g].from \in Int /\ StepEnd \in Nat /\ time <= StepEnd
          /\ Due(g) \in {time, StepEnd} /\ (~stepping => Due(g) = time)
        BY Arithmetic DEF TypeInv, Due, Unvisited, StepEnd
    <2>2. Live(g) => time <= clock[g] \/ LeftBehind(g)
        BY <2>1 DEF ClockInv
    <2>3. ~stepping /\ state[g] = "MOTION" /\ Deposited(g) < time => clock[g] <= StepEnd
        BY <2>1 DEF ClockInv, StepEnd
    <2>4. drift[g].from < StepEnd
        BY <2>1 DEF DriftInv
    <2> QED BY <2>2, <2>3, <2>4 DEF DriftInv
<1> QED BY <1>1, InvariantHolds, PTL

\* In an outer step all groups feel the same sources, whatever the order in which
\* the loop visits them and whatever becomes of those visited before.
THEOREM SourcesCommonHolds == Spec => []SourcesCommon
<1>1. Inv => SourcesCommon
    <2> SUFFICES ASSUME Inv, stepping, NEW g \in groups, NEW e \in felt[g], NEW h \in groups \ {g}
                 PROVE  h \in e.sources <=>
                            /\ Deposited(h) <= e.since /\ e.since <= e.at
                            /\ ended[h] = -1 \/ time <= ended[h]
        BY DEF SourcesCommon
    <2> USE DEF Inv
    <2>1. /\ e.since <= e.at
          /\ e.sources = {f \in groups \ {g} : Deposited(f) <= e.since /\ Charged(f)}
        BY DEF FeltInv
    <2>2. Charged(h) <=> ended[h] = -1 \/ time <= ended[h]
        BY DEF EndInv
    <2> QED BY <2>1, <2>2
<1> QED BY <1>1, InvariantHolds, PTL

\* Every sample of the summary holds just the groups that are deposited, not
\* recombined and not in a trap at its time, whatever the rounding of the times and
\* whatever comes of the groups later.
THEOREM SummaryTrueHolds == Spec => []SummaryTrue
<1>1. Inv => SummaryTrue
    BY DEF Inv, SampleInv, SummaryTrue
<1> QED BY <1>1, InvariantHolds, PTL

-----------------------------------------------------------------------------
(* Sums over finite sets.  MapThenSumSet takes elements away in some order; *)
(* the sum does not depend on it.                                           *)

One(s) == CHOOSE x \in s : TRUE

\* f[s] is the sum of e over s, for all s in D.
SumsOn(f, e, D) ==
    f = [s \in D |-> IF s = {} THEN 0 ELSE e[One(s)] + f[s \ {One(s)}]]

Sums(f, e, S) == SumsOn(f, e, SUBSET S)

\* v is the sum of e over S.
IsSum(v, e, S) == \E f : Sums(f, e, S) /\ v = f[S]

\* The terms of a sum.
NatOn(e, S) == \A x \in S : e[x] \in Nat

\* Any element may be taken away first.
AnyFirst(f, e, S) == \A s \in SUBSET S : \A x \in s : f[s] = e[x] + f[s \ {x}]

\* The subsets of up to n elements.
UpTo(n, S) == {s \in SUBSET S : Cardinality(s) <= n}

LEMMA OneLess ==
  ASSUME NEW S, IsFiniteSet(S), NEW s \in SUBSET S, s # {}
  PROVE  /\ One(s) \in s /\ s \ {One(s)} \in SUBSET S
         /\ Cardinality(s) \in Nat \ {0} /\ Cardinality(s \ {One(s)}) = Cardinality(s) - 1
<1>1. One(s) \in s
  BY DEF One
<1>2. IsFiniteSet(s)
  BY FS_Subset
<1>3. Cardinality(s) \in Nat /\ Cardinality(s) # 0
  BY <1>2, FS_CardinalityType, FS_EmptySet
<1>4. Cardinality(s \ {One(s)}) = Cardinality(s) - 1
  BY <1>1, <1>2, FS_RemoveElement
<1> QED BY <1>1, <1>3, <1>4

\* There is such a function, as the recursion is well-founded.
LEMMA SumsUpTo ==
  ASSUME NEW S, IsFiniteSet(S), NEW e, NEW n \in Nat
  PROVE  \E f : SumsOn(f, e, UpTo(n, S))
<1> DEFINE bad == {k \in Nat : ~\E f : SumsOn(f, e, UpTo(k, S))}
<1> SUFFICES ASSUME bad # {} PROVE FALSE
  OBVIOUS
<1>0. bad \subseteq Nat
  OBVIOUS
<1>1. PICK k \in bad : \A l \in bad : k <= l
  <2> HIDE DEF bad
  <2> QED BY <1>0, LeastNat
<1>2. k # 0
  <2>1. \A s \in UpTo(0, S) : s = {}
    <3>1. ASSUME NEW s \in SUBSET S, s # {} PROVE ~(Cardinality(s) <= 0)
      <4>1. Cardinality(s) \in Nat \ {0}
        BY <3>1, OneLess
      <4> QED BY <4>1
    <3> QED BY <3>1 DEF UpTo
  <2> DEFINE f == [s \in UpTo(0, S) |-> 0]
  <2>2. f = [s \in UpTo(0, S) |-> IF s = {} THEN 0 ELSE e[One(s)] + f[s \ {One(s)}]]
    BY <2>1
  <2>3. SumsOn(f, e, UpTo(0, S))
    BY <2>2 DEF SumsOn
  <2> QED BY <1>1, <2>3
<1>3. k \in Nat /\ k - 1 \in Nat /\ k - 1 \notin bad
  BY <1>1, <1>2
<1>4. PICK f : SumsOn(f, e, UpTo(k - 1, S))
  BY <1>3
<1> DEFINE D == UpTo(k - 1, S)
           E == UpTo(k, S)
           Value(s, h) == IF s = {} THEN 0 ELSE e[One(s)] + h[s \ {One(s)}]
           g == [s \in E |-> Value(s, f)]
<1>5. \A s \in D : f[s] = Value(s, f)
  BY <1>4 DEF SumsOn
<1>6. \A s \in E : s # {} => s \ {One(s)} \in D
  BY <1>3, OneLess DEF UpTo
<1>7. \A s \in D : s \in E
  BY <1>3, FS_Subset, FS_CardinalityType DEF UpTo
<1> HIDE DEF D, E
<1>8. \A s \in D : g[s] = f[s]
  BY <1>5, <1>7
<1>9. \A s \in E : Value(s, g) = Value(s, f)
  <2> TAKE s \in E
  <2>1. CASE s = {}
    BY <2>1
  <2>2. CASE s # {}
    <3>1. g[s \ {One(s)}] = f[s \ {One(s)}]
      <4> HIDE DEF g
      <4> QED BY <1>6, <1>8, <2>2
    <3> QED BY <2>2, <3>1
  <2> QED BY <2>1, <2>2
<1>10. g = [s \in E |-> Value(s, g)]
  BY <1>9
<1>11. SumsOn(g, e, E)
  <2> HIDE DEF g
  <2> QED BY <1>10 DEF SumsOn
<1> HIDE DEF g
<1>12. \E h : SumsOn(h, e, UpTo(k, S))
  BY <1>11 DEF E
<1> QED BY <1>1, <1>12

LEMMA SumsExist ==
  ASSUME NEW S, IsFiniteSet(S), NEW e
  PROVE  \E f : Sums(f, e, S)
<1>1. Cardinality(S) \in Nat
  BY FS_CardinalityType
<1>2. \A s \in SUBSET S : Cardinality(s) <= Cardinality(S)
  BY FS_Subset
<1>3. UpTo(Cardinality(S), S) = SUBSET S
  BY <1>2 DEF UpTo
<1>4. \E f : SumsOn(f, e, UpTo(Cardinality(S), S))
  <2> DEFINE n == Cardinality(S)
  <2>1. n \in Nat
    BY <1>1
  <2> HIDE DEF n
  <2>2. \E f : SumsOn(f, e, UpTo(n, S))
    BY <2>1, SumsUpTo
  <2> QED BY <2>2 DEF n
<1> QED BY <1>3, <1>4 DEF Sums

\* A set less an element.
LEMMA LessOne ==
  ASSUME NEW S, IsFiniteSet(S), NEW s \in SUBSET S, NEW x \in s
  PROVE  /\ s \ {x} \in SUBSET S /\ Cardinality(s) \in Nat \ {0}
         /\ Cardinality(s \ {x}) = Cardinality(s) - 1
<1>1. IsFiniteSet(s)
  BY FS_Subset
<1>2. Cardinality(s) \in Nat \ {0}
  BY OneLess
<1>3. Cardinality(s \ {x}) = Cardinality(s) - 1
  BY <1>1, FS_RemoveElement
<1> QED BY <1>2, <1>3

LEMMA SumsStep ==
  ASSUME NEW S, IsFiniteSet(S), NEW e, NatOn(e, S), NEW f, Sums(f, e, S)
  PROVE  /\ f[{}] = 0
         /\ \A s \in SUBSET S : f[s] \in Nat
         /\ AnyFirst(f, e, S)
<1> DEFINE Good(s) == f[s] \in Nat /\ \A x \in s : f[s] = e[x] + f[s \ {x}]
           bad == {n \in Nat : \E s \in SUBSET S : Cardinality(s) = n /\ ~Good(s)}
<1>0. \A s \in SUBSET S : f[s] = IF s = {} THEN 0 ELSE e[One(s)] + f[s \ {One(s)}]
  BY DEF Sums, SumsOn
<1>1. f[{}] = 0
  <2>1. {} \in SUBSET S
    OBVIOUS
  <2> QED BY <1>0, <2>1
<1>2. bad = {}
  <2> SUFFICES ASSUME bad # {} PROVE FALSE
    OBVIOUS
  <2>0. bad \subseteq Nat
    OBVIOUS
  <2>1. PICK n \in bad : \A l \in bad : n <= l
    <3> HIDE DEF bad
    <3> QED BY <2>0, LeastNat
  <2>2. PICK s \in SUBSET S : Cardinality(s) = n /\ ~Good(s)
    BY <2>1
  <2>3. \A r \in SUBSET S : Cardinality(r) = n - 1 \/ Cardinality(r) = n - 2 =>
            (Cardinality(r) \in Nat => Good(r))
    <3> TAKE r \in SUBSET S
    <3> HAVE Cardinality(r) = n - 1 \/ Cardinality(r) = n - 2
    <3> HAVE Cardinality(r) \in Nat
    <3>1. Cardinality(r) \notin bad
      <4> HIDE DEF bad
      <4> QED BY <2>0, <2>1
    <3> HIDE DEF Good
    <3> QED BY <3>1
  <2>4. s # {}
    <3> SUFFICES ASSUME s = {} PROVE FALSE
      OBVIOUS
    <3>1. Good({})
      BY <1>1
    <3> HIDE DEF Good
    <3> QED BY <2>2, <3>1
  <2> DEFINE y == One(s)
             r == s \ {y}
  <2>5. y \in s /\ r \in SUBSET S /\ Cardinality(r) = n - 1 /\ n \in Nat \ {0}
    BY <2>2, <2>4, OneLess
  <2> HIDE DEF bad
  <2>6. Good(r)
    <3>1. Cardinality(r) \in Nat
      BY <2>5
    <3> HIDE DEF Good
    <3> QED BY <2>3, <2>5, <3>1
  <2>7. f[s] = e[y] + f[r] /\ e[y] \in Nat /\ f[r] \in Nat
    <3>1. f[s] = e[y] + f[r]
      BY <1>0, <2>4
    <3>2. s \in SUBSET S
      BY <2>2
    <3> HIDE DEF y, r
    <3> QED BY <2>5, <2>6, <3>1, <3>2 DEF NatOn
  <2> HIDE DEF y
  <2>8. ASSUME NEW x \in s PROVE f[s] = e[x] + f[s \ {x}]
    <3>1. CASE x = y
      BY <2>7, <3>1
    <3>2. CASE x # y
      <4>1. x \in r /\ y \in s \ {x}
        BY <2>5, <3>2
      <4>2. s \ {x} \in SUBSET S /\ Cardinality(s \ {x}) = n - 1
        BY <2>2, LessOne
      <4>3. Good(s \ {x})
        <5>1. Cardinality(s \ {x}) \in Nat
          BY <2>5, <4>2
        <5> HIDE DEF Good
        <5> QED BY <2>3, <4>2, <5>1
      <4>4. f[r] = e[x] + f[r \ {x}]
        <5> HIDE DEF r
        <5> QED BY <2>6, <4>1
      <4>5. f[s \ {x}] = e[y] + f[(s \ {x}) \ {y}]
        BY <4>1, <4>3
      <4>6. (s \ {x}) \ {y} = r \ {x} /\ r \ {x} \in SUBSET S
        BY <2>5
      <4>7. f[r \ {x}] \in Nat
        <5>1. Cardinality(r) \in Nat \ {0} /\ Cardinality(r \ {x}) = Cardinality(r) - 1
          <6> HIDE DEF r
          <6> QED BY <2>5, <4>1, LessOne
        <5>2. Cardinality(r \ {x}) \in Nat /\ Cardinality(r \ {x}) = n - 2
          BY <2>5, <5>1
        <5>3. Good(r \ {x})
          <6> HIDE DEF r, Good
          <6> QED BY <2>3, <4>6, <5>2
        <5> QED BY <5>3
      <4>8. e[x] \in Nat
        BY DEF NatOn
      <4>9. f[s \ {x}] = e[y] + f[r \ {x}]
        BY <4>5, <4>6
      <4> HIDE DEF r
      <4> QED BY <2>7, <4>4, <4>7, <4>8, <4>9
    <3> QED BY <3>1, <3>2
  <2>9. f[s] \in Nat
    <3> HIDE DEF r
    <3> QED BY <2>7
  <2>10. Good(s)
    BY <2>8, <2>9
  <2> HIDE DEF Good, r
  <2> QED BY <2>2, <2>10
<1>3. ASSUME NEW s \in SUBSET S PROVE Good(s)
  <2>1. Cardinality(s) \in Nat
    <3>1. IsFiniteSet(s)
      BY FS_Subset
    <3> QED BY <3>1, FS_CardinalityType
  <2> HIDE DEF Good
  <2> QED BY <1>2, <2>1
<1>4. AnyFirst(f, e, S)
  BY <1>3 DEF AnyFirst
<1> QED BY <1>1, <1>3, <1>4

\* The sum over a set does not depend on the set that it is a part of.
LEMMA SumsAgree ==
  ASSUME NEW S, IsFiniteSet(S), NEW T, S \subseteq T, NEW e,
         NEW f, Sums(f, e, S), NEW g, Sums(g, e, T)
  PROVE  f[S] = g[S]
<1> DEFINE bad == {n \in Nat : \E s \in SUBSET S : Cardinality(s) = n /\ f[s] # g[s]}
<1>1. \A s \in SUBSET S : f[s] = IF s = {} THEN 0 ELSE e[One(s)] + f[s \ {One(s)}]
  BY DEF Sums, SumsOn
<1>2. \A s \in SUBSET S : g[s] = IF s = {} THEN 0 ELSE e[One(s)] + g[s \ {One(s)}]
  <2>1. \A s \in SUBSET T : g[s] = IF s = {} THEN 0 ELSE e[One(s)] + g[s \ {One(s)}]
    BY DEF Sums, SumsOn
  <2> QED BY <2>1
<1>3. bad = {}
  <2> SUFFICES ASSUME bad # {} PROVE FALSE
    OBVIOUS
  <2>0. bad \subseteq Nat
    OBVIOUS
  <2>1. PICK n \in bad : \A l \in bad : n <= l
    <3> HIDE DEF bad
    <3> QED BY <2>0, LeastNat
  <2>2. PICK s \in SUBSET S : Cardinality(s) = n /\ f[s] # g[s]
    BY <2>1
  <2>3. s # {}
    BY <1>1, <1>2, <2>2
  <2>4. s \ {One(s)} \in SUBSET S /\ Cardinality(s \ {One(s)}) = n - 1 /\ n \in Nat \ {0}
    BY <2>2, <2>3, OneLess
  <2>5. n - 1 \notin bad
    <3> HIDE DEF bad
    <3> QED BY <2>0, <2>1, <2>4
  <2>6. f[s \ {One(s)}] = g[s \ {One(s)}]
    BY <2>4, <2>5
  <2> QED BY <1>1, <1>2, <2>2, <2>3, <2>6
<1>4. Cardinality(S) \in Nat /\ S \in SUBSET S
  BY FS_CardinalityType
<1> QED BY <1>3, <1>4

SumOf(e, S) == CHOOSE v : IsSum(v, e, S)

LEMMA SumIs ==
  ASSUME NEW S, IsFiniteSet(S), NEW e, NEW v, IsSum(v, e, S)
  PROVE  v = SumOf(e, S)
<1>1. IsSum(SumOf(e, S), e, S)
  BY DEF SumOf
<1>2. PICK f : Sums(f, e, S) /\ v = f[S]
  BY DEF IsSum
<1>3. PICK g : Sums(g, e, S) /\ SumOf(e, S) = g[S]
  BY <1>1 DEF IsSum
<1>4. f[S] = g[S]
  BY <1>2, <1>3, SumsAgree
<1> QED BY <1>2, <1>3, <1>4

LEMMA SumExists ==
  ASSUME NEW S, IsFiniteSet(S), NEW e
  PROVE  \E f : Sums(f, e, S) /\ SumOf(e, S) = f[S]
<1>1. PICK f : Sums(f, e, S)
  BY SumsExist
<1>2. IsSum(f[S], e, S)
  BY <1>1 DEF IsSum
<1>3. f[S] = SumOf(e, S)
  BY <1>2, SumIs
<1> QED BY <1>1, <1>3

\* What a sum is built from.
LEMMA SumEmpty == ASSUME NEW e PROVE SumOf(e, {}) = 0
<1>1. IsFiniteSet({})
  BY FS_EmptySet
<1>2. PICK f : Sums(f, e, {}) /\ SumOf(e, {}) = f[{}]
  BY <1>1, SumExists
<1>3. {} \in SUBSET {}
  OBVIOUS
<1>4. f[{}] = 0
  BY <1>2, <1>3 DEF Sums, SumsOn
<1> QED BY <1>2, <1>4

LEMMA SumNat ==
  ASSUME NEW S, IsFiniteSet(S), NEW e, NatOn(e, S)
  PROVE  SumOf(e, S) \in Nat
<1>1. PICK f : Sums(f, e, S) /\ SumOf(e, S) = f[S]
  BY SumExists
<1>2. f[S] \in Nat
  <2>1. S \in SUBSET S
    OBVIOUS
  <2>2. \A s \in SUBSET S : f[s] \in Nat
    BY <1>1, SumsStep
  <2> QED BY <2>1, <2>2
<1> QED BY <1>1, <1>2

LEMMA SumLess ==
  ASSUME NEW S, IsFiniteSet(S), NEW e, NatOn(e, S)
  PROVE  \A x \in S : SumOf(e, S) = e[x] + SumOf(e, S \ {x})
<1>1. PICK f : Sums(f, e, S) /\ SumOf(e, S) = f[S]
  BY SumExists
<1>2. \A s \in SUBSET S : \A x \in s : f[s] = e[x] + f[s \ {x}]
  <2>1. AnyFirst(f, e, S)
    BY <1>1, SumsStep
  <2> QED BY <2>1 DEF AnyFirst
<1>3. \A R \in SUBSET S : SumOf(e, R) = f[R]
  <2> TAKE R \in SUBSET S
  <2>1. IsFiniteSet(R)
    BY FS_Subset
  <2>2. PICK g : Sums(g, e, R) /\ SumOf(e, R) = g[R]
    BY <2>1, SumExists
  <2>3. g[R] = f[R]
    BY <1>1, <2>1, <2>2, SumsAgree
  <2> QED BY <2>2, <2>3
<1>4. \A x \in S : S \in SUBSET S /\ S \ {x} \in SUBSET S
  OBVIOUS
<1> QED BY <1>2, <1>3, <1>4

LEMMA SumMore ==
  ASSUME NEW S, IsFiniteSet(S), NEW e, NatOn(e, S), NEW x, x \notin S, e[x] \in Nat
  PROVE  SumOf(e, S \union {x}) = e[x] + SumOf(e, S)
<1> DEFINE T == S \union {x}
<1>1. IsFiniteSet(T) /\ x \in T /\ T \ {x} = S /\ NatOn(e, T)
  BY FS_AddElement DEF NatOn
<1> HIDE DEF T
<1>2. SumOf(e, T) = e[x] + SumOf(e, T \ {x})
  BY <1>1, SumLess
<1> QED BY <1>1, <1>2 DEF T

\* Sums of disjoint sets.
LEMMA SumUnion ==
  ASSUME NEW S, IsFiniteSet(S), NEW T, IsFiniteSet(T), S \intersect T = {},
         NEW e, NatOn(e, S \union T)
  PROVE  SumOf(e, S \union T) = SumOf(e, S) + SumOf(e, T)
<1> DEFINE Good(t) == SumOf(e, S \union t) = SumOf(e, S) + SumOf(e, t)
           bad == {n \in Nat : \E t \in SUBSET T : Cardinality(t) = n /\ ~Good(t)}
<1>1. bad = {}
  <2> SUFFICES ASSUME bad # {} PROVE FALSE
    OBVIOUS
  <2>0. bad \subseteq Nat
    OBVIOUS
  <2>1. PICK n \in bad : \A l \in bad : n <= l
    <3> HIDE DEF bad
    <3> QED BY <2>0, LeastNat
  <2>2. PICK t \in SUBSET T : Cardinality(t) = n /\ ~Good(t)
    BY <2>1
  <2>3. t # {}
    <3>1. SumOf(e, S) \in Nat
      BY SumNat DEF NatOn
    <3>2. Good({})
      <4>1. S \union {} = S
        OBVIOUS
      <4> QED BY <3>1, <4>1, SumEmpty
    <3> HIDE DEF Good
    <3> QED BY <2>2, <3>2
  <2> DEFINE x == One(t)
             r == t \ {x}
  <2>4. x \in t /\ r \in SUBSET T /\ Cardinality(r) = n - 1 /\ n \in Nat \ {0}
    BY <2>2, <2>3, OneLess
  <2>5. Good(r)
    <3>1. n - 1 \notin bad /\ n - 1 \in Nat
      <4> HIDE DEF bad, r, x
      <4> QED BY <2>0, <2>1, <2>4
    <3> HIDE DEF Good, r, x
    <3> QED BY <2>4, <3>1
  <2> HIDE DEF x, bad
  <2>6. IsFiniteSet(t) /\ IsFiniteSet(r)
    BY <2>2, <2>4, FS_Subset
  <2>7. SumOf(e, t) = e[x] + SumOf(e, r) /\ SumOf(e, r) \in Nat /\ e[x] \in Nat
    <3>1. NatOn(e, t)
      BY <2>2 DEF NatOn
    <3>2. NatOn(e, r)
      BY <3>1 DEF NatOn
    <3>3. SumOf(e, t) = e[x] + SumOf(e, r)
      BY <2>4, <2>6, <3>1, SumLess
    <3>4. SumOf(e, r) \in Nat
      BY <2>6, <3>2, SumNat
    <3> QED BY <2>4, <3>1, <3>3, <3>4 DEF NatOn
  <2>8. SumOf(e, S \union t) = e[x] + SumOf(e, S \union r)
    <3> DEFINE U == S \union t
    <3>1. IsFiniteSet(U) /\ x \in U /\ NatOn(e, U)
      BY <2>2, <2>4, <2>6, FS_Union DEF NatOn
    <3>2. U \ {x} = S \union r
      BY <2>2, <2>4
    <3> HIDE DEF U, r
    <3>3. SumOf(e, U) = e[x] + SumOf(e, U \ {x})
      BY <3>1, SumLess
    <3> QED BY <3>2, <3>3 DEF U
  <2>9. SumOf(e, S) \in Nat
    BY SumNat DEF NatOn
  <2> HIDE DEF r
  <2>10. Good(t)
    BY <2>5, <2>7, <2>8, <2>9
  <2> HIDE DEF Good
  <2> QED BY <2>2, <2>10
<1>2. Good(T)
  <2>1. Cardinality(T) \in Nat /\ T \in SUBSET T
    BY FS_CardinalityType
  <2> HIDE DEF Good
  <2> QED BY <1>1, <2>1
<1> QED BY <1>2

-----------------------------------------------------------------------------
(* The groups of an event: charge is divided without a rest.               *)

LEMMA CeilBounds ==
  ASSUME NEW a \in Nat, NEW b \in Nat \ {0}
  PROVE  /\ Ceil(a, b) \in Nat /\ a <= Ceil(a, b) * b
         /\ (Ceil(a, b) - 1) * b < a \/ Ceil(a, b) = 0
BY DEF Ceil

LEMMA MaxOfTwo ==
  ASSUME NEW a \in Int, NEW b \in Int
  PROVE  /\ Max({a, b}) \in {a, b} /\ a <= Max({a, b}) /\ b <= Max({a, b})
<1>1. \E x \in {a, b} : \A y \in {a, b} : x >= y
  OBVIOUS
<1> QED BY <1>1 DEF Max

LEMMA MinOfTwo ==
  ASSUME NEW a \in Int, NEW b \in Int
  PROVE  Min({a, b}) = IF a <= b THEN a ELSE b
<1>1. \E x \in {a, b} : \A y \in {a, b} : x <= y
  OBVIOUS
<1> QED BY <1>1 DEF Min

\* The groups of a deposit of charge c are k portions, the last one being the rest.
Row(d, k) == {d} \X (1 .. k)
Portions(e, d, size, c, k) ==
    \A i \in 1 .. k : (i - 1) * size < c /\ e[<<d, i>>] = Min({size, c - (i - 1) * size})

LEMMA RowFinite ==
  ASSUME NEW d, NEW k \in Nat
  PROVE  IsFiniteSet(Row(d, k)) /\ Cardinality(Row(d, k)) = k
<1>1. IsFiniteSet({d}) /\ Cardinality({d}) = 1
  BY FS_Singleton
<1>2. IsFiniteSet(1 .. k) /\ Cardinality(1 .. k) = k
  BY FS_Interval
<1> DEFINE one == {d}
           all == 1 .. k
<1> HIDE DEF one, all
<1>3. /\ IsFiniteSet(one \X all)
      /\ Cardinality(one \X all) = Cardinality(one) * Cardinality(all)
  <2>1. IsFiniteSet(one) /\ IsFiniteSet(all)
    BY <1>1, <1>2 DEF one, all
  <2> QED BY <2>1, FS_Product
<1>4. Cardinality(one \X all) = k
  <2>1. Cardinality(one) = 1 /\ Cardinality(all) = k
    BY <1>1, <1>2 DEF one, all
  <2> QED BY <1>3, <2>1
<1> QED BY <1>3, <1>4 DEF Row, one, all

\* The portions add up to the charge.
LEMMA RowSum ==
  ASSUME NEW e, NEW d, NEW size \in Nat \ {0}, NEW c \in Nat, NEW k \in Nat,
         Portions(e, d, size, c, k)
  PROVE  SumOf(e, Row(d, k)) = IF k * size < c THEN k * size ELSE c
<1> DEFINE Held(i) == IF i * size < c THEN i * size ELSE c
           bad == {i \in Nat : i <= k /\ SumOf(e, Row(d, i)) # Held(i)}
<1>1. bad = {}
  <2> SUFFICES ASSUME bad # {} PROVE FALSE
    OBVIOUS
  <2>0. bad \subseteq Nat
    OBVIOUS
  <2>1. PICK i \in bad : \A l \in bad : i <= l
    <3> HIDE DEF bad
    <3> QED BY <2>0, LeastNat
  <2>2. i \in Nat /\ i <= k /\ SumOf(e, Row(d, i)) # Held(i)
    BY <2>1
  <2>3. i # 0
    <3> SUFFICES ASSUME i = 0 PROVE FALSE
      OBVIOUS
    <3>1. Row(d, i) = {}
      BY DEF Row
    <3>2. Held(i) = 0
      OBVIOUS
    <3> QED BY <2>2, <3>1, <3>2, SumEmpty
  <2> DEFINE j == i - 1
  <2>4. j \in Nat /\ j + 1 = i /\ j \notin bad
    <3> HIDE DEF bad
    <3> QED BY <2>0, <2>1, <2>2, <2>3
  <2>5. SumOf(e, Row(d, j)) = Held(j)
    <3> HIDE DEF Held
    <3> QED BY <2>2, <2>4
  <2>6. j * size < c /\ e[<<d, i>>] = Min({size, c - j * size})
    BY <2>2, <2>4 DEF Portions
  <2>7. Row(d, i) = Row(d, j) \union {<<d, i>>} /\ <<d, i>> \notin Row(d, j)
    BY <2>2, <2>3 DEF Row
  <2> HIDE DEF j, bad
  <2>8. j * size \in Nat /\ i * size = j * size + size
    BY <2>4
  <2>9. e[<<d, i>>] = (IF size <= c - j * size THEN size ELSE c - j * size) /\ e[<<d, i>>] \in Nat
    <3> DEFINE rest == c - j * size
    <3>1. rest \in Int /\ 0 < rest
      BY <2>6, <2>8
    <3>2. e[<<d, i>>] = Min({size, rest})
      BY <2>6
    <3> HIDE DEF rest
    <3>3. e[<<d, i>>] = IF size <= rest THEN size ELSE rest
      BY <3>1, <3>2, MinOfTwo
    <3>4. e[<<d, i>>] \in Nat
      BY <3>1, <3>3
    <3> QED BY <3>3, <3>4 DEF rest
  <2>10. SumOf(e, Row(d, i)) = e[<<d, i>>] + SumOf(e, Row(d, j))
    <3>1. IsFiniteSet(Row(d, j))
      BY <2>4, RowFinite
    <3>2. NatOn(e, Row(d, j))
      <4>1. \A l \in 1 .. k : e[<<d, l>>] \in Nat
        <5> TAKE l \in 1 .. k
        <5> DEFINE rest == c - (l - 1) * size
        <5>1. (l - 1) * size < c /\ e[<<d, l>>] = Min({size, rest})
          BY DEF Portions
        <5>2. rest \in Int /\ 0 < rest
          BY <5>1
        <5> HIDE DEF rest
        <5>3. e[<<d, l>>] = IF size <= rest THEN size ELSE rest
          BY <5>1, <5>2, MinOfTwo
        <5> QED BY <5>2, <5>3
      <4>2. \A x \in Row(d, j) : \E l \in 1 .. k : x = <<d, l>>
        BY <2>2, <2>4 DEF Row
      <4> QED BY <4>1, <4>2 DEF NatOn
    <3> DEFINE x == <<d, i>>
    <3>3. x \notin Row(d, j) /\ e[x] \in Nat
      BY <2>7, <2>9
    <3> HIDE DEF x
    <3>4. SumOf(e, Row(d, j) \union {x}) = e[x] + SumOf(e, Row(d, j))
      BY <3>1, <3>2, <3>3, SumMore
    <3> QED BY <2>7, <3>4 DEF x
  <2>11. SumOf(e, Row(d, i)) = Held(i)
    BY <2>5, <2>6, <2>8, <2>9, <2>10
  <2> HIDE DEF Held
  <2> QED BY <2>2, <2>11
<1> QED BY <1>1

\* The groups of a set of deposits.
From(G, B) == {g \in G : g[1] \in B}

\* The groups of each deposit are finitely many, hold its charge, and there is at most one
\* of them that is not full.
RowsExact(G, A, size, e, c) ==
    \A d \in A :
        /\ IsFiniteSet(From(G, {d})) /\ NatOn(e, From(G, {d}))
        /\ SumOf(e, From(G, {d})) = c[d]
        /\ size * Cardinality(From(G, {d})) <= c[d] + size

\* So do the groups of several deposits.
LEMMA RowsSum ==
  ASSUME NEW A, IsFiniteSet(A), NEW G, NEW size \in Nat \ {0}, NEW e, NEW c, NatOn(c, A),
         RowsExact(G, A, size, e, c)
  PROVE  /\ IsFiniteSet(From(G, A)) /\ NatOn(e, From(G, A))
         /\ SumOf(e, From(G, A)) = SumOf(c, A)
         /\ size * Cardinality(From(G, A)) <= SumOf(c, A) + size * Cardinality(A)
<1> DEFINE Good(B) == /\ IsFiniteSet(From(G, B)) /\ NatOn(e, From(G, B))
                      /\ SumOf(e, From(G, B)) = SumOf(c, B)
                      /\ size * Cardinality(From(G, B)) <= SumOf(c, B) + size * Cardinality(B)
           bad == {n \in Nat : \E B \in SUBSET A : Cardinality(B) = n /\ ~Good(B)}
<1>1. bad = {}
  <2> SUFFICES ASSUME bad # {} PROVE FALSE
    OBVIOUS
  <2>0. bad \subseteq Nat
    OBVIOUS
  <2>1. PICK n \in bad : \A l \in bad : n <= l
    <3> HIDE DEF bad
    <3> QED BY <2>0, LeastNat
  <2>2. PICK B \in SUBSET A : Cardinality(B) = n /\ ~Good(B)
    BY <2>1
  <2>3. B # {}
    <3>1. From(G, {}) = {}
      BY DEF From
    <3>2. NatOn(e, {}) /\ IsFiniteSet({}) /\ Cardinality({}) = 0
      BY FS_EmptySet DEF NatOn
    <3>3. SumOf(e, {}) = 0 /\ SumOf(c, {}) = 0
      BY SumEmpty
    <3>4. size * Cardinality({}) = 0
      BY <3>2
    <3>5. size * Cardinality(From(G, {})) = 0
      BY <3>1, <3>4
    <3>6. size * Cardinality(From(G, {})) <= SumOf(c, {}) + size * Cardinality({})
      BY <3>3, <3>4, <3>5
    <3>7. SumOf(e, From(G, {})) = SumOf(c, {})
      BY <3>1, <3>3
    <3>8. IsFiniteSet(From(G, {})) /\ NatOn(e, From(G, {}))
      BY <3>1, <3>2
    <3>9. Good({})
      BY <3>6, <3>7, <3>8
    <3> HIDE DEF Good
    <3> QED BY <2>2, <3>9
  <2> DEFINE d == One(B)
             R == B \ {d}
             P == From(G, {d})
             Q == From(G, R)
  <2>4. d \in B /\ R \in SUBSET A /\ Cardinality(R) = n - 1 /\ n \in Nat \ {0}
    BY <2>2, <2>3, OneLess
  <2>5. Good(R)
    <3>1. n - 1 \notin bad /\ n - 1 \in Nat
      <4> HIDE DEF bad, R, d
      <4> QED BY <2>0, <2>1, <2>4
    <3> HIDE DEF Good, R, d
    <3> QED BY <2>4, <3>1
  <2> HIDE DEF d, bad
  <2>6. From(G, B) = Q \union P /\ Q \intersect P = {}
    BY <2>4 DEF From
  <2>7. /\ IsFiniteSet(Q) /\ NatOn(e, Q) /\ SumOf(e, Q) = SumOf(c, R)
        /\ size * Cardinality(Q) <= SumOf(c, R) + size * (n - 1)
    BY <2>4, <2>5
  <2>8. /\ IsFiniteSet(P) /\ NatOn(e, P) /\ SumOf(e, P) = c[d]
        /\ size * Cardinality(P) <= c[d] + size
    BY <2>2, <2>4 DEF RowsExact
  <2>9. SumOf(c, B) = c[d] + SumOf(c, R)
    <3>1. IsFiniteSet(B) /\ NatOn(c, B)
      BY <2>2, FS_Subset DEF NatOn
    <3> HIDE DEF R
    <3>2. \A x \in B : SumOf(c, B) = c[x] + SumOf(c, B \ {x})
      BY <3>1, SumLess
    <3> QED BY <2>4, <3>2 DEF R
  <2>10. c[d] \in Nat /\ SumOf(c, R) \in Nat
    <3>1. IsFiniteSet(R) /\ NatOn(c, R)
      BY <2>4, FS_Subset DEF NatOn
    <3>2. SumOf(c, R) \in Nat
      BY <3>1, SumNat
    <3> QED BY <2>2, <2>4, <3>2 DEF NatOn
  <2> HIDE DEF P, Q
  <2>11. /\ IsFiniteSet(Q \union P) /\ NatOn(e, Q \union P)
         /\ Cardinality(Q \union P) = Cardinality(Q) + Cardinality(P)
         /\ Cardinality(Q) \in Nat /\ Cardinality(P) \in Nat
    <3>1. /\ IsFiniteSet(Q \union P)
          /\ Cardinality(Q \union P) =
               Cardinality(Q) + Cardinality(P) - Cardinality(Q \intersect P)
      BY <2>7, <2>8, FS_Union
    <3>2. Cardinality(Q \intersect P) = 0
      BY <2>6, FS_EmptySet
    <3>3. Cardinality(Q) \in Nat /\ Cardinality(P) \in Nat
      BY <2>7, <2>8, FS_CardinalityType
    <3>4. NatOn(e, Q \union P)
      BY <2>7, <2>8 DEF NatOn
    <3> QED BY <3>1, <3>2, <3>3, <3>4
  <2>12. SumOf(e, Q \union P) = SumOf(c, B)
    <3>1. SumOf(e, Q \union P) = SumOf(e, Q) + SumOf(e, P)
      BY <2>6, <2>7, <2>8, <2>11, SumUnion
    <3> HIDE DEF R
    <3> QED BY <2>7, <2>8, <2>9, <2>10, <3>1
  <2>13. size * Cardinality(Q \union P) <= SumOf(c, B) + size * Cardinality(B)
    <3> HIDE DEF R
    <3> DEFINE q == Cardinality(Q)
               p == Cardinality(P)
    <3>1. size * (q + p) = size * q + size * p /\ size * n = size * (n - 1) + size
      BY <2>4, <2>11
    <3>2. size * q \in Nat /\ size * p \in Nat /\ size * (n - 1) \in Nat
      BY <2>4, <2>11
    <3>3. size * q <= SumOf(c, R) + size * (n - 1) /\ size * p <= c[d] + size
      BY <2>7, <2>8
    <3>4. size * q + size * p <= c[d] + SumOf(c, R) + (size * (n - 1) + size)
      <4> DEFINE x == size * q
                 y == size * p
                 z == size * (n - 1)
      <4> HIDE DEF x, y, z, p, q
      <4>1. x \in Nat /\ y \in Nat /\ z \in Nat /\ x <= SumOf(c, R) + z /\ y <= c[d] + size
        BY <3>2, <3>3 DEF x, y, z
      <4>2. x + y <= c[d] + SumOf(c, R) + (z + size)
        BY <2>10, <4>1
      <4> QED BY <4>2 DEF x, y, z
    <3>5. size * (q + p) <= SumOf(c, B) + size * n
      BY <2>9, <3>1, <3>4
    <3> QED BY <2>2, <2>11, <3>5
  <2> HIDE DEF R
  <2>14. Good(B)
    BY <2>6, <2>11, <2>12, <2>13
  <2> HIDE DEF Good
  <2> QED BY <2>2, <2>14
<1>2. Good(A)
  <2>1. Cardinality(A) \in Nat /\ A \in SUBSET A
    BY FS_CardinalityType
  <2> HIDE DEF Good
  <2> QED BY <1>1, <2>1
<1> QED BY <1>2

\* MapThenSumSet computes the sums.
LEMMA TotalIsSum ==
  ASSUME NEW s, NEW list, IsFiniteSet(Applicable(s, list)), NEW e,
         \A d \in Applicable(s, list) : e[d] = list[d].charge
  PROVE  Total(s, list) = SumOf(e, Applicable(s, list))
<1> DEFINE A == Applicable(s, list)
           Given(f) == f = [r \in SUBSET A |->
                        IF r = {} THEN 0 ELSE list[One(r)].charge + f[r \ {One(r)}]]
<1>1. \A f : Given(f) <=> Sums(f, e, A)
  <2> TAKE f
  <2>1. \A r \in SUBSET A : r # {} => e[One(r)] = list[One(r)].charge
    BY DEF One
  <2> HIDE DEF A
  <2>2. [r \in SUBSET A |-> IF r = {} THEN 0 ELSE list[One(r)].charge + f[r \ {One(r)}]]
        = [r \in SUBSET A |-> IF r = {} THEN 0 ELSE e[One(r)] + f[r \ {One(r)}]]
    BY <2>1
  <2> QED BY <2>2 DEF Sums, SumsOn
<1>2. Total(s, list) = (CHOOSE f : Given(f))[A]
  BY DEF Total, MapThenSumSet, MapThenFoldSet, One
<1>3. \E f : Given(f)
  BY <1>1, SumExists
<1>4. Given(CHOOSE f : Given(f))
  <2> HIDE DEF Given
  <2> QED BY <1>3
<1> DEFINE h == CHOOSE f : Given(f)
<1>5. Sums(h, e, A) /\ Total(s, list) = h[A]
  BY <1>1, <1>2, <1>4
<1> HIDE DEF h
<1>6. IsSum(Total(s, list), e, A)
  BY <1>5 DEF IsSum
<1> QED BY <1>6, SumIs

LEMMA ChargeOfIsSum ==
  ASSUME NEW G, IsFiniteSet(G), NEW e, \A g \in G : e[g] = Charge(g)
  PROVE  ChargeOf(G) = SumOf(e, G)
<1> DEFINE Given(f) == f = [r \in SUBSET G |->
                        IF r = {} THEN 0 ELSE Charge(One(r)) + f[r \ {One(r)}]]
<1>1. \A f : Given(f) <=> Sums(f, e, G)
  <2> TAKE f
  <2>1. \A r \in SUBSET G : r # {} => e[One(r)] = Charge(One(r))
    BY DEF One
  <2>2. [r \in SUBSET G |-> IF r = {} THEN 0 ELSE Charge(One(r)) + f[r \ {One(r)}]]
        = [r \in SUBSET G |-> IF r = {} THEN 0 ELSE e[One(r)] + f[r \ {One(r)}]]
    BY <2>1
  <2> QED BY <2>2 DEF Sums, SumsOn
<1>2. ChargeOf(G) = (CHOOSE f : Given(f))[G]
  BY DEF ChargeOf, MapThenSumSet, MapThenFoldSet, One
<1>3. \E f : Given(f)
  BY <1>1, SumExists
<1>4. Given(CHOOSE f : Given(f))
  <2> HIDE DEF Given
  <2> QED BY <1>3
<1> DEFINE h == CHOOSE f : Given(f)
<1>5. Sums(h, e, G) /\ ChargeOf(G) = h[G]
  BY <1>1, <1>2, <1>4
<1> HIDE DEF h
<1>6. IsSum(ChargeOf(G), e, G)
  BY <1>5 DEF IsSum
<1> QED BY <1>6, SumIs

\* The setting and the deposits of the event, and nothing else, determine its groups.
DividedInv ==
    /\ setting \in SettingRecords /\ deposits \in DepositLists
    /\ groups = GroupsOf(setting, deposits)

\* The charges of the deposits that apply, and of the groups.
DepositCharges == [d \in Applicable(setting, deposits) |-> deposits[d].charge]
GroupCharges == [g \in groups |-> Charge(g)]

\* The size of the groups respects their maximum number.
LEMMA EventSizes ==
  ASSUME DividedInv, NEW A, A = Applicable(setting, deposits), NEW c, c = DepositCharges,
         NEW total, total = Total(setting, deposits), NEW size, size = PerStep(setting, deposits)
  PROVE  /\ IsFiniteSet(A) /\ NatOn(c, A) /\ total = SumOf(c, A) /\ total \in Nat
         /\ size \in Nat \ {0}
         /\ \A d \in A : c[d] = deposits[d].charge /\ c[d] <= total
         /\ setting.maxGroups # 0 => total <= size * setting.maxGroups
<1>1. /\ A \subseteq DOMAIN deposits /\ IsFiniteSet(DOMAIN deposits)
      /\ \A d \in DOMAIN deposits : deposits[d].charge \in Nat
  <2> DEFINE R == [type : Types, charge : Nat, time : Nat]
  <2>1. deposits \in Seq(R)
    BY DEF DividedInv, DepositLists
  <2> HIDE DEF R
  <2>2. Len(deposits) \in Nat /\ DOMAIN deposits = 1 .. Len(deposits)
    BY <2>1
  <2>3. IsFiniteSet(1 .. Len(deposits))
    BY <2>2, FS_Interval
  <2>4. \A d \in DOMAIN deposits : deposits[d] \in R
    BY <2>1, <2>2
  <2>5. \A d \in DOMAIN deposits : deposits[d].charge \in Nat
    BY <2>4 DEF R
  <2>6. A \subseteq DOMAIN deposits
    BY DEF Applicable
  <2> QED BY <2>2, <2>3, <2>5, <2>6
<1>2. IsFiniteSet(A)
  BY <1>1, FS_Subset
<1>3. \A d \in A : c[d] = deposits[d].charge
  BY DEF DepositCharges
<1>4. NatOn(c, A)
  BY <1>1, <1>3 DEF NatOn
<1>5. total = SumOf(c, A)
  BY <1>2, <1>3, TotalIsSum
<1>6. total \in Nat
  BY <1>2, <1>4, <1>5, SumNat
<1>7. ASSUME NEW d \in A PROVE c[d] <= total
  <2>1. SumOf(c, A) = c[d] + SumOf(c, A \ {d})
    BY <1>2, <1>4, SumLess
  <2>2. IsFiniteSet(A \ {d}) /\ NatOn(c, A \ {d})
    BY <1>2, <1>4, FS_RemoveElement DEF NatOn
  <2>3. SumOf(c, A \ {d}) \in Nat
    BY <2>2, SumNat
  <2> QED BY <1>4, <1>5, <2>1, <2>3 DEF NatOn
<1> DEFINE m == setting.maxGroups
           p == setting.perStep
<1>8. m \in Nat /\ p \in Nat \ {0}
  BY DEF DividedInv, SettingRecords
<1>9. size = Max({p, IF m = 0 THEN p ELSE Ceil(total, Max({m, 1}))})
  BY DEF PerStep
<1> HIDE DEF m, p
<1>10. CASE m = 0
  <2>1. size = Max({p, p})
    BY <1>9, <1>10
  <2>2. size = p
    BY <1>8, <2>1, MaxOfTwo
  <2> QED BY <1>2, <1>3, <1>4, <1>5, <1>6, <1>7, <1>8, <1>10, <2>2 DEF m
<1>11. CASE m # 0
  <2>1. Max({m, 1}) = m
    <3>1. Max({m, 1}) \in {m, 1} /\ m <= Max({m, 1})
      BY <1>8, MaxOfTwo
    <3> QED BY <1>8, <1>11, <3>1
  <2> DEFINE q == Ceil(total, m)
  <2>2. q \in Nat /\ total <= q * m
    BY <1>6, <1>8, <1>11, CeilBounds
  <2>3. size = Max({p, q})
    BY <1>9, <1>11, <2>1
  <2> HIDE DEF q
  <2>4. size \in {p, q} /\ p <= size /\ q <= size
    BY <1>8, <2>2, <2>3, MaxOfTwo
  <2>5. size \in Nat \ {0}
    BY <1>8, <2>2, <2>4
  <2>6. q * m <= size * m
    BY <1>8, <2>2, <2>4, <2>5
  <2>7. total <= size * m
    <3>1. q * m \in Nat /\ size * m \in Nat
      BY <1>8, <2>2, <2>5
    <3> QED BY <1>6, <2>2, <2>6, <3>1
  <2> QED BY <1>2, <1>3, <1>4, <1>5, <1>6, <1>7, <2>5, <2>7 DEF m
<1> QED BY <1>10, <1>11

\* The groups of each deposit are its portions.
LEMMA EventRows ==
  ASSUME DividedInv, NEW A, A = Applicable(setting, deposits), NEW c, c = DepositCharges,
         NEW size, size = PerStep(setting, deposits), NEW e, e = GroupCharges
  PROVE  RowsExact(groups, A, size, e, c) /\ groups = From(groups, A)
<1> DEFINE total == Total(setting, deposits)
<1>1. /\ NatOn(c, A) /\ total \in Nat /\ size \in Nat \ {0}
      /\ \A d \in A : c[d] = deposits[d].charge /\ c[d] <= total
  BY EventSizes
<1>2. \A g : g \in groups <=> g \in A \X (1 .. total) /\ (g[2] - 1) * size < deposits[g[1]].charge
  BY DEF DividedInv, GroupsOf
<1> HIDE DEF total
<1>3. groups = From(groups, A)
  BY <1>2 DEF From
<1>4. ASSUME NEW d \in A
      PROVE  /\ IsFiniteSet(From(groups, {d})) /\ NatOn(e, From(groups, {d}))
             /\ SumOf(e, From(groups, {d})) = c[d]
             /\ size * Cardinality(From(groups, {d})) <= c[d] + size
  <2> DEFINE n == Ceil(c[d], size)
  <2>1. c[d] \in Nat /\ c[d] <= total /\ c[d] = deposits[d].charge
    BY <1>1 DEF NatOn
  <2>2. n \in Nat /\ c[d] <= n * size /\ ((n - 1) * size < c[d] \/ n = 0)
    BY <1>1, <2>1, CeilBounds
  <2> HIDE DEF n
  <2>3. \A k \in Nat \ {0} : (k - 1) * size < c[d] <=> k <= n
    <3> TAKE k \in Nat \ {0}
    <3>1. ASSUME k <= n PROVE (k - 1) * size < c[d]
      <4>1. (k - 1) * size <= (n - 1) * size
        BY <1>1, <2>2, <3>1
      <4>2. (k - 1) * size \in Int /\ (n - 1) * size \in Int
        BY <1>1, <2>2
      <4> QED BY <2>1, <2>2, <3>1, <4>1, <4>2
    <3>2. ASSUME (k - 1) * size < c[d] PROVE k <= n
      <4>1. (k - 1) * size < n * size
        <5>1. (k - 1) * size \in Int /\ n * size \in Int
          BY <1>1, <2>2
        <5> QED BY <2>1, <2>2, <3>2, <5>1
      <4>2. k - 1 < n
        BY <1>1, <2>2, <4>1
      <4> QED BY <2>2, <4>2
    <3> QED BY <3>1, <3>2
  <2>4. \A k \in Nat \ {0} : k <= n => k <= total
    <3> TAKE k \in Nat \ {0}
    <3> HAVE k <= n
    <3>1. (k - 1) * size < total
      <4>1. (k - 1) * size \in Int
        BY <1>1
      <4> QED BY <1>1, <2>1, <2>3, <4>1
    <3>2. k - 1 <= (k - 1) * size
      BY <1>1
    <3>3. (k - 1) * size \in Int
      BY <1>1
    <3> QED BY <1>1, <3>1, <3>2, <3>3
  <2>5. From(groups, {d}) = Row(d, n)
    <3>1. ASSUME NEW g \in groups, g[1] = d PROVE g \in Row(d, n)
      <4>1. g \in A \X (1 .. total) /\ (g[2] - 1) * size < c[d]
        BY <1>2, <2>1, <3>1
      <4>2. g = <<d, g[2]>> /\ g[2] \in Nat \ {0}
        BY <3>1, <4>1
      <4>3. g[2] <= n
        BY <2>3, <4>1, <4>2
      <4>4. g[2] \in 1 .. n
        BY <2>2, <4>2, <4>3
      <4> QED BY <4>2, <4>4 DEF Row
    <3>2. ASSUME NEW k \in 1 .. n PROVE <<d, k>> \in groups
      <4>1. k \in Nat \ {0} /\ k <= n
        BY <2>2
      <4>2. (k - 1) * size < deposits[d].charge /\ k \in 1 .. total
        BY <1>1, <2>1, <2>3, <2>4, <4>1
      <4> DEFINE g == <<d, k>>
      <4>3. g[1] = d /\ g[2] = k /\ g \in A \X (1 .. total)
        BY <4>2
      <4> HIDE DEF g
      <4>4. g \in groups
        BY <1>2, <4>2, <4>3
      <4> QED BY <4>4 DEF g
    <3>3. \A g \in Row(d, n) : \E k \in 1 .. n : g = <<d, k>>
      BY DEF Row
    <3>4. Row(d, n) \subseteq From(groups, {d})
      BY <3>2, <3>3 DEF From
    <3>5. From(groups, {d}) \subseteq Row(d, n)
      BY <3>1 DEF From
    <3> QED BY <3>4, <3>5
  <2>6. IsFiniteSet(Row(d, n)) /\ Cardinality(Row(d, n)) = n
    BY <2>2, RowFinite
  <2>7. Portions(e, d, size, c[d], n)
    <3>1. ASSUME NEW k \in 1 .. n
          PROVE  (k - 1) * size < c[d] /\ e[<<d, k>>] = Min({size, c[d] - (k - 1) * size})
      <4>1. <<d, k>> \in groups
        BY <2>5 DEF Row, From
      <4>2. e[<<d, k>>] = Charge(<<d, k>>)
        BY <4>1 DEF GroupCharges
      <4>3. Charge(<<d, k>>) = Min({size, c[d] - (k - 1) * size})
        BY <2>1 DEF Charge
      <4>4. (k - 1) * size < c[d]
        BY <2>2, <2>3
      <4> QED BY <4>2, <4>3, <4>4
    <3> QED BY <3>1 DEF Portions
  <2>8. SumOf(e, Row(d, n)) = c[d]
    <3>1. SumOf(e, Row(d, n)) = IF n * size < c[d] THEN n * size ELSE c[d]
      BY <1>1, <2>1, <2>2, <2>7, RowSum
    <3>2. n * size \in Nat
      BY <1>1, <2>2
    <3> QED BY <2>1, <2>2, <3>1, <3>2
  <2>9. NatOn(e, Row(d, n))
    <3>1. ASSUME NEW k \in 1 .. n PROVE e[<<d, k>>] \in Nat
      <4> DEFINE rest == c[d] - (k - 1) * size
      <4>1. (k - 1) * size < c[d] /\ e[<<d, k>>] = Min({size, rest})
        BY <2>7 DEF Portions
      <4>2. rest \in Int /\ 0 < rest
        BY <1>1, <2>1, <2>2, <4>1
      <4> HIDE DEF rest
      <4>3. e[<<d, k>>] = IF size <= rest THEN size ELSE rest
        BY <1>1, <4>1, <4>2, MinOfTwo
      <4> QED BY <1>1, <4>2, <4>3
    <3>2. \A x \in Row(d, n) : \E k \in 1 .. n : x = <<d, k>>
      BY DEF Row
    <3> QED BY <3>1, <3>2 DEF NatOn
  <2>10. size * n <= c[d] + size
    <3>1. CASE n = 0
      BY <1>1, <2>1, <3>1
    <3>2. CASE n # 0
      <4>1. size * n = (n - 1) * size + size /\ (n - 1) * size \in Int
        BY <1>1, <2>2
      <4> QED BY <1>1, <2>1, <2>2, <3>2, <4>1
    <3> QED BY <3>1, <3>2
  <2> QED BY <2>5, <2>6, <2>8, <2>9, <2>10
<1>5. RowsExact(groups, A, size, e, c)
  BY <1>4 DEF RowsExact
<1> QED BY <1>3, <1>5

\* What is true of every event that was divided into groups.
LEMMA DividedExactly ==
  ASSUME DividedInv
  PROVE  /\ IsFiniteSet(groups) /\ NatOn(GroupCharges, groups)
         /\ SumOf(GroupCharges, groups) = Total(setting, deposits)
         /\ \A d \in Applicable(setting, deposits) :
              ChargeOf({g \in groups : g[1] = d}) = deposits[d].charge
         /\ setting.maxGroups # 0 =>
              Cardinality(groups) <= setting.maxGroups + Cardinality(Applicable(setting, deposits))
<1> DEFINE A == Applicable(setting, deposits)
           c == DepositCharges
           e == GroupCharges
           size == PerStep(setting, deposits)
           total == Total(setting, deposits)
           m == setting.maxGroups
<1>1. /\ IsFiniteSet(A) /\ NatOn(c, A) /\ total = SumOf(c, A) /\ total \in Nat
      /\ size \in Nat \ {0} /\ \A d \in A : c[d] = deposits[d].charge
      /\ m # 0 => total <= size * m
  BY EventSizes
<1>2. RowsExact(groups, A, size, e, c) /\ groups = From(groups, A)
  BY EventRows
<1>3. m \in Nat
  BY DEF DividedInv, SettingRecords
<1>4. \A g \in groups : e[g] = Charge(g)
  BY DEF GroupCharges
<1> HIDE DEF A, c, e, size, total, m
<1>5. /\ IsFiniteSet(From(groups, A)) /\ NatOn(e, From(groups, A))
      /\ SumOf(e, From(groups, A)) = SumOf(c, A)
      /\ size * Cardinality(From(groups, A)) <= SumOf(c, A) + size * Cardinality(A)
  BY <1>1, <1>2, RowsSum
<1>6. ASSUME NEW d \in A PROVE ChargeOf({g \in groups : g[1] = d}) = deposits[d].charge
  <2> DEFINE G == {g \in groups : g[1] = d}
  <2>1. G = From(groups, {d})
    BY DEF From
  <2>2. IsFiniteSet(G) /\ SumOf(e, G) = c[d] /\ \A g \in G : e[g] = Charge(g)
    BY <1>2, <1>4, <2>1 DEF RowsExact
  <2> HIDE DEF G
  <2>3. ChargeOf(G) = c[d]
    BY <2>2, ChargeOfIsSum
  <2> QED BY <1>1, <2>3 DEF G
<1>7. ASSUME m # 0 PROVE Cardinality(groups) <= m + Cardinality(A)
  <2> DEFINE n == Cardinality(groups)
             a == Cardinality(A)
  <2>1. n \in Nat /\ a \in Nat
    BY <1>1, <1>2, <1>5, FS_CardinalityType
  <2>2. size * n <= total + size * a
    BY <1>1, <1>2, <1>5
  <2> HIDE DEF n, a
  <2>3. size * n <= size * (m + a)
    <3>1. size * (m + a) = size * m + size * a
      BY <1>1, <1>3, <2>1
    <3>2. size * m \in Nat /\ size * a \in Nat /\ size * n \in Nat
      BY <1>1, <1>3, <2>1
    <3> QED BY <1>1, <1>7, <2>2, <3>1, <3>2
  <2>4. n <= m + a
    BY <1>1, <1>3, <2>1, <2>3
  <2> QED BY <2>4 DEF n, a
<1>8. IsFiniteSet(groups) /\ NatOn(e, groups) /\ SumOf(e, groups) = total
  BY <1>1, <1>2, <1>5
<1> QED BY <1>6, <1>7, <1>8 DEF A, e, total, m

\* The charges by final state.
LEMMA CountsComplete ==
  ASSUME DividedInv, \A g \in groups : state[g] \in States
  PROVE  ChargeIn({"RECOMBINED"}) + ChargeIn({"TRAPPED"}) + ChargeIn({"MOTION", "HALTED"})
            = Total(setting, deposits)
<1> DEFINE e == GroupCharges
           R == {g \in groups : state[g] \in {"RECOMBINED"}}
           T == {g \in groups : state[g] \in {"TRAPPED"}}
           P == {g \in groups : state[g] \in {"MOTION", "HALTED"}}
<1>1. /\ IsFiniteSet(groups) /\ NatOn(e, groups)
      /\ SumOf(e, groups) = Total(setting, deposits)
  BY DividedExactly
<1>2. \A g \in groups : e[g] = Charge(g)
  BY DEF GroupCharges
<1>3. /\ R \intersect T = {} /\ (R \union T) \intersect P = {}
      /\ groups = (R \union T) \union P
  BY DEF States
<1>4. R \subseteq groups /\ T \subseteq groups /\ P \subseteq groups
  OBVIOUS
<1>5. /\ ChargeIn({"RECOMBINED"}) = ChargeOf(R) /\ ChargeIn({"TRAPPED"}) = ChargeOf(T)
      /\ ChargeIn({"MOTION", "HALTED"}) = ChargeOf(P)
  BY DEF ChargeIn
<1> HIDE DEF e, R, T, P
<1>6. \A G \in SUBSET groups : IsFiniteSet(G) /\ NatOn(e, G) /\ ChargeOf(G) = SumOf(e, G)
  <2> TAKE G \in SUBSET groups
  <2>1. IsFiniteSet(G)
    BY <1>1, FS_Subset
  <2>2. \A g \in G : e[g] = Charge(g)
    BY <1>2
  <2>3. NatOn(e, G)
    BY <1>1 DEF NatOn
  <2>4. ChargeOf(G) = SumOf(e, G)
    BY <2>1, <2>2, ChargeOfIsSum
  <2> QED BY <2>1, <2>3, <2>4
<1>7. SumOf(e, R \union T) = SumOf(e, R) + SumOf(e, T)
  <2>1. IsFiniteSet(R) /\ IsFiniteSet(T) /\ NatOn(e, R \union T)
    BY <1>4, <1>6
  <2> QED BY <1>3, <2>1, SumUnion
<1>8. SumOf(e, (R \union T) \union P) = SumOf(e, R \union T) + SumOf(e, P)
  <2> DEFINE U == R \union T
  <2>1. IsFiniteSet(U) /\ IsFiniteSet(P) /\ NatOn(e, U \union P) /\ U \intersect P = {}
    BY <1>1, <1>3, <1>4, <1>6
  <2> HIDE DEF U
  <2>2. SumOf(e, U \union P) = SumOf(e, U) + SumOf(e, P)
    BY <2>1, SumUnion
  <2> QED BY <2>2 DEF U
<1> QED BY <1>1, <1>3, <1>4, <1>5, <1>6, <1>7, <1>8

\* The charges that were counted are all.  (Variables are no arguments here, since the
\* formula is primed.)
CountsInv ==
    \A s \in {setting} : \A list \in {deposits} : \A c \in counts :
        c.recombined + c.trapped + c.propagated = Total(s, list)

LEMMA DividedNext ==
  ASSUME DividedInv, [Next]_vars
  PROVE  DividedInv' /\ setting' = setting /\ deposits' = deposits /\ groups' = groups
<1>1. setting' = setting /\ deposits' = deposits /\ groups' = groups
  BY DEF Next, BeginStep, PassGroup, MoveGroup, EndStep, Output, vars
<1>2. \A s, list : s = setting /\ list = deposits => groups = GroupsOf(s, list)
  BY DEF DividedInv
<1>3. DividedInv'
  BY <1>1, <1>2 DEF DividedInv
<1> QED BY <1>1, <1>3

LEMMA CountsNext ==
  ASSUME TypeInv, DividedInv, CountsInv, [Next]_vars
  PROVE  CountsInv'
<1>1. setting' = setting /\ deposits' = deposits
  BY DividedNext
<1>2. CASE counts' = counts
  BY <1>1, <1>2 DEF CountsInv
<1>3. CASE Output
  <2> DEFINE c == [recombined |-> ChargeIn({"RECOMBINED"}), trapped |-> ChargeIn({"TRAPPED"}),
                   propagated |-> ChargeIn({"MOTION", "HALTED"})]
  <2>1. counts' = {c}
    BY <1>3 DEF Output
  <2>2. c.recombined + c.trapped + c.propagated = Total(setting, deposits)
    <3>1. \A g \in groups : state[g] \in States
      BY DEF TypeInv
    <3>2. c.recombined + c.trapped + c.propagated =
            ChargeIn({"RECOMBINED"}) + ChargeIn({"TRAPPED"}) + ChargeIn({"MOTION", "HALTED"})
      OBVIOUS
    <3> HIDE DEF c
    <3> QED BY <3>1, <3>2, CountsComplete
  <2> HIDE DEF c
  <2>3. \A s \in {setting} : \A list \in {deposits} :
           c.recombined + c.trapped + c.propagated = Total(s, list)
    BY <2>2
  <2> QED BY <1>1, <2>1, <2>3 DEF CountsInv
<1>4. CASE UNCHANGED vars
  BY <1>2, <1>4 DEF vars
<1> QED BY <1>2, <1>3, <1>4 DEF Next, BeginStep, PassGroup, MoveGroup, EndStep

LEMMA DividedInit == Init => DividedInv /\ CountsInv
<1> SUFFICES ASSUME Init PROVE DividedInv /\ CountsInv
  OBVIOUS
<1>1. setting \in SettingRecords /\ deposits \in DepositLists
  BY CarriersAssumption, InteractiveAssumption DEF Init
<1>2. groups = GroupsOf(setting, deposits)
  BY DEF Init
<1>3. counts = {}
  BY DEF Init
<1> QED BY <1>1, <1>2, <1>3 DEF DividedInv, CountsInv

\* No charge is lost when the event is divided into groups, nor when they are counted by their
\* final states, and the limit of the number of groups is exceeded by the deposits at most.
THEOREM GroupsExactHolds == Spec => []GroupsExact
<1> DEFINE All == Inv /\ DividedInv /\ CountsInv
<1>1. Init => All
  BY InitInv, DividedInit
<1>2. All /\ [Next]_vars => All'
  <2> SUFFICES ASSUME All, [Next]_vars PROVE All'
    OBVIOUS
  <2>1. TypeInv
    BY DEF Inv
  <2>2. Inv'
    BY NextInv
  <2>3. DividedInv'
    BY DividedNext
  <2>4. CountsInv'
    BY <2>1, CountsNext
  <2> QED BY <2>2, <2>3, <2>4
<1>3. All => GroupsExact
  <2> SUFFICES ASSUME All PROVE GroupsExact
    OBVIOUS
  <2>1. \A c \in counts : c.recombined + c.trapped + c.propagated = Total(setting, deposits)
    BY DEF CountsInv
  <2> QED BY <2>1, DividedExactly DEF GroupsExact
<1> QED
  BY <1>1, <1>2, <1>3, PTL DEF Spec

-----------------------------------------------------------------------------
(* GenericPropagation and TransientPropagation.  The balance of each type  *)
(* of carriers holds after every step of every call of propagate() when    *)
(* the groups on the stack and the rest of the deposit are counted in      *)
(* (CarriersInv), and so do the statistics when what the calls on the      *)
(* stack have collected is (StatisticsInv).                                *)

(* Sums over sequences and over parts of a set.                            *)

LEMMA SumSame ==
  ASSUME NEW S, IsFiniteSet(S), NEW d, NEW e, \A x \in S : d[x] = e[x]
  PROVE  SumOf(d, S) = SumOf(e, S)
<1>1. PICK f : Sums(f, d, S) /\ SumOf(d, S) = f[S]
  BY SumExists
<1>2. Sums(f, e, S)
  <2>1. \A s \in SUBSET S : s # {} => d[One(s)] = e[One(s)]
    BY DEF One
  <2>2. [s \in SUBSET S |-> IF s = {} THEN 0 ELSE d[One(s)] + f[s \ {One(s)}]]
        = [s \in SUBSET S |-> IF s = {} THEN 0 ELSE e[One(s)] + f[s \ {One(s)}]]
    BY <2>1
  <2> QED BY <1>1, <2>2 DEF Sums, SumsOn
<1>3. IsSum(f[S], e, S)
  BY <1>2 DEF IsSum
<1>4. f[S] = SumOf(e, S)
  BY <1>3, SumIs
<1> QED BY <1>1, <1>4

LEMMA SumZero ==
  ASSUME NEW S, IsFiniteSet(S), NEW e, \A x \in S : e[x] = 0
  PROVE  SumOf(e, S) = 0
<1> DEFINE bad == {n \in Nat : \E s \in SUBSET S : Cardinality(s) = n /\ SumOf(e, s) # 0}
<1>1. bad = {}
  <2> SUFFICES ASSUME bad # {} PROVE FALSE
    OBVIOUS
  <2>0. bad \subseteq Nat
    OBVIOUS
  <2>1. PICK n \in bad : \A l \in bad : n <= l
    <3> HIDE DEF bad
    <3> QED BY <2>0, LeastNat
  <2>2. PICK s \in SUBSET S : Cardinality(s) = n /\ SumOf(e, s) # 0
    BY <2>1
  <2>3. s # {}
    BY <2>2, SumEmpty
  <2> DEFINE z == One(s)
             r == s \ {z}
  <2>4. z \in s /\ r \in SUBSET S /\ Cardinality(r) = n - 1 /\ n \in Nat \ {0}
    BY <2>2, <2>3, OneLess
  <2>5. SumOf(e, r) = 0
    <3>1. n - 1 \notin bad /\ n - 1 \in Nat
      <4> HIDE DEF bad, r, z
      <4> QED BY <2>0, <2>1, <2>4
    <3> HIDE DEF r, z
    <3> QED BY <2>4, <3>1
  <2>6. IsFiniteSet(s) /\ NatOn(e, s)
    BY <2>2, FS_Subset DEF NatOn
  <2> HIDE DEF z
  <2>7. \A x \in s : SumOf(e, s) = e[x] + SumOf(e, s \ {x})
    BY <2>6, SumLess
  <2>8. SumOf(e, s) = e[z] + SumOf(e, r) /\ e[z] = 0
    BY <2>2, <2>4, <2>7
  <2> QED BY <2>2, <2>5, <2>8
<1>2. Cardinality(S) \in Nat /\ S \in SUBSET S
  BY FS_CardinalityType
<1> QED BY <1>1, <1>2

\* Leaving terms out is the same as making them zero.
LEMMA SumPart ==
  ASSUME NEW S, IsFiniteSet(S), NEW T \in SUBSET S, NEW e, NatOn(e, T), NEW d,
         \A x \in S : d[x] = IF x \in T THEN e[x] ELSE 0
  PROVE  SumOf(e, T) = SumOf(d, S)
<1> DEFINE R == S \ T
<1>1. IsFiniteSet(T) /\ IsFiniteSet(R) /\ T \union R = S /\ T \intersect R = {}
  <2>1. R \in SUBSET S
    OBVIOUS
  <2> HIDE DEF R
  <2>2. IsFiniteSet(T) /\ IsFiniteSet(R)
    BY <2>1, FS_Subset
  <2> QED BY <2>2 DEF R
<1>2. SumOf(d, R) = 0
  <2>1. \A x \in R : d[x] = 0
    OBVIOUS
  <2> HIDE DEF R
  <2> QED BY <1>1, <2>1, SumZero
<1>3. SumOf(d, T) = SumOf(e, T)
  <2>1. \A x \in T : d[x] = e[x]
    OBVIOUS
  <2> QED BY <1>1, <2>1, SumSame
<1>4. NatOn(d, S) /\ NatOn(d, T)
  BY DEF NatOn
<1> HIDE DEF R
<1>5. SumOf(d, T \union R) = SumOf(d, T) + SumOf(d, R)
  BY <1>1, <1>4, SumUnion
<1>6. SumOf(d, T) \in Nat
  BY <1>1, <1>4, SumNat
<1>7. SumOf(d, S) = SumOf(d, T) + SumOf(d, R)
  BY <1>1, <1>5
<1> QED BY <1>2, <1>3, <1>6, <1>7

\* The sum of a sequence of numbers.
SeqSum(e) == SumOf(e, DOMAIN e)

LEMMA SeqSumEmpty == SeqSum(<<>>) = 0
BY SumEmpty DEF SeqSum

LEMMA SeqSumNat ==
  ASSUME NEW e \in Seq(Nat)
  PROVE  SeqSum(e) \in Nat
<1>1. Len(e) \in Nat /\ DOMAIN e = 1 .. Len(e) /\ \A i \in 1 .. Len(e) : e[i] \in Nat
  OBVIOUS
<1>2. IsFiniteSet(DOMAIN e) /\ NatOn(e, DOMAIN e)
  BY <1>1, FS_Interval DEF NatOn
<1> QED BY <1>2, SumNat DEF SeqSum

LEMMA SeqSumAppend ==
  ASSUME NEW e \in Seq(Nat), NEW n \in Nat
  PROVE  SeqSum(Append(e, n)) = SeqSum(e) + n
<1> DEFINE d == Append(e, n)
           S == DOMAIN e
           z == Len(e) + 1
<1>1. /\ Len(e) \in Nat /\ S = 1 .. Len(e) /\ DOMAIN d = S \union {z} /\ z \notin S
      /\ d[z] = n /\ \A i \in S : d[i] = e[i] /\ e[i] \in Nat
  OBVIOUS
<1> HIDE DEF d, S, z
<1>2. IsFiniteSet(S) /\ NatOn(d, S) /\ NatOn(e, S)
  <2>1. IsFiniteSet(1 .. Len(e))
    BY <1>1, FS_Interval
  <2>2. IsFiniteSet(S)
    BY <1>1, <2>1
  <2> QED BY <1>1, <2>2 DEF NatOn
<1>3. SumOf(d, S \union {z}) = d[z] + SumOf(d, S)
  BY <1>1, <1>2, SumMore
<1>4. SumOf(d, S) = SumOf(e, S)
  BY <1>1, <1>2, SumSame
<1>5. SumOf(e, S) \in Nat
  BY <1>2, SumNat
<1> QED BY <1>1, <1>3, <1>4, <1>5 DEF SeqSum, S, d

Fates == {"motion", "halted", "recombined", "trapped"}
CountSet == [propagated : Nat, recombined : Nat, trapped : Nat]
DepositSet == [type : Types, charge : Nat, time : Nat]
GroupSet == [type : Types, charge : Nat, start : Nat, time : Nat, level : Nat, state : Fates,
             next : Nat, counts : CountSet, path : Seq([time : Nat, charge : Nat])]
ChargeSet == [type : Types, charge : Nat, time : Nat, state : Fates]
                 \cup [type : Types, time : Nat, state : Fates]

\* What was recorded of each group.
RecordsInv ==
    /\ charges \in Seq(ChargeSet) /\ finished \in Seq([group : GroupSet, deposit : Nat])
    /\ Len(charges) = Len(finished)
    /\ \A i \in 1 .. Len(charges) : /\ ~Transient => charges[i].charge = finished[i].group.charge
                                    /\ charges[i].state = finished[i].group.state

CallsInv ==
    /\ deposits \in Seq(DepositSet) /\ at \in 0 .. Len(deposits)
    /\ remaining \in Nat /\ perStep \in Nat /\ (stack # <<>> \/ remaining > 0 => at > 0)
    /\ stack \in Seq(GroupSet)
    /\ statistics \in CountSet /\ created \in Nat /\ lost \in [Types -> Nat]

SingleTypes == RecordsInv /\ CallsInv

LEMMA SingleInit == PropagationInit => SingleTypes
<1> SUFFICES ASSUME PropagationInit PROVE SingleTypes
  OBVIOUS
<1>1. deposits \in Seq(DepositSet)
  BY CarriersAssumption DEF PropagationInit, DepositSet, DepositLists
<1>2. CallsInv
  BY <1>1 DEF PropagationInit, CallsInv, CountSet, NoCounts
<1>3. RecordsInv
  BY DEF PropagationInit, RecordsInv
<1> QED BY <1>2, <1>3 DEF SingleTypes

\* The last call and those before it.
LEMMA FrontLast ==
  ASSUME NEW X, NEW s \in Seq(X), s # <<>>
  PROVE  /\ Front(s) \in Seq(X) /\ Last(s) \in X
         /\ s = Append(Front(s), Last(s))
BY DEF Front, Last

LEMMA CallType ==
  ASSUME NEW t \in Types, NEW n \in Nat, NEW b \in Nat, NEW l \in Nat
  PROVE  Call(t, n, b, l) \in GroupSet
<1>1. SummaryStep \in Nat \ {0}
  BY CarriersAssumption, PropagationAssumption
<1>2. Ceil(b, SummaryStep) \in Nat
  BY <1>1 DEF Ceil
<1>3. <<>> \in Seq([time : Nat, charge : Nat]) /\ NoCounts \in CountSet
  BY DEF NoCounts, CountSet
<1> QED BY <1>2, <1>3 DEF Call, GroupSet, Fates

\* The end of a step leaves charge and statistics alone.
Follows(h, g, dt) ==
    /\ h \in GroupSet
    /\ h.type = g.type /\ h.charge = g.charge /\ h.counts = g.counts
    /\ h.level = g.level /\ h.next = g.next /\ h.start = g.start
    /\ h.path = Append(g.path, [time |-> g.start + g.time, charge |-> g.charge])
    /\ g.time + dt <= h.time

LEMMA AfterType ==
  ASSUME NEW g \in GroupSet, NEW dt \in Nat, NEW detrap \in Nat,
         NEW fate \in {"moves", "halts", "recombines", "traps"}
  PROVE  Follows(After(g, dt, fate, detrap), g, dt)
<1> DEFINE p == Append(g.path, [time |-> g.start + g.time, charge |-> g.charge])
           h == After(g, dt, fate, detrap)
<1>1. g.path \in Seq([time : Nat, charge : Nat]) /\ g.start \in Nat /\ g.time \in Nat /\ g.charge \in Nat
  BY DEF GroupSet
<1>2. p \in Seq([time : Nat, charge : Nat])
  <2> DEFINE e == [time |-> g.start + g.time, charge |-> g.charge]
             X == [time : Nat, charge : Nat]
  <2>1. e \in X
    BY <1>1
  <2> HIDE DEF e, X
  <2> QED BY <1>1, <2>1 DEF e, X
<1>3. \E t \in Nat, s \in Fates : /\ h = [g EXCEPT !.time = t, !.state = s, !.path = p]
                                  /\ g.time + dt <= t
  <2> DEFINE released == fate = "traps" /\ Now(g) + dt + detrap < IntegrationTime
             t == g.time + dt + IF released THEN detrap ELSE 0
             s == IF released \/ fate = "moves" THEN "motion"
                  ELSE CASE fate = "traps" -> "trapped"
                         [] fate = "recombines" -> "recombined"
                         [] fate = "halts" -> "halted"
  <2>1. t \in Nat /\ g.time + dt <= t
    BY <1>1
  <2>2. s \in Fates
    BY DEF Fates
  <2>3. h = [g EXCEPT !.time = t, !.state = s, !.path = p]
    BY DEF After, Now
  <2> QED BY <2>1, <2>2, <2>3
<1>4. PICK t \in Nat, s \in Fates : /\ h = [g EXCEPT !.time = t, !.state = s, !.path = p]
                                    /\ g.time + dt <= t
  BY <1>3
<1> HIDE DEF h, p
<1>5. /\ h.type = g.type /\ h.charge = g.charge /\ h.counts = g.counts
      /\ h.level = g.level /\ h.next = g.next /\ h.start = g.start /\ h.path = p /\ h.time = t
  BY <1>4 DEF GroupSet
<1>6. h \in GroupSet
  BY <1>2, <1>4 DEF GroupSet
<1> QED BY <1>4, <1>5, <1>6 DEF Follows, h, p

\* The sum of what w gives the elements of a sequence.
Weights(s, w) == [i \in DOMAIN s |-> w[s[i]]]
Held(s, w) == SeqSum(Weights(s, w))

LEMMA HeldAppend ==
  ASSUME NEW X, NEW w \in [X -> Nat], NEW s \in Seq(X), NEW x \in X
  PROVE  /\ Held(s, w) \in Nat /\ w[x] \in Nat
         /\ Held(Append(s, x), w) = Held(s, w) + w[x]
<1> DEFINE t == Append(s, x)
           v == Weights(s, w)
           u == Append(v, w[x])
<1>1. w[x] \in Nat
  OBVIOUS
<1>2. v \in Seq(Nat) /\ Len(v) = Len(s) /\ \A i \in 1 .. Len(s) : v[i] = w[s[i]]
  <2>1. DOMAIN s = 1 .. Len(s) /\ Len(s) \in Nat /\ \A i \in 1 .. Len(s) : s[i] \in X
    OBVIOUS
  <2>2. v \in [1 .. Len(s) -> Nat] /\ \A i \in 1 .. Len(s) : v[i] = w[s[i]]
    BY <2>1 DEF Weights
  <2> QED BY <2>1, <2>2
<1>3. /\ DOMAIN t = 1 .. (Len(s) + 1) /\ t[Len(s) + 1] = x
      /\ Len(s) \in Nat /\ \A i \in 1 .. Len(s) : t[i] = s[i]
  OBVIOUS
<1> HIDE DEF t, v
<1>4. u \in Seq(Nat) /\ Len(u) = Len(v) + 1 /\ u[Len(v) + 1] = w[x]
      /\ \A i \in 1 .. Len(v) : u[i] = v[i]
  BY <1>1, <1>2
<1>5. DOMAIN u = 1 .. (Len(s) + 1) /\ u = [i \in 1 .. (Len(s) + 1) |-> u[i]]
  BY <1>2, <1>4
<1> HIDE DEF u
<1>6. \A i \in 1 .. (Len(s) + 1) : w[t[i]] = u[i]
  <2> TAKE i \in 1 .. (Len(s) + 1)
  <2>1. CASE i = Len(s) + 1
    BY <1>2, <1>3, <1>4, <2>1
  <2>2. CASE i # Len(s) + 1
    <3>1. i \in 1 .. Len(s)
      BY <1>3, <2>2
    <3> QED BY <1>2, <1>3, <1>4, <3>1
  <2> QED BY <2>1, <2>2
<1>7. Weights(t, w) = u
  BY <1>3, <1>5, <1>6 DEF Weights
<1>8. SeqSum(v) \in Nat /\ SeqSum(u) = SeqSum(v) + w[x]
  BY <1>1, <1>2, SeqSumNat, SeqSumAppend DEF u
<1> QED BY <1>1, <1>7, <1>8 DEF Held, t, v

LEMMA HeldEmpty == \A w : Held(<<>>, w) = 0
<1> TAKE w
<1>1. Weights(<<>>, w) = <<>>
  BY DEF Weights
<1> QED BY <1>1, SeqSumEmpty DEF Held

\* The last element counts with its weight.
LEMMA HeldLast ==
  ASSUME NEW X, NEW w \in [X -> Nat], NEW s \in Seq(X), s # <<>>
  PROVE  /\ Held(Front(s), w) \in Nat /\ w[Last(s)] \in Nat
         /\ Held(s, w) = Held(Front(s), w) + w[Last(s)]
<1> DEFINE f == Front(s)
           l == Last(s)
<1>1. f \in Seq(X) /\ l \in X /\ s = Append(f, l)
  BY FrontLast
<1> HIDE DEF f, l
<1>2. Held(f, w) \in Nat /\ w[l] \in Nat /\ Held(Append(f, l), w) = Held(f, w) + w[l]
  BY <1>1, HeldAppend
<1> QED BY <1>1, <1>2 DEF f, l

LEMMA HeldNat ==
  ASSUME NEW X, NEW w \in [X -> Nat], NEW s \in Seq(X)
  PROVE  Held(s, w) \in Nat
<1>1. CASE s = <<>>
  BY <1>1, HeldEmpty
<1>2. CASE s # <<>>
  <2>1. /\ Held(Front(s), w) \in Nat /\ w[Last(s)] \in Nat
        /\ Held(s, w) = Held(Front(s), w) + w[Last(s)]
    BY <1>2, HeldLast
  <2> QED BY <2>1
<1> QED BY <1>1, <1>2

\* The sum over a set of places, in the terms of the specification.
LEMMA SumOverIsSum ==
  ASSUME NEW S, IsFiniteSet(S), NEW w
  PROVE  SumOver(S, w) = SumOf(w, S)
<1> DEFINE Given(f) == f = [r \in SUBSET S |->
                        IF r = {} THEN 0 ELSE w[One(r)] + f[r \ {One(r)}]]
<1>1. \A f : Given(f) <=> Sums(f, w, S)
  BY DEF Sums, SumsOn
<1>2. SumOver(S, w) = (CHOOSE f : Given(f))[S]
  BY DEF SumOver, MapThenSumSet, MapThenFoldSet, One
<1>3. \E f : Given(f)
  BY <1>1, SumExists
<1>4. Given(CHOOSE f : Given(f))
  <2> HIDE DEF Given
  <2> QED BY <1>3
<1> DEFINE h == CHOOSE f : Given(f)
<1>5. Sums(h, w, S) /\ SumOver(S, w) = h[S]
  BY <1>1, <1>2, <1>4
<1> HIDE DEF h
<1>6. IsSum(SumOver(S, w), w, S)
  BY <1>5 DEF IsSum
<1> QED BY <1>6, SumIs

\* A sum over some places of a sequence is that of weights which are zero elsewhere.
LEMMA SumOverPlaces ==
  ASSUME NEW X, NEW w \in [X -> Nat], NEW s \in Seq(X), NEW T \in SUBSET (DOMAIN s),
         NEW e, \A i \in DOMAIN s : w[s[i]] = IF i \in T THEN e[i] ELSE 0
  PROVE  SumOver(T, e) = Held(s, w)
<1> DEFINE v == Weights(s, w)
           S == DOMAIN s
<1>1. IsFiniteSet(S) /\ \A i \in S : s[i] \in X
  <2>1. S = 1 .. Len(s) /\ Len(s) \in Nat /\ \A i \in S : s[i] \in X
    OBVIOUS
  <2>2. IsFiniteSet(1 .. Len(s))
    BY <2>1, FS_Interval
  <2> QED BY <2>1, <2>2
<1>2. IsFiniteSet(T)
  BY <1>1, FS_Subset
<1>3. NatOn(e, T)
  BY <1>1 DEF NatOn
<1>4. DOMAIN v = S /\ \A i \in S : v[i] = IF i \in T THEN e[i] ELSE 0
  BY DEF Weights
<1>5. T \in SUBSET S
  OBVIOUS
<1> HIDE DEF v, S
<1>6. SumOf(e, T) = SumOf(v, S)
  BY <1>1, <1>3, <1>4, <1>5, SumPart
<1> QED BY <1>2, <1>4, <1>6, SumOverIsSum DEF Held, SeqSum, v

LEMMA OppositeTypes ==
  \A t \in Types : /\ invertCarrierType(t) \in Types
                  /\ invertCarrierType(t) # t
                  /\ \A u \in Types : u = t \/ u = invertCarrierType(t)
<1>1. Types = {-1, 1}
  BY DEF Types, Electron, Hole
<1>2. \A t \in Int : invertCarrierType(t) = 0 - t
  BY DEF invertCarrierType
<1>3. invertCarrierType(-1) = 1 /\ invertCarrierType(1) = -1
  BY <1>2
<1> QED BY <1>1, <1>3

\* g after a step in which n carriers joined it and m samples were taken of it.
Moved(g, h, n, m) ==
    /\ g \in GroupSet /\ h \in GroupSet /\ n \in Nat /\ m \in Nat
    /\ h.type = g.type /\ h.counts = g.counts /\ h.charge = g.charge + n
    /\ h.start = g.start /\ h.next = g.next + m
    /\ h.path = Append(g.path, [time |-> Now(g), charge |-> g.charge])

\* The call of propagate() for n carriers.
Fresh(child, type, n) ==
    /\ child \in GroupSet /\ child.type = type /\ child.charge = n
    /\ child.counts = NoCounts /\ child.path = <<>>
    /\ child.next = Ceil(child.start, SummaryStep)

\* n carriers of a type are lost.
Loses(before, after, type, n) == after = [before EXCEPT ![type] = @ + n]

\* What the step does with the calls: g is the group that moves, h the group after it,
\* and the carriers of the opposite type are a call of their own or lost.
Stepped(f, g, h, n, calls, before, after) ==
    LET opposite == invertCarrierType(g.type)
    IN  /\ f \in Seq(GroupSet)
        /\ \/ calls = Append(f, h) /\ n = 0 /\ after = before
           \/ /\ \E child : Fresh(child, opposite, n) /\ calls = Append(Append(f, h), child)
              /\ after = before
           \/ calls = Append(f, h) /\ Loses(before, after, opposite, n)

SamplesDue(g) == IF Transient THEN DueSamples(g) ELSE {}

LEMMA StepCalls ==
  ASSUME SingleTypes, Step
  PROVE  /\ stack # <<>> /\ bins' = AddTo(bins, SamplesDue(Last(stack)), Last(stack))
         /\ \E h, n : /\ Moved(Last(stack), h, n, Cardinality(SamplesDue(Last(stack))))
                      /\ Stepped(Front(stack), Last(stack), h, n, stack', lost, lost')
                      /\ created' = created + n
<1> DEFINE g == Last(stack)
           f == Front(stack)
<1>1. stack # <<>> /\ stack \in Seq(GroupSet)
  BY DEF Step, SingleTypes, CallsInv
<1>2. f \in Seq(GroupSet) /\ g \in GroupSet
  BY <1>1, FrontLast
<1> DEFINE due == SamplesDue(g)
           m == Cardinality(due)
           s == [g EXCEPT !.next = @ + m]
<1>3. PICK dt \in StepTimes, fate \in {"moves", "halts", "recombines", "traps"},
           detrap \in DetrapTimes, n \in 0 .. MaxSecondaries - created :
        /\ Multiply(After(s, dt, fate, detrap), n)
        /\ created' = created + n
  BY DEF Step, SamplesDue
<1>4. n \in Nat /\ dt \in Nat /\ detrap \in Nat
  BY CarriersAssumption, PropagationAssumption
<1>5. m \in Nat
  <2>1. IntegrationTime \in Nat \ {0} /\ SummaryStep \in Nat \ {0}
    BY CarriersAssumption
  <2> DEFINE last == (IntegrationTime - 1) \div SummaryStep
  <2>2. last \in Int
    BY <2>1
  <2>3. IsFiniteSet(Samples)
    <3>1. Samples = 0 .. last
      BY DEF Samples
    <3> HIDE DEF last
    <3>2. IsFiniteSet(0 .. last)
      BY <2>2, FS_Interval
    <3> QED BY <3>1, <3>2
  <2>4. due \subseteq Samples
    BY DEF SamplesDue, DueSamples
  <2> HIDE DEF due
  <2>5. IsFiniteSet(due)
    BY <2>3, <2>4, FS_Subset
  <2> QED BY <2>5, FS_CardinalityType
<1> HIDE DEF m, g, f
<1>6. /\ s \in GroupSet /\ s.type = g.type /\ s.charge = g.charge /\ s.counts = g.counts
      /\ s.start = g.start /\ s.time = g.time /\ s.path = g.path /\ s.next = g.next + m
  <2>1. g.next + m \in Nat /\ s = [g EXCEPT !.next = g.next + m]
    BY <1>2, <1>5 DEF GroupSet
  <2> HIDE DEF s
  <2> QED BY <1>2, <2>1 DEF GroupSet
<1> HIDE DEF s
<1> DEFINE a == After(s, dt, fate, detrap)
<1>7. Follows(a, s, dt)
  BY <1>4, <1>6, AfterType
<1>8. Multiply(a, n)
  BY <1>3
<1> HIDE DEF a
<1>9. Moved(g, a, 0, m)
  BY <1>2, <1>5, <1>6, <1>7 DEF Follows, Moved, Now, GroupSet
<1> DEFINE opposite == invertCarrierType(a.type)
           child == Call(opposite, n, Now(a), a.level + 1)
           h == Joined(a, n)
<1>10. Moved(g, h, n, m)
  <2>1. g.charge \in Nat /\ a.charge = g.charge /\ g.charge + n \in Nat
    <3>1. g.charge \in Nat
      BY <1>4, <1>9 DEF Moved, GroupSet
    <3>2. a.charge = g.charge + 0
      BY <1>9 DEF Moved
    <3> QED BY <1>4, <3>1, <3>2
  <2>3. h = [a EXCEPT !.charge = g.charge + n]
    BY <2>1 DEF Joined
  <2> HIDE DEF h
  <2>2. /\ h \in GroupSet /\ h.type = a.type /\ h.counts = a.counts /\ h.charge = g.charge + n
        /\ h.start = a.start /\ h.next = a.next /\ h.path = a.path
    BY <1>9, <2>1, <2>3 DEF Moved, GroupSet
  <2> QED BY <1>4, <1>9, <2>2 DEF Moved
<1>11. Fresh(child, opposite, n)
  <2>1. opposite \in Types
    BY <1>9, OppositeTypes DEF Moved, GroupSet
  <2>2. Now(a) \in Nat /\ a.level + 1 \in Nat
    <3>1. a \in GroupSet
      BY <1>9 DEF Moved
    <3> QED BY <3>1 DEF Now, GroupSet
  <2>3. child \in GroupSet
    BY <1>4, <2>1, <2>2, CallType
  <2> QED BY <2>3 DEF Call, Fresh
<1>12. a.type = g.type
  BY <1>9 DEF Moved
<1>13. bins' = AddTo(bins, due, g)
  BY DEF Step, SamplesDue, g
<1>14. \/ n = 0 /\ stack' = Append(f, a) /\ lost' = lost
       \/ stack' = f \o <<h, child>> /\ lost' = lost
       \/ stack' = Append(f, h) /\ lost' = [lost EXCEPT ![opposite] = @ + n]
  BY <1>8 DEF Multiply, f
<1> HIDE DEF h, child, opposite
<1>15. \E x, k : Moved(g, x, k, m) /\ Stepped(f, g, x, k, stack', lost, lost')
                 /\ created' = created + k
  <2>1. CASE n = 0 /\ stack' = Append(f, a) /\ lost' = lost
    <3>1. Stepped(f, g, a, n, stack', lost, lost')
      BY <1>2, <2>1 DEF Stepped
    <3>2. Moved(g, a, n, m)
      BY <1>9, <2>1
    <3> QED BY <1>3, <3>1, <3>2
  <2>2. CASE stack' = f \o <<h, child>> /\ lost' = lost
    <3>1. h \in GroupSet /\ child \in GroupSet
      BY <1>10, <1>11 DEF Moved, Fresh
    <3>2. \A x, y \in GroupSet : f \o <<x, y>> = Append(Append(f, x), y)
      BY <1>2
    <3>3. stack' = Append(Append(f, h), child)
      BY <2>2, <3>1, <3>2
    <3>4. Stepped(f, g, h, n, stack', lost, lost')
      BY <1>2, <1>11, <1>12, <2>2, <3>3 DEF Stepped, opposite
    <3> QED BY <1>3, <1>10, <3>4
  <2>3. CASE stack' = Append(f, h) /\ lost' = [lost EXCEPT ![opposite] = @ + n]
    <3>1. Stepped(f, g, h, n, stack', lost, lost')
      BY <1>2, <1>12, <2>3 DEF Stepped, Loses, opposite
    <3> QED BY <1>3, <1>10, <3>1
  <2> QED BY <1>14, <2>1, <2>2, <2>3
<1> QED BY <1>1, <1>13, <1>15 DEF f, g, m

Kinds == {"propagated", "recombined", "trapped"}

\* What the end of a group adds to the statistics.
Amounts(g) ==
    [k \in Kinds |-> IF \/ k = "propagated"
                        \/ k = "recombined" /\ g.state = "recombined"
                        \/ k = "trapped" /\ g.state = "trapped"
                     THEN g.charge ELSE 0]

LEMMA CountsAre ==
  /\ \A c : c \in CountSet <=> c \in [Kinds -> Nat]
  /\ \A a, b \in CountSet : /\ Plus(a, b) \in CountSet
                            /\ \A k \in Kinds : Plus(a, b)[k] = a[k] + b[k]
<1>1. \A c : c \in CountSet <=> c \in [Kinds -> Nat]
  BY DEF CountSet, Kinds
<1>2. ASSUME NEW a \in [Kinds -> Nat], NEW b \in [Kinds -> Nat]
      PROVE  /\ Plus(a, b) \in [Kinds -> Nat]
             /\ \A k \in Kinds : Plus(a, b)[k] = a[k] + b[k]
  BY DEF Plus
<1> QED BY <1>1, <1>2

LEMMA CountedIs ==
  ASSUME NEW g \in GroupSet
  PROVE  /\ Counted(g) \in CountSet
         /\ \A k \in Kinds : /\ Amounts(g)[k] \in Nat /\ g.counts[k] \in Nat
                             /\ Counted(g)[k] = g.counts[k] + Amounts(g)[k]
<1> DEFINE p == [propagated |-> g.charge,
                 recombined |-> IF g.state = "recombined" THEN g.charge ELSE 0,
                 trapped |-> IF g.state = "trapped" THEN g.charge ELSE 0]
<1>1. g.charge \in Nat /\ g.counts \in CountSet
  BY DEF GroupSet
<1>2. p \in CountSet
  BY <1>1 DEF CountSet
<1>3. \A k \in Kinds : p[k] = Amounts(g)[k]
  BY DEF Kinds, Amounts
<1>4. Counted(g) = Plus(g.counts, p)
  BY DEF Counted
<1> HIDE DEF p
<1>5. /\ Counted(g) \in CountSet
      /\ \A k \in Kinds : Counted(g)[k] = g.counts[k] + p[k]
  BY <1>1, <1>2, <1>4, CountsAre
<1>6. \A k \in Kinds : g.counts[k] \in Nat /\ p[k] \in Nat
  BY <1>1, <1>2, CountsAre
<1> QED BY <1>3, <1>5, <1>6

\* The caller after the call for g returned.
Rejoined(caller, h, g) ==
    /\ caller \in GroupSet /\ h \in GroupSet
    /\ h.type = caller.type /\ h.charge = caller.charge /\ h.start = caller.start
    /\ h.next = caller.next /\ h.path = caller.path
    /\ h.counts = Plus(caller.counts, Counted(g))

LEMMA ReturnCalls ==
  ASSUME SingleTypes, Return
  PROVE  /\ stack # <<>> /\ Last(stack) \in GroupSet /\ Front(stack) \in Seq(GroupSet)
         /\ \/ /\ Front(stack) = <<>> /\ stack' = <<>>
               /\ statistics' = Plus(statistics, Counted(Last(stack)))
            \/ /\ Front(stack) # <<>> /\ statistics' = statistics
               /\ \E h : /\ Rejoined(Last(Front(stack)), h, Last(stack))
                         /\ stack' = Append(Front(Front(stack)), h)
<1> DEFINE g == Last(stack)
           f == Front(stack)
<1>1. stack # <<>> /\ stack \in Seq(GroupSet)
  BY DEF Return, SingleTypes, CallsInv
<1>2. f \in Seq(GroupSet) /\ g \in GroupSet
  BY <1>1, FrontLast
<1>3. CASE f = <<>>
  BY <1>1, <1>2, <1>3 DEF Return
<1>4. CASE f # <<>>
  <2> DEFINE c == Last(f)
             n == Plus(c.counts, Counted(g))
             h == [c EXCEPT !.counts = n]
  <2>1. stack' = Append(Front(f), h) /\ statistics' = statistics
    BY <1>4 DEF Return
  <2> HIDE DEF f, g
  <2>2. c \in GroupSet
    BY <1>2, <1>4, FrontLast
  <2>3. n \in CountSet
    <3>1. c.counts \in CountSet
      BY <2>2 DEF GroupSet
    <3> QED BY <1>2, <3>1, CountedIs, CountsAre
  <2> HIDE DEF n
  <2>4. Rejoined(c, h, g)
    <3> HIDE DEF c
    <3>1. /\ h \in GroupSet /\ h.type = c.type /\ h.charge = c.charge /\ h.start = c.start
          /\ h.next = c.next /\ h.path = c.path /\ h.counts = n
      BY <2>2, <2>3 DEF GroupSet
    <3> HIDE DEF h
    <3> QED BY <2>2, <3>1 DEF Rejoined, n
  <2> HIDE DEF h
  <2> QED BY <1>1, <1>2, <1>4, <2>1, <2>4 DEF f, g
<1> QED BY <1>3, <1>4

\* The deposit and its group: the size of the group is positive and what remains of the
\* deposit is the rest.
LEMMA GroupCalls ==
  ASSUME SingleTypes, NextGroup
  PROVE  /\ at \in DOMAIN deposits /\ stack = <<>>
         /\ \E n, g : /\ n \in Nat /\ n <= remaining /\ perStep' = n
                      /\ remaining' = remaining - n /\ remaining' \in Nat
                      /\ Fresh(g, deposits[at].type, n) /\ stack' = <<g>>
<1> DEFINE d == deposits[at]
           n == Min({perStep, remaining})
           g == Call(d.type, n, d.time, 0)
<1>1. /\ deposits \in Seq(DepositSet) /\ at \in DOMAIN deposits /\ stack = <<>>
      /\ perStep \in Nat /\ remaining \in Nat
  BY DEF NextGroup, SingleTypes, CallsInv
<1>2. d.type \in Types /\ d.time \in Nat
  <2>1. d \in DepositSet
    BY <1>1
  <2> QED BY <2>1 DEF DepositSet
<1>3. n \in Nat /\ n <= remaining
  BY <1>1, MinOfTwo
<1>4. perStep' = n /\ remaining' = remaining - n /\ stack' = <<g>>
  BY DEF NextGroup
<1> HIDE DEF d, n
<1>5. remaining - n \in Nat
  BY <1>1, <1>3
<1>6. g \in GroupSet
  BY <1>2, <1>3, CallType
<1>7. Fresh(g, d.type, n)
  BY <1>6 DEF Fresh, Call
<1> HIDE DEF g
<1> QED BY <1>1, <1>3, <1>4, <1>5, <1>7 DEF d

FinishedSet == [group : GroupSet, deposit : Nat]

LEMMA SingleNext ==
  ASSUME SingleTypes, [PropagationNext]_propagationVars
  PROVE  SingleTypes'
<1>0. deposits' = deposits
  BY DEF PropagationNext, NextDeposit, NextGroup, Step, Return, Setup, propagationVars
<1>t. Transient' <=> Transient
  BY DEF PropagationNext, NextDeposit, NextGroup, Step, Return, Setup, propagationVars, Transient
<1>1. CASE NextDeposit
  <2>1. /\ at < Len(deposits) /\ at' = at + 1 /\ stack' = stack /\ stack = <<>>
        /\ UNCHANGED <<charges, finished, statistics, created>>
    BY <1>1 DEF NextDeposit
  <2> DEFINE d == deposits[at + 1]
  <2>2. d \in DepositSet /\ lost \in [Types -> Nat]
    <3>1. at + 1 \in DOMAIN deposits
      BY <2>1 DEF SingleTypes, CallsInv
    <3> QED BY <3>1 DEF SingleTypes, CallsInv
  <2>3. d.type \in Types /\ d.charge \in Nat
    BY <2>2 DEF DepositSet
  <2>4. /\ lost' \in [Types -> Nat] /\ perStep' \in Nat /\ remaining' \in Nat
    <3>1. CASE Skip(d)
      <4>1. lost' = [lost EXCEPT ![d.type] = lost[d.type] + d.charge]
            /\ perStep' = perStep /\ remaining' = remaining
        BY <1>1, <3>1 DEF NextDeposit
      <4> HIDE DEF d
      <4> QED BY <2>2, <2>3, <4>1 DEF SingleTypes, CallsInv
    <3>2. CASE ~Skip(d)
      <4>1. lost' = lost /\ perStep' = Adapted(d) /\ remaining' = d.charge
        BY <1>1, <3>2 DEF NextDeposit
      <4> HIDE DEF d
      <4>2. MaxGroups \in Nat /\ ChargePerStep \in Nat
        BY PropagationAssumption
      <4>3. MaxGroups > 0 => Ceil(d.charge, MaxGroups) \in Nat
        BY <2>3, <4>2, CeilBounds
      <4>4. Adapted(d) \in Nat
        BY <4>2, <4>3 DEF Adapted
      <4> QED BY <2>2, <2>3, <4>1, <4>4
    <3> QED BY <3>1, <3>2
  <2>5. RecordsInv'
    BY <1>t, <2>1 DEF SingleTypes, RecordsInv
  <2>6. CallsInv'
    BY <1>0, <2>1, <2>4 DEF SingleTypes, CallsInv
  <2> QED BY <2>5, <2>6 DEF SingleTypes
<1>2. CASE NextGroup
  <2>1. /\ stack' \in Seq(GroupSet) /\ perStep' \in Nat /\ remaining' \in Nat
        /\ at \in DOMAIN deposits
    <3>1. PICK n, g : /\ n \in Nat /\ perStep' = n /\ remaining' \in Nat
                      /\ Fresh(g, deposits[at].type, n) /\ stack' = <<g>>
      BY <1>2, GroupCalls
    <3>2. g \in GroupSet
      BY <3>1 DEF Fresh
    <3>3. at \in DOMAIN deposits
      BY <1>2, GroupCalls
    <3> QED BY <3>1, <3>2, <3>3
  <2>2. UNCHANGED <<at, charges, finished, statistics, created, lost>>
    BY <1>2 DEF NextGroup
  <2>3. RecordsInv'
    BY <1>t, <2>2 DEF SingleTypes, RecordsInv
  <2>4. CallsInv'
    BY <1>0, <2>1, <2>2 DEF SingleTypes, CallsInv
  <2> QED BY <2>3, <2>4 DEF SingleTypes
<1>3. CASE Step
  <2> DEFINE g == Last(stack)
  <2>1. PICK h, n : /\ Moved(g, h, n, Cardinality(SamplesDue(g)))
                    /\ Stepped(Front(stack), g, h, n, stack', lost, lost')
                    /\ created' = created + n
    BY <1>3, StepCalls
  <2>2. UNCHANGED <<at, perStep, remaining, charges, statistics, finished>> /\ stack # <<>>
    BY <1>3 DEF Step
  <2> HIDE DEF g
  <2>3. h \in GroupSet /\ n \in Nat /\ g \in GroupSet
    BY <2>1 DEF Moved
  <2>4. stack' \in Seq(GroupSet)
    BY <2>1, <2>3 DEF Stepped, Fresh
  <2>5. lost \in [Types -> Nat] /\ invertCarrierType(g.type) \in Types
    <3>1. g.type \in Types
      BY <2>3 DEF GroupSet
    <3> QED BY <3>1, OppositeTypes DEF SingleTypes, CallsInv
  <2>6. lost' \in [Types -> Nat]
    BY <2>1, <2>3, <2>5 DEF Stepped, Loses
  <2>7. created' \in Nat
    BY <2>1, <2>3 DEF SingleTypes, CallsInv
  <2>8. RecordsInv'
    BY <1>t, <2>2 DEF SingleTypes, RecordsInv
  <2>9. CallsInv'
    BY <1>0, <2>2, <2>4, <2>6, <2>7 DEF SingleTypes, CallsInv
  <2> QED BY <2>8, <2>9 DEF SingleTypes
<1>4. CASE Return
  <2> DEFINE g == Last(stack)
             r == Record(g)
             e == [group |-> g, deposit |-> at]
  <2>1. /\ charges' = Append(charges, r) /\ finished' = Append(finished, e)
        /\ UNCHANGED <<at, perStep, remaining, created, lost>>
    BY <1>4 DEF Return
  <2>2. stack # <<>> /\ g \in GroupSet /\ Front(stack) \in Seq(GroupSet)
    BY <1>4, ReturnCalls
  <2>3. at \in DOMAIN deposits /\ at \in Nat
    BY <2>2 DEF SingleTypes, CallsInv
  <2> HIDE DEF g
  <2>4. r \in ChargeSet /\ (~Transient => r.charge = g.charge) /\ r.state = g.state
    <3>1. deposits[at].type \in Types /\ deposits[at].time \in Nat
      <4>1. deposits[at] \in DepositSet
        BY <2>3 DEF SingleTypes, CallsInv
      <4> QED BY <4>1 DEF DepositSet
    <3>2. /\ g.type \in Types /\ g.charge \in Nat /\ g.time \in Nat /\ g.start \in Nat
          /\ g.state \in Fates
      BY <2>2 DEF GroupSet
    <3>3. CASE Transient
      <4>1. r = [type |-> g.type, time |-> g.start + g.time, state |-> g.state]
        BY <3>3 DEF Record, RecordTransient, Now
      <4> HIDE DEF r
      <4> QED BY <3>2, <3>3, <4>1 DEF ChargeSet
    <3>4. CASE ~Transient
      <4>1. r = [type |-> deposits[at].type, charge |-> g.charge,
                 time |-> deposits[at].time + g.time, state |-> g.state]
        BY <3>4 DEF Record, RecordGeneric
      <4> HIDE DEF r
      <4> QED BY <3>1, <3>2, <4>1 DEF ChargeSet
    <3> QED BY <3>3, <3>4
  <2>5. e \in FinishedSet /\ e.group = g
    BY <2>2, <2>3 DEF FinishedSet
  <2> HIDE DEF r, e
  <2>6. RecordsInv'
    <3>1. /\ charges \in Seq(ChargeSet) /\ finished \in Seq(FinishedSet)
          /\ Len(charges) = Len(finished)
          /\ \A i \in 1 .. Len(charges) :
                /\ ~Transient => charges[i].charge = finished[i].group.charge
                /\ charges[i].state = finished[i].group.state
          /\ Transient' <=> Transient
      BY <1>4 DEF Return, Setup, Transient, SingleTypes, RecordsInv, FinishedSet
    <3>2. /\ charges' \in Seq(ChargeSet) /\ finished' \in Seq(FinishedSet)
          /\ Len(charges') = Len(charges) + 1 /\ Len(finished') = Len(finished) + 1
      BY <2>1, <2>4, <2>5, <3>1
    <3>3. ASSUME NEW i \in 1 .. Len(charges')
          PROVE  /\ ~Transient => charges'[i].charge = finished'[i].group.charge
                 /\ charges'[i].state = finished'[i].group.state
      <4>1. CASE i = Len(charges) + 1
        <5>1. charges'[i] = r /\ finished'[i] = e
          BY <2>1, <3>1, <4>1
        <5> QED BY <2>4, <2>5, <5>1
      <4>2. CASE i # Len(charges) + 1
        <5>1. i \in 1 .. Len(charges)
          BY <3>2, <4>2
        <5>2. charges'[i] = charges[i] /\ finished'[i] = finished[i]
          BY <2>1, <3>1, <5>1
        <5> QED BY <3>1, <5>1, <5>2
      <4> QED BY <4>1, <4>2
    <3> QED BY <3>1, <3>2, <3>3 DEF RecordsInv, FinishedSet
  <2>7. stack' \in Seq(GroupSet) /\ statistics' \in CountSet
    <3>1. statistics \in CountSet /\ Counted(g) \in CountSet
      BY <2>2, CountedIs DEF SingleTypes, CallsInv
    <3>2. Plus(statistics, Counted(g)) \in CountSet
      BY <3>1, CountsAre
    <3>3. Front(stack) # <<>> => Front(Front(stack)) \in Seq(GroupSet)
      BY <2>2, FrontLast
    <3> QED BY <1>4, <3>1, <3>2, <3>3, ReturnCalls DEF Rejoined, g
  <2>8. CallsInv'
    BY <1>0, <2>1, <2>2, <2>7 DEF SingleTypes, CallsInv
  <2> QED BY <2>6, <2>8 DEF SingleTypes
<1>5. CASE UNCHANGED propagationVars
  BY <1>5 DEF SingleTypes, RecordsInv, CallsInv, propagationVars, Setup, Transient
<1> QED BY <1>1, <1>2, <1>3, <1>4, <1>5 DEF PropagationNext

\* What a group of the stack and one that finished count for: their carriers of a type.
GroupWeight(type) == [g \in GroupSet |-> IF g.type = type THEN g.charge ELSE 0]
FinalWeight(type) == [r \in FinishedSet |-> IF r.group.type = type THEN r.group.charge ELSE 0]
DepositWeight(list, type) ==
    [i \in DOMAIN list |-> IF list[i].type = type THEN list[i].charge ELSE 0]

\* Of each type, what was recorded, what moves, what remains of the deposit in work and
\* what was lost is what was created and what the deposits up to that one had.
Balance(type, fs, st, list, n, rest, gone, born) ==
    Held(fs, FinalWeight(type)) + Held(st, GroupWeight(type))
        + (IF n > 0 /\ list[n].type = type THEN rest ELSE 0) + gone[type]
    = born + SumOf(DepositWeight(list, type), 1 .. n)

CarriersInv ==
    \A type \in Types, fs \in {finished}, st \in {stack}, list \in {deposits}, n \in {at},
       rest \in {remaining}, gone \in {lost}, born \in {created} :
        Balance(type, fs, st, list, n, rest, gone, born)

\* What the calls returned so far, and what a group counts for at its end.
Returned(k) == [g \in GroupSet |-> g.counts[k]]
FinalAmount(k) == [r \in FinishedSet |-> Amounts(r.group)[k]]

StatisticsInv ==
    \A k \in Kinds, fs \in {finished}, st \in {stack} :
        statistics[k] + Held(st, Returned(k)) = Held(fs, FinalAmount(k))

LEMMA WeightTypes ==
  /\ \A type : /\ GroupWeight(type) \in [GroupSet -> Nat]
               /\ FinalWeight(type) \in [FinishedSet -> Nat]
  /\ \A k \in Kinds : /\ Returned(k) \in [GroupSet -> Nat]
                      /\ FinalAmount(k) \in [FinishedSet -> Nat]
<1>1. /\ \A g \in GroupSet : g.charge \in Nat
      /\ \A g \in GroupSet, k \in Kinds : g.counts[k] \in Nat /\ Amounts(g)[k] \in Nat
  BY CountedIs DEF GroupSet
<1>2. \A r \in FinishedSet : r.group \in GroupSet
  BY DEF FinishedSet
<1>3. \A type : /\ GroupWeight(type) \in [GroupSet -> Nat]
                /\ FinalWeight(type) \in [FinishedSet -> Nat]
  BY <1>1, <1>2 DEF GroupWeight, FinalWeight
<1>4. \A k \in Kinds : /\ Returned(k) \in [GroupSet -> Nat]
                       /\ FinalAmount(k) \in [FinishedSet -> Nat]
  BY <1>1, <1>2 DEF Returned, FinalAmount
<1> QED BY <1>3, <1>4

LEMMA DepositsBefore ==
  ASSUME NEW list \in Seq(DepositSet), NEW type, NEW n \in 0 .. Len(list)
  PROVE  /\ SumOf(DepositWeight(list, type), 1 .. n) \in Nat
         /\ n < Len(list) =>
                SumOf(DepositWeight(list, type), 1 .. (n + 1)) =
                    SumOf(DepositWeight(list, type), 1 .. n)
                        + (IF list[n + 1].type = type THEN list[n + 1].charge ELSE 0)
<1> DEFINE w == DepositWeight(list, type)
           S == 1 .. n
<1>1. /\ n \in Nat /\ Len(list) \in Nat /\ DOMAIN list = 1 .. Len(list)
      /\ \A i \in 1 .. Len(list) : list[i].charge \in Nat
  <2>1. \A i \in 1 .. Len(list) : list[i] \in DepositSet
    OBVIOUS
  <2> QED BY <2>1 DEF DepositSet
<1>2. \A i \in 1 .. Len(list) : /\ w[i] = IF list[i].type = type THEN list[i].charge ELSE 0
                                /\ w[i] \in Nat
  BY <1>1 DEF DepositWeight
<1> HIDE DEF w
<1>3. IsFiniteSet(S) /\ NatOn(w, S)
  BY <1>1, <1>2, FS_Interval DEF NatOn
<1>4. SumOf(w, S) \in Nat
  BY <1>3, SumNat
<1>5. CASE n < Len(list)
  <2> DEFINE z == n + 1
             T == 1 .. (n + 1)
  <2>1. z \in 1 .. Len(list) /\ z \notin S /\ T = S \union {z}
    BY <1>1, <1>5
  <2>2. w[z] \in Nat
    BY <1>2, <2>1
  <2> HIDE DEF S, z, T
  <2>3. SumOf(w, S \union {z}) = w[z] + SumOf(w, S)
    BY <1>3, <2>1, <2>2, SumMore
  <2>4. SumOf(w, T) = w[z] + SumOf(w, S)
    BY <2>1, <2>3
  <2>5. SumOf(w, T) = SumOf(w, S) + w[z]
    BY <1>4, <2>2, <2>4
  <2> QED BY <1>2, <1>4, <2>1, <2>5 DEF w, S, z, T
<1> QED BY <1>4, <1>5 DEF w, S

\* What the stack holds before and after a step.
HeldAfter(w, f, h, n, calls, before, after, opposite) ==
    \/ Held(calls, w) = Held(f, w) + w[h] /\ n = 0 /\ after = before
    \/ /\ after = before
       /\ \E child : /\ Fresh(child, opposite, n) /\ w[child] \in Nat
                     /\ Held(calls, w) = Held(f, w) + w[h] + w[child]
    \/ /\ Held(calls, w) = Held(f, w) + w[h]
       /\ Loses(before, after, opposite, n)

LEMMA StepHeld ==
  ASSUME NEW w \in [GroupSet -> Nat], NEW f, NEW g, NEW h, NEW n, NEW m, Moved(g, h, n, m),
         NEW calls, NEW before, NEW after, Stepped(f, g, h, n, calls, before, after),
         NEW opposite, opposite = invertCarrierType(g.type)
  PROVE  /\ Held(f, w) \in Nat /\ w[g] \in Nat /\ w[h] \in Nat
         /\ HeldAfter(w, f, h, n, calls, before, after, opposite)
<1>1. f \in Seq(GroupSet) /\ g \in GroupSet /\ h \in GroupSet
  BY DEF Stepped, Moved
<1>2. /\ Held(f, w) \in Nat /\ w[g] \in Nat /\ w[h] \in Nat
      /\ Held(Append(f, h), w) = Held(f, w) + w[h] /\ Append(f, h) \in Seq(GroupSet)
  BY <1>1, HeldAppend
<1>3. ASSUME NEW child, Fresh(child, invertCarrierType(g.type), n)
      PROVE  /\ w[child] \in Nat
             /\ Held(Append(Append(f, h), child), w) = Held(f, w) + w[h] + w[child]
  <2>1. child \in GroupSet
    BY <1>3 DEF Fresh
  <2> DEFINE s == Append(f, h)
  <2>2. s \in Seq(GroupSet)
    BY <1>2
  <2> HIDE DEF s
  <2>3. Held(Append(s, child), w) = Held(s, w) + w[child] /\ w[child] \in Nat
    BY <2>1, <2>2, HeldAppend
  <2> QED BY <1>2, <2>3 DEF s
<1> QED BY <1>2, <1>3 DEF Stepped, HeldAfter

\* What the caller gains when a call returns.
Gains(w, g, d) == \A caller, h : Rejoined(caller, h, g) => w[h] = w[caller] + d

LEMMA ReturnHeld ==
  ASSUME SingleTypes, Return, NEW w \in [GroupSet -> Nat], NEW d \in Nat,
         Gains(w, Last(stack), d), NEW calls, calls = stack'
  PROVE  /\ Held(stack, w) = Held(Front(stack), w) + w[Last(stack)]
         /\ Held(Front(stack), w) \in Nat /\ w[Last(stack)] \in Nat
         /\ Held(calls, w) = IF Front(stack) = <<>> THEN 0 ELSE Held(Front(stack), w) + d
<1> DEFINE g == Last(stack)
           f == Front(stack)
<1>1. stack # <<>> /\ stack \in Seq(GroupSet) /\ f \in Seq(GroupSet) /\ g \in GroupSet
  BY ReturnCalls DEF SingleTypes, CallsInv
<1>2. /\ Held(stack, w) = Held(f, w) + w[g] /\ Held(f, w) \in Nat /\ w[g] \in Nat
  BY <1>1, HeldLast
<1>3. CASE f = <<>>
  <2>1. calls = <<>>
    BY <1>3, ReturnCalls
  <2> QED BY <1>2, <1>3, <2>1, HeldEmpty
<1>4. CASE f # <<>>
  <2>1. PICK h : Rejoined(Last(f), h, g) /\ calls = Append(Front(f), h)
    BY <1>4, ReturnCalls
  <2> HIDE DEF f, g
  <2>2. /\ Held(f, w) = Held(Front(f), w) + w[Last(f)] /\ Held(Front(f), w) \in Nat
        /\ w[Last(f)] \in Nat /\ Front(f) \in Seq(GroupSet)
    BY <1>1, <1>4, HeldLast, FrontLast
  <2>3. h \in GroupSet
    BY <2>1 DEF Rejoined
  <2> DEFINE e == Front(f)
  <2>4. e \in Seq(GroupSet)
    BY <2>2
  <2>5. Held(Append(e, h), w) = Held(e, w) + w[h] /\ w[h] \in Nat
    <3> HIDE DEF e
    <3> QED BY <2>3, <2>4, HeldAppend
  <2>6. w[h] = w[Last(f)] + d
    BY <2>1 DEF Gains, g
  <2>7. Held(calls, w) = Held(f, w) + d
    BY <2>1, <2>2, <2>5, <2>6
  <2> QED BY <1>2, <1>4, <2>7 DEF f, g
<1> QED BY <1>3, <1>4

LEMMA CarriersInit == PropagationInit => CarriersInv /\ StatisticsInv
<1> SUFFICES ASSUME PropagationInit PROVE CarriersInv /\ StatisticsInv
  OBVIOUS
<1>1. /\ finished = <<>> /\ stack = <<>> /\ at = 0 /\ created = 0
      /\ \A type \in Types : lost[type] = 0
      /\ \A k \in Kinds : statistics[k] = 0
  BY DEF PropagationInit, NoCounts, Kinds
<1>2. \A w : Held(<<>>, w) = 0 /\ SumOf(w, 1 .. 0) = 0
  <2>1. 1 .. 0 = {}
    OBVIOUS
  <2> QED BY <2>1, HeldEmpty, SumEmpty
<1>3. CarriersInv
  BY <1>1, <1>2 DEF CarriersInv, Balance
<1>4. StatisticsInv
  BY <1>1, <1>2 DEF StatisticsInv
<1> QED BY <1>3, <1>4

\* The sums of the balance are numbers.
LEMMA BalanceTypes ==
  ASSUME SingleTypes, NEW type \in Types
  PROVE  /\ Held(finished, FinalWeight(type)) \in Nat /\ Held(stack, GroupWeight(type)) \in Nat
         /\ SumOf(DepositWeight(deposits, type), 1 .. at) \in Nat
         /\ lost[type] \in Nat /\ created \in Nat /\ remaining \in Nat
<1>1. /\ finished \in Seq(FinishedSet) /\ stack \in Seq(GroupSet)
      /\ deposits \in Seq(DepositSet) /\ at \in 0 .. Len(deposits)
      /\ lost \in [Types -> Nat] /\ created \in Nat /\ remaining \in Nat
  BY DEF SingleTypes, RecordsInv, CallsInv, FinishedSet
<1>2. SumOf(DepositWeight(deposits, type), 1 .. at) \in Nat
  BY <1>1, DepositsBefore
<1>3. Held(finished, FinalWeight(type)) \in Nat /\ Held(stack, GroupWeight(type)) \in Nat
  BY <1>1, WeightTypes, HeldNat
<1> QED BY <1>1, <1>2, <1>3

LEMMA CarriersNext ==
  ASSUME SingleTypes, CarriersInv, [PropagationNext]_propagationVars
  PROVE  CarriersInv'
<1> SUFFICES ASSUME NEW type \in Types, NEW fs, fs = finished', NEW st, st = stack',
                    NEW n, n = at', NEW rest, rest = remaining', NEW gone, gone = lost',
                    NEW born, born = created'
             PROVE  Balance(type, fs, st, deposits, n, rest, gone, born)
  <2>1. deposits' = deposits
    BY DEF PropagationNext, NextDeposit, NextGroup, Step, Return, Setup, propagationVars
  <2> QED BY <2>1 DEF CarriersInv
<1> DEFINE mine(d) == d.type = type
           F == Held(finished, FinalWeight(type))
           S == Held(stack, GroupWeight(type))
           D == SumOf(DepositWeight(deposits, type), 1 .. at)
           w == GroupWeight(type)
<1>1. /\ F + S + (IF at > 0 /\ mine(deposits[at]) THEN remaining ELSE 0) + lost[type]
            = created + D
      /\ F \in Nat /\ S \in Nat /\ D \in Nat
      /\ lost[type] \in Nat /\ created \in Nat /\ remaining \in Nat
  BY BalanceTypes DEF CarriersInv, Balance
<1>2. w \in [GroupSet -> Nat]
  BY WeightTypes
<1>3. lost \in [Types -> Nat] /\ at \in 0 .. Len(deposits) /\ deposits \in Seq(DepositSet)
  BY DEF SingleTypes, CallsInv
<1>4. CASE NextDeposit
  <2> DEFINE d == deposits[at + 1]
  <2>1. /\ fs = finished /\ st = stack /\ n = at + 1 /\ born = created /\ remaining = 0
        /\ at < Len(deposits)
        /\ \/ gone = [lost EXCEPT ![d.type] = @ + d.charge] /\ rest = 0
           \/ gone = lost /\ rest = d.charge
    BY <1>4 DEF NextDeposit
  <2>2. SumOf(DepositWeight(deposits, type), 1 .. n)
            = D + (IF mine(d) THEN d.charge ELSE 0)
    BY <1>3, <2>1, DepositsBefore
  <2>3. d.type \in Types /\ d.charge \in Nat /\ n > 0
    <3>1. d \in DepositSet /\ at + 1 > 0
      BY <1>3, <2>1
    <3> QED BY <2>1, <3>1 DEF DepositSet
  <2>4. gone[type] + (IF mine(d) THEN rest ELSE 0)
            = lost[type] + (IF mine(d) THEN d.charge ELSE 0)
        /\ gone[type] \in Nat /\ rest \in Nat
    <3> HIDE DEF d
    <3>1. CASE gone = [lost EXCEPT ![d.type] = @ + d.charge] /\ rest = 0
      <4>1. gone[type] = IF mine(d) THEN lost[type] + d.charge ELSE lost[type]
        BY <1>3, <2>3, <3>1
      <4> QED BY <1>1, <2>3, <3>1, <4>1
    <3>2. CASE gone = lost /\ rest = d.charge
      BY <1>1, <2>3, <3>2
    <3> QED BY <2>1, <3>1, <3>2
  <2>5. F + S + lost[type] = created + D
    BY <1>1, <2>1
  <2>6. F + S + (IF mine(d) THEN rest ELSE 0) + gone[type]
            = created + (D + (IF mine(d) THEN d.charge ELSE 0))
    <3> HIDE DEF d, F, S, D, mine
    <3> QED BY <1>1, <2>3, <2>4, <2>5
  <2> QED BY <2>1, <2>2, <2>3, <2>6 DEF Balance
<1>5. CASE NextGroup
  <2>1. PICK k, g : /\ k \in Nat /\ rest = remaining - k
                    /\ Fresh(g, deposits[at].type, k) /\ st = <<g>>
    BY <1>5, GroupCalls
  <2>2. fs = finished /\ stack = <<>> /\ n = at /\ gone = lost /\ born = created
        /\ at \in DOMAIN deposits
    BY <1>5, GroupCalls DEF NextGroup
  <2>3. S = 0
    BY <2>2, HeldEmpty
  <2>4. g \in GroupSet /\ g.type = deposits[at].type /\ g.charge = k
    BY <2>1 DEF Fresh
  <2>5. Held(st, w) = w[g]
    <3>1. Append(<<>>, g) = <<g>> /\ <<>> \in Seq(GroupSet)
      OBVIOUS
    <3> HIDE DEF w
    <3>2. Held(Append(<<>>, g), w) = Held(<<>>, w) + w[g] /\ w[g] \in Nat
      BY <1>2, <2>4, <3>1, HeldAppend
    <3>3. Held(<<>>, w) = 0
      BY HeldEmpty
    <3> QED BY <2>1, <3>1, <3>2, <3>3
  <2>6. w[g] = IF mine(deposits[at]) THEN k ELSE 0
    BY <2>4 DEF GroupWeight
  <2>7. at > 0
    BY <1>3, <2>2
  <2>8. F + w[g] + (IF at > 0 /\ mine(deposits[at]) THEN rest ELSE 0) + lost[type]
            = created + D
    <3> HIDE DEF F, S, D, mine, w
    <3> QED BY <1>1, <2>1, <2>3, <2>6, <2>7
  <2> QED BY <2>2, <2>5, <2>8 DEF Balance
<1>6. CASE Step
  <2> DEFINE g == Last(stack)
             f == Front(stack)
             m == Cardinality(SamplesDue(g))
  <2>1. PICK h, k : Moved(g, h, k, m) /\ Stepped(f, g, h, k, st, lost, gone) /\ born = created + k
    BY <1>6, StepCalls
  <2>2. fs = finished /\ n = at /\ rest = remaining /\ stack # <<>> /\ stack \in Seq(GroupSet)
    BY <1>6 DEF Step, SingleTypes, CallsInv
  <2> HIDE DEF g, f, m
  <2>3. S = Held(f, w) + w[g]
    <3> HIDE DEF w
    <3>1. Held(stack, w) = Held(f, w) + w[g]
      BY <1>2, <2>2, HeldLast DEF f, g
    <3> QED BY <3>1 DEF w
  <2> DEFINE opposite == invertCarrierType(g.type)
  <2>4. /\ g.type \in Types /\ opposite \in Types /\ h.type = g.type /\ k \in Nat
        /\ opposite # g.type /\ (type = g.type \/ type = opposite)
        /\ opposite = invertCarrierType(g.type)
    <3>1. g.type \in Types /\ h.type = g.type /\ k \in Nat
      BY <2>1 DEF Moved, GroupSet
    <3> QED BY <3>1, OppositeTypes
  <2>5. w[h] = w[g] + (IF type = g.type THEN k ELSE 0)
    <3>1. g.charge \in Nat /\ h.charge = g.charge + k /\ h \in GroupSet /\ g \in GroupSet
      BY <2>1 DEF Moved, GroupSet
    <3> QED BY <2>4, <3>1 DEF GroupWeight
  <2>6. \A child : Fresh(child, opposite, k) => w[child] = IF type = opposite THEN k ELSE 0
    BY DEF Fresh, GroupWeight
  <2> HIDE DEF w, opposite
  <2>7. /\ Held(f, w) \in Nat /\ w[g] \in Nat /\ w[h] \in Nat
        /\ HeldAfter(w, f, h, k, st, lost, gone, opposite)
    BY <1>2, <2>1, <2>4, StepHeld
  <2>10. /\ Held(f, w) \in Nat /\ w[g] \in Nat /\ w[h] \in Nat /\ k \in Nat
         /\ lost[type] \in Nat /\ S = Held(f, w) + w[g]
         /\ w[h] + (IF type = opposite THEN k ELSE 0) = w[g] + k
    BY <1>1, <2>3, <2>4, <2>5, <2>7
  <2>8. /\ Held(st, w) \in Nat /\ gone[type] \in Nat
        /\ Held(st, w) + gone[type] = S + lost[type] + k
    <3>1. CASE Held(st, w) = Held(f, w) + w[h] /\ k = 0 /\ gone = lost
      BY <2>10, <3>1
    <3>2. CASE /\ gone = lost
               /\ \E child : /\ Fresh(child, opposite, k) /\ w[child] \in Nat
                             /\ Held(st, w) = Held(f, w) + w[h] + w[child]
      <4>1. PICK child : /\ Fresh(child, opposite, k) /\ w[child] \in Nat
                         /\ Held(st, w) = Held(f, w) + w[h] + w[child]
        BY <3>2
      <4>2. w[child] = IF type = opposite THEN k ELSE 0
        BY <2>6, <4>1
      <4> QED BY <2>10, <3>2, <4>1, <4>2
    <3>3. CASE /\ Held(st, w) = Held(f, w) + w[h]
               /\ Loses(lost, gone, opposite, k)
      <4>1. gone[type] = lost[type] + (IF type = opposite THEN k ELSE 0)
        BY <1>1, <1>3, <2>4, <3>3 DEF Loses
      <4> QED BY <2>10, <3>3, <4>1
    <3> QED BY <2>7, <3>1, <3>2, <3>3 DEF HeldAfter
  <2>9. F + Held(st, w) + (IF at > 0 /\ mine(deposits[at]) THEN remaining ELSE 0) + gone[type]
            = (created + k) + D
    <3> HIDE DEF F, S, D, mine
    <3> QED BY <1>1, <2>4, <2>8
  <2> QED BY <2>1, <2>2, <2>9 DEF Balance, w
<1>7. CASE Return
  <2> DEFINE g == Last(stack)
             f == Front(stack)
             e == [group |-> g, deposit |-> at]
  <2>1. /\ fs = Append(finished, e) /\ n = at /\ rest = remaining /\ gone = lost
        /\ born = created
    BY <1>7 DEF Return
  <2>2. g \in GroupSet
    BY <1>7, ReturnCalls
  <2> HIDE DEF g
  <2>3. e \in FinishedSet /\ FinalWeight(type)[e] = w[g]
    <3>1. e \in FinishedSet /\ e.group = g
      BY <1>3, <2>2 DEF FinishedSet
    <3> HIDE DEF e
    <3> QED BY <2>2, <3>1 DEF FinalWeight, GroupWeight
  <2>4. Held(fs, FinalWeight(type)) = F + w[g]
    <3> DEFINE v == FinalWeight(type)
    <3>1. v \in [FinishedSet -> Nat] /\ finished \in Seq(FinishedSet)
      BY WeightTypes DEF SingleTypes, RecordsInv, FinishedSet
    <3> HIDE DEF v, e
    <3>2. Held(Append(finished, e), v) = Held(finished, v) + v[e]
      BY <2>3, <3>1, HeldAppend
    <3> QED BY <2>1, <2>3, <3>2 DEF v
  <2>5. Gains(w, g, 0)
    <3>1. \A caller, h : Rejoined(caller, h, g) => w[h] = w[caller] /\ w[caller] \in Nat
      BY DEF Rejoined, GroupWeight, GroupSet
    <3> QED BY <3>1 DEF Gains
  <2>6. /\ S = Held(f, w) + w[g] /\ Held(f, w) \in Nat /\ w[g] \in Nat
        /\ Held(st, w) = IF f = <<>> THEN 0 ELSE Held(f, w) + 0
    <3> HIDE DEF w
    <3> QED BY <1>2, <1>7, <2>5, ReturnHeld DEF g, w
  <2>7. f = <<>> => Held(f, w) = 0
    BY HeldEmpty
  <2>8. (F + w[g]) + Held(st, w) + (IF at > 0 /\ mine(deposits[at]) THEN remaining ELSE 0)
            + lost[type] = created + D
    <3> HIDE DEF F, S, D, mine, w, f
    <3> QED BY <1>1, <2>6, <2>7
  <2> QED BY <2>1, <2>4, <2>8 DEF Balance
<1>8. CASE UNCHANGED propagationVars
  BY <1>8 DEF CarriersInv, propagationVars, Setup
<1> QED BY <1>4, <1>5, <1>6, <1>7, <1>8 DEF PropagationNext

LEMMA StatisticsNext ==
  ASSUME SingleTypes, StatisticsInv, [PropagationNext]_propagationVars
  PROVE  StatisticsInv'
<1> SUFFICES ASSUME NEW k \in Kinds, NEW fs, fs = finished', NEW st, st = stack',
                    NEW total, total = statistics'
             PROVE  total[k] + Held(st, Returned(k)) = Held(fs, FinalAmount(k))
  BY DEF StatisticsInv
<1> DEFINE F == Held(finished, FinalAmount(k))
           S == Held(stack, Returned(k))
           w == Returned(k)
<1>1. /\ w \in [GroupSet -> Nat] /\ FinalAmount(k) \in [FinishedSet -> Nat]
      /\ stack \in Seq(GroupSet) /\ finished \in Seq(FinishedSet) /\ statistics \in CountSet
  <2>1. stack \in Seq(GroupSet) /\ finished \in Seq(FinishedSet) /\ statistics \in CountSet
    BY DEF SingleTypes, CallsInv, RecordsInv, FinishedSet
  <2> QED BY <2>1, WeightTypes
<1>2. statistics[k] + S = F /\ statistics[k] \in Nat /\ S \in Nat /\ F \in Nat
  BY <1>1, HeldNat, CountsAre DEF StatisticsInv
<1>3. \A g \in GroupSet : g.counts = NoCounts => w[g] = 0
  BY DEF Returned, NoCounts, Kinds
<1>4. CASE NextDeposit
  BY <1>2, <1>4 DEF NextDeposit
<1>5. CASE NextGroup
  <2>1. PICK n, g : Fresh(g, deposits[at].type, n) /\ st = <<g>>
    BY <1>5, GroupCalls
  <2>2. g \in GroupSet /\ w[g] = 0
    BY <1>3, <2>1 DEF Fresh
  <2>3. fs = finished /\ total = statistics /\ stack = <<>>
    BY <1>5 DEF NextGroup
  <2>4. Held(st, w) = 0
    <3>1. Append(<<>>, g) = <<g>> /\ <<>> \in Seq(GroupSet)
      OBVIOUS
    <3> HIDE DEF w
    <3>2. Held(Append(<<>>, g), w) = Held(<<>>, w) + w[g]
      BY <1>1, <2>2, <3>1, HeldAppend
    <3>3. Held(<<>>, w) = 0
      BY HeldEmpty
    <3> QED BY <2>1, <2>2, <3>1, <3>2, <3>3
  <2>5. S = 0
    BY <2>3, HeldEmpty
  <2> QED BY <1>2, <2>3, <2>4, <2>5
<1>6. CASE Step
  <2> DEFINE g == Last(stack)
             f == Front(stack)
             m == Cardinality(SamplesDue(g))
             opposite == invertCarrierType(g.type)
  <2>1. PICK h, n : Moved(g, h, n, m) /\ Stepped(f, g, h, n, st, lost, lost')
    BY <1>6, StepCalls
  <2>2. fs = finished /\ total = statistics /\ stack # <<>>
    BY <1>6 DEF Step
  <2> HIDE DEF g, f, m
  <2>3. w[h] = w[g]
    BY <2>1 DEF Moved, Returned
  <2>4. \A child : Fresh(child, opposite, n) => w[child] = 0
    BY <1>3 DEF Fresh
  <2>5. opposite = invertCarrierType(g.type)
    OBVIOUS
  <2> HIDE DEF w, opposite
  <2>6. S = Held(f, w) + w[g]
    BY <1>1, <2>2, HeldLast DEF f, g, w
  <2>7. /\ Held(f, w) \in Nat /\ w[g] \in Nat /\ w[h] \in Nat
        /\ HeldAfter(w, f, h, n, st, lost, lost', opposite)
    <3> DEFINE gone == lost'
    <3>1. Stepped(f, g, h, n, st, lost, gone)
      BY <2>1
    <3> HIDE DEF gone
    <3>2. /\ Held(f, w) \in Nat /\ w[g] \in Nat /\ w[h] \in Nat
          /\ HeldAfter(w, f, h, n, st, lost, gone, opposite)
      BY <1>1, <2>1, <2>5, <3>1, StepHeld
    <3> QED BY <3>2 DEF gone
  <2>8. Held(st, w) = Held(f, w) + w[h]
    <3>1. ASSUME NEW child, Fresh(child, opposite, n),
                 Held(st, w) = Held(f, w) + w[h] + w[child]
          PROVE  Held(st, w) = Held(f, w) + w[h]
      BY <2>4, <2>7, <3>1
    <3> QED BY <2>7, <3>1 DEF HeldAfter
  <2>9. Held(st, w) = S
    BY <2>3, <2>6, <2>8
  <2> QED BY <1>2, <2>2, <2>9 DEF w
<1>7. CASE Return
  <2> DEFINE g == Last(stack)
             f == Front(stack)
             e == [group |-> g, deposit |-> at]
             d == Counted(g)[k]
             a == Amounts(g)[k]
  <2>1. fs = Append(finished, e)
    BY <1>7 DEF Return
  <2>2. g \in GroupSet
    BY <1>7, ReturnCalls
  <2>3. f = <<>> => total = Plus(statistics, Counted(g))
    BY <1>7, ReturnCalls
  <2>4. f # <<>> => total = statistics
    BY <1>7, ReturnCalls
  <2> HIDE DEF g, f
  <2>5. d = w[g] + a /\ d \in Nat /\ a \in Nat /\ w[g] \in Nat
    BY <2>2, CountedIs DEF Returned
  <2>6. f = <<>> => total[k] = statistics[k] + d
    BY <1>1, <2>2, <2>3, CountedIs, CountsAre
  <2>7. e \in FinishedSet /\ FinalAmount(k)[e] = a
    <3>1. e \in FinishedSet /\ e.group = g
      BY <2>2 DEF FinishedSet, SingleTypes, CallsInv
    <3> HIDE DEF e
    <3> QED BY <3>1 DEF FinalAmount
  <2>8. Held(fs, FinalAmount(k)) = F + a
    <3> DEFINE v == FinalAmount(k)
    <3>1. v \in [FinishedSet -> Nat]
      BY <1>1
    <3> HIDE DEF v, e
    <3>2. Held(Append(finished, e), v) = Held(finished, v) + v[e]
      BY <1>1, <2>7, <3>1, HeldAppend
    <3> QED BY <2>1, <2>7, <3>2 DEF v
  <2>9. Gains(w, g, d)
    <3> SUFFICES ASSUME NEW caller, NEW h, Rejoined(caller, h, g) PROVE w[h] = w[caller] + d
      BY DEF Gains
    <3>1. caller \in GroupSet /\ h \in GroupSet /\ h.counts = Plus(caller.counts, Counted(g))
      BY DEF Rejoined
    <3>2. caller.counts \in CountSet /\ Counted(g) \in CountSet
      BY <2>2, <3>1, CountedIs DEF GroupSet
    <3>3. h.counts[k] = caller.counts[k] + Counted(g)[k]
      BY <3>1, <3>2, CountsAre
    <3> QED BY <3>1, <3>3 DEF Returned
  <2> HIDE DEF w, d, a
  <2>10. /\ S = Held(f, w) + w[g] /\ Held(f, w) \in Nat
         /\ Held(st, w) = IF f = <<>> THEN 0 ELSE Held(f, w) + d
    BY <1>1, <1>7, <2>5, <2>9, ReturnHeld DEF g, f, w
  <2>11. f = <<>> => Held(f, w) = 0
    BY HeldEmpty
  <2>12. total[k] + Held(st, w) = F + a
    <3> HIDE DEF F, S
    <3>1. CASE f = <<>>
      <4>1. total[k] = statistics[k] + d /\ Held(st, w) = 0 /\ S = w[g]
        BY <2>5, <2>6, <2>10, <2>11, <3>1
      <4> QED BY <1>2, <2>5, <4>1
    <3>2. CASE f # <<>>
      <4>1. total[k] = statistics[k] /\ Held(st, w) = Held(f, w) + d
            /\ S = Held(f, w) + w[g] /\ Held(f, w) \in Nat
        BY <2>4, <2>10, <3>2
      <4> DEFINE r == Held(f, w)
                 q == w[g]
                 s == statistics[k]
      <4>2. r \in Nat /\ q \in Nat /\ s \in Nat /\ a \in Nat
        BY <1>2, <2>5, <4>1
      <4>3. s + (r + q) = F
        BY <1>2, <4>1
      <4>4. d = q + a
        BY <2>5
      <4> HIDE DEF r, q, s
      <4>5. s + (r + d) = F + a
        BY <4>2, <4>3, <4>4
      <4> QED BY <4>1, <4>5 DEF r, s
    <3> QED BY <3>1, <3>2
  <2> QED BY <2>8, <2>12 DEF w
<1>8. CASE UNCHANGED propagationVars
  BY <1>2, <1>8 DEF propagationVars
<1> QED BY <1>4, <1>5, <1>6, <1>7, <1>8 DEF PropagationNext

\* Once run() dispatches the message, the invariants are the claims.
LEMMA SingleAccounts ==
  ASSUME SingleTypes, CarriersInv, StatisticsInv
  PROVE  AccountsExact
<1>1. /\ finished \in Seq(FinishedSet) /\ charges \in Seq(ChargeSet)
      /\ DOMAIN finished = 1 .. Len(finished) /\ DOMAIN charges = DOMAIN finished
      /\ deposits \in Seq(DepositSet) /\ statistics \in CountSet
  BY DEF SingleTypes, CallsInv, RecordsInv, FinishedSet
<1>2. \A i \in DOMAIN finished : /\ finished[i] \in FinishedSet /\ finished[i].group \in GroupSet
                                 /\ ~Transient => charges[i].charge = finished[i].group.charge
                                 /\ charges[i].state = finished[i].group.state
                                 /\ ChargeAt[i] = finished[i].group.charge
  <2>1. \A i \in DOMAIN finished : /\ ~Transient => charges[i].charge = finished[i].group.charge
                                   /\ charges[i].state = finished[i].group.state
    BY <1>1 DEF SingleTypes, RecordsInv
  <2>2. \A i \in DOMAIN finished : finished[i] \in FinishedSet
    BY <1>1
  <2> QED BY <1>1, <2>1, <2>2 DEF FinishedSet, ChargeAt
<1>3. ASSUME Done, NEW type \in Types
      PROVE  SumOver(OfType(type), ChargeAt) + lost[type] =
                 created + SumOver(DepositsOf(type), DepositAt)
  <2>1. at = Len(deposits) /\ remaining = 0 /\ stack = <<>>
    BY <1>3 DEF Done
  <2>2. SumOver(OfType(type), ChargeAt) = Held(finished, FinalWeight(type))
    <3> DEFINE w == FinalWeight(type)
    <3>1. w \in [FinishedSet -> Nat]
      BY WeightTypes
    <3>2. OfType(type) \in SUBSET (DOMAIN finished)
      BY DEF OfType
    <3>3. \A i \in DOMAIN finished : w[finished[i]] = IF i \in OfType(type) THEN ChargeAt[i] ELSE 0
      BY <1>2 DEF FinalWeight, OfType
    <3> HIDE DEF w
    <3>4. SumOver(OfType(type), ChargeAt) = Held(finished, w)
      BY <1>1, <3>1, <3>2, <3>3, SumOverPlaces
    <3> QED BY <3>4 DEF w
  <2>3. SumOver(DepositsOf(type), DepositAt) = SumOf(DepositWeight(deposits, type), 1 .. at)
    <3> DEFINE w == DepositWeight(deposits, type)
               S == 1 .. at
               T == DepositsOf(type)
    <3>1. S = DOMAIN deposits /\ IsFiniteSet(S) /\ T \in SUBSET S
      BY <1>1, <2>1, FS_Interval DEF DepositsOf
    <3>2. \A i \in S : /\ w[i] = IF i \in T THEN DepositAt[i] ELSE 0
                       /\ DepositAt[i] \in Nat
      <4>1. \A i \in S : deposits[i].charge \in Nat
        <5>1. \A i \in DOMAIN deposits : deposits[i] \in DepositSet
          BY <1>1
        <5> HIDE DEF S
        <5> QED BY <3>1, <5>1 DEF DepositSet
      <4> QED BY <3>1, <4>1 DEF DepositWeight, DepositsOf, DepositAt
    <3>3. IsFiniteSet(T) /\ NatOn(DepositAt, T)
      <4> HIDE DEF S, T
      <4> QED BY <3>1, <3>2, FS_Subset DEF NatOn
    <3> HIDE DEF S, T, w
    <3>4. SumOf(DepositAt, T) = SumOf(w, S)
      BY <3>1, <3>2, <3>3, SumPart
    <3>5. SumOver(T, DepositAt) = SumOf(w, S)
      BY <3>3, <3>4, SumOverIsSum
    <3> QED BY <3>5 DEF S, T, w
  <2>4. Held(stack, GroupWeight(type)) = 0
    BY <2>1, HeldEmpty
  <2>5. /\ Held(finished, FinalWeight(type)) \in Nat
        /\ SumOf(DepositWeight(deposits, type), 1 .. at) \in Nat
        /\ lost[type] \in Nat /\ created \in Nat
    BY BalanceTypes
  <2>6. Held(finished, FinalWeight(type)) + lost[type]
            = created + SumOf(DepositWeight(deposits, type), 1 .. at)
    BY <2>1, <2>4, <2>5 DEF CarriersInv, Balance
  <2> QED BY <2>2, <2>3, <2>6
<1>4. ASSUME Done
      PROVE  /\ statistics = [propagated |-> SumOver(DOMAIN finished, ChargeAt),
                              recombined |-> SumOver(InState("recombined"), ChargeAt),
                              trapped |-> SumOver(InState("trapped"), ChargeAt)]
             /\ ~Transient => statistics.propagated = SumOver(DOMAIN charges, MessageCharge)
  <2>1. \A k \in Kinds : statistics[k] = Held(finished, FinalAmount(k))
    <3> TAKE k \in Kinds
    <3>1. Held(stack, Returned(k)) = 0
      BY <1>4, HeldEmpty DEF Done
    <3>2. statistics[k] \in Nat
      BY <1>1, CountsAre
    <3> QED BY <3>1, <3>2 DEF StatisticsInv
  <2>2. ASSUME NEW k \in Kinds, NEW T \in SUBSET (DOMAIN finished),
               \A i \in DOMAIN finished : Amounts(finished[i].group)[k]
                                              = IF i \in T THEN ChargeAt[i] ELSE 0
        PROVE  SumOver(T, ChargeAt) = statistics[k]
    <3> DEFINE w == FinalAmount(k)
    <3>1. w \in [FinishedSet -> Nat]
      BY WeightTypes
    <3>2. \A i \in DOMAIN finished : w[finished[i]] = IF i \in T THEN ChargeAt[i] ELSE 0
      BY <1>2, <2>2 DEF FinalAmount
    <3> HIDE DEF w
    <3>3. SumOver(T, ChargeAt) = Held(finished, w)
      BY <1>1, <3>1, <3>2, SumOverPlaces
    <3> QED BY <2>1, <3>3 DEF w
  <2>3. SumOver(DOMAIN finished, ChargeAt) = statistics["propagated"]
    <3> DEFINE T == DOMAIN finished
    <3>1. \A i \in DOMAIN finished : Amounts(finished[i].group)["propagated"]
                                         = IF i \in T THEN ChargeAt[i] ELSE 0
      BY <1>1, <1>2 DEF Amounts, Kinds
    <3>2. T \in SUBSET (DOMAIN finished) /\ "propagated" \in Kinds
      BY <1>1 DEF Kinds
    <3> HIDE DEF T
    <3>3. SumOver(T, ChargeAt) = statistics["propagated"]
      BY <2>2, <3>1, <3>2
    <3> QED BY <3>3 DEF T
  <2>4. SumOver(InState("recombined"), ChargeAt) = statistics["recombined"]
    <3> DEFINE T == InState("recombined")
    <3>1. \A i \in DOMAIN finished : Amounts(finished[i].group)["recombined"]
                                         = IF i \in T THEN ChargeAt[i] ELSE 0
      BY <1>1, <1>2 DEF Amounts, Kinds, InState
    <3>2. T \in SUBSET (DOMAIN finished) /\ "recombined" \in Kinds
      BY <1>1 DEF Kinds, InState
    <3> HIDE DEF T
    <3>3. SumOver(T, ChargeAt) = statistics["recombined"]
      BY <2>2, <3>1, <3>2
    <3> QED BY <3>3 DEF T
  <2>5. SumOver(InState("trapped"), ChargeAt) = statistics["trapped"]
    <3> DEFINE T == InState("trapped")
    <3>1. \A i \in DOMAIN finished : Amounts(finished[i].group)["trapped"]
                                         = IF i \in T THEN ChargeAt[i] ELSE 0
      BY <1>1, <1>2 DEF Amounts, Kinds, InState
    <3>2. T \in SUBSET (DOMAIN finished) /\ "trapped" \in Kinds
      BY <1>1 DEF Kinds, InState
    <3> HIDE DEF T
    <3>3. SumOver(T, ChargeAt) = statistics["trapped"]
      BY <2>2, <3>1, <3>2
    <3> QED BY <3>3 DEF T
  <2>6. statistics = [propagated |-> statistics["propagated"],
                      recombined |-> statistics["recombined"],
                      trapped |-> statistics["trapped"]]
    BY <1>1 DEF CountSet
  <2>7. ASSUME ~Transient PROVE MessageCharge = ChargeAt
    BY <1>1, <1>2, <2>7 DEF MessageCharge, ChargeAt
  <2> QED BY <1>1, <2>3, <2>4, <2>5, <2>6, <2>7
<1> QED BY <1>3, <1>4 DEF AccountsExact, CarriersAccounted, StatisticsExact

\* Of each type of carriers, what the groups had at their ends and what nobody propagates
\* is what was deposited and created, and the statistics returned through all levels of
\* propagate() are those of the groups of the message (AccountsExact), whatever multiplies,
\* recombines or is trapped and however deep the calls go.
THEOREM AccountsExactHolds == PropagationSpec => []AccountsExact
<1>1. PropagationInit => SingleTypes /\ CarriersInv /\ StatisticsInv
  BY SingleInit, CarriersInit
<1>2. SingleTypes /\ CarriersInv /\ StatisticsInv /\ [PropagationNext]_propagationVars
          => (SingleTypes /\ CarriersInv /\ StatisticsInv)'
  BY SingleNext, CarriersNext, StatisticsNext
<1>3. SingleTypes /\ CarriersInv /\ StatisticsInv => AccountsExact
  BY SingleAccounts
<1> QED BY <1>1, <1>2, <1>3, PTL DEF PropagationSpec

-----------------------------------------------------------------------------
(* TransientPropagation: the samples of the summary.  A group on the stack  *)
(* is in the samples before its `next' with what its path says, and         *)
(* FinalSamples is what ContributionAt says of those from there on.         *)

\* The steps of a group from t on.
Later(g, t) == {i \in DOMAIN g.path : g.path[i].time >= t}

\* What the steps so far contribute to sample k.
RecordedAt(g, t) ==
    IF t < g.start \/ Later(g, t) = {} THEN 0 ELSE g.path[Min(Later(g, t))].charge

\* The running index of a group says which samples are settled.
Indexed(g) ==
    \A k \in Samples : k < g.next <=> k * SummaryStep < g.start \/ Later(g, k * SummaryStep) # {}
AllIndexed(calls) == \A i \in DOMAIN calls : Indexed(calls[i])

RecordedWeight(k, type) ==
    [g \in GroupSet |-> IF g.type = type THEN RecordedAt(g, k * SummaryStep) ELSE 0]
ContributionWeight(k, type) ==
    [r \in FinishedSet |->
        IF r.group.type = type THEN ContributionAt(r.group, k * SummaryStep) ELSE 0]

\* Sample k has of each type what the groups that finished contribute to it and what
\* those that move recorded.
Sampled(b, k, type, fs, st) ==
    b[k][type] = Held(fs, ContributionWeight(k, type)) + Held(st, RecordedWeight(k, type))

SamplesInv ==
    Transient =>
        \A b \in {bins}, fs \in {finished}, st \in {stack} :
            /\ AllIndexed(st) /\ b \in [Samples -> [Types -> Nat]]
            /\ \A k \in Samples, type \in Types : Sampled(b, k, type, fs, st)

LEMMA SampleNumbers ==
  /\ SummaryStep \in Nat \ {0}
  /\ \E l \in Nat : Samples = 0 .. l
  /\ \A k \in Samples : k \in Nat /\ k * SummaryStep \in Nat
<1>1. IntegrationTime \in Nat \ {0} /\ SummaryStep \in Nat \ {0}
  BY CarriersAssumption
<1> DEFINE l == (IntegrationTime - 1) \div SummaryStep
<1>2. l \in Nat
  BY <1>1
<1>3. Samples = 0 .. l
  BY DEF Samples
<1> HIDE DEF l
<1>4. \A k \in Samples : k \in Nat
  BY <1>2, <1>3
<1> QED BY <1>1, <1>2, <1>3, <1>4

\* The samples from p on which are due at time n are consecutive.
DueAt(s, l, p, n) == {k \in 0 .. l : p <= k /\ k * s <= n}

LEMMA DueCount ==
  ASSUME NEW s \in Nat \ {0}, NEW l \in Nat, NEW p \in Nat, NEW n \in Nat
  PROVE  \A k \in 0 .. l : k < p + Cardinality(DueAt(s, l, p, n)) <=> k < p \/ k * s <= n
<1> DEFINE due == DueAt(s, l, p, n)
           q == n \div s
           u == IF q <= l THEN q ELSE l
<1>1. q \in Nat /\ q * s <= n /\ n < (q + 1) * s
  OBVIOUS
<1> HIDE DEF q, due
<1>2. \A k \in Nat : k * s <= n <=> k <= q
  <2> TAKE k \in Nat
  <2>1. CASE k <= q
    <3>1. k * s <= q * s
      BY <2>1, <1>1
    <3> QED BY <1>1, <2>1, <3>1
  <2>2. CASE k >= q + 1
    <3>1. k * s >= (q + 1) * s
      BY <2>2, <1>1
    <3>2. k * s \in Nat /\ (q + 1) * s \in Nat
      BY <1>1
    <3>3. ~(k * s <= n)
      <4> DEFINE x == k * s
                 y == (q + 1) * s
      <4>1. x \in Nat /\ y \in Nat /\ x >= y /\ n < y
        BY <1>1, <3>1, <3>2
      <4> HIDE DEF x, y
      <4>2. ~(x <= n)
        BY <4>1
      <4> QED BY <4>2 DEF x
    <3> QED BY <1>1, <2>2, <3>3
  <2> QED BY <1>1, <2>1, <2>2
<1>3. u \in Nat /\ due = p .. u
  <2>1. \A k : k \in due <=> k \in 0 .. l /\ p <= k /\ k <= q
    BY <1>2 DEF DueAt, due
  <2> QED BY <1>1, <2>1
<1>4. Cardinality(due) = IF p > u THEN 0 ELSE u - p + 1
  <2>1. u \in Int
    BY <1>3
  <2> HIDE DEF u
  <2>2. Cardinality(p .. u) = IF p > u THEN 0 ELSE u - p + 1
    BY <2>1, FS_Interval
  <2> QED BY <1>3, <2>2
<1>5. \A k \in 0 .. l : k < p + Cardinality(due) <=> k < p \/ k <= q
  BY <1>1, <1>3, <1>4
<1> QED BY <1>2, <1>5 DEF due

LEMMA CeilBelow ==
  ASSUME NEW a \in Nat, NEW s \in Nat \ {0}
  PROVE  \A k \in Nat : k < Ceil(a, s) <=> k * s < a
<1> DEFINE c == Ceil(a, s)
<1>1. c \in Nat /\ a <= c * s /\ ((c - 1) * s < a \/ c = 0)
  BY CeilBounds
<1> HIDE DEF c
<1> SUFFICES ASSUME NEW k \in Nat PROVE k < c <=> k * s < a
  BY DEF c
<1>2. CASE k < c
  <2>1. c # 0 /\ k <= c - 1 /\ c - 1 \in Nat
    BY <1>1, <1>2
  <2> DEFINE b == c - 1
  <2>2. b \in Nat /\ k <= b /\ b * s < a
    BY <1>1, <2>1
  <2> HIDE DEF b
  <2>3. k * s <= b * s /\ k * s \in Nat /\ b * s \in Nat
    BY <2>2
  <2> DEFINE x == k * s
             y == b * s
  <2>4. x \in Nat /\ y \in Nat /\ x <= y /\ y < a
    BY <2>2, <2>3
  <2> HIDE DEF x, y
  <2>5. x < a
    BY <2>4
  <2> QED BY <1>2, <2>5 DEF x
<1>3. CASE k >= c
  <2>1. c * s <= k * s /\ k * s \in Nat /\ c * s \in Nat
    BY <1>1, <1>3
  <2> DEFINE x == k * s
             y == c * s
  <2>2. x \in Nat /\ y \in Nat /\ y <= x /\ a <= y
    BY <1>1, <2>1
  <2> HIDE DEF x, y
  <2>3. ~(x < a)
    BY <2>2
  <2> QED BY <1>1, <1>3, <2>3 DEF x
<1> QED BY <1>1, <1>2, <1>3

\* What a group recorded is a charge of its path.
LEMMA RecordedNat ==
  ASSUME NEW g \in GroupSet, NEW t
  PROVE  /\ RecordedAt(g, t) \in Nat
         /\ ContributionAt(g, t) \in Nat
         /\ Later(g, t) # {} => /\ Min(Later(g, t)) \in Later(g, t)
                                /\ \A i \in Later(g, t) : Min(Later(g, t)) <= i
<1> DEFINE L == Later(g, t)
<1>1. /\ g.path \in Seq([time : Nat, charge : Nat]) /\ g.charge \in Nat
      /\ DOMAIN g.path = 1 .. Len(g.path) /\ Len(g.path) \in Nat
  BY DEF GroupSet
<1>2. \A i \in DOMAIN g.path : g.path[i].charge \in Nat /\ g.path[i].time \in Nat /\ i \in Nat
  <2> DEFINE X == [time : Nat, charge : Nat]
             p == g.path
  <2>1. p \in Seq(X) /\ DOMAIN p = 1 .. Len(p)
    BY <1>1
  <2> HIDE DEF X, p
  <2>2. \A i \in 1 .. Len(p) : p[i] \in X
    BY <2>1, ElementOfSeq
  <2> QED BY <1>1, <2>1, <2>2 DEF X, p
<1>3. L \subseteq DOMAIN g.path /\ L \subseteq Nat
  BY <1>2 DEF Later
<1>4. L # {} => Min(L) \in L /\ \A i \in L : Min(L) <= i
  <2> HIDE DEF L
  <2> QED BY <1>3, MinNat
<1>5. L = {i \in DOMAIN g.path : g.path[i].time >= t}
  BY DEF Later
<1> HIDE DEF L
<1>6. L # {} => g.path[Min(L)].charge \in Nat
  BY <1>2, <1>3, <1>4
<1>7. RecordedAt(g, t) = IF t < g.start \/ L = {} THEN 0 ELSE g.path[Min(L)].charge
  BY DEF RecordedAt, L
<1>8. ContributionAt(g, t) =
        IF t < g.start THEN 0 ELSE IF L # {} THEN g.path[Min(L)].charge
        ELSE IF g.state \in {"recombined", "trapped"} \/ t < Now(g) THEN 0 ELSE g.charge
  BY <1>5 DEF ContributionAt
<1> QED BY <1>1, <1>4, <1>6, <1>7, <1>8 DEF L

LEMMA SampleWeights ==
  \A k, type : /\ RecordedWeight(k, type) \in [GroupSet -> Nat]
               /\ ContributionWeight(k, type) \in [FinishedSet -> Nat]
<1> TAKE k, type
<1>1. \A g \in GroupSet : /\ RecordedAt(g, k * SummaryStep) \in Nat
                          /\ ContributionAt(g, k * SummaryStep) \in Nat
  BY RecordedNat
<1>2. \A r \in FinishedSet : r.group \in GroupSet
  BY DEF FinishedSet
<1> QED BY <1>1, <1>2 DEF RecordedWeight, ContributionWeight

\* A step at time u with charge c: the samples up to it are settled.
LEMMA LaterAppend ==
  ASSUME NEW g \in GroupSet, NEW h \in GroupSet, NEW t \in Nat, NEW u \in Nat, NEW c \in Nat,
         h.path = Append(g.path, [time |-> u, charge |-> c]), h.start = g.start
  PROVE  /\ Later(h, t) # {} <=> Later(g, t) # {} \/ t <= u
         /\ RecordedAt(h, t) = IF t < g.start \/ Later(g, t) # {} THEN RecordedAt(g, t)
                               ELSE IF t <= u THEN c ELSE 0
<1> DEFINE n == Len(g.path)
           L == Later(g, t)
           M == Later(h, t)
           e == [time |-> u, charge |-> c]
           p == g.path
           q == h.path
<1>1. p \in Seq([time : Nat, charge : Nat]) /\ e \in [time : Nat, charge : Nat]
  BY DEF GroupSet
<1>2. /\ n \in Nat /\ DOMAIN p = 1 .. n /\ DOMAIN q = 1 .. (n + 1) /\ q[n + 1] = e
      /\ \A i \in 1 .. n : q[i] = p[i]
  <2> HIDE DEF e
  <2> QED BY <1>1 DEF e
<1>3. /\ \A i : i \in L <=> i \in 1 .. n /\ p[i].time >= t
      /\ \A i : i \in M <=> i \in 1 .. (n + 1) /\ q[i].time >= t
  BY <1>2 DEF Later
<1>4. e.time = u /\ e.charge = c
  OBVIOUS
<1>5. /\ RecordedAt(g, t) = IF t < g.start \/ L = {} THEN 0 ELSE p[Min(L)].charge
      /\ RecordedAt(h, t) = IF t < g.start \/ M = {} THEN 0 ELSE q[Min(M)].charge
  BY DEF RecordedAt
<1>6. L # {} => Min(L) \in L /\ \A i \in L : Min(L) <= i
  BY RecordedNat
<1>7. M # {} => Min(M) \in M /\ \A i \in M : Min(M) <= i
  BY RecordedNat
<1> HIDE DEF L, M, e, p, q, n
<1>8. \A i : i \in M <=> i \in L \/ (i = n + 1 /\ t <= u)
  <2> TAKE i
  <2>1. CASE i = n + 1
    BY <1>2, <1>3, <1>4, <2>1
  <2>2. CASE i # n + 1
    <3>1. i \in 1 .. (n + 1) <=> i \in 1 .. n
      BY <1>2, <2>2
    <3> QED BY <1>2, <1>3, <2>2, <3>1
  <2> QED BY <2>1, <2>2
<1>9. M # {} <=> L # {} \/ t <= u
  BY <1>8
<1>10. L # {} => Min(M) = Min(L) /\ q[Min(M)] = p[Min(L)]
  <2> SUFFICES ASSUME L # {} PROVE Min(M) = Min(L) /\ q[Min(M)] = p[Min(L)]
    OBVIOUS
  <2>1. Min(L) \in 1 .. n /\ Min(L) \in M
    BY <1>3, <1>6, <1>8
  <2>2. Min(M) \in M /\ Min(M) <= Min(L)
    BY <1>7, <2>1
  <2>3. Min(M) \in L
    BY <1>2, <1>8, <2>1, <2>2
  <2>4. Min(L) <= Min(M) /\ Min(M) \in 1 .. n
    BY <1>3, <1>6, <2>3
  <2>5. Min(M) = Min(L)
    BY <1>2, <2>1, <2>2, <2>4
  <2> QED BY <1>2, <2>1, <2>5
<1>11. L = {} /\ t <= u => q[Min(M)] = e
  BY <1>2, <1>7, <1>8
<1> QED BY <1>4, <1>5, <1>9, <1>10, <1>11 DEF L, M

\* The group after a step is in the samples that were due, with what it had before.
LEMMA MovedSamples ==
  ASSUME NEW g, NEW h, NEW n, Indexed(g), Moved(g, h, n, Cardinality(DueSamples(g)))
  PROVE  /\ Indexed(h)
         /\ \A k \in Samples :
                RecordedAt(h, k * SummaryStep) = RecordedAt(g, k * SummaryStep)
                    + (IF k \in DueSamples(g) THEN g.charge ELSE 0)
<1> DEFINE u == Now(g)
           c == g.charge
           due == DueSamples(g)
<1>1. /\ g \in GroupSet /\ h \in GroupSet /\ h.start = g.start
      /\ h.next = g.next + Cardinality(due)
      /\ h.path = Append(g.path, [time |-> u, charge |-> c])
  BY DEF Moved
<1>2. u \in Nat /\ c \in Nat /\ g.next \in Nat /\ g.start \in Nat
  BY <1>1 DEF GroupSet, Now
<1>3. PICK l \in Nat : Samples = 0 .. l
  BY SampleNumbers
<1>4. SummaryStep \in Nat \ {0} /\ \A k \in Samples : k \in Nat /\ k * SummaryStep \in Nat
  BY SampleNumbers
<1>5. due = {k \in 0 .. l : g.next <= k /\ k * SummaryStep <= u}
  BY <1>3 DEF DueSamples
<1> HIDE DEF u, c, due
<1>6. \A k \in Samples : k < g.next + Cardinality(due) <=> k < g.next \/ k * SummaryStep <= u
  <2> DEFINE p == g.next
  <2>1. p \in Nat /\ due = DueAt(SummaryStep, l, p, u)
    BY <1>2, <1>5 DEF DueAt
  <2> HIDE DEF p
  <2>2. \A k \in 0 .. l : k < p + Cardinality(due) <=> k < p \/ k * SummaryStep <= u
    BY <1>2, <1>4, <2>1, DueCount
  <2> QED BY <1>3, <2>2 DEF p
<1>7. \A t \in Nat :
        /\ Later(h, t) # {} <=> Later(g, t) # {} \/ t <= u
        /\ RecordedAt(h, t) = IF t < g.start \/ Later(g, t) # {} THEN RecordedAt(g, t)
                              ELSE IF t <= u THEN c ELSE 0
  BY <1>1, <1>2, LaterAppend
<1>8. Indexed(h)
  <2> SUFFICES ASSUME NEW k \in Samples
               PROVE  k < h.next <=> k * SummaryStep < h.start \/ Later(h, k * SummaryStep) # {}
    BY DEF Indexed
  <2>1. k < g.next <=> k * SummaryStep < g.start \/ Later(g, k * SummaryStep) # {}
    BY DEF Indexed
  <2> DEFINE t == k * SummaryStep
  <2>2. t \in Nat
    BY <1>4
  <2>3. k < h.next <=> k < g.next \/ t <= u
    BY <1>1, <1>6
  <2>4. Later(h, t) # {} <=> Later(g, t) # {} \/ t <= u
    BY <1>7, <2>2
  <2> QED BY <1>1, <2>1, <2>3, <2>4
<1>9. ASSUME NEW k \in Samples
      PROVE  RecordedAt(h, k * SummaryStep) = RecordedAt(g, k * SummaryStep)
                 + (IF k \in due THEN c ELSE 0)
  <2> DEFINE t == k * SummaryStep
  <2>1. k < g.next <=> t < g.start \/ Later(g, t) # {}
    BY DEF Indexed
  <2>2. t \in Nat /\ k \in Nat
    BY <1>4
  <2>3. k \in due <=> ~(k < g.next) /\ t <= u
    BY <1>2, <1>3, <1>5, <2>2
  <2>4. ~(t < g.start \/ Later(g, t) # {}) => RecordedAt(g, t) = 0
    BY DEF RecordedAt
  <2>5. RecordedAt(g, t) \in Nat
    BY <1>1, RecordedNat
  <2>6. RecordedAt(h, t) = IF t < g.start \/ Later(g, t) # {} THEN RecordedAt(g, t)
                           ELSE IF t <= u THEN c ELSE 0
    BY <1>7, <2>2
  <2> HIDE DEF t
  <2>7. RecordedAt(h, t) = RecordedAt(g, t) + (IF k \in due THEN c ELSE 0)
    <3>1. CASE t < g.start \/ Later(g, t) # {}
      BY <2>1, <2>3, <2>5, <2>6, <3>1
    <3>2. CASE ~(t < g.start \/ Later(g, t) # {})
      BY <1>2, <2>1, <2>3, <2>4, <2>6, <3>2
    <3> QED BY <3>1, <3>2
  <2> QED BY <2>7 DEF t
<1> QED BY <1>8, <1>9 DEF c, due

\* What the end of a group adds is the rest of its contribution.
LEMMA FinalContribution ==
  ASSUME NEW g \in GroupSet, Indexed(g), NEW k \in Samples
  PROVE  ContributionAt(g, k * SummaryStep) = RecordedAt(g, k * SummaryStep)
             + (IF k \in FinalSamples(g) THEN g.charge ELSE 0)
<1> DEFINE t == k * SummaryStep
           L == Later(g, t)
           c == g.charge
           settled == g.state \in {"recombined", "trapped"}
<1>1. t \in Nat /\ k \in Nat /\ g.next \in Nat /\ c \in Nat /\ Now(g) \in Nat /\ g.start \in Nat
  BY SampleNumbers DEF GroupSet, Now
<1>2. k < g.next <=> t < g.start \/ L # {}
  BY DEF Indexed
<1>3. k \in FinalSamples(g) <=> ~settled /\ ~(k < g.next) /\ ~(t < Now(g))
  <2>1. k \in FinalSamples(g) <=> ~settled /\ g.next <= k /\ Now(g) <= t
    BY DEF FinalSamples
  <2> QED BY <1>1, <2>1
<1>4. ContributionAt(g, t) = IF t < g.start THEN 0 ELSE IF L # {} THEN g.path[Min(L)].charge
                             ELSE IF settled \/ t < Now(g) THEN 0 ELSE c
  BY DEF ContributionAt, Later
<1>5. RecordedAt(g, t) = IF t < g.start \/ L = {} THEN 0 ELSE g.path[Min(L)].charge
  BY DEF RecordedAt
<1>6. RecordedAt(g, t) \in Nat
  BY RecordedNat
<1> HIDE DEF t, L, settled, c
<1>7. CASE t < g.start \/ L # {}
  <2>1. ContributionAt(g, t) = RecordedAt(g, t) /\ k \notin FinalSamples(g)
    BY <1>2, <1>3, <1>4, <1>5, <1>7
  <2> QED BY <1>6, <2>1 DEF t
<1>8. CASE ~(t < g.start \/ L # {})
  <2>1. /\ RecordedAt(g, t) = 0
        /\ ContributionAt(g, t) = IF k \in FinalSamples(g) THEN c ELSE 0
    BY <1>2, <1>3, <1>4, <1>5, <1>8
  <2> QED BY <1>1, <2>1 DEF t, c
<1> QED BY <1>7, <1>8

LEMMA FreshSamples ==
  ASSUME NEW child, NEW type, NEW n, Fresh(child, type, n)
  PROVE  /\ child \in GroupSet /\ Indexed(child)
         /\ \A t : RecordedAt(child, t) = 0
<1>1. child \in GroupSet /\ child.path = <<>> /\ child.next = Ceil(child.start, SummaryStep)
  BY DEF Fresh
<1>2. child.start \in Nat
  BY <1>1 DEF GroupSet
<1>3. \A t : Later(child, t) = {}
  BY <1>1 DEF Later
<1>4. \A k \in Nat : k < Ceil(child.start, SummaryStep) <=> k * SummaryStep < child.start
  BY <1>2, SampleNumbers, CeilBelow
<1> QED BY <1>1, <1>3, <1>4, SampleNumbers DEF Indexed, RecordedAt

LEMMA RejoinedSamples ==
  ASSUME NEW caller, NEW h, NEW g, Rejoined(caller, h, g)
  PROVE  /\ Indexed(caller) => Indexed(h)
         /\ \A t : RecordedAt(h, t) = RecordedAt(caller, t)
<1>1. h.path = caller.path /\ h.start = caller.start /\ h.next = caller.next
  BY DEF Rejoined
<1>2. \A t : Later(h, t) = Later(caller, t)
  BY <1>1 DEF Later
<1> QED BY <1>1, <1>2 DEF Indexed, RecordedAt

\* All calls of the stack are in order when the innermost is, and those before it.
LEMMA IndexedAppend ==
  ASSUME NEW s \in Seq(GroupSet), NEW g \in GroupSet
  PROVE  AllIndexed(Append(s, g)) <=> AllIndexed(s) /\ Indexed(g)
<1> DEFINE t == Append(s, g)
           n == Len(s) + 1
<1>1. /\ DOMAIN t = (DOMAIN s) \union {n} /\ t[n] = g
      /\ \A i \in DOMAIN s : t[i] = s[i]
  OBVIOUS
<1> HIDE DEF t, n
<1>2. AllIndexed(t) <=> AllIndexed(s) /\ Indexed(g)
  BY <1>1 DEF AllIndexed
<1> QED BY <1>2 DEF t

LEMMA AddToBins ==
  ASSUME NEW b \in [Samples -> [Types -> Nat]], NEW T, NEW g \in GroupSet
  PROVE  /\ AddTo(b, T, g) \in [Samples -> [Types -> Nat]]
         /\ \A k \in Samples, type \in Types :
                AddTo(b, T, g)[k][type] =
                    b[k][type] + (IF g.type = type /\ k \in T THEN g.charge ELSE 0)
<1> DEFINE p == g.type
           c == g.charge
           row(k) == IF k \in T THEN [b[k] EXCEPT ![p] = @ + c] ELSE b[k]
<1>1. p \in Types /\ c \in Nat
  BY DEF GroupSet
<1> HIDE DEF p, c
<1>2. ASSUME NEW k \in Samples
      PROVE  /\ row(k) \in [Types -> Nat]
             /\ \A type \in Types :
                    row(k)[type] = b[k][type] + (IF p = type /\ k \in T THEN c ELSE 0)
  <2> DEFINE r == b[k]
  <2>1. r \in [Types -> Nat]
    OBVIOUS
  <2> HIDE DEF r
  <2>2. /\ [r EXCEPT ![p] = @ + c] \in [Types -> Nat]
        /\ \A type \in Types : [r EXCEPT ![p] = @ + c][type] = r[type] + (IF p = type THEN c ELSE 0)
    BY <1>1, <2>1
  <2>3. \A type \in Types : r[type] \in Nat
    BY <2>1
  <2> QED BY <2>1, <2>2, <2>3 DEF r
<1>3. AddTo(b, T, g) = [k \in Samples |-> row(k)]
  BY DEF AddTo, p, c
<1> HIDE DEF row
<1> QED BY <1>2, <1>3 DEF p, c

LEMMA SamplesInit == PropagationInit => SamplesInv
<1> SUFFICES ASSUME PropagationInit PROVE SamplesInv
  OBVIOUS
<1>1. /\ stack = <<>> /\ finished = <<>>
      /\ bins = [k \in Samples |-> [t \in Types |-> 0]]
  BY DEF PropagationInit
<1>2. AllIndexed(<<>>)
  BY DEF AllIndexed
<1>3. bins \in [Samples -> [Types -> Nat]]
      /\ \A k \in Samples, type \in Types : bins[k][type] = 0
  BY <1>1
<1>4. \A k \in Samples, type \in Types : Sampled(bins, k, type, <<>>, <<>>)
  BY <1>3, HeldEmpty DEF Sampled
<1> QED BY <1>1, <1>2, <1>3, <1>4 DEF SamplesInv

LEMMA SamplesStep ==
  ASSUME SingleTypes, SamplesInv, Transient, Step,
         NEW st, st = stack', NEW b, b = bins'
  PROVE  /\ AllIndexed(st) /\ b \in [Samples -> [Types -> Nat]]
         /\ \A k \in Samples, type \in Types : Sampled(b, k, type, finished, st)
<1> DEFINE g == Last(stack)
           f == Front(stack)
           due == DueSamples(g)
           m == Cardinality(due)
           opposite == invertCarrierType(g.type)
<1>1. stack # <<>> /\ stack \in Seq(GroupSet)
  BY StepCalls DEF SingleTypes, CallsInv
<1>2. f \in Seq(GroupSet) /\ stack = Append(f, g)
  BY <1>1, FrontLast
<1>3. SamplesDue(g) = due
  BY DEF SamplesDue
<1>4. PICK h, n : Moved(g, h, n, m) /\ Stepped(f, g, h, n, st, lost, lost')
  BY <1>3, StepCalls
<1>5. b = AddTo(bins, due, g)
  BY <1>3, StepCalls
<1>6. /\ AllIndexed(stack) /\ bins \in [Samples -> [Types -> Nat]]
      /\ \A k \in Samples, type \in Types : Sampled(bins, k, type, finished, stack)
  BY DEF SamplesInv
<1> HIDE DEF g, f
<1>7. g \in GroupSet /\ h \in GroupSet
  BY <1>4 DEF Moved
<1>8. AllIndexed(f) /\ Indexed(g)
  BY <1>2, <1>6, <1>7, IndexedAppend
<1>9. /\ Indexed(h)
      /\ \A k \in Samples :
             RecordedAt(h, k * SummaryStep) = RecordedAt(g, k * SummaryStep)
                 + (IF k \in due THEN g.charge ELSE 0)
  BY <1>4, <1>8, MovedSamples
<1> HIDE DEF due, m
<1>10. AllIndexed(st)
  <2>1. AllIndexed(Append(f, h))
    BY <1>2, <1>7, <1>8, <1>9, IndexedAppend
  <2>2. ASSUME NEW child, Fresh(child, invertCarrierType(g.type), n)
        PROVE  AllIndexed(Append(Append(f, h), child))
    <3> DEFINE s == Append(f, h)
    <3>1. s \in Seq(GroupSet)
      BY <1>2, <1>7
    <3>2. child \in GroupSet /\ Indexed(child)
      BY <2>2, FreshSamples
    <3> HIDE DEF s
    <3>3. AllIndexed(s)
      BY <2>1 DEF s
    <3>4. AllIndexed(Append(s, child))
      BY <3>1, <3>2, <3>3, IndexedAppend
    <3> QED BY <3>4 DEF s
  <2> QED BY <1>4, <2>1, <2>2 DEF Stepped
<1>11. /\ b \in [Samples -> [Types -> Nat]]
       /\ \A k \in Samples, type \in Types :
              b[k][type] = bins[k][type] + (IF g.type = type /\ k \in due THEN g.charge ELSE 0)
  BY <1>5, <1>6, <1>7, AddToBins
<1>12. ASSUME NEW k \in Samples, NEW type \in Types
       PROVE  Sampled(b, k, type, finished, st)
  <2> DEFINE w == RecordedWeight(k, type)
             F == Held(finished, ContributionWeight(k, type))
             a == IF g.type = type /\ k \in due THEN g.charge ELSE 0
             after == lost'
  <2>1. w \in [GroupSet -> Nat]
    BY SampleWeights
  <2>2. /\ w[h] = w[g] + a /\ a \in Nat
    <3>1. h.type = g.type /\ g.charge \in Nat /\ RecordedAt(g, k * SummaryStep) \in Nat
      BY <1>4, <1>7, RecordedNat DEF Moved, GroupSet
    <3>2. RecordedAt(h, k * SummaryStep) = RecordedAt(g, k * SummaryStep)
              + (IF k \in due THEN g.charge ELSE 0)
      BY <1>9
    <3> QED BY <1>7, <3>1, <3>2 DEF RecordedWeight
  <2>3. \A child : Fresh(child, opposite, n) => w[child] = 0
    BY FreshSamples DEF RecordedWeight
  <2>4. opposite = invertCarrierType(g.type) /\ Stepped(f, g, h, n, st, lost, after)
    BY <1>4
  <2>5. bins[k][type] = F + Held(stack, w) /\ bins[k][type] \in Nat
    BY <1>6 DEF Sampled
  <2>6. b[k][type] = bins[k][type] + a
    BY <1>11
  <2>7. F \in Nat
    <3>1. ContributionWeight(k, type) \in [FinishedSet -> Nat] /\ finished \in Seq(FinishedSet)
      BY SampleWeights DEF SingleTypes, RecordsInv, FinishedSet
    <3> QED BY <3>1, HeldNat
  <2> HIDE DEF w, F, a, after, opposite
  <2>8. /\ Held(f, w) \in Nat /\ w[g] \in Nat /\ w[h] \in Nat
        /\ HeldAfter(w, f, h, n, st, lost, after, opposite)
    BY <1>4, <2>1, <2>4, StepHeld
  <2>9. Held(st, w) = Held(f, w) + w[h]
    <3>1. ASSUME NEW child, Fresh(child, opposite, n),
                 Held(st, w) = Held(f, w) + w[h] + w[child]
          PROVE  Held(st, w) = Held(f, w) + w[h]
      BY <2>3, <2>8, <3>1
    <3> QED BY <2>8, <3>1 DEF HeldAfter
  <2>10. Held(stack, w) = Held(f, w) + w[g]
    BY <1>1, <2>1, HeldLast DEF f, g
  <2> DEFINE x == Held(f, w)
             y == w[g]
             z == w[h]
             old == bins[k][type]
             new == b[k][type]
  <2>11. /\ x \in Nat /\ y \in Nat /\ F \in Nat /\ a \in Nat
         /\ z = y + a /\ old = F + (x + y) /\ new = old + a
    BY <2>2, <2>5, <2>6, <2>7, <2>8, <2>10
  <2> HIDE DEF x, y, z, old, new
  <2>12. new = F + (x + z)
    BY <2>11
  <2> QED BY <2>9, <2>12 DEF Sampled, x, z, new, F, w
<1> QED BY <1>10, <1>11, <1>12

LEMMA SamplesReturn ==
  ASSUME SingleTypes, SamplesInv, Transient, Return,
         NEW st, st = stack', NEW b, b = bins', NEW fs, fs = finished'
  PROVE  /\ AllIndexed(st) /\ b \in [Samples -> [Types -> Nat]]
         /\ \A k \in Samples, type \in Types : Sampled(b, k, type, fs, st)
<1> DEFINE g == Last(stack)
           f == Front(stack)
           ending == FinalSamples(g)
           e == [group |-> g, deposit |-> at]
<1>1. stack # <<>> /\ stack \in Seq(GroupSet)
  BY ReturnCalls DEF SingleTypes, CallsInv
<1>2. f \in Seq(GroupSet) /\ g \in GroupSet /\ stack = Append(f, g)
  BY <1>1, FrontLast
<1>3. b = AddTo(bins, ending, g) /\ fs = Append(finished, e)
  BY DEF Return
<1>4. \/ f = <<>> /\ st = <<>>
      \/ f # <<>> /\ \E h : Rejoined(Last(f), h, g) /\ st = Append(Front(f), h)
  BY ReturnCalls
<1>5. /\ AllIndexed(stack) /\ bins \in [Samples -> [Types -> Nat]]
      /\ \A k \in Samples, type \in Types : Sampled(bins, k, type, finished, stack)
  BY DEF SamplesInv
<1>6. at \in Nat /\ finished \in Seq(FinishedSet)
  BY DEF SingleTypes, CallsInv, RecordsInv, FinishedSet
<1>7. \A w \in [GroupSet -> Nat] : Gains(w, g, 0) =>
        /\ Held(stack, w) = Held(f, w) + w[g]
        /\ Held(f, w) \in Nat /\ w[g] \in Nat
        /\ Held(st, w) = IF f = <<>> THEN 0 ELSE Held(f, w) + 0
  BY ReturnHeld
<1>8. e \in FinishedSet /\ e.group = g
  BY <1>2, <1>6 DEF FinishedSet
<1> HIDE DEF g, f, ending, e
<1>9. AllIndexed(f) /\ Indexed(g)
  BY <1>2, <1>5, IndexedAppend
<1>10. AllIndexed(st)
  <2>1. CASE f = <<>> /\ st = <<>>
    BY <2>1 DEF AllIndexed
  <2>2. CASE f # <<>> /\ \E h : Rejoined(Last(f), h, g) /\ st = Append(Front(f), h)
    <3>1. PICK h : Rejoined(Last(f), h, g) /\ st = Append(Front(f), h)
      BY <2>2
    <3> DEFINE c == Last(f)
               r == Front(f)
    <3>2. c \in GroupSet /\ r \in Seq(GroupSet) /\ f = Append(r, c) /\ Rejoined(c, h, g)
      BY <1>2, <2>2, <3>1, FrontLast
    <3>3. st = Append(r, h) /\ h \in GroupSet
      BY <3>1 DEF Rejoined
    <3> HIDE DEF c, r
    <3>4. AllIndexed(r) /\ Indexed(c)
      BY <1>9, <3>2, IndexedAppend
    <3>5. Indexed(h)
      BY <3>2, <3>4, RejoinedSamples
    <3> QED BY <3>2, <3>3, <3>4, <3>5, IndexedAppend
  <2> QED BY <1>4, <2>1, <2>2
<1>11. /\ b \in [Samples -> [Types -> Nat]]
       /\ \A k \in Samples, type \in Types :
              b[k][type] = bins[k][type] + (IF g.type = type /\ k \in ending THEN g.charge ELSE 0)
  BY <1>2, <1>3, <1>5, AddToBins
<1>12. ASSUME NEW k \in Samples, NEW type \in Types
       PROVE  Sampled(b, k, type, fs, st)
  <2> DEFINE w == RecordedWeight(k, type)
             v == ContributionWeight(k, type)
             a == IF g.type = type /\ k \in ending THEN g.charge ELSE 0
  <2>1. w \in [GroupSet -> Nat] /\ v \in [FinishedSet -> Nat]
    BY SampleWeights
  <2>2. v[e] = w[g] + a /\ a \in Nat
    <3>1. /\ g.charge \in Nat /\ RecordedAt(g, k * SummaryStep) \in Nat
      BY <1>2, RecordedNat DEF GroupSet
    <3>2. ContributionAt(g, k * SummaryStep) = RecordedAt(g, k * SummaryStep)
              + (IF k \in ending THEN g.charge ELSE 0)
      BY <1>2, <1>9, FinalContribution DEF ending
    <3> QED BY <1>2, <1>8, <3>1, <3>2 DEF RecordedWeight, ContributionWeight
  <2>3. Gains(w, g, 0)
    <3> SUFFICES ASSUME NEW caller, NEW h, Rejoined(caller, h, g) PROVE w[h] = w[caller] + 0
      BY DEF Gains
    <3>1. /\ caller \in GroupSet /\ h \in GroupSet /\ h.type = caller.type
      BY DEF Rejoined
    <3>2. RecordedAt(h, k * SummaryStep) = RecordedAt(caller, k * SummaryStep)
      BY RejoinedSamples
    <3>3. w[h] = w[caller] /\ w[caller] \in Nat
      BY <2>1, <3>1, <3>2 DEF RecordedWeight
    <3> QED BY <3>3
  <2>4. bins[k][type] = Held(finished, v) + Held(stack, w)
    BY <1>5 DEF Sampled
  <2>5. b[k][type] = bins[k][type] + a
    BY <1>11
  <2> HIDE DEF w, v, a
  <2>6. /\ Held(fs, v) = Held(finished, v) + v[e] /\ Held(finished, v) \in Nat
    BY <1>3, <1>6, <1>8, <2>1, HeldAppend
  <2>7. /\ Held(stack, w) = Held(f, w) + w[g]
        /\ Held(f, w) \in Nat /\ w[g] \in Nat
        /\ Held(st, w) = IF f = <<>> THEN 0 ELSE Held(f, w) + 0
    BY <1>7, <2>1, <2>3
  <2>8. f = <<>> => Held(f, w) = 0
    BY HeldEmpty
  <2>9. Held(st, w) = Held(f, w)
    BY <2>7, <2>8
  <2> DEFINE F == Held(finished, v)
             x == Held(f, w)
             y == w[g]
             z == v[e]
             old == bins[k][type]
             new == b[k][type]
  <2>10. /\ x \in Nat /\ y \in Nat /\ F \in Nat /\ a \in Nat
         /\ z = y + a /\ old = F + (x + y) /\ new = old + a
    BY <2>2, <2>4, <2>5, <2>6, <2>7
  <2> HIDE DEF F, x, y, z, old, new
  <2>11. new = (F + z) + x
    BY <2>10
  <2> QED BY <2>6, <2>9, <2>11 DEF Sampled, x, z, new, F, w, v
<1> QED BY <1>10, <1>11, <1>12

LEMMA SamplesNext ==
  ASSUME SingleTypes, SamplesInv, [PropagationNext]_propagationVars
  PROVE  SamplesInv'
<1>0. module' = module
  BY DEF PropagationNext, NextDeposit, NextGroup, Step, Return, Setup, propagationVars
<1> SUFFICES ASSUME Transient, NEW b, b = bins', NEW fs, fs = finished', NEW st, st = stack'
             PROVE  /\ AllIndexed(st) /\ b \in [Samples -> [Types -> Nat]]
                    /\ \A k \in Samples, type \in Types : Sampled(b, k, type, fs, st)
  BY <1>0 DEF SamplesInv, Transient
<1>1. /\ AllIndexed(stack) /\ bins \in [Samples -> [Types -> Nat]]
      /\ \A k \in Samples, type \in Types : Sampled(bins, k, type, finished, stack)
  BY DEF SamplesInv
<1>2. CASE NextDeposit
  BY <1>1, <1>2 DEF NextDeposit
<1>3. CASE NextGroup
  <2>1. PICK n, g : Fresh(g, deposits[at].type, n) /\ st = <<g>>
    BY <1>3, GroupCalls
  <2>2. stack = <<>> /\ fs = finished /\ b = bins
    BY <1>3 DEF NextGroup
  <2>3. g \in GroupSet /\ Indexed(g) /\ \A t : RecordedAt(g, t) = 0
    BY <2>1, FreshSamples
  <2>4. st = Append(<<>>, g) /\ <<>> \in Seq(GroupSet)
    BY <2>1
  <2>5. AllIndexed(st)
    BY <1>1, <2>2, <2>3, <2>4, IndexedAppend
  <2>6. \A k, type : Held(st, RecordedWeight(k, type)) = Held(stack, RecordedWeight(k, type))
    <3> TAKE k, type
    <3> DEFINE w == RecordedWeight(k, type)
    <3>1. w \in [GroupSet -> Nat] /\ w[g] = 0
      BY <2>3, SampleWeights DEF RecordedWeight
    <3> HIDE DEF w
    <3>2. Held(Append(<<>>, g), w) = Held(<<>>, w) + w[g]
      BY <2>3, <2>4, <3>1, HeldAppend
    <3>3. Held(<<>>, w) = 0
      BY HeldEmpty
    <3>4. Held(st, w) = Held(stack, w)
      BY <2>2, <2>4, <3>1, <3>2, <3>3
    <3> QED BY <3>4 DEF w
  <2> QED BY <1>1, <2>2, <2>5, <2>6 DEF Sampled
<1>4. CASE Step
  <2>1. fs = finished
    BY <1>4 DEF Step
  <2> QED BY <1>4, <2>1, SamplesStep
<1>5. CASE Return
  BY <1>5, SamplesReturn
<1>6. CASE UNCHANGED propagationVars
  BY <1>1, <1>6 DEF propagationVars
<1> QED BY <1>2, <1>3, <1>4, <1>5, <1>6 DEF PropagationNext

LEMMA SamplesExact ==
  ASSUME SingleTypes, SamplesInv
  PROVE  SummaryExact
<1> SUFFICES ASSUME Done, Transient, NEW k \in Samples, NEW type \in Types
             PROVE  bins[k][type] = SumOver(OfType(type),
                        [i \in DOMAIN finished |->
                            ContributionAt(finished[i].group, k * SummaryStep)])
  BY DEF SummaryExact
<1> DEFINE v == ContributionWeight(k, type)
           e == [i \in DOMAIN finished |-> ContributionAt(finished[i].group, k * SummaryStep)]
           T == OfType(type)
<1>1. bins[k][type] = Held(finished, v) + 0
  <2>1. Held(stack, RecordedWeight(k, type)) = 0
    BY HeldEmpty DEF Done
  <2> QED BY <2>1 DEF SamplesInv, Sampled
<1>2. v \in [FinishedSet -> Nat] /\ finished \in Seq(FinishedSet)
  BY SampleWeights DEF SingleTypes, RecordsInv, FinishedSet
<1>3. T \in SUBSET (DOMAIN finished)
  BY DEF OfType
<1>4. \A i \in DOMAIN finished : v[finished[i]] = IF i \in T THEN e[i] ELSE 0
  <2>1. \A i \in DOMAIN finished : finished[i] \in FinishedSet
    <3> HIDE DEF v
    <3> QED BY <1>2
  <2> QED BY <2>1 DEF ContributionWeight, OfType
<1> HIDE DEF v, e, T
<1>5. SumOver(T, e) = Held(finished, v) /\ Held(finished, v) \in Nat
  BY <1>2, <1>3, <1>4, SumOverPlaces, HeldNat
<1> QED BY <1>1, <1>5 DEF e, T

\* In TransientPropagation every sample of the summary holds each group of the event
\* once, with the charge it had then (SummaryExact), whatever the deposits, the lengths
\* of the steps, the multiplication and the times for which carriers are trapped.
THEOREM SummaryExactHolds == PropagationSpec => []SummaryExact
<1>1. PropagationInit => SingleTypes /\ SamplesInv
  BY SingleInit, SamplesInit
<1>2. SingleTypes /\ SamplesInv /\ [PropagationNext]_propagationVars
          => (SingleTypes /\ SamplesInv)'
  BY SingleNext, SamplesNext
<1>3. SingleTypes /\ SamplesInv => SummaryExact
  BY SamplesExact
<1> QED BY <1>1, <1>2, <1>3, PTL DEF PropagationSpec
=============================================================================

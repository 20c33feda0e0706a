----------------------- MODULE InteractivePropagation -----------------------
(***************************************************************************)
(* One event of the InteractivePropagation module: the deposits are        *)
(* divided into groups of charge carriers, and propagate_together() moves  *)
(* all groups in outer steps of equal length, each group by its own clock, *)
(* while the groups feel each other's Coulomb field.  A state after each   *)
(* step of a group.  Forces, positions and probabilities are abstracted:   *)
(* a group feels a set of sources, and what its step leads to is free.     *)
(* Times are doubles, in units of the smallest one: their sums and         *)
(* differences are rounded, only fmod() and comparisons are exact.         *)
(***************************************************************************)
EXTENDS Carriers, FiniteSetsExt

CONSTANTS
    Settings,           \* settings of the module: a set of records
    Timestep,           \* timestep, an even number to have a midpoint
    RefinementFactor,   \* coulomb_initial_step_refinement_factor
    Times,              \* the doubles that are not negative
    FlAdd,              \* FlAdd[a][b], their sums as the processor rounds them
    FlSub,              \* FlSub[a][b], and their differences
    Tolerance           \* time_sync_tolerance

SettingRecords == [perStep : Nat \ {0}, maxGroups : Nat, propagates : SUBSET Types,
                   refinement : BOOLEAN]

ASSUME InteractiveAssumption ==
    /\ Settings \subseteq SettingRecords
    /\ {Timestep, RefinementFactor} \subseteq Nat \ {0}
    /\ Timestep % 2 = 0

\* Rounding keeps the order, and adding to zero is exact.  A step is never lost in
\* the rounding, or the outer loop would not end; and the end of the refined step is
\* met within the tolerance, or the module throws an exception.
ASSUME ArithmeticAssumption ==
    /\ Times \subseteq Nat /\ Tolerance \in Nat
    /\ {0, Timestep, Timestep \div 2} \cup DetrapTimes \subseteq Times
    /\ \A list \in Deposits : \A d \in DOMAIN list : list[d].time \in Times
    /\ {FlAdd, FlSub} \subseteq [Times -> [Times -> Times]]
    /\ \A a, b \in Times : a <= FlAdd[a][b] /\ FlAdd[0][b] = b /\ FlSub[a][b] <= a
    /\ \A a, b, c \in Times :
          a <= b => FlAdd[a][c] <= FlAdd[b][c] /\ FlAdd[c][a] <= FlAdd[c][b]
    /\ \A t \in Times : t < IntegrationTime => t < FlAdd[t][Timestep]
    /\ \A t \in Times : t < Timestep =>
          LET end == FlAdd[t][FlSub[Timestep][t]]
          IN  Timestep - Tolerance <= end /\ end <= Timestep + Tolerance

VARIABLES
    setting,    \* the settings of this event's module
    groups,     \* propagating_charges: <<d, k>> is the k-th group of deposit d
    time,       \* start of the outer step
    waiting,    \* groups that the loop of the outer step has not reached
    stepping,   \* the outer step has begun
    clock,      \* runge_kutta.getTime() of each group
    state,      \* charge_states
    previous,   \* previous_charge_states
    samples,    \* propagation_summaries: the groups in each sample
    counts,     \* charges by final state, empty before the end
    felt,       \* history: the field evaluations of the outer step
    drift,      \* history: the last drift of each group, from -1 if none
    traps,      \* history: the outer step that trapped a group, and its release
    ended       \* history: the outer step that collected or recombined it, or -1

progress == <<time, waiting, stepping>>
carriers == <<clock, state, previous>>
history == <<felt, drift, traps, ended>>
vars == <<setting, deposits, groups, progress, carriers, samples, counts, history>>

-----------------------------------------------------------------------------
(* run(): the groups *)

Applicable(s, list) ==
    {d \in DOMAIN list : list[d].time <= IntegrationTime /\ list[d].type \in s.propagates}

Total(s, list) == MapThenSumSet(LAMBDA d : list[d].charge, Applicable(s, list))

\* Mutant: the quotient is truncated.
PerStepTruncated(s, list) ==
    Max({s.perStep,
         IF s.maxGroups = 0 THEN s.perStep ELSE Total(s, list) \div Max({s.maxGroups, 1})})

\* charge_per_step, larger if the event had too many groups otherwise.
PerStep(s, list) ==
    Max({s.perStep,
         IF s.maxGroups = 0 THEN s.perStep ELSE Ceil(Total(s, list), Max({s.maxGroups, 1}))})

\* The groups of each deposit: all of them full, except for the last one.
GroupsOf(s, list) ==
    {g \in Applicable(s, list) \X (1 .. Total(s, list)) :
        (g[2] - 1) * PerStep(s, list) < list[g[1]].charge}

Charge(g) ==
    LET size == PerStep(setting, deposits)
    IN  Min({size, deposits[g[1]].charge - (g[2] - 1) * size})

\* The local time at which a group is deposited.
Deposited(g) == deposits[g[1]].time

ChargeOf(G) == MapThenSumSet(Charge, G)
ChargeIn(S) == ChargeOf({g \in groups : state[g] \in S})

Init ==
    /\ setting \in Settings
    /\ deposits \in Deposits
    /\ groups = GroupsOf(setting, deposits)
    /\ time = 0 /\ waiting = {} /\ stepping = FALSE
    /\ clock = [g \in groups |-> Deposited(g)]
    /\ state = [g \in groups |-> "MOTION"]
    /\ previous = state
    /\ samples = {} /\ counts = {}
    /\ felt = [g \in groups |-> {}]
    /\ drift = [g \in groups |-> [from |-> -1, to |-> -1]]
    /\ traps = [g \in groups |-> {}]
    /\ ended = [g \in groups |-> -1]

-----------------------------------------------------------------------------
(* The Coulomb field *)

\* Mutant: the state of the sources is the one of the moment.
CurrentlyCharged(h) == state[h] \notin {"HALTED", "RECOMBINED"}

\* Collected and recombined groups are no sources, trapped ones are.
Charged(h) == previous[h] \notin {"HALTED", "RECOMBINED"}

\* An evaluation of the field that g feels at a time: its sources are those
\* deposited up to the time `since'.
Evaluation(g, at, since) ==
    [at |-> at, since |-> since,
     sources |-> {h \in groups \ {g} : Deposited(h) <= since /\ Charged(h)}]

\* The stages of one Runge-Kutta step, where sources appear at any stage.
StepEvaluations(g, from) ==
    {Evaluation(g, t, t) :
        t \in {from, FlAdd[from][Timestep \div 2], FlAdd[from][Timestep]}}

\* Mutant: the first outer step is refined without regard to the deposits.
BoundariesOfStep == {0, Timestep}

\* The first outer step is divided where a group is deposited.  Boundaries closer than
\* the rounding errors are not merged here.
Boundaries ==
    {0, Timestep} \union {t \in {Deposited(g) : g \in groups} : 0 < t /\ t < Timestep}

NextBoundary(b) == Min({c \in Boundaries : b < c})

\* The number of pieces of an interval: a power of two, none too long.
Pieces(length) ==
    LET needed == Max({1, Ceil(length * RefinementFactor, Timestep)})
    IN  Min({p \in {2^n : n \in 0 .. needed} : p >= needed})

\* The times of the stages in an interval of the refined step: the ends and the
\* middle of each piece, rounded down.
Stages(b) ==
    LET end == NextBoundary(b)
        p == Pieces(end - b)
    IN  {b, end} \union
        {t \in b .. end : \E i \in 1 .. 2 * p - 1 : t = b + ((end - b) * i) \div (2 * p)}

\* In the refined step all groups that were deposited before an interval move
\* through it together, and only those are sources.
RefinedEvaluations(g) ==
    UNION {{Evaluation(g, t, b) : t \in Stages(b)} :
              b \in {c \in Boundaries : c < Timestep /\ Deposited(g) <= c}}

Refined == setting.refinement /\ time = 0

-----------------------------------------------------------------------------
(* propagate_together(): the outer step *)

\* fmod() is exact, but of a time that has been added up with rounding.
SummaryDue == time % SummaryStep < Timestep

\* Mutant: as the RMS plots, without regard to the time of the deposit.
InSummaryAnyTime(g) == state[g] \notin {"RECOMBINED", "TRAPPED"}

InSummary(g) == Deposited(g) <= time /\ state[g] \notin {"RECOMBINED", "TRAPPED"}

\* The summary is sampled and the sources are frozen.
BeginStep ==
    /\ groups # {} /\ ~stepping /\ time < IntegrationTime
    /\ samples' = samples \union
          (IF SummaryDue THEN {[at |-> time, groups |-> {g \in groups : InSummary(g)}]} ELSE {})
    /\ previous' = state
    /\ waiting' = groups /\ stepping' = TRUE
    /\ felt' = [g \in groups |-> {}]
    /\ UNCHANGED <<setting, deposits, groups, time, clock, state, counts, drift, traps, ended>>

\* The groups are visited in the order of the deposits.
Before(g, h) == g[1] < h[1] \/ (g[1] = h[1] /\ g[2] < h[2])
Visit(g) ==
    /\ stepping /\ g \in waiting
    /\ \A h \in waiting \ {g} : Before(g, h)
    /\ waiting' = waiting \ {g}

\* The clock of the group is in this outer step.
InStep(g) == time <= clock[g] /\ clock[g] < FlAdd[time][Timestep]

\* A trapped group is released in the step of its clock.
Movable(g) == InStep(g) /\ state[g] \in {"MOTION", "TRAPPED"}

PassGroup(g) ==
    /\ Visit(g) /\ ~Movable(g)
    /\ UNCHANGED <<setting, deposits, groups, time, stepping, carriers, samples, counts, history>>

\* The step of a group in the refined first step goes to the end of the outer step,
\* and has full length in any other one.
DriftEnd(g) == FlAdd[IF Refined THEN time ELSE clock[g]][Timestep]

\* The clock after it: in the refined step it is advanced by the difference.
ClockAfter(g) ==
    FlAdd[clock[g]][IF Refined THEN FlSub[DriftEnd(g)][clock[g]] ELSE Timestep]

\* The group drifts, and then may reach a surface, recombine or be trapped.
MoveGroup(g) ==
    /\ Visit(g) /\ Movable(g)
    /\ felt' = [felt EXCEPT ![g] =
          IF Refined THEN RefinedEvaluations(g) ELSE StepEvaluations(g, clock[g])]
    /\ drift' = [drift EXCEPT ![g] = [from |-> clock[g], to |-> DriftEnd(g)]]
    /\ \/ /\ state' = [state EXCEPT ![g] = "MOTION"]
          /\ clock' = [clock EXCEPT ![g] = ClockAfter(g)]
          /\ UNCHANGED <<traps, ended>>
       \/ /\ \E s \in {"HALTED", "RECOMBINED"} : state' = [state EXCEPT ![g] = s]
          /\ clock' = [clock EXCEPT ![g] = ClockAfter(g)]
          /\ ended' = [ended EXCEPT ![g] = time]
          /\ UNCHANGED traps
       \/ \E detrap \in DetrapTimes :
             /\ state' = [state EXCEPT ![g] = "TRAPPED"]
             /\ clock' = [clock EXCEPT ![g] = FlAdd[ClockAfter(g)][detrap]]
             /\ traps' = [traps EXCEPT ![g] = @ \union {[step |-> time, to |-> clock'[g]]}]
             /\ UNCHANGED ended
    /\ UNCHANGED <<setting, deposits, groups, time, stepping, previous, samples, counts>>

EndStep ==
    /\ stepping /\ waiting = {}
    /\ time' = FlAdd[time][Timestep] /\ stepping' = FALSE
    /\ UNCHANGED <<setting, deposits, groups, waiting, carriers, samples, counts, history>>

\* The groups become PropagatedCharge objects and are counted.
Output ==
    /\ ~stepping /\ counts = {} /\ (time >= IntegrationTime \/ groups = {})
    /\ counts' = {[recombined |-> ChargeIn({"RECOMBINED"}), trapped |-> ChargeIn({"TRAPPED"}),
                   propagated |-> ChargeIn({"MOTION", "HALTED"})]}
    /\ UNCHANGED <<setting, deposits, groups, progress, carriers, samples, history>>

Next ==
    \/ BeginStep
    \/ \E g \in groups : PassGroup(g) \/ MoveGroup(g)
    \/ EndStep
    \/ Output

Spec == Init /\ [][Next]_vars

-----------------------------------------------------------------------------
(* Properties *)

States == {"MOTION", "HALTED", "RECOMBINED", "TRAPPED"}
Live(g) == state[g] \in {"MOTION", "TRAPPED"}

\* The event is divided into full groups and one rest per deposit, so that no
\* charge is lost and the limit is exceeded by the number of deposits at most,
\* as the warning of run() says; and the charges of all groups, and of no
\* deposit that does not apply, are counted at the end.
GroupsExact ==
    LET applicable == Applicable(setting, deposits)
    IN  /\ \A d \in applicable : ChargeOf({g \in groups : g[1] = d}) = deposits[d].charge
        /\ setting.maxGroups # 0 =>
              Cardinality(groups) <= setting.maxGroups + Cardinality(applicable)
        /\ \A c \in counts :
              c.recombined + c.trapped + c.propagated = Total(setting, deposits)

\* The refined step has left the group short of its end by a rounding error, and the
\* group has not moved since: the module passes it by for good.
LeftBehind(g) ==
    /\ setting.refinement
    /\ drift[g] = [from |-> Deposited(g), to |-> Timestep]
    /\ Timestep - Tolerance <= clock[g] /\ clock[g] < Timestep

\* Groups are deposited and released at any time, and yet none that can still move
\* falls behind the outer step, but one that the refined step left behind; and after
\* its first step only a trap puts a group further ahead than to the next step.  In
\* an outer step a group drifts from its clock on, and its clock gets to the end of
\* the drift; no step of another length or over another interval is taken.
LockStep ==
    \A g \in groups :
        /\ Live(g) => time <= clock[g] \/ LeftBehind(g)
        /\ ~stepping /\ state[g] = "MOTION" /\ Deposited(g) < time =>
              clock[g] <= FlAdd[time][Timestep]
        /\ stepping /\ time <= drift[g].from =>
              /\ drift[g].from < FlAdd[time][Timestep]
              /\ state[g] = "MOTION" => /\ drift[g].to - Tolerance <= clock[g]
                                        /\ clock[g] <= drift[g].to + Tolerance
              /\ \E e \in felt[g] : e.at = drift[g].from
              /\ \E e \in felt[g] : e.at = drift[g].to
              /\ \A e \in felt[g] : drift[g].from <= e.at /\ e.at <= drift[g].to

\* All groups that move in an outer step feel the same sources, whatever became
\* of a source that was visited before them: everyone else who is deposited by
\* then and was not collected or recombined in an earlier step, so that forces
\* are mutual.
SourcesCommon ==
    stepping => \A g \in groups : \A e \in felt[g] : \A h \in groups \ {g} :
        h \in e.sources <=>
            /\ Deposited(h) <= e.since /\ e.since <= e.at
            /\ ended[h] = -1 \/ time <= ended[h]

\* An outer step before `at' has recombined the group.
RecombinedBy(g, at) == state[g] = "RECOMBINED" /\ ended[g] < at

\* A step before `at' has trapped the group, and it is not released, or never is, as
\* its release does not reach the end of the step that trapped it.
TrappedAt(g, at) ==
    \E t \in traps[g] : t.step < at /\ (at <= t.to \/ t.to < FlAdd[t.step][Timestep])

\* Each sample of the summary holds just the groups that are deposited, not
\* recombined and not in a trap, as far as the outer steps have led, whatever comes
\* of them later.
SummaryTrue ==
    \A s \in samples : \A g \in groups :
        g \in s.groups <=>
            /\ Deposited(g) <= s.at
            /\ ~RecombinedBy(g, s.at)
            /\ ~TrappedAt(g, s.at)

\* What one would expect, but for the rounding that a TODO of the module regrets: one
\* sample for each summary step that began, or one in each outer step if those are
\* longer; and clocks that are not behind, as the comment on the refined step says.
SampledOnce ==
    \A k \in 0 .. time \div SummaryStep :
        k * SummaryStep + Timestep <= time =>
            Cardinality({s \in samples : /\ k * SummaryStep <= s.at
                                         /\ s.at < k * SummaryStep + Timestep}) = 1
Synchronized == \A g \in groups : Live(g) => time <= clock[g]

=============================================================================

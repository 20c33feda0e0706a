------------------------- MODULE ChargePropagation -------------------------
(***************************************************************************)
(* One event of GenericPropagation or TransientPropagation: every deposit  *)
(* is divided into groups of charge carriers, and propagate() moves a      *)
(* group until it leaves the sensor, recombines, is trapped or runs out of *)
(* the integration time.  Where impact ionization sets carriers free,      *)
(* those of the same type join the group and those of the opposite type    *)
(* are a new group that propagate() moves by calling itself.  A state      *)
(* after each step of a group; `stack' holds the calls of propagate().     *)
(***************************************************************************)
EXTENDS Carriers, SequencesExt, FiniteSetsExt

CONSTANTS
    Modules,            \* which of "Generic" and "Transient" to explore
    ChargePerStep,      \* charge_per_step
    MaxGroups,          \* max_charge_groups, 0 for no limit
    MaxLevel,           \* max_multiplication_level
    StepTimes,          \* possible durations of a step
    MaxSecondaries      \* bound on the pairs created in an event

invertCarrierType(type) == -type

ASSUME PropagationAssumption ==
    /\ Modules \subseteq {"Generic", "Transient"}
    /\ ChargePerStep \in Nat \ {0}
    /\ {MaxGroups, MaxLevel, MaxSecondaries} \subseteq Nat
    /\ StepTimes \subseteq Nat \ {0}

VARIABLES
    module,     \* the module that propagates
    propagates, \* carrier types that are propagated
    at,         \* index of the deposit in work, 0 before the first
    perStep,    \* charge_per_step as adapted for the deposit
    remaining,  \* charges_remaining of the deposit
    stack,      \* calls of propagate(), the innermost one last
    charges,    \* propagated_charges
    bins,       \* propagation_summary_bins: charge of each type per sample
    statistics, \* propagated, recombined and trapped charges of the event
    finished,   \* history: finished[i] is what charges[i] really was
    created,    \* history: pairs created by impact ionization
    lost        \* history: carriers of each type that nobody propagates

propagationVars == <<module, propagates, deposits, at, perStep, remaining, stack,
                     charges, bins, statistics, finished, created, lost>>
Setup == <<module, propagates, deposits>>

Transient == module = "Transient"
Samples == 0 .. (IntegrationTime - 1) \div SummaryStep
NoCounts == [propagated |-> 0, recombined |-> 0, trapped |-> 0]
Plus(a, b) == [k \in DOMAIN a |-> a[k] + b[k]]

PropagationInit ==
    /\ module \in Modules
    /\ propagates \in (IF Transient THEN {Types} ELSE SUBSET Types \ {{}})
    /\ deposits \in Deposits
    /\ at = 0 /\ perStep = 0 /\ remaining = 0
    /\ stack = <<>> /\ charges = <<>> /\ finished = <<>>
    /\ bins = [k \in Samples |-> [t \in Types |-> 0]]
    /\ statistics = NoCounts /\ created = 0
    /\ lost = [t \in Types |-> 0]

-----------------------------------------------------------------------------
(* run(): the loop over the deposits *)

\* Deposits beyond the integration time are left out, and in GenericPropagation
\* those of a type that is not propagated.
SkipGeneric(d) == d.type \notin propagates \/ d.time > IntegrationTime
SkipTransient(d) == d.time > IntegrationTime
Skip(d) == IF Transient THEN SkipTransient(d) ELSE SkipGeneric(d)

\* charge_per_step of the deposit, larger if there were too many groups.
Adapted(d) ==
    IF MaxGroups > 0 /\ d.charge \div ChargePerStep > MaxGroups
    THEN Ceil(d.charge, MaxGroups) ELSE ChargePerStep

NextDeposit ==
    /\ stack = <<>> /\ remaining = 0 /\ at < Len(deposits)
    /\ at' = at + 1
    /\ LET d == deposits[at + 1]
       IN  IF Skip(d)
           THEN /\ lost' = [lost EXCEPT ![d.type] = @ + d.charge]
                /\ UNCHANGED <<perStep, remaining>>
           ELSE /\ perStep' = Adapted(d) /\ remaining' = d.charge
                /\ UNCHANGED lost
    /\ UNCHANGED <<Setup, stack, charges, bins, statistics, finished, created>>

\* propagate() is called: next is the first sample not before the start.
Call(type, charge, start, level) ==
    [type |-> type, charge |-> charge, start |-> start, time |-> 0,
     level |-> level, state |-> "motion", next |-> Ceil(start, SummaryStep),
     counts |-> NoCounts, path |-> <<>>]

NextGroup ==
    /\ stack = <<>> /\ remaining > 0
    /\ LET d == deposits[at]
           size == Min({perStep, remaining})
       IN  /\ perStep' = size
           /\ remaining' = remaining - size
           /\ stack' = <<Call(d.type, size, d.time, 0)>>
    /\ UNCHANGED <<Setup, at, charges, bins, statistics, finished, created, lost>>

-----------------------------------------------------------------------------
(* propagate(): the loop over the steps *)

Now(g) == g.start + g.time
Moving(g) == g.state = "motion" /\ Now(g) < IntegrationTime

\* Mutant: the running index starts again at the first sample.
DueFromZero(g) == {k \in Samples : k * SummaryStep <= Now(g)}

\* TransientPropagation adds the group to the samples up to the current time.
DueSamples(g) == {k \in Samples : g.next <= k /\ k * SummaryStep <= Now(g)}

AddTo(b, samples, g) ==
    [k \in Samples |-> IF k \in samples THEN [b[k] EXCEPT ![g.type] = @ + g.charge]
                       ELSE b[k]]

\* The group after a step: what became of it, and the time it was trapped for.
\* A trapped group goes on if it is released within the integration time.
After(g, dt, fate, detrap) ==
    LET released == fate = "traps" /\ Now(g) + dt + detrap < IntegrationTime
    IN  [g EXCEPT !.time = @ + dt + IF released THEN detrap ELSE 0,
                  !.state = IF released \/ fate = "moves" THEN "motion"
                            ELSE CASE fate = "traps" -> "trapped"
                                   [] fate = "recombines" -> "recombined"
                                   [] fate = "halts" -> "halted",
                  !.path = Append(@, [time |-> Now(g), charge |-> g.charge])]

\* Mutant: the carriers that join the group are forgotten.
Unjoined(g, n) == g

\* The new carriers of the same type join the group at the end of the step.
Joined(g, n) == [g EXCEPT !.charge = @ + n]

\* The opposite carriers are propagated unless GenericPropagation is told not to.
PropagateGeneric(type) == type \in propagates
PropagateSecondaries(type) == Transient \/ PropagateGeneric(type)

\* n pairs are created in the step of g: propagate() is called for the opposite
\* carriers and returns at once beyond the maximum level.
Multiply(g, n) ==
    LET type == invertCarrierType(g.type)
        child == Call(type, n, Now(g), g.level + 1)
    IN  IF n = 0 THEN stack' = Append(Front(stack), g) /\ UNCHANGED lost
        ELSE IF PropagateSecondaries(type) /\ child.level <= MaxLevel
        THEN stack' = Front(stack) \o <<Joined(g, n), child>> /\ UNCHANGED lost
        ELSE /\ stack' = Append(Front(stack), Joined(g, n))
             /\ lost' = [lost EXCEPT ![type] = @ + n]

Step ==
    /\ stack # <<>> /\ Moving(Last(stack))
    /\ LET g == Last(stack)
           due == IF Transient THEN DueSamples(g) ELSE {}
           sampled == [g EXCEPT !.next = @ + Cardinality(due)]
       IN  /\ bins' = AddTo(bins, due, g)
           /\ \E dt \in StepTimes, fate \in {"moves", "halts", "recombines", "traps"},
                 detrap \in DetrapTimes, n \in 0 .. MaxSecondaries - created :
                /\ fate # "traps" => detrap = Min(DetrapTimes)
                /\ Multiply(After(sampled, dt, fate, detrap), n)
                /\ created' = created + n
    /\ UNCHANGED <<Setup, at, perStep, remaining, charges, statistics, finished>>

-----------------------------------------------------------------------------
(* propagate(): the end of a group *)

\* A group that did not recombine and is not trapped stays where it is in the
\* samples from the end of its motion on.
FinalSamples(g) ==
    IF g.state \in {"recombined", "trapped"} THEN {}
    ELSE {k \in Samples : g.next <= k /\ Now(g) <= k * SummaryStep}

\* The object that the module adds to its message.  GenericPropagation takes
\* type and time from the deposit, TransientPropagation from the group.  The
\* charge of the latter's object is not that of the carriers but what their pulses
\* induced on the pixels (PropagatedCharge.cpp:61), and is left out.
RecordGeneric(g) ==
    [type |-> deposits[at].type, charge |-> g.charge,
     time |-> deposits[at].time + g.time, state |-> g.state]
RecordTransient(g) ==
    [type |-> g.type, time |-> Now(g), state |-> g.state]
Record(g) == IF Transient THEN RecordTransient(g) ELSE RecordGeneric(g)

\* What propagate() returns for the group and all that descend from it.
Counted(g) == Plus(g.counts,
    [propagated |-> g.charge,
     recombined |-> IF g.state = "recombined" THEN g.charge ELSE 0,
     trapped |-> IF g.state = "trapped" THEN g.charge ELSE 0])

Return ==
    /\ stack # <<>> /\ ~Moving(Last(stack))
    /\ LET g == Last(stack)
           callers == Front(stack)
           caller == Last(callers)
       IN  /\ charges' = Append(charges, Record(g))
           /\ finished' = Append(finished, [group |-> g, deposit |-> at])
           /\ bins' = IF Transient THEN AddTo(bins, FinalSamples(g), g) ELSE bins
           /\ IF callers = <<>>
              THEN /\ stack' = <<>>
                   /\ statistics' = Plus(statistics, Counted(g))
              ELSE /\ stack' = Append(Front(callers),
                                      [caller EXCEPT !.counts = Plus(@, Counted(g))])
                   /\ UNCHANGED statistics
    /\ UNCHANGED <<Setup, at, perStep, remaining, created, lost>>

PropagationNext == NextDeposit \/ NextGroup \/ Step \/ Return

PropagationSpec == PropagationInit /\ [][PropagationNext]_propagationVars

-----------------------------------------------------------------------------
(* Properties *)

\* run() dispatches the message.
Done == at = Len(deposits) /\ remaining = 0 /\ stack = <<>>

SumOver(S, w) == MapThenSumSet(LAMBDA i : w[i], S)
\* The carriers that a propagated group had at its end, and the charge that the
\* objects of GenericPropagation have.
ChargeAt == [i \in DOMAIN finished |-> finished[i].group.charge]
MessageCharge == [i \in DOMAIN charges |-> charges[i].charge]
DepositAt == [i \in DOMAIN deposits |-> deposits[i].charge]

OfType(type) == {i \in DOMAIN finished : finished[i].group.type = type}
DepositsOf(type) == {i \in DOMAIN deposits : deposits[i].type = type}
InState(state) == {i \in DOMAIN charges : charges[i].state = state}

\* Charge carriers are neither lost nor invented by dividing deposits into
\* groups, by the nested calls for secondaries and by adding pairs to a group
\* that halts, recombines or is trapped in the same step: of each type, what the
\* groups had at their ends and what was not propagated is what was deposited and
\* created.
CarriersAccounted ==
    Done => \A type \in Types :
        SumOver(OfType(type), ChargeAt) + lost[type] =
            created + SumOver(DepositsOf(type), DepositAt)

\* The statistics that come back through all levels of propagate() agree with the
\* groups and the states in the message, and in GenericPropagation with the charge
\* in it: propagated charges include those that recombined or are trapped.
StatisticsExact ==
    Done =>
      /\ statistics = [propagated |-> SumOver(DOMAIN finished, ChargeAt),
                       recombined |-> SumOver(InState("recombined"), ChargeAt),
                       trapped |-> SumOver(InState("trapped"), ChargeAt)]
      /\ ~Transient => statistics.propagated = SumOver(DOMAIN charges, MessageCharge)

\* Charge and statistics add up together once run() dispatches the message,
\* whatever level of propagate() the groups were recorded in.
AccountsExact == CarriersAccounted /\ StatisticsExact

\* Groups that come straight from deposit i.
GroupsFrom(i) == {k \in DOMAIN finished : finished[k].deposit = i /\ finished[k].group.level = 0}

\* The adapted size keeps the number of groups of a deposit near the maximum.
GroupsBounded ==
    MaxGroups > 0 =>
        \A i \in DOMAIN deposits : Cardinality(GroupsFrom(i)) <= MaxGroups + 1

\* "Maximum number of charge groups to propagate from a single deposit point".
GroupsLimited ==
    MaxGroups > 0 =>
        \A i \in DOMAIN deposits : Cardinality(GroupsFrom(i)) <= MaxGroups

\* The charge that group g contributes to a sample at time t: nothing before it
\* exists, what it had at its first step from t on, and at last what it ended
\* with.  Between its last step and its end it is in no sample.
ContributionAt(g, t) ==
    LET later == {i \in DOMAIN g.path : g.path[i].time >= t}
    IN  IF t < g.start THEN 0
        ELSE IF later # {} THEN g.path[Min(later)].charge
        ELSE IF g.state \in {"recombined", "trapped"} \/ t < Now(g) THEN 0
        ELSE g.charge

\* Every sample holds each group once with the charge it had then, secondaries
\* of all levels included, whatever the steps and the detrapping times were.
SummaryExact ==
    Done /\ Transient => \A k \in Samples : \A type \in Types :
        bins[k][type] = SumOver(OfType(type),
            [i \in DOMAIN finished |-> ContributionAt(finished[i].group, k * SummaryStep)])

\* "Each sample combines all eligible carrier groups in the event [...] Carrier
\* groups that have reached a sensor surface remain at their final position in
\* later samples": a group that exists, and neither recombined nor was trapped,
\* is in every sample from its start on.
SummaryComplete ==
    Done /\ Transient => \A k \in Samples : \A type \in Types :
        bins[k][type] >= SumOver(
            {i \in OfType(type) : /\ finished[i].group.start <= k * SummaryStep
                                  /\ finished[i].group.state \in {"motion", "halted"}},
            [i \in DOMAIN finished |-> 1])

\* "Type of the carrier" and "Time of propagation arrival": each object of the
\* message says which carriers arrived, and when.
RecordedAsPropagated ==
    \A i \in DOMAIN charges : /\ charges[i].type = finished[i].group.type
                              /\ charges[i].time = Now(finished[i].group)
=============================================================================

\* Samples at 0 and 2, below 3; steps of 1 or 3; groups of 2, at most one by
\* configuration; secondaries of secondaries are cut.
CONSTANTS
    Modules = {"Generic", "Transient"}
    Deposits <- MCDeposits
    IntegrationTime = 3
    SummaryStep = 2
    ChargePerStep = 2
    MaxGroups = 1
    MaxLevel = 1
    StepTimes = {1, 3}
    DetrapTimes = {1}
    MaxSecondaries = 2
SPECIFICATION PropagationSpec
INVARIANTS
    AccountsExact
    SummaryExact
CHECK_DEADLOCK FALSE

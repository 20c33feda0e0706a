\* Outer steps at 0, 10 and 20, samples at 0 and 20; traps that last less than a
\* step, or longer.  Three significant bits: the refined step from a deposit at 1
\* ends at 8 instead of 10, and the outer step from 20 ends at 32.
CONSTANTS
    Deposits <- MCDeposits
    Settings <- MCSettings
    Timestep = 10
    IntegrationTime = 24
    SummaryStep = 11
    RefinementFactor = 2
    DetrapTimes = {1, 14}
    Times <- MCTimes
    FlAdd <- MCAdd
    FlSub <- MCSub
    Tolerance = 2
SPECIFICATION Spec
INVARIANTS
    GroupsExact
    LockStep
    SourcesCommon
    SummaryTrue
CHECK_DEADLOCK FALSE

CONSTANTS
    r1 = r1  r2 = r2  j1 = j1  j2 = j2  j3 = j3  live = live  v5 = v5
    NoLimit = NoLimit  NoCount = NoCount  NoReason = NoReason  Manual = Manual
    Runs <- MCOneRun
    Jobs <- MCJobs
    Purgeable <- MCTwoJobs
    Versions <- MCVersions
    Targets <- MCTargets
    LiveVersion = live
    BatchSize = 2
    DefaultLimit = 3
    Limits = {0, 1}
SPECIFICATION ScoredSpec

\* Run ids and jobs are used up: nothing is left to do.
CHECK_DEADLOCK FALSE
INVARIANTS CountersBounded CompletedCoverage
PROPERTIES RunSettles BoundaryCancelHonoured

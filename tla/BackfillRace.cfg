CONSTANTS
    r1 = r1  r2 = r2  j1 = j1  j2 = j2  j3 = j3  live = live  v5 = v5
    NoLimit = NoLimit  NoCount = NoCount  NoReason = NoReason  Manual = Manual
    Runs <- MCRuns
    Jobs <- MCOneJob
    Purgeable <- MCOneJob
    Versions <- MCVersions
    Targets <- MCTargets
    LiveVersion = live
    BatchSize = 1
    DefaultLimit = 2
    Limits = {NoLimit}
SPECIFICATION Spec
SYMMETRY Symmetry

\* Run ids and jobs are used up: nothing is left to do.
CHECK_DEADLOCK FALSE
INVARIANTS RescoredBacked CancelledOnRequest RowIsFinalCopy
PROPERTIES ImplementsMatchTable ImplementsRunLog

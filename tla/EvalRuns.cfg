SPECIFICATION FairSpec
CONSTANTS
    Cases = 3
    Expected = {1, 2}
    BatchSize = 2
    MaxItems = 2
    Repeats = 2
    Scripts = {"ok", "crawl_error", "eval_error"}
    MaxCalls = 5
    MaxFaults = 1
INVARIANTS
    ResultTold
    RowsOwnScore
PROPERTIES
    EvalSettles
CHECK_DEADLOCK FALSE

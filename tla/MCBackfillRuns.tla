--------------------------- MODULE MCBackfillRuns ---------------------------
(* Instances of BackfillRuns for TLC. *)
EXTENDS BackfillRuns, TLC

CONSTANTS r1, r2, j1, j2, j3, live, v5

MCRuns     == {r1, r2}
MCJobs     == {j1, j2, j3}
MCTwoJobs  == {j1, j2}
MCOneJob   == {j1}
MCOneRun   == {r1}
MCVersions == {live, v5}
MCTargets  == {v5}
Symmetry   == Permutations({r1, r2}) \cup Permutations({j1, j2, j3})

\* The matching cycle has scored the three jobs, in this order.
ScoredInit ==
    /\ InitRuns
    /\ \E verdict \in [Jobs -> MT!Scored] :
           matches = [c \in Jobs \X Versions |-> IF c[2] = LiveVersion THEN verdict[c[1]] ELSE "none"]
    /\ firstEval = (j1 :> 1) @@ (j2 :> 2) @@ (j3 :> 3)

ScoredSpec == ScoredInit /\ [][Next]_vars /\ Fairness
=============================================================================

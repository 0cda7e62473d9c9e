----------------------------- MODULE MCJobStore -----------------------------
\* A listing of each source; those of the second one are purged, and may come back.
EXTENDS JobStore, TLC

CONSTANTS g, h, old, new, none, r1

MCSourceOf == (g :> "greenhouse") @@ (h :> "ycombinator")
MCMaxInserts == (g :> 2) @@ (h :> 1)
MCSources == <<"ycombinator", "greenhouse">>
=============================================================================

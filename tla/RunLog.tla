------------------------------- MODULE RunLog -------------------------------
(***************************************************************************)
(* What the table backfill_runs promises a reader of GET /backfill/runs:   *)
(* every run id goes through one life, absent -> running -> one of three   *)
(* ends, and its progress counter never goes back.  This is the abstract   *)
(* specification that BackfillRuns implements; it says nothing of threads, *)
(* batches or cancel requests.                                             *)
(***************************************************************************)
EXTENDS Naturals

CONSTANT Runs            \* run ids: one uuid hex per POST /backfill/run

VARIABLES
    status,              \* [Runs -> Status], column backfill_runs.status
    processed            \* [Runs -> Nat],    column backfill_runs.processed

logVars == <<status, processed>>

Ended  == {"completed", "failed", "cancelled"}
Status == {"absent", "running"} \cup Ended

LogInit ==
    /\ status    = [r \in Runs |-> "absent"]
    /\ processed = [r \in Runs |-> 0]

\* POST /backfill/run writes the row of a fresh run id.
Trigger(r) ==
    /\ status[r] = "absent"
    /\ status' = [status EXCEPT ![r] = "running"]
    /\ UNCHANGED processed

\* The counter of one run never goes back, the others are not touched.
Advance(r) ==
    /\ processed' = [processed EXCEPT ![r] = processed'[r]]
    /\ processed'[r] >= processed[r]

\* A batch is over: the run goes on.
Progress(r) ==
    /\ status[r] = "running"
    /\ Advance(r)
    /\ UNCHANGED status

\* The run stops, for good.
Stop(r) ==
    /\ status[r] = "running"
    /\ \E s \in Ended : status' = [status EXCEPT ![r] = s]
    /\ Advance(r)

LogNext == \E r \in Runs : Trigger(r) \/ Progress(r) \/ Stop(r)

LogSpec == LogInit /\ [][LogNext]_logVars
=============================================================================

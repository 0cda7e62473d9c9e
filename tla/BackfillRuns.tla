---------------------------- MODULE BackfillRuns ----------------------------
(***************************************************************************)
(* backfill/engine.py with api/backfill.py and the one registered process, *)
(* backfill/processes/rescore_with_prompt.py.                              *)
(*                                                                         *)
(* A run is three things that drift apart: its row in the Postgres table   *)
(* backfill_runs, the BackfillRunStatus object its daemon thread works on, *)
(* and the thread itself.  HTTP handlers write the row while the thread    *)
(* holds an older copy of it, and the thread's every save writes all of    *)
(* that copy back.                                                         *)
(*                                                                         *)
(* Every database session of the code commits one row, so each is one      *)
(* step here.  (_save_status reads the row and updates the columns that    *)
(* differ from what it read; a cancel request committed between its read   *)
(* and its update survives, exactly as if it came after the save.)         *)
(***************************************************************************)
EXTENDS Naturals, Sequences, FiniteSets, Functions

CONSTANTS
    Runs,            \* run ids that POST /backfill/run may draw
    Jobs,            \* job_listings.id, never drawn again once deleted
    Purgeable,       \* jobs of the sources whose stale listings the scraper purges
    Versions,        \* prompt versions
    LiveVersion,     \* the version the matching cycle scores new jobs under
    Targets,         \* the values of params.prompt_version that clients send
    BatchSize,       \* load_backfill_batch_size()
    DefaultLimit,    \* _DEFAULT_CANDIDATE_LIMIT
    Limits,          \* the values of `limit` that clients send, NoLimit for null
    NoLimit, NoCount, NoReason, Manual

ASSUME JobsAssumption == IsFiniteSet(Jobs) /\ Purgeable \subseteq Jobs
\* However long the server lives, it has drawn finitely many run ids and seen finitely many versions.
ASSUME FiniteAssumption == IsFiniteSet(Runs) /\ IsFiniteSet(Targets)
ASSUME BatchSizeAssumption == BatchSize \in Nat \ {0}
ASSUME LimitAssumption ==
    /\ DefaultLimit \in Nat
    /\ Limits \subseteq Nat \cup {NoLimit}
    /\ NoLimit \notin Nat
ASSUME NullAssumption ==
    /\ NoCount \notin Nat
    /\ NoReason \notin Runs \cup {Manual}
    /\ Manual \notin Runs
ASSUME VersionAssumption == LiveVersion \in Versions /\ Targets \subseteq Versions

VARIABLES
    rows,            \* backfill_runs, by run id
    mem,             \* the thread's BackfillRunStatus, by run id
    pc,              \* where the start handler, then the thread, of a run is
    toAsk,           \* running ids the start handler listed and has still to cancel
    args,            \* params.prompt_version and limit of the request
    cand,            \* the candidates the thread selected
    pos,             \* candidates of the list whose crawl is over
    crawled,         \* crawled jobs of the batch in flight, not yet recorded
    tally,           \* BatchOutcome of the batch in flight
    cancelling,      \* runs a cancel handler has read as running, write to come
    asked,           \* history: a cancel was committed while the row was running
    matches,         \* job_matches: every row inserted, those of purged jobs deleted since
    firstEval,       \* order of the first evaluation of each job, 0 for never
    purged           \* jobs whose listing has been deleted, and their rows with it

vars == <<rows, mem, pc, toAsk, args, cand, pos, crawled, tally, cancelling,
          asked, matches, firstEval, purged>>
thread == <<cand, pos, crawled, tally>>
api    == <<toAsk, args, cancelling, asked>>
table  == <<matches, firstEval, purged>>

MT  == INSTANCE MatchTable
Log == INSTANCE RunLog WITH status    <- [r \in Runs |-> rows[r].status],
                            processed <- [r \in Runs |-> rows[r].processed]

(***************************************************************************)
(* Types                                                                   *)
(***************************************************************************)
Reasons  == Runs \cup {Manual, NoReason}      \* a run id stands for superseded_by_run:<id>
Counters == [rescored : Nat, notFound : Nat, crawlError : Nat, errored : Nat]
Row == [status     : Log!Status,
        candidates : Nat \cup {NoCount},
        processed  : Nat,
        counts     : Counters,
        cancel     : Reasons]

NoCounts == [rescored |-> 0, notFound |-> 0, crawlError |-> 0, errored |-> 0]
NewRow(status) == [status |-> status, candidates |-> NoCount, processed |-> 0,
                   counts |-> NoCounts, cancel |-> NoReason]

InHandler == {"listing"}
InThread  == {"spawned", "select", "between", "crawl", "record", "finish"}
Control   == {"idle", "done", "dead"} \cup InHandler \cup InThread

TypeOK ==
    /\ rows \in [Runs -> Row]
    /\ mem \in [Runs -> Row]
    /\ pc \in [Runs -> Control]
    /\ toAsk \in [Runs -> SUBSET Runs]
    /\ args \in [Runs -> [version : Versions, limit : Limits \cup {NoLimit}]]
    /\ cand \in [Runs -> Seq(Jobs)]
    /\ pos \in [Runs -> Nat]
    /\ crawled \in [Runs -> Seq(Jobs)]
    /\ tally \in [Runs -> Counters]
    /\ cancelling \in SUBSET Runs
    /\ asked \in [Runs -> BOOLEAN]
    /\ MT!TableTypeOK
    /\ firstEval \in [Jobs -> Nat]
    /\ purged \in SUBSET Purgeable

(***************************************************************************)
(* Initially no run exists and no job is scored.                           *)
(***************************************************************************)
InitRuns ==
    /\ rows = [r \in Runs |-> NewRow("absent")]
    /\ mem = [r \in Runs |-> NewRow("absent")]
    /\ pc = [r \in Runs |-> "idle"]
    /\ toAsk = [r \in Runs |-> {}]
    /\ args = [r \in Runs |-> [version |-> LiveVersion, limit |-> NoLimit]]
    /\ cand = [r \in Runs |-> <<>>]
    /\ pos = [r \in Runs |-> 0]
    /\ crawled = [r \in Runs |-> <<>>]
    /\ tally = [r \in Runs |-> NoCounts]
    /\ cancelling = {}
    /\ asked = [r \in Runs |-> FALSE]
    /\ purged = {}

Init ==
    /\ InitRuns
    /\ matches = [c \in Jobs \X Versions |-> "none"]
    /\ firstEval = [j \in Jobs |-> 0]

Goto(r, label) == pc' = [pc EXCEPT ![r] = label]

(***************************************************************************)
(* job_matches                                                             *)
(***************************************************************************)
Fresh(job, version) == matches[<<job, version>>] = "none"

\* record_job_result: True when the INSERT went through, False on any IntegrityError: a
\* duplicate, or a foreign key to a listing that has been purged.
Accepted(job, version) == job \notin purged /\ Fresh(job, version)

\* Mutant: an upsert instead of an INSERT.
BugUpsert(job, version, result) ==
    matches' = [matches EXCEPT ![<<job, version>>] = result]

RecordJobResult(job, version, result) ==
    matches' = IF Accepted(job, version)
               THEN [matches EXCEPT ![<<job, version>>] = result]
               ELSE matches

\* The matching cycle scores a listed job that has no row under any version.
LiveResult(job) ==
    /\ job \notin purged
    /\ \A v \in Versions : Fresh(job, v)
    /\ \E result \in MT!Scored : RecordJobResult(job, LiveVersion, result)
    /\ firstEval' = [firstEval EXCEPT ![job] = 1 + Cardinality({j \in Jobs : firstEval[j] # 0})]
    /\ UNCHANGED <<rows, mem, pc, api, thread, purged>>

\* purge_stale_jobs: stale listings go with their rows, in one transaction.
Purge(stale) ==
    /\ stale # {}
    /\ purged' = purged \cup stale
    /\ UNCHANGED <<rows, mem, pc, api, thread, matches, firstEval>>

(***************************************************************************)
(* reprocess_candidates_stmt: jobs with a row, none under the target, those *)
(* ever matched first, then by first evaluation, cut at the limit.         *)
(***************************************************************************)
Pool(version) ==
    {j \in Jobs \ purged : Fresh(j, version) /\ \E v \in Versions : ~Fresh(j, v)}
EverMatched(j) == \E v \in Versions : matches[<<j, v>>] = "match"

Before(i, j) ==
    \/ EverMatched(i) /\ ~EverMatched(j)
    \/ (EverMatched(i) <=> EverMatched(j)) /\ firstEval[i] < firstEval[j]

EffectiveLimit(limit) == IF limit \in {NoLimit, 0} THEN DefaultLimit ELSE limit

IsSelection(list, version, limit) ==
    LET left == Pool(version) \ Range(list) IN
    /\ \A i, k \in DOMAIN list : i < k => Before(list[i], list[k])
    /\ \A j \in left, i \in DOMAIN list : Before(list[i], j)
    /\ left # {} => Len(list) = limit

Selections(version, limit) ==
    {list \in UNION {[1..n -> Pool(version)] : n \in 0..limit} :
        IsSelection(list, version, limit)}

(***************************************************************************)
(* The table backfill_runs                                                 *)
(***************************************************************************)
SaveStatus(r, status) == rows' = [rows EXCEPT ![r] = status]

\* Mutant: the request also flips the status, which is the thread's to write.
BugFlipStatus(r, reason) ==
    /\ rows' = [rows EXCEPT ![r].cancel = reason, ![r].status = "cancelled"]
    /\ asked' = [asked EXCEPT ![r] = @ \/ rows[r].status = "running"]

\* Sets the reason whatever the status of the row is by now.
RequestCancel(r, reason) ==
    /\ rows' = [rows EXCEPT ![r].cancel = reason]
    /\ asked' = [asked EXCEPT ![r] = @ \/ rows[r].status = "running"]

(***************************************************************************)
(* POST /backfill/run: list the running rows, ask each to cancel, write    *)
(* the new row, start the thread.                                          *)
(***************************************************************************)
StartList(r) ==
    /\ pc[r] = "idle"
    /\ \E version \in Targets, limit \in Limits :
           args' = [args EXCEPT ![r] = [version |-> version, limit |-> limit]]
    /\ toAsk' = [toAsk EXCEPT ![r] = {s \in Runs : rows[s].status = "running"}]
    /\ Goto(r, "listing")
    /\ UNCHANGED <<rows, mem, cancelling, asked, thread, table>>

StartAsk(r) ==
    /\ pc[r] = "listing"
    /\ \E s \in toAsk[r] :
           /\ RequestCancel(s, r)
           /\ toAsk' = [toAsk EXCEPT ![r] = @ \ {s}]
    /\ UNCHANGED <<mem, pc, args, cancelling, thread, table>>

StartRun(r) ==
    /\ pc[r] = "listing"
    /\ toAsk[r] = {}
    /\ SaveStatus(r, NewRow("running"))
    /\ Goto(r, "spawned")
    /\ UNCHANGED <<mem, api, thread, table>>

(***************************************************************************)
(* POST /backfill/runs/{id}/cancel: read the status, then write.           *)
(***************************************************************************)
CancelRead(r) ==
    /\ rows[r].status = "running"
    /\ cancelling' = cancelling \cup {r}
    /\ UNCHANGED <<rows, mem, pc, toAsk, args, asked, thread, table>>

CancelWrite(r) ==
    /\ r \in cancelling
    /\ RequestCancel(r, Manual)
    /\ cancelling' = cancelling \ {r}
    /\ UNCHANGED <<mem, pc, toAsk, args, thread, table>>

(***************************************************************************)
(* _execute, outside the loop                                              *)
(***************************************************************************)
\* The locals of a batch are gone once its outcome is returned or an exception leaves it.
DropBatch(r) ==
    /\ crawled' = [crawled EXCEPT ![r] = <<>>]
    /\ tally' = [tally EXCEPT ![r] = NoCounts]

Fetch(r) ==
    /\ pc[r] = "spawned"
    /\ mem' = [mem EXCEPT ![r] = rows[r]]
    /\ Goto(r, "select")
    /\ UNCHANGED <<rows, api, thread, table>>

\* The save after the selection may fail: the count is in memory only.
Select(r) ==
    /\ pc[r] = "select"
    /\ \E list \in Selections(args[r].version, EffectiveLimit(args[r].limit)) :
           LET status == [mem[r] EXCEPT !.candidates = Len(list)] IN
           /\ cand' = [cand EXCEPT ![r] = list]
           /\ \/ /\ mem' = [mem EXCEPT ![r] = status]
                 /\ SaveStatus(r, status)
                 /\ Goto(r, "between")
              \/ /\ mem' = [mem EXCEPT ![r] = [status EXCEPT !.status = "failed"]]
                 /\ Goto(r, "finish")
                 /\ UNCHANGED rows
    /\ UNCHANGED <<api, pos, crawled, tally, table>>

\* Any exception of prepare, of the selection, of a batch or of the cancel check.
Fail(r) ==
    /\ pc[r] \in {"select", "between", "crawl", "record"}
    /\ mem' = [mem EXCEPT ![r].status = "failed"]
    /\ DropBatch(r)
    /\ pos' = [pos EXCEPT ![r] = mem[r].processed]
    /\ Goto(r, "finish")
    /\ UNCHANGED <<rows, api, cand, table>>

\* Mutant: the last save is left out.
BugNoFinalSave(r) ==
    /\ pc[r] = "finish"
    /\ Goto(r, "done")
    /\ UNCHANGED <<rows, mem, api, thread, table>>

\* finally: finished_at is set and the whole copy is written.
Finish(r) ==
    /\ pc[r] = "finish"
    /\ SaveStatus(r, mem[r])
    /\ Goto(r, "done")
    /\ UNCHANGED <<mem, api, thread, table>>

\* The first read and the last save are outside the try: an exception there
\* ends the thread and leaves the row as it is.
LoseThread(r) ==
    /\ pc[r] \in {"spawned", "finish"}
    /\ Goto(r, "dead")
    /\ mem' = [mem EXCEPT ![r] = NewRow("absent")]
    /\ cand' = [cand EXCEPT ![r] = <<>>]
    /\ pos' = [pos EXCEPT ![r] = 0]
    /\ UNCHANGED <<rows, api, crawled, tally, table>>

(***************************************************************************)
(* The loop over the batches                                               *)
(***************************************************************************)
\* Mutant: the reason read from the row is not copied, so the next save wipes it.
BugReasonNotCopied(r) ==
    /\ pc[r] = "between"
    /\ mem[r].processed < Len(cand[r])
    /\ rows[r].cancel # NoReason
    /\ mem' = [mem EXCEPT ![r].status = "cancelled"]
    /\ Goto(r, "finish")
    /\ UNCHANGED <<rows, api, thread, table>>

NoticeCancel(r) ==
    /\ pc[r] = "between"
    /\ mem[r].processed < Len(cand[r])
    /\ rows[r].cancel # NoReason
    /\ mem' = [mem EXCEPT ![r].status = "cancelled", ![r].cancel = rows[r].cancel]
    /\ Goto(r, "finish")
    /\ UNCHANGED <<rows, api, thread, table>>

\* Mutant: the next batch starts without looking for a cancel request.
BugNoCancelCheck(r) ==
    /\ pc[r] = "between"
    /\ mem[r].processed < Len(cand[r])
    /\ Goto(r, "crawl")
    /\ UNCHANGED <<rows, mem, api, thread, table>>

NextBatch(r) ==
    /\ pc[r] = "between"
    /\ mem[r].processed < Len(cand[r])
    /\ rows[r].cancel = NoReason
    /\ Goto(r, "crawl")
    /\ UNCHANGED <<rows, mem, api, thread, table>>

\* Mutant: the loop ends without setting the status.
BugStillRunning(r) ==
    /\ pc[r] = "between"
    /\ mem[r].processed = Len(cand[r])
    /\ Goto(r, "finish")
    /\ UNCHANGED <<rows, mem, api, thread, table>>

Complete(r) ==
    /\ pc[r] = "between"
    /\ mem[r].processed = Len(cand[r])
    /\ mem' = [mem EXCEPT ![r].status = "completed"]
    /\ Goto(r, "finish")
    /\ UNCHANGED <<rows, api, thread, table>>

(***************************************************************************)
(* _run_one_batch: crawl every job, score the crawled ones in one call,    *)
(* record what came back.                                                  *)
(***************************************************************************)
BatchEnd(r) ==
    IF mem[r].processed + BatchSize < Len(cand[r])
    THEN mem[r].processed + BatchSize
    ELSE Len(cand[r])

Sum(a, b) == [rescored   |-> a.rescored + b.rescored,
              notFound   |-> a.notFound + b.notFound,
              crawlError |-> a.crawlError + b.crawlError,
              errored    |-> a.errored + b.errored]

Count(r, outcome) == tally' = [tally EXCEPT ![r] = Sum(@, outcome)]
Rescored   == [NoCounts EXCEPT !.rescored = 1]
NotFound   == [NoCounts EXCEPT !.notFound = 1]
CrawlError == [NoCounts EXCEPT !.crawlError = 1]
Errored    == [NoCounts EXCEPT !.errored = 1]

CrawlStep(r) ==
    /\ pc[r] = "crawl"
    /\ pos[r] < BatchEnd(r)
    /\ pos' = [pos EXCEPT ![r] = @ + 1]
    /\ UNCHANGED <<rows, mem, pc, api, cand, firstEval, purged>>

CrawlOk(r) ==
    /\ CrawlStep(r)
    /\ crawled' = [crawled EXCEPT ![r] = Append(@, cand[r][pos[r] + 1])]
    /\ UNCHANGED <<tally, matches>>

\* The posting is gone: a non-match is recorded, and counted whether the INSERT went through or not.
CrawlNotFound(r) ==
    /\ CrawlStep(r)
    /\ RecordJobResult(cand[r][pos[r] + 1], args[r].version, "gone")
    /\ Count(r, NotFound)
    /\ UNCHANGED crawled

\* No job_url, or a CrawlError: nothing is written, a later run retries the job.
CrawlFailed(r) ==
    /\ CrawlStep(r)
    /\ Count(r, CrawlError)
    /\ UNCHANGED <<crawled, matches>>

\* score_jobs_batch returned; which jobs it scored is decided as they are recorded.
Score(r) ==
    /\ pc[r] = "crawl"
    /\ pos[r] = BatchEnd(r)
    /\ crawled[r] # <<>>
    /\ Goto(r, "record")
    /\ UNCHANGED <<rows, mem, api, thread, table>>

RecordStep(r) ==
    /\ pc[r] = "record"
    /\ crawled[r] # <<>>
    /\ crawled' = [crawled EXCEPT ![r] = Tail(@)]
    /\ UNCHANGED <<rows, mem, pc, api, cand, pos, firstEval, purged>>

\* Mutant: the Boolean of record_job_result is ignored.
BugCountDuplicate(r) ==
    LET job == Head(crawled[r]) IN
    /\ RecordStep(r)
    /\ \E result \in MT!Scored : RecordJobResult(job, args[r].version, result)
    /\ Count(r, Rescored)

RecordScored(r) ==
    LET job == Head(crawled[r]) IN
    /\ RecordStep(r)
    /\ \E result \in MT!Scored : RecordJobResult(job, args[r].version, result)
    /\ IF Accepted(job, args[r].version) THEN Count(r, Rescored) ELSE UNCHANGED tally

\* Mutant: a job without a score is skipped and not counted.
BugSkipMissing(r) ==
    /\ RecordStep(r)
    /\ UNCHANGED <<tally, matches>>

RecordMissing(r) ==
    /\ RecordStep(r)
    /\ Count(r, Errored)
    /\ UNCHANGED matches

(***************************************************************************)
(* The batch is over: its outcome is added and the copy saved.  When the   *)
(* save raises, the counters have moved already and the run fails.         *)
(***************************************************************************)
\* Mutant: the batch size is added, not the length of the batch.
BugBatchSizeAdded(r) == [mem[r] EXCEPT !.processed = @ + BatchSize,
                                       !.counts = Sum(mem[r].counts, tally[r])]

Tallied(r) == [mem[r] EXCEPT !.processed = BatchEnd(r),
                             !.counts = Sum(mem[r].counts, tally[r])]

BatchDone(r) ==
    /\ pc[r] \in {"crawl", "record"}
    /\ pos[r] = BatchEnd(r)
    /\ crawled[r] = <<>>
    /\ \/ /\ mem' = [mem EXCEPT ![r] = Tallied(r)]
          /\ SaveStatus(r, Tallied(r))
          /\ Goto(r, "between")
       \/ /\ mem' = [mem EXCEPT ![r] = [Tallied(r) EXCEPT !.status = "failed"]]
          /\ Goto(r, "finish")
          /\ UNCHANGED rows
    /\ DropBatch(r)
    /\ UNCHANGED <<api, cand, pos, table>>

(***************************************************************************)
(* A redeploy: every thread and handler of the process is gone.            *)
(***************************************************************************)
Crash ==
    LET lost == {r \in Runs : pc[r] \in InHandler \cup InThread}
        Wipe(f, none) == [r \in Runs |-> IF r \in lost THEN none ELSE f[r]]
    IN
    /\ lost # {} \/ cancelling # {}
    /\ pc' = Wipe(pc, "dead")
    /\ mem' = Wipe(mem, NewRow("absent"))
    /\ toAsk' = Wipe(toAsk, {})
    /\ cand' = Wipe(cand, <<>>)
    /\ pos' = Wipe(pos, 0)
    /\ crawled' = Wipe(crawled, <<>>)
    /\ tally' = Wipe(tally, NoCounts)
    /\ cancelling' = {}
    /\ UNCHANGED <<rows, args, asked, table>>

Handler(r) == StartAsk(r) \/ StartRun(r) \/ CancelWrite(r)

ThreadStep(r) ==
    \/ Fetch(r) \/ Select(r) \/ Fail(r) \/ Finish(r) \/ LoseThread(r)
    \/ NoticeCancel(r) \/ NextBatch(r) \/ Complete(r)
    \/ CrawlOk(r) \/ CrawlNotFound(r) \/ CrawlFailed(r)
    \/ Score(r) \/ RecordScored(r) \/ RecordMissing(r) \/ BatchDone(r)

\* The matching cycle and the scraper write the same tables.
OtherWriters ==
    \/ \E j \in Jobs : LiveResult(j)
    \/ \E stale \in SUBSET (Purgeable \ purged) : Purge(stale)

Next ==
    \/ \E r \in Runs : StartList(r) \/ CancelRead(r) \/ Handler(r) \/ ThreadStep(r)
    \/ OtherWriters
    \/ Crash

Spec == Init /\ [][Next]_vars

(***************************************************************************)
(* A thread that can step does: its calls either return or raise (retries  *)
(* are counted, the crawler has a timeout; that a call to the provider     *)
(* itself comes back is assumed).  A handler finishes its request.  Nobody *)
(* is obliged to start or cancel a run.                                    *)
(***************************************************************************)
Fairness == \A r \in Runs : WF_vars(ThreadStep(r)) /\ WF_vars(Handler(r))

FairSpec == Spec /\ Fairness

(***************************************************************************)
(* Safety                                                                  *)
(***************************************************************************)
CountSum(c) == c.rescored + c.notFound + c.crawlError + c.errored

RowAddsUp(row) ==
    /\ CountSum(row.counts) <= row.processed
    /\ row.candidates # NoCount => row.processed <= row.candidates
    /\ row.candidates = NoCount => row.processed = 0
    /\ row.status = "completed" => row.processed = row.candidates

\* What GET /backfill/runs shows adds up at any time: every counted outcome belongs to
\* a processed candidate, no run processes more than it selected, and a run is
\* completed only when the loop has gone through the whole selection.
CountersBounded == \A r \in Runs : RowAddsUp(rows[r])

\* Jobs of a set that are still listed and have no result under the version of the run.
Unanswered(r, jobs) == {j \in jobs \ purged : Fresh(j, args[r].version)}

\* No candidate of a completed run that is still listed is dropped in silence: one that has no
\* result under the target version was counted as crawl_error or errored, whatever other runs
\* and the purge did to the candidates meanwhile.  (One that is purged before its record is
\* dropped, or counted as not found without a row.)  (_run_one_batch, rescore_with_prompt.py:51-143)
CompletedCoverage ==
    \A r \in Runs :
        rows[r].status = "completed" =>
            Cardinality(Unanswered(r, Range(cand[r])))
                <= rows[r].counts.crawlError + rows[r].counts.errored

\* The rescored counters of all runs together never claim more than the results stored (those
\* that a purge has deleted since among them): when two runs race on a job only the one whose
\* INSERT went through counts it (record_job_result's Boolean).
RescoredBacked ==
    FoldFunction(LAMBDA a, b : a + b, 0, [r \in Runs |-> rows[r].counts.rescored])
        <= Cardinality({c \in Jobs \X Targets : matches[c] \in MT!Scored})

\* A run ends cancelled only when somebody asked while it ran, its row then says why,
\* and a run never names itself as the one that superseded it.
CancelledOnRequest ==
    \A r \in Runs :
        /\ rows[r].status = "cancelled" => asked[r] /\ rows[r].cancel # NoReason
        /\ rows[r].cancel # r

\* Once a thread has finished, the durable row is the thread's own last word, except
\* for cancel_reason, which a late request may still set.
RowIsFinalCopy ==
    \A r \in Runs : pc[r] = "done" =>
        /\ rows[r].status \in Log!Ended
        /\ [rows[r] EXCEPT !.cancel = NoReason] = [mem[r] EXCEPT !.cancel = NoReason]

\* The table of runs behaves as RunLog: one life per run id, no end is ever undone and
\* progress never goes back, whatever handlers write between a thread's saves.
ImplementsRunLog == Log!LogSpec

\* The table of results behaves as MatchTable: the first result of a pair stays,
\* through cancellation, supersession, failure, crash and racing runs.  (What a purge deletes
\* stays in `matches` as history; its pairs are never inserted again.)
ImplementsMatchTable == MT!TableSpec

(***************************************************************************)
(* Liveness                                                                *)
(***************************************************************************)
\* A run shown as running reaches one of its ends, unless its thread was lost.
RunSettles ==
    \A r \in Runs :
        rows[r].status = "running" ~> rows[r].status \in Log!Ended \/ pc[r] = "dead"

\* A cancel request that is in the row when the thread is at a batch boundary with
\* work left stops the run there.
BoundaryCancelHonoured ==
    \A r \in Runs :
        pc[r] = "between" /\ rows[r].cancel # NoReason /\ mem[r].processed < Len(cand[r])
            ~> rows[r].status \in {"cancelled", "failed"} \/ pc[r] = "dead"

(***************************************************************************)
(* The inductive invariant behind the theorems of BackfillRuns_proofs: how *)
(* row, copy and batch of one run are related at each point of its thread. *)
(***************************************************************************)
\* The row: absent before the thread, running under it, the thread's last word after.
RowInv(r) ==
    /\ RowAddsUp(rows[r])
    /\ rows[r].status = "absent" => rows[r].processed = 0
    /\ pc[r] \in {"idle", "listing"} => rows[r].status = "absent"
    /\ pc[r] \in InThread => rows[r].status = "running"
    /\ pc[r] = "spawned" => rows[r].candidates = NoCount
    /\ pc[r] = "done" =>
          /\ rows[r].status \in Log!Ended
          /\ [rows[r] EXCEPT !.cancel = NoReason] = [mem[r] EXCEPT !.cancel = NoReason]

\* The copy adds up too, and the row never runs ahead of it.
MemInv(r) ==
    /\ pc[r] \in InThread \ {"spawned"} =>
          RowAddsUp(mem[r]) /\ rows[r].processed <= mem[r].processed
    /\ pc[r] \in {"select", "between", "crawl", "record"} => mem[r].status = "running"
    /\ pc[r] = "finish" => mem[r].status \in Log!Ended
    /\ pc[r] = "select" => mem[r].candidates = NoCount
    /\ pc[r] \in {"between", "crawl", "record"} => mem[r].candidates = Len(cand[r])

\* Every candidate of the batch in flight is counted once: in the tally, in the list of
\* crawled jobs, or (a refused insert) nowhere.
BatchInv(r) ==
    /\ pc[r] \in {"idle", "listing", "spawned", "select", "between"} =>
          crawled[r] = <<>> /\ tally[r] = NoCounts
    /\ pc[r] \in {"idle", "listing", "spawned", "select"} => pos[r] = 0
    /\ pc[r] = "between" => pos[r] = mem[r].processed
    /\ pc[r] \in {"crawl", "record"} =>
          /\ mem[r].processed <= pos[r] /\ pos[r] <= BatchEnd(r)
          /\ CountSum(tally[r]) + Len(crawled[r]) <= pos[r] - mem[r].processed

\* A reason is somewhere only because somebody asked.
CancelInv(r) ==
    /\ rows[r].status = "running" /\ rows[r].cancel # NoReason => asked[r]
    /\ pc[r] \in InThread \ {"spawned"} /\ mem[r].cancel # NoReason => asked[r]
    /\ pc[r] = "finish" /\ mem[r].status = "cancelled" => mem[r].cancel # NoReason
    /\ rows[r].status = "cancelled" => asked[r] /\ rows[r].cancel # NoReason
    /\ rows[r].cancel # r /\ mem[r].cancel # r /\ r \notin toAsk[r]

RunInv(r) == RowInv(r) /\ MemInv(r) /\ BatchInv(r) /\ CancelInv(r)

IInv == TypeOK /\ \A r \in Runs : RunInv(r)

(***************************************************************************)
(* What CompletedCoverage and RescoredBacked need beside IInv.             *)
(***************************************************************************)
Failures(c) == c.crawlError + c.errored

\* Candidates whose crawl is over and that wait for no record.
Settled(r) == {cand[r][k] : k \in 1..pos[r]} \ Range(crawled[r])

\* A settled candidate without a result has been counted as a failure, at every point of
\* the thread and in the row it leaves.
CoverInv(r) ==
    /\ pc[r] \in {"between", "crawl", "record"} =>
          Cardinality(Unanswered(r, Settled(r))) <= Failures(mem[r].counts) + Failures(tally[r])
    /\ pc[r] = "finish" /\ mem[r].status = "completed" =>
          Cardinality(Unanswered(r, Range(cand[r]))) <= Failures(mem[r].counts)
    /\ rows[r].status = "completed" =>
          Cardinality(Unanswered(r, Range(cand[r]))) <= Failures(rows[r].counts)

\* Each result that a run has counted, in its copy or in the row, can be named as its own.
ClaimInv(r, own) ==
    /\ own[r] \subseteq {c \in Jobs \X Targets : matches[c] \in MT!Scored}
    /\ rows[r].counts.rescored <= Cardinality(own[r])
    /\ pc[r] \in InThread \ {"spawned"} =>
          mem[r].counts.rescored + tally[r].rescored <= Cardinality(own[r])
    /\ \A s \in Runs \ {r} : own[r] \cap own[s] = {}

ScoreInv ==
    /\ \A r \in Runs : pc[r] # "idle" => args[r].version \in Targets
    /\ \E own \in [Runs -> SUBSET (Jobs \X Targets)] : \A r \in Runs : ClaimInv(r, own)

IInvCover == IInv /\ \A r \in Runs : CoverInv(r)
IInvScore == IInv /\ ScoreInv

=============================================================================

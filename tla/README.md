# Formal model of FatherOfProjects

TLA+ modules, TLC configurations and TLAPS proofs for the job-matching system in
this repository. The reference is the code; where a doc and the code differ, the
modules follow the code and the difference is listed under *Known departures*.

## 1. Inventory

The system scrapes job postings into Postgres, scores them against a profile with
an LLM, and shows the results. Four processes share one Postgres database, one
Redis and one MLflow server.

| Component | Where | State it keeps | Operations | Hard behaviour |
|---|---|---|---|---|
| **Backfill runs** | `JobManagerAgent/backfill/`, `api/backfill.py` | table `backfill_runs`; in each daemon thread a `BackfillRunStatus` and the candidates | trigger (supersedes running runs), cancel, the thread's batches | row and thread copy drift apart; handlers and threads interleave; redeploys |
| **Rate limiter** | `utils/rate_limiter.py`, `api/admin.py` | a Redis sorted set per bucket and model; hash of caps and quota | `acquire`, usage, distribution of caps | count and add are separate commands; clock; expiry |
| **Prompt registry** | `integrations/mlflow/prompt_registry.py`, `api/admin.py`, startup in `api/app.py` | versions and alias in MLflow; `prompt_active_history` in Postgres | bootstrap, promote, revert, register the variants at startup | two stores without a transaction; edited files; concurrent requests |
| **Agent worker, stream consumer** | `api/agent_worker.py`, `integrations/streaming/stream_consumer.py` | a consumer group: last delivered id and pending entries; the one worker thread | boot cycle, read, handle, acknowledge, idle cycle | lost replies, uncaught errors, restarts |
| **Matching cycle** | `agents/react_agent.py`, `tools/agent_tools.py`, `tools/db_tools.py`, `guardrails/`, feature flags | `job_matches`; within a cycle urls, details, scores, prompt version, call count | four tools chosen by an LLM, flag check, limits | the order of tool calls is the LLM's; promotions in between |
| **Provider calls** | `llm_providers/`, `utils/billing_status.py` | in Redis the cooldown of the primary model and the two keys of the billing alert; in a call its two retry counts | call with fallback, retries, bench, alert; parse of a reply | the cooldown is checked and set by different threads; Redis away; partial replies |
| **Schema migrations** | `scripts/run_migrations.py`, `scripts/migrations/` | `schema_migrations`, the catalog and the rows it rewrites | create the tables, read the ledger, apply what is missing, serve | overlapping boots; writers of the old and the new release meanwhile |
| **Offline evaluation** | `api/eval_runs.py`, `evals/` | MLflow runs; in the thread the rows | trigger, chunks of cases, trials, metrics, result | partial replies; MLflow away at any call; a daemon thread that is killed |
| **Scrape pipeline** | `WebScraper/` | `job_listings`, event stream | scrape, upsert per source, purge, publish events | purge against concurrent matching; duplicates within a scrape; failures after a commit |
| **Job data server** | `JobDataServer/` | none of its own | create, patch, delete; lists, funnel and match queries | read and write of a request are apart |
| **Observability server** | `ObservabilityServer/` | node and edge states, cursors, subscriber queues | seed, poll streams, apply, broadcast, snapshot | failed polls, restarts, `$` between polls |
| **Dashboards** | `*Dashboard/` | the last snapshot; a connection | subscribe, fetch, reconnect | updates that arrive during a fetch or a reconnection |
| Metrics, topology, summary | `integrations/metrics/`, `api/agent_topology.py`, `api/mlflow_summary.py` | none | reports | the summary may bootstrap the alias (a reader of PromptRegistry) |
| Crawler, guardrail text checks | `services/crawler.py`, `guardrails/injection.py` | none | fetch, match text | enter the models as the outcomes they report |
| MLflow launcher | `MLflowServer/` | none | builds a command line and executes it | — |

How they interact: the scraper writes `job_listings` and publishes
`pipeline_completed`; the worker's consumer answers with a live matching cycle, and
with a backfill-mode cycle when the stream is idle. A cycle resolves the prompt
version behind the alias `production` once, and its tools read listings and insert
`job_matches` under that version. A backfill *run* (an operator's, unrelated to the
backfill *mode* of cycles) inserts rows for jobs that already have a result under some
other version, and an eval scores the cases of a golden dataset. All three call the provider, and
every call to it passes the rate limiter. Feature flags are read at the start of a cycle and of a scrape.
A purge deletes matches with their listing, and JobDataServer writes the same table. Both publish what
they do on streams of their own, which ObservabilityServer follows and shows on its dashboard.

What makes the parts correct:

- *backfill runs*: the counters describe what happened; every candidate is accounted
  for; a run ends, for good; a cancel that is seen is honoured; racing runs never
  overwrite or double count a result;
- *rate limiter*: the window's overrun is bounded; waiting callers get on;
- *prompt registry*: the history is true; variants are registered once; batch prompts
  are not promoted;
- *worker*: entries are served at most once and acknowledged after their cycle;
- *cycle*: one result per job from live matching; a bounded number per cycle; results
  stay;
- *provider calls*: a call costs a bounded number of network calls and ends; a benched model is left alone;
  an exhausted account is told;
- *migrations*: ledger and catalog agree; nothing is applied twice; no match loses its listing; an old
  database comes up;
- *evals*: a completed eval is whole, each row has its own score, each eval comes to an end that is told;
- *listings and matches*: a write stage lands its scrape; matches go only with their listing; stale listings
  go; the stream tells what was committed;
- *observability*: entries are applied in order, none twice; no error is forgotten early; the dashboard ends up
  current.

## 2. Modules

| Module | Models |
|---|---|
| `RunLog` | abstract: what `GET /backfill/runs` promises of one run's life |
| `MatchTable` | abstract: what `job_matches` promises; the first result of a (job, version) stays |
| `BackfillRuns` | `backfill/engine.py`, `api/backfill.py`, `backfill/processes/rescore_with_prompt.py` |
| `RpmLimiter` | `RedisRpmLimiter` as the provider calls it, and the admin endpoints on it |
| `PromptRegistry` | `prompt_registry.py` with its endpoints and its startup step |
| `MatchingWorker` | worker, consumer, cycle and tools; the scraper and operators as environment |
| `ProviderCalls` | `call_scoring_model`, `call_model` with its cooldown and fallback, the billing alert |
| `BatchScoring` | pure: what `score_job` and `score_jobs_batch` make of any reply of the model |
| `ToolTrial` | pure: one trial of the tool-selection eval and the verdicts on it |
| `EvalRuns` | an eval run from its trigger to `GET /evals/{eval_id}`; uses `BatchScoring` and `ToolTrial` |
| `Migrations` | `run_migrations.py`, the seven migrations, `create_all`, the writers of both releases |
| `JobStore` | the scrape pipeline, the writing requests of JobDataServer and the agent on two tables |
| `StreamMonitor` | ObservabilityServer and the stream hook of its dashboard |
| `MC*` | instances for TLC |
| `*_proofs` | theorems checked by TLAPS |

`BackfillRuns` and `MatchingWorker` are two writers of one table, and both are
shown to implement `MatchTable`. `BackfillRuns` also has the matching cycle's
inserts as an action (`LiveResult`), so a run races with it on the same rows;
`MatchingWorker` has promotions (`Promote`), the part of `PromptRegistry` a cycle
can see. One process of JobManagerAgent is assumed in both, as deployed; a redeploy is
`Crash`, which wipes what is in memory and nothing else. `Migrations` is about the moment when
there are two.

### State and steps against the code

**BackfillRuns.** `rows` is the table, `mem` the status object the thread works on,
`pc` where the start handler and then the thread is. Each database session is one
step. `StartList`, `StartAsk`, `StartRun` are `start_backfill_run`; `CancelRead` and
`CancelWrite` the cancel endpoint, which tests the status it read before it writes.
`Fetch`, `Select`, `NoticeCancel`, `NextBatch`, `Complete`, `Finish` are `_execute`;
`Fail` is its `except`, `LoseThread` an exception outside of it. `CrawlOk`,
`CrawlNotFound`, `CrawlFailed`, `Score`, `RecordScored`, `RecordMissing` are the paths
of a candidate through `_run_one_batch`, one job per step; `BatchDone` adds the outcome
to the counters and saves, and the save may fail. `_save_status` writes every
column of the copy. `cand` is chosen by `Selections`, the query
`reprocess_candidates_stmt` with its order and limit. `Purge` is the transaction of
`purge_stale_jobs` for the listings in `Purgeable`; `Accepted` says whether PostgreSQL takes
the insert of `record_job_result`, which a row that is there and a listing that is gone (`purged`) refuse alike.
`matches` keeps the rows of purged listings as history: their ids are never used again.

**RpmLimiter.** One Redis command per step: `Trim` (ZREMRANGEBYSCORE), `CountMembers` (ZCARD),
`AddMember` (ZADD), `Expire`, and the sleep. `stage` is where a caller is. Members carry their age instead of a time stamp,
so time has no horizon; `lag` is how old a thread's reading of the clock is. `CapBucket` is
the provider's choice of cap. `peak`, the largest cap so far, is a history variable:
`effective_cap` is read once per call and an operator may lower the cap meanwhile.

**PromptRegistry.** `versions` holds the template of each version as the file it came
from and what the file said, since the registry knows a version by its text
(`_resolve_schema_mode`). Every call to MLflow or Postgres is a step and may fail. A
promotion reads the previous alias (`Previous`), sets the new one (`SetAlias`), takes the
time (`Stamp`) and inserts the history row. A bootstrap goes through `ReadUnaliased`,
`Register`, `SetAlias`, and records no previous version. Readers that find an alias
change nothing and are no step. `timeline` is a history variable: the values of the alias.

**MatchingWorker.** `listings` is `job_listings` in the order of `updated_at`, `stream` the
event stream, `delivered` and `pending` the consumer group, `inHand` the reply being
worked on. The tools change `urls`, `details`, `scores`, the dictionaries of
`build_agent_tools`, and `matches`; each is enabled when the guardrail lets it through,
and a blocked or failed call (`FruitlessCall`) uses up a call. The LLM is
nondeterminism: any tool, any job, any order, or the end. `CallLimit` is
`3 * MaxJobs + 4`, as in `config.py`. The models of the batch answer and of the text
checks are not here; a verdict is `match` or `nonmatch`.

**ProviderCalls.** A caller is a thread inside `call_scoring_model`, `pc` its next Redis command or network call.
`Check` is `_is_primary_in_cooldown`, `AskPrimary` and `AskFallback` the two network calls with every
reply the SDK can turn into a result or an exception, `Bench` is `_set_primary_cooldown`,
`RetryTransient` and `RetryLimited` the two budgets and `Wake` the end of the backoff. `RecordAt` and `RecordMessage`
are the two SETs of the alert and `ResetBillingStatus` the operator's one DEL. The time to live of the
key is `cooldown`. History variables count the calls of a call and of a bench.

**Migrations.** `schema` is the catalog as a set of columns, keys and tables, `tracking` the ledger, `source`, `link`
and `rubric` the columns that migrations fill in. A migration looks at the catalog (`Look`) and commits later
(`Commit`), together with its tracking row, on what it saw; `LookHolds` and `Accepts` are what
its statements need of the tables by then, and `Refused` is the error. `CreateTables` is `create_all`.
`OldScrape`, `OldMatch`, `NewScrape`, `NewMatch`, `DeleteJob` and `SetFlag` are the writers that go on.

**BatchScoring, ToolTrial.** Operators without state. A reply is the sequence of complete items of the array, each with the
id it echoes, and whether it is cut off; `Answers` is the loop over the parsed items, `Parses` what
`MatchResponseError` leaves. `UseTool` is one call of a mock tool with its phases and guardrail errors;
`Adherent` and `Accurate` are the two verdicts of `_run_one_trial`.

**EvalRuns.** `Trigger` is the request, the labels of `pc` are the calls of MLflow in the order of the thread, and each
of them may fail. `ScoreCase`, `ScoreChunk`, `CheckCase` and `RunTrial` are the loop bodies of the four kinds of
eval; `RowsOf` maps the synthetic ids of a chunk back to its cases. `run` is what MLflow keeps and
`View` what the endpoint makes of it. `Kill` ends the daemon thread.

**JobStore.** `rows` has of each listing whether it is there, how often it has been inserted (its surrogate id), its
content and its age. A run goes through `Scrape`, `Write`, `PurgeSelect`, `PurgeMatches`, `PurgeListings`
and `Complete`; `existing` and `stale` are what it read before it writes, `cut` the matches its open transaction has deleted.
`Refuses` is what makes PostgreSQL refuse the transaction of a source. `Write` commits before it publishes, so a
failure of its event is a branch of its own (`Advance` or `Fails`). Each request of JobDataServer is a read
(`Receive...`) and a write; `RecordJobResult` is the agent's insert with the foreign key.

**StreamMonitor.** An entry is its stream and its place in it. `cursor` is `_last_ids`, `asked` what XREAD was called with, `todo`
the rest of a response. `SeedRead` and `SeedApply` are `_seed_from_recent_entries`, `Poll`, `Respond`, `PollFails`,
`Wake` and `ApplyNext` the loop of the poller; `Apply` is `_apply_entry` with the nodes it marks.
`Subscribe` ... `FetchFails` are the dashboard: its EventSource, the queue of its subscription, and the fetch
that each message starts again, unless it is the first, which the message joins (`Refetch`). `Restart` replaces the server process.

## 3. Runs

| Run | Question | Bounds and why they are enough |
|---|---|---|
| `BackfillRace` | do two runs, cancels, the live cycle, failures, a purge and a redeploy keep results, rows and causes right? do both abstract tables hold? | two runs is what it takes for supersession and for a race on one job; one job, batches of one, makes the race certain; it may be purged at any time |
| `BackfillBatches` | do the counters add up, is every candidate accounted for, does a run settle, is a visible cancel honoured? | three jobs, scored by the live cycle before the run begins, in batches of two: a full batch, then a short one, in each of which one may be purged; limits 0 (the default) and 1 |
| `RpmLimiter` | how far is a window overrun, and does a sleeper's bucket make progress? | two callers of one bucket, cap 2 lowered to 1; a body that fits its quota, and one that is refused |
| `PromptRaces` | is the history true, are variants unique, do batch prompts stay out? | two operators and a bootstrapping reader; three files, one per `schema_mode`; two deploys, the second with the batch file edited; 4 versions and 2 moves suffice for each file to be registered and for one change to overlap another |
| `WorkerCycle` | what can an arbitrary LLM do to the results? | `MaxJobs` 2 of 3 jobs, so that a second batch exists; the call limit is the code's; two versions |
| `WorkerStream` | what happens to stream entries through lost replies, errors and restarts? | three events of both types, two per read: a read of several entries, of a trigger and another |
| `ProviderCalls` | what does a call cost, is a benched model left alone, is an exhausted account told, does a call end? | two callers share the key; one retry of each budget, so that the two interleave; a cooldown of one tick, so that it ends during a call; one Redis error |
| `Migrations` | do ledger and catalog agree while two boots overlap on an old or a new database and writers go on? | two boots are an overlap; two jobs, so that a match could be led to the wrong listing; one death anywhere |
| `Migrations_FreshBoots` | does a new database come up? (no, see section 4) | as above, without deaths |
| `EvalRuns` | is a completed eval whole, has each row its own score, does an eval end? | three cases in chunks of two: a full chunk and a short one; two items per reply, with ids of the chunk and one unknown; two trials of up to five calls, one more than the longest plan; one failure of MLflow |
| `JobStore` | does the stream tell the truth, do writes land, do matches and listings go together, do stale listings go? | one listing of a purged source, which may come back once, and one of another; one request at a time, against the pipeline and the agent; one fault |
| `StreamMonitor` | are entries applied in order, errors kept, is the dashboard current, do entries reach it? | three entries of two streams, one per response, so that a response ends before the stream does; two times, with a window of none, so that an error can be too old; both streams carry errors, so that those of a shared node may be out of order; one fault |

`MaxEvents`, `MaxVersions`, `MaxChanges`, `MaxDeaths`, `MaxFaults`, `MaxItems`, `MaxCalls`, `MaxInserts`, `MaxEntries` and `MaxClock`
are bounds of the models, not of the code (the recursion limit of a trial apart); a call that would exceed one does not happen. Where these run out the
system stops, so the backfill, eval, store and monitor runs do not check for deadlock; all others do.

Properties worth a word: `ImplementsRunLog` and `ImplementsMatchTable` are
refinements. `BatchOnlyWhenEdited` is what is left of "never a batch prompt" (see
below). `EvaluatedIsRecorded` rests on the arithmetic of the limit of calls: a second batch would
need a call to fetch, and three for each job of the first, and three for one more job,
`3 * MaxJobs + 5`, one more than there is. `RescoredBacked` needs the Boolean of
`record_job_result`: a run that loses the race on a job must not count it. `AckedAfterCycle`
and `ServedOnce` together say that a crash can lose a trigger and never repeats it.
`SpendBounded` is exact: two budgets, two models per attempt, and the last call may be reached. `BenchHolds` allows
one call per caller and bench, made on a check from before it; a Redis that does not answer is excepted.
`SchemaSound` holds although every look at the catalog is stale when it is used: the tracking row is a
primary key, and `LookHolds` is what ALTER TABLE itself refuses. `WriteLandsScrape` excepts only listings that others
wrote between the two steps of `upsert_jobs`. `StaleGoes` needs the runs after a failed one: a
purge that the foreign key refuses is repeated. `ErrorsShown` is an inequality for the nodes that two streams
share, since the window is cut at the front only. `DashboardCurrent` needs the fetch that an update starts to
replace the one under way, and speaks of dashboards that had data when an update came: the first fetch is not replaced.
`CompletedCoverage` speaks of candidates that are still listed at the end, since a purged one is dropped (section 4).

### Fairness

- `BackfillRuns!FairSpec`: weak fairness of each thread and each handler. Every call of
  a thread returns or raises: the crawler has a timeout and provider retries are
  counted; that a single call to the provider comes back is an assumption, see `ProviderCalls`. Nobody is obliged to trigger or to cancel. `Crash` and `LoseThread` have no
  fairness, and the liveness properties except a lost thread.
- `RpmLimiter!LimiterFairSpec`: time passes, and each thread inside `acquire` runs. A particular caller may
  starve (there is no queue), so the property is progress of the bucket.
- `MatchingWorker!FairSpec`: the worker thread runs. The limit on calls ends every cycle.
- `ProviderCalls!FairSpec`: each caller inside a call runs on, and time passes. That a network call returns or raises is an
  assumption: `gemini_provider.py:49` sets no timeout, so it is up to the SDK and its transport.
- `Migrations!FairSpec`: a boot runs on, and one that has exited is started again by the platform. Deaths are
  bounded and not fair, and writers need not write; `LegacyBoots` excepts rows that an old writer leaves and the migrations refuse for good.
- `EvalRuns!FairSpec`: the thread goes on; kills and failures of MLflow are excepted by the property.
- `JobStore!FairSpec`: the pipeline is scheduled again and again and a run goes on. Requests, the agent and
  time are not obliged to anything.
- `StreamMonitor!FairSpec`: the event loop of the server and that of the browser go on; nobody has to publish.

## 4. Known departures

One is a run that TLC ends with a counterexample: `Migrations_FreshBoots`. `README.md:86-87` of the repository says that both
databases "auto-create their schemas on first use, no migration step needed". On an empty
database `create_all` makes the tables as the models declare them now, migration 0001 asks for a
`job_id` that `job_matches` no longer has, and no boot ever serves. `FreshBoots` states the claim.

The models contain further departures of the code from what it or its documents say. They have no run of their
own: one of the checked properties already speaks of the same step, or they concern data that is abstracted.

*Backfill runs and limiter*
- a cancelled run does not always stop "after its current in-flight batch": the save at the end of the batch writes the
  thread's older `cancel_reason` over the request (`BatchDone`); `BoundaryCancelHonoured` speaks of a request that is still there;
- "Only one backfill run is ever allowed": two triggers may list the running runs before either has written its row
  (`StartList`, `StartRun`), and neither is asked to stop;
- `limit=0` selects the default number of candidates (`EffectiveLimit`);
- a cancel that read `running` writes into a row that has finished (`CancelWrite`);
  `RowIsFinalCopy` therefore leaves `cancel` out;
- "that's treated as a successful no-op" (`db_tools.py:102`): every `IntegrityError` counts as a duplicate, the foreign key to
  a listing that was purged since the selection among them. Such a candidate is neither recorded nor counted
  (`RecordScored`), or counted as not found without a row (`CrawlNotFound`), and the run completes all the same;
- a redeploy leaves rows `running` without a thread (`Crash`); `RunSettles` excepts it;
- the limiter can exceed its cap by the callers of the bucket less one: `OverrunBounded` is
  exact about it;
- the "reserved" budget of the eval bucket is not used: the provider passes a cap for the backfill bucket only (`CapBucket`);
- caps are stored before the quota, in two commands (`PostCaps`, `PostQuota`).

*Prompt registry and worker*
- revert goes to the previous version of the last history row, which two promotions may both have
  recorded, not always to what was live "immediately before" (`Previous`, `SetAlias`);
- a bootstrap may move the alias off a version promoted meanwhile (`ReadUnaliased` ... `SetAlias`);
- a move whose history insert fails leaves no row (`Fail`); `NoPhantomRecord` is the direction
  that holds;
- the older text of an edited batch prompt counts as `legacy` and can be promoted (`SchemaMode`);
- not every `pipeline_completed` gets a cycle: the group is created after the boot cycle, at the end of the stream
  (`EnsureGroup`), and entries left pending by a crash are not read again (`ServedOnce` is the direction that holds);
- "historical backlog always makes progress": jobs that cannot be fetched are not recorded and fill every
  idle cycle from the old end (`Fetched`, `Unfetchable`);
- an error of Redis outside the handled ones ends the worker thread (`Die`); `EntriesAcked`
  allows for it;
- a pause does not wait for the cycle in flight (`CheckFlag`).

*Provider calls and evals*
- a client error of the primary model, which one bad prompt causes as well as a bad model, benches it for every caller (`AskPrimary`);
- the error for "connection dropped" (`base.py:69-72`) is raised for statuses of the API only; a connection that breaks
  is an exception of the HTTP library that nobody retries (`reply = "lost"`);
- "one truncated trailing item costs only itself" (`base.py:200-205`): a reply that the provider marks as truncated
  raises before it is parsed (`reply = "truncated"`); only an unmarked one is salvaged (`Parses`);
- of two items with one id the later one counts, and an id of no job is dropped without a word (`Answers`);
- a prompt version that does not exist is a `SystemExit`, which `except Exception` lets through: the eval has failed
  without the error that `GET /evals` promises (`Setup`, `FailureTold`);
- a run that is refused or loses MLflow before it is started is never found by its id (`View` is "404");
- several evals at once are called safe (`eval_runs.py:828`), but the active MLflow experiment is global to the process.

*Migrations*
- the guards of 0001 are called a "defense in depth" for a second application: after 0006 they would let it add a key on a
  column that is gone (`Accepts`, which is why a fresh database is stuck).

*Listings and matches*
- `updated_at` is said to reflect "not seen in a scrape since"; a listing that is seen again unchanged is not written
  and is purged all the same (`Upserted`);
- a listing that is patched between the select and the delete of the purge goes with the rest (`PurgeListings`);
- a failing source ends the run and skips the purge; an event that cannot be published after a commit fails the run too
  (`Write`, `StepFails`);
- two requests that delete one listing both succeed and both publish (`DeleteJob`);
- a foreign key violation counts as a duplicate in the agent (`RecordJobResult`);
- "good/moderate/bad/failed always sum to total_processed" (`JobDataServer/main.py:700`): each is a SELECT of its own under READ COMMITTED, so a
  match that is inserted between two of them is in one and not in the other. The funnel only reads and is not modelled.

*Observability*
- the stage of the scraper's writes is `write:<source>` and never `write`, so `ObservabilityServer/main.py:405` matches nothing
  (`NodesOf`);
- a warning after an error leaves an edge healthy (`main.py:435-446`; edges are not modelled);
- windows of errors are only trimmed when an entry comes (`Recorded`);
- a stream that was empty at start is followed from `$`, which every poll resolves anew: entries between two polls
  are missed (`Poll`; `AppliedInOrder` speaks of what follows the first one);
- an exception other than `RedisError` would end the poller without a trace; a response that is cancelled before it begins leaves
  its queue behind (`Disconnect`);
- a reconnection does not fetch by itself (`StreamBegins`), so `DashboardCurrent` speaks of dashboards that were told of
  something since; a failed fetch shows static data (`FetchFails`);
- an update that is read during the first fetch joins it (`Refetch`): when the snapshot was taken before the entry was applied, the
  dashboard shows the older state, with nothing queued and nothing asked, until the next update. This follows
  `invalidateQueries` of `@tanstack/react-query` ^5, whose source is not in the repository;
- the status in the header is computed from the cached graph (`ensureQueryData`, `hooks/index.ts:240-255`), which is
  invalidated in the same handler (`:284-285`) and may not have been fetched yet. That query is not modelled.

## 5. Proofs

TLAPS proves, for every value of the constants that satisfies the assumptions stated in the modules:

`BackfillRuns_proofs`
- `TypeCorrect`, `Inductive`: `IInv` is `TypeOK` and, for each run, `RunInv`. Neither the
  counters nor the reasons are inductive by themselves, as they hold in the row because of the copy
  and in the copy because of the batch in flight. So `RunInv` says, at each `pc`,
  how row, copy and batch are related: the row never runs ahead of the copy
  (`RowInv`, `MemInv`), each candidate of the batch is in the tally, in `crawled`, or
  passed over as refused (`BatchInv`), and a reason in row or copy has been asked for (`CancelInv`).
- `CountersAddUp`, `CancelledWithCause`, `LastWordKept`: the safety properties that follow.
- `CandidatesCovered`: a cardinality against two counters, so `CoverInv` bounds, at each `pc`, those listed without a result
  among the candidates that are settled (`Settled`: passed by the batch and not waiting in `crawled`). A candidate leaves that set when any
  run records it or its listing is purged, and enters it only together with a count; the table only gains results and a purged
  listing stays purged (`NoneShrinks`, `PurgedStay`).
- `CountedIsStored`: `ClaimInv` says that each result counted as rescored can be attributed to one run, so that the claims of the runs are
  disjoint sets of rows of the table; each run claims no fewer than it has counted, in row or copy and batch. The
  sum over the runs is then a cardinality, by induction over the finite set `Runs` (`FiniteAssumption`), as an order that is well-founded.
- `MatchTableRefined`, `RunLogRefined`: initial states map to initial states and each
  action to a step or a stutter of the abstract table.
- `RunsAreFinite`: a tuple of naturals (how far the thread is, the runs to ask or the candidates left, the part of the batch, the jobs of that
  part) that each step of the handler and of the thread lowers and that other runs, cancels, the live cycle, purges and crashes do not raise. `IInv` is
  not enough for the end of a batch: a batch without a candidate would lead back to where it began. So `NoEmptyBatch` is shown with it.

`EvalsAndLimiter_proofs`: an eval run and the limiter, which is all that evals under way have in common, side by side (the names of
`RpmLimiter` say of which of the two they are)
- `LimiterTypes`, and `Overrun`: the members of a window and the callers about to add one
  exceed the highest cap by less than the number of callers of the bucket. Inductive
  with the bound on each `effective_cap` by `peak`; the step is counting, by
  `FiniteSetTheorems`: a caller passes `CountMembers` only while members are below its cap.
  `LoneCaller`: a bucket with one caller keeps to its cap, the check before the ZADD is enough for it.
- `Inductive`: `RowsInv` says that the rows cover the cases before `at` (`Cover`: one row each, none about another case), `MetricsInv` that
  metrics are logged when `at` is past the last case, and that nothing but this leads to `FINISHED` (`Whole`), `FailureInv` that a run on its
  way to `FAILED` has told why. The rows of a chunk come from two places, the call for those without a resume of their own and one call
  for each of the others: `InOrder` lists a set of cases each once (`Enumerated`, by the smallest counterexample), `RowsOfCover` leads the ids of
  one call back to its cases, and `SinglesCover` and `Joined` put the parts together.
- `ScoresAreOwn` follows, and `ResultIsTold` with two more arguments. `SummaryAddsUp`: the counts of a result split the rows, and the
  `FoldLeft` over the successes is the cardinality of a set of pairs, row and success (`WinsAreWon`). `TrialInv`: as long as a trial has no contract
  violation, its calls are those of the plan up to where its job is (`Plan`), so that the two verdicts, one on the phases and one on the
  calls, come to the same (`VerdictsAgree`).
- `EvalsAreFinite`: every step of an eval lowers a tuple of naturals: its phase, the cases, the trials of the case and the calls of the trial that are left.

`PromptRegistry_proofs`
- `TypeCorrect`, `Inductive`, `HistoryIsTrue`: a row of the history is written three steps after the previous
  alias was read, and others move the alias in between. The invariant says what a thread
  knows in the meantime (`ThreadInv`): its previous version was live at some time, and once it has
  moved the alias, before that move. `timeline` only grows, so what was told stays told
  (`TimelineGrows`).
- `VariantsRegisteredOnce`: a startup knows the versions it has read, and nobody but
  the bootstrap registers while it runs (`VariantsKnown`).
- `RecordsHaveMoves`: by counting; the rows and the threads that have moved the alias and not
  recorded it yet (`Moved`) are together no more than the moves.
- `BatchRefused`: with the assumption that the sidecar of the bootstrap file does not say `batch`.
  The bootstrap in `get_active_prompt` is the one way to the alias that does not look at the
  mode (`job_match_v1.txt` has no sidecar, so the assumption holds in the repository).

`MatchingWorker_proofs`
- `TypeCorrect`: with `PlaceInv`, what the place of the worker says about the rest: a reply is in hand
  exactly while its entries are handled, and outside of the agent the dictionaries of the tools
  are empty.
- `MatchTableRefined`: only `CrawlNotFound` and `RecordResult` write, and both insert (`OnlyToolsWrite`).
- `OneVersion`: a job in `urls` has no result but under the version of the cycle. It is so when the
  job is fetched, because the anti-join looks at all versions, and the cycle writes under its own
  version only (`VersionInv`). The proof needs that no two cycles overlap.
- `OneBatchOnly`, `CountIsReal`: `CycleInv` counts calls. A cycle with any job fetched has made one call more
  than it has crawled, scored and counted, and two more if it has fetched more than
  `MaxJobs` jobs, which takes a second fetch (`FetchedLimit`: the query returns at most
  `MaxJobs`). More than `MaxJobs` counted jobs would then have cost `3 * MaxJobs + 5` calls.
- `Acked`, `Served`: `QueueInv` orders the entries in hand, puts them at or before `delivered`, and says that
  nothing beyond `delivered` was served and nothing in hand but the head, once its cycle is over.
- `CyclesAreFinite`: between two reads each step of the worker, whatever the LLM calls, lowers the entries in hand, its place in the loop, the
  stage of the cycle or the tool calls left, compared in this order; an error or a redeploy never raises them, and scraper and operators change none.

`ProviderCalls_proofs`
- `Inductive`: for each caller, what it has cost at each label (`Cost`: two calls for each attempt that is over, and those of the one it is
  in), whether it has reached a model that is benched (`Benched`), which keys of the alert are set (`Alerted`), and
  where one who was told of the end of the credits may be (`Billed`). `CallsBounded` alone is not inductive:
  it forgets how many of the attempts the calls belong to.
- `SpendIsBounded`, `BenchIsHeld`, `RaisedWasRecorded` follow; any number of callers, any budgets.
- `CallsAreFinite`: each step of a call lowers the attempts its budgets leave or the label of the attempt, and no other caller, operator or
  tick of the clock raises them.

`Migrations_proofs`
- `Inductive`: `Ledger` orders what is applied and bounds what each boot knows by it; `LegacyCatalog` says of each column when it is there,
  by what is applied; `LegacyRows` that a link leads to the listing of its own job. The step of a
  commit is seven cases, one per migration, each under a look that may be stale. `FreshStuck` is the invariant of a new database.
- `LedgerIsSound`, `MatchesKept` and, as an action property, `FlagsKept`; any number of boots, jobs, versions and flags.
- `RefusalsHaveCause`: a boot on a database of the first release is refused for a row that no migration can resolve or because another boot has
  committed since it read the ledger. It needs `Looked`: a look that no commit has outdated is what the catalog shows, for all elements but
  the table of flags, which the API writes to as well.
- `BootsComeCloser`: each step of such a boot makes the ledger grow or lowers `BootStage`, unless it is refused for such a row. The ledger
  has seven names, so this is the argument behind `LegacyBoots`, whoever overlaps.

`JobStore_proofs`
- `Inductive`: `TableInv` ties rows, matches and what pipeline and requests remember of them (`ScrapeOK`: a listing nobody has touched is as it
  was read; `PurgeOK`, `ReqOK`), and the rest says that the events of a run are a prefix of a whole run, by where it is.
- `StreamIsTruthful`, and as action properties `WritesLand` and `MatchesGoWithListings`; any listings, sources and requests.
  `SequenceAssumption` only says that `Sources` is a sequence that is not empty.
- `RunsAreFinite`: each step of a run of the pipeline, a failure or a kill included, lowers its stage, the sources or the half of the source that are left.

`StreamMonitor_proofs`
- `Inductive`: `PollerOK` bounds what the poller remembers by the streams; `SeedOK` and `BatchOK` describe what is left to apply: the last entries of the
  stream that was read, or those of one stream after those of another from its cursor on. `AppliedOK` then ties the last
  applied entry of each stream to its cursor, or to the place the seed has come to (`Mark`). `DashboardOK` says that
  a dashboard that had data when an update came (`news`), and has read its queue, fetches, or has fetched, all there is. `news` implies
  that there is a view, so the fetch under way is one that an update replaces.
- `ErrorsAreShown`: a lower bound for every node and equality for `scrape-yc-script`. The sequence that a node keeps is trimmed with each entry, and `Recent` is defined over all that was
  applied. `ErrorsOK` connects them by a trace: an increasing function from the errors kept to the places of `applied` they come from, which
  contains each error that is still in the window (`KeptFrom`: trimming a sequence of times leaves out those before the
  window only). For a node with one stream times rise with the places (`InOrder`), and the trace is exact.
- `OneAfterTheOther`, `DashboardCatchesUp`; any bounds and either order of the two streams of the code (`StreamAssumption`).
- `NothingIsPassedOver`: the two steps behind `EntriesReach`. A poll of a server that is behind in a stream is answered with the next entry of
  it, whatever the other stream brings, and a cursor moves to the next entry only, as it is applied.

Only model-checked:
- liveness (`RunSettles`, `BoundaryCancelHonoured`, `SlotProgress`, `EntriesAcked`, `CallEnds`, `LegacyBoots`, `EvalSettles`, `StaleGoes`,
  `EntriesReach`), which is out of the prover's reach, as is `ENABLED`; every safety property of the runs is a theorem. For `RunSettles`,
  `EntriesAcked`, `CallEnds`, `LegacyBoots`, `EvalSettles` and the runs in `StaleGoes` one half of the argument is proved, for all values of the
  constants: the theorems that end in `AreFinite`, and `BootsComeCloser`, give the order that the steps go down. That a step is possible as long as
  the end is not reached, and that fairness then takes it, is TLC's half; so is all of `SlotProgress`, where the one that gets on may be another caller;
- the refutation of section 4, a single trace by nature.

## 6. Not modelled

- In `MatchTable` and `MatchingWorker`, the deletion of listings. `BackfillRuns` has it as one transaction and keeps the deleted rows
  as history; its steps and its races with an insert are in `JobStore`, with the agent reduced to its insert.
  A rewritten listing does not move in the order of `listings`.
- Contents: prompts, scores, crawled text, metrics, traces, logs. `BatchScoring` has of a reply what it amounts to.
- The rate limiter in front of the network calls of `ProviderCalls`, and the interplay of several evals: the limiter is a model of its own.
- More than one process of JobManagerAgent, but in `Migrations`.
- Edges of the observability graph, the `systemHealth` query and the fetches that React Query starts by itself (a remount, the window in focus).
- Requests that only read: lists, searches, the funnel, summaries, topology, the metrics endpoint. They keep no state and each reads in a session of its own.
- The crawler and the text checks of the guardrails, which enter as outcomes; the MLflow launcher; what the dashboards draw.

## 7. What could follow

1. `ProviderCalls` composed with `RpmLimiter`, each network call behind an `acquire` of its bucket.
2. Two dashboards on one server, and a second stream that is empty at start together with a larger `MaxEntries`.

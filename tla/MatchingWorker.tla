--------------------------- MODULE MatchingWorker ---------------------------
(***************************************************************************)
(* The agent worker of JobManagerAgent: api/agent_worker.py (a cycle at    *)
(* boot, then the stream consumer for ever), stream_consumer.py (one live  *)
(* cycle per pipeline_completed event, one backfill cycle per idle         *)
(* timeout), and the cycle itself: agents/react_agent.py with the tools    *)
(* of tools/agent_tools.py, the guardrails around them and the feature     *)
(* flags that stop it.                                                     *)
(*                                                                         *)
(* The LLM decides which tool is called when, on which job and how often;  *)
(* it may also stop, or an exception may end the cycle, at any point.      *)
(* Cycles run one after the other, on the one worker thread.  Operators,   *)
(* the scraper and crashes come in between any two steps.  The alias is    *)
(* bootstrapped already (PromptRegistry has the rest of its life).         *)
(***************************************************************************)
EXTENDS Naturals, Sequences, FiniteSets

CONSTANTS
    Jobs,              \* job_listings.id
    Unfetchable,       \* jobs without a usable posting: no job_url, a page that cannot be parsed
    Versions,          \* prompt versions an operator may promote
    MaxJobs,           \* load_max_jobs_per_cycle()
    ReadCount,         \* count of xreadgroup
    MaxEvents,         \* bound on the length of the stream
    NoVersion, NoGroup

ASSUME JobAssumption == IsFiniteSet(Jobs) /\ Unfetchable \subseteq Jobs
ASSUME LimitAssumption == MaxJobs \in Nat \ {0} /\ ReadCount \in Nat \ {0} /\ MaxEvents \in Nat
ASSUME NullAssumption == NoVersion \notin Versions /\ NoGroup \notin Nat

VARIABLES
    listings,          \* job_listings in the order of updated_at
    matches,           \* job_matches
    alias,             \* the version aliased 'production'
    flags,             \* agent_live_enabled and agent_backfill_enabled, by mode
    stream,            \* event types of the source stream, in order
    delivered,         \* last-delivered-id of the consumer group, NoGroup before it exists
    pending,           \* its pending entries list
    worker,            \* where the worker thread is
    inHand,            \* entries of the last read that are not acknowledged yet
    stage, mode,       \* the cycle under way
    version,           \* its prompt_version
    urls, details,     \* job_urls, job_details
    scores,            \* job_scores
    calls,             \* tool calls so far
    evaluated,         \* stats["evaluated_count"]
    origin, served     \* history: where the group was created; finished cycles per entry

scraper == <<listings, stream>>
control == <<alias, flags>>
queue   == <<delivered, pending, worker, inHand, origin, served>>
tools   == <<urls, details, scores, calls, evaluated>>
cycle   == <<stage, mode, version, tools>>
vars    == <<scraper, control, queue, cycle, matches>>

MT == INSTANCE MatchTable

Modes      == {"live", "backfill"}
EventTypes == {"pipeline_started", "pipeline_completed"}
Triggers   == {"pipeline_completed"}                         \* TRIGGER_EVENT_TYPES
InCycle    == {"boot", "trigger", "idle"}                    \* a cycle runs, for this reason
Entries    == 1..MaxEvents
CallLimit  == MaxJobs * 3 + 4         \* GUARDRAIL_TOOL_CALLS_PER_JOB and ..._HEADROOM
NoScores   == [j \in Jobs |-> "none"]

TypeOK ==
    /\ listings \in Seq(Jobs)
    /\ MT!TableTypeOK
    /\ alias \in Versions
    /\ flags \in [Modes -> BOOLEAN]
    /\ stream \in Seq(EventTypes)
    /\ delivered \in 0..Len(stream) \cup {NoGroup}
    /\ pending \subseteq Entries
    /\ worker \in InCycle \cup {"down", "ensure", "read", "entry", "ack", "dead"}
    /\ inHand \in Seq(Entries)
    /\ stage \in {"none", "check", "resolve", "agent"}
    /\ stage # "none" <=> worker \in InCycle
    /\ mode \in Modes
    /\ version \in Versions \cup {NoVersion}
    /\ urls \subseteq Jobs /\ details \subseteq urls
    /\ scores \in [Jobs -> MT!Scored \cup {"none"}]
    /\ calls \in 0..CallLimit
    /\ evaluated \in Nat
    /\ origin \in 0..Len(stream)
    /\ served \in [Entries -> Nat]

Init ==
    /\ listings = <<>>
    /\ matches = [c \in Jobs \X Versions |-> "none"]
    /\ alias \in Versions
    /\ flags = [m \in Modes |-> TRUE]
    /\ stream = <<>>
    /\ delivered = NoGroup
    /\ pending = {}
    /\ worker = "down"
    /\ inHand = <<>>
    /\ stage = "none" /\ mode = "live" /\ version = NoVersion
    /\ urls = {} /\ details = {} /\ scores = NoScores /\ calls = 0 /\ evaluated = 0
    /\ origin = 0
    /\ served = [e \in Entries |-> 0]

(***************************************************************************)
(* The scraper writes a job, and publishes events                          *)
(***************************************************************************)
Listed == {listings[i] : i \in 1..Len(listings)}

WriteJob(j) ==
    /\ j \notin Listed
    /\ listings' = Append(listings, j)
    /\ UNCHANGED <<stream, control, queue, cycle, matches>>

Publish(type) ==
    /\ Len(stream) < MaxEvents
    /\ stream' = Append(stream, type)
    /\ UNCHANGED <<listings, control, queue, cycle, matches>>

(***************************************************************************)
(* Operators: promotion; pause, resume and the flags                       *)
(***************************************************************************)
Promote(v) ==
    /\ alias # v
    /\ alias' = v
    /\ UNCHANGED <<scraper, flags, queue, cycle, matches>>

SetFlag(m) ==
    /\ flags' = [flags EXCEPT ![m] = ~@]
    /\ UNCHANGED <<scraper, alias, queue, cycle, matches>>

(***************************************************************************)
(* run_agent_worker and run_forever                                        *)
(***************************************************************************)
StartCycle(reason, m) ==
    /\ worker' = reason
    /\ stage' = "check"
    /\ mode' = m
    /\ UNCHANGED <<version, tools>>

Boot ==
    /\ worker = "down"
    /\ StartCycle("boot", "live")
    /\ UNCHANGED <<scraper, control, delivered, pending, inHand, origin, served, matches>>

\* XGROUP CREATE at "$", or BUSYGROUP.
EnsureGroup ==
    /\ worker = "ensure"
    /\ \/ delivered = NoGroup /\ delivered' = Len(stream) /\ origin' = Len(stream)
       \/ delivered # NoGroup /\ UNCHANGED <<delivered, origin>>
    /\ worker' = "read"
    /\ UNCHANGED <<scraper, control, pending, inHand, served, cycle, matches>>

\* XREADGROUP ">": the entries not delivered yet become pending.
Deliver ==
    /\ worker = "read"
    /\ delivered < Len(stream)
    /\ delivered' = IF delivered + ReadCount < Len(stream) THEN delivered + ReadCount ELSE Len(stream)
    /\ pending' = pending \cup (delivered + 1)..delivered'
    /\ UNCHANGED <<scraper, control, origin, served, cycle, matches>>

\* Mutant: the read starts with the entries that are pending.
BugReadPending ==
    /\ worker = "read"
    /\ pending # {}
    /\ \E e \in pending : inHand' = <<e>>
    /\ worker' = "entry"
    /\ UNCHANGED <<scraper, control, delivered, pending, origin, served, cycle, matches>>

Read ==
    /\ Deliver
    /\ inHand' = [i \in 1..(delivered' - delivered) |-> delivered + i]
    /\ worker' = "entry"

\* The connection drops before the reply: the loop goes on without the entries.
ReadLost ==
    /\ Deliver
    /\ UNCHANGED <<inHand, worker>>

Idle ==
    /\ worker = "read"
    /\ delivered = Len(stream)
    /\ StartCycle("idle", "backfill")
    /\ UNCHANGED <<scraper, control, delivered, pending, inHand, origin, served, matches>>

\* Mutant: the entry is acknowledged before its cycle.
BugAckFirst ==
    /\ worker = "entry"
    /\ stream[Head(inHand)] \in Triggers
    /\ pending' = pending \ {Head(inHand)}
    /\ StartCycle("trigger", "live")
    /\ UNCHANGED <<scraper, control, delivered, inHand, origin, served, matches>>

HandleTrigger ==
    /\ worker = "entry"
    /\ stream[Head(inHand)] \in Triggers
    /\ StartCycle("trigger", "live")
    /\ UNCHANGED <<scraper, control, delivered, pending, inHand, origin, served, matches>>

IgnoreEvent ==
    /\ worker = "entry"
    /\ stream[Head(inHand)] \notin Triggers
    /\ worker' = "ack"
    /\ UNCHANGED <<scraper, control, delivered, pending, inHand, origin, served, cycle, matches>>

Ack ==
    /\ worker = "ack"
    /\ pending' = pending \ {Head(inHand)}
    /\ inHand' = Tail(inHand)
    /\ worker' = IF Len(inHand) = 1 THEN "read" ELSE "entry"
    /\ UNCHANGED <<scraper, control, delivered, origin, served, cycle, matches>>

\* A Redis error nobody catches: any in ensure_group and xack, all but TimeoutError and
\* ConnectionError in xreadgroup.  The thread ends, the server goes on.
Die ==
    /\ worker \in {"ensure", "read", "ack"}
    /\ worker' = "dead"
    /\ inHand' = <<>>
    /\ UNCHANGED <<scraper, control, delivered, pending, origin, served, cycle, matches>>

(***************************************************************************)
(* run_matching_cycle_with_agent                                           *)
(***************************************************************************)
DropCycle ==
    /\ stage' = "none"
    /\ version' = NoVersion
    /\ urls' = {} /\ details' = {} /\ scores' = NoScores /\ calls' = 0 /\ evaluated' = 0
    /\ UNCHANGED mode

EndCycle ==
    /\ DropCycle
    /\ worker' = CASE worker = "boot" -> "ensure" [] worker = "trigger" -> "ack" [] worker = "idle" -> "read"
    /\ served' = IF worker = "trigger" THEN [served EXCEPT ![Head(inHand)] = @ + 1] ELSE served
    /\ UNCHANGED <<scraper, control, delivered, pending, inHand, origin, matches>>

\* Mutant: a cycle whose flag is off waits until it is on.
BugWaitForFlag ==
    /\ stage = "check"
    /\ flags[mode]
    /\ stage' = "resolve"
    /\ UNCHANGED <<scraper, control, queue, mode, version, tools, matches>>

CheckFlag ==
    /\ stage = "check"
    /\ \/ /\ flags[mode]
          /\ stage' = "resolve"
          /\ UNCHANGED <<scraper, control, queue, mode, version, tools, matches>>
       \/ /\ ~flags[mode]
          /\ EndCycle

Resolve ==
    /\ stage = "resolve"
    /\ version' = alias
    /\ stage' = "agent"
    /\ UNCHANGED <<scraper, control, queue, mode, tools, matches>>

\* The LLM is done, a limit is hit, or an exception ends the cycle.
Stop ==
    /\ stage \in {"resolve", "agent"}
    /\ EndCycle

(***************************************************************************)
(* The tools                                                               *)
(***************************************************************************)

ToolCall ==
    /\ stage = "agent"
    /\ calls < CallLimit
    /\ calls' = calls + 1
    /\ UNCHANGED <<scraper, control, queue, stage, mode, version>>

Recorded(j) == \E v \in Versions : matches[<<j, v>>] # "none"

\* The anti-join: places of the jobs without a result under any version.
Waiting == {i \in 1..Len(listings) : ~Recorded(listings[i])}

\* The limit and the order: "newest" for a live cycle, "oldest" for a backfill cycle.
InFront(i) == {k \in Waiting : IF mode = "live" THEN k > i ELSE k < i}
Fetched    == {listings[i] : i \in {k \in Waiting : Cardinality(InFront(k)) < MaxJobs}}

GetJobsToProcess ==
    /\ ToolCall
    /\ urls' = urls \cup Fetched
    /\ UNCHANGED <<details, scores, evaluated, matches>>

Fresh(j, v) == matches[<<j, v>>] = "none"
RecordJobResult(j, v, result) ==
    matches' = IF Fresh(j, v) THEN [matches EXCEPT ![<<j, v>>] = result] ELSE matches

CrawlJob(j) ==
    /\ j \in urls \ Unfetchable
    /\ ToolCall
    /\ details' = details \cup {j}
    /\ UNCHANGED <<urls, scores, evaluated, matches>>

\* 404: recorded at once as a non-match.
CrawlNotFound(j) ==
    /\ j \in urls \ Unfetchable
    /\ ToolCall
    /\ RecordJobResult(j, version, "gone")
    /\ UNCHANGED <<urls, details, scores, evaluated>>

EvaluateMatch(j) ==
    /\ j \in details
    /\ ToolCall
    /\ \E verdict \in MT!Scored : scores' = [scores EXCEPT ![j] = verdict]
    /\ UNCHANGED <<urls, details, evaluated, matches>>

\* Mutants: the result goes under the version that is live now; every call is counted.
BugLiveVersion(j) ==
    /\ scores[j] # "none"
    /\ ToolCall
    /\ RecordJobResult(j, alias, scores[j])
    /\ evaluated' = IF Fresh(j, alias) THEN evaluated + 1 ELSE evaluated
    /\ UNCHANGED <<urls, details, scores>>
BugUpsert(j) ==
    /\ scores[j] # "none"
    /\ ToolCall
    /\ matches' = [matches EXCEPT ![<<j, version>>] = scores[j]]
    /\ evaluated' = evaluated + 1
    /\ UNCHANGED <<urls, details, scores>>

RecordResult(j) ==
    /\ scores[j] # "none"
    /\ ToolCall
    /\ RecordJobResult(j, version, scores[j])
    /\ evaluated' = IF Fresh(j, version) THEN evaluated + 1 ELSE evaluated
    /\ UNCHANGED <<urls, details, scores>>

\* A call that changes nothing: the guardrails block a job the cycle has not fetched,
\* crawled or evaluated; the crawl or the evaluation fails and is only counted.
FruitlessCall ==
    /\ ToolCall
    /\ UNCHANGED <<urls, details, scores, evaluated, matches>>

(***************************************************************************)
(* A redeploy: Postgres, Redis and MLflow stay.                            *)
(***************************************************************************)
Crash ==
    /\ worker # "down"
    /\ worker' = "down"
    /\ inHand' = <<>>
    /\ DropCycle
    /\ UNCHANGED <<scraper, control, delivered, pending, origin, served, matches>>

CycleStep ==
    \/ CheckFlag \/ Resolve \/ Stop
    \/ GetJobsToProcess \/ FruitlessCall
    \/ \E j \in Jobs : CrawlJob(j) \/ CrawlNotFound(j) \/ EvaluateMatch(j) \/ RecordResult(j)

ConsumerStep == EnsureGroup \/ Read \/ Idle \/ HandleTrigger \/ IgnoreEvent \/ Ack

Environment ==
    \/ \E j \in Jobs : WriteJob(j)
    \/ \E type \in EventTypes : Publish(type)
    \/ \E v \in Versions : Promote(v)
    \/ \E m \in Modes : SetFlag(m)

Next == Environment \/ Boot \/ CycleStep \/ ConsumerStep \/ ReadLost \/ Die \/ Crash

Spec == Init /\ [][Next]_vars

(***************************************************************************)
(* The worker thread runs: calls to the LLM, the crawler and Redis return  *)
(* or raise, and the limit on tool calls ends every cycle.                 *)
(***************************************************************************)
Fairness == WF_vars(CycleStep) /\ WF_vars(ConsumerStep) /\ WF_vars(Boot)

FairSpec == Spec /\ Fairness

(***************************************************************************)
(* What holds                                                              *)
(***************************************************************************)
\* The matching cycle never gives a job a second result: whatever is promoted while a
\* cycle runs, and however often the LLM fetches, evaluates and records, no job has a
\* row under two versions (the anti-join of get_jobs_to_process and a prompt version
\* resolved once per cycle).
OneVersionPerJob ==
    \A j \in Jobs : Cardinality({v \in Versions : matches[<<j, v>>] # "none"}) <= 1

\* However the LLM behaves, a cycle scores at most MAX_JOBS_PER_CYCLE jobs: the limit on
\* tool calls leaves no room for one job of a second batch (api/admin.py: an unpaused
\* cycle scores "at worst ... one small batch" under the outgoing version).
OneBatchPerCycle == evaluated <= MaxJobs

\* What the cycle reports as evaluated is in the table, under its version.
EvaluatedIsRecorded ==
    evaluated <= Cardinality({j \in urls : matches[<<j, version>>] \in MT!Scored})

\* A pipeline_completed entry leaves the pending list only after its cycle has ended:
\* a crash during the cycle leaves it pending.
AckedAfterCycle ==
    delivered # NoGroup =>
        \A e \in (origin + 1)..delivered :
            stream[e] \in Triggers /\ e \notin pending => served[e] > 0

\* No entry is served twice, by lost replies, errors and restarts included.
ServedOnce == \A e \in Entries : served[e] <= 1

\* The table of results behaves as MatchTable.
ImplementsMatchTable == MT!TableSpec

\* An entry that was read is acknowledged, or its worker ended first.
EntriesAcked == inHand # <<>> ~> inHand = <<>>

=============================================================================

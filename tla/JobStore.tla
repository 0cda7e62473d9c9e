------------------------------ MODULE JobStore ------------------------------
(***************************************************************************)
(* The tables job_listings and job_matches between the services that use   *)
(* them: the scrape pipeline (WebScraper/job_runner.py, dataWriter.py),    *)
(* the writing requests of JobDataServer/main.py, and the                  *)
(* inserts of the agent (JobManagerAgent/tools/db_tools.py).               *)
(*                                                                         *)
(* PostgreSQL runs them READ COMMITTED: each statement sees what is        *)
(* committed when it starts, and a transaction that a constraint refuses   *)
(* leaves nothing behind.  A listing is known by its (source, source_job_  *)
(* id), its surrogate id by that and by how often it has been inserted.    *)
(***************************************************************************)
EXTENDS Naturals, Sequences, FiniteSets

CONSTANTS
    Jobs,             \* (source, source_job_id)
    SourceOf,         \* the source of each
    Sources,          \* _SOURCES, in the order of a run
    RetentionSources, \* RETENTION_SOURCES
    Retention,        \* RETENTION_MAX_AGE_DAYS, in ticks
    Contents,         \* what the fields of a listing may say
    Blank,            \* a payload without company_name or job_role
    Requests,         \* requests that JobDataServer serves at a time
    MaxInserts,       \* bound on the inserts of each listing
    MaxFaults         \* bound on failures: boards, Redis, killed runs, payloads no table takes

ASSUME SequenceAssumption  == Sources \in Seq({Sources[i] : i \in DOMAIN Sources}) \ {<<>>}
ASSUME SourceAssumption    == \A j \in Jobs : \E i \in DOMAIN Sources : SourceOf[j] = Sources[i]
ASSUME BoundAssumption     == Retention \in Nat /\ MaxFaults \in Nat /\ MaxInserts \in [Jobs -> Nat]
ASSUME ContentAssumption   == Blank \notin Contents

VARIABLES
    rows,             \* of each job: live, gen (inserts so far), content, age of updated_at
    matches,          \* ids of the listings in job_matches
    enabled,          \* the flag scrape_enabled
    \* the pipeline
    pc, source,       \* where it is; index of the present source
    scrape,           \* what the scrape of the source returned: content of each job, those twice in it
    existing,         \* existing_listings: rows as they were read
    stale, cut,       \* ids selected by the purge; matches its open transaction has deleted
    events,           \* what it has published in this run, stage_started aside
    \* the others
    req,              \* of each request: op, id of the listing as it was read, new content
    picked,           \* id of the listing that the agent is scoring
    faults,
    wrote,            \* history: stages whose transaction this run has committed
    touched           \* history: jobs others have written since existing was read

table    == <<rows, matches>>
pipeline == <<pc, source, scrape, existing, stale, cut, events, wrote>>
vars     == <<table, enabled, pipeline, req, picked, faults, touched>>

Ids == UNION {{<<j, n>> : n \in 1..MaxInserts[j]} : j \in Jobs}
None == <<>>

Id(j)   == <<j, rows[j].gen>>
Live(id) == rows[id[1]].live /\ rows[id[1]].gen = id[2]
Stale(j) == rows[j].live /\ SourceOf[j] \in RetentionSources /\ rows[j].age > Retention

TypeOK ==
    /\ rows \in [Jobs -> [live : BOOLEAN, gen : Nat, content : Contents \cup {Blank},
                          age : 0..(Retention + 1)]]
    /\ \A j \in Jobs : rows[j].live <=> rows[j].content \in Contents
    /\ \A j \in Jobs : rows[j].gen <= MaxInserts[j]
    /\ matches \subseteq Ids /\ \A id \in matches : Live(id)
    /\ enabled \in BOOLEAN
    /\ pc \in {"idle", "scrape", "write", "purge", "cut", "drop", "end", "fail"}
    /\ source \in 1..(Len(Sources) + 1)
    /\ stale \subseteq Ids /\ cut \subseteq Ids
    /\ picked \in Ids \cup {None}
    /\ faults \in 0..MaxFaults

NoScrape == [of |-> {}, content |-> None, twice |-> {}]
NoRequest == [op |-> "none", id |-> None, content |-> Blank]

Init ==
    /\ rows = [j \in Jobs |-> [live |-> FALSE, gen |-> 0, content |-> Blank, age |-> 0]]
    /\ matches = {}
    /\ enabled \in BOOLEAN
    /\ pc = "idle" /\ source = 1 /\ scrape = NoScrape /\ existing = None
    /\ stale = {} /\ cut = {} /\ events = <<>> /\ wrote = {}
    /\ req = [r \in Requests |-> NoRequest]
    /\ picked = None
    /\ faults = 0 /\ touched = {}

\* Who else writes a listing between the two steps of upsert_jobs.
Touch(j) == touched' = IF pc = "write" /\ j \in scrape.of THEN touched \cup {j} ELSE touched

Fault == faults < MaxFaults /\ faults' = faults + 1

\* A listing as it is after an INSERT, an UPDATE and a DELETE.
Inserted(row, c) == [live |-> TRUE, gen |-> row.gen + 1, content |-> c, age |-> 0]
Updated(row, c)  == [live |-> row.live, gen |-> row.gen, content |-> c, age |-> 0]
Deleted(row)     == [live |-> FALSE, gen |-> row.gen, content |-> Blank, age |-> 0]

(***************************************************************************)
(* The scrape pipeline                                                     *)
(***************************************************************************)
Whole == <<<<"pipeline_started">>>> \o
         [i \in 1..(2 * Len(Sources)) |->
             IF i % 2 = 1 THEN <<"scrape", Sources[(i + 1) \div 2]>>
             ELSE <<"write", Sources[i \div 2]>>] \o
         <<<<"purge">>, <<"pipeline_completed">>>>

Emit(event) == events' = Append(events, event)

\* An exception anywhere in a run: its transaction is rolled back, the run tries to say so.
Fails == pc' = "fail" /\ stale' = {} /\ cut' = {}

Begin ==
    /\ pc = "idle"
    /\ \/ enabled /\ pc' = "scrape" /\ events' = <<<<"pipeline_started">>>> /\ UNCHANGED faults
       \/ ~enabled /\ pc' = "idle" /\ events' = <<<<"pipeline_skipped">>>> /\ UNCHANGED faults
       \/ Fault /\ pc' = "fail" /\ events' = <<>>
    /\ source' = 1 /\ wrote' = {}
    /\ UNCHANGED <<table, enabled, scrape, existing, stale, cut, req, picked, touched>>

\* The boards of a source answer with any of its jobs; a board that fails is left out.  A job
\* may be listed twice, and some payloads have no company or role (counted as faults).  The
\* write stage then reads the listings of the source that exist.
Listed ==
    {j \in Jobs : SourceOf[j] = Sources[source] /\ (rows[j].live \/ rows[j].gen < MaxInserts[j])}

Scrape ==
    /\ pc = "scrape"
    /\ \E of \in SUBSET Listed : \E content \in [of -> Contents] :
          \/ /\ scrape' = [of |-> of, content |-> content, twice |-> {}]
             /\ UNCHANGED faults
          \/ /\ \E j \in of :
                   \/ scrape' = [of |-> of, content |-> [content EXCEPT ![j] = Blank], twice |-> {}]
                   \/ scrape' = [of |-> of, content |-> content, twice |-> {j}]
             /\ Fault
    /\ existing' = [j \in scrape'.of |-> rows[j]]
    /\ Emit(<<"scrape", Sources[source]>>)
    /\ pc' = "write"
    /\ UNCHANGED <<table, enabled, source, stale, cut, wrote, req, picked, touched>>

\* What ends the transaction of the whole source: a NOT NULL column, an insert of a key that
\* is there by now or comes twice, an update of a row that is gone by now.
Changed(j) == existing[j].live /\ existing[j].content # scrape.content[j]

Refuses(j) ==
    \/ scrape.content[j] = Blank
    \/ ~existing[j].live /\ (j \in scrape.twice \/ rows[j].live)
    \/ Changed(j) /\ ~Live(<<j, existing[j].gen>>)

\* upsert_jobs: a listing that is seen again unchanged is not written at all.
\* Mutant: what is there already is never compared.
BugInsertOnly(j) == IF ~existing[j].live THEN Inserted(rows[j], scrape.content[j]) ELSE rows[j]
Upserted(j) ==
    IF ~existing[j].live THEN Inserted(rows[j], scrape.content[j])
    ELSE IF Changed(j) THEN Updated(rows[j], scrape.content[j]) ELSE rows[j]

Advance ==
    /\ Emit(<<"write", Sources[source]>>)
    /\ source' = source + 1
    /\ pc' = IF source = Len(Sources) THEN "purge" ELSE "scrape"
    /\ UNCHANGED <<stale, cut>>

\* Mutant: a source whose write fails is logged and the run goes on.
BugNextSource == Advance
WriteFails == Fails /\ UNCHANGED <<source, events>>

\* One transaction for the source; its event may fail to be published after the commit.
Write ==
    /\ pc = "write"
    /\ \/ /\ \E j \in scrape.of : Refuses(j)
          /\ WriteFails
          /\ UNCHANGED <<rows, wrote, faults>>
       \/ /\ \A j \in scrape.of : ~Refuses(j)
          /\ rows' = [j \in Jobs |-> IF j \in scrape.of THEN Upserted(j) ELSE rows[j]]
          /\ wrote' = wrote \cup {Sources[source]}
          /\ \/ Advance /\ UNCHANGED faults
             \/ Fault /\ Fails /\ UNCHANGED <<source, events>>
    /\ scrape' = NoScrape /\ existing' = None /\ touched' = {}
    /\ UNCHANGED <<matches, enabled, req, picked>>

\* The event of the purge, once its transaction has committed or there was nothing to do.
TellPurged ==
    /\ wrote' = wrote \cup {"purge"}
    /\ stale' = {} /\ cut' = {}
    /\ \/ Emit(<<"purge">>) /\ pc' = "end" /\ UNCHANGED faults
       \/ Fault /\ pc' = "fail" /\ UNCHANGED events

PurgeSelect ==
    /\ pc = "purge"
    /\ IF \A j \in Jobs : ~Stale(j) THEN TellPurged
       ELSE /\ stale' = {Id(j) : j \in {k \in Jobs : Stale(k)}}
            /\ pc' = "cut"
            /\ UNCHANGED <<cut, events, wrote, faults>>
    /\ UNCHANGED <<table, enabled, source, scrape, existing, req, picked, touched>>

\* Mutants: the matches are left to the foreign key; they go in a transaction of their own.
BugNoCut == cut' = {} /\ UNCHANGED matches
BugCommitCut ==
    /\ cut' = matches \cap stale
    /\ matches' = matches \ cut'
CutMatches == cut' = matches \cap stale /\ UNCHANGED matches

PurgeMatches ==
    /\ pc = "cut"
    /\ CutMatches
    /\ pc' = "drop"
    /\ UNCHANGED <<rows, enabled, source, scrape, existing, stale, events, wrote, req,
                   picked, faults, touched>>

\* The listings selected go whether or not they have been written since, unless a match has
\* come for one of them meanwhile: then the foreign key refuses, and nothing is purged.
PurgeListings ==
    /\ pc = "drop"
    /\ \/ /\ (matches \ cut) \cap stale # {}
          /\ Fails
          /\ UNCHANGED <<table, events, wrote, faults>>
       \/ /\ (matches \ cut) \cap stale = {}
          /\ rows' = [j \in Jobs |->
                 IF rows[j].live /\ Id(j) \in stale THEN Deleted(rows[j]) ELSE rows[j]]
          /\ matches' = matches \ cut
          /\ TellPurged
    /\ UNCHANGED <<enabled, source, scrape, existing, req, picked, touched>>

Complete ==
    /\ pc = "end"
    /\ \/ Emit(<<"pipeline_completed">>) /\ pc' = "idle" /\ UNCHANGED <<faults, stale, cut>>
       \/ Fault /\ Fails /\ UNCHANGED events
    /\ UNCHANGED <<table, enabled, source, scrape, existing, wrote, req, picked, touched>>

\* A board page or a publish that raises, wherever the run is.
StepFails ==
    /\ pc \in {"scrape", "write", "purge"}
    /\ Fault /\ Fails
    /\ scrape' = NoScrape /\ existing' = None /\ touched' = {}
    /\ UNCHANGED <<table, enabled, source, events, wrote, req, picked>>

SayFailed ==
    /\ pc = "fail"
    /\ \/ Emit(<<"pipeline_failed">>) /\ UNCHANGED faults
       \/ Fault /\ UNCHANGED events
    /\ pc' = "idle"
    /\ UNCHANGED <<table, enabled, source, scrape, existing, stale, cut, wrote, req, picked,
                   touched>>

\* The container is stopped; what is not committed is rolled back.
Killed ==
    /\ pc \notin {"idle", "fail"}
    /\ Fault
    /\ pc' = "idle" /\ scrape' = NoScrape /\ existing' = None /\ stale' = {} /\ cut' = {}
    /\ touched' = {}
    /\ UNCHANGED <<table, enabled, source, events, wrote, req, picked>>

PipelineStep ==
    \/ Begin \/ Scrape \/ Write \/ PurgeSelect \/ PurgeMatches
    \/ PurgeListings \/ Complete \/ SayFailed

(***************************************************************************)
(* JobDataServer                                                           *)
(***************************************************************************)
Answered(r) == req' = [req EXCEPT ![r] = NoRequest]

\* Each request reads first: POST /jobs whether the key is there (409), PATCH and DELETE the
\* listing they are about (404).
Receive(r, op, job, content) ==
    /\ req[r].op = "none"
    /\ req' = [req EXCEPT ![r] = [op |-> op, id |-> Id(job), content |-> content]]
    /\ UNCHANGED <<table, enabled, pipeline, picked, faults, touched>>

ReceiveCreate(r) ==
    \E j \in Jobs, c \in Contents : ~rows[j].live /\ Receive(r, "create", j, c)
ReceivePatch(r) ==
    \E j \in Jobs : \E c \in Contents \ {rows[j].content} :   \* else it writes nothing
        rows[j].live /\ Receive(r, "patch", j, c)
ReceiveDelete(r) ==
    \E j \in Jobs : rows[j].live /\ Receive(r, "delete", j, Blank)

\* The key may be there by now: a unique violation, 500.
CreateJob(r) ==
    LET j == req[r].id[1]
    IN  /\ req[r].op = "create"
        /\ rows[j].gen < MaxInserts[j]
        /\ IF rows[j].live THEN UNCHANGED <<rows, touched>>
           ELSE rows' = [rows EXCEPT ![j] = Inserted(@, req[r].content)] /\ Touch(j)
        /\ Answered(r)
        /\ UNCHANGED <<matches, enabled, pipeline, picked, faults>>

\* Nothing is written when nothing changes, and an UPDATE of a row that is gone is a 500.
PatchJob(r) ==
    LET j == req[r].id[1]
    IN  /\ req[r].op = "patch"
        /\ IF Live(req[r].id)
           THEN rows' = [rows EXCEPT ![j] = Updated(@, req[r].content)] /\ Touch(j)
           ELSE UNCHANGED <<rows, touched>>
        /\ Answered(r)
        /\ UNCHANGED <<matches, enabled, pipeline, picked, faults>>

\* The foreign key refuses a listing that has matches (500).  A purge that has deleted them
\* and not committed waits for the listing as this transaction waits for the matches: one of
\* the two is the victim of the deadlock (a fault when it is the purge), and this one fails.
\* A DELETE that finds no row any more succeeds like any other.
DeleteJob(r) ==
    LET id == req[r].id
    IN  /\ req[r].op = "delete"
        /\ id[1] \in scrape.of /\ ~existing[id[1]].live => id[2] < MaxInserts[id[1]]
        /\ \/ /\ id \notin matches
              /\ rows' = [rows EXCEPT ![id[1]] = IF Live(id) THEN Deleted(@) ELSE @]
              /\ IF Live(id) THEN Touch(id[1]) ELSE UNCHANGED touched
              /\ req' = [req EXCEPT ![r].op = "tell"]
              /\ UNCHANGED <<pipeline, faults>>
           \/ id \in matches /\ Answered(r) /\ UNCHANGED <<rows, touched, pipeline, faults>>
           \/ /\ id \in cut
              /\ Fault /\ Fails /\ Answered(r)
              /\ UNCHANGED <<rows, touched, source, scrape, existing, events, wrote>>
        /\ UNCHANGED <<matches, enabled, picked>>

\* publish_server_event: a RedisError is logged, the request succeeds.
TellDeleted(r) ==
    /\ \/ req[r].op = "tell" /\ req' = [req EXCEPT ![r].op = "told"]
       \/ req[r].op \in {"tell", "told"} /\ Answered(r)
    /\ UNCHANGED <<table, enabled, pipeline, picked, faults, touched>>

(***************************************************************************)
(* The agent, and time                                                     *)
(***************************************************************************)
PickJob(j) ==
    /\ picked = None
    /\ rows[j].live /\ Id(j) \notin matches
    /\ picked' = Id(j)
    /\ UNCHANGED <<table, enabled, pipeline, req, faults, touched>>

\* An IntegrityError is a duplicate for the agent, also that of a listing that is gone (a real
\* duplicate is in BackfillRuns and MatchingWorker).
RecordJobResult ==
    /\ picked # None
    /\ matches' = IF Live(picked) THEN matches \cup {picked} ELSE matches
    /\ picked' = None
    /\ UNCHANGED <<rows, enabled, pipeline, req, faults, touched>>

\* The age of the other listings is never read.
Aging == {j \in Jobs : rows[j].live /\ SourceOf[j] \in RetentionSources
                                   /\ rows[j].age <= Retention}

Tick ==
    /\ Aging # {}
    /\ rows' = [j \in Jobs |->
           IF j \in Aging THEN [rows[j] EXCEPT !.age = @ + 1] ELSE rows[j]]
    /\ UNCHANGED <<matches, enabled, pipeline, req, picked, faults, touched>>

ServerStep ==
    \/ \E r \in Requests :
          \/ ReceiveCreate(r) \/ ReceivePatch(r) \/ ReceiveDelete(r)
          \/ CreateJob(r) \/ PatchJob(r) \/ DeleteJob(r) \/ TellDeleted(r)

AgentStep ==
    \/ \E j \in Jobs : PickJob(j)
    \/ RecordJobResult

Next ==
    \/ PipelineStep \/ StepFails \/ Killed
    \/ ServerStep \/ AgentStep \/ Tick

Spec == Init /\ [][Next]_vars

\* The pipeline is started again and again, and a run goes on.
FairSpec == Spec /\ WF_vars(PipelineStep)

(***************************************************************************)
(* Properties                                                              *)
(***************************************************************************)
\* When the transaction of a source commits, every listing of the scrape stands in the table as
\* it was scraped, but for those that others have written since the existing ones were read
\* (dataWriter.py:52-67).
WriteLandsScrape ==
    [][ pc = "write" /\ Sources[source] \in wrote' \ wrote =>
            \A j \in scrape.of :
                \/ rows'[j].live /\ rows'[j].content = scrape.content[j]
                \/ j \in touched ]_vars

\* A score that the agent has recorded never goes without its listing: whatever ends the purge,
\* the matches it has deleted come back unless the listings go as well (dataWriter.py:98-115).
MatchGoesWithListing ==
    [][ \A m \in matches \ matches' : ~Live(m)' ]_vars

\* What the stream says of a run is so: a write or a purge that it tells is committed, a run
\* that it calls completed has done every stage, and one that ends otherwise says that it
\* failed unless Redis or the container did (job_runner.py:42-109).
Told(n) == SubSeq(events, 1, n)
PipelineTold ==
    /\ \A i \in DOMAIN events :
          /\ events[i] = <<"purge">> => "purge" \in wrote
          /\ events[i] = <<"pipeline_completed">> =>
                 wrote = {"purge"} \cup {Sources[k] : k \in DOMAIN Sources}
          /\ \A k \in DOMAIN Sources : events[i] = <<"write", Sources[k]>> => Sources[k] \in wrote
    /\ pc = "idle" =>
          \/ events \in {<<>>, <<<<"pipeline_skipped">>>>, Whole}
          \/ /\ Len(events) \in 1..Len(Whole)
             /\ Told(Len(events) - 1) = SubSeq(Whole, 1, Len(events) - 1)
             /\ events[Len(events)] = <<"pipeline_failed">>
          \/ faults > 0 /\ events = SubSeq(Whole, 1, Len(events))

\* Who hears job_deleted may forget the id: the listing is gone and the id never comes back
\* (main.py:589-596).
DeletedIsGone == \A r \in Requests : req[r].op = "told" => ~Live(req[r].id)

\* What the stream says of runs and listings is so (job_runner.py:42-109, main.py:581-597).
StreamTruthful == TypeOK /\ PipelineTold /\ DeletedIsGone

\* While the scraper is on, a listing that has outlived the retention does not stay, matched or
\* not, however the runs before fail (dataWriter.py:79-118, job_runner.py:80-84).
StaleGoes == \A j \in Jobs : (enabled /\ Stale(j)) ~> ~Stale(j)
=============================================================================

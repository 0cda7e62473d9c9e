----------------------------- MODULE Migrations -----------------------------
(***************************************************************************)
(* scripts/run_migrations.py and the seven migrations it applies, as every *)
(* boot of JobManagerAgent runs them (api/app.py, lifespan).               *)
(*                                                                         *)
(* Boots overlap: a redeploy starts the new process while the old one may  *)
(* be starting too.  Each migration is a transaction of its own; it looks  *)
(* at the catalog without a lock (Look) and its first ALTER TABLE then     *)
(* waits for whoever holds the table, so the look may be stale when its    *)
(* statements run (Commit).  The writers of both tables go on meanwhile,   *)
(* those of the release before the migrations included: the migrations say *)
(* themselves that services deploy independently.                          *)
(*                                                                         *)
(* A row of job_listings is known by its job, a row of job_matches by its  *)
(* job and its prompt version; the surrogate id of a listing is the job.   *)
(***************************************************************************)
EXTENDS Naturals, FiniteSets

CONSTANTS
    Boots,            \* processes that run lifespan
    Jobs, Versions,   \* native job ids; prompt versions
    Flags,            \* _SEED_FLAGS
    Databases,        \* what a database is like at first: subset of {"legacy", "fresh"}
    MaxDeaths,        \* bound on boots cut off by a redeploy or a lost connection
    Absent, Null

VARIABLES
    origin,           \* which of Databases this one is
    schema,           \* what the catalog shows, as a set of columns, keys and tables
    tracking,         \* names in schema_migrations
    source,           \* job_listings: Absent, Null or the job (its source_job_id)
    link,             \* job_matches: Absent, Null or a listing (job_listing_id)
    rubric,           \* job_matches.rubric_version: Null or "known"
    flags,            \* feature_flags.enabled: Absent, "on" or "off"
    pc,               \* of each boot: off, create, read, look, commit, up
    known,            \* already_applied and what this boot applied itself
    seen,             \* the schema of the last Look
    deaths,
    times             \* history: how often each migration was committed

db   == <<schema, source, link, rubric, flags>>
vars == <<origin, db, tracking, pc, known, seen, deaths, times>>

Names   == 1..7                         \* 0001_... to 0007_..., in the order of their names
Matches == Jobs \X Versions

ListingsLegacy == {"listings.job_id"}
MatchesLegacy  == {"matches.job_id", "matches.pk_job"}
MatchKeys      == {"matches.pk_job", "matches.pk_wide", "matches.pk_listing"}

\* The tables the ORM models declare, which create_all creates where a table is missing.
Current == {"listings.source", "listings.pk_id", "matches.score_breakdown",
            "matches.rubric_version", "matches.job_listing_id", "matches.pk_listing",
            "feature_flags"}

InitialSchema == [legacy |-> ListingsLegacy \cup MatchesLegacy, fresh |-> {}]
Elements == Current \cup ListingsLegacy \cup MatchesLegacy \cup MatchKeys

ASSUME DatabasesAssumption == Databases \subseteq {"legacy", "fresh"}
ASSUME NullAssumption ==
    Absent \notin Jobs \cup {"on", "off"} /\ Null \notin Jobs /\ Absent # Null
ASSUME DeathsAssumption == MaxDeaths \in Nat

TypeOK ==
    /\ origin \in Databases
    /\ schema \subseteq Elements
    /\ tracking \subseteq Names
    /\ source \in [Jobs -> Jobs \cup {Absent, Null}]
    /\ link \in [Matches -> Jobs \cup {Absent, Null}]
    /\ rubric \in [Matches -> {Null, "known"}]
    /\ flags \in [Flags -> {Absent, "on", "off"}]
    /\ pc \in [Boots -> {"off", "create", "read", "look", "commit", "up"}]
    /\ known \in [Boots -> SUBSET Names]
    /\ seen \in [Boots -> SUBSET Elements]
    /\ deaths \in 0..MaxDeaths
    /\ times \in [Names -> Nat]

\* A legacy database has listings and matches of the first release.
Init ==
    /\ origin \in Databases
    /\ schema = InitialSchema[origin]
    /\ tracking = {}
    /\ source \in [Jobs -> IF origin = "legacy" THEN {Absent, Null} ELSE {Absent}]
    /\ link \in [Matches -> IF origin = "legacy" THEN {Absent, Null} ELSE {Absent}]
    /\ \A m \in Matches : link[m] # Absent => source[m[1]] # Absent
    /\ rubric = [m \in Matches |-> Null]
    /\ flags = [f \in Flags |-> Absent]
    /\ pc = [b \in Boots |-> "off"]
    /\ known = [b \in Boots |-> {}]
    /\ seen = [b \in Boots |-> {}]
    /\ deaths = 0
    /\ times = [n \in Names |-> 0]

Goto(b, label) == pc' = [pc EXCEPT ![b] = label]

(***************************************************************************)
(* The migrations.  s is the schema of the look, the statements run on     *)
(* `schema`; each operator has the rows and the catalog it leaves behind.  *)
(***************************************************************************)
Scored(v) == {m \in Matches : link[m] # Absent /\ m[2] = v}

\* 0001: job_matches gets the primary key (job_id, prompt_version) and score_breakdown.
WidenMatchesPk(s) ==
    /\ schema' = (IF "matches.pk_wide" \in s THEN schema
                  ELSE (schema \ MatchKeys) \cup {"matches.pk_wide"})
                     \cup {"matches.score_breakdown"}
    /\ UNCHANGED <<source, link, rubric, flags>>

\* 0002: rubric_version, looked up in MLflow per prompt version; a failed lookup leaves NULL.
AddRubricVersion ==
    /\ schema' = schema \cup {"matches.rubric_version"}
    /\ \E resolved \in SUBSET Versions :
          rubric' = [m \in Matches |->
              IF \E v \in resolved : m \in Scored(v) THEN "known" ELSE rubric[m]]
    /\ UNCHANGED <<source, link, flags>>

\* 0003: source, source_job_id and id; the listings there are come from the first source.
AddSource(s) ==
    /\ schema' = schema \cup {"listings.source"}
    /\ source' = IF "listings.source" \in s THEN source
                 ELSE [j \in Jobs |-> IF source[j] = Null THEN j ELSE source[j]]
    /\ UNCHANGED <<link, rubric, flags>>

\* 0004: job_listing_id, joined on source_job_id, and its foreign key.
\* Mutant: the join has lost its condition on the job.
BugAnyListing == [m \in Matches |->
    IF link[m] = Null /\ \E j \in Jobs : source[j] = j
    THEN CHOOSE j \in Jobs : source[j] = j ELSE link[m]]

Resolved == [m \in Matches |->
    IF link[m] = Null /\ source[m[1]] = m[1] THEN m[1] ELSE link[m]]

AddJobListingId(s) ==
    /\ schema' = schema \cup {"matches.job_listing_id"}
    /\ link' = IF "matches.job_listing_id" \in s THEN link ELSE Resolved
    /\ UNCHANGED <<source, rubric, flags>>

\* 0005: job_id of job_listings goes, id becomes the primary key.
DropListingsJobId(s) ==
    /\ schema' = IF "listings.job_id" \in s
                 THEN (schema \ {"listings.job_id"}) \cup {"listings.pk_id"} ELSE schema
    /\ UNCHANGED <<source, link, rubric, flags>>

\* 0006: job_id of job_matches goes, (job_listing_id, prompt_version) becomes the primary key.
DropMatchesJobId(s) ==
    /\ schema' = IF "matches.job_id" \in s
                 THEN (schema \ (MatchKeys \cup {"matches.job_id"})) \cup {"matches.pk_listing"}
                 ELSE schema
    /\ UNCHANGED <<source, link, rubric, flags>>

\* 0007: the table of the flags, and those rows of it that are missing.
\* Mutant: the seed is an upsert.
BugSeedAll(f) == "on"
Seeded(f) == IF flags[f] = Absent THEN "on" ELSE flags[f]

AddFeatureFlags ==
    /\ schema' = schema \cup {"feature_flags"}
    /\ flags' = [f \in Flags |-> Seeded(f)]
    /\ UNCHANGED <<source, link, rubric>>

Migrate(n, s) ==
    \/ n = 1 /\ WidenMatchesPk(s)
    \/ n = 2 /\ AddRubricVersion
    \/ n = 3 /\ AddSource(s)
    \/ n = 4 /\ AddJobListingId(s)
    \/ n = 5 /\ DropListingsJobId(s)
    \/ n = 6 /\ DropMatchesJobId(s)
    \/ n = 7 /\ AddFeatureFlags

\* What a migration refuses by itself: an error rolls its transaction back.  Counting the
\* unresolved rows takes no lock, but SET NOT NULL counts them again under one.
\* Mutant: the rows are resolved through the column that 0005 has just dropped.
BugJoinsJobId(s) == "listings.job_id" \in schema

MatchesJobIdMayGo(s) == "matches.job_id" \notin s \/ \A m \in Matches : link[m] # Null

Accepts(n, s) ==
    /\ n = 1 => "matches.pk_wide" \in s \/ "matches.job_id" \in schema
    /\ n = 4 => "matches.job_listing_id" \in s \/ \A m \in Matches : Resolved[m] # Null
    /\ n = 5 => "listings.job_id" \notin s \/ \A j \in Jobs : source[j] # Null
    /\ n = 6 => MatchesJobIdMayGo(s)

\* ADD COLUMN and DROP COLUMN after a stale look: the other boot has done it already.
Adds  == <<{}, {"matches.rubric_version"}, {"listings.source"}, {"matches.job_listing_id"},
           {}, {}, {}>>
Drops == <<{}, {}, {}, {}, {"listings.job_id"}, {"matches.job_id"}, {}>>

LookHolds(n, s) == (Adds[n] \cup Drops[n]) \cap s = (Adds[n] \cup Drops[n]) \cap schema

(***************************************************************************)
(* One boot                                                                *)
(***************************************************************************)
Start(b) ==
    /\ pc[b] = "off"
    /\ Goto(b, "create")
    /\ UNCHANGED <<origin, db, tracking, known, seen, deaths, times>>

\* get_shared_engine: create_all makes the tables that are missing, whole.
CreateTables(b) ==
    /\ pc[b] = "create"
    /\ schema' = IF schema = {} THEN Current ELSE schema \cup {"feature_flags"}
    /\ Goto(b, "read")
    /\ UNCHANGED <<origin, source, link, rubric, flags, tracking, known, seen, deaths, times>>

AppliedNames(b) ==
    /\ pc[b] = "read"
    /\ known' = [known EXCEPT ![b] = tracking]
    /\ Goto(b, "look")
    /\ UNCHANGED <<origin, db, tracking, seen, deaths, times>>

\* The first migration in the order of the names that is not in already_applied.
IsNext(b, n) == n \in Names \ known[b] /\ \A k \in Names \ known[b] : n <= k

Look(b) ==
    /\ pc[b] = "look"
    /\ known[b] # Names
    /\ seen' = [seen EXCEPT ![b] = schema]
    /\ Goto(b, "commit")
    /\ UNCHANGED <<origin, db, tracking, known, deaths, times>>

NotRecorded(n) == n \notin tracking

\* The statements of the migration, the tracking row and the commit: all or nothing.
Commit(b, n) ==
    /\ pc[b] = "commit" /\ IsNext(b, n)
    /\ NotRecorded(n) /\ LookHolds(n, seen[b]) /\ Accepts(n, seen[b])
    /\ Migrate(n, seen[b])
    /\ tracking' = tracking \cup {n}
    /\ known' = [known EXCEPT ![b] = @ \cup {n}]
    /\ seen' = [seen EXCEPT ![b] = {}]
    /\ times' = [times EXCEPT ![n] = @ + 1]
    /\ Goto(b, "look")
    /\ UNCHANGED <<origin, deaths>>

\* Mutant: the tracking row is written by a transaction of its own, before the migration.
BugRecordFirst(b, n) ==
    /\ pc[b] = "commit" /\ IsNext(b, n)
    /\ ~(NotRecorded(n) /\ LookHolds(n, seen[b]) /\ Accepts(n, seen[b]))
    /\ tracking' = tracking \cup {n}
    /\ known' = [known EXCEPT ![b] = {}]
    /\ seen' = [seen EXCEPT ![b] = {}]
    /\ Goto(b, "off")
    /\ UNCHANGED <<origin, db, deaths, times>>

\* An error of a statement or of the tracking row: rolled back, and the process exits.
Refused(b, n) ==
    /\ pc[b] = "commit" /\ IsNext(b, n)
    /\ ~(NotRecorded(n) /\ LookHolds(n, seen[b]) /\ Accepts(n, seen[b]))
    /\ known' = [known EXCEPT ![b] = {}]
    /\ seen' = [seen EXCEPT ![b] = {}]
    /\ Goto(b, "off")
    /\ UNCHANGED <<origin, db, tracking, deaths, times>>

Serve(b) ==
    /\ pc[b] = "look" /\ known[b] = Names
    /\ Goto(b, "up")
    /\ UNCHANGED <<origin, db, tracking, known, seen, deaths, times>>

\* The process ends anywhere; an open transaction is rolled back.
Die(b) ==
    /\ pc[b] # "off" /\ deaths < MaxDeaths
    /\ deaths' = deaths + 1
    /\ known' = [known EXCEPT ![b] = {}]
    /\ seen' = [seen EXCEPT ![b] = {}]
    /\ Goto(b, "off")
    /\ UNCHANGED <<origin, db, tracking, times>>

BootStep(b) ==
    \/ Start(b) \/ CreateTables(b) \/ AppliedNames(b) \/ Look(b) \/ Serve(b)
    \/ \E n \in Names : Commit(b, n) \/ Refused(b, n)

(***************************************************************************)
(* The writers meanwhile, of the release before and of this one            *)
(***************************************************************************)
\* The old INSERT knows job_id and nothing of source: it works until job_id is gone.
OldScrape(j) ==
    /\ "listings.job_id" \in schema
    /\ source[j] = Absent
    /\ source' = [source EXCEPT ![j] = Null]
    /\ UNCHANGED <<schema, link, rubric, flags>>

NewScrape(j) ==
    /\ "listings.source" \in schema /\ "listings.job_id" \notin schema
    /\ source[j] = Absent
    /\ source' = [source EXCEPT ![j] = j]
    /\ UNCHANGED <<schema, link, rubric, flags>>

OldMatch(m) ==
    /\ "matches.job_id" \in schema
    /\ link[m] = Absent /\ source[m[1]] # Absent
    /\ "matches.pk_job" \in schema => \A k \in Matches : k[1] = m[1] => link[k] = Absent
    /\ link' = [link EXCEPT ![m] = Null]
    /\ UNCHANGED <<schema, source, rubric, flags>>

NewMatch(m) ==
    /\ \E b \in Boots : pc[b] = "up"
    /\ "matches.pk_listing" \in schema
    /\ link[m] = Absent /\ source[m[1]] = m[1]
    /\ link' = [link EXCEPT ![m] = m[1]]
    /\ rubric' = [rubric EXCEPT ![m] = "known"]
    /\ UNCHANGED <<schema, source, flags>>

\* DELETE /jobs: only the foreign key of 0004 refuses a listing that has matches.
DeleteJob(j) ==
    /\ source[j] # Absent
    /\ "matches.job_listing_id" \in schema => \A m \in Matches : link[m] # j
    /\ source' = [source EXCEPT ![j] = Absent]
    /\ UNCHANGED <<schema, link, rubric, flags>>

\* POST /admin/feature-flags/{name}, an upsert.
SetFlag(f, value) ==
    /\ "feature_flags" \in schema
    /\ flags' = [flags EXCEPT ![f] = value]
    /\ UNCHANGED <<schema, source, link, rubric>>

WriterStep ==
    /\ \/ \E j \in Jobs : OldScrape(j) \/ NewScrape(j) \/ DeleteJob(j)
       \/ \E m \in Matches : OldMatch(m) \/ NewMatch(m)
       \/ \E f \in Flags, value \in {"on", "off"} : SetFlag(f, value)
    /\ UNCHANGED <<origin, tracking, pc, known, seen, deaths, times>>

Next == WriterStep \/ \E b \in Boots : BootStep(b) \/ Die(b)

Spec == Init /\ [][Next]_vars

\* A boot runs on, and a service that is down is started again; no writer has to write.
Fairness == \A b \in Boots : WF_vars(BootStep(b))

FairSpec == Spec /\ Fairness

(***************************************************************************)
(* Properties                                                              *)
(***************************************************************************)
\* What the tracking table says is what the catalog shows, after every failure, race and
\* redeploy: a migration and its tracking row are committed together or not at all.
TracksSchema ==
    origin = "legacy" =>
        /\ \A n \in tracking, k \in Names : k < n => k \in tracking
        /\ \A n \in Names :
              /\ Adds[n] # {} => (n \in tracking <=> Adds[n] \subseteq schema)
              /\ Drops[n] # {} => (n \in tracking <=> Drops[n] \cap schema = {})
        /\ 1 \in tracking <=> "matches.score_breakdown" \in schema
        /\ 7 \in tracking => \A f \in Flags : flags[f] # Absent

\* Boots that overlap read the same list of applied names, and still no migration is
\* committed twice.
AtMostOnce == \A n \in Names : times[n] <= 1

\* A process that serves finds the tables its models declare, no more and no less.
ServesCurrent == \A b \in Boots : pc[b] = "up" => schema = Current

\* Through every boot, race, refusal and redeploy the ledger, the catalog and the processes
\* that serve agree (run_migrations.py:35-81, api/app.py:36-43).
SchemaSound == TypeOK /\ TracksSchema /\ AtMostOnce /\ ServesCurrent

\* Once job_id is gone from job_matches every match still leads to the listing it was
\* made for, which is there and has its source: nothing was lost on the way.
NoMatchLost ==
    "matches.job_id" \notin schema =>
        \A m \in Matches : link[m] # Absent => link[m] = m[1] /\ source[m[1]] = m[1]

\* No boot, whatever it applies again, puts back a switch that an operator has flipped.
BootKeepsFlags ==
    [][pc' # pc => \A f \in Flags : flags[f] # Absent => flags'[f] = flags[f]]_vars

\* A row that the migrations refuse for good: written by the old release after 0003 or
\* 0004 filled the columns in, or left without its listing.
Unresolvable ==
    /\ 3 \in tracking
    /\ \/ \E j \in Jobs : source[j] = Null
       \/ \E m \in Matches : link[m] = Null /\ (4 \in tracking \/ source[m[1]] # m[1])

\* A database of the first release is brought up to date and the service comes up, unless
\* an old writer leaves a row that the migrations refuse.
LegacyBoots ==
    origin = "legacy" ~> (Unresolvable \/ \E b \in Boots : pc[b] = "up")

(***************************************************************************)
(* A statement of the documentation that the code does not keep            *)
(***************************************************************************)
\* README, local development: the databases "auto-create their schemas on first use, no
\* migration step needed", so a service on a new database comes up.
FreshBoots == origin = "fresh" ~> \E b \in Boots : pc[b] = "up"
=============================================================================

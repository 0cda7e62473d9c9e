-------------------------- MODULE Migrations_proofs --------------------------
(***************************************************************************)
(* Proofs about Migrations: for any number of overlapping boots, jobs,     *)
(* versions and flags, the ledger and the catalog agree, no migration is   *)
(* committed twice, no match loses its listing, and no boot puts a flag    *)
(* back.                                                                   *)
(***************************************************************************)
EXTENDS Migrations, TLAPS

USE DatabasesAssumption, NullAssumption, DeathsAssumption

(***************************************************************************)
(* The inductive invariant                                                 *)
(***************************************************************************)
\* The ledger: it is filled in the order of the names, each boot knows a part of it, and a
\* boot that has seen the wide key knows of it from a migration that was committed.
Ledger ==
    /\ \A n \in tracking, k \in Names : k < n => k \in tracking
    /\ \A n \in Names : times[n] = IF n \in tracking THEN 1 ELSE 0
    /\ \A b \in Boots : known[b] \subseteq tracking
    /\ \A b \in Boots : pc[b] = "up" => known[b] = Names
    /\ \A b \in Boots : "matches.pk_wide" \in seen[b] => 1 \in tracking
    /\ 7 \in tracking => \A f \in Flags : flags[f] # Absent

\* What the catalog of a legacy database shows, by what has been applied to it.
LegacyCatalog ==
    /\ "listings.job_id" \in schema <=> 5 \notin tracking
    /\ "listings.source" \in schema <=> 3 \in tracking
    /\ "listings.pk_id" \in schema <=> 5 \in tracking
    /\ "matches.job_id" \in schema <=> 6 \notin tracking
    /\ "matches.pk_job" \in schema <=> 1 \notin tracking
    /\ "matches.pk_wide" \in schema <=> 1 \in tracking /\ 6 \notin tracking
    /\ "matches.pk_listing" \in schema <=> 6 \in tracking
    /\ "matches.score_breakdown" \in schema <=> 1 \in tracking
    /\ "matches.rubric_version" \in schema <=> 2 \in tracking
    /\ "matches.job_listing_id" \in schema <=> 4 \in tracking
    /\ 7 \in tracking => "feature_flags" \in schema

\* Its rows: a match that has been linked is linked to the listing of its own job, which has
\* its source; from 0006 on every match is linked.
LegacyRows ==
    /\ \A j \in Jobs : source[j] \in {Absent, Null, j}
    /\ \A m \in Matches : link[m] \in {Absent, Null, m[1]}
    /\ \A m \in Matches : link[m] = m[1] => 4 \in tracking /\ source[m[1]] = m[1]
    /\ 6 \in tracking => \A m \in Matches : link[m] # Null

\* A new database is stuck before 0001: nothing is applied to it, and nobody serves.
FreshStuck ==
    /\ tracking = {}
    /\ schema \in {{}, Current}
    /\ \A m \in Matches : link[m] = Absent

IInv ==
    /\ TypeOK /\ Ledger
    /\ origin = "legacy" => LegacyCatalog /\ LegacyRows
    /\ origin = "fresh" => FreshStuck

LEMMA InitIInv == Init => IInv
<1> SUFFICES ASSUME Init PROVE IInv
  OBVIOUS
<1>0. origin \in {"legacy", "fresh"}
  BY DEF Init
<1>1. TypeOK
  BY <1>0 DEF Init, TypeOK, Names, InitialSchema, Elements, Current, ListingsLegacy, MatchesLegacy, MatchKeys
<1>2. Ledger
  BY DEF Init, Ledger, Names
<1>3. ASSUME origin = "legacy" PROVE LegacyCatalog
  BY <1>3 DEF Init, InitialSchema, LegacyCatalog, ListingsLegacy, MatchesLegacy
<1>4. ASSUME origin = "legacy" PROVE LegacyRows
  BY <1>4 DEF Init, LegacyRows, Matches
<1>5. ASSUME origin = "fresh" PROVE FreshStuck
  BY <1>5 DEF Init, InitialSchema, FreshStuck, Matches
<1> QED
  BY <1>1, <1>2, <1>3, <1>4, <1>5 DEF IInv

(***************************************************************************)
(* The commit of a migration                                               *)
(***************************************************************************)
\* It is the first that the ledger does not have, on a legacy database.
LEMMA CommitIsNext ==
  ASSUME IInv, NEW b \in Boots, NEW n \in Names, Commit(b, n)
  PROVE  /\ origin = "legacy" /\ LegacyCatalog /\ LegacyRows
         /\ tracking = {k \in Names : k < n}
         /\ tracking' = {k \in Names : k <= n}
         /\ LookHolds(n, seen[b]) /\ Accepts(n, seen[b]) /\ Migrate(n, seen[b])
<1>1. n \notin tracking /\ tracking' = tracking \cup {n}
  BY DEF Commit, NotRecorded
<1>2. known[b] \subseteq tracking /\ tracking \subseteq Names
  BY DEF IInv, Ledger, TypeOK
<1>3. \A k \in Names : k < n => k \in tracking
  BY <1>2 DEF Commit, IsNext, Names
<1>4. ASSUME NEW k \in tracking PROVE k < n
  <2>1. n < k => n \in tracking
    BY DEF IInv, Ledger
  <2>2. k \in 1..7 /\ n \in 1..7
    BY <1>2 DEF Names
  <2>3. k # n /\ ~(n < k)
    BY <1>1, <2>1
  <2> QED
    BY <2>2, <2>3
<1>5. tracking = {k \in Names : k < n} /\ tracking' = {k \in Names : k <= n}
  <2>1. tracking = {k \in Names : k < n}
    BY <1>2, <1>3, <1>4
  <2>2. \A k \in Names : k <= n <=> k < n \/ k = n
    BY DEF Names
  <2> QED
    BY <1>1, <2>1, <2>2
<1>6. LookHolds(n, seen[b]) /\ Accepts(n, seen[b]) /\ Migrate(n, seen[b])
  BY DEF Commit
<1>7. origin # "fresh"
  <2> SUFFICES ASSUME origin = "fresh" PROVE FALSE
    OBVIOUS
  <2>1. tracking = {} /\ schema \in {{}, Current}
    BY DEF IInv, FreshStuck
  <2>2. n = 1
    BY <1>5, <2>1 DEF Names
  <2>3. "matches.pk_wide" \notin seen[b] /\ "matches.job_id" \notin schema
    BY <2>1 DEF IInv, Ledger, Current
  <2> QED
    BY <1>6, <2>2, <2>3 DEF Accepts
<1>8. origin = "legacy"
  BY <1>7 DEF IInv, TypeOK
<1> QED
  BY <1>5, <1>6, <1>8 DEF IInv
\* Its catalog.
LEMMA CommitCatalog ==
  ASSUME IInv, NEW b \in Boots, NEW n \in Names, Commit(b, n)
  PROVE  LegacyCatalog'
<1> DEFINE s == seen[b]
<1>1. /\ LegacyCatalog
      /\ tracking = {k \in Names : k < n} /\ tracking' = {k \in Names : k <= n}
      /\ LookHolds(n, s) /\ Migrate(n, s)
  BY CommitIsNext
<1>2. \A k \in 1..7 : (k \in tracking <=> k < n) /\ (k \in tracking' <=> k <= n)
  BY <1>1 DEF Names
<1>3. n \in 1..7
  BY DEF Names
<1>a. "matches.pk_wide" \in s => 1 \in tracking
  BY DEF IInv, Ledger
<1> HIDE DEF s
<1> USE <1>1, <1>2, <1>3 DEF LegacyCatalog, Migrate, LookHolds, Adds, Drops
<1>4. CASE n = 1
  BY <1>4, <1>a DEF WidenMatchesPk, MatchKeys
<1>5. CASE n = 2
  BY <1>5 DEF AddRubricVersion
<1>6. CASE n = 3
  BY <1>6 DEF AddSource
<1>7. CASE n = 4
  BY <1>7 DEF AddJobListingId
<1>8. CASE n = 5
  BY <1>8 DEF DropListingsJobId
<1>9. CASE n = 6
  BY <1>9 DEF DropMatchesJobId, MatchKeys
<1>10. CASE n = 7
  BY <1>10 DEF AddFeatureFlags
<1> QED
  BY <1>4, <1>5, <1>6, <1>7, <1>8, <1>9, <1>10

\* Its rows.
LEMMA CommitRows ==
  ASSUME IInv, NEW b \in Boots, NEW n \in Names, Commit(b, n)
  PROVE  LegacyRows'
<1> DEFINE s == seen[b]
<1>1. /\ LegacyCatalog /\ LegacyRows
      /\ tracking = {k \in Names : k < n} /\ tracking' = {k \in Names : k <= n}
      /\ LookHolds(n, s) /\ Accepts(n, s) /\ Migrate(n, s)
  BY CommitIsNext
<1>2. \A k \in 1..7 : (k \in tracking <=> k < n) /\ (k \in tracking' <=> k <= n)
  BY <1>1 DEF Names
<1>3. n \in 1..7
  BY DEF Names
<1> HIDE DEF s
<1>4. CASE n \in {1, 2, 5, 7}
  <2>1. source' = source /\ link' = link
    BY <1>1, <1>4 DEF Migrate, WidenMatchesPk, AddRubricVersion, DropListingsJobId, AddFeatureFlags
  <2> QED
    BY <1>1, <1>2, <1>4, <2>1 DEF LegacyRows
<1>6. CASE n = 3
  <2>1. link' = link /\ \A j \in Jobs : source'[j] \in {source[j], j}
    BY <1>1, <1>6 DEF Migrate, AddSource, LegacyRows
  <2> QED
    BY <1>1, <1>2, <1>6, <2>1 DEF LegacyRows, Matches
<1>7. CASE n = 4
  <2>1. source' = source
    BY <1>1, <1>7 DEF Migrate, AddJobListingId
  <2>2. \A m \in Matches : link'[m] = link[m] \/ (link'[m] = m[1] /\ source[m[1]] = m[1])
    BY <1>1, <1>7 DEF Migrate, AddJobListingId, Resolved
  <2> QED
    BY <1>1, <1>2, <1>7, <2>1, <2>2 DEF LegacyRows, Matches
<1>9. CASE n = 6
  <2>1. source' = source /\ link' = link
    BY <1>1, <1>9 DEF Migrate, DropMatchesJobId
  <2>2. "matches.job_id" \in s
    BY <1>1, <1>2, <1>9 DEF LookHolds, Adds, Drops, LegacyCatalog
  <2>3. \A m \in Matches : link[m] # Null
    BY <1>1, <1>9, <2>2 DEF Accepts, MatchesJobIdMayGo
  <2> QED
    BY <1>1, <1>2, <1>9, <2>1, <2>3 DEF LegacyRows
<1> QED
  BY <1>3, <1>4, <1>6, <1>7, <1>9
\* A commit keeps the invariant: the times and the flags besides.
LEMMA CommitKeeps ==
  ASSUME IInv, NEW b \in Boots, NEW n \in Names, Commit(b, n)
  PROVE  IInv'
<1>1. /\ origin = "legacy" /\ LegacyRows /\ Migrate(n, seen[b])
      /\ tracking = {k \in Names : k < n} /\ tracking' = {k \in Names : k <= n}
  BY CommitIsNext
<1>2. n \notin tracking /\ tracking' = tracking \cup {n} /\ n \in 1..7
  BY DEF Commit, NotRecorded, Names
<1>3. \A f \in Flags : flags'[f] \in {"on", "off"} \/ flags'[f] = flags[f]
  BY <1>1 DEF Migrate, WidenMatchesPk, AddRubricVersion, AddSource, AddJobListingId,
              DropListingsJobId, DropMatchesJobId, AddFeatureFlags, Seeded
<1>4. TypeOK'
  <2>1. /\ origin' \in Databases /\ tracking' \subseteq Names /\ deaths' \in 0..MaxDeaths
        /\ pc' \in [Boots -> {"off", "create", "read", "look", "commit", "up"}]
        /\ known' \in [Boots -> SUBSET Names] /\ seen' \in [Boots -> SUBSET Elements]
    BY <1>2 DEF IInv, TypeOK, Commit, Goto
  <2>2. times' \in [Names -> Nat]
    BY DEF IInv, TypeOK, Commit
  <2>3. schema' \subseteq Elements
    BY <1>1 DEF IInv, TypeOK, Migrate, WidenMatchesPk, AddRubricVersion, AddSource, AddJobListingId,
              DropListingsJobId, DropMatchesJobId, AddFeatureFlags, Elements, Current, MatchKeys
  <2>4. source' \in [Jobs -> Jobs \cup {Absent, Null}]
    BY <1>1 DEF IInv, TypeOK, Migrate, WidenMatchesPk, AddRubricVersion, AddSource, AddJobListingId,
              DropListingsJobId, DropMatchesJobId, AddFeatureFlags
  <2>5. link' \in [Matches -> Jobs \cup {Absent, Null}]
    <3>1. Resolved \in [Matches -> Jobs \cup {Absent, Null}]
      BY DEF IInv, TypeOK, Resolved, Matches
    <3> QED
      BY <1>1, <3>1 DEF IInv, TypeOK, Migrate, WidenMatchesPk, AddRubricVersion, AddSource, AddJobListingId,
              DropListingsJobId, DropMatchesJobId, AddFeatureFlags
  <2>6. rubric' \in [Matches -> {Null, "known"}]
    BY <1>1 DEF IInv, TypeOK, Migrate, WidenMatchesPk, AddRubricVersion, AddSource, AddJobListingId,
              DropListingsJobId, DropMatchesJobId, AddFeatureFlags
  <2>7. flags' \in [Flags -> {Absent, "on", "off"}]
    BY <1>1 DEF IInv, TypeOK, Migrate, WidenMatchesPk, AddRubricVersion, AddSource, AddJobListingId,
              DropListingsJobId, DropMatchesJobId, AddFeatureFlags, Seeded
  <2> QED
    BY <2>1, <2>2, <2>3, <2>4, <2>5, <2>6, <2>7 DEF TypeOK
<1>5. Ledger'
  <2>1. \A m \in tracking', k \in Names : k < m => k \in tracking'
    BY <1>1, <1>2 DEF Names
  <2>2. \A m \in Names : times'[m] = IF m \in tracking' THEN 1 ELSE 0
    BY <1>2 DEF IInv, Ledger, TypeOK, Commit
  <2>3. \A c \in Boots : known'[c] \subseteq tracking'
    BY <1>2 DEF IInv, Ledger, TypeOK, Commit
  <2>4. \A c \in Boots : pc'[c] = "up" => known'[c] = Names
    BY DEF IInv, Ledger, TypeOK, Commit, Goto
  <2>5. \A c \in Boots : "matches.pk_wide" \in seen'[c] => 1 \in tracking'
    BY <1>2 DEF IInv, Ledger, TypeOK, Commit
  <2>6. 7 \in tracking' => \A f \in Flags : flags'[f] # Absent
    <3>1. CASE n = 7
      BY <1>1, <3>1 DEF Migrate, AddFeatureFlags, Seeded
    <3>2. CASE n # 7
      BY <1>2, <1>3, <3>2 DEF IInv, Ledger
    <3> QED
      BY <3>1, <3>2
  <2> QED
    BY <2>1, <2>2, <2>3, <2>4, <2>5, <2>6 DEF Ledger
<1>6. origin' = "legacy"
  BY <1>1 DEF Commit
<1> QED
  BY <1>4, <1>5, <1>6, CommitCatalog, CommitRows DEF IInv
(***************************************************************************)
(* The other steps of a boot                                               *)
(***************************************************************************)
\* What they leave alone: the rows, the ledger and, CreateTables aside, the catalog.
LEMMA BootKeeps ==
  ASSUME IInv, NEW b \in Boots,
         \/ Start(b) \/ AppliedNames(b) \/ Look(b) \/ Serve(b) \/ Die(b)
         \/ \E n \in Names : Refused(b, n)
  PROVE  IInv'
<1>1. UNCHANGED <<origin, schema, source, link, rubric, flags, tracking, times>>
  BY DEF Start, AppliedNames, Look, Serve, Die, Refused, db
<1>2. TypeOK'
  BY <1>1 DEF IInv, TypeOK, Start, AppliedNames, Look, Serve, Die, Refused, Goto
<1>3. /\ \A c \in Boots : known'[c] \in {known[c], tracking, {}}
      /\ \A c \in Boots : pc'[c] = "up" => known'[c] = Names
      /\ \A c \in Boots : seen'[c] \in {seen[c], schema, {}}
  BY DEF IInv, TypeOK, Ledger, Start, AppliedNames, Look, Serve, Die, Refused, Goto
<1>4. "matches.pk_wide" \in schema => 1 \in tracking
  BY DEF IInv, TypeOK, LegacyCatalog, FreshStuck, Current
<1>5. Ledger'
  BY <1>1, <1>3, <1>4 DEF IInv, Ledger
<1>6. (LegacyCatalog => LegacyCatalog') /\ (LegacyRows => LegacyRows') /\ (FreshStuck => FreshStuck')
  BY <1>1 DEF LegacyCatalog, LegacyRows, FreshStuck
<1> QED
  BY <1>1, <1>2, <1>5, <1>6 DEF IInv

\* create_all adds the one table that a legacy database lacks, or all of them.
LEMMA CreateKeeps ==
  ASSUME IInv, NEW b \in Boots, CreateTables(b)
  PROVE  IInv'
<1>1. UNCHANGED <<origin, source, link, rubric, flags, tracking, known, seen, deaths, times>>
  BY DEF CreateTables
<1>2. TypeOK'
  <2>1. schema' \subseteq Elements
    BY DEF IInv, TypeOK, CreateTables, Elements, Current
  <2> QED
    BY <1>1, <2>1 DEF IInv, TypeOK, CreateTables, Goto
<1>3. Ledger'
  BY <1>1 DEF IInv, TypeOK, Ledger, CreateTables, Goto
<1>4. ASSUME origin = "legacy" PROVE LegacyCatalog' /\ LegacyRows'
  <2>1. schema # {}
    BY <1>4 DEF IInv, LegacyCatalog
  <2>2. schema' = schema \cup {"feature_flags"}
    BY <2>1 DEF CreateTables
  <2> QED
    BY <1>1, <1>4, <2>2 DEF IInv, LegacyCatalog, LegacyRows
<1>5. ASSUME origin = "fresh" PROVE FreshStuck'
  <2>1. schema' = Current
    BY <1>5 DEF IInv, FreshStuck, CreateTables, Current
  <2> QED
    BY <1>1, <1>5, <2>1 DEF IInv, FreshStuck
<1> QED
  BY <1>1, <1>2, <1>3, <1>4, <1>5 DEF IInv

(***************************************************************************)
(* The writers                                                             *)
(***************************************************************************)
LEMMA WriterKeeps ==
  ASSUME IInv, WriterStep
  PROVE  IInv'
<1>1. UNCHANGED <<origin, tracking, pc, known, seen, deaths, times, schema>>
  BY DEF WriterStep, OldScrape, NewScrape, OldMatch, NewMatch, DeleteJob, SetFlag
<1>2. \A b \in Boots : pc[b] = "up" => origin = "legacy"
  BY DEF IInv, Ledger, FreshStuck, TypeOK, Names
<1>3. TypeOK'
  BY <1>1 DEF IInv, TypeOK, WriterStep, OldScrape, NewScrape, OldMatch, NewMatch, DeleteJob,
              SetFlag, Matches
<1>4. Ledger'
  <2>1. \A f \in Flags : flags[f] # Absent => flags'[f] # Absent
    BY DEF IInv, TypeOK, WriterStep, OldScrape, NewScrape, OldMatch, NewMatch, DeleteJob, SetFlag
  <2> QED
    BY <1>1, <2>1 DEF IInv, Ledger
<1>5. LegacyCatalog => LegacyCatalog'
  BY <1>1 DEF LegacyCatalog
<1>6. ASSUME origin = "legacy" PROVE LegacyRows'
  <2> USE <1>6
  <2>0. LegacyRows /\ LegacyCatalog /\ source \in [Jobs -> Jobs \cup {Absent, Null}]
        /\ link \in [Matches -> Jobs \cup {Absent, Null}] /\ UNCHANGED tracking
    BY <1>1 DEF IInv, TypeOK
  <2>1. ASSUME NEW j \in Jobs, OldScrape(j) \/ NewScrape(j) PROVE LegacyRows'
    <3>1. source[j] = Absent /\ source' = [source EXCEPT ![j] = source'[j]] /\ link' = link
          /\ source'[j] \in {Null, j}
      BY <2>0, <2>1 DEF OldScrape, NewScrape
    <3> QED
      BY <2>0, <3>1 DEF LegacyRows, Matches
  <2>2. ASSUME NEW j \in Jobs, DeleteJob(j) PROVE LegacyRows'
    BY <2>0, <2>2 DEF DeleteJob, LegacyRows, LegacyCatalog, Matches
  <2>3. ASSUME NEW m \in Matches, OldMatch(m) PROVE LegacyRows'
    BY <2>0, <2>3 DEF OldMatch, LegacyRows, LegacyCatalog, Matches
  <2>4. ASSUME NEW m \in Matches, NewMatch(m) PROVE LegacyRows'
    <3>1. 6 \in tracking
      BY <2>0, <2>4 DEF NewMatch, LegacyCatalog
    <3>2. 4 \in tracking
      BY <3>1 DEF IInv, Ledger, Names
    <3> QED
      BY <2>0, <2>4, <3>2 DEF NewMatch, LegacyRows, Matches
  <2>5. ASSUME NEW f \in Flags, NEW value \in {"on", "off"}, SetFlag(f, value) PROVE LegacyRows'
    BY <2>0, <2>5 DEF SetFlag, LegacyRows
  <2> QED
    BY <2>1, <2>2, <2>3, <2>4, <2>5 DEF WriterStep
<1>7. ASSUME origin = "fresh" PROVE FreshStuck'
  <2>1. FreshStuck /\ "matches.job_id" \notin schema
    BY <1>7 DEF IInv, FreshStuck, Current
  <2>2. link' = link
    BY <1>2, <1>7, <2>1 DEF WriterStep, OldScrape, NewScrape, OldMatch, NewMatch, DeleteJob, SetFlag
  <2> QED
    BY <1>1, <2>1, <2>2 DEF FreshStuck
<1> QED
  BY <1>1, <1>3, <1>4, <1>5, <1>6, <1>7 DEF IInv

(***************************************************************************)
(* The theorems                                                            *)
(***************************************************************************)
LEMMA StepKeeps ==
  ASSUME IInv, [Next]_vars
  PROVE  IInv'
<1>1. CASE WriterStep
  BY <1>1, WriterKeeps
<1>2. ASSUME NEW b \in Boots, BootStep(b) \/ Die(b) PROVE IInv'
  BY <1>2, CommitKeeps, BootKeeps, CreateKeeps DEF BootStep
<1>3. CASE UNCHANGED vars
  BY <1>3 DEF vars, db, IInv, TypeOK, Ledger, LegacyCatalog, LegacyRows, FreshStuck
<1> QED
  BY <1>1, <1>2, <1>3 DEF Next

\* The ledger, the catalog and the rows of a legacy database fit together always, and a new
\* database stays where 0001 leaves it.
THEOREM Inductive == Spec => []IInv
  BY InitIInv, StepKeeps, PTL DEF Spec

\* However many boots overlap, die and race the writers of both releases: the ledger says what
\* the catalog shows, no migration is committed twice, and who serves finds the tables it
\* declares.
THEOREM LedgerIsSound == Spec => []SchemaSound
<1>1. ASSUME IInv PROVE TracksSchema
  <2>1. SUFFICES ASSUME origin = "legacy" PROVE TracksSchema
    BY DEF TracksSchema
  <2>2. Ledger /\ LegacyCatalog
    BY <1>1, <2>1 DEF IInv
  <2>3. ASSUME NEW n \in Names
        PROVE  /\ Adds[n] # {} => (n \in tracking <=> Adds[n] \subseteq schema)
               /\ Drops[n] # {} => (n \in tracking <=> Drops[n] \cap schema = {})
    <3>1. n \in {1, 2, 3, 4, 5, 6, 7}
      BY DEF Names
    <3> QED
      BY <2>2, <3>1 DEF Adds, Drops, LegacyCatalog
  <2> QED
    BY <2>2, <2>3 DEF TracksSchema, Ledger, LegacyCatalog
<1>2. ASSUME IInv PROVE AtMostOnce
  BY <1>2 DEF IInv, Ledger, AtMostOnce
<1>3. ASSUME IInv PROVE ServesCurrent
  <2> SUFFICES ASSUME NEW b \in Boots, pc[b] = "up" PROVE schema = Current
    BY DEF ServesCurrent
  <2>1. tracking = Names
    BY <1>3 DEF IInv, Ledger, TypeOK
  <2>2. origin = "legacy"
    BY <1>3, <2>1 DEF IInv, TypeOK, FreshStuck, Names
  <2>3. LegacyCatalog /\ schema \subseteq Elements
    BY <1>3, <2>2 DEF IInv, TypeOK
  <2>4. /\ 1 \in tracking /\ 2 \in tracking /\ 3 \in tracking /\ 4 \in tracking
        /\ 5 \in tracking /\ 6 \in tracking /\ 7 \in tracking
    BY <2>1 DEF Names
  <2>5. Current \subseteq schema
    BY <2>3, <2>4, Zenon DEF LegacyCatalog, Current
  <2>6. /\ "listings.job_id" \notin schema /\ "matches.job_id" \notin schema
        /\ "matches.pk_job" \notin schema /\ "matches.pk_wide" \notin schema
    BY <2>3, <2>4, Zenon DEF LegacyCatalog
  <2>7. ASSUME NEW x \in schema PROVE x \in Current
    <3>1. x \in Elements
      BY <2>3
    <3>2. x \notin ListingsLegacy \cup MatchesLegacy
      BY <2>6 DEF ListingsLegacy, MatchesLegacy
    <3>3. x \in MatchKeys => x = "matches.pk_listing"
      BY <2>6 DEF MatchKeys
    <3>4. "matches.pk_listing" \in Current
      BY DEF Current
    <3> QED
      BY <3>1, <3>2, <3>3, <3>4 DEF Elements
  <2> QED
    BY <2>5, <2>7
<1>4. ASSUME IInv PROVE SchemaSound
  BY <1>1, <1>2, <1>3, <1>4 DEF SchemaSound, IInv
<1> QED
  BY <1>4, Inductive, PTL

\* Whatever the writers of the old release do in between, no match is led to another listing
\* or left without one once the old column is gone.
THEOREM MatchesKept == Spec => []NoMatchLost
<1>1. ASSUME IInv PROVE NoMatchLost
  <2>1. CASE origin = "legacy"
    BY <1>1, <2>1 DEF IInv, LegacyCatalog, LegacyRows, NoMatchLost
  <2>2. CASE origin = "fresh"
    BY <1>1, <2>2 DEF IInv, FreshStuck, NoMatchLost
  <2> QED
    BY <1>1, <2>1, <2>2 DEF IInv, TypeOK
<1> QED
  BY <1>1, Inductive, PTL

\* No boot changes a flag that is there.
THEOREM FlagsKept == Spec => BootKeepsFlags
<1>1. ASSUME IInv, [Next]_vars
      PROVE  [pc' # pc => \A f \in Flags : flags[f] # Absent => flags'[f] = flags[f]]_vars
  <2>1. CASE WriterStep
    BY <2>1 DEF WriterStep
  <2>2. ASSUME NEW b \in Boots, BootStep(b) \/ Die(b)
        PROVE  \A f \in Flags : flags[f] # Absent => flags'[f] = flags[f]
    <3>1. ASSUME NEW n \in Names, Commit(b, n)
          PROVE  \A f \in Flags : flags[f] # Absent => flags'[f] = flags[f]
      BY <3>1 DEF Commit, Migrate, WidenMatchesPk, AddRubricVersion, AddSource, AddJobListingId,
                  DropListingsJobId, DropMatchesJobId, AddFeatureFlags, Seeded
    <3>2. CASE flags' = flags
      BY <3>2
    <3>3. (\E n \in Names : Commit(b, n)) \/ flags' = flags
      BY <2>2 DEF BootStep, Start, CreateTables, AppliedNames, Look, Serve, Die, Refused, db
    <3> QED
      BY <3>1, <3>2, <3>3
  <2> QED
    BY <1>1, <2>1, <2>2 DEF Next, vars
<1> QED
  BY <1>1, Inductive, PTL DEF Spec, BootKeepsFlags

(***************************************************************************)
(* Why LegacyBoots needs nothing but fairness, and no old row in the way.  *)
(***************************************************************************)
\* Of a legacy database: what a boot has seen is what the catalog shows, unless another has
\* committed since it read the ledger.
Looked ==
    origin = "legacy" =>
        \A b \in Boots :
            pc[b] = "commit" /\ known[b] = tracking =>
                \A x \in Elements \ {"feature_flags"} : x \in seen[b] <=> x \in schema

\* How far a boot is from its next commit, or from serving.  One whose list of applied names
\* is out of date is refused first and starts again.
BootStage(b) ==
    IF known[b] # tracking /\ pc[b] = "look" THEN 7
    ELSE IF known[b] # tracking /\ pc[b] = "commit" THEN 6
    ELSE IF pc[b] = "off" THEN 5
    ELSE IF pc[b] = "create" THEN 4
    ELSE IF pc[b] = "read" THEN 3
    ELSE IF pc[b] = "look" THEN 2
    ELSE IF pc[b] = "commit" THEN 1 ELSE 0

\* The seven names are used up one by one, and between two commits the stage goes down.
LedgerGrows == tracking \subseteq tracking' /\ tracking' # tracking

BootNearer(b) == LedgerGrows \/ (tracking' = tracking /\ BootStage(b)' < BootStage(b))
BootStill(b)  == tracking' = tracking /\ BootStage(b)' = BootStage(b)

\* A boot is refused for a row that no migration can resolve, or because another boot has
\* committed since it read the ledger, and in no other way.
RefusedWithCause ==
    \A b \in Boots, n \in Names :
        origin = "legacy" /\ Refused(b, n) => Unresolvable \/ tracking # known[b]

BootsGetOn ==
    origin = "legacy" =>
        \A b \in Boots :
            /\ BootStep(b) => BootNearer(b) \/ (Unresolvable /\ \E n \in Names : Refused(b, n))
            /\ BootStep(b) \/ Die(b) \/ BootNearer(b) \/ BootStill(b)

LEMMA LookedKept ==
  ASSUME IInv, Looked, [Next]_vars
  PROVE  Looked'
<1> SUFFICES ASSUME origin' = "legacy", NEW c \in Boots, pc'[c] = "commit", known'[c] = tracking',
                    NEW x \in Elements \ {"feature_flags"}
             PROVE  x \in seen'[c] <=> x \in schema'
  BY Zenon DEF Looked
<1>0. /\ pc \in [Boots -> {"off", "create", "read", "look", "commit", "up"}]
      /\ known \in [Boots -> SUBSET Names] /\ seen \in [Boots -> SUBSET Elements]
      /\ \A b \in Boots : known[b] \subseteq tracking
  BY DEF IInv, TypeOK, Ledger
<1>1. ASSUME UNCHANGED <<origin, tracking>>, known'[c] = known[c], seen'[c] = seen[c], pc'[c] = pc[c],
             x \in schema' <=> x \in schema
      PROVE  x \in seen'[c] <=> x \in schema'
  BY <1>1 DEF Looked
<1>2. CASE WriterStep
  BY <1>1, <1>2 DEF WriterStep, OldScrape, NewScrape, OldMatch, NewMatch, DeleteJob, SetFlag
<1>3. ASSUME NEW b \in Boots, CreateTables(b) PROVE x \in seen'[c] <=> x \in schema'
  <2>1. b # c
    BY <1>0, <1>3 DEF CreateTables, Goto
  <2>2. origin = "legacy" /\ schema # {}
    BY <1>3 DEF CreateTables, IInv, LegacyCatalog
  <2>3. x \in schema' <=> x \in schema
    BY <1>3, <2>2 DEF CreateTables
  <2> QED
    BY <1>0, <1>1, <1>3, <2>1, <2>3 DEF CreateTables, Goto
<1>4. ASSUME NEW b \in Boots, NEW n \in Names, Commit(b, n) PROVE x \in seen'[c] <=> x \in schema'
  <2>1. b # c
    BY <1>0, <1>4 DEF Commit, Goto
  <2>2. known'[c] = known[c] /\ n \notin tracking /\ tracking' = tracking \cup {n}
    BY <1>0, <1>4, <2>1 DEF Commit, NotRecorded
  <2> QED
    BY <1>0, <2>2
<1>5. ASSUME NEW b \in Boots, Look(b) PROVE x \in seen'[c] <=> x \in schema'
  <2>1. CASE b = c
    BY <1>0, <1>5, <2>1 DEF Look, db
  <2>2. CASE b # c
    BY <1>0, <1>1, <1>5, <2>2 DEF Look, Goto, db
  <2> QED
    BY <2>1, <2>2
<1>6. ASSUME NEW b \in Boots,
             Start(b) \/ AppliedNames(b) \/ Serve(b) \/ Die(b) \/ \E n \in Names : Refused(b, n)
      PROVE  x \in seen'[c] <=> x \in schema'
  <2>1. b # c
    BY <1>0, <1>6 DEF Start, AppliedNames, Serve, Die, Refused, Goto
  <2> QED
    BY <1>0, <1>1, <1>6, <2>1 DEF Start, AppliedNames, Serve, Die, Refused, Goto, db
<1>7. CASE UNCHANGED vars
  BY <1>1, <1>7 DEF vars, db
<1> QED
  BY <1>2, <1>3, <1>4, <1>5, <1>6, <1>7 DEF Next, BootStep

\* A boot with the whole ledger and a fresh look is refused only for an old row.
LEMMA FreshLookAccepted ==
  ASSUME IInv, Looked, origin = "legacy", NEW b \in Boots, NEW n \in Names, Refused(b, n),
         known[b] = tracking
  PROVE  Unresolvable
<1>1. /\ LegacyCatalog /\ LegacyRows /\ tracking \subseteq Names
      /\ \A k \in tracking, j \in Names : j < k => j \in tracking
  BY DEF IInv, Ledger, TypeOK
<1>2. /\ n \in 1..7 /\ n \notin tracking /\ \A k \in 1..7 : k < n => k \in tracking
      /\ ~(LookHolds(n, seen[b]) /\ Accepts(n, seen[b]))
  BY DEF Refused, IsNext, NotRecorded, Names
<1>3. \A x \in Elements \ {"feature_flags"} : x \in seen[b] <=> x \in schema
  BY DEF Looked, Refused
<1>4. /\ "matches.pk_wide" \in seen[b] <=> "matches.pk_wide" \in schema
      /\ "matches.job_id" \in seen[b] <=> "matches.job_id" \in schema
      /\ "listings.job_id" \in seen[b] <=> "listings.job_id" \in schema
      /\ "matches.rubric_version" \in seen[b] <=> "matches.rubric_version" \in schema
      /\ "listings.source" \in seen[b] <=> "listings.source" \in schema
      /\ "matches.job_listing_id" \in seen[b] <=> "matches.job_listing_id" \in schema
  BY <1>3 DEF Elements, Current, ListingsLegacy, MatchesLegacy, MatchKeys
<1>5. LookHolds(n, seen[b])
  <2>1. n \in {1, 2, 3, 4, 5, 6, 7}
    BY <1>2
  <2> QED
    BY <1>4, <2>1 DEF LookHolds, Adds, Drops
<1>6. n # 1
  <2> SUFFICES ASSUME n = 1 PROVE FALSE
    OBVIOUS
  <2>1. 6 \notin tracking
    BY <1>1, <1>2 DEF Names
  <2> QED
    BY <1>1, <1>2, <1>5, <2>1 DEF Accepts, LegacyCatalog
<1>7. n \in {4, 5, 6} /\ 3 \in tracking
  BY <1>2, <1>5, <1>6 DEF Accepts
<1>8. CASE n = 4
  <2>1. PICK m \in Matches : Resolved[m] = Null
    BY <1>2, <1>5, <1>8 DEF Accepts
  <2>2. link[m] = Null /\ source[m[1]] # m[1]
    BY <2>1 DEF Resolved, Matches
  <2> QED
    BY <1>7, <2>2 DEF Unresolvable
<1>9. CASE n = 5
  BY <1>2, <1>5, <1>7, <1>9 DEF Accepts, Unresolvable
<1>10. CASE n = 6
  <2>1. 4 \in tracking
    BY <1>2, <1>10
  <2> QED
    BY <1>2, <1>5, <1>7, <1>10, <2>1 DEF Accepts, MatchesJobIdMayGo, Unresolvable
<1> QED
  BY <1>7, <1>8, <1>9, <1>10

\* A step of a boot on its own stage; a commit makes the ledger grow.
LEMMA BootStepNears ==
  ASSUME IInv, Looked, origin = "legacy", NEW b \in Boots, BootStep(b)
  PROVE  BootNearer(b) \/ (Unresolvable /\ \E n \in Names : Refused(b, n))
<1>0. /\ pc \in [Boots -> {"off", "create", "read", "look", "commit", "up"}]
      /\ known \in [Boots -> SUBSET Names] /\ tracking \subseteq Names /\ known[b] \subseteq tracking
  BY DEF IInv, TypeOK, Ledger
<1>1. CASE Start(b)
  <2>1. pc[b] = "off" /\ pc'[b] = "create" /\ tracking' = tracking
    BY <1>0, <1>1 DEF Start, Goto
  <2> QED
    BY <2>1 DEF BootNearer, BootStage
<1>2. CASE CreateTables(b)
  <2>1. pc[b] = "create" /\ pc'[b] = "read" /\ tracking' = tracking
    BY <1>0, <1>2 DEF CreateTables, Goto
  <2> QED
    BY <2>1 DEF BootNearer, BootStage
<1>3. CASE AppliedNames(b)
  <2>1. pc[b] = "read" /\ pc'[b] = "look" /\ tracking' = tracking /\ known'[b] = tracking
    BY <1>0, <1>3 DEF AppliedNames, Goto
  <2> QED
    BY <2>1 DEF BootNearer, BootStage
<1>4. CASE Look(b)
  <2>1. pc[b] = "look" /\ pc'[b] = "commit" /\ tracking' = tracking /\ known'[b] = known[b]
    BY <1>0, <1>4 DEF Look, Goto
  <2> QED
    BY <2>1 DEF BootNearer, BootStage
<1>5. CASE Serve(b)
  <2>1. pc[b] = "look" /\ pc'[b] = "up" /\ tracking' = tracking
    BY <1>0, <1>5 DEF Serve, Goto
  <2> QED
    BY <2>1 DEF BootNearer, BootStage
<1>6. ASSUME NEW n \in Names, Commit(b, n) PROVE BootNearer(b)
  BY <1>6 DEF Commit, NotRecorded, BootNearer, LedgerGrows
<1>7. ASSUME NEW n \in Names, Refused(b, n) PROVE BootNearer(b) \/ Unresolvable
  <2>1. CASE known[b] = tracking
    BY <1>7, <2>1, FreshLookAccepted
  <2>2. CASE known[b] # tracking
    <3>1. pc[b] = "commit" /\ pc'[b] = "off" /\ tracking' = tracking
      BY <1>0, <1>7 DEF Refused, Goto
    <3> QED
      BY <2>2, <3>1 DEF BootNearer, BootStage
  <2> QED
    BY <2>1, <2>2
<1> QED
  BY <1>1, <1>2, <1>3, <1>4, <1>5, <1>6, <1>7, Zenon DEF BootStep

\* What other boots and the writers do: a commit, or nothing that b would notice.
LEMMA OthersBoot ==
  ASSUME IInv, NEW b \in Boots,
         WriterStep \/ \E c \in Boots \ {b} : BootStep(c) \/ Die(c)
  PROVE  BootNearer(b) \/ BootStill(b)
<1>0. /\ pc \in [Boots -> {"off", "create", "read", "look", "commit", "up"}]
      /\ known \in [Boots -> SUBSET Names]
  BY DEF IInv, TypeOK
<1>1. ASSUME tracking' = tracking, pc'[b] = pc[b], known'[b] = known[b] PROVE BootStill(b)
  BY <1>1 DEF BootStill, BootStage
<1>2. CASE WriterStep
  BY <1>1, <1>2 DEF WriterStep
<1>3. ASSUME NEW c \in Boots \ {b}, BootStep(c) \/ Die(c) PROVE BootNearer(b) \/ BootStill(b)
  <2>1. ASSUME NEW n \in Names, Commit(c, n) PROVE BootNearer(b)
    BY <2>1 DEF Commit, NotRecorded, BootNearer, LedgerGrows
  <2>2. CASE \/ Start(c) \/ CreateTables(c) \/ AppliedNames(c) \/ Look(c) \/ Serve(c) \/ Die(c)
             \/ \E n \in Names : Refused(c, n)
    BY <1>0, <1>1, <2>2 DEF Start, CreateTables, AppliedNames, Look, Serve, Die, Refused, Goto
  <2> QED
    BY <1>3, <2>1, <2>2, Zenon DEF BootStep
<1> QED
  BY <1>2, <1>3

LEMMA LookedAlways == Spec => []Looked
<1>1. Init => Looked
  BY DEF Init, Looked
<1> QED
  BY <1>1, Inductive, LookedKept, PTL DEF Spec

\* However boots overlap and die, on a database of the first release a boot is refused only for
\* a row that no migration can resolve, or because another one was quicker and it will find
\* that out when it starts again (run_migrations.py:60-81).
THEOREM RefusalsHaveCause == Spec => [][RefusedWithCause]_vars
<1>1. IInv /\ Looked => RefusedWithCause
  BY FreshLookAccepted, Zenon DEF RefusedWithCause
<1> QED
  BY <1>1, Inductive, LookedAlways, PTL

\* On a database of the first release every boot gets on: its steps make the ledger grow or
\* lower its stage, whatever the other boots and the writers do, unless it dies or is refused
\* for a row that no migration can resolve.
THEOREM BootsComeCloser == Spec => [][BootsGetOn]_vars
<1>1. ASSUME IInv, Looked, Next PROVE BootsGetOn
  <2> SUFFICES ASSUME origin = "legacy", NEW b \in Boots
               PROVE  /\ BootStep(b) => BootNearer(b) \/ (Unresolvable /\ \E n \in Names : Refused(b, n))
                      /\ BootStep(b) \/ Die(b) \/ BootNearer(b) \/ BootStill(b)
    BY Zenon DEF BootsGetOn
  <2>1. BootStep(b) => BootNearer(b) \/ (Unresolvable /\ \E n \in Names : Refused(b, n))
    BY <1>1, BootStepNears, Zenon
  <2>2. \/ BootStep(b) \/ Die(b)
        \/ WriterStep \/ \E c \in Boots \ {b} : BootStep(c) \/ Die(c)
    BY <1>1, Zenon DEF Next
  <2> QED
    BY <1>1, <2>1, <2>2, OthersBoot, Zenon
<1> QED
  BY <1>1, Inductive, LookedAlways, PTL DEF Spec
=============================================================================

--------------------------- MODULE JobStore_proofs ---------------------------
(***************************************************************************)
(* Proofs about JobStore: for any listings, sources, requests and bounds,  *)
(* a write stage lands what it scraped, a recorded match goes only with    *)
(* its listing, and the stream tells of runs and listings what is so.      *)
(***************************************************************************)
EXTENDS JobStore, SequenceTheorems, TLAPS

USE BoundAssumption, ContentAssumption

(***************************************************************************)
(* The inductive invariant of the tables                                   *)
(***************************************************************************)
RowType == [live : BOOLEAN, gen : Nat, content : Contents \cup {Blank}, age : 0..(Retention + 1)]

\* TypeOK in parts.  A listing that is there has been inserted.
RowsOK ==
    /\ rows \in [Jobs -> RowType]
    /\ \A j \in Jobs :
          /\ rows[j].live <=> rows[j].content \in Contents
          /\ rows[j].gen <= MaxInserts[j]
          /\ rows[j].live => rows[j].gen >= 1

MatchesOK ==
    /\ matches \subseteq Ids
    /\ \A id \in matches : Live(id)

LabelsOK ==
    /\ pc \in {"idle", "scrape", "write", "purge", "cut", "drop", "end", "fail"}
    /\ source \in 1..(Len(Sources) + 1)
    /\ pc \in {"scrape", "write"} => source <= Len(Sources)
    /\ enabled \in BOOLEAN
    /\ picked \in Ids \cup {None}
    /\ faults \in 0..MaxFaults

\* What the purge has deleted and not committed was selected by it.
PurgeOK ==
    /\ stale \subseteq Ids
    /\ cut \subseteq stale
    /\ pc # "drop" => cut = {}

\* Between the two steps of upsert_jobs: a listing that nobody has touched is as it was read,
\* and one that was not there still has an insert to spare or is there by now.
ScrapeOK ==
    /\ pc # "write" => scrape = NoScrape /\ touched = {}
    /\ pc = "write" =>
          /\ scrape.of \subseteq Jobs
          /\ \A j \in scrape.of :
                /\ scrape.content[j] \in Contents \cup {Blank}
                /\ existing[j] \in RowType
                /\ existing[j].live <=> existing[j].content \in Contents
                /\ ~existing[j].live => rows[j].live \/ rows[j].gen < MaxInserts[j]
                /\ j \notin touched => /\ rows[j].live = existing[j].live
                                       /\ rows[j].gen = existing[j].gen
                                       /\ rows[j].content = existing[j].content

\* A listing that a request is about was there or is about to be; once its DELETE has
\* committed, that id is gone.
ReqSound(r) ==
    /\ req[r].op # "none" => /\ req[r].id \in Jobs \X Nat
                             /\ req[r].id[2] <= rows[req[r].id[1]].gen
    /\ req[r].op \in {"create", "patch"} => req[r].content \in Contents
    /\ req[r].op \in {"tell", "told"} => ~Live(req[r].id)

ReqOK ==
    /\ req \in [Requests -> [op : {"none", "create", "patch", "delete", "tell", "told"},
                             id : (Jobs \X Nat) \cup {None},
                             content : Contents \cup {Blank}]]
    /\ \A r \in Requests : ReqSound(r)

TableInv == RowsOK /\ MatchesOK /\ LabelsOK /\ PurgeOK /\ ScrapeOK /\ ReqOK

(***************************************************************************)
(* Ids                                                                     *)
(***************************************************************************)
LEMMA IdParts ==
  ASSUME NEW id \in Ids
  PROVE  /\ id[1] \in Jobs /\ id[2] \in 1..MaxInserts[id[1]]
         /\ id = <<id[1], id[2]>>
BY DEF Ids

LEMMA IdOfPair ==
  ASSUME NEW j \in Jobs, NEW n \in 1..MaxInserts[j]
  PROVE  <<j, n>> \in Ids
BY DEF Ids

LEMMA IdIsNotNone ==
  ASSUME NEW id, id \in Ids
  PROVE  id # None
BY IdParts DEF None

LEMMA LiveId ==
  ASSUME RowsOK, NEW j \in Jobs, rows[j].live
  PROVE  Id(j) \in Ids /\ Live(Id(j))
<1>1. rows[j].gen \in 1..MaxInserts[j]
  BY DEF RowsOK, RowType
<1> QED
  BY <1>1, IdOfPair DEF Id, Live

LEMMA LiveIsId ==
  ASSUME NEW id \in Ids, Live(id)
  PROVE  id = Id(id[1])
BY IdParts DEF Id, Live

(***************************************************************************)
(* What may become of a row in a step                                      *)
(***************************************************************************)
RowMoves(j) ==
    \/ (rows'[j].live <=> rows[j].live) /\ rows'[j].gen = rows[j].gen
    \/ ~rows[j].live /\ rows'[j].live /\ rows'[j].gen = rows[j].gen + 1
    \/ rows[j].live /\ ~rows'[j].live /\ rows'[j].gen = rows[j].gen

RowSteps == RowsOK' /\ \A j \in Jobs : RowMoves(j)

\* A row that is well formed.
RowOK(j, row) ==
    /\ row \in RowType
    /\ row.live <=> row.content \in Contents
    /\ row.gen <= MaxInserts[j]
    /\ row.live => row.gen >= 1

LEMMA RowsAreOK ==
  ASSUME RowsOK, NEW j \in Jobs
  PROVE  RowOK(j, rows[j])
BY DEF RowsOK, RowOK

LEMMA InsertedOK ==
  ASSUME NEW j \in Jobs, NEW row, RowOK(j, row), row.gen < MaxInserts[j], NEW c \in Contents
  PROVE  /\ RowOK(j, Inserted(row, c))
         /\ Inserted(row, c).live /\ Inserted(row, c).content = c
         /\ Inserted(row, c).gen = row.gen + 1
BY DEF RowOK, RowType, Inserted

LEMMA UpdatedOK ==
  ASSUME NEW j \in Jobs, NEW row, RowOK(j, row), row.live, NEW c \in Contents
  PROVE  /\ RowOK(j, Updated(row, c))
         /\ Updated(row, c).live /\ Updated(row, c).content = c
         /\ Updated(row, c).gen = row.gen
BY DEF RowOK, RowType, Updated

LEMMA DeletedOK ==
  ASSUME NEW j \in Jobs, NEW row, RowOK(j, row)
  PROVE  /\ RowOK(j, Deleted(row))
         /\ ~Deleted(row).live
         /\ Deleted(row).gen = row.gen
BY DEF RowOK, RowType, Deleted

LEMMA GenIsNat ==
  ASSUME RowsOK, NEW j \in Jobs
  PROVE  rows[j].gen \in Nat
BY DEF RowsOK, RowType

\* The rows of a step are described one by one.
LEMMA RowByRow ==
  ASSUME RowsOK, NEW new, rows' = [j \in Jobs |-> new[j]],
         \A j \in Jobs : RowOK(j, new[j])
  PROVE  RowsOK'
BY DEF RowsOK, RowOK

LEMMA OneRow ==
  ASSUME RowsOK, NEW j \in Jobs, NEW row, rows' = [rows EXCEPT ![j] = row],
         RowOK(j, row)
  PROVE  RowsOK' /\ rows'[j] = row /\ \A k \in Jobs : k # j => rows'[k] = rows[k]
<1>1. rows'[j] = row /\ \A k \in Jobs : k # j => rows'[k] = rows[k]
  BY DEF RowsOK
<1>2. rows' \in [Jobs -> RowType]
  BY DEF RowsOK, RowOK
<1> QED
  BY <1>1, <1>2 DEF RowsOK, RowOK

LEMMA SameRows ==
  ASSUME RowsOK, UNCHANGED rows
  PROVE  RowSteps
BY DEF RowsOK, RowSteps, RowMoves

LEMMA ReqSoundKept ==
  ASSUME RowsOK, RowSteps, NEW r \in Requests, ReqSound(r), req'[r] = req[r]
  PROVE  ReqSound(r)'
<1>1. CASE req[r].op = "none"
  BY <1>1 DEF ReqSound
<1>2. CASE req[r].op # "none"
  <2> DEFINE j == req[r].id[1]
             n == req[r].id[2]
  <2>1. j \in Jobs /\ n \in Nat /\ n <= rows[j].gen
    BY <1>2 DEF ReqSound
  <2>2. RowMoves(j)
    BY <2>1 DEF RowSteps
  <2>3. rows[j].gen \in Nat
    BY <2>1, GenIsNat
  <2>4. n <= rows'[j].gen
    <3> HIDE DEF j, n
    <3> QED
      BY <2>1, <2>2, <2>3 DEF RowMoves
  <2>5. ~Live(req[r].id) => ~Live(req[r].id)'
    <3>1. Live(req[r].id)' <=> rows'[j].live /\ rows'[j].gen = n
      BY DEF Live
    <3>2. Live(req[r].id) <=> rows[j].live /\ rows[j].gen = n
      BY DEF Live
    <3> HIDE DEF j, n
    <3> QED
      BY <2>1, <2>2, <2>3, <3>1, <3>2 DEF RowMoves
  <2> QED
    BY <2>1, <2>4, <2>5 DEF ReqSound
<1> QED
  BY <1>1, <1>2

LEMMA ReqKept ==
  ASSUME RowsOK, RowSteps, ReqOK, UNCHANGED req
  PROVE  ReqOK'
<1>1. \A r \in Requests : ReqSound(r)'
  BY ReqSoundKept DEF ReqOK
<1> QED
  BY <1>1 DEF ReqOK

\* A request is answered, or takes its next step, while the others wait.
LEMMA ReqMoves ==
  ASSUME RowsOK, RowSteps, ReqOK, NEW r \in Requests, NEW q,
         req' = [req EXCEPT ![r] = q],
         q \in [op : {"none", "create", "patch", "delete", "tell", "told"},
                id : (Jobs \X Nat) \cup {None}, content : Contents \cup {Blank}],
         ReqSound(r)'
  PROVE  ReqOK'
<1>1. ASSUME NEW s \in Requests PROVE ReqSound(s)'
  <2>1. CASE s = r
    BY <2>1
  <2>2. CASE s # r
    BY <2>2, ReqSoundKept DEF ReqOK
  <2> QED
    BY <2>1, <2>2
<1> QED
  BY <1>1 DEF ReqOK

LEMMA Answer ==
  ASSUME RowsOK, RowSteps, ReqOK, NEW r \in Requests, Answered(r)
  PROVE  ReqOK'
<1>1. ReqSound(r)'
  BY DEF Answered, ReqOK, ReqSound, NoRequest
<1>2. NoRequest \in [op : {"none", "create", "patch", "delete", "tell", "told"},
                     id : (Jobs \X Nat) \cup {None}, content : Contents \cup {Blank}]
  BY DEF NoRequest
<1> QED
  BY <1>1, <1>2, ReqMoves DEF Answered

LEMMA LiveKept ==
  ASSUME RowsOK, RowSteps, NEW id \in Ids, Live(id), rows'[id[1]].live
  PROVE  Live(id)'
BY IdParts DEF RowSteps, RowMoves, RowsOK, RowType, Live

LEMMA MatchesKept ==
  ASSUME RowsOK, RowSteps, MatchesOK, UNCHANGED matches,
         \A id \in matches : rows'[id[1]].live
  PROVE  MatchesOK'
BY LiveKept DEF MatchesOK

\* Between the steps of upsert_jobs others may touch a listing; and one that was not there
\* keeps its insert.
LEMMA ScrapeKept ==
  ASSUME ScrapeOK, UNCHANGED <<pc, scrape, existing>>,
         pc # "write" => UNCHANGED touched,
         touched \subseteq touched',
         \A j \in scrape.of :
            /\ j \in touched' \/ /\ rows'[j].live = rows[j].live
                                 /\ rows'[j].gen = rows[j].gen
                                 /\ rows'[j].content = rows[j].content
            /\ ~existing[j].live => rows'[j].live \/ rows'[j].gen < MaxInserts[j]
  PROVE  ScrapeOK'
<1>1. CASE pc # "write"
  BY <1>1 DEF ScrapeOK
<1>2. CASE pc = "write"
  BY <1>2 DEF ScrapeOK
<1> QED
  BY <1>1, <1>2

LEMMA ScrapeSame ==
  ASSUME ScrapeOK, UNCHANGED <<rows, pc, scrape, existing, touched>>
  PROVE  ScrapeOK'
BY DEF ScrapeOK

(***************************************************************************)
(* The requests of JobDataServer                                           *)
(***************************************************************************)
\* A request or the agent leaves the pipeline where it is.
LEMMA LabelsKept ==
  ASSUME LabelsOK, PurgeOK, UNCHANGED <<pipeline, enabled>>,
         picked' \in Ids \cup {None}, faults' \in 0..MaxFaults
  PROVE  LabelsOK' /\ PurgeOK'
BY DEF LabelsOK, PurgeOK, pipeline

LEMMA ReceiveKeeps ==
  ASSUME TableInv, NEW r \in Requests, NEW op \in {"create", "patch", "delete"},
         NEW j \in Jobs, NEW c \in Contents \cup {Blank},
         op \in {"create", "patch"} => c \in Contents,
         Receive(r, op, j, c)
  PROVE  TableInv'
<1>1. RowSteps
  BY SameRows DEF TableInv, Receive, table
<1>2. Id(j) \in Jobs \X Nat /\ Id(j)[2] = rows[j].gen /\ Id(j)[1] = j
  BY GenIsNat DEF TableInv, Id
<1>3. ReqOK'
  <2> DEFINE q == [op |-> op, id |-> Id(j), content |-> c]
  <2>1. req' = [req EXCEPT ![r] = q] /\ req'[r] = q /\ UNCHANGED rows
    BY DEF Receive, table, TableInv, ReqOK
  <2>2. ReqSound(r)'
    BY <1>2, <2>1, GenIsNat DEF ReqSound, TableInv
  <2>3. q \in [op : {"none", "create", "patch", "delete", "tell", "told"},
               id : (Jobs \X Nat) \cup {None}, content : Contents \cup {Blank}]
    BY <1>2
  <2> HIDE DEF q
  <2> QED
    BY <1>1, <2>1, <2>2, <2>3, ReqMoves DEF TableInv
<1>4. LabelsOK' /\ PurgeOK'
  BY LabelsKept DEF TableInv, Receive, LabelsOK
<1>5. MatchesOK' /\ ScrapeOK'
  BY ScrapeSame DEF TableInv, Receive, table, pipeline, MatchesOK, Live
<1> QED
  BY <1>1, <1>3, <1>4, <1>5 DEF TableInv, RowSteps

LEMMA CreateKeeps ==
  ASSUME TableInv, NEW r \in Requests, CreateJob(r)
  PROVE  TableInv' /\ RowSteps
<1> DEFINE j == req[r].id[1]
           c == req[r].content
<1>1. j \in Jobs /\ c \in Contents
  BY DEF TableInv, ReqOK, ReqSound, CreateJob
<1>2. CASE rows[j].live
  <2>1. UNCHANGED <<rows, touched>>
    BY <1>2 DEF CreateJob
  <2>2. RowSteps
    BY <2>1, SameRows DEF TableInv
  <2>3. ReqOK'
    BY <2>2, Answer DEF TableInv, CreateJob
  <2>4. MatchesOK' /\ ScrapeOK'
    BY <2>1, ScrapeSame DEF TableInv, CreateJob, pipeline, MatchesOK, Live
  <2>5. LabelsOK' /\ PurgeOK'
    BY LabelsKept DEF TableInv, CreateJob, LabelsOK
  <2> QED
    BY <2>2, <2>3, <2>4, <2>5 DEF TableInv, RowSteps
<1>3. CASE ~rows[j].live
  <2>1. /\ rows' = [rows EXCEPT ![j] = Inserted(rows[j], c)]
        /\ rows[j].gen < MaxInserts[j] /\ Touch(j)
    BY <1>3 DEF CreateJob
  <2>2. RowOK(j, Inserted(rows[j], c)) /\ Inserted(rows[j], c).live
        /\ Inserted(rows[j], c).gen = rows[j].gen + 1
    BY <1>1, <2>1, RowsAreOK, InsertedOK DEF TableInv
  <2>3. /\ RowsOK' /\ rows'[j] = Inserted(rows[j], c)
        /\ \A k \in Jobs : k # j => rows'[k] = rows[k]
    BY <1>1, <2>1, <2>2, OneRow DEF TableInv
  <2>4. RowSteps
    BY <1>3, <2>2, <2>3 DEF RowSteps, RowMoves
  <2>5. ReqOK'
    BY <2>4, Answer DEF TableInv, CreateJob
  <2>6. MatchesOK'
    <3>1. \A id \in matches : id[1] \in Jobs /\ rows[id[1]].live
      BY IdParts DEF TableInv, MatchesOK, Live
    <3> QED
      BY <1>3, <2>3, <2>4, <3>1, MatchesKept DEF TableInv, CreateJob
  <2>7. ScrapeOK'
    <3>1. /\ pc # "write" => UNCHANGED touched
          /\ touched \subseteq touched'
          /\ pc = "write" /\ j \in scrape.of => j \in touched'
      BY <2>1 DEF Touch
    <3>2. pc # "write" => scrape.of = {}
      BY DEF TableInv, ScrapeOK, NoScrape
    <3>3. ASSUME NEW k \in scrape.of
          PROVE  /\ k \in touched' \/ (UNCHANGED rows[k])
                 /\ ~existing[k].live => rows'[k].live \/ rows'[k].gen < MaxInserts[k]
      BY <2>2, <2>3, <3>1, <3>2, <3>3 DEF TableInv, ScrapeOK
    <3> QED
      BY <3>1, <3>3, ScrapeKept DEF TableInv, CreateJob, pipeline
  <2>8. LabelsOK' /\ PurgeOK'
    BY LabelsKept DEF TableInv, CreateJob, LabelsOK
  <2> QED
    BY <2>3, <2>4, <2>5, <2>6, <2>7, <2>8 DEF TableInv
<1> QED
  BY <1>2, <1>3

LEMMA PatchKeeps ==
  ASSUME TableInv, NEW r \in Requests, PatchJob(r)
  PROVE  TableInv' /\ RowSteps
<1> DEFINE j == req[r].id[1]
           c == req[r].content
<1>1. j \in Jobs /\ c \in Contents
  BY DEF TableInv, ReqOK, ReqSound, PatchJob
<1>2. CASE ~Live(req[r].id)
  <2>1. UNCHANGED <<rows, touched>>
    BY <1>2 DEF PatchJob
  <2>2. RowSteps
    BY <2>1, SameRows DEF TableInv
  <2>3. ReqOK'
    BY <2>2, Answer DEF TableInv, PatchJob
  <2>4. MatchesOK' /\ ScrapeOK'
    BY <2>1, ScrapeSame DEF TableInv, PatchJob, pipeline, MatchesOK, Live
  <2>5. LabelsOK' /\ PurgeOK'
    BY LabelsKept DEF TableInv, PatchJob, LabelsOK
  <2> QED
    BY <2>2, <2>3, <2>4, <2>5 DEF TableInv, RowSteps
<1>3. CASE Live(req[r].id)
  <2>1. /\ rows' = [rows EXCEPT ![j] = Updated(rows[j], c)] /\ Touch(j)
        /\ rows[j].live
    BY <1>3 DEF PatchJob, Live
  <2>2. RowOK(j, Updated(rows[j], c)) /\ Updated(rows[j], c).live
        /\ Updated(rows[j], c).gen = rows[j].gen
    BY <1>1, <2>1, RowsAreOK, UpdatedOK DEF TableInv
  <2>3. /\ RowsOK' /\ rows'[j] = Updated(rows[j], c)
        /\ \A k \in Jobs : k # j => rows'[k] = rows[k]
    BY <1>1, <2>1, <2>2, OneRow DEF TableInv
  <2>4. RowSteps
    BY <2>1, <2>2, <2>3 DEF RowSteps, RowMoves
  <2>5. ReqOK'
    BY <2>4, Answer DEF TableInv, PatchJob
  <2>6. MatchesOK'
    <3>1. \A id \in matches : id[1] \in Jobs /\ rows[id[1]].live
      BY IdParts DEF TableInv, MatchesOK, Live
    <3>2. \A id \in matches : rows'[id[1]].live
      BY <2>2, <2>3, <3>1
    <3> QED
      BY <2>4, <3>2, MatchesKept DEF TableInv, PatchJob
  <2>7. ScrapeOK'
    <3>1. /\ pc # "write" => UNCHANGED touched
          /\ touched \subseteq touched'
          /\ pc = "write" /\ j \in scrape.of => j \in touched'
      BY <2>1 DEF Touch
    <3>2. pc # "write" => scrape.of = {}
      BY DEF TableInv, ScrapeOK, NoScrape
    <3>3. ASSUME NEW k \in scrape.of
          PROVE  /\ k \in touched' \/ (UNCHANGED rows[k])
                 /\ ~existing[k].live => rows'[k].live \/ rows'[k].gen < MaxInserts[k]
      BY <2>2, <2>3, <3>1, <3>2, <3>3 DEF TableInv, ScrapeOK
    <3> QED
      BY <3>1, <3>3, ScrapeKept DEF TableInv, PatchJob, pipeline
  <2>8. LabelsOK' /\ PurgeOK'
    BY LabelsKept DEF TableInv, PatchJob, LabelsOK
  <2> QED
    BY <2>3, <2>4, <2>5, <2>6, <2>7, <2>8 DEF TableInv
<1> QED
  BY <1>2, <1>3

LEMMA NextOp ==
  ASSUME ReqOK, NEW r \in Requests, NEW op, req' = [req EXCEPT ![r].op = op]
  PROVE  LET q == [op |-> op, id |-> req[r].id, content |-> req[r].content]
         IN  req' = [req EXCEPT ![r] = q] /\ req'[r] = q
<1>1. [req[r] EXCEPT !.op = op] = [op |-> op, id |-> req[r].id, content |-> req[r].content]
  BY DEF ReqOK
<1>2. req' = [req EXCEPT ![r] = [req[r] EXCEPT !.op = op]]
  OBVIOUS
<1> QED
  BY <1>1, <1>2 DEF ReqOK

LEMMA DeleteKeeps ==
  ASSUME TableInv, NEW r \in Requests, DeleteJob(r)
  PROVE  TableInv' /\ RowSteps
<1> DEFINE id == req[r].id
           j == req[r].id[1]
<1>1. /\ id \in Jobs \X Nat
      /\ j \in Jobs /\ id = <<j, id[2]>> /\ id[2] <= rows[j].gen /\ id[2] \in Nat
  BY DEF TableInv, ReqOK, ReqSound, DeleteJob
<1>2. UNCHANGED <<matches, enabled, picked>>
  BY DEF DeleteJob
<1>3. ASSUME id \in matches, Answered(r), UNCHANGED <<rows, touched, pipeline, faults>>
      PROVE  TableInv' /\ RowSteps
  <2>1. RowSteps
    BY <1>3, SameRows DEF TableInv
  <2>2. ReqOK'
    BY <1>3, <2>1, Answer DEF TableInv
  <2>3. MatchesOK' /\ ScrapeOK'
    BY <1>2, <1>3, ScrapeSame DEF TableInv, pipeline, MatchesOK, Live
  <2>4. LabelsOK' /\ PurgeOK'
    BY <1>2, <1>3, LabelsKept DEF TableInv, LabelsOK
  <2> QED
    BY <2>1, <2>2, <2>3, <2>4 DEF TableInv, RowSteps
<1>4. ASSUME id \in cut, Fault, Fails, Answered(r),
             UNCHANGED <<rows, touched, source, scrape, existing, events, wrote>>
      PROVE  TableInv' /\ RowSteps
  <2>1. RowSteps
    BY <1>4, SameRows DEF TableInv
  <2>2. ReqOK'
    BY <1>4, <2>1, Answer DEF TableInv
  <2>3. MatchesOK'
    BY <1>2, <1>4 DEF TableInv, MatchesOK, Live
  <2>4. ScrapeOK'
    BY <1>4 DEF TableInv, ScrapeOK, PurgeOK, Fails
  <2>5. LabelsOK' /\ PurgeOK'
    BY <1>2, <1>4 DEF TableInv, LabelsOK, PurgeOK, Fails, Fault
  <2> QED
    BY <2>1, <2>2, <2>3, <2>4, <2>5 DEF TableInv, RowSteps
<1>5. ASSUME id \notin matches,
             rows' = [rows EXCEPT ![j] = IF Live(id) THEN Deleted(rows[j]) ELSE rows[j]],
             IF Live(id) THEN Touch(j) ELSE UNCHANGED touched,
             req' = [req EXCEPT ![r].op = "tell"],
             UNCHANGED <<pipeline, faults>>
      PROVE  TableInv' /\ RowSteps
  <2> DEFINE row == IF Live(id) THEN Deleted(rows[j]) ELSE rows[j]
  <2>1. RowOK(j, row) /\ row.gen = rows[j].gen /\ (Live(id) <=> rows[j].live /\ rows[j].gen = id[2])
    BY <1>1, RowsAreOK, DeletedOK DEF TableInv, Live
  <2>2. Live(id) => ~row.live
    BY <1>1, RowsAreOK, DeletedOK DEF TableInv
  <2>3. ~Live(id) => row = rows[j]
    OBVIOUS
  <2> HIDE DEF row
  <2>4. rows' = [rows EXCEPT ![j] = row]
    BY <1>5 DEF row
  <2>5. RowsOK' /\ rows'[j] = row /\ \A k \in Jobs : k # j => rows'[k] = rows[k]
    BY <1>1, <2>1, <2>4, OneRow DEF TableInv
  <2>6. RowSteps
    BY <2>1, <2>2, <2>3, <2>5 DEF RowSteps, RowMoves
  <2>7. ReqOK'
    <3> DEFINE q == [op |-> "tell", id |-> id, content |-> req[r].content]
    <3>1. req' = [req EXCEPT ![r] = q]
      BY <1>5, NextOp DEF TableInv
    <3>2. req'[r] = q
      BY <1>5, NextOp DEF TableInv
    <3>3. ~Live(id)'
      <4>1. req'[r].id = id
        BY <3>2
      <4> HIDE DEF id
      <4>2. j = id[1]
        BY DEF id
      <4>3. Live(id)' <=> rows'[id'[1]].live /\ rows'[id'[1]].gen = id'[2]
        BY DEF Live
      <4>4. id' = id
        BY <4>1 DEF id
      <4> QED
        BY <2>1, <2>2, <2>3, <2>5, <4>2, <4>3, <4>4
    <3>4. ReqSound(r)'
      <4>1. req'[r].id = id /\ req'[r].op = "tell" /\ id \in Jobs \X Nat
        BY <1>1, <3>2
      <4>2. rows'[j].gen = rows[j].gen
        BY <2>1, <2>5
      <4> QED
        BY <1>1, <3>3, <4>1, <4>2 DEF ReqSound
    <3>5. q \in [op : {"none", "create", "patch", "delete", "tell", "told"},
                 id : (Jobs \X Nat) \cup {None}, content : Contents \cup {Blank}]
      BY <1>1 DEF TableInv, ReqOK
    <3> HIDE DEF q
    <3> QED
      BY <2>6, <3>1, <3>4, <3>5, ReqMoves DEF TableInv
  <2>8. MatchesOK'
    <3>1. ASSUME NEW m \in matches PROVE rows'[m[1]].live
      <4>1. m[1] \in Jobs /\ m = <<m[1], m[2]>> /\ rows[m[1]].live /\ rows[m[1]].gen = m[2]
        BY IdParts DEF TableInv, MatchesOK, Live
      <4>2. m[1] = j => ~Live(id)
        BY <1>1, <1>5, <2>1, <4>1
      <4> QED
        BY <2>3, <2>5, <4>1, <4>2
    <3> QED
      BY <1>2, <2>6, <3>1, MatchesKept DEF TableInv
  <2>9. ScrapeOK'
    <3>1. /\ pc # "write" => UNCHANGED touched
          /\ touched \subseteq touched'
          /\ Live(id) /\ pc = "write" /\ j \in scrape.of => j \in touched'
      BY <1>5 DEF Touch
    <3>2. pc # "write" => scrape.of = {}
      BY DEF TableInv, ScrapeOK, NoScrape
    <3>3. j \in scrape.of /\ ~existing[j].live => id[2] < MaxInserts[j]
      BY DEF DeleteJob
    <3>4. ASSUME NEW k \in scrape.of
          PROVE  /\ k \in touched' \/ UNCHANGED rows[k]
                 /\ ~existing[k].live => rows'[k].live \/ rows'[k].gen < MaxInserts[k]
      <4>1. k \in Jobs
        BY <3>2 DEF TableInv, ScrapeOK
      <4>2. CASE k # j \/ ~Live(id)
        <5>1. UNCHANGED rows[k]
          BY <2>3, <2>5, <4>1, <4>2
        <5> QED
          BY <3>2, <5>1 DEF TableInv, ScrapeOK
      <4>3. CASE k = j /\ Live(id)
        BY <2>1, <2>5, <3>1, <3>2, <3>3, <4>3
      <4> QED
        BY <4>2, <4>3
    <3> QED
      BY <1>5, <3>1, <3>4, ScrapeKept DEF TableInv, pipeline
  <2>10. LabelsOK' /\ PurgeOK'
    BY <1>2, <1>5, LabelsKept DEF TableInv, LabelsOK
  <2> QED
    BY <2>5, <2>6, <2>7, <2>8, <2>9, <2>10 DEF TableInv
<1> QED
  BY <1>3, <1>4, <1>5 DEF DeleteJob

LEMMA TellKeeps ==
  ASSUME TableInv, NEW r \in Requests, TellDeleted(r)
  PROVE  TableInv' /\ RowSteps
<1>1. RowSteps
  BY SameRows DEF TableInv, TellDeleted, table
<1>2. MatchesOK' /\ ScrapeOK'
  BY ScrapeSame DEF TableInv, TellDeleted, table, pipeline, MatchesOK, Live
<1>3. LabelsOK' /\ PurgeOK'
  BY LabelsKept DEF TableInv, TellDeleted, LabelsOK
<1>4. CASE Answered(r)
  BY <1>1, <1>2, <1>3, <1>4, Answer DEF TableInv, RowSteps
<1>5. CASE req[r].op = "tell" /\ req' = [req EXCEPT ![r].op = "told"]
  <2> DEFINE q == [op |-> "told", id |-> req[r].id, content |-> req[r].content]
  <2>1. req' = [req EXCEPT ![r] = q] /\ req'[r] = q
    BY <1>5, NextOp DEF TableInv
  <2>2. UNCHANGED rows
    BY DEF TellDeleted, table
  <2>3. ReqSound(r)
    BY DEF TableInv, ReqOK
  <2>4. ReqSound(r)'
    BY <1>5, <2>1, <2>2, <2>3 DEF ReqSound, Live
  <2>5. q \in [op : {"none", "create", "patch", "delete", "tell", "told"},
               id : (Jobs \X Nat) \cup {None}, content : Contents \cup {Blank}]
    BY DEF TableInv, ReqOK
  <2> HIDE DEF q
  <2>6. ReqOK'
    BY <1>1, <2>1, <2>4, <2>5, ReqMoves DEF TableInv
  <2> QED
    BY <1>1, <1>2, <1>3, <2>6 DEF TableInv, RowSteps
<1> QED
  BY <1>4, <1>5 DEF TellDeleted

(***************************************************************************)
(* The agent, and time                                                     *)
(***************************************************************************)
LEMMA PickKeeps ==
  ASSUME TableInv, NEW j \in Jobs, PickJob(j)
  PROVE  TableInv' /\ RowSteps
<1>1. RowSteps
  BY SameRows DEF TableInv, PickJob, table
<1>2. ReqOK'
  BY <1>1, ReqKept DEF TableInv, PickJob
<1>3. MatchesOK' /\ ScrapeOK'
  BY ScrapeSame DEF TableInv, PickJob, table, pipeline, MatchesOK, Live
<1>4. LabelsOK' /\ PurgeOK'
  BY LabelsKept, LiveId DEF TableInv, PickJob, LabelsOK
<1> QED
  BY <1>1, <1>2, <1>3, <1>4 DEF TableInv, RowSteps

LEMMA RecordKeeps ==
  ASSUME TableInv, RecordJobResult
  PROVE  TableInv' /\ RowSteps
<1>1. RowSteps
  BY SameRows DEF TableInv, RecordJobResult
<1>2. ReqOK'
  BY <1>1, ReqKept DEF TableInv, RecordJobResult
<1>3. MatchesOK'
  BY DEF TableInv, RecordJobResult, MatchesOK, LabelsOK, Live
<1>4. ScrapeOK'
  BY ScrapeSame DEF TableInv, RecordJobResult, pipeline
<1>5. LabelsOK' /\ PurgeOK'
  BY LabelsKept DEF TableInv, RecordJobResult, LabelsOK
<1> QED
  BY <1>1, <1>2, <1>3, <1>4, <1>5 DEF TableInv, RowSteps

LEMMA TickKeeps ==
  ASSUME TableInv, Tick
  PROVE  TableInv' /\ RowSteps
<1> DEFINE new == [j \in Jobs |-> IF j \in Aging THEN [rows[j] EXCEPT !.age = @ + 1] ELSE rows[j]]
<1>1. ASSUME NEW j \in Jobs
      PROVE  /\ RowOK(j, new[j])
             /\ new[j].live = rows[j].live /\ new[j].gen = rows[j].gen
             /\ new[j].content = rows[j].content
  <2>1. RowOK(j, rows[j])
    BY RowsAreOK DEF TableInv
  <2>2. CASE j \in Aging
    <3>1. rows[j] \in RowType /\ rows[j].age <= Retention
      BY <2>1, <2>2 DEF RowOK, Aging
    <3>2. new[j] = [live |-> rows[j].live, gen |-> rows[j].gen,
                    content |-> rows[j].content, age |-> rows[j].age + 1]
      BY <2>2, <3>1 DEF RowType
    <3> HIDE DEF new
    <3>3. new[j] \in RowType
      BY <3>1, <3>2 DEF RowType
    <3> QED
      BY <2>1, <3>2, <3>3 DEF RowOK
  <2>3. CASE j \notin Aging
    BY <2>1, <2>3
  <2> QED
    BY <2>2, <2>3
<1>2. rows' = new
  BY DEF Tick
<1> HIDE DEF new
<1>3. RowsOK'
  <2>1. rows' = [j \in Jobs |-> new[j]]
    BY <1>2 DEF new
  <2> QED
    BY <1>1, <2>1, RowByRow DEF TableInv
<1>4. RowSteps
  BY <1>1, <1>2, <1>3 DEF RowSteps, RowMoves
<1>5. ReqOK'
  BY <1>4, ReqKept DEF TableInv, Tick
<1>6. MatchesOK'
  <2>1. \A id \in matches : id[1] \in Jobs /\ rows[id[1]].live
    BY IdParts DEF TableInv, MatchesOK, Live
  <2> QED
    BY <1>1, <1>2, <1>4, <2>1, MatchesKept DEF TableInv, Tick
<1>7. ScrapeOK'
  <2>1. pc # "write" => scrape.of = {}
    BY DEF TableInv, ScrapeOK, NoScrape
  <2>2. ASSUME NEW k \in scrape.of
        PROVE  /\ rows'[k].live = rows[k].live /\ rows'[k].gen = rows[k].gen
               /\ rows'[k].content = rows[k].content
               /\ ~existing[k].live => rows'[k].live \/ rows'[k].gen < MaxInserts[k]
    BY <1>1, <1>2, <2>1 DEF TableInv, ScrapeOK
  <2> QED
    BY <2>2, ScrapeKept DEF TableInv, Tick, pipeline
<1>8. LabelsOK' /\ PurgeOK'
  BY LabelsKept DEF TableInv, Tick, LabelsOK
<1> QED
  BY <1>3, <1>4, <1>5, <1>6, <1>7, <1>8 DEF TableInv

(***************************************************************************)
(* The pipeline                                                            *)
(***************************************************************************)
LEMMA SourcesLen == Len(Sources) \in Nat \ {0}
BY SequenceAssumption, EmptySeq, LenProperties

\* A step that writes neither table.
LEMMA NoTable ==
  ASSUME TableInv, UNCHANGED <<table, req>>
  PROVE  RowSteps /\ ReqOK' /\ MatchesOK'
<1>1. RowSteps
  BY SameRows DEF TableInv, table
<1>2. ReqOK'
  BY <1>1, ReqKept DEF TableInv
<1> QED
  BY <1>1, <1>2 DEF TableInv, table, MatchesOK, Live

LEMMA ScrapeKeeps ==
  ASSUME TableInv, Scrape
  PROVE  TableInv' /\ RowSteps
<1>1. RowSteps /\ ReqOK' /\ MatchesOK'
  BY NoTable DEF Scrape
<1>2. LabelsOK' /\ PurgeOK'
  BY DEF TableInv, LabelsOK, PurgeOK, Scrape, Fault
<1>3. touched' = {}
  BY DEF TableInv, ScrapeOK, Scrape
<1>4. PICK of \in SUBSET Listed : \E content \in [of -> Contents] :
         \/ scrape' = [of |-> of, content |-> content, twice |-> {}]
         \/ \E j \in of :
               \/ scrape' = [of |-> of, content |-> [content EXCEPT ![j] = Blank], twice |-> {}]
               \/ scrape' = [of |-> of, content |-> content, twice |-> {j}]
  BY DEF Scrape
<1>5. scrape'.of = of /\ \A j \in of : scrape'.content[j] \in Contents \cup {Blank}
  BY <1>4
<1>6. of \subseteq Jobs /\ \A j \in of : rows[j].live \/ rows[j].gen < MaxInserts[j]
  BY DEF Listed
<1>7. existing' = [j \in of |-> rows[j]] /\ UNCHANGED rows /\ pc' = "write"
  BY <1>5 DEF Scrape, table
<1>8. \A j \in of : existing'[j] = rows[j]
  BY <1>7
<1>9. \A j \in of : rows[j] \in RowType /\ (rows[j].live <=> rows[j].content \in Contents)
  BY <1>6 DEF TableInv, RowsOK
<1>10. ScrapeOK'
  BY <1>3, <1>5, <1>6, <1>7, <1>8, <1>9 DEF ScrapeOK
<1> QED
  BY <1>1, <1>2, <1>10 DEF TableInv, RowSteps

\* What a row becomes in the write stage.
LEMMA UpsertedOK ==
  ASSUME TableInv, pc = "write", NEW j \in scrape.of, ~Refuses(j)
  PROVE  /\ RowOK(j, Upserted(j))
         /\ rows[j].live  => Upserted(j).live /\ Upserted(j).gen = rows[j].gen
         /\ ~rows[j].live => \/ Upserted(j) = rows[j]
                             \/ Upserted(j).live /\ Upserted(j).gen = rows[j].gen + 1
         /\ \/ Upserted(j).live /\ Upserted(j).content = scrape.content[j]
            \/ j \in touched
<1>1. /\ j \in Jobs /\ scrape.content[j] \in Contents
      /\ RowOK(j, rows[j])
      /\ existing[j].live <=> existing[j].content \in Contents
      /\ ~existing[j].live => rows[j].live \/ rows[j].gen < MaxInserts[j]
      /\ j \notin touched => /\ rows[j].live = existing[j].live
                             /\ rows[j].content = existing[j].content
  BY RowsAreOK DEF TableInv, ScrapeOK, Refuses
<1>2. CASE ~existing[j].live
  <2>1. ~rows[j].live /\ rows[j].gen < MaxInserts[j]
    BY <1>1, <1>2 DEF Refuses
  <2>2. Upserted(j) = Inserted(rows[j], scrape.content[j])
    BY <1>2 DEF Upserted
  <2> QED
    BY <1>1, <2>1, <2>2, InsertedOK
<1>3. CASE existing[j].live /\ Changed(j)
  <2>1. rows[j].live
    BY <1>3 DEF Refuses, Live
  <2>2. Upserted(j) = Updated(rows[j], scrape.content[j])
    BY <1>3 DEF Upserted
  <2> QED
    BY <1>1, <2>1, <2>2, UpdatedOK
<1>4. CASE existing[j].live /\ ~Changed(j)
  <2>1. Upserted(j) = rows[j]
    BY <1>4 DEF Upserted
  <2>2. existing[j].content = scrape.content[j]
    BY <1>4 DEF Changed
  <2>3. j \notin touched => rows[j].live /\ rows[j].content = scrape.content[j]
    BY <1>1, <1>4, <2>2
  <2> HIDE DEF Upserted
  <2> QED
    BY <1>1, <2>1, <2>3
<1> QED
  BY <1>2, <1>3, <1>4

\* The two tables and the purge's selection after a step of the pipeline that ends somewhere
\* else than before the write.
LEMMA AwayFromWrite ==
  ASSUME pc' # "write", scrape' = NoScrape, touched' = {}
  PROVE  ScrapeOK'
BY DEF ScrapeOK

LEMMA WriteKeeps ==
  ASSUME TableInv, Write
  PROVE  TableInv' /\ RowSteps
<1>1. LabelsOK' /\ PurgeOK'
  <2>1. CASE \E j \in scrape.of : Refuses(j)
    BY <2>1 DEF TableInv, LabelsOK, PurgeOK, Write, WriteFails, Fails
  <2>2. CASE Advance /\ UNCHANGED faults
    BY <2>2, SourcesLen DEF TableInv, LabelsOK, PurgeOK, Write, Advance
  <2>3. CASE Fault /\ Fails /\ UNCHANGED <<source, events>>
    BY <2>3 DEF TableInv, LabelsOK, PurgeOK, Write, Fails, Fault
  <2> QED
    BY <2>1, <2>2, <2>3 DEF Write
<1>2. ScrapeOK'
  <2>1. pc' # "write"
    BY DEF Write, WriteFails, Fails, Advance
  <2> QED
    BY <2>1, AwayFromWrite DEF Write
<1>3. CASE UNCHANGED rows
  <2>1. RowSteps /\ ReqOK' /\ MatchesOK'
    BY <1>3, NoTable DEF Write, table
  <2> QED
    BY <1>1, <1>2, <2>1 DEF TableInv, RowSteps
<1>4. CASE /\ \A j \in scrape.of : ~Refuses(j)
           /\ rows' = [j \in Jobs |-> IF j \in scrape.of THEN Upserted(j) ELSE rows[j]]
  <2> DEFINE new == [j \in Jobs |-> IF j \in scrape.of THEN Upserted(j) ELSE rows[j]]
  <2>1. ASSUME NEW j \in Jobs
        PROVE  /\ RowOK(j, new[j])
               /\ rows[j].live  => new[j].live /\ new[j].gen = rows[j].gen
               /\ ~rows[j].live => \/ new[j] = rows[j]
                                   \/ new[j].live /\ new[j].gen = rows[j].gen + 1
    BY <1>4, UpsertedOK, RowsAreOK DEF Write, TableInv
  <2>2. rows' = [j \in Jobs |-> new[j]]
    BY <1>4
  <2> HIDE DEF new
  <2>3. RowsOK'
    BY <2>1, <2>2, RowByRow DEF TableInv
  <2>4. RowSteps
    BY <2>1, <2>2, <2>3 DEF RowSteps, RowMoves
  <2>5. ReqOK'
    BY <2>4, ReqKept DEF TableInv, Write
  <2>6. MatchesOK'
    <3>1. \A id \in matches : id[1] \in Jobs /\ rows[id[1]].live
      BY IdParts DEF TableInv, MatchesOK, Live
    <3> QED
      BY <2>1, <2>2, <2>4, <3>1, MatchesKept DEF TableInv, Write
  <2> QED
    BY <1>1, <1>2, <2>3, <2>4, <2>5, <2>6 DEF TableInv
<1> QED
  BY <1>3, <1>4 DEF Write

LEMMA SelectKeeps ==
  ASSUME TableInv, PurgeSelect
  PROVE  TableInv' /\ RowSteps
<1>1. RowSteps /\ ReqOK' /\ MatchesOK'
  BY NoTable DEF PurgeSelect
<1>2. ScrapeOK'
  <2>1. pc' # "write" /\ pc # "write" /\ UNCHANGED <<scrape, touched>>
    BY DEF PurgeSelect, TellPurged
  <2> QED
    BY <2>1 DEF TableInv, ScrapeOK
<1>3. CASE TellPurged
  BY <1>1, <1>2, <1>3 DEF TableInv, RowSteps, LabelsOK, PurgeOK, PurgeSelect, TellPurged, Fault
<1>4. CASE ~TellPurged
  <2>1. /\ stale' = {Id(j) : j \in {k \in Jobs : Stale(k)}} /\ pc' = "cut"
        /\ UNCHANGED <<source, cut, enabled, picked, faults>>
    BY <1>4 DEF PurgeSelect
  <2>2. stale' \subseteq Ids
    BY <2>1, LiveId DEF TableInv, Stale
  <2>3. cut = {}
    BY DEF TableInv, PurgeOK, PurgeSelect
  <2>4. LabelsOK' /\ PurgeOK'
    BY <2>1, <2>2, <2>3 DEF TableInv, LabelsOK, PurgeOK
  <2> QED
    BY <1>1, <1>2, <2>4 DEF TableInv, RowSteps
<1> QED
  BY <1>3, <1>4

LEMMA CutKeeps ==
  ASSUME TableInv, PurgeMatches
  PROVE  TableInv' /\ RowSteps
<1>1. RowSteps /\ ReqOK' /\ MatchesOK'
  BY NoTable DEF PurgeMatches, CutMatches, table
<1>2. LabelsOK' /\ PurgeOK'
  BY DEF TableInv, LabelsOK, PurgeOK, PurgeMatches, CutMatches
<1>3. ScrapeOK'
  BY DEF TableInv, ScrapeOK, PurgeMatches
<1> QED
  BY <1>1, <1>2, <1>3 DEF TableInv, RowSteps

LEMMA DropKeeps ==
  ASSUME TableInv, PurgeListings
  PROVE  /\ TableInv' /\ RowSteps
         /\ \A m \in matches \ matches' : ~Live(m)'
<1>1. pc = "drop" /\ pc' \in {"end", "fail"} /\ UNCHANGED <<enabled, source, scrape, req, picked, touched>>
  BY DEF PurgeListings, Fails, TellPurged
<1>2. ScrapeOK'
  BY <1>1 DEF TableInv, ScrapeOK
<1>3. CASE Fails /\ UNCHANGED <<table, events, wrote, faults>>
  <2>1. RowSteps /\ ReqOK' /\ MatchesOK'
    BY <1>1, <1>3, NoTable
  <2>2. LabelsOK' /\ PurgeOK'
    BY <1>1, <1>3 DEF TableInv, LabelsOK, PurgeOK, Fails
  <2> QED
    BY <1>2, <1>3, <2>1, <2>2 DEF TableInv, RowSteps, table
<1>4. CASE /\ (matches \ cut) \cap stale = {}
           /\ rows' = [j \in Jobs |->
                  IF rows[j].live /\ Id(j) \in stale THEN Deleted(rows[j]) ELSE rows[j]]
           /\ matches' = matches \ cut
           /\ TellPurged
  <2> DEFINE new == [j \in Jobs |->
                 IF rows[j].live /\ Id(j) \in stale THEN Deleted(rows[j]) ELSE rows[j]]
  <2>1. ASSUME NEW j \in Jobs
        PROVE  /\ RowOK(j, new[j])
               /\ rows[j].live /\ Id(j) \in stale => ~new[j].live /\ new[j].gen = rows[j].gen
               /\ ~(rows[j].live /\ Id(j) \in stale) => new[j] = rows[j]
    BY RowsAreOK, DeletedOK DEF TableInv
  <2>2. rows' = [j \in Jobs |-> new[j]]
    BY <1>4
  <2> HIDE DEF new
  <2>3. RowsOK'
    BY <2>1, <2>2, RowByRow DEF TableInv
  <2>4. RowSteps
    BY <2>1, <2>2, <2>3 DEF RowSteps, RowMoves
  <2>5. ReqOK'
    BY <1>1, <2>4, ReqKept DEF TableInv
  <2>6. \A m \in matches : m \in Ids /\ m[1] \in Jobs /\ Live(m) /\ rows[m[1]].live /\ m = Id(m[1])
    BY IdParts, LiveIsId DEF TableInv, MatchesOK, Live
  <2>7. ASSUME NEW m \in matches \ cut PROVE m \in Ids /\ Live(m)'
    <3>1. m \notin stale
      BY <1>4
    <3>2. rows'[m[1]] = rows[m[1]]
      BY <2>1, <2>2, <2>6, <3>1
    <3> QED
      BY <2>6, <3>2 DEF Live
  <2>8. MatchesOK'
    BY <1>4, <2>7 DEF MatchesOK
  <2>9. ASSUME NEW m \in matches \ matches' PROVE ~Live(m)'
    <3>1. m \in stale
      BY <1>4 DEF TableInv, PurgeOK
    <3>2. ~rows'[m[1]].live
      BY <2>1, <2>2, <2>6, <3>1
    <3> QED
      BY <3>2 DEF Live
  <2>10. LabelsOK' /\ PurgeOK'
    BY <1>1, <1>4 DEF TableInv, LabelsOK, PurgeOK, TellPurged, Fault
  <2> QED
    BY <1>2, <2>3, <2>4, <2>5, <2>8, <2>9, <2>10 DEF TableInv
<1> QED
  BY <1>3, <1>4 DEF PurgeListings

\* The steps that only move the pipeline.
LEMMA BeginKeeps ==
  ASSUME TableInv, Begin
  PROVE  TableInv' /\ RowSteps
<1>1. RowSteps /\ ReqOK' /\ MatchesOK'
  BY NoTable DEF Begin
<1>2. LabelsOK' /\ PurgeOK' /\ ScrapeOK'
  BY SourcesLen DEF TableInv, LabelsOK, PurgeOK, ScrapeOK, Begin, Fault
<1> QED
  BY <1>1, <1>2 DEF TableInv, RowSteps

LEMMA CompleteKeeps ==
  ASSUME TableInv, Complete
  PROVE  TableInv' /\ RowSteps
<1>1. RowSteps /\ ReqOK' /\ MatchesOK'
  BY NoTable DEF Complete
<1>2. LabelsOK' /\ PurgeOK' /\ ScrapeOK'
  BY DEF TableInv, LabelsOK, PurgeOK, ScrapeOK, Complete, Fails, Fault
<1> QED
  BY <1>1, <1>2 DEF TableInv, RowSteps

LEMMA SayFailedKeeps ==
  ASSUME TableInv, SayFailed
  PROVE  TableInv' /\ RowSteps
<1>1. RowSteps /\ ReqOK' /\ MatchesOK'
  BY NoTable DEF SayFailed
<1>2. LabelsOK' /\ PurgeOK' /\ ScrapeOK'
  BY DEF TableInv, LabelsOK, PurgeOK, ScrapeOK, SayFailed, Fault
<1> QED
  BY <1>1, <1>2 DEF TableInv, RowSteps

LEMMA StepFailsKeeps ==
  ASSUME TableInv, StepFails
  PROVE  TableInv' /\ RowSteps
<1>1. RowSteps /\ ReqOK' /\ MatchesOK'
  BY NoTable DEF StepFails
<1>2. LabelsOK' /\ PurgeOK' /\ ScrapeOK'
  BY AwayFromWrite DEF TableInv, LabelsOK, PurgeOK, StepFails, Fails, Fault
<1> QED
  BY <1>1, <1>2 DEF TableInv, RowSteps

LEMMA KilledKeeps ==
  ASSUME TableInv, Killed
  PROVE  TableInv' /\ RowSteps
<1>1. RowSteps /\ ReqOK' /\ MatchesOK'
  BY NoTable DEF Killed
<1>2. LabelsOK' /\ PurgeOK' /\ ScrapeOK'
  BY AwayFromWrite DEF TableInv, LabelsOK, PurgeOK, Killed, Fault
<1> QED
  BY <1>1, <1>2 DEF TableInv, RowSteps

(***************************************************************************)
(* The stream of a run                                                     *)
(***************************************************************************)
N == Len(Sources)

Words == {"pipeline_started", "pipeline_skipped", "purge", "pipeline_completed", "pipeline_failed"}
EventType ==
    {<<w>> : w \in Words} \cup {<<w, Sources[i]>> : w \in {"scrape", "write"}, i \in 1..N}

All == {Sources[k] : k \in DOMAIN Sources}

\* What is so of the stages committed when the stream tells e.
Truth(e, w) ==
    /\ e = <<"purge">> => "purge" \in w
    /\ e = <<"pipeline_completed">> => w = {"purge"} \cup All
    /\ \A k \in DOMAIN Sources : e = <<"write", Sources[k]>> => Sources[k] \in w

AllTrue == \A i \in DOMAIN events : Truth(events[i], wrote)

Idle ==
    \/ events \in {<<>>, <<<<"pipeline_skipped">>>>, Whole}
    \/ /\ Len(events) \in 1..Len(Whole)
       /\ Told(Len(events) - 1) = SubSeq(Whole, 1, Len(events) - 1)
       /\ events[Len(events)] = <<"pipeline_failed">>
    \/ faults > 0 /\ events = SubSeq(Whole, 1, Len(events))

\* How far a run has come, what it has told by then and what it has committed.
StreamInv ==
    /\ events \in Seq(EventType)
    /\ AllTrue
    /\ pc = "idle" => Idle
    /\ pc = "scrape" => events = SubSeq(Whole, 1, 2 * source - 1)
    /\ pc = "write" => events = SubSeq(Whole, 1, 2 * source)
    /\ pc \in {"purge", "cut", "drop"} =>
          /\ source = N + 1
          /\ events = SubSeq(Whole, 1, 2 * N + 1) /\ wrote = All
    /\ pc = "end" => events = SubSeq(Whole, 1, 2 * N + 2) /\ wrote = {"purge"} \cup All
    /\ pc = "fail" => Len(events) \in 0..(2 * N + 2) /\ events = SubSeq(Whole, 1, Len(events))
    /\ pc \in {"scrape", "write"} => wrote = {Sources[k] : k \in 1..(source - 1)}

LEMMA SourcesDomain == N \in Nat \ {0} /\ DOMAIN Sources = 1..N
BY SequenceAssumption, SourcesLen, LenProperties DEF N

LEMMA WholeIs ==
  /\ Whole \in Seq(EventType) /\ Len(Whole) = 2 * N + 3
  /\ Whole[1] = <<"pipeline_started">>
  /\ \A i \in 1..N : Whole[2 * i] = <<"scrape", Sources[i]>> /\ Whole[2 * i + 1] = <<"write", Sources[i]>>
  /\ Whole[2 * N + 2] = <<"purge">> /\ Whole[2 * N + 3] = <<"pipeline_completed">>
<1> DEFINE first == <<<<"pipeline_started">>>>
           mid == [i \in 1..(2 * Len(Sources)) |->
                     IF i % 2 = 1 THEN <<"scrape", Sources[(i + 1) \div 2]>>
                     ELSE <<"write", Sources[i \div 2]>>]
           last == <<<<"purge">>, <<"pipeline_completed">>>>
<1>1. first \in Seq(EventType) /\ Len(first) = 1 /\ first[1] = <<"pipeline_started">>
  BY DEF EventType, Words
<1>2. /\ last \in Seq(EventType) /\ Len(last) = 2
      /\ last[1] = <<"purge">> /\ last[2] = <<"pipeline_completed">>
  BY DEF EventType, Words
<1>3. \A i \in 1..(2 * N) : mid[i] \in EventType
  <2> TAKE i \in 1..(2 * N)
  <2>1. CASE i % 2 = 1
    <3>1. (i + 1) \div 2 \in 1..N
      BY <2>1, SourcesDomain
    <3> QED
      BY <2>1, <3>1 DEF EventType, N
  <2>2. CASE i % 2 # 1
    <3>1. i \div 2 \in 1..N
      BY <2>2, SourcesDomain
    <3> QED
      BY <2>2, <3>1 DEF EventType, N
  <2> QED
    BY <2>1, <2>2
<1>4. mid \in Seq(EventType) /\ Len(mid) = 2 * N
  <2>1. mid \in [1..(2 * N) -> EventType]
    BY <1>3 DEF N
  <2>2. 2 * N \in Nat
    BY SourcesDomain
  <2> HIDE DEF mid
  <2>3. mid \in Seq(EventType)
    BY <2>1, <2>2, SeqDef
  <2> QED
    BY <2>1, <2>2, <2>3, LenProperties
<1>5. \A i \in 1..N : mid[2 * i - 1] = <<"scrape", Sources[i]>> /\ mid[2 * i] = <<"write", Sources[i]>>
  <2> TAKE i \in 1..N
  <2>1. /\ 2 * i - 1 \in 1..(2 * N) /\ (2 * i - 1) % 2 = 1 /\ ((2 * i - 1) + 1) \div 2 = i
        /\ 2 * i \in 1..(2 * N) /\ (2 * i) % 2 # 1 /\ (2 * i) \div 2 = i
    BY SourcesDomain
  <2> QED
    BY <2>1 DEF N
<1>6. Whole = (first \o mid) \o last
  BY DEF Whole
<1> HIDE DEF first, mid, last
<1> DEFINE front == first \o mid
<1>7. /\ front \in Seq(EventType) /\ Len(front) = 2 * N + 1 /\ front[1] = first[1]
      /\ \A i \in 2..(2 * N + 1) : front[i] = mid[i - 1]
  <2>1. /\ front \in Seq(EventType) /\ Len(front) = Len(first) + Len(mid)
        /\ \A i \in 1..(Len(first) + Len(mid)) :
              front[i] = IF i <= Len(first) THEN first[i] ELSE mid[i - Len(first)]
    BY <1>1, <1>4, ConcatProperties
  <2> HIDE DEF front
  <2>2. 1 \in 1..(Len(first) + Len(mid)) /\ 1 <= Len(first)
    BY <1>1, <1>4, SourcesDomain
  <2>3. ASSUME NEW i \in 2..(2 * N + 1) PROVE front[i] = mid[i - 1]
    <3>1. i \in 1..(Len(first) + Len(mid)) /\ ~(i <= Len(first)) /\ i - Len(first) = i - 1
      BY <1>1, <1>4, SourcesDomain
    <3> QED
      BY <2>1, <3>1
  <2> QED
    BY <1>1, <1>4, <2>1, <2>2, <2>3, SourcesDomain
<1> HIDE DEF front
<1>8. /\ Whole \in Seq(EventType) /\ Len(Whole) = 2 * N + 3
      /\ \A i \in 1..(2 * N + 1) : Whole[i] = front[i]
      /\ Whole[2 * N + 2] = last[1] /\ Whole[2 * N + 3] = last[2]
  <2>1. /\ Whole \in Seq(EventType) /\ Len(Whole) = Len(front) + Len(last)
        /\ \A i \in 1..(Len(front) + Len(last)) :
              Whole[i] = IF i <= Len(front) THEN front[i] ELSE last[i - Len(front)]
    <3>1. Whole = front \o last
      BY <1>6 DEF front
    <3> QED
      BY <1>2, <1>7, <3>1, ConcatProperties
  <2>2. ASSUME NEW i \in 1..(2 * N + 1) PROVE Whole[i] = front[i]
    <3>1. i \in 1..(Len(front) + Len(last)) /\ i <= Len(front)
      BY <1>2, <1>7, SourcesDomain
    <3> QED
      BY <2>1, <3>1
  <2>3. ASSUME NEW k \in 1..2 PROVE Whole[2 * N + 1 + k] = last[k]
    <3>1. /\ 2 * N + 1 + k \in 1..(Len(front) + Len(last)) /\ ~(2 * N + 1 + k <= Len(front))
          /\ (2 * N + 1 + k) - Len(front) = k
      BY <1>2, <1>7, SourcesDomain
    <3> QED
      BY <2>1, <3>1
  <2>4. 2 * N + 1 + 1 = 2 * N + 2 /\ 2 * N + 1 + 2 = 2 * N + 3
    BY SourcesDomain
  <2> QED
    BY <1>2, <1>7, <2>1, <2>2, <2>3, <2>4
<1>9. ASSUME NEW i \in 1..N
      PROVE  Whole[2 * i] = <<"scrape", Sources[i]>> /\ Whole[2 * i + 1] = <<"write", Sources[i]>>
  <2>1. 2 * i \in 2..(2 * N + 1) /\ 2 * i + 1 \in 2..(2 * N + 1) /\ 2 * i + 1 - 1 = 2 * i
        /\ 2 * i \in 1..(2 * N + 1) /\ 2 * i + 1 \in 1..(2 * N + 1)
    BY SourcesDomain
  <2>2. Whole[2 * i] = mid[2 * i - 1] /\ Whole[2 * i + 1] = mid[2 * i]
    BY <1>7, <1>8, <2>1
  <2> QED
    BY <1>5, <2>2
<1> QED
  <2>1. 1 \in 1..(2 * N + 1)
    BY SourcesDomain
  <2> QED
    BY <1>1, <1>2, <1>7, <1>8, <1>9, <2>1

\* Only the last event of a whole run calls it completed.
LEMMA NotCompleted ==
  ASSUME NEW i \in 1..(2 * N + 2)
  PROVE  Whole[i] # <<"pipeline_completed">>
<1>1. CASE i = 1
  BY <1>1, WholeIs
<1>2. CASE i = 2 * N + 2
  BY <1>2, WholeIs
<1>3. CASE i \in 2..(2 * N + 1)
  <2>1. PICK k \in 1..N : i = 2 * k \/ i = 2 * k + 1
    <3>1. i \div 2 \in 1..N /\ (i = 2 * (i \div 2) \/ i = 2 * (i \div 2) + 1)
      BY <1>3, SourcesDomain
    <3> QED
      BY <3>1
  <2>2. Whole[i] = <<"scrape", Sources[k]>> \/ Whole[i] = <<"write", Sources[k]>>
    BY <2>1, WholeIs
  <2> QED
    BY <2>2
<1> QED
  BY <1>1, <1>2, <1>3, SourcesDomain

LEMMA Prefix ==
  ASSUME NEW k \in 0..(2 * N + 3)
  PROVE  /\ SubSeq(Whole, 1, k) \in Seq(EventType) /\ Len(SubSeq(Whole, 1, k)) = k
         /\ DOMAIN SubSeq(Whole, 1, k) = 1..k
         /\ \A i \in 1..k : SubSeq(Whole, 1, k)[i] = Whole[i]
<1>1. k \in Int /\ \A i \in 1..k : i \in 1..Len(Whole)
  BY WholeIs, SourcesDomain
<1>2. \A i \in 1..k : Whole[i] \in EventType
  BY <1>1, WholeIs, ElementOfSeq
<1>3. /\ SubSeq(Whole, 1, k) \in Seq(EventType)
      /\ Len(SubSeq(Whole, 1, k)) = IF 1 <= k THEN k - 1 + 1 ELSE 0
      /\ \A i \in 1..(k - 1 + 1) : SubSeq(Whole, 1, k)[i] = Whole[1 + i - 1]
  BY <1>1, <1>2, SubSeqProperties
<1>4. Len(SubSeq(Whole, 1, k)) = k /\ \A i \in 1..k : SubSeq(Whole, 1, k)[i] = Whole[i]
  BY <1>1, <1>3
<1> QED
  BY <1>3, <1>4, LenProperties

LEMMA OneMore ==
  ASSUME NEW k \in 0..(2 * N + 2), events = SubSeq(Whole, 1, k), Emit(Whole[k + 1])
  PROVE  events' = SubSeq(Whole, 1, k + 1)
<1>1. 1 \in 1..Len(Whole) /\ k + 1 \in 1..Len(Whole) /\ (k + 1) - 1 = k
  BY WholeIs, SourcesDomain
<1>2. SubSeq(Whole, 1, k + 1) = SubSeq(Whole, 1, k) \o <<Whole[k + 1]>>
  BY <1>1, WholeIs, SubSeqRecursiveSecond
<1>3. SubSeq(Whole, 1, k) \in Seq(EventType) /\ Whole[k + 1] \in EventType
  BY <1>1, WholeIs, Prefix, ElementOfSeq
<1>4. events' = Append(SubSeq(Whole, 1, k), Whole[k + 1])
  BY DEF Emit
<1> QED
  BY <1>2, <1>3, <1>4, AppendIsConcat

(***************************************************************************)
(* What a step does to the stream                                          *)
(***************************************************************************)
LEMMA PlainTruth ==
  ASSUME NEW w, NEW e \in {<<v>> : v \in {"pipeline_started", "pipeline_skipped", "pipeline_failed"}}
                       \cup {<<"scrape", Sources[i]>> : i \in 1..N}
  PROVE  Truth(e, w) /\ e \in EventType
<1>1. CASE e \in {<<v>> : v \in {"pipeline_started", "pipeline_skipped", "pipeline_failed"}}
  BY <1>1 DEF Truth, EventType, Words
<1>2. CASE e \in {<<"scrape", Sources[i]>> : i \in 1..N}
  BY <1>2 DEF Truth, EventType, Words
<1> QED
  BY <1>1, <1>2

LEMMA WriteTruth ==
  ASSUME NEW i \in 1..N, NEW w, Sources[i] \in w
  PROVE  Truth(<<"write", Sources[i]>>, w) /\ <<"write", Sources[i]>> \in EventType
BY DEF Truth, EventType, Words

LEMMA EndTruth ==
  ASSUME NEW w
  PROVE  /\ "purge" \in w => Truth(<<"purge">>, w)
         /\ w = {"purge"} \cup All => Truth(<<"pipeline_completed">>, w)
         /\ <<"purge">> \in EventType /\ <<"pipeline_completed">> \in EventType
BY DEF Truth, EventType, Words

LEMMA TruthGrows ==
  ASSUME NEW e, NEW w, NEW v, Truth(e, w), e # <<"pipeline_completed">>, w \subseteq v
  PROVE  Truth(e, v)
BY DEF Truth

LEMMA NotYet ==
  ASSUME NEW k \in 0..(2 * N + 2), events = SubSeq(Whole, 1, k)
  PROVE  \A i \in DOMAIN events : events[i] # <<"pipeline_completed">>
<1>1. k \in 0..(2 * N + 3) /\ \A i \in 1..k : i \in 1..(2 * N + 2)
  BY SourcesDomain
<1> QED
  BY <1>1, Prefix, NotCompleted

LEMMA QuietTruth ==
  ASSUME AllTrue, UNCHANGED events, wrote \subseteq wrote',
         \A i \in DOMAIN events : events[i] # <<"pipeline_completed">>
  PROVE  AllTrue'
BY TruthGrows DEF AllTrue

LEMMA EmitTruth ==
  ASSUME events \in Seq(EventType), AllTrue, NEW e \in EventType, Emit(e), Truth(e, wrote'),
         wrote \subseteq wrote',
         wrote' = wrote \/ \A i \in DOMAIN events : events[i] # <<"pipeline_completed">>
  PROVE  AllTrue' /\ events' \in Seq(EventType) /\ Len(events') = Len(events) + 1
         /\ events'[Len(events')] = e
<1>1. /\ events' \in Seq(EventType) /\ Len(events') = Len(events) + 1
      /\ \A i \in 1..Len(events) : events'[i] = events[i]
      /\ events'[Len(events) + 1] = e
  BY AppendProperties DEF Emit
<1>2. /\ DOMAIN events = 1..Len(events) /\ Len(events) \in Nat
      /\ DOMAIN events' = 1..(Len(events) + 1)
  BY <1>1, LenProperties
<1>3. ASSUME NEW i \in 1..Len(events) PROVE Truth(events'[i], wrote')
  <2>1. Truth(events[i], wrote) /\ events'[i] = events[i]
    BY <1>1, <1>2 DEF AllTrue
  <2> QED
    BY <1>2, <2>1, TruthGrows
<1>4. \A i \in 1..(Len(events) + 1) : i \in 1..Len(events) \/ i = Len(events) + 1
  BY <1>2
<1> QED
  BY <1>1, <1>2, <1>3, <1>4 DEF AllTrue

\* A step that the stream and the pipeline know nothing of.
LEMMA StreamSame ==
  ASSUME StreamInv, LabelsOK, UNCHANGED <<pc, source, events, wrote>>,
         UNCHANGED faults \/ Fault
  PROVE  StreamInv'
<1>1. Idle => Idle'
  BY DEF Idle, LabelsOK, Fault, Told
<1> QED
  BY <1>1 DEF StreamInv, AllTrue

\* A run that has told the first k events and now goes on to fail.
LEMMA StreamFails ==
  ASSUME StreamInv, NEW k \in 0..(2 * N + 2), events = SubSeq(Whole, 1, k),
         pc' = "fail", UNCHANGED events, wrote \subseteq wrote'
  PROVE  StreamInv'
<1>1. AllTrue'
  BY NotYet, QuietTruth DEF StreamInv
<1>2. Len(events) = k
  BY Prefix, SourcesDomain
<1> QED
  BY <1>1, <1>2 DEF StreamInv

\* Wherever a run is, it has told the events of a whole run up to there.
LEMMA HowFar ==
  ASSUME StreamInv, LabelsOK, pc # "idle"
  PROVE  \E k \in 0..(2 * N + 2) :
            /\ events = SubSeq(Whole, 1, k)
            /\ pc = "scrape" => k = 2 * source - 1
            /\ pc = "write" => k = 2 * source
            /\ pc \in {"purge", "cut", "drop"} => k = 2 * N + 1
            /\ pc = "end" => k = 2 * N + 2
<1>1. CASE pc = "scrape"
  <2>1. 2 * source - 1 \in 0..(2 * N + 2)
    BY <1>1, SourcesDomain DEF LabelsOK, N
  <2> QED
    BY <1>1, <2>1 DEF StreamInv
<1>2. CASE pc = "write"
  <2>1. 2 * source \in 0..(2 * N + 2)
    BY <1>2, SourcesDomain DEF LabelsOK, N
  <2> QED
    BY <1>2, <2>1 DEF StreamInv
<1>3. CASE pc \in {"purge", "cut", "drop"}
  <2>1. 2 * N + 1 \in 0..(2 * N + 2)
    BY SourcesDomain
  <2> QED
    BY <1>3, <2>1 DEF StreamInv
<1>4. CASE pc = "end"
  <2>1. 2 * N + 2 \in 0..(2 * N + 2)
    BY SourcesDomain
  <2> QED
    BY <1>4, <2>1 DEF StreamInv
<1>5. CASE pc = "fail"
  BY <1>5 DEF StreamInv
<1> QED
  BY <1>1, <1>2, <1>3, <1>4, <1>5 DEF LabelsOK

LEMMA BeginStream ==
  ASSUME StreamInv, LabelsOK, Begin
  PROVE  StreamInv'
<1>1. CASE pc' = "scrape"
  <2>1. /\ events' = <<<<"pipeline_started">>>> /\ pc' = "scrape" /\ source' = 1 /\ wrote' = {}
    BY <1>1 DEF Begin
  <2>2. /\ events' \in Seq(EventType) /\ Len(events') = 1 /\ DOMAIN events' = 1..1
        /\ events'[1] = <<"pipeline_started">>
    BY <2>1 DEF EventType, Words
  <2>3. AllTrue'
    BY <2>2, PlainTruth DEF AllTrue
  <2>4. events' = SubSeq(Whole, 1, 1)
    <3>1. 1 \in 0..(2 * N + 3) /\ 1 \in 1..1
      BY SourcesDomain
    <3>2. /\ SubSeq(Whole, 1, 1) \in Seq(EventType) /\ Len(SubSeq(Whole, 1, 1)) = 1
          /\ SubSeq(Whole, 1, 1)[1] = Whole[1]
      BY <3>1, Prefix
    <3> QED
      BY <2>2, <3>2, WholeIs, SeqEqual
  <2>5. 2 * source' - 1 = 1 /\ wrote' = {Sources[k] : k \in 1..(source' - 1)}
    BY <2>1
  <2> QED
    BY <2>1, <2>2, <2>3, <2>4, <2>5 DEF StreamInv
<1>2. CASE events' = <<<<"pipeline_skipped">>>> /\ pc' = "idle"
  <2>1. /\ events' \in Seq(EventType) /\ DOMAIN events' = 1..1
        /\ events'[1] = <<"pipeline_skipped">>
    BY <1>2 DEF EventType, Words
  <2>2. AllTrue'
    BY <2>1, PlainTruth DEF AllTrue
  <2> QED
    BY <1>2, <2>1, <2>2 DEF StreamInv, Idle
<1>3. CASE events' = <<>> /\ pc' = "fail"
  <2>1. events' \in Seq(EventType) /\ Len(events') = 0 /\ DOMAIN events' = {}
    BY <1>3
  <2>2. events' = SubSeq(Whole, 1, 0)
    BY <1>3, SubSeqEmpty
  <2>3. Len(events') \in 0..(2 * N + 2)
    BY <2>1, SourcesDomain
  <2> QED
    BY <1>3, <2>1, <2>2, <2>3 DEF StreamInv, AllTrue
<1> QED
  BY <1>1, <1>2, <1>3 DEF Begin

LEMMA ScrapeStream ==
  ASSUME StreamInv, LabelsOK, Scrape
  PROVE  StreamInv'
<1> DEFINE e == <<"scrape", Sources[source]>>
<1>1. /\ pc = "scrape" /\ source \in 1..N /\ events = SubSeq(Whole, 1, 2 * source - 1)
      /\ wrote = {Sources[k] : k \in 1..(source - 1)}
  BY SourcesDomain DEF Scrape, LabelsOK, StreamInv, N
<1>2. Emit(e) /\ pc' = "write" /\ UNCHANGED <<source, wrote>>
  BY DEF Scrape
<1>3. /\ 2 * source - 1 \in 0..(2 * N + 2) /\ (2 * source - 1) + 1 = 2 * source
  BY <1>1, SourcesDomain
<1>4. Whole[2 * source] = e
  BY <1>1, WholeIs
<1>5. events' = SubSeq(Whole, 1, 2 * source)
  BY <1>1, <1>2, <1>3, <1>4, OneMore
<1>6. e \in EventType /\ Truth(e, wrote')
  BY <1>1, PlainTruth
<1> HIDE DEF e
<1>7. AllTrue' /\ events' \in Seq(EventType)
  BY <1>2, <1>6, EmitTruth DEF StreamInv
<1> QED
  BY <1>1, <1>2, <1>5, <1>7 DEF StreamInv

LEMMA WriteStream ==
  ASSUME StreamInv, LabelsOK, Write
  PROVE  StreamInv'
<1> DEFINE e == <<"write", Sources[source]>>
<1>1. /\ pc = "write" /\ source \in 1..N /\ events = SubSeq(Whole, 1, 2 * source)
      /\ wrote = {Sources[k] : k \in 1..(source - 1)}
  BY SourcesDomain DEF Write, LabelsOK, StreamInv, N
<1>2. 2 * source \in 0..(2 * N + 2)
  BY <1>1, SourcesDomain
<1>3. CASE pc' = "fail" /\ UNCHANGED events /\ wrote \subseteq wrote'
  BY <1>1, <1>2, <1>3, StreamFails
<1>4. CASE Advance /\ wrote' = wrote \cup {Sources[source]}
  <2>1. /\ Emit(e) /\ source' = source + 1
        /\ pc' = IF source = N THEN "purge" ELSE "scrape"
    BY <1>4 DEF Advance, N
  <2>2. Whole[2 * source + 1] = e
    BY <1>1, WholeIs
  <2>3. events' = SubSeq(Whole, 1, 2 * source + 1)
    BY <1>1, <1>2, <2>1, <2>2, OneMore
  <2>4. e \in EventType /\ Truth(e, wrote')
    BY <1>1, <1>4, WriteTruth
  <2>5. \A i \in DOMAIN events : events[i] # <<"pipeline_completed">>
    BY <1>1, <1>2, NotYet
  <2> HIDE DEF e
  <2>6. AllTrue' /\ events' \in Seq(EventType)
    BY <1>4, <2>1, <2>4, <2>5, EmitTruth DEF StreamInv
  <2>7. wrote' = {Sources[k] : k \in 1..source}
    <3>1. \A k \in 1..source : k \in 1..(source - 1) \/ k = source
      BY <1>1, SourcesDomain
    <3>2. \A k \in 1..(source - 1) : k \in 1..source
      BY <1>1, SourcesDomain
    <3>3. source \in 1..source
      BY <1>1, SourcesDomain
    <3> QED
      BY <1>1, <1>4, <3>1, <3>2, <3>3
  <2>8. 2 * source' - 1 = 2 * source + 1 /\ source' - 1 = source
    BY <1>1, <2>1, SourcesDomain
  <2>9. CASE source = N
    <3>1. pc' = "purge" /\ source' = N + 1 /\ wrote' = All
      BY <2>1, <2>7, <2>9, SourcesDomain DEF All
    <3> QED
      BY <2>3, <2>6, <2>9, <3>1 DEF StreamInv
  <2>10. CASE source # N
    <3>1. pc' = "scrape"
      BY <2>1, <2>10
    <3> QED
      BY <2>3, <2>6, <2>7, <2>8, <3>1 DEF StreamInv
  <2> QED
    BY <2>9, <2>10
<1> QED
  BY <1>3, <1>4 DEF Write, WriteFails, Fails

LEMMA PurgedStream ==
  ASSUME StreamInv, LabelsOK, pc \in {"purge", "drop"}, TellPurged
  PROVE  StreamInv'
<1>1. events = SubSeq(Whole, 1, 2 * N + 1) /\ wrote = All
  BY DEF StreamInv
<1>2. 2 * N + 1 \in 0..(2 * N + 2) /\ 2 * N + 1 + 1 = 2 * N + 2
  BY SourcesDomain
<1>3. wrote' = {"purge"} \cup All /\ wrote \subseteq wrote'
  BY <1>1 DEF TellPurged
<1>4. CASE pc' = "fail" /\ UNCHANGED events
  BY <1>1, <1>2, <1>3, <1>4, StreamFails
<1>5. CASE Emit(<<"purge">>) /\ pc' = "end"
  <2>1. events' = SubSeq(Whole, 1, 2 * N + 2)
    BY <1>1, <1>2, <1>5, WholeIs, OneMore
  <2>2. \A i \in DOMAIN events : events[i] # <<"pipeline_completed">>
    BY <1>1, <1>2, NotYet
  <2>3. <<"purge">> \in EventType /\ Truth(<<"purge">>, wrote')
    BY <1>3, EndTruth
  <2>4. AllTrue' /\ events' \in Seq(EventType)
    BY <1>3, <1>5, <2>2, <2>3, EmitTruth DEF StreamInv
  <2> QED
    BY <1>3, <1>5, <2>1, <2>4 DEF StreamInv
<1> QED
  BY <1>4, <1>5 DEF TellPurged

LEMMA SelectStream ==
  ASSUME StreamInv, LabelsOK, PurgeSelect
  PROVE  StreamInv'
<1>1. CASE TellPurged
  BY <1>1, PurgedStream DEF PurgeSelect
<1>2. CASE ~TellPurged
  <2>1. pc = "purge" /\ pc' = "cut" /\ UNCHANGED <<source, events, wrote, faults>>
    BY <1>2 DEF PurgeSelect
  <2> QED
    BY <2>1 DEF StreamInv, AllTrue
<1> QED
  BY <1>1, <1>2

LEMMA CutStream ==
  ASSUME StreamInv, PurgeMatches
  PROVE  StreamInv'
<1>1. pc = "cut" /\ pc' = "drop" /\ UNCHANGED <<source, events, wrote, faults>>
  BY DEF PurgeMatches
<1> QED
  BY <1>1 DEF StreamInv, AllTrue

LEMMA DropStream ==
  ASSUME StreamInv, LabelsOK, PurgeListings
  PROVE  StreamInv'
<1>1. CASE TellPurged
  BY <1>1, PurgedStream DEF PurgeListings
<1>2. CASE Fails /\ UNCHANGED <<events, wrote>>
  BY <1>2, HowFar, StreamFails DEF PurgeListings, Fails
<1> QED
  BY <1>1, <1>2 DEF PurgeListings

LEMMA CompleteStream ==
  ASSUME StreamInv, LabelsOK, Complete
  PROVE  StreamInv'
<1>1. pc = "end" /\ events = SubSeq(Whole, 1, 2 * N + 2) /\ wrote = {"purge"} \cup All
  BY DEF StreamInv, Complete
<1>2. 2 * N + 2 \in 0..(2 * N + 2) /\ 2 * N + 2 + 1 = 2 * N + 3 /\ UNCHANGED wrote
  BY SourcesDomain DEF Complete
<1>3. CASE Fails /\ UNCHANGED events
  BY <1>1, <1>2, <1>3, StreamFails DEF Fails
<1>4. CASE Emit(<<"pipeline_completed">>) /\ pc' = "idle"
  <2>1. events' = SubSeq(Whole, 1, 2 * N + 3)
    BY <1>1, <1>2, <1>4, WholeIs, OneMore
  <2>2. events' = Whole
    BY <2>1, WholeIs, SubSeqFull
  <2>3. <<"pipeline_completed">> \in EventType /\ Truth(<<"pipeline_completed">>, wrote')
    BY <1>1, <1>2, EndTruth
  <2>4. AllTrue' /\ events' \in Seq(EventType)
    BY <1>2, <1>4, <2>3, EmitTruth DEF StreamInv
  <2> QED
    BY <1>4, <2>2, <2>4 DEF StreamInv, Idle
<1> QED
  BY <1>3, <1>4 DEF Complete

LEMMA SayFailedStream ==
  ASSUME StreamInv, LabelsOK, SayFailed
  PROVE  StreamInv'
<1> DEFINE k == Len(events)
           e == <<"pipeline_failed">>
<1>1. pc = "fail" /\ pc' = "idle" /\ k \in 0..(2 * N + 2) /\ events = SubSeq(Whole, 1, k)
      /\ UNCHANGED wrote
  BY DEF StreamInv, SayFailed
<1>2. CASE Emit(e)
  <2>1. e \in EventType /\ Truth(e, wrote')
    BY PlainTruth
  <2>2. /\ AllTrue' /\ events' \in Seq(EventType) /\ Len(events') = k + 1
        /\ events'[Len(events')] = e
    BY <1>1, <1>2, <2>1, EmitTruth DEF StreamInv
  <2>3. Len(events') \in 1..Len(Whole) /\ Len(events') - 1 = k
    BY <1>1, <2>2, WholeIs, SourcesDomain
  <2>4. SubSeq(events', 1, k) = events
    <3>1. events' = Append(events, e) /\ events \in Seq(EventType)
      BY <1>2 DEF Emit, StreamInv
    <3>2. k \in Nat /\ DOMAIN events = 1..k
      BY <3>1, LenProperties
    <3>3. \A i \in 1..k : i \in 1..Len(events') /\ events'[i] = events[i] /\ events[i] \in EventType
      BY <2>2, <3>1, <3>2, AppendProperties, ElementOfSeq
    <3>4. /\ SubSeq(events', 1, k) \in Seq(EventType)
          /\ Len(SubSeq(events', 1, k)) = IF 1 <= k THEN k - 1 + 1 ELSE 0
          /\ \A i \in 1..(k - 1 + 1) : SubSeq(events', 1, k)[i] = events'[1 + i - 1]
      BY <3>2, <3>3, SubSeqProperties
    <3>5. Len(SubSeq(events', 1, k)) = k /\ \A i \in 1..k : SubSeq(events', 1, k)[i] = events[i]
      BY <3>2, <3>3, <3>4
    <3> QED
      BY <3>1, <3>4, <3>5, SeqEqual
  <2>5. Idle'
    BY <1>1, <2>2, <2>3, <2>4 DEF Idle, Told
  <2> QED
    BY <1>1, <2>2, <2>5 DEF StreamInv
<1>3. CASE Fault /\ UNCHANGED events
  <2>1. Idle'
    BY <1>1, <1>3 DEF Idle, Fault, LabelsOK
  <2> QED
    BY <1>1, <1>3, <2>1 DEF StreamInv, AllTrue
<1> QED
  BY <1>2, <1>3 DEF SayFailed

LEMMA StepFailsStream ==
  ASSUME StreamInv, LabelsOK, StepFails
  PROVE  StreamInv'
BY HowFar, StreamFails DEF StepFails, Fails

LEMMA KilledStream ==
  ASSUME StreamInv, LabelsOK, Killed
  PROVE  StreamInv'
<1>1. PICK k \in 0..(2 * N + 2) : events = SubSeq(Whole, 1, k)
  BY HowFar DEF Killed
<1>2. Len(events) = k
  BY <1>1, Prefix, SourcesDomain
<1>3. Idle'
  BY <1>1, <1>2 DEF Killed, Idle, Fault, LabelsOK
<1> QED
  BY <1>3 DEF StreamInv, AllTrue, Killed

LEMMA ServerStream ==
  ASSUME StreamInv, LabelsOK, PurgeOK, NEW r \in Requests, DeleteJob(r)
  PROVE  StreamInv'
<1>1. CASE UNCHANGED pipeline /\ UNCHANGED faults
  BY <1>1, StreamSame DEF pipeline
<1>2. CASE req[r].id \in cut /\ Fault /\ Fails /\ UNCHANGED <<source, events, wrote>>
  BY <1>2, HowFar, StreamFails DEF PurgeOK, Fails
<1> QED
  BY <1>1, <1>2 DEF DeleteJob

(***************************************************************************)
(* The theorems                                                            *)
(***************************************************************************)
IInv == TableInv /\ StreamInv

LEMMA InitIInv ==
  ASSUME Init
  PROVE  IInv
<1>1. RowsOK /\ MatchesOK /\ LabelsOK /\ PurgeOK /\ ScrapeOK /\ ReqOK
  BY SourcesLen DEF Init, RowsOK, RowType, MatchesOK, LabelsOK, PurgeOK, ScrapeOK, ReqOK,
     ReqSound, NoRequest
<1>2. StreamInv
  <2>1. events = <<>> /\ pc = "idle" /\ DOMAIN events = {} /\ events \in Seq(EventType)
    BY DEF Init
  <2> QED
    BY <2>1 DEF StreamInv, AllTrue, Idle
<1> QED
  BY <1>1, <1>2 DEF IInv, TableInv

LEMMA StepKeeps ==
  ASSUME IInv, [Next]_vars
  PROVE  IInv'
<1> USE DEF IInv
<1>1. TableInv /\ StreamInv /\ LabelsOK /\ PurgeOK
  BY DEF TableInv
<1>2. CASE PipelineStep
  <2>1. TableInv'
    BY <1>1, <1>2, BeginKeeps, ScrapeKeeps, WriteKeeps, SelectKeeps, CutKeeps, DropKeeps,
       CompleteKeeps, SayFailedKeeps DEF PipelineStep
  <2>2. StreamInv'
    BY <1>1, <1>2, BeginStream, ScrapeStream, WriteStream, SelectStream, CutStream, DropStream,
       CompleteStream, SayFailedStream DEF PipelineStep
  <2> QED
    BY <2>1, <2>2
<1>3. CASE StepFails \/ Killed
  BY <1>1, <1>3, StepFailsKeeps, KilledKeeps, StepFailsStream, KilledStream
<1>4. ASSUME NEW r \in Requests, ReceiveCreate(r) \/ ReceivePatch(r) \/ ReceiveDelete(r)
      PROVE  IInv'
  <2>1. PICK op \in {"create", "patch", "delete"}, j \in Jobs, c \in Contents \cup {Blank} :
           Receive(r, op, j, c) /\ (op \in {"create", "patch"} => c \in Contents)
    BY <1>4 DEF ReceiveCreate, ReceivePatch, ReceiveDelete
  <2>2. TableInv'
    BY <1>1, <2>1, ReceiveKeeps
  <2>3. StreamInv'
    BY <1>1, <2>1, StreamSame DEF Receive, pipeline
  <2> QED
    BY <2>2, <2>3
<1>5. ASSUME NEW r \in Requests, CreateJob(r) \/ PatchJob(r) \/ TellDeleted(r)
      PROVE  IInv'
  <2>1. TableInv'
    BY <1>1, <1>5, CreateKeeps, PatchKeeps, TellKeeps
  <2>2. StreamInv'
    BY <1>1, <1>5, StreamSame DEF CreateJob, PatchJob, TellDeleted, pipeline
  <2> QED
    BY <2>1, <2>2
<1>6. ASSUME NEW r \in Requests, DeleteJob(r) PROVE IInv'
  BY <1>1, <1>6, DeleteKeeps, ServerStream
<1>7. CASE AgentStep
  <2>1. TableInv'
    BY <1>1, <1>7, PickKeeps, RecordKeeps DEF AgentStep
  <2>2. StreamInv'
    BY <1>1, <1>7, StreamSame DEF AgentStep, PickJob, RecordJobResult, pipeline
  <2> QED
    BY <2>1, <2>2
<1>8. CASE Tick
  <2>1. StreamInv'
    BY <1>1, <1>8, StreamSame DEF Tick, pipeline
  <2> QED
    BY <1>1, <1>8, <2>1, TickKeeps
<1>9. CASE UNCHANGED vars
  <2>1. UNCHANGED <<rows, matches, enabled, pc, source, scrape, existing, stale, cut, events,
                    wrote, req, picked, faults, touched>>
    BY <1>9 DEF vars, table, pipeline
  <2>2. RowsOK' /\ MatchesOK' /\ LabelsOK' /\ PurgeOK'
    BY <1>1, <2>1 DEF TableInv, RowsOK, MatchesOK, LabelsOK, PurgeOK, Live
  <2>3. ScrapeOK' /\ ReqOK'
    BY <1>1, <2>1, ScrapeSame, SameRows, ReqKept DEF TableInv
  <2>4. StreamInv'
    BY <1>1, <2>1, StreamSame
  <2> QED
    BY <2>2, <2>3, <2>4 DEF TableInv
<1> QED
  BY <1>2, <1>3, <1>4, <1>5, <1>6, <1>7, <1>8, <1>9 DEF Next, ServerStep

\* The tables, the run and the requests keep to the rules they rest on: one row of a listing at
\* a time, matches of listings that are there, a run told up to where it is.
THEOREM Inductive == Spec => []IInv
  BY InitIInv, StepKeeps, PTL DEF Spec

\* What the stream says of runs and of deleted listings is so, whatever fails and whoever else
\* writes.
THEOREM StreamIsTruthful == Spec => []StreamTruthful
<1>1. ASSUME IInv PROVE TypeOK
  BY <1>1 DEF IInv, TableInv, TypeOK, RowsOK, RowType, MatchesOK, LabelsOK, PurgeOK
<1>2. ASSUME IInv PROVE PipelineTold
  BY <1>2 DEF IInv, StreamInv, AllTrue, Truth, Idle, PipelineTold, All
<1>3. ASSUME IInv PROVE DeletedIsGone
  BY <1>3 DEF IInv, TableInv, ReqOK, ReqSound, DeletedIsGone
<1>4. IInv => StreamTruthful
  BY <1>1, <1>2, <1>3 DEF StreamTruthful
<1> QED
  BY <1>4, Inductive, PTL

\* The transaction of a source leaves every listing as it was scraped, but for those that
\* others have written since it read them.
THEOREM WritesLand == Spec => WriteLandsScrape
<1>1. ASSUME IInv, Next, pc = "write", Sources[source] \in wrote' \ wrote, NEW j \in scrape.of
      PROVE  \/ rows'[j].live /\ rows'[j].content = scrape.content[j]
             \/ j \in touched
  <2>1. Write
    <3>1. wrote' # wrote
      BY <1>1
    <3> QED
      BY <1>1, <3>1 DEF Next, PipelineStep, ServerStep, AgentStep, Begin, Scrape, PurgeSelect,
         PurgeMatches, PurgeListings, Complete, SayFailed, StepFails, Killed, Receive,
         ReceiveCreate, ReceivePatch, ReceiveDelete, CreateJob, PatchJob, DeleteJob,
         TellDeleted, PickJob, RecordJobResult, Tick, pipeline
  <2>2. /\ \A k \in scrape.of : ~Refuses(k)
        /\ rows' = [k \in Jobs |-> IF k \in scrape.of THEN Upserted(k) ELSE rows[k]]
    BY <1>1, <2>1 DEF Write
  <2>3. j \in Jobs
    BY <1>1 DEF IInv, TableInv, ScrapeOK
  <2>4. rows'[j] = Upserted(j)
    BY <1>1, <2>2, <2>3
  <2> QED
    BY <1>1, <2>2, <2>4, UpsertedOK DEF IInv
<1>2. IInv /\ [Next]_vars => [pc = "write" /\ Sources[source] \in wrote' \ wrote =>
            \A j \in scrape.of :
                \/ rows'[j].live /\ rows'[j].content = scrape.content[j]
                \/ j \in touched]_vars
  BY <1>1
<1> QED
  BY <1>2, Inductive, PTL DEF Spec, WriteLandsScrape

\* A score once recorded goes only together with its listing.
THEOREM MatchesGoWithListings == Spec => MatchGoesWithListing
<1>1. ASSUME IInv, Next PROVE \A m \in matches \ matches' : ~Live(m)'
  <2>1. CASE PurgeListings
    BY <1>1, <2>1, DropKeeps DEF IInv
  <2>2. CASE ~PurgeListings
    <3>1. matches \subseteq matches'
      BY <1>1, <2>2 DEF Next, PipelineStep, ServerStep, AgentStep, Begin, Scrape, Write,
         PurgeSelect, PurgeMatches, CutMatches, Complete, SayFailed, StepFails, Killed, Receive,
         ReceiveCreate, ReceivePatch, ReceiveDelete, CreateJob, PatchJob, DeleteJob,
         TellDeleted, PickJob, RecordJobResult, Tick, table
    <3> QED
      BY <3>1
  <2> QED
    BY <2>1, <2>2
<1>2. IInv /\ [Next]_vars => [\A m \in matches \ matches' : ~Live(m)']_vars
  BY <1>1
<1> QED
  BY <1>2, Inductive, PTL DEF Spec, MatchGoesWithListing

(***************************************************************************)
(* Why a run comes to its end, whoever writes and deletes meanwhile: what  *)
(* it has still to do is a tuple of naturals, compared from the left.      *)
(***************************************************************************)
\* The stages in their order; scraping and writing go on together, source by source.
RunStage ==
    IF pc \in {"scrape", "write"} THEN 6
    ELSE IF pc = "purge" THEN 5
    ELSE IF pc = "cut" THEN 4
    ELSE IF pc = "drop" THEN 3
    ELSE IF pc = "end" THEN 2
    ELSE IF pc = "fail" THEN 1 ELSE 0

SourcesLeft == Len(Sources) + 1 - source
ScrapeLeft  == IF pc = "scrape" THEN 1 ELSE 0

RunMeasured == RunStage \in Nat /\ SourcesLeft \in Nat /\ ScrapeLeft \in Nat

RunNearer ==
    \/ RunStage' < RunStage
    \/ RunStage' = RunStage /\ SourcesLeft' < SourcesLeft
    \/ RunStage' = RunStage /\ SourcesLeft' = SourcesLeft /\ ScrapeLeft' < ScrapeLeft

RunStill == RunStage' = RunStage /\ SourcesLeft' = SourcesLeft /\ ScrapeLeft' = ScrapeLeft

\* Of a step: a run begins, gets nearer to its end or stays where it is, and the pipeline moves
\* in no other way than the first two.
PipelineGetsOn ==
    /\ Begin \/ RunNearer \/ RunStill
    /\ PipelineStep \/ StepFails \/ Killed => Begin \/ RunNearer

LEMMA ScrapeNears ==
  ASSUME LabelsOK, Scrape
  PROVE  RunNearer
<1>1. pc = "scrape" /\ pc' = "write" /\ source' = source
  BY DEF Scrape
<1>2. RunStage' = RunStage /\ SourcesLeft' = SourcesLeft /\ ScrapeLeft' < ScrapeLeft
  BY <1>1 DEF RunStage, SourcesLeft, ScrapeLeft
<1> QED
  BY <1>2, Zenon DEF RunNearer

LEMMA WriteNears ==
  ASSUME LabelsOK, Write
  PROVE  RunNearer
<1>1. pc = "write" /\ source \in Nat /\ Len(Sources) \in Nat
  BY SourcesLen DEF Write, LabelsOK
<1>2. CASE Fails
  <2>1. RunStage' < RunStage
    BY <1>1, <1>2 DEF Fails, RunStage
  <2> QED
    BY <2>1, Zenon DEF RunNearer
<1>3. CASE Advance
  <2>1. source' = source + 1 /\ pc' \in {"purge", "scrape"}
    BY <1>3 DEF Advance
  <2>2. SourcesLeft' < SourcesLeft
    BY <1>1, <2>1 DEF SourcesLeft
  <2>3. RunStage' < RunStage \/ RunStage' = RunStage
    BY <1>1, <2>1 DEF RunStage
  <2> QED
    BY <2>2, <2>3, Zenon DEF RunNearer
<1> QED
  BY <1>2, <1>3, Zenon DEF Write, WriteFails

\* Every other step of the run, and whatever breaks it off, passes to a later stage.
LEMMA StageNears ==
  ASSUME LabelsOK,
         \/ PurgeSelect \/ PurgeMatches \/ PurgeListings \/ Complete \/ SayFailed
         \/ StepFails \/ Killed
  PROVE  RunNearer
<1>1. \/ pc = "purge" /\ pc' \in {"cut", "end", "fail"}
      \/ pc = "cut" /\ pc' = "drop"
      \/ pc = "drop" /\ pc' \in {"end", "fail"}
      \/ pc = "end" /\ pc' \in {"idle", "fail"}
      \/ pc = "fail" /\ pc' = "idle"
      \/ pc \in {"scrape", "write", "purge"} /\ pc' = "fail"
      \/ pc \notin {"idle", "fail"} /\ pc' = "idle"
  <2>1. CASE PurgeSelect
    BY <2>1 DEF PurgeSelect, TellPurged
  <2>2. CASE PurgeMatches
    BY <2>2 DEF PurgeMatches
  <2>3. CASE PurgeListings
    BY <2>3 DEF PurgeListings, TellPurged, Fails
  <2>4. CASE Complete
    BY <2>4 DEF Complete, Fails
  <2>5. CASE SayFailed
    BY <2>5 DEF SayFailed
  <2>6. CASE StepFails
    BY <2>6 DEF StepFails, Fails
  <2>7. CASE Killed
    BY <2>7 DEF Killed
  <2> QED
    BY <2>1, <2>2, <2>3, <2>4, <2>5, <2>6, <2>7
<1>2. pc \in {"idle", "scrape", "write", "purge", "cut", "drop", "end", "fail"}
  BY DEF LabelsOK
<1>3. RunStage' < RunStage
  BY <1>1, <1>2 DEF RunStage
<1> QED
  BY <1>3, Zenon DEF RunNearer

\* The requests, the agent and time leave the run alone, but for the DELETE that makes the purge
\* the victim of their deadlock.
LEMMA OthersLeaveRun ==
  ASSUME LabelsOK, PurgeOK, ServerStep \/ AgentStep \/ Tick
  PROVE  RunNearer \/ RunStill
<1>1. CASE UNCHANGED <<pc, source>>
  BY <1>1 DEF RunStill, RunStage, SourcesLeft, ScrapeLeft
<1>2. ASSUME NEW r \in Requests, DeleteJob(r) PROVE RunNearer \/ RunStill
  <2>1. CASE req[r].id \in cut /\ Fails
    <3>1. pc = "drop" /\ pc' = "fail"
      BY <2>1 DEF PurgeOK, Fails
    <3>2. RunStage' < RunStage
      BY <3>1 DEF RunStage
    <3> QED
      BY <3>2, Zenon DEF RunNearer
  <2>2. CASE UNCHANGED pipeline
    BY <1>1, <2>2 DEF pipeline
  <2> QED
    BY <1>2, <2>1, <2>2, Zenon DEF DeleteJob
<1>3. ASSUME NEW r \in Requests,
             \/ ReceiveCreate(r) \/ ReceivePatch(r) \/ ReceiveDelete(r)
             \/ CreateJob(r) \/ PatchJob(r) \/ TellDeleted(r)
      PROVE  RunStill
  BY <1>1, <1>3 DEF ReceiveCreate, ReceivePatch, ReceiveDelete, Receive, CreateJob, PatchJob,
     TellDeleted, pipeline, RunStill, RunStage, SourcesLeft, ScrapeLeft
<1>4. CASE AgentStep \/ Tick
  BY <1>1, <1>4 DEF AgentStep, PickJob, RecordJobResult, Tick, pipeline
<1> QED
  BY <1>2, <1>3, <1>4, Zenon DEF ServerStep

\* Every run of the scrape pipeline gets on: each step of it lowers what it has left to do, a
\* tuple of naturals, and so does whatever breaks it off, while requests, agent and time raise
\* nothing (job_runner.py:40-109).
THEOREM RunsAreFinite == Spec => []RunMeasured /\ [][PipelineGetsOn]_vars
<1>1. ASSUME IInv PROVE RunMeasured
  <2>1. source \in 1..(Len(Sources) + 1) /\ Len(Sources) \in Nat
    BY <1>1, SourcesLen DEF IInv, TableInv, LabelsOK
  <2>2. SourcesLeft \in Nat
    BY <2>1 DEF SourcesLeft
  <2> QED
    BY <2>2 DEF RunMeasured, RunStage, ScrapeLeft
<1>2. ASSUME IInv, Next PROVE PipelineGetsOn
  <2>1. LabelsOK /\ PurgeOK
    BY <1>2 DEF IInv, TableInv
  <2>2. PipelineStep \/ StepFails \/ Killed => Begin \/ RunNearer
    BY <2>1, ScrapeNears, WriteNears, StageNears, Zenon DEF PipelineStep
  <2>3. Begin \/ RunNearer \/ RunStill
    BY <1>2, <2>1, <2>2, OthersLeaveRun, Zenon DEF Next
  <2> QED
    BY <2>2, <2>3, Zenon DEF PipelineGetsOn
<1> QED
  BY <1>1, <1>2, Inductive, PTL DEF Spec
=============================================================================

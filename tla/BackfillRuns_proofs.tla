------------------------- MODULE BackfillRuns_proofs -------------------------
(***************************************************************************)
(* Theorems about BackfillRuns, for every set of runs, jobs and versions,  *)
(* every batch size and every limit.                                       *)
(***************************************************************************)
EXTENDS BackfillRuns, FiniteSetTheorems, WellFoundedInduction, TLAPS

USE DEF MT!Result, MT!Scored, Log!Status, Log!Ended

-----------------------------------------------------------------------------
(* Types of the values the actions build. *)

LEMMA NewRowType == ASSUME NEW s \in Log!Status PROVE NewRow(s) \in Row
  BY DEF NewRow, Row, Counters, NoCounts, Reasons

LEMMA BatchEndType ==
  ASSUME TypeOK, NEW r \in Runs
  PROVE  BatchEnd(r) \in Nat
<1>1. Len(cand[r]) \in Nat /\ mem[r].processed \in Nat /\ BatchSize \in Nat
  BY BatchSizeAssumption DEF TypeOK, Row
<1>2. QED
  BY <1>1 DEF BatchEnd

LEMMA TalliedType ==
  ASSUME TypeOK, NEW r \in Runs
  PROVE  Tallied(r) \in Row
<1>1. mem[r] \in Row /\ tally[r] \in Counters /\ BatchEnd(r) \in Nat
  BY BatchEndType DEF TypeOK
<1>2. Sum(mem[r].counts, tally[r]) \in Counters
  BY <1>1 DEF Sum, Counters, Row
<1>3. QED
  BY <1>1, <1>2 DEF Tallied, Row

LEMMA CountType ==
  ASSUME TypeOK, NEW r \in Runs,
         NEW c \in {Rescored, NotFound, CrawlError, Errored}, Count(r, c)
  PROVE  tally' \in [Runs -> Counters]
<1>1. /\ Rescored \in Counters
      /\ NotFound \in Counters
      /\ CrawlError \in Counters
      /\ Errored \in Counters
  <2>1. Rescored \in Counters
    BY DEF Counters, NoCounts, Rescored
  <2>2. NotFound \in Counters
    BY DEF Counters, NoCounts, NotFound
  <2>3. CrawlError \in Counters
    BY DEF Counters, NoCounts, CrawlError
  <2>4. Errored \in Counters
    BY DEF Counters, NoCounts, Errored
  <2>5. QED
    BY <2>1, <2>2, <2>3, <2>4
<1>2. tally[r] \in Counters /\ c \in Counters
  BY <1>1 DEF TypeOK
<1>3. Sum(tally[r], c) \in Counters
  BY <1>2 DEF Sum, Counters
<1>4. QED
  BY <1>3 DEF TypeOK, Count

LEMMA RecordType ==
  ASSUME TypeOK, NEW j \in Jobs, NEW v \in Versions, NEW x \in MT!Result,
         RecordJobResult(j, v, x)
  PROVE  MT!TableTypeOK'
  BY DEF TypeOK, RecordJobResult, MT!TableTypeOK

LEMMA CandidateType ==
  ASSUME TypeOK, NEW r \in Runs, pos[r] < BatchEnd(r)
  PROVE  cand[r][pos[r] + 1] \in Jobs
<1>1. /\ cand[r] \in Seq(Jobs) /\ pos[r] \in Nat
      /\ mem[r].processed \in Nat /\ BatchSize \in Nat
  BY BatchSizeAssumption DEF TypeOK, Row
<1>2. pos[r] + 1 \in 1..Len(cand[r])
  BY <1>1 DEF BatchEnd
<1>3. QED
  BY <1>1, <1>2

LEMMA SelectionType ==
  ASSUME NEW v, NEW n, NEW list \in Selections(v, n)
  PROVE  list \in Seq(Jobs)
<1>1. PICK m \in 0..n : list \in [1..m -> Pool(v)]
  BY DEF Selections
<1>2. m \in Nat
  OBVIOUS
<1>3. QED
  BY <1>1, <1>2 DEF Pool

-----------------------------------------------------------------------------
(* One lemma per group of actions. *)

LEMMA StartTypes ==
  ASSUME TypeOK, NEW r \in Runs, StartList(r) \/ StartAsk(r) \/ StartRun(r)
  PROVE  TypeOK'
<1> USE DEF TypeOK, Control, InHandler, InThread, Goto, thread, table, api
<1>1. CASE StartList(r)
  BY <1>1, VersionAssumption DEF StartList, MT!TableTypeOK
<1>2. CASE StartAsk(r)
  <2>1. PICK s \in toAsk[r] : RequestCancel(s, r) /\ toAsk' = [toAsk EXCEPT ![r] = @ \ {s}]
    BY <1>2 DEF StartAsk
  <2>2. s \in Runs /\ rows[s] \in Row
    BY <2>1
  <2>3. [rows[s] EXCEPT !.cancel = r] \in Row
    BY <2>2 DEF Row, Reasons
  <2>4. rows' \in [Runs -> Row] /\ asked' \in [Runs -> BOOLEAN]
    BY <2>1, <2>2, <2>3 DEF RequestCancel
  <2>5. QED
    BY <1>2, <2>1, <2>4 DEF StartAsk, MT!TableTypeOK
<1>3. CASE StartRun(r)
  BY <1>3, NewRowType DEF StartRun, SaveStatus, MT!TableTypeOK
<1>4. QED
  BY <1>1, <1>2, <1>3

LEMMA CancelTypes ==
  ASSUME TypeOK, NEW r \in Runs, CancelRead(r) \/ CancelWrite(r)
  PROVE  TypeOK'
<1> USE DEF TypeOK, thread, table
<1>1. CASE CancelRead(r)
  BY <1>1 DEF CancelRead, MT!TableTypeOK
<1>2. CASE CancelWrite(r)
  <2>1. rows[r] \in Row
    OBVIOUS
  <2>2. [rows[r] EXCEPT !.cancel = Manual] \in Row
    BY <2>1 DEF Row, Reasons
  <2>3. rows' \in [Runs -> Row] /\ asked' \in [Runs -> BOOLEAN]
    BY <1>2, <2>2 DEF CancelWrite, RequestCancel
  <2>4. QED
    BY <1>2, <2>3 DEF CancelWrite, MT!TableTypeOK
<1>3. QED
  BY <1>1, <1>2

LEMMA DropBatchType ==
  ASSUME TypeOK, NEW r \in Runs, DropBatch(r)
  PROVE  crawled' \in [Runs -> Seq(Jobs)] /\ tally' \in [Runs -> Counters]
<1>1. NoCounts \in Counters
  BY DEF NoCounts, Counters
<1>2. QED
  BY <1>1 DEF TypeOK, DropBatch

LEMMA OuterTypes ==
  ASSUME TypeOK, NEW r \in Runs,
         Fetch(r) \/ Select(r) \/ Fail(r) \/ Finish(r) \/ LoseThread(r)
  PROVE  TypeOK'
<1> USE DEF TypeOK, Control, InHandler, InThread, Goto, thread, table, api
<1>0. mem[r] \in Row /\ rows[r] \in Row
  OBVIOUS
<1>1. CASE Fetch(r)
  BY <1>0, <1>1 DEF Fetch, MT!TableTypeOK
<1>2. CASE Select(r)
  <2> DEFINE limit == EffectiveLimit(args[r].limit)
             status(list) == [mem[r] EXCEPT !.candidates = Len(list)]
  <2>1. PICK list \in Selections(args[r].version, limit) :
          /\ cand' = [cand EXCEPT ![r] = list]
          /\ \/ /\ mem' = [mem EXCEPT ![r] = status(list)]
                /\ SaveStatus(r, status(list))
                /\ Goto(r, "between")
             \/ /\ mem' = [mem EXCEPT ![r] = [status(list) EXCEPT !.status = "failed"]]
                /\ Goto(r, "finish")
                /\ UNCHANGED rows
    BY <1>2 DEF Select
  <2>2. list \in Seq(Jobs) /\ Len(list) \in Nat
    BY SelectionType
  <2>3. status(list) \in Row
    BY <1>0, <2>2 DEF Row
  <2>4. [status(list) EXCEPT !.status = "failed"] \in Row
    BY <2>3 DEF Row
  <2> HIDE DEF status
  <2>5. mem' \in [Runs -> Row] /\ rows' \in [Runs -> Row]
    <3>1. CASE mem' = [mem EXCEPT ![r] = status(list)] /\ SaveStatus(r, status(list))
      BY <3>1, <2>3 DEF SaveStatus
    <3>2. CASE /\ mem' = [mem EXCEPT ![r] = [status(list) EXCEPT !.status = "failed"]]
               /\ UNCHANGED rows
      BY <3>2, <2>4
    <3>3. QED
      BY <2>1, <3>1, <3>2
  <2>6. pc' \in [Runs -> Control] /\ cand' \in [Runs -> Seq(Jobs)]
    BY <2>1, <2>2
  <2>7. QED
    BY <1>2, <2>5, <2>6 DEF Select, MT!TableTypeOK
<1>3. CASE Fail(r)
  <2>1. [mem[r] EXCEPT !.status = "failed"] \in Row
    BY <1>0 DEF Row
  <2>2. crawled' \in [Runs -> Seq(Jobs)] /\ tally' \in [Runs -> Counters]
    BY <1>3, DropBatchType DEF Fail
  <2>3. mem[r].processed \in Nat
    BY <1>0 DEF Row
  <2>4. QED
    BY <1>3, <2>1, <2>2, <2>3 DEF Fail, MT!TableTypeOK
<1>4. CASE Finish(r)
  BY <1>0, <1>4 DEF Finish, SaveStatus, MT!TableTypeOK
<1>5. CASE LoseThread(r)
  BY <1>5, NewRowType DEF LoseThread, MT!TableTypeOK
<1>6. QED
  BY <1>1, <1>2, <1>3, <1>4, <1>5

LEMMA LoopTypes ==
  ASSUME TypeOK, NEW r \in Runs, NoticeCancel(r) \/ NextBatch(r) \/ Complete(r)
  PROVE  TypeOK'
<1> USE DEF TypeOK, Control, InHandler, InThread, Goto, thread, table, api
<1>0. mem[r] \in Row /\ rows[r].cancel \in Reasons
  BY DEF Row
<1>1. CASE NoticeCancel(r)
  <2>1. [mem[r] EXCEPT !.status = "cancelled", !.cancel = rows[r].cancel] \in Row
    BY <1>0 DEF Row
  <2>2. mem' \in [Runs -> Row]
    BY <1>1, <2>1 DEF NoticeCancel
  <2>3. QED
    BY <1>1, <2>2 DEF NoticeCancel, MT!TableTypeOK
<1>2. CASE NextBatch(r)
  BY <1>2 DEF NextBatch, MT!TableTypeOK
<1>3. CASE Complete(r)
  <2>1. [mem[r] EXCEPT !.status = "completed"] \in Row
    BY <1>0 DEF Row
  <2>2. QED
    BY <1>3, <2>1 DEF Complete, MT!TableTypeOK
<1>4. QED
  BY <1>1, <1>2, <1>3

LEMMA BatchTypes ==
  ASSUME TypeOK, NEW r \in Runs,
         \/ CrawlOk(r) \/ CrawlNotFound(r) \/ CrawlFailed(r) \/ Score(r)
         \/ RecordScored(r) \/ RecordMissing(r) \/ BatchDone(r)
  PROVE  TypeOK'
<1> USE DEF TypeOK, Control, InHandler, InThread, Goto, thread, table, api
<1>0. /\ crawled[r] \in Seq(Jobs)
      /\ args[r].version \in Versions
      /\ "gone" \in MT!Result
      /\ mem[r] \in Row
  OBVIOUS
<1>1. CASE CrawlOk(r)
  <2>1. cand[r][pos[r] + 1] \in Jobs
    BY <1>1, CandidateType DEF CrawlOk, CrawlStep
  <2>2. Append(crawled[r], cand[r][pos[r] + 1]) \in Seq(Jobs)
    BY <1>0, <2>1
  <2>3. QED
    BY <1>1, <2>2 DEF CrawlOk, CrawlStep, MT!TableTypeOK
<1>2. CASE CrawlNotFound(r)
  <2>1. cand[r][pos[r] + 1] \in Jobs
    BY <1>2, CandidateType DEF CrawlNotFound, CrawlStep
  <2>2. MT!TableTypeOK'
    BY <1>0, <1>2, <2>1, RecordType DEF CrawlNotFound
  <2>3. tally' \in [Runs -> Counters]
    BY <1>2, CountType DEF CrawlNotFound
  <2>4. CrawlStep(r) /\ UNCHANGED crawled
    BY <1>2 DEF CrawlNotFound
  <2>5. QED
    BY <2>2, <2>3, <2>4 DEF CrawlStep
<1>3. CASE CrawlFailed(r)
  <2>1. tally' \in [Runs -> Counters]
    BY <1>3, CountType DEF CrawlFailed
  <2>2. CrawlStep(r) /\ UNCHANGED <<crawled, matches>>
    BY <1>3 DEF CrawlFailed
  <2>3. QED
    BY <2>1, <2>2 DEF CrawlStep, MT!TableTypeOK
<1>4. CASE Score(r)
  BY <1>4 DEF Score, MT!TableTypeOK
<1>5. CASE RecordScored(r)
  <2>1. /\ crawled[r] # <<>>
        /\ Head(crawled[r]) \in Jobs
        /\ Tail(crawled[r]) \in Seq(Jobs)
    BY <1>0, <1>5 DEF RecordScored, RecordStep
  <2>2. MT!TableTypeOK'
    BY <1>0, <1>5, <2>1, RecordType DEF RecordScored
  <2>3. tally' \in [Runs -> Counters]
    BY <1>5, CountType DEF RecordScored
  <2>4. QED
    BY <1>5, <2>1, <2>2, <2>3 DEF RecordScored, RecordStep
<1>6. CASE RecordMissing(r)
  <2>1. Tail(crawled[r]) \in Seq(Jobs)
    BY <1>0, <1>6 DEF RecordMissing, RecordStep
  <2>2. tally' \in [Runs -> Counters]
    BY <1>6, CountType DEF RecordMissing
  <2>3. QED
    BY <1>6, <2>1, <2>2 DEF RecordMissing, RecordStep, MT!TableTypeOK
<1>7. CASE BatchDone(r)
  <2>1. Tallied(r) \in Row
    BY TalliedType
  <2>2. [Tallied(r) EXCEPT !.status = "failed"] \in Row
    BY <2>1 DEF Row
  <2>3. mem' \in [Runs -> Row] /\ rows' \in [Runs -> Row] /\ pc' \in [Runs -> Control]
    <3>1. CASE /\ mem' = [mem EXCEPT ![r] = Tallied(r)]
               /\ SaveStatus(r, Tallied(r))
               /\ Goto(r, "between")
      BY <3>1, <2>1 DEF SaveStatus
    <3>2. CASE /\ mem' = [mem EXCEPT ![r] = [Tallied(r) EXCEPT !.status = "failed"]]
               /\ Goto(r, "finish")
               /\ UNCHANGED rows
      BY <3>2, <2>2
    <3>3. QED
      BY <1>7, <3>1, <3>2 DEF BatchDone
  <2>4. crawled' \in [Runs -> Seq(Jobs)] /\ tally' \in [Runs -> Counters]
    BY <1>7, DropBatchType DEF BatchDone
  <2>5. QED
    BY <1>7, <2>3, <2>4 DEF BatchDone, MT!TableTypeOK
<1>8. QED
  BY <1>1, <1>2, <1>3, <1>4, <1>5, <1>6, <1>7

LEMMA EnvironmentTypes ==
  ASSUME TypeOK, OtherWriters \/ Crash
  PROVE  TypeOK'
<1> USE DEF TypeOK, thread, table, api
<1>1. ASSUME NEW j \in Jobs, LiveResult(j)
      PROVE  TypeOK'
  <2>1. PICK x \in MT!Scored : RecordJobResult(j, LiveVersion, x)
    BY <1>1 DEF LiveResult
  <2>2. MT!TableTypeOK'
    BY <2>1, VersionAssumption, RecordType
  <2>3. Cardinality({i \in Jobs : firstEval[i] # 0}) \in Nat
    BY JobsAssumption, FS_Subset, FS_CardinalityType
  <2>4. QED
    BY <1>1, <2>2, <2>3 DEF LiveResult
<1>2. ASSUME NEW stale \in SUBSET (Purgeable \ purged), Purge(stale)
      PROVE  TypeOK'
  BY <1>2 DEF Purge, MT!TableTypeOK
<1>3. CASE Crash
  <2>1. NewRow("absent") \in Row
    BY NewRowType
  <2>2. NoCounts \in Counters
    BY DEF NoCounts, Counters
  <2>3. mem' \in [Runs -> Row] /\ tally' \in [Runs -> Counters]
    BY <1>3, <2>1, <2>2 DEF Crash
  <2>4. pc' \in [Runs -> Control]
    BY <1>3 DEF Crash, Control
  <2>5. /\ toAsk' \in [Runs -> SUBSET Runs] /\ cand' \in [Runs -> Seq(Jobs)]
        /\ pos' \in [Runs -> Nat] /\ crawled' \in [Runs -> Seq(Jobs)]
        /\ cancelling' = {}
    BY <1>3 DEF Crash
  <2>6. UNCHANGED <<rows, args, asked, table>>
    BY <1>3 DEF Crash
  <2>7. QED
    BY <2>3, <2>4, <2>5, <2>6 DEF MT!TableTypeOK
<1>4. QED
  BY <1>1, <1>2, <1>3 DEF OtherWriters

\* Every variable keeps its type: a saved status is one of the four that the API's response
\* model admits, and the candidate list, the batch and the counters are well formed.
THEOREM TypeCorrect == Spec => []TypeOK
<1>1. Init => TypeOK
  BY NewRowType, VersionAssumption
     DEF Init, InitRuns, TypeOK, Control, NoCounts, Counters, MT!TableTypeOK
<1>2. TypeOK /\ [Next]_vars => TypeOK'
  <2> SUFFICES ASSUME TypeOK, [Next]_vars PROVE TypeOK'
    OBVIOUS
  <2>1. ASSUME NEW r \in Runs, StartList(r) \/ CancelRead(r) \/ Handler(r)
        PROVE  TypeOK'
    BY <2>1, StartTypes, CancelTypes DEF Handler
  <2>2. ASSUME NEW r \in Runs, ThreadStep(r)
        PROVE  TypeOK'
    BY <2>2, OuterTypes, LoopTypes, BatchTypes DEF ThreadStep
  <2>3. CASE OtherWriters \/ Crash
    BY <2>3, EnvironmentTypes
  <2>4. CASE UNCHANGED vars
    BY <2>4 DEF TypeOK, vars, MT!TableTypeOK
  <2>5. QED
    BY <2>1, <2>2, <2>3, <2>4 DEF Next
<1>3. QED
  BY <1>1, <1>2, PTL DEF Spec

-----------------------------------------------------------------------------
(* The inductive invariant.  A step of run r leaves what belongs to any     *)
(* other run alone, except for the cancel_reason column of a row.           *)

\* Nothing that RunInv(s) speaks of has changed.
Same(s) ==
    /\ rows'[s] = rows[s] /\ mem'[s] = mem[s] /\ pc'[s] = pc[s]
    /\ cand'[s] = cand[s] /\ pos'[s] = pos[s]
    /\ crawled'[s] = crawled[s] /\ tally'[s] = tally[s]
    /\ asked'[s] = asked[s] /\ toAsk'[s] = toAsk[s]

LEMMA Frame ==
  ASSUME NEW s \in Runs, RunInv(s), Same(s)
  PROVE  RunInv(s)'
  BY DEF RunInv, RowInv, MemInv, BatchInv, CancelInv, Same, BatchEnd

\* A step of r that leaves every other run alone needs to be looked at for r only.
LEMMA OwnStep ==
  ASSUME IInv, NEW r \in Runs, RunInv(r)', \A s \in Runs \ {r} : Same(s)
  PROVE  \A s \in Runs : RunInv(s)'
  BY Frame DEF IInv

LEMMA RequestCancelInv ==
  ASSUME IInv, NEW s \in Runs, NEW x \in Reasons \ {NoReason}, x # s,
         RequestCancel(s, x), UNCHANGED <<mem, pc, thread>>,
         \A r \in Runs : toAsk'[r] \subseteq toAsk[r]
  PROVE  \A r \in Runs : RunInv(r)'
<1> TAKE r \in Runs
<1>1. /\ mem'[r] = mem[r] /\ pc'[r] = pc[r] /\ cand'[r] = cand[r] /\ pos'[r] = pos[r]
      /\ crawled'[r] = crawled[r] /\ tally'[r] = tally[r]
      /\ toAsk'[r] \subseteq toAsk[r]
  BY DEF thread
<1>2. RunInv(r) /\ rows[r] \in Row /\ rows \in [Runs -> Row] /\ asked \in [Runs -> BOOLEAN]
  BY DEF IInv, TypeOK
<1>3. CASE r # s
  <2>1. rows'[r] = rows[r] /\ asked'[r] = asked[r]
    BY <1>2, <1>3 DEF RequestCancel
  <2>2. QED
    BY <1>1, <1>2, <2>1 DEF RunInv, RowInv, MemInv, BatchInv, CancelInv, BatchEnd
<1>4. CASE r = s
  <2>1. /\ rows'[r] = [rows[r] EXCEPT !.cancel = x]
        /\ asked'[r] = (asked[r] \/ rows[r].status = "running")
    BY <1>2, <1>4 DEF RequestCancel
  <2>2. /\ rows'[r].status = rows[r].status /\ rows'[r].cancel = x
        /\ rows'[r].candidates = rows[r].candidates
        /\ rows'[r].processed = rows[r].processed /\ rows'[r].counts = rows[r].counts
        /\ [rows'[r] EXCEPT !.cancel = NoReason] = [rows[r] EXCEPT !.cancel = NoReason]
    BY <1>2, <2>1 DEF Row
  <2>3. RowInv(r)'
    BY <1>1, <1>2, <2>2 DEF RunInv, RowInv, RowAddsUp
  <2>4. MemInv(r)' /\ BatchInv(r)'
    BY <1>1, <1>2, <2>2 DEF RunInv, MemInv, BatchInv, BatchEnd
  <2>5. CancelInv(r)'
    BY <1>1, <1>2, <1>4, <2>1, <2>2 DEF RunInv, CancelInv
  <2>6. QED
    BY <2>3, <2>4, <2>5 DEF RunInv
<1>5. QED
  BY <1>3, <1>4

LEMMA StartInv ==
  ASSUME IInv, NEW r \in Runs, StartList(r) \/ StartAsk(r) \/ StartRun(r)
  PROVE  \A s \in Runs : RunInv(s)'
<1>0. TypeOK /\ RunInv(r)
  BY DEF IInv
<1>1. CASE StartList(r)
  <2>1. \A s \in Runs \ {r} : Same(s)
    BY <1>0, <1>1 DEF StartList, Goto, thread, TypeOK, Same
  <2>2. /\ rows'[r] = rows[r] /\ mem'[r] = mem[r] /\ pc[r] = "idle" /\ pc'[r] = "listing"
        /\ pos'[r] = pos[r] /\ crawled'[r] = crawled[r] /\ tally'[r] = tally[r]
        /\ asked'[r] = asked[r]
        /\ toAsk'[r] = {s \in Runs : rows[s].status = "running"}
    BY <1>0, <1>1 DEF StartList, Goto, thread, TypeOK
  <2>3. RunInv(r)'
    BY <1>0, <2>2 DEF RunInv, RowInv, MemInv, BatchInv, CancelInv, InThread, BatchEnd
  <2>4. QED
    BY <2>1, <2>3, OwnStep
<1>2. CASE StartAsk(r)
  <2>1. PICK s \in toAsk[r] : RequestCancel(s, r) /\ toAsk' = [toAsk EXCEPT ![r] = @ \ {s}]
    BY <1>2 DEF StartAsk
  <2>2. s \in Runs /\ s # r /\ r \in Reasons \ {NoReason}
    BY <1>0, <2>1, NullAssumption DEF TypeOK, RunInv, CancelInv, Reasons
  <2>3. \A t \in Runs : toAsk'[t] \subseteq toAsk[t]
    BY <1>0, <2>1 DEF TypeOK
  <2>4. UNCHANGED <<mem, pc, thread>>
    BY <1>2 DEF StartAsk
  <2>5. QED
    BY <2>1, <2>2, <2>3, <2>4, RequestCancelInv
<1>3. CASE StartRun(r)
  <2>1. \A s \in Runs \ {r} : Same(s)
    BY <1>0, <1>3 DEF StartRun, SaveStatus, Goto, api, thread, TypeOK, Same
  <2>2. /\ rows'[r] = NewRow("running") /\ mem'[r] = mem[r]
        /\ pc[r] = "listing" /\ pc'[r] = "spawned"
        /\ pos'[r] = pos[r] /\ crawled'[r] = crawled[r] /\ tally'[r] = tally[r]
        /\ asked'[r] = asked[r] /\ toAsk'[r] = toAsk[r]
    BY <1>0, <1>3 DEF StartRun, SaveStatus, Goto, api, thread, TypeOK
  <2>3. RunInv(r)'
    BY <1>0, <2>2, NullAssumption
       DEF RunInv, RowInv, MemInv, BatchInv, CancelInv, InThread, NewRow, NoCounts,
           RowAddsUp, CountSum, BatchEnd
  <2>4. QED
    BY <2>1, <2>3, OwnStep
<1>4. QED
  BY <1>1, <1>2, <1>3

LEMMA CancelRequestsInv ==
  ASSUME IInv, NEW r \in Runs, CancelRead(r) \/ CancelWrite(r)
  PROVE  \A s \in Runs : RunInv(s)'
<1>1. CASE CancelRead(r)
  <2>1. \A s \in Runs : Same(s)
    BY <1>1 DEF CancelRead, thread, Same
  <2>2. QED
    BY <2>1, Frame DEF IInv
<1>2. CASE CancelWrite(r)
  <2>1. Manual \in Reasons \ {NoReason} /\ Manual # r
    BY NullAssumption DEF Reasons
  <2>2. RequestCancel(r, Manual) /\ UNCHANGED <<mem, pc, thread, toAsk>>
    BY <1>2 DEF CancelWrite
  <2>3. QED
    BY <2>1, <2>2, RequestCancelInv
<1>3. QED
  BY <1>1, <1>2

LEMMA OuterInv ==
  ASSUME IInv, NEW r \in Runs,
         Fetch(r) \/ Select(r) \/ Fail(r) \/ Finish(r) \/ LoseThread(r)
  PROVE  \A s \in Runs : RunInv(s)'
<1> USE DEF Goto, SaveStatus, DropBatch, api, thread
<1>0. /\ TypeOK /\ RunInv(r)
      /\ mem[r] \in Row /\ rows[r] \in Row /\ cand[r] \in Seq(Jobs)
  BY DEF IInv, TypeOK
<1>1. CASE Fetch(r)
  <2>1. \A s \in Runs \ {r} : Same(s)
    BY <1>0, <1>1 DEF Fetch, TypeOK, Same
  <2>2. /\ rows'[r] = rows[r] /\ mem'[r] = rows[r]
        /\ pc[r] = "spawned" /\ pc'[r] = "select"
        /\ pos'[r] = pos[r] /\ crawled'[r] = crawled[r] /\ tally'[r] = tally[r]
        /\ asked'[r] = asked[r] /\ toAsk'[r] = toAsk[r]
    BY <1>0, <1>1 DEF Fetch, TypeOK
  <2>3. RunInv(r)'
    BY <1>0, <2>2
       DEF RunInv, RowInv, MemInv, BatchInv, CancelInv, InThread, RowAddsUp, Row
  <2>4. QED
    BY <2>1, <2>3, OwnStep
<1>2. CASE Select(r)
  <2>1. PICK list \in Selections(args[r].version, EffectiveLimit(args[r].limit)) :
          LET status == [mem[r] EXCEPT !.candidates = Len(list)] IN
          /\ cand' = [cand EXCEPT ![r] = list]
          /\ \/ /\ mem' = [mem EXCEPT ![r] = status]
                /\ rows' = [rows EXCEPT ![r] = status]
                /\ Goto(r, "between")
             \/ /\ mem' = [mem EXCEPT ![r] = [status EXCEPT !.status = "failed"]]
                /\ Goto(r, "finish")
                /\ UNCHANGED rows
    BY <1>2 DEF Select
  <2>2. list \in Seq(Jobs) /\ Len(list) \in Nat
    BY SelectionType
  <2>3. \A s \in Runs \ {r} : Same(s)
    BY <1>0, <1>2, <2>1 DEF Select, TypeOK, Same
  <2>4. /\ pc[r] = "select" /\ cand'[r] = list
        /\ pos'[r] = pos[r] /\ crawled'[r] = crawled[r] /\ tally'[r] = tally[r]
        /\ asked'[r] = asked[r] /\ toAsk'[r] = toAsk[r]
    BY <1>0, <1>2, <2>1 DEF Select, TypeOK
  <2>5. CASE /\ mem' = [mem EXCEPT ![r] = [mem[r] EXCEPT !.candidates = Len(list)]]
             /\ rows' = [rows EXCEPT ![r] = [mem[r] EXCEPT !.candidates = Len(list)]]
             /\ Goto(r, "between")
    <3>1. /\ mem'[r] = [mem[r] EXCEPT !.candidates = Len(list)]
          /\ rows'[r] = mem'[r] /\ pc'[r] = "between"
      BY <1>0, <2>5 DEF TypeOK
    <3>2. RunInv(r)'
      BY <1>0, <2>2, <2>4, <3>1, NullAssumption
         DEF RunInv, RowInv, MemInv, BatchInv, CancelInv, InThread, RowAddsUp, Row
    <3>3. QED
      BY <2>3, <3>2, OwnStep
  <2>6. CASE /\ mem' = [mem EXCEPT ![r] = [[mem[r] EXCEPT !.candidates = Len(list)]
                                            EXCEPT !.status = "failed"]]
             /\ Goto(r, "finish")
             /\ UNCHANGED rows
    <3>1. /\ mem'[r] = [mem[r] EXCEPT !.candidates = Len(list), !.status = "failed"]
          /\ rows'[r] = rows[r] /\ pc'[r] = "finish"
      BY <1>0, <2>6 DEF TypeOK, Row
    <3>2. RunInv(r)'
      BY <1>0, <2>2, <2>4, <3>1, NullAssumption
         DEF RunInv, RowInv, MemInv, BatchInv, CancelInv, InThread, RowAddsUp, Row
    <3>3. QED
      BY <2>3, <3>2, OwnStep
  <2>7. QED
    BY <2>1, <2>5, <2>6
<1>3. CASE Fail(r)
  <2>1. \A s \in Runs \ {r} : Same(s)
    BY <1>0, <1>3 DEF Fail, TypeOK, Same
  <2>2. /\ pc[r] \in {"select", "between", "crawl", "record"} /\ pc'[r] = "finish"
        /\ rows'[r] = rows[r] /\ mem'[r] = [mem[r] EXCEPT !.status = "failed"]
        /\ asked'[r] = asked[r] /\ toAsk'[r] = toAsk[r]
    BY <1>0, <1>3 DEF Fail, TypeOK
  <2>3. RunInv(r)'
    BY <1>0, <2>2
       DEF RunInv, RowInv, MemInv, BatchInv, CancelInv, InThread, RowAddsUp, Row
  <2>4. QED
    BY <2>1, <2>3, OwnStep
<1>4. CASE Finish(r)
  <2>1. \A s \in Runs \ {r} : Same(s)
    BY <1>0, <1>4 DEF Finish, TypeOK, Same
  <2>2. /\ pc[r] = "finish" /\ pc'[r] = "done"
        /\ rows'[r] = mem[r] /\ mem'[r] = mem[r]
        /\ asked'[r] = asked[r] /\ toAsk'[r] = toAsk[r]
    BY <1>0, <1>4 DEF Finish, TypeOK
  <2>3. RunInv(r)'
    BY <1>0, <2>2
       DEF RunInv, RowInv, MemInv, BatchInv, CancelInv, InThread, RowAddsUp
  <2>4. QED
    BY <2>1, <2>3, OwnStep
<1>5. CASE LoseThread(r)
  <2>1. \A s \in Runs \ {r} : Same(s)
    BY <1>0, <1>5 DEF LoseThread, TypeOK, Same
  <2>2. /\ pc'[r] = "dead" /\ rows'[r] = rows[r] /\ mem'[r] = NewRow("absent")
        /\ asked'[r] = asked[r] /\ toAsk'[r] = toAsk[r]
    BY <1>0, <1>5 DEF LoseThread, TypeOK
  <2>3. RunInv(r)'
    BY <1>0, <2>2, NullAssumption
       DEF RunInv, RowInv, MemInv, BatchInv, CancelInv, InThread, NewRow
  <2>4. QED
    BY <2>1, <2>3, OwnStep
<1>6. QED
  BY <1>1, <1>2, <1>3, <1>4, <1>5

LEMMA LoopInv ==
  ASSUME IInv, NEW r \in Runs, NoticeCancel(r) \/ NextBatch(r) \/ Complete(r)
  PROVE  \A s \in Runs : RunInv(s)'
<1> USE DEF Goto, api, thread
<1>0. /\ TypeOK /\ RunInv(r)
      /\ mem[r] \in Row /\ rows[r] \in Row /\ cand[r] \in Seq(Jobs)
  BY DEF IInv, TypeOK
<1>1. CASE NoticeCancel(r)
  <2>1. \A s \in Runs \ {r} : Same(s)
    BY <1>0, <1>1 DEF NoticeCancel, TypeOK, Same
  <2>2. /\ pc[r] = "between" /\ pc'[r] = "finish" /\ rows[r].cancel # NoReason
        /\ rows'[r] = rows[r]
        /\ mem'[r] = [mem[r] EXCEPT !.status = "cancelled", !.cancel = rows[r].cancel]
        /\ asked'[r] = asked[r] /\ toAsk'[r] = toAsk[r]
    BY <1>0, <1>1 DEF NoticeCancel, TypeOK, Row
  <2>3. RunInv(r)'
    BY <1>0, <2>2
       DEF RunInv, RowInv, MemInv, BatchInv, CancelInv, InThread, RowAddsUp, Row
  <2>4. QED
    BY <2>1, <2>3, OwnStep
<1>2. CASE NextBatch(r)
  <2>1. \A s \in Runs \ {r} : Same(s)
    BY <1>0, <1>2 DEF NextBatch, TypeOK, Same
  <2>2. /\ pc[r] = "between" /\ pc'[r] = "crawl" /\ mem[r].processed < Len(cand[r])
        /\ rows'[r] = rows[r] /\ mem'[r] = mem[r] /\ cand'[r] = cand[r]
        /\ pos'[r] = pos[r] /\ crawled'[r] = crawled[r] /\ tally'[r] = tally[r]
        /\ asked'[r] = asked[r] /\ toAsk'[r] = toAsk[r]
    BY <1>0, <1>2 DEF NextBatch, TypeOK
  <2>3. mem[r].processed <= BatchEnd(r)' /\ CountSum(NoCounts) = 0
    BY <1>0, <2>2, BatchSizeAssumption DEF BatchEnd, Row, CountSum, NoCounts
  <2>4. RunInv(r)'
    BY <1>0, <2>2, <2>3
       DEF RunInv, RowInv, MemInv, BatchInv, CancelInv, InThread, RowAddsUp, Row
  <2>5. QED
    BY <2>1, <2>4, OwnStep
<1>3. CASE Complete(r)
  <2>1. \A s \in Runs \ {r} : Same(s)
    BY <1>0, <1>3 DEF Complete, TypeOK, Same
  <2>2. /\ pc[r] = "between" /\ pc'[r] = "finish" /\ mem[r].processed = Len(cand[r])
        /\ rows'[r] = rows[r] /\ mem'[r] = [mem[r] EXCEPT !.status = "completed"]
        /\ asked'[r] = asked[r] /\ toAsk'[r] = toAsk[r]
    BY <1>0, <1>3 DEF Complete, TypeOK
  <2>3. RunInv(r)'
    BY <1>0, <2>2
       DEF RunInv, RowInv, MemInv, BatchInv, CancelInv, InThread, RowAddsUp, Row
  <2>4. QED
    BY <2>1, <2>3, OwnStep
<1>4. QED
  BY <1>1, <1>2, <1>3

\* Adding an outcome to a tally adds the sums.
LEMMA SumAdds ==
  ASSUME NEW a \in Counters, NEW b \in Counters
  PROVE  /\ Sum(a, b) \in Counters
         /\ CountSum(Sum(a, b)) = CountSum(a) + CountSum(b)
  BY DEF Sum, CountSum, Counters

LEMMA SumIsNat == ASSUME NEW a \in Counters PROVE CountSum(a) \in Nat
  BY DEF CountSum, Counters

LEMMA OneOutcome ==
  /\ Rescored \in Counters /\ CountSum(Rescored) = 1
  /\ NotFound \in Counters /\ CountSum(NotFound) = 1
  /\ CrawlError \in Counters /\ CountSum(CrawlError) = 1
  /\ Errored \in Counters /\ CountSum(Errored) = 1
<1>1. Rescored \in Counters /\ CountSum(Rescored) = 1
  BY DEF Rescored, NoCounts, CountSum, Counters
<1>2. NotFound \in Counters /\ CountSum(NotFound) = 1
  BY DEF NotFound, NoCounts, CountSum, Counters
<1>3. CrawlError \in Counters /\ CountSum(CrawlError) = 1
  BY DEF CrawlError, NoCounts, CountSum, Counters
<1>4. Errored \in Counters /\ CountSum(Errored) = 1
  BY DEF Errored, NoCounts, CountSum, Counters
<1>5. QED
  BY <1>1, <1>2, <1>3, <1>4

\* What a step inside a batch has to keep: nothing moves but the cursor, the list of
\* crawled jobs and the tally, and those stay within the batch.
LEMMA InsideBatch ==
  ASSUME IInv, NEW r \in Runs,
         pc[r] \in {"crawl", "record"}, pc'[r] \in {"crawl", "record"},
         \A s \in Runs \ {r} : Same(s),
         rows'[r] = rows[r], mem'[r] = mem[r], cand'[r] = cand[r],
         asked'[r] = asked[r], toAsk'[r] = toAsk[r],
         mem[r].processed <= pos'[r], pos'[r] <= BatchEnd(r),
         CountSum(tally'[r]) + Len(crawled'[r]) <= pos'[r] - mem[r].processed
  PROVE  \A s \in Runs : RunInv(s)'
<1>1. RunInv(r) /\ BatchEnd(r)' = BatchEnd(r)
  BY DEF IInv, BatchEnd
<1>2. RunInv(r)'
  BY <1>1 DEF RunInv, RowInv, MemInv, BatchInv, CancelInv, InThread
<1>3. QED
  BY <1>2, OwnStep

LEMMA BatchStepsInv ==
  ASSUME IInv, NEW r \in Runs,
         \/ CrawlOk(r) \/ CrawlNotFound(r) \/ CrawlFailed(r) \/ Score(r)
         \/ RecordScored(r) \/ RecordMissing(r)
  PROVE  \A s \in Runs : RunInv(s)'
<1> USE DEF api, thread
<1>0. /\ TypeOK /\ RunInv(r) /\ pc[r] \in {"crawl", "record"}
      /\ mem[r].processed \in Nat /\ pos[r] \in Nat /\ BatchEnd(r) \in Nat
      /\ crawled[r] \in Seq(Jobs) /\ tally[r] \in Counters
      /\ mem[r].processed <= pos[r] /\ pos[r] <= BatchEnd(r)
      /\ CountSum(tally[r]) + Len(crawled[r]) <= pos[r] - mem[r].processed
  <2>1. TypeOK /\ RunInv(r)
    BY DEF IInv
  <2>2. pc[r] \in {"crawl", "record"}
    BY DEF CrawlOk, CrawlNotFound, CrawlFailed, CrawlStep, Score,
           RecordScored, RecordMissing, RecordStep
  <2>3. BatchEnd(r) \in Nat
    BY <2>1, BatchEndType
  <2>4. QED
    BY <2>1, <2>2, <2>3 DEF TypeOK, Row, RunInv, BatchInv
<1>1. ASSUME CrawlStep(r),
             \/ /\ UNCHANGED tally
                /\ crawled' = [crawled EXCEPT ![r] = Append(@, cand[r][pos[r] + 1])]
             \/ UNCHANGED crawled /\ \E c \in {NotFound, CrawlError} : Count(r, c)
      PROVE  \A s \in Runs : RunInv(s)'
  <2>1. /\ rows' = rows /\ mem' = mem /\ pc' = pc /\ cand' = cand
        /\ pos'[r] = pos[r] + 1 /\ pos[r] < BatchEnd(r)
    BY <1>0, <1>1 DEF CrawlStep, TypeOK
  <2>2. \A s \in Runs \ {r} : Same(s)
    BY <1>0, <1>1, <2>1 DEF CrawlStep, TypeOK, Same, Count
  <2>3. CountSum(tally[r]) \in Nat /\ Len(crawled[r]) \in Nat
    BY <1>0, SumIsNat
  <2>4. CountSum(tally'[r]) + Len(crawled'[r]) = CountSum(tally[r]) + Len(crawled[r]) + 1
    <3>1. CASE UNCHANGED tally /\ crawled' = [crawled EXCEPT ![r] = Append(@, cand[r][pos[r] + 1])]
      <4>1. tally'[r] = tally[r]
        BY <3>1
      <4>2. crawled'[r] = Append(crawled[r], cand[r][pos[r] + 1])
        BY <1>0, <3>1 DEF TypeOK
      <4>3. cand[r][pos[r] + 1] \in Jobs
        BY <1>0, <2>1, CandidateType
      <4>4. Len(crawled'[r]) = Len(crawled[r]) + 1
        BY <1>0, <4>2, <4>3
      <4>5. QED
        BY <2>3, <4>1, <4>4
    <3>2. CASE UNCHANGED crawled /\ \E c \in {NotFound, CrawlError} : Count(r, c)
      <4>1. PICK c \in Counters : Count(r, c) /\ CountSum(c) = 1
        BY <3>2, OneOutcome
      <4>2. tally'[r] = Sum(tally[r], c)
        BY <1>0, <4>1 DEF Count, TypeOK
      <4>3. CountSum(tally'[r]) = CountSum(tally[r]) + 1
        BY <1>0, <4>1, <4>2, SumAdds
      <4>4. crawled'[r] = crawled[r]
        BY <3>2
      <4>5. QED
        BY <2>3, <4>3, <4>4
    <3>3. QED
      BY <1>1, <3>1, <3>2
  <2>5. /\ mem[r].processed <= pos'[r] /\ pos'[r] <= BatchEnd(r)
        /\ CountSum(tally'[r]) + Len(crawled'[r]) <= pos'[r] - mem[r].processed
    BY <1>0, <2>1, <2>3, <2>4
  <2>6. asked' = asked /\ toAsk' = toAsk
    BY <1>1 DEF CrawlStep
  <2>7. QED
    BY <1>0, <2>1, <2>2, <2>5, <2>6, InsideBatch
<1>2. CASE CrawlOk(r)
  BY <1>1, <1>2 DEF CrawlOk, CrawlStep
<1>3. CASE CrawlNotFound(r)
  BY <1>1, <1>3 DEF CrawlNotFound, CrawlStep
<1>4. CASE CrawlFailed(r)
  BY <1>1, <1>4 DEF CrawlFailed, CrawlStep
<1>5. CASE Score(r)
  <2>1. /\ \A s \in Runs \ {r} : Same(s)
        /\ rows' = rows /\ mem' = mem /\ cand' = cand /\ pos' = pos
        /\ crawled' = crawled /\ tally' = tally /\ asked' = asked /\ toAsk' = toAsk
        /\ pc'[r] = "record"
    BY <1>0, <1>5 DEF Score, Goto, TypeOK, Same
  <2>2. QED
    BY <1>0, <2>1, InsideBatch
<1>6. ASSUME RecordStep(r),
             UNCHANGED tally \/ \E c \in {Rescored, Errored} : Count(r, c)
      PROVE  \A s \in Runs : RunInv(s)'
  <2>1. /\ rows' = rows /\ mem' = mem /\ pc' = pc /\ cand' = cand /\ pos' = pos
        /\ crawled'[r] = Tail(crawled[r]) /\ crawled[r] # <<>>
    BY <1>0, <1>6 DEF RecordStep, TypeOK
  <2>2. \A s \in Runs \ {r} : Same(s)
    BY <1>0, <1>6, <2>1 DEF RecordStep, TypeOK, Same, Count
  <2>3. Len(crawled'[r]) = Len(crawled[r]) - 1 /\ Len(crawled[r]) \in Nat
    BY <1>0, <2>1
  <2>4. /\ CountSum(tally'[r]) <= CountSum(tally[r]) + 1
        /\ CountSum(tally[r]) \in Nat /\ CountSum(tally'[r]) \in Nat
    <3>1. CASE UNCHANGED tally
      <4>1. tally'[r] = tally[r]
        BY <3>1
      <4>2. QED
        BY <1>0, <4>1, SumIsNat
    <3>2. CASE \E c \in {Rescored, Errored} : Count(r, c)
      <4>1. PICK c \in Counters : Count(r, c) /\ CountSum(c) = 1
        BY <3>2, OneOutcome
      <4>2. tally'[r] = Sum(tally[r], c)
        BY <1>0, <4>1 DEF Count, TypeOK
      <4>3. CountSum(tally'[r]) = CountSum(tally[r]) + 1 /\ CountSum(tally[r]) \in Nat
        BY <1>0, <4>1, <4>2, SumAdds, SumIsNat
      <4>4. QED
        BY <4>3
    <3>3. QED
      BY <1>6, <3>1, <3>2
  <2>5. CountSum(tally'[r]) + Len(crawled'[r]) <= pos'[r] - mem[r].processed
    BY <1>0, <2>1, <2>3, <2>4
  <2>6. asked' = asked /\ toAsk' = toAsk
    BY <1>6 DEF RecordStep
  <2>7. QED
    BY <1>0, <2>1, <2>2, <2>5, <2>6, InsideBatch
<1>7. CASE RecordScored(r)
  BY <1>6, <1>7 DEF RecordScored, RecordStep
<1>8. CASE RecordMissing(r)
  BY <1>6, <1>8 DEF RecordMissing, RecordStep
<1>9. QED
  BY <1>2, <1>3, <1>4, <1>5, <1>7, <1>8

\* The outcome of a batch is added to a copy that adds up, and it still adds up.
LEMMA TalliedAddsUp ==
  ASSUME IInv, NEW r \in Runs, pc[r] \in {"crawl", "record"},
         pos[r] = BatchEnd(r), crawled[r] = <<>>
  PROVE  /\ RowAddsUp(Tallied(r))
         /\ Tallied(r).processed = BatchEnd(r)
         /\ mem[r].processed <= BatchEnd(r)
         /\ Tallied(r).status = mem[r].status /\ Tallied(r).cancel = mem[r].cancel
         /\ Tallied(r).candidates = mem[r].candidates
<1>1. /\ mem[r] \in Row /\ tally[r] \in Counters /\ mem[r].counts \in Counters
      /\ mem[r].processed \in Nat /\ BatchEnd(r) \in Nat /\ Len(cand[r]) \in Nat
  BY BatchEndType DEF IInv, TypeOK, Row
<1>2. /\ Tallied(r).processed = BatchEnd(r)
      /\ Tallied(r).status = mem[r].status /\ Tallied(r).cancel = mem[r].cancel
      /\ Tallied(r).candidates = mem[r].candidates
      /\ Tallied(r).counts = Sum(mem[r].counts, tally[r])
  BY <1>1 DEF Tallied, Row
<1>3. /\ RowAddsUp(mem[r]) /\ mem[r].status = "running"
      /\ mem[r].candidates = Len(cand[r])
      /\ mem[r].processed <= BatchEnd(r)
      /\ CountSum(tally[r]) + Len(crawled[r]) <= BatchEnd(r) - mem[r].processed
  BY DEF IInv, RunInv, MemInv, BatchInv, InThread
<1>4. CountSum(mem[r].counts) <= mem[r].processed
  BY <1>3 DEF RowAddsUp
<1>5. /\ CountSum(Sum(mem[r].counts, tally[r])) = CountSum(mem[r].counts) + CountSum(tally[r])
      /\ CountSum(mem[r].counts) \in Nat /\ CountSum(tally[r]) \in Nat
  BY <1>1, SumAdds, SumIsNat
<1>6. CountSum(tally[r]) <= BatchEnd(r) - mem[r].processed
  <2>1. Len(crawled[r]) = 0
    OBVIOUS
  <2>2. QED
    BY <1>1, <1>3, <1>5, <2>1
<1>7. CountSum(Tallied(r).counts) <= Tallied(r).processed
  BY <1>1, <1>2, <1>4, <1>5, <1>6
<1>8. BatchEnd(r) <= Len(cand[r])
  BY <1>1, BatchSizeAssumption DEF BatchEnd
<1>9. QED
  BY <1>1, <1>2, <1>3, <1>7, <1>8, NullAssumption DEF RowAddsUp

LEMMA BatchDoneInv ==
  ASSUME IInv, NEW r \in Runs, BatchDone(r)
  PROVE  \A s \in Runs : RunInv(s)'
<1>0. /\ TypeOK /\ RunInv(r) /\ pc[r] \in {"crawl", "record"}
      /\ pos[r] = BatchEnd(r) /\ crawled[r] = <<>>
      /\ mem[r] \in Row /\ rows[r] \in Row /\ Tallied(r) \in Row
  BY TalliedType DEF IInv, TypeOK, BatchDone
<1>1. /\ RowAddsUp(Tallied(r))
      /\ Tallied(r).processed = BatchEnd(r) /\ mem[r].processed <= BatchEnd(r)
      /\ Tallied(r).status = mem[r].status /\ Tallied(r).cancel = mem[r].cancel
      /\ Tallied(r).candidates = mem[r].candidates
  BY <1>0, TalliedAddsUp
<1>2. /\ crawled'[r] = <<>> /\ tally'[r] = NoCounts
      /\ cand'[r] = cand[r] /\ pos'[r] = pos[r]
      /\ asked'[r] = asked[r] /\ toAsk'[r] = toAsk[r]
  BY <1>0 DEF BatchDone, DropBatch, api, TypeOK
<1>3. /\ mem[r].processed \in Nat /\ BatchEnd(r) \in Nat /\ rows[r].processed \in Nat
      /\ rows[r].processed <= mem[r].processed
  BY <1>0, BatchEndType DEF Row, RunInv, MemInv, InThread
<1>4. CASE /\ mem' = [mem EXCEPT ![r] = Tallied(r)]
           /\ SaveStatus(r, Tallied(r))
           /\ Goto(r, "between")
  <2>1. /\ mem'[r] = Tallied(r) /\ rows'[r] = Tallied(r) /\ pc'[r] = "between"
    BY <1>0, <1>4 DEF SaveStatus, Goto, TypeOK
  <2>2. \A s \in Runs \ {r} : Same(s)
    BY <1>0, <1>4 DEF BatchDone, SaveStatus, Goto, DropBatch, api, TypeOK, Same
  <2>3. RunInv(r)'
    BY <1>0, <1>1, <1>2, <1>3, <2>1
       DEF RunInv, RowInv, MemInv, BatchInv, CancelInv, InThread
  <2>4. QED
    BY <2>2, <2>3, OwnStep
<1>5. CASE /\ mem' = [mem EXCEPT ![r] = [Tallied(r) EXCEPT !.status = "failed"]]
           /\ Goto(r, "finish")
           /\ UNCHANGED rows
  <2>1. /\ mem'[r] = [Tallied(r) EXCEPT !.status = "failed"]
        /\ rows'[r] = rows[r] /\ pc'[r] = "finish"
    BY <1>0, <1>5 DEF Goto, TypeOK
  <2>2. /\ mem'[r].status = "failed" /\ mem'[r].cancel = mem[r].cancel
        /\ mem'[r].processed = BatchEnd(r)
        /\ RowAddsUp(mem'[r])
    BY <1>0, <1>1, <2>1 DEF Row, RowAddsUp
  <2>3. \A s \in Runs \ {r} : Same(s)
    BY <1>0, <1>5 DEF BatchDone, Goto, DropBatch, api, TypeOK, Same
  <2>4. RunInv(r)'
    BY <1>0, <1>2, <1>3, <2>1, <2>2
       DEF RunInv, RowInv, MemInv, BatchInv, CancelInv, InThread
  <2>5. QED
    BY <2>3, <2>4, OwnStep
<1>6. QED
  BY <1>4, <1>5 DEF BatchDone

LEMMA EnvironmentInv ==
  ASSUME IInv, OtherWriters \/ Crash
  PROVE  \A s \in Runs : RunInv(s)'
<1> USE DEF thread, api
<1>1. CASE OtherWriters
  <2>1. \A s \in Runs : Same(s)
    BY <1>1 DEF OtherWriters, LiveResult, Purge, Same
  <2>2. QED
    BY <2>1, Frame DEF IInv
<1>2. ASSUME Crash, NEW s \in Runs
      PROVE  RunInv(s)'
  <2>0. TypeOK /\ RunInv(s) /\ rows[s] \in Row
    BY DEF IInv, TypeOK
  <2>1. rows'[s] = rows[s] /\ asked'[s] = asked[s]
    BY <1>2 DEF Crash
  <2>2. CASE pc[s] \in InHandler \cup InThread
    <3>1. pc'[s] = "dead" /\ mem'[s] = NewRow("absent") /\ toAsk'[s] = {}
      BY <1>2, <2>2 DEF Crash
    <3>2. QED
      BY <2>0, <2>1, <3>1, NullAssumption
         DEF RunInv, RowInv, MemInv, BatchInv, CancelInv, InThread, NewRow
  <2>3. CASE pc[s] \notin InHandler \cup InThread
    <3>1. /\ pc'[s] = pc[s] /\ mem'[s] = mem[s] /\ toAsk'[s] = toAsk[s]
          /\ cand'[s] = cand[s] /\ pos'[s] = pos[s]
          /\ crawled'[s] = crawled[s] /\ tally'[s] = tally[s]
      BY <1>2, <2>3 DEF Crash
    <3>2. QED
      BY <2>0, <2>1, <3>1, Frame DEF Same
  <2>4. QED
    BY <2>2, <2>3
<1>3. QED
  BY <1>1, <1>2

\* Row, copy and batch of every run stay related as IInv says, at every step of every
\* handler, thread and crash.
THEOREM Inductive == Spec => []IInv
<1>1. Init => IInv
  <2> SUFFICES ASSUME Init PROVE IInv
    OBVIOUS
  <2>1. TypeOK
    BY NewRowType, VersionAssumption
       DEF Init, InitRuns, TypeOK, Control, NoCounts, Counters, MT!TableTypeOK
  <2>2. ASSUME NEW r \in Runs PROVE RunInv(r)
    BY NullAssumption
       DEF Init, InitRuns, RunInv, RowInv, MemInv, BatchInv, CancelInv, InThread,
           NewRow, NoCounts, RowAddsUp, CountSum
  <2>3. QED
    BY <2>1, <2>2 DEF IInv
<1>2. TypeOK /\ TypeOK' /\ IInv /\ [Next]_vars => IInv'
  <2> SUFFICES ASSUME TypeOK', IInv, [Next]_vars PROVE \A s \in Runs : RunInv(s)'
    BY DEF IInv
  <2>1. ASSUME NEW r \in Runs, StartList(r) \/ CancelRead(r) \/ Handler(r)
        PROVE  \A s \in Runs : RunInv(s)'
    BY <2>1, StartInv, CancelRequestsInv DEF Handler
  <2>2. ASSUME NEW r \in Runs, ThreadStep(r)
        PROVE  \A s \in Runs : RunInv(s)'
    BY <2>2, OuterInv, LoopInv, BatchStepsInv, BatchDoneInv DEF ThreadStep
  <2>3. CASE OtherWriters \/ Crash
    BY <2>3, EnvironmentInv
  <2>4. CASE UNCHANGED vars
    <3>1. \A s \in Runs : Same(s)
      BY <2>4 DEF vars, Same
    <3>2. QED
      BY <3>1, Frame DEF IInv
  <2>5. QED
    BY <2>1, <2>2, <2>3, <2>4 DEF Next
<1>3. QED
  BY <1>1, <1>2, TypeCorrect, PTL DEF Spec

\* The counters that GET /backfill/runs shows always add up, for any batch size.
THEOREM CountersAddUp == Spec => []CountersBounded
<1>1. IInv => CountersBounded
  BY DEF IInv, RunInv, RowInv, CountersBounded
<1>2. QED
  BY <1>1, Inductive, PTL

\* A run ends cancelled only because it was asked to, and says why.
THEOREM CancelledWithCause == Spec => []CancelledOnRequest
<1>1. IInv => CancelledOnRequest
  BY DEF IInv, RunInv, CancelInv, CancelledOnRequest
<1>2. QED
  BY <1>1, Inductive, PTL

\* What a finished thread last wrote is what the table keeps, cancel_reason aside.
THEOREM LastWordKept == Spec => []RowIsFinalCopy
<1>1. IInv => RowIsFinalCopy
  BY DEF IInv, RunInv, RowInv, RowIsFinalCopy
<1>2. QED
  BY <1>1, Inductive, PTL

-----------------------------------------------------------------------------
(* Refinement of MatchTable. *)

\* An insert that went through is a step of the table, a refused one a stutter.
LEMMA RecordRefines ==
  ASSUME NEW j \in Jobs, NEW v \in Versions, NEW x \in MT!Result \ {"none"},
         RecordJobResult(j, v, x)
  PROVE  [MT!TableNext]_matches
<1>1. CASE Accepted(j, v)
  <2>1. MT!Insert(<<j, v>>, x)
    BY <1>1 DEF RecordJobResult, Accepted, Fresh, MT!Insert
  <2>2. QED
    BY <2>1 DEF MT!TableNext
<1>2. CASE ~Accepted(j, v)
  BY <1>2 DEF RecordJobResult
<1>3. QED
  BY <1>1, <1>2

LEMMA ScoredRefines ==
  ASSUME NEW j \in Jobs, NEW v \in Versions, \E x \in MT!Scored : RecordJobResult(j, v, x)
  PROVE  [MT!TableNext]_matches
<1>1. PICK x \in MT!Scored : RecordJobResult(j, v, x)
  OBVIOUS
<1>2. x \in MT!Result \ {"none"}
  OBVIOUS
<1>3. QED
  BY <1>1, <1>2, RecordRefines

\* Whatever steps, the table of results makes a step of its own or none.
LEMMA TableSteps == TypeOK /\ [Next]_vars => [MT!TableNext]_matches
<1> SUFFICES ASSUME TypeOK, [Next]_vars PROVE [MT!TableNext]_matches
  OBVIOUS
<1> USE DEF table
<1>1. ASSUME NEW r \in Runs, StartList(r) \/ CancelRead(r) \/ Handler(r)
      PROVE  UNCHANGED matches
  BY <1>1 DEF StartList, CancelRead, Handler, StartAsk, StartRun, CancelWrite
<1>2. ASSUME NEW r \in Runs, ThreadStep(r)
      PROVE  [MT!TableNext]_matches
  <2>0. args[r].version \in Versions /\ crawled[r] \in Seq(Jobs)
    BY DEF TypeOK
  <2>1. CASE CrawlNotFound(r)
    <3>1. cand[r][pos[r] + 1] \in Jobs
      BY <2>1, CandidateType DEF CrawlNotFound, CrawlStep
    <3>2. QED
      BY <2>0, <2>1, <3>1, RecordRefines DEF CrawlNotFound
  <2>2. CASE RecordScored(r)
    <3>1. Head(crawled[r]) \in Jobs
      BY <2>0, <2>2 DEF RecordScored, RecordStep
    <3>2. QED
      BY <2>0, <2>2, <3>1, ScoredRefines DEF RecordScored
  <2>3. CASE \/ Fetch(r) \/ Select(r) \/ Fail(r) \/ Finish(r) \/ LoseThread(r)
             \/ NoticeCancel(r) \/ NextBatch(r) \/ Complete(r)
    BY <2>3 DEF Fetch, Select, Fail, Finish, LoseThread, NoticeCancel, NextBatch, Complete
  <2>4. CASE CrawlOk(r) \/ CrawlFailed(r) \/ Score(r) \/ RecordMissing(r) \/ BatchDone(r)
    BY <2>4 DEF CrawlOk, CrawlFailed, Score, RecordMissing, BatchDone
  <2>5. QED
    BY <1>2, <2>1, <2>2, <2>3, <2>4 DEF ThreadStep
<1>3. ASSUME NEW j \in Jobs, LiveResult(j)
      PROVE  [MT!TableNext]_matches
  BY <1>3, ScoredRefines, VersionAssumption DEF LiveResult
<1>4. CASE \E stale \in SUBSET (Purgeable \ purged) : Purge(stale)
  BY <1>4 DEF Purge
<1>5. CASE Crash
  BY <1>5 DEF Crash
<1>6. CASE UNCHANGED vars
  BY <1>6 DEF vars
<1>7. QED
  BY <1>1, <1>2, <1>3, <1>4, <1>5, <1>6 DEF Next, OtherWriters

\* A purged listing never comes back.
LEMMA PurgedStay == TypeOK /\ [Next]_vars => purged \subseteq purged'
<1> SUFFICES ASSUME [Next]_vars PROVE purged \subseteq purged'
  OBVIOUS
<1> USE DEF table
<1>1. ASSUME NEW r \in Runs, StartList(r) \/ CancelRead(r) \/ Handler(r)
      PROVE  UNCHANGED purged
  BY <1>1 DEF StartList, CancelRead, Handler, StartAsk, StartRun, CancelWrite
<1>2. ASSUME NEW r \in Runs, ThreadStep(r)
      PROVE  UNCHANGED purged
  BY <1>2 DEF ThreadStep, Fetch, Select, Fail, Finish, LoseThread, NoticeCancel, NextBatch,
     Complete, CrawlOk, CrawlNotFound, CrawlFailed, CrawlStep, Score, RecordScored,
     RecordMissing, RecordStep, BatchDone
<1>3. CASE OtherWriters \/ Crash \/ UNCHANGED vars
  BY <1>3 DEF OtherWriters, LiveResult, Purge, Crash, vars
<1>4. QED
  BY <1>1, <1>2, <1>3 DEF Next

\* The first result of a job under a version is never replaced, by a live result, by a
\* second run over the same candidates or by a crash in between.
THEOREM MatchTableRefined == Spec => ImplementsMatchTable
<1>1. Init => MT!TableTypeOK
  BY DEF Init, InitRuns, MT!TableTypeOK
<1>2. QED
  BY <1>1, TableSteps, TypeCorrect, PTL DEF Spec, ImplementsMatchTable, MT!TableSpec

-----------------------------------------------------------------------------
(* Refinement of RunLog. *)

statusOf == [r \in Runs |-> rows[r].status]
processedOf == [r \in Runs |-> rows[r].processed]

\* A step that leaves the status and the progress of every row alone is a stutter.
LEMMA RowsStutter ==
  ASSUME \A s \in Runs : rows'[s].status = rows[s].status /\ rows'[s].processed = rows[s].processed
  PROVE  UNCHANGED Log!logVars
  BY DEF Log!logVars

\* A save of one row is a step of the log when the row goes on, or starts, or stops.
LEMMA SaveRefines ==
  ASSUME IInv, NEW r \in Runs, NEW new \in Row, rows' = [rows EXCEPT ![r] = new],
         \/ rows[r].status = "absent" /\ new.status = "running" /\ new.processed = rows[r].processed
         \/ rows[r].status = "running" /\ new.status = "running" /\ new.processed >= rows[r].processed
         \/ rows[r].status = "running" /\ new.status \in Log!Ended /\ new.processed >= rows[r].processed
  PROVE  Log!LogNext
<1>1. rows \in [Runs -> Row] /\ rows' \in [Runs -> Row] /\ rows'[r] = new
  BY DEF IInv, TypeOK
<1>2. /\ statusOf' = [statusOf EXCEPT ![r] = new.status]
      /\ processedOf' = [processedOf EXCEPT ![r] = new.processed]
  BY <1>1 DEF statusOf, processedOf
<1>3. /\ statusOf[r] = rows[r].status /\ processedOf[r] = rows[r].processed
      /\ processedOf'[r] = new.processed
  BY <1>1 DEF statusOf, processedOf
<1>4. CASE rows[r].status = "absent" /\ new.status = "running" /\ new.processed = rows[r].processed
  <2>1. processedOf' = processedOf
    BY <1>2, <1>3, <1>4 DEF processedOf
  <2>2. Log!Trigger(r)
    BY <1>2, <1>3, <1>4, <2>1 DEF Log!Trigger, statusOf, processedOf
  <2>3. QED
    BY <2>2 DEF Log!LogNext
<1>5. CASE rows[r].status = "running" /\ new.status = "running" /\ new.processed >= rows[r].processed
  <2>1. statusOf' = statusOf
    BY <1>2, <1>3, <1>5 DEF statusOf
  <2>2. Log!Progress(r)
    BY <1>2, <1>3, <1>5, <2>1 DEF Log!Progress, Log!Advance, statusOf, processedOf
  <2>3. QED
    BY <2>2 DEF Log!LogNext
<1>6. CASE rows[r].status = "running" /\ new.status \in Log!Ended /\ new.processed >= rows[r].processed
  <2>1. Log!Stop(r)
    BY <1>2, <1>3, <1>6 DEF Log!Stop, Log!Advance, statusOf, processedOf
  <2>2. QED
    BY <2>1 DEF Log!LogNext
<1>7. QED
  BY <1>4, <1>5, <1>6

\* A cancel request changes neither status nor progress.
LEMMA RequestStutters ==
  ASSUME IInv, NEW s \in Runs, NEW x, RequestCancel(s, x)
  PROVE  UNCHANGED Log!logVars
<1>1. \A t \in Runs : rows'[t].status = rows[t].status /\ rows'[t].processed = rows[t].processed
  BY DEF IInv, TypeOK, RequestCancel, Row
<1>2. QED
  BY <1>1, RowsStutter

\* A run id has one life, absent -> running -> one end: no save of a thread's old copy
\* brings back a row that has ended, and its progress never goes back.
THEOREM RunLogRefined == Spec => ImplementsRunLog
<1>1. Init => Log!LogInit
  BY DEF Init, InitRuns, Log!LogInit, NewRow
<1>2. IInv /\ IInv' /\ [Next]_vars => [Log!LogNext]_(Log!logVars)
  <2> SUFFICES ASSUME IInv, IInv', [Next]_vars PROVE [Log!LogNext]_(Log!logVars)
    OBVIOUS
  <2>0. /\ rows \in [Runs -> Row] /\ mem \in [Runs -> Row]
        /\ \A r \in Runs : toAsk[r] \subseteq Runs
        /\ \A r \in Runs : RunInv(r) /\ Tallied(r) \in Row
    BY TalliedType DEF IInv, TypeOK
  <2>1. CASE UNCHANGED rows
    BY <2>1, RowsStutter
  <2>2. ASSUME NEW r \in Runs, StartAsk(r) PROVE UNCHANGED Log!logVars
    <3>1. PICK s \in toAsk[r] : RequestCancel(s, r)
      BY <2>2 DEF StartAsk
    <3>2. QED
      BY <2>0, <3>1, RequestStutters
  <2>3. ASSUME NEW r \in Runs, CancelWrite(r) PROVE UNCHANGED Log!logVars
    BY <2>3, RequestStutters DEF CancelWrite
  <2>4. ASSUME NEW r \in Runs, StartRun(r) PROVE Log!LogNext
    <3>1. NewRow("running") \in Row /\ rows' = [rows EXCEPT ![r] = NewRow("running")]
      BY <2>4, NewRowType DEF StartRun, SaveStatus
    <3>2. rows[r].status = "absent" /\ rows[r].processed = 0
      BY <2>0, <2>4 DEF StartRun, RunInv, RowInv
    <3>3. QED
      BY <3>1, <3>2, SaveRefines DEF NewRow
  <2>5. ASSUME NEW r \in Runs, Select(r), rows' # rows PROVE Log!LogNext
    <3>1. PICK list \in Selections(args[r].version, EffectiveLimit(args[r].limit)) :
            rows' = [rows EXCEPT ![r] = [mem[r] EXCEPT !.candidates = Len(list)]]
      BY <2>5 DEF Select, SaveStatus
    <3>2. list \in Seq(Jobs) /\ Len(list) \in Nat
      BY SelectionType
    <3>3. /\ mem[r].status = "running" /\ rows[r].status = "running"
          /\ mem[r].processed >= rows[r].processed
      BY <2>0, <2>5 DEF Select, RunInv, RowInv, MemInv, InThread, Row
    <3>4. [mem[r] EXCEPT !.candidates = Len(list)] \in Row
      BY <2>0, <3>2 DEF Row
    <3>5. /\ [mem[r] EXCEPT !.candidates = Len(list)].status = mem[r].status
          /\ [mem[r] EXCEPT !.candidates = Len(list)].processed = mem[r].processed
      BY <2>0 DEF Row
    <3>6. QED
      BY <3>1, <3>3, <3>4, <3>5, SaveRefines
  <2>6. ASSUME NEW r \in Runs, Finish(r) PROVE Log!LogNext
    <3>1. /\ mem[r].status \in Log!Ended /\ rows[r].status = "running"
          /\ mem[r].processed >= rows[r].processed
      BY <2>0, <2>6 DEF Finish, RunInv, RowInv, MemInv, InThread, Row
    <3>2. mem[r] \in Row /\ rows' = [rows EXCEPT ![r] = mem[r]]
      BY <2>0, <2>6 DEF Finish, SaveStatus
    <3>3. QED
      BY <3>1, <3>2, SaveRefines
  <2>7. ASSUME NEW r \in Runs, BatchDone(r), rows' # rows PROVE Log!LogNext
    <3>1. rows' = [rows EXCEPT ![r] = Tallied(r)]
      BY <2>7 DEF BatchDone, SaveStatus
    <3>2. /\ mem[r].status = "running" /\ rows[r].status = "running"
          /\ rows[r].processed <= mem[r].processed
      BY <2>0, <2>7 DEF BatchDone, RunInv, RowInv, MemInv, InThread
    <3>3. /\ Tallied(r).processed = BatchEnd(r) /\ mem[r].processed <= BatchEnd(r)
          /\ Tallied(r).status = mem[r].status
      BY <2>7, TalliedAddsUp DEF BatchDone
    <3>4. rows[r].processed \in Nat /\ mem[r].processed \in Nat /\ BatchEnd(r) \in Nat
      BY <2>0, BatchEndType DEF IInv, Row
    <3>5. Tallied(r).processed >= rows[r].processed
      BY <3>2, <3>3, <3>4
    <3>6. QED
      BY <2>0, <3>1, <3>2, <3>3, <3>5, SaveRefines
  <2>8. ASSUME NEW r \in Runs,
               StartList(r) \/ CancelRead(r) \/ Handler(r) \/ ThreadStep(r)
        PROVE  [Log!LogNext]_(Log!logVars)
    <3>1. CASE StartList(r) \/ CancelRead(r)
      BY <2>1, <3>1 DEF StartList, CancelRead
    <3>2. CASE Handler(r)
      BY <2>2, <2>3, <2>4, <3>2 DEF Handler
    <3>3. CASE Select(r) \/ Finish(r) \/ BatchDone(r)
      BY <2>1, <2>5, <2>6, <2>7, <3>3
    <3>4. CASE \/ Fetch(r) \/ Fail(r) \/ LoseThread(r)
               \/ NoticeCancel(r) \/ NextBatch(r) \/ Complete(r)
      BY <2>1, <3>4 DEF Fetch, Fail, LoseThread, NoticeCancel, NextBatch, Complete
    <3>5. CASE \/ CrawlOk(r) \/ CrawlNotFound(r) \/ CrawlFailed(r)
               \/ Score(r) \/ RecordScored(r) \/ RecordMissing(r)
      BY <2>1, <3>5 DEF CrawlOk, CrawlNotFound, CrawlFailed, CrawlStep, Score,
                        RecordScored, RecordMissing, RecordStep
    <3>6. QED
      BY <2>8, <3>1, <3>2, <3>3, <3>4, <3>5 DEF ThreadStep
  <2>9. CASE OtherWriters \/ Crash \/ UNCHANGED vars
    BY <2>1, <2>9 DEF OtherWriters, LiveResult, Purge, Crash, vars
  <2>10. QED
    BY <2>8, <2>9 DEF Next
<1>3. QED
  BY <1>1, <1>2, Inductive, PTL DEF Spec, ImplementsRunLog, Log!LogSpec

-----------------------------------------------------------------------------
(* Coverage of the candidates. *)

\* What is in the table stays there as it is.
LEMMA ResultsStay ==
  ASSUME TypeOK, [MT!TableNext]_matches, NEW c \in Jobs \X Versions, matches[c] # "none"
  PROVE  matches'[c] = matches[c]
<1>1. CASE UNCHANGED matches
  BY <1>1
<1>2. ASSUME NEW d \in Jobs \X Versions, NEW x, MT!Insert(d, x)
      PROVE  matches'[c] = matches[c]
  BY <1>2 DEF MT!Insert, TypeOK, MT!TableTypeOK
<1>3. QED
  BY <1>1, <1>2 DEF MT!TableNext

\* Jobs of a set without a result under a version, in a given table.
None(jobs, v, m) == {j \in jobs : m[<<j, v>>] = "none"}

LEMMA NoneIs ==
  ASSUME NEW r \in Runs, NEW A
  PROVE  Unanswered(r, A) = None(A \ purged, args[r].version, matches)
  BY DEF Unanswered, None, Fresh

LEMMA NoneCounted ==
  ASSUME NEW A \in SUBSET Jobs, NEW v, NEW m
  PROVE  Cardinality(None(A, v, m)) \in Nat
<1>1. None(A, v, m) \in SUBSET Jobs
  BY DEF None
<1>2. QED
  BY <1>1, JobsAssumption, FS_Subset, FS_CardinalityType

\* One more job waits for a result only when one more job is looked at.
LEMMA NoneGrows ==
  ASSUME NEW A \in SUBSET Jobs, NEW B \in SUBSET Jobs, NEW x \in Jobs, NEW v, NEW m, NEW n,
         A \subseteq B \cup {x}, \A j \in Jobs : n[<<j, v>>] = "none" => m[<<j, v>>] = "none"
  PROVE  /\ Cardinality(None(A, v, n)) <= Cardinality(None(B, v, m)) + 1
         /\ n[<<x, v>>] # "none" =>
               Cardinality(None(A, v, n)) <= Cardinality(None(B, v, m))
<1>1. /\ None(B, v, m) \in SUBSET Jobs
      /\ None(A, v, n) \in SUBSET (None(B, v, m) \cup {x})
      /\ n[<<x, v>>] # "none" => None(A, v, n) \in SUBSET None(B, v, m)
  BY DEF None
<1>2. IsFiniteSet(None(B, v, m)) /\ Cardinality(None(B, v, m)) \in Nat
  BY <1>1, JobsAssumption, FS_Subset, FS_CardinalityType
<1>3. /\ IsFiniteSet(None(B, v, m) \cup {x})
      /\ Cardinality(None(B, v, m) \cup {x}) <= Cardinality(None(B, v, m)) + 1
  <2> DEFINE S == None(B, v, m)
  <2>0. IsFiniteSet(S) /\ Cardinality(S) \in Nat
    BY <1>2
  <2> HIDE DEF S
  <2>1. /\ IsFiniteSet(S \cup {x})
        /\ Cardinality(S \cup {x}) = IF x \in S THEN Cardinality(S) ELSE Cardinality(S) + 1
    BY <2>0, FS_AddElement
  <2>2. Cardinality(S \cup {x}) <= Cardinality(S) + 1
    BY <2>0, <2>1
  <2>3. QED
    BY <2>1, <2>2 DEF S
<1>4. /\ Cardinality(None(A, v, n)) <= Cardinality(None(B, v, m) \cup {x})
      /\ Cardinality(None(A, v, n)) \in Nat /\ Cardinality(None(B, v, m) \cup {x}) \in Nat
  BY <1>1, <1>3, FS_Subset, FS_CardinalityType
<1>5. Cardinality(None(A, v, n)) <= Cardinality(None(B, v, m)) + 1
  BY <1>2, <1>3, <1>4
<1>6. n[<<x, v>>] # "none" => Cardinality(None(A, v, n)) <= Cardinality(None(B, v, m))
  BY <1>1, <1>2, FS_Subset
<1>7. QED
  BY <1>5, <1>6

LEMMA NoneShrinks ==
  ASSUME NEW A \in SUBSET Jobs, NEW B \in SUBSET Jobs, NEW v, NEW m, NEW n,
         A \subseteq B, \A j \in Jobs : n[<<j, v>>] = "none" => m[<<j, v>>] = "none"
  PROVE  Cardinality(None(A, v, n)) <= Cardinality(None(B, v, m))
<1>1. /\ None(B, v, m) \in SUBSET Jobs
      /\ None(A, v, n) \in SUBSET None(B, v, m)
  BY DEF None
<1>2. QED
  BY <1>1, JobsAssumption, FS_Subset

LEMMA SettledJobs ==
  ASSUME TypeOK, NEW r \in Runs, pos[r] <= Len(cand[r])
  PROVE  Settled(r) \in SUBSET Jobs /\ Range(cand[r]) \in SUBSET Jobs
<1>1. cand[r] \in Seq(Jobs) /\ pos[r] \in Nat /\ Len(cand[r]) \in Nat
  BY DEF TypeOK
<1>2. \A k \in 1..pos[r] : k \in DOMAIN cand[r]
  BY <1>1
<1>3. \A k \in DOMAIN cand[r] : cand[r][k] \in Jobs
  BY <1>1
<1>4. QED
  BY <1>2, <1>3 DEF Settled, Range

\* A thread in the loop has crawled no more than it selected.
LEMMA WithinList ==
  ASSUME IInv, NEW r \in Runs, pc[r] \in {"between", "crawl", "record"}
  PROVE  /\ pos[r] <= Len(cand[r])
         /\ pc[r] \in {"crawl", "record"} => pos[r] <= BatchEnd(r) /\ BatchEnd(r) <= Len(cand[r])
<1>1. /\ mem[r].processed \in Nat /\ Len(cand[r]) \in Nat /\ pos[r] \in Nat
      /\ BatchEnd(r) \in Nat
  BY BatchEndType DEF IInv, TypeOK, Row
<1>2. /\ RowAddsUp(mem[r]) /\ mem[r].candidates = Len(cand[r])
      /\ pc[r] = "between" => pos[r] = mem[r].processed
      /\ pc[r] # "between" => pos[r] <= BatchEnd(r)
  BY DEF IInv, RunInv, MemInv, BatchInv, InThread
<1>3. mem[r].processed <= Len(cand[r])
  BY <1>1, <1>2, NullAssumption DEF RowAddsUp
<1>4. BatchEnd(r) <= Len(cand[r])
  BY <1>1, BatchSizeAssumption DEF BatchEnd
<1>5. QED
  BY <1>1, <1>2, <1>3, <1>4

\* Nothing that CoverInv(s) speaks of has changed, except for new results.
SameCover(s) ==
    /\ rows'[s].status = rows[s].status /\ rows'[s].counts = rows[s].counts
    /\ mem'[s] = mem[s] /\ pc'[s] = pc[s] /\ args'[s] = args[s]
    /\ cand'[s] = cand[s] /\ pos'[s] = pos[s]
    /\ crawled'[s] = crawled[s] /\ tally'[s] = tally[s]

\* Adding up failures.
LEMMA FailuresAdd ==
  /\ \A a, b \in Counters : Failures(Sum(a, b)) = Failures(a) + Failures(b)
  /\ \A a \in Counters : Failures(a) \in Nat
  /\ NoCounts \in Counters /\ Failures(NoCounts) = 0
  /\ Failures(CrawlError) = 1 /\ Failures(Errored) = 1
  /\ Failures(Rescored) = 0 /\ Failures(NotFound) = 0
<1>1. \A a, b \in Counters : Failures(Sum(a, b)) = Failures(a) + Failures(b)
  BY DEF Failures, Sum, Counters
<1>2. \A a \in Counters : Failures(a) \in Nat
  BY DEF Failures, Counters
<1>3. NoCounts \in Counters /\ Failures(NoCounts) = 0
  BY DEF Failures, NoCounts, Counters
<1>4. Failures(CrawlError) = 1 /\ Failures(Errored) = 1
  BY DEF Failures, NoCounts, CrawlError, Errored
<1>5. Failures(Rescored) = 0 /\ Failures(NotFound) = 0
  BY DEF Failures, NoCounts, Rescored, NotFound
<1>6. QED
  BY <1>1, <1>2, <1>3, <1>4, <1>5

\* Results stay, and so do the holes of the purged.
TableStep == [MT!TableNext]_matches /\ purged \subseteq purged'

\* A result that was there is there after the step.
LEMMA NoneBefore ==
  ASSUME TypeOK, TableStep, NEW v \in Versions
  PROVE  \A j \in Jobs : matches'[<<j, v>>] = "none" => matches[<<j, v>>] = "none"
<1> TAKE j \in Jobs
<1>1. <<j, v>> \in Jobs \X Versions
  OBVIOUS
<1>2. QED
  BY <1>1, ResultsStay DEF TableStep

LEMMA CoverFrame ==
  ASSUME IInv, TableStep, NEW s \in Runs, CoverInv(s), SameCover(s)
  PROVE  CoverInv(s)'
<1> DEFINE v == args[s].version
<1>0. /\ TypeOK /\ v \in Versions
      /\ mem[s].counts \in Counters /\ rows[s].counts \in Counters /\ tally[s] \in Counters
  BY DEF IInv, TypeOK, Row
<1>1. \A j \in Jobs : matches'[<<j, v>>] = "none" => matches[<<j, v>>] = "none"
  BY <1>0, NoneBefore
<1>2. \A A \in SUBSET Jobs :
         Cardinality(None(A \ purged', v, matches')) <= Cardinality(None(A \ purged, v, matches))
  <2> HIDE DEF v
  <2> TAKE A \in SUBSET Jobs
  <2>1. A \ purged' \in SUBSET Jobs /\ A \ purged \in SUBSET Jobs /\ A \ purged' \subseteq A \ purged
    BY DEF TableStep
  <2>2. QED
    BY <1>1, <2>1, NoneShrinks
<1>3. Range(cand[s]) \in SUBSET Jobs
  <2>1. \A k \in DOMAIN cand[s] : cand[s][k] \in Jobs
    BY <1>0 DEF TypeOK
  <2>2. QED
    BY <2>1 DEF Range
<1>4. /\ Range(cand[s])' = Range(cand[s]) /\ Settled(s)' = Settled(s)
      /\ args'[s].version = v
  BY DEF SameCover, Range, Settled
<1>5. Failures(mem[s].counts) \in Nat /\ Failures(rows[s].counts) \in Nat /\ Failures(tally[s]) \in Nat
  BY <1>0, FailuresAdd
<1>6. /\ Unanswered(s, Range(cand[s])) = None(Range(cand[s]) \ purged, v, matches)
      /\ Unanswered(s, Settled(s)) = None(Settled(s) \ purged, v, matches)
  BY NoneIs
<1>7. /\ Unanswered(s, Range(cand[s]))' = None(Range(cand[s]) \ purged', v, matches')
      /\ Unanswered(s, Settled(s))' = None(Settled(s) \ purged', v, matches')
  BY <1>4 DEF Unanswered, None, Fresh
<1>8. \A A \in SUBSET Jobs : /\ Cardinality(None(A \ purged', v, matches')) \in Nat
                             /\ Cardinality(None(A \ purged, v, matches)) \in Nat
  <2> HIDE DEF v
  <2> TAKE A \in SUBSET Jobs
  <2>1. A \ purged' \in SUBSET Jobs /\ A \ purged \in SUBSET Jobs
    OBVIOUS
  <2>2. QED
    BY <2>1, NoneCounted
<1> HIDE DEF v
<1>9. ASSUME NEW A \in SUBSET Jobs, NEW f \in Nat, Cardinality(None(A \ purged, v, matches)) <= f
       PROVE  Cardinality(None(A \ purged', v, matches')) <= f
  <2>1. /\ Cardinality(None(A \ purged', v, matches')) <= Cardinality(None(A \ purged, v, matches))
        /\ Cardinality(None(A \ purged', v, matches')) \in Nat
        /\ Cardinality(None(A \ purged, v, matches)) \in Nat
    BY <1>2, <1>8
  <2>2. QED
    BY <1>9, <2>1
<1>10. ASSUME pc'[s] \in {"between", "crawl", "record"}
      PROVE  Cardinality(Unanswered(s, Settled(s)))' <= Failures(mem'[s].counts) + Failures(tally'[s])
  <2>1. pc[s] \in {"between", "crawl", "record"} /\ mem'[s] = mem[s] /\ tally'[s] = tally[s]
    BY <1>10 DEF SameCover
  <2>2. Settled(s) \in SUBSET Jobs
    BY <1>0, <2>1, WithinList, SettledJobs
  <2>3. Cardinality(None(Settled(s) \ purged, v, matches)) <= Failures(mem[s].counts) + Failures(tally[s])
    BY <1>6, <2>1 DEF CoverInv
  <2>4. Failures(mem[s].counts) + Failures(tally[s]) \in Nat
    BY <1>5
  <2>5. Cardinality(None(Settled(s) \ purged', v, matches')) <= Failures(mem[s].counts) + Failures(tally[s])
    BY <1>9, <2>2, <2>3, <2>4
  <2>6. QED
    BY <1>7, <2>1, <2>5
<1>11. ASSUME pc'[s] = "finish", mem'[s].status = "completed"
       PROVE  Cardinality(Unanswered(s, Range(cand[s])))' <= Failures(mem'[s].counts)
  <2>1. Cardinality(None(Range(cand[s]) \ purged, v, matches)) <= Failures(mem[s].counts)
    BY <1>6, <1>11 DEF CoverInv, SameCover
  <2>2. mem'[s] = mem[s]
    BY DEF SameCover
  <2>3. QED
    BY <1>3, <1>5, <1>7, <1>9, <2>1, <2>2
<1>12. ASSUME rows'[s].status = "completed"
       PROVE  Cardinality(Unanswered(s, Range(cand[s])))' <= Failures(rows'[s].counts)
  <2>1. Cardinality(None(Range(cand[s]) \ purged, v, matches)) <= Failures(rows[s].counts)
    BY <1>6, <1>12 DEF CoverInv, SameCover
  <2>2. rows'[s].counts = rows[s].counts
    BY DEF SameCover
  <2>3. QED
    BY <1>3, <1>5, <1>7, <1>9, <2>1, <2>2
<1>13. QED
  BY <1>10, <1>11, <1>12 DEF CoverInv

\* A run that is neither in its loop nor completed has nothing to cover.
LEMMA NoCover ==
  ASSUME NEW r \in Runs, pc'[r] \notin {"between", "crawl", "record"},
         pc'[r] = "finish" => mem'[r].status # "completed", rows'[r].status # "completed"
  PROVE  CoverInv(r)'
  BY DEF CoverInv

LEMMA CoverOwnStep ==
  ASSUME IInv, TableStep, \A s \in Runs : CoverInv(s), NEW r \in Runs, CoverInv(r)',
         \A s \in Runs \ {r} : SameCover(s)
  PROVE  \A s \in Runs : CoverInv(s)'
  BY CoverFrame

LEMMA OthersCover ==
  ASSUME NEW s \in Runs, Same(s), args'[s] = args[s]
  PROVE  SameCover(s)
  BY DEF Same, SameCover

LEMMA HandlerCover ==
  ASSUME IInv, TableStep, \A s \in Runs : CoverInv(s), NEW r \in Runs,
         StartList(r) \/ CancelRead(r) \/ Handler(r)
  PROVE  \A s \in Runs : CoverInv(s)'
<1> USE DEF api, thread
<1>0. TypeOK /\ RunInv(r)
  BY DEF IInv
<1>1. CASE StartList(r)
  <2>1. \A s \in Runs \ {r} : SameCover(s)
    BY <1>0, <1>1 DEF StartList, Goto, TypeOK, SameCover
  <2>2. pc'[r] = "listing" /\ rows'[r].status = "absent"
    BY <1>0, <1>1 DEF StartList, Goto, TypeOK, RunInv, RowInv
  <2>3. QED
    BY <2>1, <2>2, NoCover, CoverOwnStep
<1>2. CASE CancelRead(r)
  <2>1. \A s \in Runs : SameCover(s)
    BY <1>2 DEF CancelRead, SameCover
  <2>2. QED
    BY <2>1, CoverFrame
<1>3. ASSUME NEW s \in Runs, NEW x, RequestCancel(s, x), UNCHANGED <<mem, pc, args, thread>>
      PROVE  \A t \in Runs : CoverInv(t)'
  <2>1. \A t \in Runs : rows'[t].status = rows[t].status /\ rows'[t].counts = rows[t].counts
    BY <1>0, <1>3 DEF RequestCancel, TypeOK, Row
  <2>2. \A t \in Runs : SameCover(t)
    BY <1>3, <2>1 DEF SameCover
  <2>3. QED
    BY <2>2, CoverFrame
<1>4. CASE StartAsk(r)
  <2>1. PICK s \in toAsk[r] : RequestCancel(s, r)
    BY <1>4 DEF StartAsk
  <2>2. s \in Runs
    BY <1>0, <2>1 DEF TypeOK
  <2>3. UNCHANGED <<mem, pc, args, thread>>
    BY <1>4 DEF StartAsk
  <2>4. QED
    BY <1>3, <2>1, <2>2, <2>3
<1>5. CASE CancelWrite(r)
  <2>1. RequestCancel(r, Manual) /\ UNCHANGED <<mem, pc, args, thread>>
    BY <1>5 DEF CancelWrite
  <2>2. QED
    BY <1>3, <2>1
<1>6. CASE StartRun(r)
  <2>1. \A s \in Runs \ {r} : SameCover(s)
    BY <1>0, <1>6 DEF StartRun, SaveStatus, Goto, TypeOK, SameCover
  <2>2. pc'[r] = "spawned" /\ rows'[r].status = "running"
    BY <1>0, <1>6 DEF StartRun, SaveStatus, Goto, TypeOK, NewRow
  <2>3. QED
    BY <2>1, <2>2, NoCover, CoverOwnStep
<1>7. QED
  BY <1>1, <1>2, <1>4, <1>5, <1>6 DEF Handler

LEMMA OuterCover ==
  ASSUME IInv, TableStep, \A s \in Runs : CoverInv(s), NEW r \in Runs,
         Fetch(r) \/ Select(r) \/ Fail(r) \/ Finish(r) \/ LoseThread(r)
  PROVE  \A s \in Runs : CoverInv(s)'
<1> USE DEF Goto, SaveStatus, DropBatch, api, thread
<1>0. /\ TypeOK /\ RunInv(r) /\ CoverInv(r)
      /\ mem[r] \in Row /\ rows[r] \in Row /\ cand[r] \in Seq(Jobs)
  BY DEF IInv, TypeOK
<1>1. CASE Fetch(r)
  <2>1. \A s \in Runs \ {r} : SameCover(s)
    BY <1>0, <1>1 DEF Fetch, TypeOK, SameCover
  <2>2. pc'[r] = "select" /\ rows'[r].status = "running"
    BY <1>0, <1>1 DEF Fetch, TypeOK, RunInv, RowInv, InThread
  <2>3. QED
    BY <2>1, <2>2, NoCover, CoverOwnStep
<1>2. CASE Select(r)
  <2>1. PICK list \in Selections(args[r].version, EffectiveLimit(args[r].limit)) :
          LET status == [mem[r] EXCEPT !.candidates = Len(list)] IN
          /\ cand' = [cand EXCEPT ![r] = list]
          /\ \/ /\ mem' = [mem EXCEPT ![r] = status]
                /\ rows' = [rows EXCEPT ![r] = status]
                /\ Goto(r, "between")
             \/ /\ mem' = [mem EXCEPT ![r] = [status EXCEPT !.status = "failed"]]
                /\ Goto(r, "finish")
                /\ UNCHANGED rows
    BY <1>2 DEF Select
  <2>2. \A s \in Runs \ {r} : SameCover(s)
    BY <1>0, <1>2, <2>1 DEF Select, TypeOK, SameCover
  <2>3. /\ pc[r] = "select" /\ mem[r].status = "running" /\ rows[r].status = "running"
        /\ pos'[r] = 0 /\ tally'[r] = tally[r]
    BY <1>0, <1>2 DEF Select, RunInv, RowInv, MemInv, BatchInv, InThread
  <2>4. CASE /\ mem' = [mem EXCEPT ![r] = [mem[r] EXCEPT !.candidates = Len(list)]]
             /\ rows' = [rows EXCEPT ![r] = [mem[r] EXCEPT !.candidates = Len(list)]]
             /\ Goto(r, "between")
    <3>1. /\ mem'[r].counts = mem[r].counts /\ rows'[r].status = "running"
          /\ pc'[r] = "between"
      BY <1>0, <2>3, <2>4 DEF TypeOK, Row
    <3>2. Failures(mem'[r].counts) \in Nat /\ Failures(tally'[r]) \in Nat
      BY <1>0, <2>3, <3>1, FailuresAdd DEF TypeOK, Row
    <3>3. Unanswered(r, Settled(r))' = {}
      BY <2>3 DEF Unanswered, Settled
    <3>4. Cardinality(Unanswered(r, Settled(r)))' = 0
      BY <3>3, FS_EmptySet
    <3>5. CoverInv(r)'
      BY <3>1, <3>2, <3>4 DEF CoverInv
    <3>6. QED
      BY <2>2, <3>5, CoverOwnStep
  <2>5. CASE /\ mem' = [mem EXCEPT ![r] = [[mem[r] EXCEPT !.candidates = Len(list)]
                                            EXCEPT !.status = "failed"]]
             /\ Goto(r, "finish")
             /\ UNCHANGED rows
    <3>1. pc'[r] = "finish" /\ mem'[r].status = "failed" /\ rows'[r].status = "running"
      BY <1>0, <2>3, <2>5 DEF TypeOK, Row
    <3>2. QED
      BY <2>2, <3>1, NoCover, CoverOwnStep
  <2>6. QED
    BY <2>1, <2>4, <2>5
<1>3. CASE Fail(r)
  <2>1. \A s \in Runs \ {r} : SameCover(s)
    BY <1>0, <1>3 DEF Fail, TypeOK, SameCover
  <2>2. pc'[r] = "finish" /\ mem'[r].status = "failed" /\ rows'[r].status = "running"
    BY <1>0, <1>3 DEF Fail, TypeOK, RunInv, RowInv, InThread, Row
  <2>3. QED
    BY <2>1, <2>2, NoCover, CoverOwnStep
<1>4. CASE Finish(r)
  <2>1. \A s \in Runs \ {r} : SameCover(s)
    BY <1>0, <1>4 DEF Finish, TypeOK, SameCover
  <2>2. /\ pc[r] = "finish" /\ pc'[r] = "done" /\ rows'[r] = mem[r]
        /\ UNCHANGED <<cand, args, matches, purged>>
    BY <1>0, <1>4 DEF Finish, TypeOK, table
  <2>3. Unanswered(r, Range(cand[r]))' = Unanswered(r, Range(cand[r]))
    BY <2>2 DEF Unanswered, Range, Fresh
  <2>4. CoverInv(r)'
    BY <1>0, <2>2, <2>3 DEF CoverInv
  <2>5. QED
    BY <2>1, <2>4, CoverOwnStep
<1>5. CASE LoseThread(r)
  <2>1. \A s \in Runs \ {r} : SameCover(s)
    BY <1>0, <1>5 DEF LoseThread, TypeOK, SameCover
  <2>2. pc'[r] = "dead" /\ rows'[r].status = "running"
    BY <1>0, <1>5 DEF LoseThread, TypeOK, RunInv, RowInv, InThread
  <2>3. QED
    BY <2>1, <2>2, NoCover, CoverOwnStep
<1>6. QED
  BY <1>1, <1>2, <1>3, <1>4, <1>5

LEMMA LoopCover ==
  ASSUME IInv, TableStep, \A s \in Runs : CoverInv(s), NEW r \in Runs,
         NoticeCancel(r) \/ NextBatch(r) \/ Complete(r) \/ Score(r)
  PROVE  \A s \in Runs : CoverInv(s)'
<1> USE DEF Goto, api, thread, table
<1>0. /\ TypeOK /\ RunInv(r) /\ CoverInv(r)
      /\ mem[r] \in Row /\ rows[r] \in Row /\ cand[r] \in Seq(Jobs)
  BY DEF IInv, TypeOK
<1>1. CASE NoticeCancel(r)
  <2>1. \A s \in Runs \ {r} : SameCover(s)
    BY <1>0, <1>1 DEF NoticeCancel, TypeOK, SameCover
  <2>2. pc'[r] = "finish" /\ mem'[r].status = "cancelled" /\ rows'[r].status = "running"
    BY <1>0, <1>1 DEF NoticeCancel, TypeOK, RunInv, RowInv, InThread, Row
  <2>3. QED
    BY <2>1, <2>2, NoCover, CoverOwnStep
<1>2. CASE NextBatch(r) \/ Score(r)
  <2>1. \A s \in Runs \ {r} : SameCover(s)
    BY <1>0, <1>2 DEF NextBatch, Score, TypeOK, SameCover
  <2>2. /\ pc[r] \in {"between", "crawl"} /\ pc'[r] \in {"crawl", "record"}
        /\ rows'[r] = rows[r] /\ mem'[r] = mem[r] /\ tally'[r] = tally[r]
        /\ UNCHANGED <<cand, pos, crawled, args, matches, purged>>
    BY <1>0, <1>2 DEF NextBatch, Score, TypeOK
  <2>3. rows[r].status = "running"
    BY <1>0, <2>2 DEF RunInv, RowInv, InThread
  <2>4. Unanswered(r, Settled(r))' = Unanswered(r, Settled(r))
    BY <2>2 DEF Unanswered, Settled, Range, Fresh
  <2>5. CoverInv(r)'
    BY <1>0, <2>2, <2>3, <2>4 DEF CoverInv
  <2>6. QED
    BY <2>1, <2>5, CoverOwnStep
<1>3. CASE Complete(r)
  <2>1. \A s \in Runs \ {r} : SameCover(s)
    BY <1>0, <1>3 DEF Complete, TypeOK, SameCover
  <2>2. /\ pc[r] = "between" /\ pc'[r] = "finish" /\ mem[r].processed = Len(cand[r])
        /\ rows'[r] = rows[r] /\ mem'[r].counts = mem[r].counts
        /\ UNCHANGED <<cand, args, matches, purged>>
    BY <1>0, <1>3 DEF Complete, TypeOK, Row
  <2>3. /\ pos[r] = Len(cand[r]) /\ crawled[r] = <<>> /\ tally[r] = NoCounts
        /\ rows[r].status = "running"
    BY <1>0, <2>2 DEF RunInv, RowInv, BatchInv, InThread
  <2>4. Settled(r) = Range(cand[r])
    <3>1. Range(crawled[r]) = {}
      BY <2>3 DEF Range
    <3>2. DOMAIN cand[r] = 1..pos[r]
      BY <1>0, <2>3
    <3>3. QED
      BY <3>1, <3>2 DEF Settled, Range
  <2>5. Cardinality(Unanswered(r, Range(cand[r]))) <= Failures(mem[r].counts)
    <3>1. Failures(mem[r].counts) \in Nat /\ Failures(tally[r]) = 0
      BY <1>0, <2>3, FailuresAdd DEF Row
    <3>2. Cardinality(Unanswered(r, Range(cand[r]))) <= Failures(mem[r].counts) + Failures(tally[r])
      BY <1>0, <2>2, <2>4 DEF CoverInv
    <3>3. QED
      BY <3>1, <3>2
  <2>6. Unanswered(r, Range(cand[r]))' = Unanswered(r, Range(cand[r]))
    BY <2>2 DEF Unanswered, Range, Fresh
  <2>7. CoverInv(r)'
    BY <2>2, <2>3, <2>5, <2>6 DEF CoverInv
  <2>8. QED
    BY <2>1, <2>7, CoverOwnStep
<1>4. QED
  BY <1>1, <1>2, <1>3

LEMMA RangeAppend ==
  ASSUME NEW q \in Seq(Jobs), NEW x \in Jobs
  PROVE  Range(Append(q, x)) = Range(q) \cup {x}
<1>1. /\ Len(Append(q, x)) = Len(q) + 1 /\ Append(q, x)[Len(q) + 1] = x
      /\ \A k \in 1..Len(q) : Append(q, x)[k] = q[k]
      /\ DOMAIN q = 1..Len(q) /\ DOMAIN Append(q, x) = 1..(Len(q) + 1) /\ Len(q) \in Nat
  OBVIOUS
<1>2. 1..(Len(q) + 1) = (1..Len(q)) \cup {Len(q) + 1}
  BY <1>1
<1>3. QED
  BY <1>1, <1>2 DEF Range

LEMMA RangeTail ==
  ASSUME NEW q \in Seq(Jobs), q # <<>>
  PROVE  Range(q) \subseteq Range(Tail(q)) \cup {Head(q)}
<1>1. /\ DOMAIN q = 1..Len(q) /\ DOMAIN Tail(q) = 1..(Len(q) - 1) /\ Len(q) \in Nat
      /\ \A k \in 1..(Len(q) - 1) : Tail(q)[k] = q[k + 1]
      /\ Head(q) = q[1]
  OBVIOUS
<1>2. ASSUME NEW k \in 1..Len(q) PROVE q[k] \in Range(Tail(q)) \cup {Head(q)}
  <2>1. CASE k = 1
    BY <1>1, <2>1
  <2>2. CASE k # 1
    <3>1. k - 1 \in 1..(Len(q) - 1) /\ (k - 1) + 1 = k
      BY <1>1, <2>2
    <3>2. Tail(q)[k - 1] = q[k] /\ k - 1 \in DOMAIN Tail(q)
      BY <1>1, <3>1
    <3>3. QED
      BY <3>2 DEF Range
  <2>3. QED
    BY <2>1, <2>2
<1>3. QED
  BY <1>1, <1>2 DEF Range

\* Inside a batch one job at a time becomes settled: with a result, or counted.
LEMMA InsideBatchCover ==
  ASSUME IInv, TableStep, \A s \in Runs : CoverInv(s), NEW r \in Runs,
         pc[r] \in {"crawl", "record"}, pc'[r] = pc[r], \A s \in Runs \ {r} : SameCover(s),
         rows'[r] = rows[r], mem'[r] = mem[r], args'[r] = args[r], tally'[r] \in Counters,
         NEW x \in Jobs, Settled(r)' \subseteq Settled(r) \cup {x},
         \/ Failures(tally'[r]) = Failures(tally[r]) + 1
         \/ /\ Failures(tally'[r]) = Failures(tally[r])
            /\ \/ Settled(r)' \subseteq Settled(r)
               \/ matches'[<<x, args[r].version>>] # "none" \/ x \in purged
  PROVE  \A s \in Runs : CoverInv(s)'
<1> DEFINE v == args[r].version
           old == Settled(r) \ purged
           new == Settled(r)' \ purged'
           n == Cardinality(None(new, v, matches'))
           m == Cardinality(None(old, v, matches))
<1>0. /\ TypeOK /\ v \in Versions /\ rows[r].status = "running"
      /\ mem[r].counts \in Counters /\ tally[r] \in Counters
  BY DEF IInv, TypeOK, Row, RunInv, RowInv, InThread
<1>1. \A j \in Jobs : matches'[<<j, v>>] = "none" => matches[<<j, v>>] = "none"
  BY <1>0, NoneBefore
<1>2. Settled(r) \in SUBSET Jobs /\ old \in SUBSET Jobs
  <2>1. pos[r] <= Len(cand[r])
    BY WithinList
  <2>2. QED
    BY <1>0, <2>1, SettledJobs
<1>3. /\ new \in SUBSET Jobs /\ new \subseteq old \cup {x}
      /\ Settled(r)' \subseteq Settled(r) \/ x \in purged => new \subseteq old
  BY <1>2 DEF TableStep
<1>4. Unanswered(r, Settled(r))' = None(new, v, matches')
  BY DEF Unanswered, None, Fresh
<1>5. m <= Failures(mem[r].counts) + Failures(tally[r])
  <2>1. Unanswered(r, Settled(r)) = None(old, v, matches)
    BY NoneIs
  <2>2. QED
    BY <2>1 DEF CoverInv
<1>6. n <= m + 1 /\ (matches'[<<x, v>>] # "none" => n <= m)
  <2> HIDE DEF v, new, old
  <2>1. QED
    BY <1>1, <1>2, <1>3, NoneGrows
<1>7. new \subseteq old => n <= m
  <2> HIDE DEF v, new, old
  <2>1. QED
    BY <1>1, <1>2, <1>3, NoneShrinks
<1>8. n \in Nat /\ m \in Nat
  <2> HIDE DEF v, new, old
  <2>1. QED
    BY <1>2, <1>3, NoneCounted
<1>9. /\ Failures(mem[r].counts) \in Nat /\ Failures(tally[r]) \in Nat
      /\ Failures(tally'[r]) \in Nat
  BY <1>0, FailuresAdd
<1>10. n <= Failures(mem[r].counts) + Failures(tally'[r])
  <2>1. CASE Failures(tally'[r]) = Failures(tally[r]) + 1
    <3> HIDE DEF n, m
    <3>1. QED
      BY <1>5, <1>6, <1>8, <1>9, <2>1
  <2>2. CASE /\ Failures(tally'[r]) = Failures(tally[r])
             /\ \/ Settled(r)' \subseteq Settled(r)
                \/ matches'[<<x, args[r].version>>] # "none" \/ x \in purged
    <3>1. n <= m
      BY <1>3, <1>6, <1>7, <2>2
    <3> HIDE DEF n, m
    <3>2. QED
      BY <1>5, <1>8, <1>9, <2>2, <3>1
  <2>3. QED
    BY <2>1, <2>2
<1>11. Cardinality(Unanswered(r, Settled(r)))' <= Failures(mem'[r].counts) + Failures(tally'[r])
  BY <1>4, <1>10
<1>12. CoverInv(r)'
  <2>1. pc'[r] # "finish" /\ rows'[r].status # "completed"
    BY <1>0
  <2>2. QED
    BY <1>11, <2>1 DEF CoverInv
<1>13. QED
  BY <1>12, CoverOwnStep

LEMMA CountFails ==
  ASSUME TypeOK, NEW r \in Runs, NEW c \in Counters, Count(r, c)
  PROVE  /\ tally'[r] \in Counters
         /\ Failures(tally'[r]) = Failures(tally[r]) + Failures(c)
         /\ \A s \in Runs \ {r} : tally'[s] = tally[s]
<1>1. tally'[r] = Sum(tally[r], c) /\ tally[r] \in Counters
  BY DEF Count, TypeOK
<1>2. QED
  BY <1>1, SumAdds, FailuresAdd DEF Count, TypeOK

LEMMA CrawlCover ==
  ASSUME IInv, TableStep, \A s \in Runs : CoverInv(s), NEW r \in Runs,
         CrawlOk(r) \/ CrawlNotFound(r) \/ CrawlFailed(r)
  PROVE  \A s \in Runs : CoverInv(s)'
<1> USE DEF api
<1>0. TypeOK /\ tally[r] \in Counters /\ crawled[r] \in Seq(Jobs) /\ pos[r] \in Nat
  BY DEF IInv, TypeOK
<1>1. CrawlStep(r)
  BY DEF CrawlOk, CrawlNotFound, CrawlFailed
<1>2. /\ pc[r] \in {"crawl", "record"} /\ pc' = pc /\ rows' = rows /\ mem' = mem
      /\ args' = args /\ cand' = cand /\ pos'[r] = pos[r] + 1
      /\ \A s \in Runs \ {r} : pos'[s] = pos[s]
  BY <1>0, <1>1 DEF CrawlStep, TypeOK
<1>3. PICK x \in Jobs : x = cand[r][pos[r] + 1]
  BY <1>0, <1>1, CandidateType DEF CrawlStep
<1>4. 1..(pos[r] + 1) = (1..pos[r]) \cup {pos[r] + 1}
  BY <1>0
<1>5. /\ NotFound \in Counters /\ CrawlError \in Counters
      /\ Failures(NotFound) = 0 /\ Failures(CrawlError) = 1
      /\ Failures(tally[r]) \in Nat
  BY <1>0, OneOutcome, FailuresAdd
<1>6. CASE CrawlOk(r)
  <2>1. tally' = tally /\ crawled'[r] = Append(crawled[r], x)
        /\ \A s \in Runs \ {r} : crawled'[s] = crawled[s]
    BY <1>0, <1>3, <1>6 DEF CrawlOk, TypeOK
  <2>2. \A s \in Runs \ {r} : SameCover(s)
    BY <1>2, <2>1 DEF SameCover
  <2>3. Settled(r)' \subseteq Settled(r)
    <3>1. Range(crawled'[r]) = Range(crawled[r]) \cup {x}
      BY <1>0, <2>1, RangeAppend
    <3>2. QED
      BY <1>2, <1>3, <1>4, <3>1 DEF Settled
  <2>4. tally'[r] = tally[r]
    BY <2>1
  <2>5. QED
    BY <1>0, <1>2, <2>2, <2>3, <2>4, InsideBatchCover
<1>7. CASE CrawlNotFound(r)
  <2>1. /\ Count(r, NotFound) /\ crawled' = crawled
        /\ RecordJobResult(x, args[r].version, "gone")
    BY <1>3, <1>7 DEF CrawlNotFound
  <2>2. /\ tally'[r] \in Counters /\ Failures(tally'[r]) = Failures(tally[r])
        /\ \A s \in Runs \ {r} : tally'[s] = tally[s]
    BY <1>0, <1>5, <2>1, CountFails
  <2>3. \A s \in Runs \ {r} : SameCover(s)
    BY <1>2, <2>1, <2>2 DEF SameCover
  <2>4. Settled(r)' \subseteq Settled(r) \cup {x}
    BY <1>2, <1>3, <1>4, <2>1 DEF Settled, Range
  <2>5. matches'[<<x, args[r].version>>] # "none" \/ x \in purged
    BY <1>0, <2>1 DEF RecordJobResult, Accepted, Fresh, TypeOK, MT!TableTypeOK
  <2>6. QED
    BY <1>2, <2>2, <2>3, <2>4, <2>5, InsideBatchCover
<1>8. CASE CrawlFailed(r)
  <2>1. Count(r, CrawlError) /\ crawled' = crawled
    BY <1>8 DEF CrawlFailed
  <2>2. /\ tally'[r] \in Counters /\ Failures(tally'[r]) = Failures(tally[r]) + 1
        /\ \A s \in Runs \ {r} : tally'[s] = tally[s]
    BY <1>0, <1>5, <2>1, CountFails
  <2>3. \A s \in Runs \ {r} : SameCover(s)
    BY <1>2, <2>1, <2>2 DEF SameCover
  <2>4. Settled(r)' \subseteq Settled(r) \cup {x}
    BY <1>2, <1>3, <1>4, <2>1 DEF Settled, Range
  <2>5. QED
    BY <1>2, <2>2, <2>3, <2>4, InsideBatchCover
<1>9. QED
  BY <1>6, <1>7, <1>8

LEMMA RecordCover ==
  ASSUME IInv, TableStep, \A s \in Runs : CoverInv(s), NEW r \in Runs,
         RecordScored(r) \/ RecordMissing(r)
  PROVE  \A s \in Runs : CoverInv(s)'
<1> USE DEF api
<1>0. TypeOK /\ tally[r] \in Counters /\ crawled[r] \in Seq(Jobs)
  BY DEF IInv, TypeOK
<1>1. RecordStep(r)
  BY DEF RecordScored, RecordMissing
<1>2. /\ pc[r] \in {"crawl", "record"} /\ pc' = pc /\ rows' = rows /\ mem' = mem
      /\ args' = args /\ cand' = cand /\ pos' = pos
      /\ crawled[r] # <<>> /\ crawled'[r] = Tail(crawled[r])
      /\ \A s \in Runs \ {r} : crawled'[s] = crawled[s]
  BY <1>0, <1>1 DEF RecordStep, TypeOK
<1>3. PICK x \in Jobs : x = Head(crawled[r])
  BY <1>0, <1>2
<1>4. Settled(r)' \subseteq Settled(r) \cup {x}
  <2>1. Range(crawled[r]) \subseteq Range(crawled'[r]) \cup {x}
    BY <1>0, <1>2, <1>3, RangeTail
  <2>2. QED
    BY <1>2, <2>1 DEF Settled
<1>5. /\ Rescored \in Counters /\ Errored \in Counters
      /\ Failures(Rescored) = 0 /\ Failures(Errored) = 1
      /\ Failures(tally[r]) \in Nat
  BY <1>0, OneOutcome, FailuresAdd
<1>6. CASE RecordScored(r)
  <2>1. PICK y \in MT!Scored : RecordJobResult(x, args[r].version, y)
    BY <1>3, <1>6 DEF RecordScored
  <2>2. Count(r, Rescored) \/ tally' = tally
    BY <1>6 DEF RecordScored
  <2>3. /\ tally'[r] \in Counters /\ Failures(tally'[r]) = Failures(tally[r])
        /\ \A s \in Runs \ {r} : tally'[s] = tally[s]
    <3>1. CASE Count(r, Rescored)
      BY <1>0, <1>5, <3>1, CountFails
    <3>2. CASE tally' = tally
      BY <1>0, <3>2
    <3>3. QED
      BY <2>2, <3>1, <3>2
  <2>4. \A s \in Runs \ {r} : SameCover(s)
    BY <1>2, <2>3 DEF SameCover
  <2>5. matches'[<<x, args[r].version>>] # "none" \/ x \in purged
    BY <1>0, <2>1 DEF RecordJobResult, Accepted, Fresh, TypeOK, MT!TableTypeOK
  <2>6. QED
    BY <1>2, <1>4, <2>3, <2>4, <2>5, InsideBatchCover
<1>7. CASE RecordMissing(r)
  <2>1. Count(r, Errored)
    BY <1>7 DEF RecordMissing
  <2>2. /\ tally'[r] \in Counters /\ Failures(tally'[r]) = Failures(tally[r]) + 1
        /\ \A s \in Runs \ {r} : tally'[s] = tally[s]
    BY <1>0, <1>5, <2>1, CountFails
  <2>3. \A s \in Runs \ {r} : SameCover(s)
    BY <1>2, <2>2 DEF SameCover
  <2>4. QED
    BY <1>2, <1>4, <2>2, <2>3, InsideBatchCover
<1>8. QED
  BY <1>6, <1>7

LEMMA BatchDoneCover ==
  ASSUME IInv, TableStep, \A s \in Runs : CoverInv(s), NEW r \in Runs, BatchDone(r)
  PROVE  \A s \in Runs : CoverInv(s)'
<1> USE DEF Goto, SaveStatus, DropBatch, api, table
<1>0. /\ TypeOK /\ CoverInv(r) /\ Tallied(r) \in Row
      /\ mem[r] \in Row /\ mem[r].counts \in Counters /\ tally[r] \in Counters
  BY TalliedType DEF IInv, TypeOK, Row
<1>1. /\ pc[r] \in {"crawl", "record"} /\ crawled[r] = <<>> /\ crawled'[r] = <<>>
      /\ tally'[r] = NoCounts /\ UNCHANGED <<cand, pos, args, matches, purged>>
      /\ rows[r].status = "running" /\ mem[r].status = "running"
  BY <1>0 DEF BatchDone, TypeOK, IInv, RunInv, RowInv, MemInv, InThread
<1>2. \A s \in Runs \ {r} : SameCover(s)
  BY <1>0 DEF BatchDone, TypeOK, SameCover
<1>3. Tallied(r).status = "running" /\ Tallied(r).counts = Sum(mem[r].counts, tally[r])
  BY <1>0, <1>1 DEF Tallied, Row
<1>4. CASE /\ mem' = [mem EXCEPT ![r] = Tallied(r)]
           /\ SaveStatus(r, Tallied(r))
           /\ Goto(r, "between")
  <2>1. mem'[r] = Tallied(r) /\ rows'[r] = Tallied(r) /\ pc'[r] = "between"
    BY <1>0, <1>4 DEF TypeOK
  <2>2. Unanswered(r, Settled(r))' = Unanswered(r, Settled(r))
    BY <1>1 DEF Unanswered, Settled, Range, Fresh
  <2>3. Failures(mem'[r].counts) + Failures(tally'[r]) = Failures(mem[r].counts) + Failures(tally[r])
    <3>1. Failures(mem'[r].counts) = Failures(mem[r].counts) + Failures(tally[r])
      BY <1>0, <1>3, <2>1, FailuresAdd
    <3>2. Failures(tally'[r]) = 0
      BY <1>1, FailuresAdd
    <3>3. Failures(mem[r].counts) \in Nat /\ Failures(tally[r]) \in Nat
      BY <1>0, FailuresAdd
    <3>4. QED
      BY <3>1, <3>2, <3>3
  <2>4. CoverInv(r)'
    BY <1>0, <1>1, <1>3, <2>1, <2>2, <2>3 DEF CoverInv
  <2>5. QED
    BY <1>2, <2>4, CoverOwnStep
<1>5. CASE /\ mem' = [mem EXCEPT ![r] = [Tallied(r) EXCEPT !.status = "failed"]]
           /\ Goto(r, "finish")
           /\ UNCHANGED rows
  <2>1. mem'[r].status = "failed" /\ rows'[r].status = "running" /\ pc'[r] = "finish"
    BY <1>0, <1>1, <1>5 DEF TypeOK, Row
  <2>2. QED
    BY <1>2, <2>1, NoCover, CoverOwnStep
<1>6. QED
  BY <1>4, <1>5 DEF BatchDone

LEMMA EnvironmentCover ==
  ASSUME IInv, TableStep, \A s \in Runs : CoverInv(s),
         OtherWriters \/ Crash \/ UNCHANGED vars
  PROVE  \A s \in Runs : CoverInv(s)'
<1> USE DEF api, thread
<1>1. CASE OtherWriters \/ UNCHANGED vars
  <2>1. \A s \in Runs : SameCover(s)
    BY <1>1 DEF OtherWriters, LiveResult, Purge, vars, SameCover
  <2>2. QED
    BY <2>1, CoverFrame
<1>2. ASSUME Crash, NEW s \in Runs
      PROVE  CoverInv(s)'
  <2>0. TypeOK /\ RunInv(s)
    BY DEF IInv
  <2>1. rows' = rows /\ args' = args
    BY <1>2 DEF Crash
  <2>2. CASE pc[s] \in InHandler \cup InThread
    <3>1. pc'[s] = "dead"
      BY <1>2, <2>2 DEF Crash
    <3>2. rows[s].status \in {"absent", "running"}
      BY <2>0, <2>2 DEF RunInv, RowInv, InHandler
    <3>3. QED
      BY <2>1, <3>1, <3>2, NoCover
  <2>3. CASE pc[s] \notin InHandler \cup InThread
    <3>1. SameCover(s)
      BY <1>2, <2>1, <2>3 DEF Crash, SameCover
    <3>2. QED
      BY <3>1, CoverFrame
  <2>4. QED
    BY <2>2, <2>3
<1>3. QED
  BY <1>1, <1>2

\* Of the jobs that a completed run selected and that are still listed, no more are without a
\* result under its version than it counted as failures, whatever other runs and the live
\* cycle recorded and the scraper purged meanwhile (rescore_with_prompt.py:51-143).
THEOREM CandidatesCovered == Spec => []CompletedCoverage
<1>1. Init => \A s \in Runs : CoverInv(s)
  BY DEF Init, InitRuns, CoverInv, NewRow
<1>2. /\ TypeOK /\ IInv /\ (\A s \in Runs : CoverInv(s)) /\ [Next]_vars
      => (\A s \in Runs : CoverInv(s))'
  <2> SUFFICES ASSUME TypeOK, IInv, \A s \in Runs : CoverInv(s), [Next]_vars
               PROVE  \A s \in Runs : CoverInv(s)'
    OBVIOUS
  <2>0. TableStep
    BY TableSteps, PurgedStay DEF TableStep
  <2>1. ASSUME NEW r \in Runs, StartList(r) \/ CancelRead(r) \/ Handler(r) \/ ThreadStep(r)
        PROVE  \A s \in Runs : CoverInv(s)'
    BY <2>0, <2>1, HandlerCover, OuterCover, LoopCover, CrawlCover, RecordCover, BatchDoneCover
       DEF ThreadStep
  <2>2. CASE OtherWriters \/ Crash \/ UNCHANGED vars
    BY <2>0, <2>2, EnvironmentCover
  <2>3. QED
    BY <2>1, <2>2 DEF Next
<1>3. (\A s \in Runs : CoverInv(s)) => CompletedCoverage
  BY DEF CoverInv, CompletedCoverage, Unanswered, Failures
<1>4. QED
  BY <1>1, <1>2, <1>3, TypeCorrect, Inductive, PTL DEF Spec

-----------------------------------------------------------------------------
(* Sums over a finite set.  FoldFunction adds up by a recursive function on *)
(* the subsets; that there is one is shown by naming it (a sum of f is the  *)
(* number of pairs <<s, i>> with i <= f[s]), and what is claimed of it for  *)
(* every finite set holds because no smallest set can contradict it.        *)

Pick(S) == CHOOSE x \in S : TRUE
Pairs(f, S) == UNION {{s} \X (1..f[s]) : s \in S}

IsTotal(g, f, R) ==
    g = [S \in SUBSET R |-> IF S = {} THEN 0 ELSE f[Pick(S)] + g[S \ {Pick(S)}]]

LEMMA FoldIs ==
  ASSUME NEW R, NEW f \in [R -> Nat]
  PROVE  FoldFunction(LAMBDA a, b : a + b, 0, f) = (CHOOSE g : IsTotal(g, f, R))[R]
  BY DEF FoldFunction, FoldFunctionOnSet, MapThenFoldSet, IsTotal, Pick

LEMMA OnePair ==
  ASSUME NEW s, NEW n \in Nat
  PROVE  IsFiniteSet({s} \X (1..n)) /\ Cardinality({s} \X (1..n)) = n
<1>1. IsFiniteSet({s}) /\ Cardinality({s}) = 1
  BY FS_Singleton
<1>2. IsFiniteSet(1..n) /\ Cardinality(1..n) = n
  BY FS_Interval
<1>3. Cardinality({s} \X (1..n)) = Cardinality({s}) * Cardinality(1..n)
  BY <1>1, <1>2, FS_Product
<1>4. IsFiniteSet({s} \X (1..n))
  BY <1>1, <1>2, FS_Product
<1>5. QED
  BY <1>1, <1>2, <1>3, <1>4

\* A set of finite sets that has a function of every finite set in it is finite with them.
LEMMA PairsFinite ==
  ASSUME NEW R, IsFiniteSet(R), NEW f \in [R -> Nat], NEW S \in SUBSET R
  PROVE  IsFiniteSet(Pairs(f, S))
<1> DEFINE all == {{s} \X (1..f[s]) : s \in S}
           h == [s \in S |-> {s} \X (1..f[s])]
<1>1. IsFiniteSet(S)
  BY FS_Subset
<1>2. h \in Surjection(S, all)
  BY DEF Surjection
<1>3. IsFiniteSet(all)
  <2> HIDE DEF all, h
  <2>1. QED
    BY <1>1, <1>2, FS_Surjection
<1>4. \A T \in all : IsFiniteSet(T)
  <2>1. \A s \in S : f[s] \in Nat
    OBVIOUS
  <2>2. \A s \in S : IsFiniteSet({s} \X (1..f[s]))
    BY <2>1, OnePair
  <2>3. QED
    BY <2>2
<1>5. QED
  <2> HIDE DEF all
  <2>1. IsFiniteSet(UNION all)
    BY <1>3, <1>4, FS_UNION
  <2>2. QED
    BY <2>1 DEF Pairs, all

LEMMA PairsSplit ==
  ASSUME NEW R, IsFiniteSet(R), NEW f \in [R -> Nat], NEW S \in SUBSET R, NEW s \in S
  PROVE  /\ Cardinality(Pairs(f, S)) = f[s] + Cardinality(Pairs(f, S \ {s}))
         /\ Cardinality(Pairs(f, S \ {s})) \in Nat
<1> DEFINE A == {s} \X (1..f[s])
           B == Pairs(f, S \ {s})
<1>1. Pairs(f, S) = A \cup B
  BY DEF Pairs
<1>2. A \cap B = {}
  BY DEF Pairs
<1>3. IsFiniteSet(A) /\ Cardinality(A) = f[s] /\ f[s] \in Nat
  BY OnePair
<1>4. IsFiniteSet(B) /\ Cardinality(B) \in Nat
  BY PairsFinite, FS_CardinalityType
<1> HIDE DEF A, B
<1>5. Cardinality(A \cap B) = 0
  BY <1>2, FS_EmptySet
<1>6. Cardinality(A \cup B) = Cardinality(A) + Cardinality(B) - Cardinality(A \cap B)
  BY <1>3, <1>4, FS_Union
<1>7. Cardinality(A \cup B) = f[s] + Cardinality(B)
  BY <1>3, <1>4, <1>5, <1>6
<1>8. QED
  BY <1>1, <1>4, <1>7 DEF B

LEMMA TotalExists ==
  ASSUME NEW R, IsFiniteSet(R), NEW f \in [R -> Nat]
  PROVE  IsTotal(CHOOSE g : IsTotal(g, f, R), f, R)
<1> DEFINE g == [S \in SUBSET R |-> Cardinality(Pairs(f, S))]
<1>1. ASSUME NEW S \in SUBSET R
      PROVE  g[S] = IF S = {} THEN 0 ELSE f[Pick(S)] + g[S \ {Pick(S)}]
  <2>1. CASE S = {}
    <3>1. Pairs(f, S) = {}
      BY <2>1 DEF Pairs
    <3>2. QED
      BY <2>1, <3>1, FS_EmptySet
  <2>2. CASE S # {}
    <3>1. Pick(S) \in S
      BY <2>2 DEF Pick
    <3>2. Cardinality(Pairs(f, S)) = f[Pick(S)] + Cardinality(Pairs(f, S \ {Pick(S)}))
      BY <3>1, PairsSplit
    <3>3. QED
      BY <2>2, <3>2
  <2>3. QED
    BY <2>1, <2>2
<1>2. g = [S \in SUBSET R |-> IF S = {} THEN 0 ELSE f[Pick(S)] + g[S \ {Pick(S)}]]
  <2>1. \A S \in SUBSET R : g[S] = IF S = {} THEN 0 ELSE f[Pick(S)] + g[S \ {Pick(S)}]
    BY <1>1
  <2> DEFINE h == [S \in SUBSET R |-> IF S = {} THEN 0 ELSE f[Pick(S)] + g[S \ {Pick(S)}]]
  <2>2. \A S \in SUBSET R : g[S] = h[S]
    BY <2>1
  <2>3. g = h
    BY <2>2
  <2>4. QED
    BY <2>3
<1>3. \E x : IsTotal(x, f, R)
  BY <1>2 DEF IsTotal
<1>4. QED
  BY <1>3

Owned(own, S) == UNION {own[s] : s \in S}

\* The sum of a function is no more than what its arguments own, when each owns no less than
\* its value and no two own the same.
LEMMA SumBacked ==
  ASSUME NEW R, IsFiniteSet(R), NEW f \in [R -> Nat],
         NEW C, IsFiniteSet(C), NEW own \in [R -> SUBSET C],
         \A s \in R : f[s] <= Cardinality(own[s]),
         \A s, t \in R : s # t => own[s] \cap own[t] = {}
  PROVE  FoldFunction(LAMBDA a, b : a + b, 0, f) <= Cardinality(C)
<1> DEFINE g == CHOOSE x : IsTotal(x, f, R)
           Good(S) == g[S] \in Nat /\ g[S] <= Cardinality(Owned(own, S))
           bad == {S \in SUBSET R : ~Good(S)}
<1>1. IsTotal(g, f, R)
  BY TotalExists
<1> HIDE DEF g
<1>2. \A S \in SUBSET R : g[S] = IF S = {} THEN 0 ELSE f[Pick(S)] + g[S \ {Pick(S)}]
  <2> DEFINE h == [S \in SUBSET R |-> IF S = {} THEN 0 ELSE f[Pick(S)] + g[S \ {Pick(S)}]]
  <2>1. g = h
    BY <1>1 DEF IsTotal
  <2>2. \A S \in SUBSET R : h[S] = IF S = {} THEN 0 ELSE f[Pick(S)] + g[S \ {Pick(S)}]
    OBVIOUS
  <2> HIDE DEF h
  <2>3. QED
    BY <2>1, <2>2
<1>3. \A S \in SUBSET R : Owned(own, S) \in SUBSET C
  BY DEF Owned
<1>4. bad = {}
  <2> SUFFICES ASSUME bad # {} PROVE FALSE
    OBVIOUS
  <2>1. IsWellFoundedOn(StrictSubsetOrdering(R), SUBSET R)
    BY FS_StrictSubsetOrderingWellFounded, FS_FiniteSubsetsOfFinite
  <2>2. bad \subseteq SUBSET R
    OBVIOUS
  <2>3. PICK S \in bad : \A T \in bad : <<T, S>> \notin StrictSubsetOrdering(R)
    <3> HIDE DEF bad
    <3>1. QED
      BY <2>1, <2>2, WFMin
  <2>4. S \in SUBSET R /\ ~Good(S)
    OBVIOUS
  <2>5. CASE S = {}
    <3>1. Owned(own, S) = {}
      BY <2>5 DEF Owned
    <3>2. g[S] = 0 /\ Cardinality(Owned(own, S)) = 0
      BY <1>2, <2>4, <2>5, <3>1, FS_EmptySet
    <3>3. QED
      BY <2>4, <3>2
  <2>6. CASE S # {}
    <3> DEFINE s == Pick(S)
               T == S \ {s}
    <3>1. s \in S /\ s \in R
      BY <2>4, <2>6 DEF Pick
    <3>2. g[S] = f[s] + g[T]
      BY <1>2, <2>4, <2>6
    <3> HIDE DEF s
    <3>3. T \in SUBSET R /\ <<T, S>> \in StrictSubsetOrdering(R)
      BY <2>4, <3>1 DEF StrictSubsetOrdering
    <3>4. Good(T)
      BY <2>3, <3>3
    <3>5. Owned(own, S) = own[s] \cup Owned(own, T)
      BY <3>1 DEF Owned
    <3>6. own[s] \cap Owned(own, T) = {}
      BY <2>4, <3>1 DEF Owned
    <3>7. /\ IsFiniteSet(own[s]) /\ Cardinality(own[s]) \in Nat
          /\ IsFiniteSet(Owned(own, T)) /\ Cardinality(Owned(own, T)) \in Nat
      BY <1>3, <3>1, <3>3, FS_Subset, FS_CardinalityType
    <3>8. Cardinality(own[s] \cap Owned(own, T)) = 0
      BY <3>6, FS_EmptySet
    <3>9. Cardinality(Owned(own, S)) = Cardinality(own[s]) + Cardinality(Owned(own, T))
      <4>1. Cardinality(own[s] \cup Owned(own, T))
              = Cardinality(own[s]) + Cardinality(Owned(own, T)) - Cardinality(own[s] \cap Owned(own, T))
        BY <3>7, FS_Union
      <4>2. QED
        BY <3>5, <3>7, <3>8, <4>1
    <3>10. f[s] \in Nat /\ f[s] <= Cardinality(own[s])
      BY <3>1
    <3>11. g[T] \in Nat /\ g[T] <= Cardinality(Owned(own, T))
      BY <3>4
    <3> HIDE DEF T
    <3>12. g[S] \in Nat /\ g[S] <= Cardinality(Owned(own, S))
      BY <3>2, <3>7, <3>9, <3>10, <3>11
    <3>13. QED
      BY <2>4, <3>12
  <2>7. QED
    BY <2>5, <2>6
<1>5. g[R] \in Nat /\ g[R] <= Cardinality(Owned(own, R))
  BY <1>4
<1>6. Cardinality(Owned(own, R)) <= Cardinality(C) /\ Cardinality(Owned(own, R)) \in Nat
      /\ Cardinality(C) \in Nat
  BY <1>3, FS_Subset, FS_CardinalityType
<1>7. FoldFunction(LAMBDA a, b : a + b, 0, f) = g[R]
  BY FoldIs DEF g
<1>8. g[R] <= Cardinality(C)
  BY <1>5, <1>6
<1>9. QED
  BY <1>7, <1>8, Zenon

-----------------------------------------------------------------------------
(* Every counted result is in the table. *)

Working == InThread \ {"spawned"}
InHand(r) == mem[r].counts.rescored + tally[r].rescored

\* A step that gives run s nothing more to answer for.
NoMore(s) ==
    /\ \/ rows'[s].counts.rescored <= rows[s].counts.rescored
       \/ pc[s] \in Working /\ rows'[s].counts.rescored <= InHand(s)
    /\ pc'[s] \in Working =>
          \/ pc[s] \in Working /\ InHand(s)' <= InHand(s)
          \/ InHand(s)' <= rows[s].counts.rescored

LEMMA ClaimTypes ==
  ASSUME TypeOK, NEW s \in Runs
  PROVE  /\ mem[s].counts.rescored \in Nat /\ tally[s].rescored \in Nat
         /\ rows[s].counts.rescored \in Nat /\ InHand(s) \in Nat
<1>1. mem[s].counts \in Counters /\ tally[s] \in Counters /\ rows[s].counts \in Counters
  BY DEF TypeOK, Row
<1>2. QED
  BY <1>1 DEF Counters, InHand

LEMMA Finite ==
  /\ IsFiniteSet(Jobs \X Targets)
  /\ \A S \in SUBSET (Jobs \X Targets) : IsFiniteSet(S) /\ Cardinality(S) \in Nat
<1>1. IsFiniteSet(Jobs \X Targets)
  BY JobsAssumption, FiniteAssumption, FS_Product
<1>2. QED
  BY <1>1, FS_Subset, FS_CardinalityType

\* What a run owns of the results stays its own.
LEMMA OwnedStays ==
  ASSUME TypeOK, [MT!TableNext]_matches,
         NEW S \in SUBSET {c \in Jobs \X Targets : matches[c] \in MT!Scored}
  PROVE  S \in SUBSET {c \in Jobs \X Targets : matches'[c] \in MT!Scored}
<1>1. ASSUME NEW c \in S PROVE matches'[c] = matches[c]
  <2>1. c \in Jobs \X Versions /\ matches[c] # "none"
    BY VersionAssumption
  <2>2. QED
    BY <2>1, ResultsStay
<1>2. QED
  BY <1>1

LEMMA ClaimsStay ==
  ASSUME IInv, TypeOK', ScoreInv, [MT!TableNext]_matches, \A s \in Runs : NoMore(s)
  PROVE  \E own \in [Runs -> SUBSET (Jobs \X Targets)] : \A s \in Runs : ClaimInv(s, own)'
<1>1. PICK own \in [Runs -> SUBSET (Jobs \X Targets)] : \A s \in Runs : ClaimInv(s, own)
  BY DEF ScoreInv
<1>2. ASSUME NEW s \in Runs PROVE ClaimInv(s, own)'
  <2>1. ClaimInv(s, own)
    BY <1>1
  <2>2. own[s] \subseteq {c \in Jobs \X Targets : matches'[c] \in MT!Scored}
    BY <2>1, OwnedStays DEF IInv, ClaimInv
  <2>3. /\ rows[s].counts.rescored \in Nat /\ InHand(s) \in Nat
        /\ rows'[s].counts.rescored \in Nat /\ InHand(s)' \in Nat
    <3>1. /\ mem'[s].counts \in Counters /\ tally'[s] \in Counters
          /\ rows'[s].counts \in Counters
      BY DEF TypeOK, Row
    <3>2. rows'[s].counts.rescored \in Nat /\ InHand(s)' \in Nat
      BY <3>1 DEF Counters, InHand
    <3>3. QED
      BY <3>2, ClaimTypes DEF IInv
  <2>4. Cardinality(own[s]) \in Nat
    BY Finite
  <2>5. /\ rows[s].counts.rescored <= Cardinality(own[s])
        /\ pc[s] \in Working => InHand(s) <= Cardinality(own[s])
    BY <2>1 DEF ClaimInv, Working, InHand
  <2>6. rows'[s].counts.rescored <= Cardinality(own[s])
    <3> DEFINE a == rows'[s].counts.rescored
               b == rows[s].counts.rescored
    <3>1. a <= b \/ (pc[s] \in Working /\ a <= InHand(s))
      BY DEF NoMore
    <3> HIDE DEF a, b
    <3>2. a \in Nat /\ b \in Nat /\ b <= Cardinality(own[s])
      BY <2>3, <2>5 DEF a, b
    <3>3. a <= Cardinality(own[s])
      BY <2>3, <2>4, <2>5, <3>1, <3>2
    <3>4. QED
      BY <3>3 DEF a
  <2>7. pc'[s] \in Working => InHand(s)' <= Cardinality(own[s])
    <3> DEFINE a == InHand(s)'
               b == rows[s].counts.rescored
    <3>1. pc'[s] \in Working => (pc[s] \in Working /\ a <= InHand(s)) \/ a <= b
      BY DEF NoMore
    <3> HIDE DEF a, b
    <3>2. a \in Nat /\ b \in Nat /\ b <= Cardinality(own[s])
      BY <2>3, <2>5 DEF a, b
    <3>3. pc'[s] \in Working => a <= Cardinality(own[s])
      BY <2>3, <2>4, <2>5, <3>1, <3>2
    <3>4. QED
      BY <3>3 DEF a
  <2>8. QED
    BY <2>1, <2>2, <2>6, <2>7 DEF ClaimInv, Working, InHand
<1>3. QED
  BY <1>2

\* A step of r that gives it nothing more to answer for, nor anybody else.
LEMMA OwnClaim ==
  ASSUME IInv, NEW r \in Runs, NoMore(r), \A s \in Runs \ {r} : Same(s)
  PROVE  \A s \in Runs : NoMore(s)
<1>1. ASSUME NEW s \in Runs, Same(s) PROVE NoMore(s)
  <2>1. rows[s].counts.rescored \in Nat /\ InHand(s) \in Nat
    BY ClaimTypes DEF IInv
  <2>2. InHand(s)' = InHand(s) /\ rows'[s] = rows[s] /\ pc'[s] = pc[s]
    BY <1>1 DEF Same, InHand
  <2>3. /\ rows'[s].counts.rescored <= rows[s].counts.rescored
        /\ InHand(s)' <= InHand(s)
    BY <2>1, <2>2
  <2>4. QED
    BY <2>2, <2>3 DEF NoMore
<1>2. QED
  BY <1>1

LEMMA OuterClaims ==
  ASSUME IInv, NEW r \in Runs,
         \/ StartRun(r) \/ Fetch(r) \/ Select(r) \/ Fail(r) \/ Finish(r) \/ LoseThread(r)
         \/ NoticeCancel(r) \/ NextBatch(r) \/ Complete(r) \/ Score(r)
  PROVE  \A s \in Runs : NoMore(s)
<1> USE DEF Goto, SaveStatus, DropBatch, api, thread
<1>0. /\ TypeOK /\ RunInv(r) /\ mem[r] \in Row /\ rows[r] \in Row
      /\ mem[r].counts.rescored \in Nat /\ tally[r].rescored \in Nat
      /\ rows[r].counts.rescored \in Nat /\ InHand(r) \in Nat
      /\ NoCounts.rescored = 0
  BY ClaimTypes DEF IInv, TypeOK, NoCounts
<1>1. CASE StartRun(r)
  <2>1. \A s \in Runs \ {r} : Same(s)
    BY <1>0, <1>1 DEF StartRun, TypeOK, Same
  <2>2. pc'[r] = "spawned" /\ rows'[r].counts.rescored = 0
    BY <1>0, <1>1 DEF StartRun, TypeOK, NewRow
  <2>3. rows'[r].counts.rescored <= rows[r].counts.rescored
    BY <1>0, <2>2
  <2>4. NoMore(r)
    BY <2>2, <2>3 DEF NoMore, Working, InThread
  <2>5. QED
    BY <2>1, <2>4, OwnClaim
<1>2. CASE Fetch(r)
  <2>1. \A s \in Runs \ {r} : Same(s)
    BY <1>0, <1>2 DEF Fetch, TypeOK, Same
  <2>2. rows'[r] = rows[r] /\ mem'[r] = rows[r] /\ tally'[r] = NoCounts
    BY <1>0, <1>2 DEF Fetch, TypeOK, RunInv, BatchInv
  <2>3. /\ rows'[r].counts.rescored <= rows[r].counts.rescored
        /\ InHand(r)' <= rows[r].counts.rescored
    BY <1>0, <2>2 DEF InHand
  <2>4. NoMore(r)
    BY <2>3 DEF NoMore
  <2>5. QED
    BY <2>1, <2>4, OwnClaim
<1>3. CASE Select(r)
  <2>1. PICK list \in Selections(args[r].version, EffectiveLimit(args[r].limit)) :
          LET status == [mem[r] EXCEPT !.candidates = Len(list)] IN
          /\ cand' = [cand EXCEPT ![r] = list]
          /\ \/ /\ mem' = [mem EXCEPT ![r] = status]
                /\ rows' = [rows EXCEPT ![r] = status]
             \/ /\ mem' = [mem EXCEPT ![r] = [status EXCEPT !.status = "failed"]]
                /\ UNCHANGED rows
    BY <1>3 DEF Select
  <2>2. \A s \in Runs \ {r} : Same(s)
    BY <1>0, <1>3, <2>1 DEF Select, TypeOK, Same
  <2>3. /\ pc[r] \in Working /\ tally'[r] = tally[r]
        /\ mem'[r].counts = mem[r].counts
        /\ rows'[r].counts = mem[r].counts \/ rows'[r].counts = rows[r].counts
    <3> DEFINE status == [mem[r] EXCEPT !.candidates = Len(list)]
    <3>1. /\ status.counts = mem[r].counts
          /\ [status EXCEPT !.status = "failed"].counts = mem[r].counts
      BY <1>0 DEF Row
    <3>2. /\ mem'[r] \in {status, [status EXCEPT !.status = "failed"]}
          /\ rows'[r] \in {rows[r], status}
      BY <1>0, <2>1 DEF TypeOK
    <3> HIDE DEF status
    <3>3. mem'[r].counts = mem[r].counts
      BY <3>1, <3>2
    <3>4. rows'[r].counts = mem[r].counts \/ rows'[r].counts = rows[r].counts
      BY <3>1, <3>2
    <3>5. pc[r] \in Working /\ tally'[r] = tally[r]
      BY <1>0, <1>3 DEF Select, TypeOK, Working, InThread
    <3>6. QED
      BY <3>3, <3>4, <3>5
  <2>4. /\ mem[r].counts.rescored <= InHand(r) /\ InHand(r)' = InHand(r)
        /\ rows[r].counts.rescored <= rows[r].counts.rescored /\ InHand(r) <= InHand(r)
    BY <1>0, <2>3 DEF InHand
  <2>5. NoMore(r)
    BY <2>3, <2>4 DEF NoMore
  <2>6. QED
    BY <2>2, <2>5, OwnClaim
<1>4. CASE Fail(r) \/ NoticeCancel(r) \/ NextBatch(r) \/ Complete(r) \/ Score(r)
  <2>1. \A s \in Runs \ {r} : Same(s)
    BY <1>0, <1>4 DEF Fail, NoticeCancel, NextBatch, Complete, Score, TypeOK, Same
  <2>2. /\ pc[r] \in Working /\ tally'[r] \in {tally[r], NoCounts}
        /\ mem'[r].counts = mem[r].counts /\ rows'[r] = rows[r]
    <3>1. CASE Fail(r)
      BY <1>0, <3>1 DEF Fail, TypeOK, Working, InThread, Row
    <3>2. CASE NoticeCancel(r)
      BY <1>0, <3>2 DEF NoticeCancel, TypeOK, Working, InThread, Row
    <3>3. CASE NextBatch(r) \/ Complete(r) \/ Score(r)
      BY <1>0, <3>3 DEF NextBatch, Complete, Score, TypeOK, Working, InThread, Row
    <3>4. QED
      BY <1>4, <3>1, <3>2, <3>3
  <2>3. tally'[r].rescored \in {tally[r].rescored, 0}
    BY <1>0, <2>2
  <2>4. /\ rows'[r].counts.rescored <= rows[r].counts.rescored
        /\ InHand(r)' <= InHand(r)
    BY <1>0, <2>2, <2>3 DEF InHand
  <2>5. NoMore(r)
    BY <2>2, <2>4 DEF NoMore
  <2>6. QED
    BY <2>1, <2>5, OwnClaim
<1>5. CASE Finish(r)
  <2>1. \A s \in Runs \ {r} : Same(s)
    BY <1>0, <1>5 DEF Finish, TypeOK, Same
  <2>2. pc[r] \in Working /\ pc'[r] \notin Working /\ rows'[r] = mem[r]
    BY <1>0, <1>5 DEF Finish, TypeOK, Working, InThread
  <2>3. rows'[r].counts.rescored <= InHand(r)
    BY <1>0, <2>2 DEF InHand
  <2>4. NoMore(r)
    BY <2>2, <2>3 DEF NoMore
  <2>5. QED
    BY <2>1, <2>4, OwnClaim
<1>6. CASE LoseThread(r)
  <2>1. \A s \in Runs \ {r} : Same(s)
    BY <1>0, <1>6 DEF LoseThread, TypeOK, Same
  <2>2. pc'[r] \notin Working /\ rows'[r] = rows[r]
    BY <1>0, <1>6 DEF LoseThread, TypeOK, Working, InThread
  <2>3. rows'[r].counts.rescored <= rows[r].counts.rescored
    BY <1>0, <2>2
  <2>4. NoMore(r)
    BY <2>2, <2>3 DEF NoMore
  <2>5. QED
    BY <2>1, <2>4, OwnClaim
<1>7. QED
  BY <1>1, <1>2, <1>3, <1>4, <1>5, <1>6

\* Counting anything but a result of its own leaves a run with no more to answer for.
LEMMA BatchClaims ==
  ASSUME IInv, NEW r \in Runs,
         \/ CrawlOk(r) \/ CrawlNotFound(r) \/ CrawlFailed(r) \/ RecordMissing(r)
         \/ RecordScored(r) /\ UNCHANGED tally
         \/ BatchDone(r)
  PROVE  \A s \in Runs : NoMore(s)
<1> USE DEF api, thread
<1>0. /\ TypeOK /\ mem[r] \in Row /\ rows[r] \in Row
      /\ mem[r].counts.rescored \in Nat /\ tally[r].rescored \in Nat
      /\ rows[r].counts.rescored \in Nat /\ InHand(r) \in Nat
      /\ NoCounts.rescored = 0
  BY ClaimTypes DEF IInv, TypeOK, NoCounts
<1>1. \A c \in {NotFound, CrawlError, Errored} : c.rescored = 0
  BY DEF NotFound, CrawlError, Errored, NoCounts
<1>2. ASSUME UNCHANGED <<rows, mem, pc, asked, toAsk, cand>>, pc[r] \in Working,
             \A s \in Runs \ {r} : pos'[s] = pos[s] /\ crawled'[s] = crawled[s],
             UNCHANGED tally \/ \E c \in {NotFound, CrawlError, Errored} : Count(r, c)
      PROVE  \A s \in Runs : NoMore(s)
  <2>1. \A s \in Runs \ {r} : tally'[s] = tally[s]
    BY <1>0, <1>2 DEF Count, TypeOK
  <2>2. \A s \in Runs \ {r} : Same(s)
    BY <1>2, <2>1 DEF Same
  <2>3. tally'[r].rescored = tally[r].rescored
    <3>1. CASE UNCHANGED tally
      BY <3>1
    <3>2. ASSUME NEW c \in {NotFound, CrawlError, Errored}, Count(r, c)
          PROVE  tally'[r].rescored = tally[r].rescored
      <4>1. tally'[r].rescored = tally[r].rescored + c.rescored
        BY <1>0, <3>2 DEF Count, TypeOK, Sum
      <4>2. QED
        BY <1>0, <1>1, <4>1
    <3>3. QED
      BY <1>2, <3>1, <3>2
  <2>4. /\ rows'[r].counts.rescored <= rows[r].counts.rescored
        /\ InHand(r)' <= InHand(r)
    BY <1>0, <1>2, <2>3 DEF InHand
  <2>5. NoMore(r)
    BY <1>2, <2>4 DEF NoMore
  <2>6. QED
    BY <2>2, <2>5, OwnClaim
<1>3. CASE CrawlOk(r)
  BY <1>0, <1>2, <1>3 DEF CrawlOk, CrawlStep, TypeOK, Working, InThread
<1>4. CASE CrawlNotFound(r) \/ CrawlFailed(r)
  BY <1>0, <1>2, <1>4 DEF CrawlNotFound, CrawlFailed, CrawlStep, TypeOK, Working, InThread
<1>5. CASE RecordMissing(r)
  BY <1>0, <1>2, <1>5 DEF RecordMissing, RecordStep, TypeOK, Working, InThread
<1>6. CASE RecordScored(r) /\ UNCHANGED tally
  BY <1>0, <1>2, <1>6 DEF RecordScored, RecordStep, TypeOK, Working, InThread
<1>7. CASE BatchDone(r)
  <2>1. \A s \in Runs \ {r} : Same(s)
    BY <1>0, <1>7 DEF BatchDone, SaveStatus, Goto, DropBatch, TypeOK, Same
  <2>2. Tallied(r).counts.rescored = InHand(r)
    BY <1>0 DEF Tallied, Sum, InHand, Row
  <2>3. pc[r] \in Working /\ tally'[r] = NoCounts
    BY <1>0, <1>7 DEF BatchDone, DropBatch, TypeOK, Working, InThread
  <2>4. /\ mem'[r].counts = Tallied(r).counts
        /\ rows'[r] = rows[r] \/ rows'[r] = Tallied(r)
    <3>1. Tallied(r) \in Row
      BY <1>0, TalliedType
    <3>2. QED
      BY <1>0, <1>7, <3>1 DEF BatchDone, SaveStatus, TypeOK, Row
  <2>5. InHand(r)' = InHand(r)
    BY <1>0, <2>2, <2>3, <2>4 DEF InHand
  <2>6. /\ rows[r].counts.rescored <= rows[r].counts.rescored
        /\ InHand(r)' <= InHand(r) /\ Tallied(r).counts.rescored <= InHand(r)
    BY <1>0, <2>2, <2>5
  <2>7. NoMore(r)
    BY <2>3, <2>4, <2>6 DEF NoMore
  <2>8. QED
    BY <2>1, <2>7, OwnClaim
<1>8. QED
  BY <1>3, <1>4, <1>5, <1>6, <1>7

LEMMA HandlerClaims ==
  ASSUME IInv, NEW r \in Runs, StartList(r) \/ CancelRead(r) \/ StartAsk(r) \/ CancelWrite(r)
  PROVE  \A s \in Runs : NoMore(s)
<1>0. TypeOK
  BY DEF IInv
<1>1. \A s \in Runs : rows'[s].counts = rows[s].counts /\ mem'[s] = mem[s] /\ tally'[s] = tally[s]
  <2>1. CASE StartList(r) \/ CancelRead(r)
    BY <2>1 DEF StartList, CancelRead, thread
  <2>2. CASE StartAsk(r)
    <3>1. PICK s \in toAsk[r] : RequestCancel(s, r)
      BY <2>2 DEF StartAsk
    <3>2. s \in Runs /\ UNCHANGED <<mem, thread>>
      BY <1>0, <2>2, <3>1 DEF StartAsk, TypeOK
    <3>3. QED
      BY <1>0, <3>1, <3>2 DEF RequestCancel, TypeOK, Row, thread
  <2>3. CASE CancelWrite(r)
    BY <1>0, <2>3 DEF CancelWrite, RequestCancel, TypeOK, Row, thread
  <2>4. QED
    BY <2>1, <2>2, <2>3
<1>2. \A s \in Runs : pc'[s] \in Working => pc[s] \in Working
  BY <1>0 DEF StartList, CancelRead, StartAsk, CancelWrite, Goto, TypeOK, Working, InThread
<1>3. ASSUME NEW s \in Runs PROVE NoMore(s)
  <2>1. InHand(s)' = InHand(s) /\ InHand(s) \in Nat /\ rows[s].counts.rescored \in Nat
    BY <1>0, <1>1, ClaimTypes DEF InHand
  <2>2. InHand(s)' <= InHand(s) /\ rows'[s].counts.rescored <= rows[s].counts.rescored
    BY <1>1, <2>1
  <2>3. QED
    BY <1>2, <2>2 DEF NoMore
<1>4. QED
  BY <1>3

LEMMA EnvironmentClaims ==
  ASSUME IInv, OtherWriters \/ Crash \/ UNCHANGED vars
  PROVE  \A s \in Runs : NoMore(s)
<1>0. TypeOK
  BY DEF IInv
<1> TAKE s \in Runs
<1>1. rows' = rows
  BY DEF OtherWriters, LiveResult, Purge, Crash, vars
<1>2. pc'[s] \in Working => pc[s] \in Working /\ mem'[s] = mem[s] /\ tally'[s] = tally[s]
  <2>1. CASE OtherWriters \/ UNCHANGED vars
    BY <2>1 DEF OtherWriters, LiveResult, Purge, vars, thread
  <2>2. CASE Crash
    BY <2>2 DEF Crash, Working, InThread
  <2>3. QED
    BY <2>1, <2>2
<1>3. InHand(s) \in Nat /\ rows[s].counts.rescored \in Nat
  BY <1>0, ClaimTypes
<1>4. rows'[s].counts.rescored <= rows[s].counts.rescored
  BY <1>1, <1>3
<1>5. pc'[s] \in Working => InHand(s)' <= InHand(s)
  BY <1>2, <1>3 DEF InHand
<1>6. QED
  BY <1>2, <1>4, <1>5 DEF NoMore

\* An INSERT that went through gives the run that counts it one more result of its own.
LEMMA NewClaim ==
  ASSUME IInv, ScoreInv, [MT!TableNext]_matches, NEW r \in Runs,
         RecordScored(r), Accepted(Head(crawled[r]), args[r].version)
  PROVE  \E own \in [Runs -> SUBSET (Jobs \X Targets)] : \A s \in Runs : ClaimInv(s, own)'
<1>0. /\ TypeOK /\ crawled[r] \in Seq(Jobs)
      /\ mem[r].counts.rescored \in Nat /\ tally[r].rescored \in Nat
      /\ rows[r].counts.rescored \in Nat /\ InHand(r) \in Nat
  BY ClaimTypes DEF IInv, TypeOK
<1>1. PICK own \in [Runs -> SUBSET (Jobs \X Targets)] : \A s \in Runs : ClaimInv(s, own)
  BY DEF ScoreInv
<1>2. /\ RecordStep(r) /\ Count(r, Rescored)
      /\ \E y \in MT!Scored : RecordJobResult(Head(crawled[r]), args[r].version, y)
  BY DEF RecordScored
<1>3. PICK c \in Jobs \X Targets : c = <<Head(crawled[r]), args[r].version>>
  <2>1. Head(crawled[r]) \in Jobs
    BY <1>0, <1>2 DEF RecordStep
  <2>2. args[r].version \in Targets
    BY <1>2 DEF RecordStep, ScoreInv
  <2>3. QED
    BY <2>1, <2>2
<1>4. matches[c] = "none" /\ matches'[c] \in MT!Scored
  <2>1. c \in Jobs \X Versions
    BY VersionAssumption
  <2>2. QED
    BY <1>0, <1>2, <1>3, <2>1 DEF Accepted, Fresh, RecordJobResult, TypeOK, MT!TableTypeOK
<1>5. \A s \in Runs : c \notin own[s] /\ IsFiniteSet(own[s]) /\ Cardinality(own[s]) \in Nat
  BY <1>1, <1>4, Finite DEF ClaimInv
<1> DEFINE more == [own EXCEPT ![r] = @ \cup {c}]
<1>6. more \in [Runs -> SUBSET (Jobs \X Targets)]
  BY <1>3
<1>7. /\ more[r] = own[r] \cup {c}
      /\ \A s \in Runs \ {r} : more[s] = own[s]
  OBVIOUS
<1>8. Cardinality(more[r]) = Cardinality(own[r]) + 1
  BY <1>5, <1>7, FS_AddElement
<1> HIDE DEF more
<1>9. UNCHANGED <<rows, mem, pc>>
  BY <1>2 DEF RecordStep
<1>10. tally'[r].rescored = tally[r].rescored + 1 /\ \A s \in Runs \ {r} : tally'[s] = tally[s]
  <2>1. tally'[r] = Sum(tally[r], Rescored) /\ Rescored.rescored = 1
    BY <1>0, <1>2 DEF Count, TypeOK, Rescored, NoCounts
  <2>2. tally'[r].rescored = tally[r].rescored + 1
    BY <2>1 DEF Sum
  <2>3. QED
    BY <1>0, <1>2, <2>2 DEF Count, TypeOK
<1>11. ASSUME NEW s \in Runs PROVE more[s] \subseteq {d \in Jobs \X Targets : matches'[d] \in MT!Scored}
  <2>1. own[s] \in SUBSET {d \in Jobs \X Targets : matches[d] \in MT!Scored}
    BY <1>1 DEF ClaimInv
  <2>2. own[s] \in SUBSET {d \in Jobs \X Targets : matches'[d] \in MT!Scored}
    BY <1>0, <2>1, OwnedStays
  <2>3. QED
    BY <1>4, <1>7, <2>2
<1>12. ASSUME NEW s \in Runs, NEW t \in Runs \ {s} PROVE more[s] \cap more[t] = {}
  <2>1. own[s] \cap own[t] = {} /\ c \notin own[s] /\ c \notin own[t]
    BY <1>1, <1>5 DEF ClaimInv
  <2>2. QED
    BY <1>7, <2>1
<1>13. ClaimInv(r, more)'
  <2>1. /\ rows[r].counts.rescored <= Cardinality(own[r])
        /\ pc[r] \in Working => InHand(r) <= Cardinality(own[r])
    BY <1>1 DEF ClaimInv, Working, InHand
  <2>2. InHand(r)' = InHand(r) + 1
    BY <1>0, <1>9, <1>10 DEF InHand
  <2>3. /\ rows[r].counts.rescored <= Cardinality(more[r])
        /\ pc[r] \in Working => InHand(r)' <= Cardinality(more[r])
    BY <1>0, <1>5, <1>8, <2>1, <2>2
  <2>4. QED
    BY <1>9, <1>11, <1>12, <2>3 DEF ClaimInv, Working, InHand
<1>14. ASSUME NEW s \in Runs \ {r} PROVE ClaimInv(s, more)'
  <2>1. ClaimInv(s, own) /\ more[s] = own[s]
    BY <1>1, <1>7
  <2>2. QED
    BY <1>9, <1>10, <1>11, <1>12, <2>1 DEF ClaimInv
<1>15. \A s \in Runs : ClaimInv(s, more)'
  BY <1>13, <1>14
<1>16. QED
  BY <1>6, <1>15

\* A thread works for a version that a client asked for.
LEMMA TargetsStay ==
  ASSUME TypeOK, ScoreInv, [Next]_vars, NEW s \in Runs, pc'[s] # "idle"
  PROVE  args'[s].version \in Targets
<1> USE DEF api
<1>1. ASSUME NEW r \in Runs, StartList(r) PROVE args'[s].version \in Targets
  <2>1. PICK v \in Targets, n \in Limits : args' = [args EXCEPT ![r] = [version |-> v, limit |-> n]]
    BY <1>1 DEF StartList
  <2>2. CASE s = r
    BY <2>1, <2>2 DEF TypeOK
  <2>3. CASE s # r
    BY <1>1, <2>1, <2>3 DEF StartList, Goto, TypeOK, ScoreInv
  <2>4. QED
    BY <2>2, <2>3
<1>2. ASSUME args' = args, pc[s] # "idle" PROVE args'[s].version \in Targets
  BY <1>2 DEF ScoreInv
<1>3. ASSUME NEW r \in Runs, CancelRead(r) \/ Handler(r)
      PROVE  args' = args /\ pc[s] # "idle"
  BY <1>3 DEF CancelRead, Handler, StartAsk, StartRun, CancelWrite, Goto, TypeOK
<1>4. ASSUME NEW r \in Runs, ThreadStep(r)
      PROVE  args' = args /\ pc[s] # "idle"
  <2>1. args' = args
    BY <1>4 DEF ThreadStep, Fetch, Select, Fail, Finish, LoseThread, NoticeCancel, NextBatch,
       Complete, CrawlOk, CrawlNotFound, CrawlFailed, CrawlStep, Score, RecordScored,
       RecordMissing, RecordStep, BatchDone
  <2>2. pc[r] # "idle"
    BY <1>4 DEF ThreadStep, Fetch, Select, Fail, Finish, LoseThread, NoticeCancel, NextBatch,
       Complete, CrawlOk, CrawlNotFound, CrawlFailed, CrawlStep, Score, RecordScored,
       RecordMissing, RecordStep, BatchDone
  <2>3. \E p : pc' = [pc EXCEPT ![r] = p]
    <3>1. CASE UNCHANGED pc
      BY <3>1 DEF TypeOK
    <3>2. CASE ~UNCHANGED pc
      BY <1>4, <3>2 DEF ThreadStep, Fetch, Select, Fail, Finish, LoseThread, NoticeCancel,
         NextBatch, Complete, CrawlOk, CrawlNotFound, CrawlFailed, CrawlStep, Score,
         RecordScored, RecordMissing, RecordStep, BatchDone, Goto
    <3>3. QED
      BY <3>1, <3>2
  <2>4. QED
    BY <2>1, <2>2, <2>3 DEF TypeOK
<1>5. CASE OtherWriters \/ Crash \/ UNCHANGED vars
  <2>1. CASE OtherWriters \/ UNCHANGED vars
    BY <2>1, <1>2 DEF OtherWriters, LiveResult, Purge, vars
  <2>2. CASE Crash
    <3>1. args' = args
      BY <2>2 DEF Crash
    <3>2. pc[s] = "idle" => pc'[s] = "idle"
      BY <2>2 DEF Crash, InHandler, InThread
    <3>3. QED
      BY <3>1, <3>2, <1>2
  <2>3. QED
    BY <1>5, <2>1, <2>2
<1>6. QED
  BY <1>1, <1>2, <1>3, <1>4, <1>5 DEF Next

LEMMA ScoreStep ==
  ASSUME IInv, TypeOK', ScoreInv, [Next]_vars
  PROVE  ScoreInv'
<1>0. [MT!TableNext]_matches
  BY TableSteps DEF IInv
<1>1. \A s \in Runs : pc'[s] # "idle" => args'[s].version \in Targets
  BY TargetsStay DEF IInv
<1>2. \E own \in [Runs -> SUBSET (Jobs \X Targets)] : \A s \in Runs : ClaimInv(s, own)'
  <2>1. ASSUME NEW r \in Runs, RecordScored(r), Accepted(Head(crawled[r]), args[r].version)
        PROVE  \E own \in [Runs -> SUBSET (Jobs \X Targets)] : \A s \in Runs : ClaimInv(s, own)'
    BY <1>0, <2>1, NewClaim
  <2>2. ASSUME NEW r \in Runs, RecordScored(r), ~Accepted(Head(crawled[r]), args[r].version)
        PROVE  \A s \in Runs : NoMore(s)
    BY <2>2, BatchClaims DEF RecordScored
  <2>3. ASSUME NEW r \in Runs, StartList(r) \/ CancelRead(r) \/ Handler(r) \/ ThreadStep(r),
               ~RecordScored(r)
        PROVE  \A s \in Runs : NoMore(s)
    BY <2>3, HandlerClaims, OuterClaims, BatchClaims DEF Handler, ThreadStep
  <2>4. CASE OtherWriters \/ Crash \/ UNCHANGED vars
    BY <1>0, <2>4, EnvironmentClaims, ClaimsStay
  <2>5. ASSUME NEW r \in Runs, StartList(r) \/ CancelRead(r) \/ Handler(r) \/ ThreadStep(r)
        PROVE  \E own \in [Runs -> SUBSET (Jobs \X Targets)] : \A s \in Runs : ClaimInv(s, own)'
    BY <1>0, <2>1, <2>2, <2>3, <2>5, ClaimsStay
  <2>6. QED
    BY <2>4, <2>5 DEF Next
<1>3. QED
  BY <1>1, <1>2 DEF ScoreInv

\* However many runs race on the same jobs, the rescored counters of all runs together claim
\* no more results than job_matches has stored under the versions that clients asked for.
THEOREM CountedIsStored == Spec => []RescoredBacked
<1>1. Init => ScoreInv
  <2> SUFFICES ASSUME Init PROVE ScoreInv
    OBVIOUS
  <2> DEFINE own == [s \in Runs |-> {}]
  <2>1. own \in [Runs -> SUBSET (Jobs \X Targets)]
    OBVIOUS
  <2>2. \A s \in Runs : ClaimInv(s, own)
    BY FS_EmptySet DEF Init, InitRuns, ClaimInv, NewRow, NoCounts, InThread
  <2>3. \A s \in Runs : pc[s] = "idle"
    BY DEF Init, InitRuns
  <2> HIDE DEF own
  <2>4. QED
    BY <2>1, <2>2, <2>3 DEF ScoreInv
<1>2. IInv /\ TypeOK' /\ ScoreInv /\ [Next]_vars => ScoreInv'
  BY ScoreStep
<1>3. IInv /\ ScoreInv => RescoredBacked
  <2> SUFFICES ASSUME IInv, ScoreInv PROVE RescoredBacked
    OBVIOUS
  <2> DEFINE f == [r \in Runs |-> rows[r].counts.rescored]
             C == {c \in Jobs \X Targets : matches[c] \in MT!Scored}
  <2>1. PICK own \in [Runs -> SUBSET (Jobs \X Targets)] : \A s \in Runs : ClaimInv(s, own)
    BY DEF ScoreInv
  <2>2. f \in [Runs -> Nat]
    BY ClaimTypes DEF IInv
  <2>3. own \in [Runs -> SUBSET C]
    BY <2>1 DEF ClaimInv
  <2>4. IsFiniteSet(C)
    BY Finite
  <2>5. \A s \in Runs : f[s] <= Cardinality(own[s])
    BY <2>1 DEF ClaimInv
  <2>6. \A s, t \in Runs : s # t => own[s] \cap own[t] = {}
    BY <2>1 DEF ClaimInv
  <2> HIDE DEF f, C
  <2>7. FoldFunction(LAMBDA a, b : a + b, 0, f) <= Cardinality(C)
    BY <2>2, <2>3, <2>4, <2>5, <2>6, FiniteAssumption, SumBacked
  <2>8. QED
    BY <2>7, Zenon DEF RescoredBacked, f, C
<1>4. QED
  BY <1>1, <1>2, <1>3, TypeCorrect, Inductive, PTL DEF Spec

-----------------------------------------------------------------------------
(* What a run has left to do: its place on the way from the request to the *)
(* last save, the runs still to be asked to stop or the candidates not yet *)
(* processed, the part of the batch in flight and the jobs of that part,   *)
(* compared in this order.                                                 *)

InLoop == {"between", "crawl", "record"}

Stage(r) == IF pc[r] = "idle" THEN 6
            ELSE IF pc[r] = "listing" THEN 5
            ELSE IF pc[r] = "spawned" THEN 4
            ELSE IF pc[r] = "select" THEN 3
            ELSE IF pc[r] \in InLoop THEN 2
            ELSE IF pc[r] = "finish" THEN 1 ELSE 0

Todo(r) == IF pc[r] = "listing" THEN Cardinality(toAsk[r])
           ELSE IF pc[r] \in InLoop THEN Len(cand[r]) - mem[r].processed ELSE 0

Part(r) == IF pc[r] = "between" THEN 2 ELSE IF pc[r] = "crawl" THEN 1 ELSE 0

Items(r) == IF pc[r] = "crawl" THEN BatchEnd(r) - pos[r]
            ELSE IF pc[r] = "record" THEN Len(crawled[r]) ELSE 0

RunMeasured == \A r \in Runs : Stage(r) \in Nat /\ Todo(r) \in Nat /\ Part(r) \in Nat /\ Items(r) \in Nat

RunNearer(r) ==
    \/ Stage(r)' < Stage(r)
    \/ /\ Stage(r)' = Stage(r)
       /\ \/ Todo(r)' < Todo(r)
          \/ /\ Todo(r)' = Todo(r)
             /\ Part(r)' < Part(r) \/ (Part(r)' = Part(r) /\ Items(r)' < Items(r))

RunStill(r) == UNCHANGED <<Stage(r), Todo(r), Part(r), Items(r)>>

RunsGetOn == \A r \in Runs :
    /\ RunNearer(r) \/ RunStill(r)
    /\ StartList(r) \/ StartAsk(r) \/ StartRun(r) \/ ThreadStep(r) => RunNearer(r)

\* A batch in flight has a candidate: after one without, the run would be where it was before.
NoEmptyBatch == \A r \in Runs : pc[r] \in {"crawl", "record"} => mem[r].processed < Len(cand[r])

LEMMA RunNumbers ==
  ASSUME IInv, NEW r \in Runs
  PROVE  /\ Len(cand[r]) \in Nat /\ mem[r].processed \in Nat /\ pos[r] \in Nat
         /\ BatchEnd(r) \in Nat /\ crawled[r] \in Seq(Jobs) /\ Len(crawled[r]) \in Nat
         /\ IsFiniteSet(toAsk[r]) /\ Cardinality(toAsk[r]) \in Nat
         /\ pc[r] \in InLoop => mem[r].processed <= Len(cand[r])
         /\ pc[r] \in {"crawl", "record"} => pos[r] <= BatchEnd(r)
         /\ mem[r].processed < Len(cand[r]) => mem[r].processed < BatchEnd(r)
         /\ mem[r].processed <= Len(cand[r]) => BatchEnd(r) <= Len(cand[r])
<1>1. TypeOK /\ RunInv(r) /\ mem[r] \in Row /\ cand[r] \in Seq(Jobs) /\ pos[r] \in Nat
      /\ crawled[r] \in Seq(Jobs)
  BY DEF IInv, TypeOK
<1>2. Len(cand[r]) \in Nat /\ mem[r].processed \in Nat /\ Len(crawled[r]) \in Nat
  BY <1>1 DEF Row
<1>3. BatchEnd(r) \in Nat
  BY <1>1, BatchEndType
<1>4. IsFiniteSet(toAsk[r]) /\ Cardinality(toAsk[r]) \in Nat
  BY <1>1, FiniteAssumption, FS_Subset, FS_CardinalityType DEF TypeOK
<1>5. pc[r] \in InLoop => mem[r].processed <= Len(cand[r])
  BY <1>1, <1>2, NullAssumption DEF RunInv, MemInv, RowAddsUp, InLoop, InThread
<1>6. pc[r] \in {"crawl", "record"} => pos[r] <= BatchEnd(r)
  BY <1>1 DEF RunInv, BatchInv
<1>7. /\ mem[r].processed < Len(cand[r]) => mem[r].processed < BatchEnd(r)
      /\ mem[r].processed <= Len(cand[r]) => BatchEnd(r) <= Len(cand[r])
  BY <1>2, BatchSizeAssumption DEF BatchEnd
<1> QED
  BY <1>1, <1>2, <1>3, <1>4, <1>5, <1>6, <1>7

LEMMA StageNears ==
  ASSUME NEW r \in Runs, Stage(r)' < Stage(r), pc'[r] \notin {"crawl", "record"}
  PROVE  RunNearer(r) /\ (pc'[r] \in {"crawl", "record"} => mem'[r].processed < Len(cand'[r]))
  BY DEF RunNearer

\* The start handler, and the thread outside the loop.
LEMMA OuterNears ==
  ASSUME IInv, NEW r \in Runs,
         \/ StartList(r) \/ StartRun(r) \/ Fetch(r) \/ Select(r) \/ Fail(r) \/ Finish(r) \/ LoseThread(r)
         \/ NoticeCancel(r) \/ Complete(r)
  PROVE  RunNearer(r) /\ (pc'[r] \in {"crawl", "record"} => mem'[r].processed < Len(cand'[r]))
<1>0. pc \in [Runs -> Control]
  BY DEF IInv, TypeOK
<1>1. <<pc[r], pc'[r]>> \in {<<"idle", "listing">>, <<"listing", "spawned">>, <<"spawned", "select">>,
         <<"spawned", "dead">>, <<"select", "between">>, <<"select", "finish">>, <<"between", "finish">>,
         <<"crawl", "finish">>, <<"record", "finish">>, <<"finish", "done">>, <<"finish", "dead">>}
  <2>1. CASE StartList(r) \/ StartRun(r) \/ Fetch(r) \/ Finish(r) \/ LoseThread(r)
    BY <1>0, <2>1 DEF StartList, StartRun, Fetch, Finish, LoseThread, Goto
  <2>2. CASE Select(r)
    BY <1>0, <2>2 DEF Select, Goto
  <2>3. CASE Fail(r) \/ NoticeCancel(r) \/ Complete(r)
    BY <1>0, <2>3 DEF Fail, NoticeCancel, Complete, Goto
  <2> QED
    BY <2>1, <2>2, <2>3
<1>2. Stage(r)' < Stage(r) /\ pc'[r] \notin {"crawl", "record"}
  BY <1>1 DEF Stage, InLoop
<1> QED
  BY <1>2, StageNears

LEMMA AskNears ==
  ASSUME IInv, NEW r \in Runs, StartAsk(r)
  PROVE  RunNearer(r) /\ pc'[r] = "listing"
<1>1. PICK s \in toAsk[r] : toAsk' = [toAsk EXCEPT ![r] = @ \ {s}]
  BY DEF StartAsk
<1>2. pc[r] = "listing" /\ pc'[r] = "listing" /\ toAsk'[r] = toAsk[r] \ {s}
  BY <1>1 DEF StartAsk, IInv, TypeOK
<1>3. Cardinality(toAsk'[r]) = Cardinality(toAsk[r]) - 1 /\ Cardinality(toAsk[r]) \in Nat
  BY <1>1, <1>2, RunNumbers, FS_RemoveElement
<1>4. Todo(r)' < Todo(r)
  BY <1>2, <1>3 DEF Todo
<1>5. Stage(r)' = Stage(r)
  BY <1>2 DEF Stage
<1> QED
  BY <1>2, <1>4, <1>5 DEF RunNearer

\* Inside a batch the copy and the candidates stay as they are.
LEMMA InsideNears ==
  ASSUME IInv, NoEmptyBatch, NEW r \in Runs,
         \/ NextBatch(r) \/ CrawlOk(r) \/ CrawlNotFound(r) \/ CrawlFailed(r) \/ Score(r)
         \/ RecordScored(r) \/ RecordMissing(r)
  PROVE  RunNearer(r) /\ (pc'[r] \in {"crawl", "record"} => mem'[r].processed < Len(cand'[r]))
<1>0. pc \in [Runs -> Control] /\ pos \in [Runs -> Nat] /\ crawled \in [Runs -> Seq(Jobs)]
  BY DEF IInv, TypeOK
<1>1. /\ mem'[r] = mem[r] /\ cand'[r] = cand[r]
      /\ \/ pc[r] = "between" /\ pc'[r] = "crawl" /\ mem[r].processed < Len(cand[r])
         \/ pc[r] = "crawl" /\ pc'[r] = "record"
         \/ pc[r] = "crawl" /\ pc'[r] = "crawl" /\ pos[r] < BatchEnd(r) /\ pos'[r] = pos[r] + 1
         \/ /\ pc[r] = "record" /\ pc'[r] = "record"
            /\ crawled[r] # <<>> /\ crawled'[r] = Tail(crawled[r])
  <2>1. CASE NextBatch(r) \/ Score(r)
    BY <1>0, <2>1 DEF NextBatch, Score, Goto, thread
  <2>2. CASE CrawlStep(r)
    BY <1>0, <2>2 DEF CrawlStep
  <2>3. CASE RecordStep(r)
    BY <1>0, <2>3 DEF RecordStep
  <2> QED
    BY <2>1, <2>2, <2>3 DEF CrawlOk, CrawlNotFound, CrawlFailed, RecordScored, RecordMissing
<1>2. BatchEnd(r)' = BatchEnd(r) /\ Stage(r)' = Stage(r) /\ Todo(r)' = Todo(r)
  BY <1>1 DEF BatchEnd, Stage, Todo, InLoop
<1>3. pc'[r] \in {"crawl", "record"} => mem'[r].processed < Len(cand'[r])
  BY <1>1 DEF NoEmptyBatch
<1>4. CASE pc'[r] # pc[r]
  <2>1. Part(r)' < Part(r)
    BY <1>1, <1>4 DEF Part
  <2> QED
    BY <1>2, <1>3, <2>1 DEF RunNearer
<1>5. CASE pc'[r] = pc[r] /\ pc[r] = "crawl"
  <2>1. pos'[r] = pos[r] + 1 /\ pos[r] \in Nat /\ BatchEnd(r) \in Nat
    BY <1>1, <1>5, RunNumbers
  <2>2. Items(r)' < Items(r) /\ Part(r)' = Part(r)
    BY <1>2, <1>5, <2>1 DEF Items, Part
  <2> QED
    BY <1>2, <1>3, <2>2 DEF RunNearer
<1>6. CASE pc'[r] = pc[r] /\ pc[r] = "record"
  <2>1. crawled[r] # <<>> /\ crawled'[r] = Tail(crawled[r]) /\ crawled[r] \in Seq(Jobs)
    BY <1>1, <1>6, RunNumbers
  <2>2. Len(crawled'[r]) = Len(crawled[r]) - 1 /\ Len(crawled[r]) \in Nat
    BY <2>1
  <2>3. Items(r)' < Items(r) /\ Part(r)' = Part(r)
    BY <1>6, <2>2 DEF Items, Part
  <2> QED
    BY <1>2, <1>3, <2>3 DEF RunNearer
<1> QED
  BY <1>1, <1>4, <1>5, <1>6

LEMMA BatchDoneNears ==
  ASSUME IInv, NoEmptyBatch, NEW r \in Runs, BatchDone(r)
  PROVE  RunNearer(r) /\ pc'[r] \notin {"crawl", "record"}
<1>0. pc \in [Runs -> Control] /\ mem \in [Runs -> Row]
  BY DEF IInv, TypeOK
<1>1. pc[r] \in {"crawl", "record"} /\ cand'[r] = cand[r] /\ pc'[r] \in {"between", "finish"}
  BY <1>0 DEF BatchDone, Goto
<1>2. CASE pc'[r] = "finish"
  <2>1. Stage(r)' < Stage(r)
    BY <1>1, <1>2 DEF Stage, InLoop
  <2> QED
    BY <1>1, <2>1 DEF RunNearer
<1>3. CASE pc'[r] = "between"
  <2>1. mem'[r] = Tallied(r)
    BY <1>0, <1>3 DEF BatchDone, Goto
  <2>2. mem'[r].processed = BatchEnd(r)
    BY <1>0, <2>1 DEF Tallied, Row
  <2>3. mem[r].processed < BatchEnd(r)
    BY <1>1, RunNumbers DEF NoEmptyBatch
  <2>4. Todo(r)' = Len(cand[r]) - BatchEnd(r) /\ Todo(r) = Len(cand[r]) - mem[r].processed
    BY <1>1, <1>3, <2>2 DEF Todo, InLoop
  <2>5. Todo(r)' < Todo(r)
    BY <2>3, <2>4, RunNumbers
  <2>6. Stage(r)' = Stage(r)
    BY <1>1, <1>3 DEF Stage, InLoop
  <2> QED
    BY <1>3, <2>5, <2>6 DEF RunNearer
<1> QED
  BY <1>1, <1>2, <1>3

LEMMA OwnNears ==
  ASSUME IInv, NoEmptyBatch, NEW r \in Runs, StartList(r) \/ StartAsk(r) \/ StartRun(r) \/ ThreadStep(r)
  PROVE  RunNearer(r) /\ (pc'[r] \in {"crawl", "record"} => mem'[r].processed < Len(cand'[r]))
<1>1. CASE StartList(r) \/ StartRun(r) \/ Fetch(r) \/ Select(r) \/ Fail(r) \/ Finish(r)
           \/ LoseThread(r) \/ NoticeCancel(r) \/ Complete(r)
  BY <1>1, OuterNears
<1>2. CASE StartAsk(r)
  BY <1>2, AskNears
<1>3. CASE NextBatch(r) \/ CrawlOk(r) \/ CrawlNotFound(r) \/ CrawlFailed(r) \/ Score(r)
           \/ RecordScored(r) \/ RecordMissing(r)
  BY <1>3, InsideNears
<1>4. CASE BatchDone(r)
  BY <1>4, BatchDoneNears
<1> QED
  BY <1>1, <1>2, <1>3, <1>4 DEF ThreadStep

\* Nothing that a run has left to do hangs on another run, on a cancel request or on the
\* matching cycle.
Aside(r) == UNCHANGED <<pc[r], mem[r], cand[r], pos[r], crawled[r], toAsk[r]>>

LEMMA AsideStill ==
  ASSUME NoEmptyBatch, NEW r \in Runs, Aside(r)
  PROVE  RunStill(r) /\ (pc'[r] \in {"crawl", "record"} => mem'[r].processed < Len(cand'[r]))
  BY DEF NoEmptyBatch, Aside, RunStill, Stage, Todo, Part, Items, BatchEnd

LEMMA OthersAside ==
  ASSUME IInv, NEW r \in Runs, NEW s \in Runs, s # r,
         StartList(s) \/ StartAsk(s) \/ StartRun(s) \/ ThreadStep(s)
  PROVE  Aside(r)
<1>0. /\ pc \in [Runs -> Control] /\ mem \in [Runs -> Row] /\ cand \in [Runs -> Seq(Jobs)]
      /\ pos \in [Runs -> Nat] /\ crawled \in [Runs -> Seq(Jobs)] /\ toAsk \in [Runs -> SUBSET Runs]
  BY DEF IInv, TypeOK
<1> USE DEF Goto, thread, api, Aside, DropBatch
<1>1. CASE StartList(s) \/ StartAsk(s) \/ StartRun(s)
  BY <1>0, <1>1 DEF StartList, StartAsk, StartRun
<1>2. CASE Fetch(s) \/ Select(s) \/ Fail(s) \/ Finish(s) \/ LoseThread(s)
  BY <1>0, <1>2 DEF Fetch, Select, Fail, Finish, LoseThread
<1>3. CASE NoticeCancel(s) \/ NextBatch(s) \/ Complete(s) \/ Score(s) \/ BatchDone(s)
  BY <1>0, <1>3 DEF NoticeCancel, NextBatch, Complete, Score, BatchDone
<1>4. CASE CrawlOk(s) \/ CrawlNotFound(s) \/ CrawlFailed(s)
  BY <1>0, <1>4 DEF CrawlOk, CrawlNotFound, CrawlFailed, CrawlStep
<1>5. CASE RecordScored(s) \/ RecordMissing(s)
  BY <1>0, <1>5 DEF RecordScored, RecordMissing, RecordStep
<1> QED
  BY <1>1, <1>2, <1>3, <1>4, <1>5 DEF ThreadStep

LEMMA CrashNears ==
  ASSUME IInv, NoEmptyBatch, NEW r \in Runs, Crash
  PROVE  /\ RunNearer(r) \/ RunStill(r)
         /\ pc'[r] \in {"crawl", "record"} => mem'[r].processed < Len(cand'[r])
<1>1. CASE pc[r] \in InHandler \cup InThread
  <2>1. pc'[r] = "dead"
    BY <1>1 DEF Crash
  <2>2. Stage(r)' < Stage(r)
    BY <1>1, <2>1 DEF Stage, InLoop, InHandler, InThread
  <2> QED
    BY <2>1, <2>2, StageNears
<1>2. CASE pc[r] \notin InHandler \cup InThread
  <2>1. Aside(r)
    BY <1>2 DEF Crash, Aside
  <2> QED
    BY <2>1, AsideStill
<1> QED
  BY <1>1, <1>2

LEMMA RunsStep ==
  ASSUME IInv, NoEmptyBatch, Next
  PROVE  RunsGetOn /\ NoEmptyBatch'
<1> SUFFICES ASSUME NEW r \in Runs
             PROVE  /\ RunNearer(r) \/ RunStill(r)
                    /\ StartList(r) \/ StartAsk(r) \/ StartRun(r) \/ ThreadStep(r) => RunNearer(r)
                    /\ pc'[r] \in {"crawl", "record"} => mem'[r].processed < Len(cand'[r])
  BY DEF RunsGetOn, NoEmptyBatch
<1>1. CASE StartList(r) \/ StartAsk(r) \/ StartRun(r) \/ ThreadStep(r)
  BY <1>1, OwnNears
<1>2. ASSUME NEW s \in Runs, s # r, StartList(s) \/ StartAsk(s) \/ StartRun(s) \/ ThreadStep(s)
      PROVE  Aside(r)
  BY <1>2, OthersAside
<1>3. ASSUME NEW s \in Runs, CancelRead(s) \/ CancelWrite(s)
      PROVE  Aside(r)
  BY <1>3 DEF CancelRead, CancelWrite, Aside, thread
<1>4. ASSUME OtherWriters
      PROVE  Aside(r)
  BY <1>4 DEF OtherWriters, LiveResult, Purge, Aside, thread, api
<1>5. CASE Crash
  BY <1>5, CrashNears, OwnNears
<1>6. CASE Aside(r)
  BY <1>6, AsideStill, OwnNears
<1> QED
  BY <1>1, <1>2, <1>3, <1>4, <1>5, <1>6 DEF Next, Handler

\* Every run is finite: each step of its start handler and of its thread lowers a tuple of
\* naturals that no other run, cancel request, matching cycle, purge or crash raises, because a batch
\* in flight always has a candidate left (the loop over _chunk in _execute, backfill/engine.py:164).
THEOREM RunsAreFinite == Spec => [](RunMeasured /\ NoEmptyBatch) /\ [][RunsGetOn]_vars
<1>1. Init => NoEmptyBatch
  BY DEF Init, InitRuns, NoEmptyBatch
<1>2. IInv /\ NoEmptyBatch /\ [Next]_vars => NoEmptyBatch'
  <2>1. NoEmptyBatch /\ UNCHANGED vars => NoEmptyBatch'
    BY DEF NoEmptyBatch, vars
  <2> QED
    BY <2>1, RunsStep
<1>3. IInv /\ NoEmptyBatch /\ [Next]_vars => [RunsGetOn]_vars
  BY RunsStep
<1>4. IInv => RunMeasured
  <2> SUFFICES ASSUME IInv, NEW r \in Runs
               PROVE  Stage(r) \in Nat /\ Todo(r) \in Nat /\ Part(r) \in Nat /\ Items(r) \in Nat
    BY DEF RunMeasured
  <2>1. Stage(r) \in Nat /\ Part(r) \in Nat
    BY DEF Stage, Part
  <2>2. Todo(r) \in Nat
    BY RunNumbers DEF Todo
  <2>3. Items(r) \in Nat
    BY RunNumbers DEF Items
  <2> QED
    BY <2>1, <2>2, <2>3
<1> QED
  BY Inductive, <1>1, <1>2, <1>3, <1>4, PTL DEF Spec
=============================================================================

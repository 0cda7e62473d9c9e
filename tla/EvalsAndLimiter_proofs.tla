------------------------ MODULE EvalsAndLimiter_proofs ------------------------
(***************************************************************************)
(* Proofs about an eval run and about the rate limiter, side by side.      *)
(*                                                                         *)
(* Evals that go on at the same time have nothing in common but the        *)
(* limiter.  So what is told of a completed eval, and whose score a row    *)
(* holds, is proved of one run, for datasets, batches, replies and trials  *)
(* of any size; and how far the callers of a bucket overrun its cap is     *)
(* proved for any number of them, any window and caps changed at any time. *)
(***************************************************************************)
EXTENDS EvalRuns, RpmLimiter, SequenceTheorems, FiniteSetTheorems,
        WellFoundedInduction, TLAPS

-----------------------------------------------------------------------------
(* A trial *)

Phases == {"pending", "crawled", "crawl_error", "evaluated", "eval_error", "recorded"}

Get      == <<"get_jobs_to_process", 0>>
Crawl    == <<"crawl_job", T!Job>>
Evaluate == <<"evaluate_match", T!Job>>
Record   == <<"record_job_result", T!Job>>
MadeUp   == {"crawl_job", "evaluate_match", "record_job_result"} \X {T!Other}

TrialType ==
    [fetched : BOOLEAN, phase : Phases, guardrail : Nat, touched : BOOLEAN, first : BOOLEAN,
     count : Nat, calls : [T!Calls -> Nat], incomplete : BOOLEAN]

\* Which calls a trial without a contract violation has made, by what it has come to.
Plan(t, sc) ==
    /\ ~t.touched
    /\ \A call \in MadeUp : t.calls[call] = 0
    /\ t.calls[Get] = (IF t.fetched THEN 1 ELSE 0)
    /\ t.first = t.fetched
    /\ ~t.fetched => t.phase = "pending"
    /\ t.calls[Crawl] = (IF t.phase = "pending" THEN 0 ELSE 1)
    /\ t.calls[Evaluate] = (IF t.phase \in {"pending", "crawled", "crawl_error"} THEN 0 ELSE 1)
    /\ t.phase = "recorded" => t.calls[Record] >= 1
    /\ t.phase # "recorded" => t.calls[Record] = 0
    /\ t.phase = "crawl_error" <=> sc = "crawl_error" /\ t.phase # "pending"
    /\ t.phase = "eval_error" <=> sc = "eval_error" /\ t.phase \notin {"pending", "crawled"}
    /\ t.count = t.calls[Get] + t.calls[Crawl] + t.calls[Evaluate] + t.calls[Record]

TrialInv(t, sc) == t \in TrialType /\ (t.guardrail = 0 => Plan(t, sc))

LEMMA CallsAre ==
  /\ Get \in T!Calls /\ Crawl \in T!Calls /\ Evaluate \in T!Calls /\ Record \in T!Calls
  /\ MadeUp \subseteq T!Calls
  /\ Get \notin MadeUp /\ Crawl \notin MadeUp /\ Evaluate \notin MadeUp /\ Record \notin MadeUp
  /\ Get # Crawl /\ Get # Evaluate /\ Get # Record /\ Crawl # Evaluate /\ Crawl # Record
  /\ Evaluate # Record
  /\ \A call \in T!Calls : call \in MadeUp \cup {Get, Crawl, Evaluate, Record}
  /\ Get[1] = "get_jobs_to_process" /\ Crawl[1] = "crawl_job" /\ Evaluate[1] = "evaluate_match"
  /\ Record[1] = "record_job_result"
  /\ Crawl[2] = T!Job /\ Evaluate[2] = T!Job /\ Record[2] = T!Job
  /\ \A call \in MadeUp : call[2] # T!Job /\ call[1] # "get_jobs_to_process"
BY DEF Get, Crawl, Evaluate, Record, MadeUp, T!Calls, T!Job, T!Other

LEMMA Updated ==
  ASSUME NEW t \in TrialType, NEW n \in Nat, NEW cs \in [T!Calls -> Nat], NEW g \in Nat,
         NEW touch \in BOOLEAN, NEW fst \in BOOLEAN
  PROVE  [t EXCEPT !.count = n, !.calls = cs, !.guardrail = g, !.touched = touch, !.first = fst]
            \in TrialType
BY DEF TrialType

LEMMA LoggedIs ==
  ASSUME NEW t \in TrialType, NEW call \in T!Calls, NEW k
  PROVE  LET u == T!Logged(t, call, k)
         IN  /\ u \in TrialType
             /\ u.fetched = t.fetched /\ u.phase = t.phase /\ u.incomplete = t.incomplete
             /\ u.count = t.count + 1
             /\ u.calls = [t.calls EXCEPT ![call] = @ + 1]
             /\ u.guardrail = IF k = "guardrail" THEN t.guardrail + 1 ELSE t.guardrail
             /\ u.touched = (t.touched \/ (k = "guardrail" /\ call[2] = T!Job))
             /\ u.first = IF t.count = 0 THEN call[1] = "get_jobs_to_process" ELSE t.first
<1> DEFINE u == T!Logged(t, call, k)
<1>1. u.fetched = t.fetched /\ u.phase = t.phase /\ u.incomplete = t.incomplete
  BY DEF T!Logged, TrialType
<1>2. u.count = t.count + 1
  BY DEF T!Logged, TrialType
<1>3. u.calls = [t.calls EXCEPT ![call] = @ + 1]
  BY DEF T!Logged, TrialType
<1>4. u.guardrail = IF k = "guardrail" THEN t.guardrail + 1 ELSE t.guardrail
  BY DEF T!Logged, TrialType
<1>5. u.touched = (t.touched \/ (k = "guardrail" /\ call[2] = T!Job))
  BY DEF T!Logged, TrialType
<1>6. u.first = IF t.count = 0 THEN call[1] = "get_jobs_to_process" ELSE t.first
  BY DEF T!Logged, TrialType
<1>7. u \in TrialType
  <2>1. t.calls \in [T!Calls -> Nat] /\ t.count \in Nat /\ t.guardrail \in Nat
    BY DEF TrialType
  <2>2. u.calls \in [T!Calls -> Nat] /\ u.count \in Nat /\ u.guardrail \in Nat
    BY <1>2, <1>3, <1>4, <2>1
  <2>3. u.touched \in BOOLEAN /\ u.first \in BOOLEAN
    BY <1>5, <1>6 DEF TrialType
  <2>4. u.fetched \in BOOLEAN /\ u.phase \in Phases /\ u.incomplete \in BOOLEAN
    BY <1>1 DEF TrialType
  <2>5. PICK n \in Nat, cs \in [T!Calls -> Nat], g \in Nat, touch \in BOOLEAN, fst \in BOOLEAN :
            n = u.count /\ cs = u.calls /\ g = u.guardrail /\ touch = u.touched /\ fst = u.first
    BY <2>2, <2>3
  <2>6. u = [t EXCEPT !.count = n, !.calls = cs, !.guardrail = g, !.touched = touch, !.first = fst]
    BY <1>2, <1>3, <1>4, <1>5, <1>6, <2>5 DEF T!Logged
  <2> HIDE DEF u
  <2> QED
    BY <2>6, Updated
<1> QED
  BY <1>1, <1>2, <1>3, <1>4, <1>5, <1>6, <1>7

\* A call that the mock tools refuse is a contract violation, of which the verdicts need not agree.
LEMMA Refused ==
  ASSUME NEW t \in TrialType, NEW call \in T!Calls, NEW sc
  PROVE  TrialInv(T!Logged(t, call, "guardrail"), sc)
<1>1. /\ T!Logged(t, call, "guardrail") \in TrialType
      /\ T!Logged(t, call, "guardrail").guardrail = t.guardrail + 1
  BY LoggedIs
<1>2. t.guardrail \in Nat
  BY DEF TrialType
<1>3. QED
  BY <1>1, <1>2 DEF TrialInv

LEMMA FetchStep ==
  ASSUME NEW t, NEW sc, TrialInv(t, sc), ~t.fetched
  PROVE  TrialInv(T!Logged([t EXCEPT !.fetched = TRUE], Get, "none"), sc)
<1> DEFINE v == [t EXCEPT !.fetched = TRUE]
           u == T!Logged(v, Get, "none")
<1>1. /\ v \in TrialType /\ v.fetched = TRUE /\ v.phase = t.phase /\ v.guardrail = t.guardrail
      /\ v.touched = t.touched /\ v.first = t.first /\ v.count = t.count /\ v.calls = t.calls
      /\ t \in TrialType
  BY DEF TrialInv, TrialType
<1> HIDE DEF v
<1>2. /\ u \in TrialType /\ u.fetched = TRUE /\ u.phase = t.phase /\ u.count = t.count + 1
      /\ u.calls = [t.calls EXCEPT ![Get] = @ + 1] /\ u.guardrail = t.guardrail
      /\ u.touched = t.touched
      /\ u.first = IF t.count = 0 THEN TRUE ELSE t.first
  <2>1. Get \in T!Calls /\ Get[1] = "get_jobs_to_process"
    BY CallsAre
  <2>2. t.touched \in BOOLEAN
    BY <1>1 DEF TrialType
  <2>3. /\ u \in TrialType /\ u.fetched = v.fetched /\ u.phase = v.phase /\ u.count = v.count + 1
        /\ u.calls = [v.calls EXCEPT ![Get] = @ + 1] /\ u.guardrail = v.guardrail
        /\ u.touched = (v.touched \/ ("none" = "guardrail" /\ Get[2] = T!Job))
        /\ u.first = IF v.count = 0 THEN Get[1] = "get_jobs_to_process" ELSE v.first
    BY <1>1, <2>1, LoggedIs
  <2> QED
    BY <1>1, <2>1, <2>2, <2>3
<1> HIDE DEF u
<1>3. ASSUME Plan(t, sc) PROVE Plan(u, sc)
  <2>1. /\ \A call \in MadeUp : t.calls[call] = 0
        /\ t.calls[Get] = 0 /\ t.phase = "pending"
        /\ t.calls[Crawl] = 0 /\ t.calls[Evaluate] = 0 /\ t.calls[Record] = 0
        /\ t.count = 0 /\ ~t.touched
    BY <1>3 DEF Plan
  <2>2. t.calls \in [T!Calls -> Nat]
    BY <1>1 DEF TrialType
  <2>3. /\ u.calls[Get] = 1 /\ u.calls[Crawl] = 0 /\ u.calls[Evaluate] = 0 /\ u.calls[Record] = 0
        /\ \A call \in MadeUp : u.calls[call] = 0
    BY <1>2, <2>1, <2>2, CallsAre
  <2>4. u.count = 1 /\ u.first = TRUE /\ u.phase = "pending" /\ u.fetched = TRUE /\ ~u.touched
    BY <1>2, <2>1
  <2>5. /\ u.first = u.fetched /\ ~u.touched
        /\ u.calls[Get] = (IF u.fetched THEN 1 ELSE 0)
    BY <2>3, <2>4
  <2>6. QED
    BY <2>3, <2>4, <2>5 DEF Plan
<1>4. QED
  BY <1>1, <1>2, <1>3 DEF TrialInv, u, v

\* The other three tools: a call that is made once in the order of the plan, or the second
\* record of a recorded job.
MayMove(t, call, phase, sc) ==
    \/ /\ call = Crawl /\ t.fetched /\ t.phase = "pending"
       /\ phase = (IF sc = "crawl_error" THEN "crawl_error" ELSE "crawled")
    \/ /\ call = Evaluate /\ t.phase = "crawled"
       /\ phase = (IF sc = "eval_error" THEN "eval_error" ELSE "evaluated")
    \/ call = Record /\ t.phase \in {"evaluated", "recorded"} /\ phase = "recorded"

LEMMA MoveStep ==
  ASSUME NEW t, NEW call \in T!Calls, NEW phase \in Phases, NEW sc, NEW k,
         TrialInv(t, sc), k # "guardrail", MayMove(t, call, phase, sc)
  PROVE  TrialInv(T!Moved(t, call, phase, k), sc)
<1> DEFINE v == [t EXCEPT !.phase = phase]
           u == T!Logged(v, call, k)
<1>1. /\ v \in TrialType /\ v.fetched = t.fetched /\ v.phase = phase /\ v.guardrail = t.guardrail
      /\ v.touched = t.touched /\ v.first = t.first /\ v.count = t.count /\ v.calls = t.calls
      /\ t \in TrialType
  BY DEF TrialInv, TrialType
<1> HIDE DEF v
<1>2. /\ u \in TrialType /\ u.fetched = t.fetched /\ u.phase = phase /\ u.count = t.count + 1
      /\ u.calls = [t.calls EXCEPT ![call] = @ + 1] /\ u.guardrail = t.guardrail
      /\ u.touched = t.touched
      /\ t.count # 0 => u.first = t.first
  <2>1. t.touched \in BOOLEAN
    BY <1>1 DEF TrialType
  <2>2. /\ u \in TrialType /\ u.fetched = v.fetched /\ u.phase = v.phase /\ u.count = v.count + 1
        /\ u.calls = [v.calls EXCEPT ![call] = @ + 1] /\ u.guardrail = v.guardrail
        /\ u.touched = (v.touched \/ (k = "guardrail" /\ call[2] = T!Job))
        /\ u.first = IF v.count = 0 THEN call[1] = "get_jobs_to_process" ELSE v.first
    BY <1>1, LoggedIs
  <2> QED
    BY <1>1, <2>1, <2>2
<1> HIDE DEF u
<1>3. ASSUME Plan(t, sc) PROVE Plan(u, sc)
  <2>1. t.calls \in [T!Calls -> Nat] /\ t.count \in Nat
    BY <1>1 DEF TrialType
  <2>2. t.fetched /\ t.count # 0 /\ u.first = t.first
    <3>1. t.fetched
      BY <1>3 DEF Plan, MayMove
    <3>2. t.calls[Get] = 1 /\ t.count = t.calls[Get] + t.calls[Crawl] + t.calls[Evaluate] + t.calls[Record]
      BY <1>3, <3>1 DEF Plan
    <3>3. QED
      BY <1>2, <2>1, <3>1, <3>2, CallsAre
  <2>3. call \in {Crawl, Evaluate, Record}
    BY DEF MayMove
  <2>4. \A c \in MadeUp : u.calls[c] = 0
    BY <1>2, <1>3, <2>1, <2>3, CallsAre DEF Plan
  <2>5. u.calls[Get] = 1 /\ t.calls[Get] = 1
    BY <1>2, <1>3, <2>1, <2>2, <2>3, CallsAre DEF Plan
  <2>6. /\ u.calls[Crawl] = (IF call = Crawl THEN t.calls[Crawl] + 1 ELSE t.calls[Crawl])
        /\ u.calls[Evaluate] = (IF call = Evaluate THEN t.calls[Evaluate] + 1 ELSE t.calls[Evaluate])
        /\ u.calls[Record] = (IF call = Record THEN t.calls[Record] + 1 ELSE t.calls[Record])
    BY <1>2, <2>1, CallsAre
  <2>7. t.calls[Crawl] \in Nat /\ t.calls[Evaluate] \in Nat /\ t.calls[Record] \in Nat
    BY <2>1, CallsAre
  <2>8. /\ t.calls[Crawl] = (IF t.phase = "pending" THEN 0 ELSE 1)
        /\ t.calls[Evaluate] = (IF t.phase \in {"pending", "crawled", "crawl_error"} THEN 0 ELSE 1)
        /\ t.phase = "recorded" => t.calls[Record] >= 1
        /\ t.phase # "recorded" => t.calls[Record] = 0
        /\ t.phase = "crawl_error" <=> sc = "crawl_error" /\ t.phase # "pending"
        /\ t.phase = "eval_error" <=> sc = "eval_error" /\ t.phase \notin {"pending", "crawled"}
        /\ t.count = t.calls[Get] + t.calls[Crawl] + t.calls[Evaluate] + t.calls[Record]
        /\ t.first = t.fetched /\ ~t.touched
    BY <1>3 DEF Plan
  <2>9. /\ u.calls[Crawl] = (IF phase = "pending" THEN 0 ELSE 1)
        /\ u.calls[Evaluate] = (IF phase \in {"pending", "crawled", "crawl_error"} THEN 0 ELSE 1)
        /\ phase = "recorded" => u.calls[Record] >= 1
        /\ phase # "recorded" => u.calls[Record] = 0
        /\ phase = "crawl_error" <=> sc = "crawl_error" /\ phase # "pending"
        /\ phase = "eval_error" <=> sc = "eval_error" /\ phase \notin {"pending", "crawled"}
        /\ u.count = u.calls[Get] + u.calls[Crawl] + u.calls[Evaluate] + u.calls[Record]
    <3>1. CASE call = Crawl
      <4>1. call # Evaluate /\ call # Record
        BY <3>1, CallsAre
      <4>2. t.phase = "pending" /\ phase = (IF sc = "crawl_error" THEN "crawl_error" ELSE "crawled")
        BY <4>1 DEF MayMove
      <4>3. QED
        BY <1>2, <2>5, <2>6, <2>7, <2>8, <3>1, <4>1, <4>2
    <3>2. CASE call = Evaluate
      <4>1. call # Crawl /\ call # Record
        BY <3>2, CallsAre
      <4>2. t.phase = "crawled" /\ phase = (IF sc = "eval_error" THEN "eval_error" ELSE "evaluated")
        BY <4>1 DEF MayMove
      <4>3. QED
        BY <1>2, <2>5, <2>6, <2>7, <2>8, <3>2, <4>1, <4>2
    <3>3. CASE call = Record
      <4>1. call # Crawl /\ call # Evaluate
        BY <3>3, CallsAre
      <4>2. t.phase \in {"evaluated", "recorded"} /\ phase = "recorded"
        BY <4>1 DEF MayMove
      <4>3. QED
        BY <1>2, <2>5, <2>6, <2>7, <2>8, <3>3, <4>1, <4>2
    <3>4. QED
      BY <2>3, <3>1, <3>2, <3>3
  <2>10. u.fetched /\ u.first = u.fetched /\ ~u.touched
    BY <1>2, <2>2, <2>8
  <2>11. QED
    BY <1>2, <2>4, <2>5, <2>9, <2>10 DEF Plan
<1>4. QED
  BY <1>1, <1>2, <1>3 DEF TrialInv, u, v, T!Moved

LEMMA ToolStep ==
  ASSUME NEW t, NEW sc, NEW call \in T!Calls, TrialInv(t, sc)
  PROVE  TrialInv(T!UseTool(t, call, sc), sc)
<1>1. t \in TrialType
  BY DEF TrialInv
<1>2. call \in MadeUp \cup {Get, Crawl, Evaluate, Record}
  BY CallsAre
<1>3. CASE call = Get
  <2>1. T!UseTool(t, call, sc) = T!GetJobs(t, call)
    BY <1>3, CallsAre DEF T!UseTool
  <2>2. QED
    BY <1>1, <1>3, <2>1, Refused, FetchStep DEF T!GetJobs
<1>4. CASE call[1] = "crawl_job"
  <2>1. T!UseTool(t, call, sc) = T!CrawlJob(t, call, sc)
    BY <1>4 DEF T!UseTool
  <2>2. CASE call[2] # T!Job \/ ~t.fetched \/ t.phase # "pending"
    BY <1>1, <2>1, <2>2, Refused DEF T!CrawlJob
  <2>3. CASE ~(call[2] # T!Job \/ ~t.fetched \/ t.phase # "pending")
    <3>1. call = Crawl
      BY <1>2, <1>4, <2>3, CallsAre
    <3>2. CASE sc = "crawl_error"
      <4>1. T!UseTool(t, call, sc) = T!Moved(t, call, "crawl_error", "scripted")
        BY <2>1, <2>3, <3>2 DEF T!CrawlJob
      <4>2. MayMove(t, call, "crawl_error", sc) /\ "crawl_error" \in Phases
        BY <2>3, <3>1, <3>2 DEF MayMove, Phases
      <4>3. QED
        BY <4>1, <4>2, MoveStep
    <3>3. CASE sc # "crawl_error"
      <4>1. T!UseTool(t, call, sc) = T!Moved(t, call, "crawled", "none")
        BY <2>1, <2>3, <3>3 DEF T!CrawlJob
      <4>2. MayMove(t, call, "crawled", sc) /\ "crawled" \in Phases
        BY <2>3, <3>1, <3>3 DEF MayMove, Phases
      <4>3. QED
        BY <4>1, <4>2, MoveStep
    <3>4. QED
      BY <3>2, <3>3
  <2>4. QED
    BY <2>2, <2>3
<1>5. CASE call[1] = "evaluate_match"
  <2>1. T!UseTool(t, call, sc) = T!EvaluateMatch(t, call, sc)
    BY <1>5 DEF T!UseTool
  <2>2. CASE call[2] # T!Job \/ t.phase # "crawled"
    BY <1>1, <2>1, <2>2, Refused DEF T!EvaluateMatch
  <2>3. CASE ~(call[2] # T!Job \/ t.phase # "crawled")
    <3>1. call = Evaluate
      BY <1>2, <1>5, <2>3, CallsAre
    <3>2. CASE sc = "eval_error"
      <4>1. T!UseTool(t, call, sc) = T!Moved(t, call, "eval_error", "scripted")
        BY <2>1, <2>3, <3>2 DEF T!EvaluateMatch
      <4>2. MayMove(t, call, "eval_error", sc) /\ "eval_error" \in Phases
        BY <2>3, <3>1, <3>2 DEF MayMove, Phases
      <4>3. QED
        BY <4>1, <4>2, MoveStep
    <3>3. CASE sc # "eval_error"
      <4>1. T!UseTool(t, call, sc) = T!Moved(t, call, "evaluated", "none")
        BY <2>1, <2>3, <3>3 DEF T!EvaluateMatch
      <4>2. MayMove(t, call, "evaluated", sc) /\ "evaluated" \in Phases
        BY <2>3, <3>1, <3>3 DEF MayMove, Phases
      <4>3. QED
        BY <4>1, <4>2, MoveStep
    <3>4. QED
      BY <3>2, <3>3
  <2>4. QED
    BY <2>2, <2>3
<1>6. CASE call[1] = "record_job_result"
  <2>1. T!UseTool(t, call, sc) = T!RecordJobResult(t, call)
    BY <1>6 DEF T!UseTool
  <2>2. CASE call[2] # T!Job \/ t.phase \notin {"evaluated", "recorded"}
    BY <1>1, <2>1, <2>2, Refused DEF T!RecordJobResult
  <2>3. CASE ~(call[2] # T!Job \/ t.phase \notin {"evaluated", "recorded"})
    <3>1. call = Record
      BY <1>2, <1>6, <2>3, CallsAre
    <3>2. T!UseTool(t, call, sc) = T!Moved(t, call, "recorded", "none")
      BY <2>1, <2>3 DEF T!RecordJobResult
    <3>3. MayMove(t, call, "recorded", sc) /\ "recorded" \in Phases
      BY <2>3, <3>1 DEF MayMove, Phases
    <3>4. QED
      BY <3>2, <3>3, MoveStep
  <2>4. QED
    BY <2>2, <2>3
<1>7. QED
  BY <1>2, <1>3, <1>4, <1>5, <1>6, CallsAre DEF MadeUp

\* Each of them counts, whatever comes of it.
LEMMA ToolCounts ==
  ASSUME NEW t \in TrialType, NEW sc, NEW call \in T!Calls
  PROVE  T!UseTool(t, call, sc).count = t.count + 1
<1>1. ASSUME NEW u \in TrialType, u.count = t.count, NEW k
      PROVE  T!Logged(u, call, k).count = t.count + 1
  <2>1. T!Logged(u, call, k).count = u.count + 1
    BY DEF T!Logged, TrialType
  <2>2. QED
    BY <1>1, <2>1
<1>2. ASSUME NEW phase \in Phases
      PROVE  [t EXCEPT !.phase = phase] \in TrialType /\ [t EXCEPT !.phase = phase].count = t.count
  BY DEF TrialType
<1>3. [t EXCEPT !.fetched = TRUE] \in TrialType /\ [t EXCEPT !.fetched = TRUE].count = t.count
  BY DEF TrialType
<1>4. ASSUME NEW phase \in Phases, NEW k
      PROVE  T!Moved(t, call, phase, k).count = t.count + 1
  BY <1>1, <1>2 DEF T!Moved
<1>5. T!GetJobs(t, call).count = t.count + 1
  BY <1>1, <1>3 DEF T!GetJobs
<1>6. T!CrawlJob(t, call, sc).count = t.count + 1
  BY <1>1, <1>4 DEF T!CrawlJob, Phases
<1>7. T!EvaluateMatch(t, call, sc).count = t.count + 1
  BY <1>1, <1>4 DEF T!EvaluateMatch, Phases
<1>8. T!RecordJobResult(t, call).count = t.count + 1
  BY <1>1, <1>4 DEF T!RecordJobResult, Phases
<1>9. call[1] \in {"get_jobs_to_process", "crawl_job", "evaluate_match", "record_job_result"}
  BY DEF T!Calls
<1>10. QED
  BY <1>5, <1>6, <1>7, <1>8, <1>9 DEF T!UseTool

LEMMA NewTrial ==
  ASSUME NEW sc
  PROVE  TrialInv(T!InitialTrial, sc) /\ T!InitialTrial.count = 0
<1>1. T!InitialTrial \in TrialType
  BY DEF T!InitialTrial, T!NoCalls, TrialType, Phases
<1>2. \A call \in T!Calls : T!NoCalls[call] = 0
  BY DEF T!NoCalls
<1>3. /\ \A call \in MadeUp : T!NoCalls[call] = 0
      /\ T!NoCalls[Get] = 0 /\ T!NoCalls[Crawl] = 0 /\ T!NoCalls[Evaluate] = 0
      /\ T!NoCalls[Record] = 0
  BY <1>2, CallsAre
<1>4. Plan(T!InitialTrial, sc)
  BY <1>3 DEF T!InitialTrial, Plan
<1>5. QED
  BY <1>1, <1>4 DEF TrialInv, T!InitialTrial

\* The two verdicts are the same on a trial that has kept to the plan.
LEMMA VerdictsAgree ==
  ASSUME NEW t, NEW sc \in {"ok", "crawl_error", "eval_error"}, TrialInv(t, sc), t.guardrail = 0
  PROVE  T!Adherent(t, sc) <=> T!Accurate(t, sc) /\ t.count = T!ExpectedCallCount(sc)
<1> DEFINE planned == [call \in T!Calls |-> IF call \in T!ExpectedTrajectory(sc) THEN 1 ELSE 0]
<1>1. t \in TrialType /\ Plan(t, sc)
  BY DEF TrialInv
<1>2. t.calls \in [T!Calls -> Nat] /\ t.phase \in Phases
  BY <1>1 DEF TrialType
<1>3. /\ Get \in T!ExpectedTrajectory(sc) /\ Crawl \in T!ExpectedTrajectory(sc)
      /\ Evaluate \in T!ExpectedTrajectory(sc) <=> sc # "crawl_error"
      /\ Record \in T!ExpectedTrajectory(sc) <=> sc = "ok"
      /\ \A call \in MadeUp : call \notin T!ExpectedTrajectory(sc)
  BY DEF T!ExpectedTrajectory, Get, Crawl, Evaluate, Record, MadeUp, T!Job, T!Other
<1>4. T!Adherent(t, sc) <=> \A call \in T!Calls : t.calls[call] = planned[call]
  <2>1. t.calls = [call \in T!Calls |-> t.calls[call]]
    BY <1>2
  <2>2. (\A call \in T!Calls : t.calls[call] = planned[call]) => t.calls = planned
    BY <2>1
  <2>3. QED
    BY <2>2 DEF T!Adherent
<1>5. T!Adherent(t, sc) <=> /\ \A call \in MadeUp : t.calls[call] = planned[call]
                            /\ t.calls[Get] = planned[Get] /\ t.calls[Crawl] = planned[Crawl]
                            /\ t.calls[Evaluate] = planned[Evaluate]
                            /\ t.calls[Record] = planned[Record]
  <2> HIDE DEF planned
  <2>1. QED
    BY <1>4, CallsAre
<1>6. /\ \A call \in MadeUp : planned[call] = 0
      /\ planned[Get] = 1 /\ planned[Crawl] = 1
      /\ planned[Evaluate] = (IF sc # "crawl_error" THEN 1 ELSE 0)
      /\ planned[Record] = (IF sc = "ok" THEN 1 ELSE 0)
  BY <1>3, CallsAre
<1> HIDE DEF planned
<1>7. /\ ~t.touched
      /\ \A call \in MadeUp : t.calls[call] = 0
      /\ t.calls[Get] = (IF t.fetched THEN 1 ELSE 0)
      /\ t.first = t.fetched
      /\ ~t.fetched => t.phase = "pending"
      /\ t.calls[Crawl] = (IF t.phase = "pending" THEN 0 ELSE 1)
      /\ t.calls[Evaluate] = (IF t.phase \in {"pending", "crawled", "crawl_error"} THEN 0 ELSE 1)
      /\ t.phase = "recorded" => t.calls[Record] >= 1
      /\ t.phase # "recorded" => t.calls[Record] = 0
      /\ t.phase = "crawl_error" <=> sc = "crawl_error" /\ t.phase # "pending"
      /\ t.phase = "eval_error" <=> sc = "eval_error" /\ t.phase \notin {"pending", "crawled"}
      /\ t.count = t.calls[Get] + t.calls[Crawl] + t.calls[Evaluate] + t.calls[Record]
  BY <1>1 DEF Plan
<1>8. T!Adherent(t, sc) <=> /\ t.calls[Get] = 1 /\ t.calls[Crawl] = 1
                            /\ t.calls[Evaluate] = (IF sc # "crawl_error" THEN 1 ELSE 0)
                            /\ t.calls[Record] = (IF sc = "ok" THEN 1 ELSE 0)
  BY <1>5, <1>6, <1>7
<1>9. T!Accurate(t, sc) <=> t.fetched /\ t.phase = (IF sc = "ok" THEN "recorded" ELSE sc)
  BY <1>7 DEF T!Accurate, T!TerminalState
<1>10. T!ExpectedCallCount(sc) = (IF sc = "ok" THEN 4 ELSE IF sc = "eval_error" THEN 3 ELSE 2)
  BY DEF T!ExpectedCallCount
<1>11. t.calls[Record] \in Nat
  BY <1>2, CallsAre
<1>12. PICK get, crawl, evaluate \in {0, 1}, record \in Nat :
          get = t.calls[Get] /\ crawl = t.calls[Crawl] /\ evaluate = t.calls[Evaluate]
          /\ record = t.calls[Record]
  BY <1>7, <1>11
<1>13. (get = 1 /\ crawl = 1 /\ evaluate = (IF sc # "crawl_error" THEN 1 ELSE 0)
          /\ record = (IF sc = "ok" THEN 1 ELSE 0))
       <=> (t.fetched /\ t.phase = (IF sc = "ok" THEN "recorded" ELSE sc)
            /\ t.count = (IF sc = "ok" THEN 4 ELSE IF sc = "eval_error" THEN 3 ELSE 2))
  BY <1>2, <1>7, <1>12 DEF Phases
<1>14. QED
  BY <1>8, <1>9, <1>10, <1>12, <1>13

-----------------------------------------------------------------------------
(* The cases of a chunk in order *)

LEMMA Least ==
  ASSUME NEW W \in SUBSET Nat, W # {}
  PROVE  \E m \in W : \A k \in W : m <= k
<1>1. PICK m \in W : \A k \in W : <<k, m>> \notin OpToRel(<, Nat)
  BY NatLessThanWellFounded, WFMin
<1>2. \A k \in W : ~(k < m)
  BY <1>1 DEF OpToRel
<1> QED
  BY <1>2

LEMMA Greatest ==
  ASSUME NEW N \in Nat, NEW W \in SUBSET (0..N), W # {}
  PROVE  \E m \in W : \A k \in W : k <= m
<1> DEFINE D == {d \in 0..N : N - d \in W}
<1>1. PICK k \in W : TRUE
  OBVIOUS
<1>2. N - k \in D
  BY <1>1
<1>3. PICK d \in D : \A e \in D : d <= e
  <2>1. D \in SUBSET Nat
    OBVIOUS
  <2>2. D # {}
    BY <1>2
  <2> HIDE DEF D
  <2>3. QED
    BY <2>1, <2>2, Least
<1>4. \A j \in W : N - j \in D
  OBVIOUS
<1>5. N - d \in W /\ d \in 0..N
  OBVIOUS
<1>6. \A j \in W : j <= N - d
  <2> TAKE j \in W
  <2>1. d <= N - j /\ j \in 0..N
    BY <1>3, <1>4
  <2>2. QED
    BY <1>5, <2>1
<1>7. QED
  BY <1>5, <1>6

Rising(seq) == \A i, j \in DOMAIN seq : i < j => seq[i] < seq[j]
InRow(W) == \E seq \in [1..Cardinality(W) -> W] : Rising(seq)

\* The elements of a set can be put in order: no smallest set contradicts it, for its greatest
\* element can follow the others.
LEMMA Enumerated ==
  ASSUME NEW N \in Nat, NEW W \in SUBSET (0..N)
  PROVE  InRow(W)
<1> DEFINE bad == {R \in SUBSET (0..N) : ~InRow(R)}
<1>0. IsFiniteSet(0..N)
  BY FS_Interval
<1>1. bad = {}
  <2> SUFFICES ASSUME bad # {} PROVE FALSE
    OBVIOUS
  <2>1. IsWellFoundedOn(StrictSubsetOrdering(0..N), SUBSET (0..N))
    BY <1>0, FS_StrictSubsetOrderingWellFounded, FS_FiniteSubsetsOfFinite
  <2>2. bad \subseteq SUBSET (0..N)
    OBVIOUS
  <2>3. PICK R \in bad : \A Q \in bad : <<Q, R>> \notin StrictSubsetOrdering(0..N)
    <3> HIDE DEF bad
    <3>1. QED
      BY <2>1, <2>2, WFMin
  <2>4. R \in SUBSET (0..N) /\ ~InRow(R)
    OBVIOUS
  <2>5. CASE R = {}
    <3> DEFINE none == [i \in 1..0 |-> 0]
    <3>1. Cardinality(R) = 0
      BY <2>5, FS_EmptySet
    <3>2. none \in [1..0 -> R] /\ Rising(none)
      BY DEF Rising
    <3>3. QED
      BY <2>4, <3>1, <3>2 DEF InRow
  <2>6. CASE R # {}
    <3>1. PICK m \in R : \A k \in R : k <= m
      BY <2>4, <2>6, Greatest
    <3> DEFINE Q == R \ {m}
               n == Cardinality(Q)
    <3>2. Q \in SUBSET (0..N) /\ <<Q, R>> \in StrictSubsetOrdering(0..N)
      BY <2>4, <3>1 DEF StrictSubsetOrdering
    <3>3. InRow(Q)
      BY <2>3, <3>2
    <3>4. IsFiniteSet(R) /\ IsFiniteSet(Q)
      BY <1>0, <2>4, <3>2, FS_Subset
    <3>5. n \in Nat /\ Cardinality(R) = n + 1
      <4>1. Cardinality(Q) = Cardinality(R) - 1 /\ Cardinality(R) \in Nat /\ Cardinality(Q) \in Nat
        BY <3>1, <3>4, FS_RemoveElement, FS_CardinalityType
      <4>2. QED
        BY <4>1
    <3>6. PICK q \in [1..n -> Q] : Rising(q)
      BY <3>3 DEF InRow
    <3> HIDE DEF n
    <3> DEFINE seq == [i \in 1..(n + 1) |-> IF i = n + 1 THEN m ELSE q[i]]
    <3>7. \A i \in 1..n : q[i] \in R /\ q[i] \in 0..N /\ q[i] < m
      <4> TAKE i \in 1..n
      <4>1. q[i] \in R /\ q[i] # m /\ q[i] <= m /\ q[i] \in 0..N /\ m \in 0..N
        BY <2>4, <3>1
      <4>2. QED
        BY <4>1
    <3>8. seq \in [1..(n + 1) -> R]
      BY <3>1, <3>5, <3>7
    <3>9. Rising(seq)
      <4> SUFFICES ASSUME NEW i \in 1..(n + 1), NEW j \in 1..(n + 1), i < j
                   PROVE  seq[i] < seq[j]
        BY DEF Rising
      <4>1. i \in 1..n /\ seq[i] = q[i]
        BY <3>5
      <4>2. CASE j = n + 1
        BY <3>7, <4>1, <4>2
      <4>3. CASE j # n + 1
        <5>1. j \in 1..n /\ seq[j] = q[j]
          BY <3>5, <4>3
        <5>2. QED
          BY <3>6, <4>1, <5>1 DEF Rising
      <4>4. QED
        BY <4>2, <4>3
    <3>10. QED
      BY <2>4, <3>5, <3>8, <3>9 DEF InRow
  <2>7. QED
    BY <2>5, <2>6
<1>2. QED
  BY <1>1

\* InOrder names every element of the set at one place.
Lists(seq, W) ==
    /\ seq \in Seq(W) /\ Len(seq) = Cardinality(W) /\ DOMAIN seq = 1..Cardinality(W)
    /\ \A i, j \in DOMAIN seq : seq[i] = seq[j] => i = j
    /\ \A c \in W : \E i \in DOMAIN seq : seq[i] = c

LEMMA InOrderLists ==
  ASSUME NEW N \in Nat, NEW W \in SUBSET (0..N)
  PROVE  Lists(InOrder(W), W) /\ Cardinality(W) \in Nat /\ IsFiniteSet(W)
<1> DEFINE n == Cardinality(W)
           seq == InOrder(W)
<1>1. IsFiniteSet(W) /\ n \in Nat
  <2>1. 0 \in Int /\ N \in Int
    OBVIOUS
  <2>2. IsFiniteSet(0..N)
    BY <2>1, FS_Interval
  <2>3. QED
    BY <2>2, FS_Subset, FS_CardinalityType
<1>2. seq \in [1..n -> W] /\ Rising(seq)
  <2>1. \E s \in [1..n -> W] : \A i, j \in DOMAIN s : i < j => s[i] < s[j]
    BY Enumerated DEF InRow, Rising
  <2>2. seq = CHOOSE s \in [1..n -> W] : \A i, j \in DOMAIN s : i < j => s[i] < s[j]
    BY DEF InOrder
  <2> HIDE DEF seq, n
  <2>3. QED
    BY <2>1, <2>2 DEF Rising
<1> HIDE DEF seq
<1>3. seq \in Seq(W) /\ Len(seq) = n /\ DOMAIN seq = 1..n
  BY <1>1, <1>2, LenProperties, SeqDef
<1>4. \A i, j \in 1..n : seq[i] = seq[j] => i = j
  <2> TAKE i, j \in 1..n
  <2>1. seq[i] \in 0..N /\ seq[j] \in 0..N
    BY <1>2
  <2>2. (i < j => seq[i] < seq[j]) /\ (j < i => seq[j] < seq[i])
    BY <1>2 DEF Rising
  <2>3. QED
    BY <1>1, <2>1, <2>2
<1>5. \A c \in W : \E i \in 1..n : seq[i] = c
  <2>1. seq \in Injection(1..n, W)
    BY <1>2, <1>4 DEF Injection, IsInjective
  <2>2. Cardinality(1..n) = n
    BY <1>1, FS_Interval
  <2>3. seq \in Surjection(1..n, W)
    BY <1>1, <2>1, <2>2, FS_Injection
  <2>4. QED
    BY <2>3 DEF Surjection
<1>6. QED
  BY <1>1, <1>3, <1>4, <1>5 DEF Lists, seq

-----------------------------------------------------------------------------
(* The rows of the cases with a resume of their own, one after the other *)

LEMMA OneEach ==
  ASSUME NEW R, NEW n \in Nat, NEW one \in [1..n -> R]
  PROVE  FlattenSeq([i \in 1..n |-> <<one[i]>>]) = one
<1> DEFINE seqs == [i \in 1..n |-> <<one[i]>>]
           Flat(f) == f = [i \in 1..n |-> IF i = 1 THEN seqs[i] ELSE f[i - 1] \o seqs[i]]
           g == [i \in 1..n |-> [k \in 1..i |-> one[k]]]
<1>1. seqs \in Seq(Seq(R)) /\ Len(seqs) = n
  <2>1. \A i \in 1..n : seqs[i] \in Seq(R)
    OBVIOUS
  <2>2. seqs \in [1..n -> Seq(R)]
    BY <2>1
  <2>3. QED
    BY <2>2, SeqDef, LenProperties
<1>2. \A i \in 1..n : seqs[i] = <<one[i]>> /\ one[i] \in R
  OBVIOUS
<1>3. \A i \in 1..n : g[i] \in Seq(R) /\ Len(g[i]) = i /\ g[i] = [k \in 1..i |-> one[k]]
  OBVIOUS
<1>4. ASSUME NEW i \in 1..n, i # 1
      PROVE  g[i - 1] \o seqs[i] = g[i]
  <2>1. i - 1 \in 1..n
    BY <1>4
  <2>2. g[i - 1] \in Seq(R) /\ Len(g[i - 1]) = i - 1 /\ g[i - 1] = [k \in 1..(i - 1) |-> one[k]]
    BY <1>3, <2>1
  <2>3. seqs[i] \in Seq(R) /\ Len(seqs[i]) = 1 /\ seqs[i][1] = one[i]
    BY <1>2
  <2> HIDE DEF g, seqs
  <2>4. /\ g[i - 1] \o seqs[i] \in Seq(R)
        /\ Len(g[i - 1] \o seqs[i]) = Len(g[i - 1]) + Len(seqs[i])
        /\ \A k \in 1..(Len(g[i - 1]) + Len(seqs[i])) : (g[i - 1] \o seqs[i])[k] =
              IF k <= Len(g[i - 1]) THEN g[i - 1][k] ELSE seqs[i][k - Len(g[i - 1])]
    BY <2>2, <2>3, ConcatProperties
  <2>5. /\ (i - 1) + 1 = i /\ i - (i - 1) = 1 /\ i \in Nat
        /\ \A k \in 1..i : k = i \/ k \in 1..(i - 1)
        /\ \A k \in 1..(i - 1) : k <= i - 1
        /\ ~(i <= i - 1)
    OBVIOUS
  <2>6. \A k \in 1..(i - 1) : g[i - 1][k] = one[k]
    BY <2>2
  <2>7. \A k \in 1..i : g[i][k] = one[k]
    BY <1>3
  <2>8. Len(g[i - 1] \o seqs[i]) = i
    BY <2>2, <2>3, <2>4, <2>5
  <2>9. \A k \in 1..i : (g[i - 1] \o seqs[i])[k] =
              IF k <= i - 1 THEN g[i - 1][k] ELSE seqs[i][k - (i - 1)]
    BY <2>2, <2>3, <2>4, <2>5
  <2>10. \A k \in 1..i : (g[i - 1] \o seqs[i])[k] = one[k]
    BY <2>3, <2>5, <2>6, <2>9
  <2>11. /\ g[i] \in Seq(R) /\ Len(g[i - 1] \o seqs[i]) = Len(g[i])
         /\ \A k \in 1..Len(g[i - 1] \o seqs[i]) : (g[i - 1] \o seqs[i])[k] = g[i][k]
    BY <1>3, <2>7, <2>8, <2>10
  <2>12. QED
    BY <2>4, <2>11, SeqEqual
<1>5. ASSUME 1 \in 1..n PROVE g[1] = seqs[1]
  BY <1>5
<1>6. Flat(g)
  <2> DEFINE h == [i \in 1..n |-> IF i = 1 THEN seqs[i] ELSE g[i - 1] \o seqs[i]]
  <2>1. \A i \in 1..n : h[i] = g[i]
    <3> TAKE i \in 1..n
    <3>1. h[i] = IF i = 1 THEN seqs[i] ELSE g[i - 1] \o seqs[i]
      OBVIOUS
    <3> HIDE DEF h, g, seqs
    <3>2. QED
      BY <1>4, <1>5, <3>1
  <2>2. h = g
    <3>1. h = [i \in 1..n |-> h[i]] /\ g = [i \in 1..n |-> g[i]]
      OBVIOUS
    <3> HIDE DEF h, g
    <3>2. QED
      BY <2>1, <3>1
  <2>3. QED
    BY <2>2
<1> DEFINE f == CHOOSE x : Flat(x)
<1>7. Flat(f)
  <2> HIDE DEF g, seqs
  <2>1. QED
    BY <1>6
<1>8. \A i \in 1..n : f[i] = IF i = 1 THEN seqs[i] ELSE f[i - 1] \o seqs[i]
  <2> DEFINE h == [i \in 1..n |-> IF i = 1 THEN seqs[i] ELSE f[i - 1] \o seqs[i]]
  <2>1. f = h
    BY <1>7
  <2> HIDE DEF f
  <2>2. \A i \in 1..n : h[i] = IF i = 1 THEN seqs[i] ELSE f[i - 1] \o seqs[i]
    OBVIOUS
  <2> HIDE DEF h
  <2>3. QED
    BY <2>1, <2>2
<1>9. FlattenSeq(seqs) = IF n = 0 THEN seqs ELSE f[n]
  <2> HIDE DEF g
  <2>1. QED
    BY <1>1 DEF FlattenSeq
<1> HIDE DEF f, g, seqs
<1>10. \A i \in 1..n : f[i] = g[i]
  <2> DEFINE bad == {i \in 1..n : f[i] # g[i]}
  <2> SUFFICES ASSUME bad # {} PROVE FALSE
    OBVIOUS
  <2>1. PICK i \in bad : \A j \in bad : i <= j
    <3>1. bad \in SUBSET Nat
      OBVIOUS
    <3> HIDE DEF bad
    <3>2. QED
      BY <3>1, Least
  <2>2. i \in 1..n /\ f[i] # g[i]
    OBVIOUS
  <2>3. CASE i = 1
    BY <1>5, <1>8, <2>2, <2>3
  <2>4. CASE i # 1
    <3>1. i - 1 \in 1..n /\ i - 1 \notin bad
      BY <2>1, <2>2, <2>4
    <3>2. f[i - 1] = g[i - 1]
      BY <3>1
    <3>3. QED
      BY <1>4, <1>8, <2>2, <2>4, <3>2
  <2>5. QED
    BY <2>3, <2>4
<1>11. QED
  <2>1. CASE n = 0
    <3>1. seqs = one
      BY <2>1 DEF seqs
    <3>2. QED
      BY <1>9, <2>1, <3>1 DEF seqs
  <2>2. CASE n # 0
    <3>1. f[n] = [k \in 1..n |-> one[k]]
      BY <1>3, <1>10, <2>2
    <3>2. QED
      BY <1>9, <2>2, <3>1 DEF seqs
  <2>3. QED
    BY <2>1, <2>2

-----------------------------------------------------------------------------
(* The invariant *)

RowType ==
    [case : 1..Cases, scored : BOOLEAN, of : (0..Cases) \X (0..Cases), match : BOOLEAN,
     wins : 0..Repeats]

\* A row of a case with o the cases that have a resume of their own and n trials.
Fits(row, o, n) ==
    /\ row \in RowType
    /\ row.wins <= n
    /\ ~row.scored => row.wins = 0
    /\ row.scored => row.of = <<row.case, IF row.case \in o THEN row.case ELSE 0>>

\* A row for each case of a set.
Cover(rs, cases, o, n) ==
    /\ rs \in Seq(RowType) /\ Len(rs) = Cardinality(cases)
    /\ \A i \in DOMAIN rs : Fits(rs[i], o, n) /\ rs[i].case \in cases
    /\ \A c \in cases : \E i \in DOMAIN rs : rs[i].case = c

\* The numbers of a result add up.
AddsUp(m) ==
    /\ m.total = total /\ m.evaluated + m.errored = total
    /\ m.tp + m.fp + m.fn + m.tn = m.evaluated
    /\ m.wins <= m.evaluated * repeats

Before == {"idle", "rejected", "start", "tag", "setup"}

Types ==
    /\ kind \in Kinds /\ own \subseteq 1..Cases /\ prompt \in BOOLEAN
    /\ script \in {"ok", "crawl_error", "eval_error"}
    /\ pc \in Before \cup {"params", "score", "table", "tell", "close", "done"}
    /\ total \in 0..Cases /\ at \in 1..(total + 1)
    /\ trial.count \in 0..MaxCalls /\ ran \in 0..repeats /\ wins \in 0..ran
    /\ repeats \in 0..Repeats
    /\ ending \in {"FINISHED", "FAILED"}
    /\ run \in [status : Statuses, tagged : BOOLEAN, error : BOOLEAN, metrics : {run.metrics}]
    /\ faults \in 0..MaxFaults /\ killed \in BOOLEAN
    /\ kind \in {"guardrails", "tool"} => own = {}
    /\ TrialInv(trial, script)

\* The rows are those of the cases the thread has gone through, or lost with it.
RowsInv ==
    /\ ~killed => Cover(rows, 1..(at - 1), own, repeats)
    /\ killed => rows = <<>> /\ pc = "done"
    /\ pc \in Before => at = 1 /\ ~killed
    /\ pc = "idle" => ran = 0 /\ wins = 0

Whole == at = total + 1 /\ Len(run.metrics) = 1

\* The metrics are logged once, when all rows are there, and only then the run is completed.
MetricsInv ==
    /\ run.metrics # <<>> => Len(run.metrics) = 1 /\ AddsUp(run.metrics[1])
    /\ pc \in Before \cup {"params", "score"} =>
          run.metrics = <<>> /\ run.status \in {"none", "RUNNING"}
    /\ pc = "table" => Whole
    /\ pc = "close" /\ ending = "FINISHED" => Whole
    /\ pc \in {"table", "tell", "close"} => run.status \in {"none", "RUNNING"}
    /\ run.status = "FINISHED" => Whole /\ pc = "done" /\ ~killed

Told == run.error \/ ~prompt \/ faults > 0

FailureInv ==
    /\ pc = "close" /\ ending = "FAILED" => Told
    /\ run.status = "FAILED" => Told

IInv == Types /\ RowsInv /\ MetricsInv /\ FailureInv

-----------------------------------------------------------------------------
(* Rows *)

LEMMA Joined ==
  ASSUME NEW C, NEW D, IsFiniteSet(C), IsFiniteSet(D), C \cap D = {}, NEW o, NEW n, NEW r, NEW s,
         Cover(r, C, o, n), Cover(s, D, o, n)
  PROVE  Cover(r \o s, C \cup D, o, n)
<1> DEFINE k == Len(r)
           m == Len(s)
           t == r \o s
<1>1. /\ r \in Seq(RowType) /\ k = Cardinality(C) /\ DOMAIN r = 1..k
      /\ s \in Seq(RowType) /\ m = Cardinality(D) /\ DOMAIN s = 1..m /\ k \in Nat /\ m \in Nat
  BY LenProperties DEF Cover
<1>2. /\ t \in Seq(RowType) /\ Len(t) = k + m
      /\ \A i \in 1..(k + m) : t[i] = IF i <= k THEN r[i] ELSE s[i - k]
  BY <1>1, ConcatProperties
<1>3. DOMAIN t = 1..(k + m)
  BY <1>2, LenProperties
<1>4. Cardinality(C \cup D) = k + m
  <2>1. Cardinality(C \cap D) = 0
    BY FS_EmptySet
  <2>2. Cardinality(C \cup D) = Cardinality(C) + Cardinality(D) - Cardinality(C \cap D)
    BY FS_Union
  <2>3. QED
    BY <1>1, <2>1, <2>2
<1> HIDE DEF t, k, m
<1>5. \A i \in 1..k : i \in 1..(k + m) /\ t[i] = r[i]
  BY <1>1, <1>2
<1>6. \A j \in 1..m : k + j \in 1..(k + m) /\ t[k + j] = s[j]
  <2> TAKE j \in 1..m
  <2>1. k + j \in 1..(k + m) /\ ~(k + j <= k) /\ (k + j) - k = j
    BY <1>1
  <2>2. QED
    BY <1>2, <2>1
<1>7. \A i \in 1..(k + m) : i \in 1..k \/ (i - k \in 1..m /\ i = k + (i - k))
  BY <1>1
<1>8. \A i \in 1..(k + m) : Fits(t[i], o, n) /\ t[i].case \in C \cup D
  <2> TAKE i \in 1..(k + m)
  <2>1. CASE i \in 1..k
    <3>1. t[i] = r[i] /\ i \in DOMAIN r
      BY <1>1, <1>5, <2>1
    <3>2. QED
      BY <3>1 DEF Cover
  <2>2. CASE i - k \in 1..m /\ i = k + (i - k)
    <3>1. PICK j \in 1..m : i = k + j
      BY <2>2
    <3>2. t[i] = s[j] /\ j \in DOMAIN s
      BY <1>1, <1>6, <3>1
    <3>3. QED
      BY <3>2 DEF Cover
  <2>3. QED
    BY <1>7, <2>1, <2>2
<1>9. ASSUME NEW c \in C \cup D PROVE \E i \in 1..(k + m) : t[i].case = c
  <2>1. CASE c \in C
    <3>1. PICK i \in 1..k : r[i].case = c
      BY <1>1, <2>1 DEF Cover
    <3>2. QED
      BY <1>5, <3>1
  <2>2. CASE c \in D
    <3>1. PICK j \in 1..m : s[j].case = c
      BY <1>1, <2>2 DEF Cover
    <3>2. QED
      BY <1>6, <3>1
  <2>3. QED
    BY <2>1, <2>2
<1>10. QED
  BY <1>2, <1>3, <1>4, <1>8, <1>9 DEF Cover, t

LEMMA NoRows ==
  ASSUME NEW o, NEW n
  PROVE  Cover(<<>>, {}, o, n)
<1>1. <<>> \in Seq(RowType) /\ Len(<<>>) = 0 /\ DOMAIN <<>> = {}
  BY EmptySeq
<1>2. QED
  BY <1>1, FS_EmptySet DEF Cover

LEMMA OneRow ==
  ASSUME NEW o, NEW n, NEW row, Fits(row, o, n)
  PROVE  Cover(<<row>>, {row.case}, o, n)
<1>1. /\ <<row>> \in Seq(RowType) /\ Len(<<row>>) = 1 /\ DOMAIN <<row>> = {1} /\ <<row>>[1] = row
  BY DEF Fits
<1>2. Cardinality({row.case}) = 1
  BY FS_Singleton
<1>3. QED
  BY <1>1, <1>2 DEF Cover

LEMMA ScoredFits ==
  ASSUME NEW c \in 1..Cases, NEW match \in BOOLEAN, NEW o, NEW n \in 0..Repeats, NEW w \in 0..n
  PROVE  /\ Fits(Row(c, <<c, IF c \in o THEN c ELSE 0>>, match, w), o, n)
         /\ Row(c, <<c, IF c \in o THEN c ELSE 0>>, match, w).case = c
  BY CasesAssumption, TrialAssumption DEF Fits, Row, RowType

LEMMA ErrorFits ==
  ASSUME NEW c \in 1..Cases, NEW o, NEW n \in 0..Repeats
  PROVE  Fits(ErrorRow(c), o, n) /\ ErrorRow(c).case = c
  BY CasesAssumption, TrialAssumption DEF Fits, ErrorRow, RowType

\* A sequence of rows, one for each member of a list.
LEMMA RowForEach ==
  ASSUME NEW C \in SUBSET (1..Cases), NEW batch, Lists(batch, C), Cardinality(C) \in Nat,
         NEW o, NEW n \in 0..Repeats,
         NEW rs, rs = [i \in DOMAIN batch |-> rs[i]],
         \A i \in DOMAIN batch : Fits(rs[i], o, n) /\ rs[i].case = batch[i]
  PROVE  Cover(rs, C, o, n)
<1> DEFINE k == Cardinality(C)
<1>1. /\ DOMAIN batch = 1..k /\ batch \in [1..k -> C]
      /\ \A c \in C : \E i \in 1..k : batch[i] = c
  BY LenProperties DEF Lists
<1>2. rs \in [1..k -> RowType]
  BY <1>1 DEF Fits
<1> HIDE DEF k
<1>3. rs \in Seq(RowType) /\ Len(rs) = k /\ DOMAIN rs = 1..k
  <2>1. rs \in Seq(RowType)
    BY <1>2, SeqDef DEF k
  <2>2. DOMAIN rs = 1..k /\ k \in Nat
    BY <1>2 DEF k
  <2>3. QED
    BY <2>1, <2>2, LenProperties
<1>4. QED
  BY <1>1, <1>3 DEF Cover, k

RowsFor(rs, batch, C, o, n) ==
    /\ Cover(rs, C, o, n)
    /\ DOMAIN rs = DOMAIN batch
    /\ \A i \in DOMAIN batch : Fits(rs[i], o, n) /\ rs[i].case = batch[i]

\* The rows of a call: each id leads to one place of the batch, and whoever answers for an id
\* carries it.
LEMMA RowsOfCover ==
  ASSUME NEW C \in SUBSET (1..Cases), NEW batch, Lists(batch, C), Cardinality(C) \in Nat,
         NEW o, NEW n \in 0..Repeats, NEW resume,
         \A c \in C : resume = IF c \in o THEN c ELSE 0,
         NEW scores, \A id \in DOMAIN batch : id \in DOMAIN scores => scores[id].id = id
  PROVE  RowsFor(RowsOf(batch, resume, scores), batch, C, o, n)
<1> DEFINE rs == RowsOf(batch, resume, scores)
<1>1. DOMAIN rs = DOMAIN batch /\ rs = [i \in DOMAIN batch |-> rs[i]]
  BY DEF RowsOf
<1>2. ASSUME NEW i \in DOMAIN batch
      PROVE  Fits(rs[i], o, n) /\ rs[i].case = batch[i]
  <2>1. IdOf(batch, batch[i]) = i
    BY DEF IdOf, Lists
  <2>2. batch[i] \in C /\ batch[i] \in 1..Cases
    <3>1. batch \in Seq(C)
      BY DEF Lists
    <3>2. batch[i] \in C
      BY <3>1, LenProperties
    <3>3. QED
      BY <3>2
  <2>3. rs[i] = IF i \in DOMAIN scores
                THEN Row(batch[i], <<batch[scores[i].id], resume>>, scores[i].is = "match", 0)
                ELSE ErrorRow(batch[i])
    BY <2>1 DEF RowsOf
  <2>4. CASE i \in DOMAIN scores
    <3>1. scores[i].id = i
      BY <2>4
    <3>2. resume = IF batch[i] \in o THEN batch[i] ELSE 0
      BY <2>2
    <3>3. PICK match \in BOOLEAN : match = (scores[i].is = "match")
      OBVIOUS
    <3>4. rs[i] = Row(batch[i], <<batch[i], IF batch[i] \in o THEN batch[i] ELSE 0>>, match, 0)
      BY <2>3, <2>4, <3>1, <3>2, <3>3
    <3>5. 0 \in 0..n
      BY TrialAssumption
    <3>6. QED
      BY <2>2, <3>4, <3>5, ScoredFits
  <2>5. CASE i \notin DOMAIN scores
    BY <2>2, <2>3, <2>5, ErrorFits
  <2>6. QED
    BY <2>4, <2>5
<1> HIDE DEF rs
<1>3. Cover(rs, C, o, n)
  BY <1>1, <1>2, RowForEach
<1>4. QED
  BY <1>1, <1>2, <1>3 DEF rs, RowsFor

\* What a call comes to: an error, or scores that carry the ids they answer for.
LEMMA Answered ==
  ASSUME NEW n \in Nat, NEW outcome \in Outcomes(n)
  PROVE  \A id \in DOMAIN outcome.scores : id \in 1..n => outcome.scores[id].id = id
<1>1. PICK p \in S!BatchOutcomes : p.jobs = n /\ outcome = p.outcome
  BY DEF Outcomes
<1>2. \/ \E e : outcome = S!Raised(e)
      \/ \E flagged \in SUBSET (1..n), reply \in S!Replies(n) :
            outcome = S!ScoreJobsBatch(n, flagged, reply)
  BY <1>1 DEF S!BatchOutcomes
<1>3. ASSUME NEW scores, scores = <<>> PROVE \A id \in DOMAIN scores : FALSE
  BY <1>3, EmptySeq
<1>4. CASE \E e : outcome = S!Raised(e)
  <2>1. outcome.scores = <<>>
    BY <1>4 DEF S!Raised
  <2>2. QED
    BY <1>3, <2>1
<1>5. CASE \E flagged \in SUBSET (1..n), reply \in S!Replies(n) :
             outcome = S!ScoreJobsBatch(n, flagged, reply)
  <2>1. PICK flagged \in SUBSET (1..n), reply \in S!Replies(n) :
            outcome = S!ScoreJobsBatch(n, flagged, reply)
    BY <1>5
  <2>2. CASE outcome = S!Scored(<<>>) \/ outcome = S!Raised("unparsable")
    <3>1. outcome.scores = <<>>
      BY <2>2 DEF S!Scored, S!Raised
    <3>2. QED
      BY <1>3, <3>1
  <2>3. CASE outcome = S!Scored(S!Answers(reply, 1..n \ flagged))
    <3> DEFINE ids == 1..n \ flagged
               good(id) == {i \in DOMAIN reply.items :
                              reply.items[i].id = id /\ reply.items[i].is \in S!Verdicts}
               last(id) == CHOOSE i \in good(id) : \A k \in good(id) : k <= i
    <3>1. outcome.scores = [id \in {i \in ids : good(i) # {}} |-> reply.items[last(id)]]
      BY <2>3 DEF S!Scored, S!Answers
    <3>2. \E N \in Nat : DOMAIN reply.items \subseteq 0..N
      <4>1. PICK N \in 0..MaxItems : reply.items \in [1..N -> S!Items(n)]
        BY DEF S!Replies, S!SeqOf
      <4>2. DOMAIN reply.items = 1..N /\ N \in Nat
        BY <4>1, SizeAssumption
      <4>3. 1..N \subseteq 0..N
        BY <4>2
      <4>4. QED
        BY <4>2, <4>3
    <3>3. ASSUME NEW id, good(id) # {} PROVE last(id) \in good(id)
      <4>1. PICK N \in Nat : good(id) \in SUBSET (0..N)
        BY <3>2
      <4>2. \E i \in good(id) : \A k \in good(id) : k <= i
        <5> HIDE DEF good
        <5>1. QED
          BY <3>3, <4>1, Greatest
      <4>3. QED
        BY <4>2
    <3>4. ASSUME NEW id \in DOMAIN outcome.scores PROVE outcome.scores[id].id = id
      <4>1. good(id) # {} /\ outcome.scores[id] = reply.items[last(id)]
        BY <3>1
      <4>2. last(id) \in good(id)
        BY <3>3, <4>1
      <4> HIDE DEF last
      <4>3. reply.items[last(id)].id = id
        BY <4>2
      <4>4. QED
        BY <4>1, <4>3
    <3>5. QED
      BY <3>4
  <2>4. QED
    BY <2>1, <2>2, <2>3 DEF S!ScoreJobsBatch
<1>6. QED
  BY <1>2, <1>4, <1>5

-----------------------------------------------------------------------------
(* The loop over the cases *)

LEMMA Numbers ==
  ASSUME Types
  PROVE  /\ Cases \in Nat /\ Repeats \in Nat /\ MaxCalls \in Nat /\ MaxFaults \in Nat
         /\ total \in Nat /\ at \in Nat \ {0} /\ repeats \in Nat /\ ran \in Nat /\ wins \in Nat
         /\ at <= total + 1 /\ total <= Cases /\ repeats <= Repeats /\ faults \in Nat
  BY CasesAssumption, TrialAssumption, FaultAssumption DEF Types

LEMMA ChunkIs ==
  ASSUME Types, at <= total
  PROVE  \E d \in Nat : /\ Chunk = at..(at + d - 1) /\ Cardinality(Chunk) = d /\ at + d - 1 <= total
                        /\ Chunk \in SUBSET (1..Cases) /\ IsFiniteSet(Chunk)
<1> DEFINE hi == IF at + BatchSize - 1 < total THEN at + BatchSize - 1 ELSE total
<1>1. /\ at \in Nat \ {0} /\ total \in Nat /\ total <= Cases /\ Cases \in Nat
      /\ BatchSize \in Nat \ {0}
  BY Numbers, SizeAssumption
<1>2. hi \in Nat /\ at <= hi /\ hi <= total
  BY <1>1
<1>3. Chunk = at..hi
  BY DEF Chunk
<1> HIDE DEF hi
<1>4. PICK d \in Nat : d = hi - at + 1
  BY <1>1, <1>2
<1>5. at \in Int /\ hi \in Int /\ ~(at > hi)
  BY <1>1, <1>2
<1>6. IsFiniteSet(at..hi) /\ Cardinality(at..hi) = d
  BY <1>4, <1>5, FS_Interval
<1>7. at + d - 1 = hi
  BY <1>1, <1>2, <1>4
<1>8. at..hi \in SUBSET (1..Cases)
  BY <1>1, <1>2
<1>9. QED
  BY <1>2, <1>3, <1>6, <1>7, <1>8

LEMMA Extended ==
  ASSUME Types, Cover(rows, 1..(at - 1), own, repeats), NEW more, NEW d \in Nat,
         Cover(more, at..(at + d - 1), own, repeats), at + d - 1 <= total, Add(more, d)
  PROVE  Cover(rows', 1..(at' - 1), own, repeats) /\ at' \in 1..(total + 1) /\ pc' = pc
<1> DEFINE C == 1..(at - 1)
           D == at..(at + d - 1)
<1>1. at \in Nat \ {0} /\ total \in Nat
  BY Numbers
<1>2. at' = at + d /\ rows' = rows \o more /\ pc' = pc
  BY DEF Add
<1>3. C \cap D = {} /\ C \cup D = 1..(at' - 1) /\ at' \in 1..(total + 1)
  BY <1>1, <1>2
<1>4. IsFiniteSet(C) /\ IsFiniteSet(D)
  <2>1. 1 \in Int /\ at - 1 \in Int /\ at \in Int /\ at + d - 1 \in Int
    BY <1>1
  <2>2. QED
    BY <2>1, FS_Interval
<1> HIDE DEF C, D
<1>5. Cover(rows \o more, C \cup D, own, repeats)
  BY <1>3, <1>4, Joined DEF C, D
<1>6. QED
  BY <1>2, <1>3, <1>5

LEMMA OneMore ==
  ASSUME Types, at <= total, Cover(rows, 1..(at - 1), own, repeats), NEW row,
         Fits(row, own, repeats), row.case = at, Add(<<row>>, 1)
  PROVE  Cover(rows', 1..(at' - 1), own, repeats) /\ at' \in 1..(total + 1) /\ pc' = pc
<1>1. at \in Nat \ {0} /\ total \in Nat
  BY Numbers
<1>2. at..(at + 1 - 1) = {at} /\ at + 1 - 1 <= total
  BY <1>1
<1>3. Cover(<<row>>, at..(at + 1 - 1), own, repeats)
  BY <1>2, OneRow
<1>4. QED
  BY <1>2, <1>3, Extended

\* A row of a case with a resume of its own, from a call of its own.
LEMMA SingleRow ==
  ASSUME NEW c \in 1..Cases, NEW o, c \in o, NEW n \in 0..Repeats, NEW outcome \in Outcomes(1)
  PROVE  LET rs == RowsOf(<<c>>, c, outcome.scores)
         IN  rs = <<rs[1]>> /\ Fits(rs[1], o, n) /\ rs[1].case = c
<1> DEFINE rs == RowsOf(<<c>>, c, outcome.scores)
           one == <<c>>
           set == {c}
<1>1. one \in Seq(set) /\ Len(one) = 1 /\ DOMAIN one = 1..1 /\ 1..1 = {1} /\ one[1] = c
  OBVIOUS
<1>2. Cardinality(set) = 1
  BY FS_Singleton
<1>3. Lists(one, set)
  BY <1>1, <1>2 DEF Lists
<1>4. \A id \in DOMAIN one : id \in DOMAIN outcome.scores => outcome.scores[id].id = id
  BY <1>1, Answered
<1>5. \A d \in set : c = IF d \in o THEN d ELSE 0
  OBVIOUS
<1>6. set \in SUBSET (1..Cases) /\ Cardinality(set) \in Nat
  BY <1>2
<1> HIDE DEF one, set
<1>7. /\ DOMAIN RowsOf(one, c, outcome.scores) = DOMAIN one
      /\ \A i \in DOMAIN one : Fits(RowsOf(one, c, outcome.scores)[i], o, n)
                               /\ RowsOf(one, c, outcome.scores)[i].case = one[i]
  <2> DEFINE scores == outcome.scores
  <2>1. \A id \in DOMAIN one : id \in DOMAIN scores => scores[id].id = id
    BY <1>4
  <2> HIDE DEF scores, rs
  <2>2. RowsFor(RowsOf(one, c, scores), one, set, o, n)
    BY <1>3, <1>5, <1>6, <2>1, RowsOfCover
  <2>3. QED
    BY <2>2 DEF scores, RowsFor
<1>8. DOMAIN rs = 1..1 /\ Fits(rs[1], o, n) /\ rs[1].case = c
  BY <1>1, <1>7 DEF one
<1>9. rs = [i \in DOMAIN rs |-> rs[i]]
  BY DEF RowsOf
<1> HIDE DEF rs
<1>10. rs = <<rs[1]>>
  BY <1>8, <1>9
<1>11. QED
  BY <1>8, <1>10 DEF rs

\* The rows of those of a chunk that have a resume of their own.
LEMMA SinglesCover ==
  ASSUME NEW C \in SUBSET (1..Cases), NEW o, C \subseteq o, NEW n \in 0..Repeats,
         NEW single, Lists(single, C), Cardinality(C) \in Nat,
         NEW others \in [DOMAIN single -> Outcomes(1)]
  PROVE  Cover(FlattenSeq([i \in DOMAIN single |->
                   RowsOf(<<single[i]>>, single[i], others[i].scores)]), C, o, n)
<1> DEFINE k == Cardinality(C)
           part(i) == RowsOf(<<single[i]>>, single[i], others[i].scores)
           one == [i \in 1..k |-> part(i)[1]]
<1>1. DOMAIN single = 1..k /\ single \in Seq(C) /\ Len(single) = k
  BY DEF Lists
<1>2. \A i \in 1..k : single[i] \in C
  BY <1>1, LenProperties
<1>3. ASSUME NEW i \in 1..k
      PROVE  part(i) = <<one[i]>> /\ Fits(one[i], o, n) /\ one[i].case = single[i]
  <2>1. single[i] \in 1..Cases /\ single[i] \in o /\ others[i] \in Outcomes(1)
    BY <1>1, <1>2
  <2>2. part(i) = <<part(i)[1]>> /\ Fits(part(i)[1], o, n) /\ part(i)[1].case = single[i]
    BY <2>1, SingleRow
  <2>3. one[i] = part(i)[1]
    OBVIOUS
  <2> HIDE DEF part, one
  <2>4. QED
    BY <2>2, <2>3
<1>4. one = [i \in 1..k |-> one[i]] /\ one \in [1..k -> RowType]
  <2>1. one = [i \in 1..k |-> one[i]]
    OBVIOUS
  <2> HIDE DEF one
  <2>2. \A i \in 1..k : one[i] \in RowType
    BY <1>3 DEF Fits
  <2>3. QED
    BY <2>1, <2>2
<1>5. [i \in DOMAIN single |-> part(i)] = [i \in 1..k |-> <<one[i]>>]
  <2> HIDE DEF part, one
  <2>1. QED
    BY <1>1, <1>3
<1>6. FlattenSeq([i \in 1..k |-> <<one[i]>>]) = one
  <2> HIDE DEF one, k
  <2>1. QED
    BY <1>4, OneEach DEF k
<1>7. Cover(one, C, o, n)
  <2> HIDE DEF one, part
  <2>1. QED
    BY <1>1, <1>3, <1>4, RowForEach
<1>8. QED
  BY <1>5, <1>6, <1>7

\* What a chunk leaves behind: nothing, when the run is over, or a row for each of its cases.
LEMMA ChunkRows ==
  ASSUME Types, at <= total, ScoreChunk
  PROVE  Abort \/ \E more : Add(more, Cardinality(Chunk)) /\ Cover(more, Chunk, own, repeats)
<1> DEFINE A == Chunk \ own
           B == Chunk \cap own
           batch == InOrder(A)
           single == InOrder(B)
           main == IF batch = <<>> THEN {S!Scored(<<>>)} ELSE Outcomes(Len(batch))
<1>1. PICK d \in Nat : /\ Chunk = at..(at + d - 1) /\ Cardinality(Chunk) = d
                       /\ Chunk \in SUBSET (1..Cases) /\ IsFiniteSet(Chunk)
  BY ChunkIs
<1>2. repeats \in 0..Repeats /\ at \in Nat \ {0} /\ Cases \in Nat
  BY Numbers DEF Types
<1>3. A \in SUBSET (1..Cases) /\ B \in SUBSET (1..Cases) /\ A \cup B = Chunk /\ A \cap B = {}
  BY <1>1
<1>4. /\ Lists(batch, A) /\ Cardinality(A) \in Nat /\ IsFiniteSet(A)
      /\ Lists(single, B) /\ Cardinality(B) \in Nat /\ IsFiniteSet(B)
  <2> HIDE DEF A, B
  <2>1. A \in SUBSET (0..Cases) /\ B \in SUBSET (0..Cases)
    BY <1>2, <1>3
  <2>2. QED
    BY <1>2, <2>1, InOrderLists
<1>5. PICK outcome \in main, others \in [DOMAIN single -> Outcomes(1)] :
         \/ Abort
         \/ ChunkFails
         \/ Add(RowsOf(batch, 0, outcome.scores) \o
                    FlattenSeq([i \in DOMAIN single |->
                        RowsOf(<<single[i]>>, single[i], others[i].scores)]),
                Cardinality(Chunk))
  BY DEF ScoreChunk
<1>6. ASSUME NEW i \in 1..d PROVE at + i - 1 \in Chunk /\ at + i - 1 \in 1..Cases
  <2>1. at + i - 1 \in at..(at + d - 1)
    BY <1>2
  <2>2. QED
    BY <1>1, <2>1
<1>7. CASE ChunkFails
  <2> DEFINE list == [i \in 1..d |-> at + i - 1]
             more == [i \in 1..d |-> ErrorRow(at + i - 1)]
  <2>1. Add(more, d)
    BY <1>1, <1>7 DEF ChunkFails
  <2>2. Lists(list, Chunk)
    <3>1. list \in [1..d -> Chunk]
      BY <1>6
    <3>2. list \in Seq(Chunk) /\ DOMAIN list = 1..d /\ Len(list) = d
      BY <3>1, SeqDef, LenProperties
    <3>3. \A i, j \in 1..d : list[i] = list[j] => i = j
      BY <1>2
    <3>4. ASSUME NEW c \in Chunk PROVE \E i \in 1..d : list[i] = c
      <4>1. c \in at..(at + d - 1)
        BY <1>1
      <4>2. c - at + 1 \in 1..d /\ at + (c - at + 1) - 1 = c
        BY <1>2, <4>1
      <4>3. QED
        BY <4>2
    <3> HIDE DEF list
    <3>5. QED
      BY <1>1, <3>2, <3>3, <3>4 DEF Lists
  <2>3. \A i \in 1..d : Fits(more[i], own, repeats) /\ more[i].case = list[i]
    <3> TAKE i \in 1..d
    <3>1. more[i] = ErrorRow(at + i - 1) /\ list[i] = at + i - 1 /\ at + i - 1 \in 1..Cases
      BY <1>6
    <3> HIDE DEF more, list
    <3>2. QED
      BY <1>2, <3>1, ErrorFits
  <2>4. DOMAIN list = 1..d /\ more = [i \in 1..d |-> more[i]]
    OBVIOUS
  <2> HIDE DEF more, list
  <2>5. Cover(more, Chunk, own, repeats)
    BY <1>1, <1>2, <2>2, <2>3, <2>4, RowForEach
  <2>6. QED
    BY <1>1, <2>1, <2>5
<1>8. Cover(RowsOf(batch, 0, outcome.scores), A, own, repeats)
  <2>1. \A id \in DOMAIN batch : id \in DOMAIN outcome.scores => outcome.scores[id].id = id
    <3>1. DOMAIN batch = 1..Cardinality(A) /\ Len(batch) = Cardinality(A)
      BY <1>4 DEF Lists
    <3>2. CASE batch = <<>>
      <4>1. outcome.scores = <<>> /\ DOMAIN batch = {}
        BY <3>2, EmptySeq DEF S!Scored
      <4>2. QED
        BY <4>1
    <3>3. CASE batch # <<>>
      <4>1. outcome \in Outcomes(Cardinality(A))
        BY <3>1, <3>3
      <4> HIDE DEF batch, A
      <4>2. QED
        BY <1>4, <3>1, <4>1, Answered
    <3>4. QED
      BY <3>2, <3>3
  <2>2. \A c \in A : 0 = IF c \in own THEN c ELSE 0
    OBVIOUS
  <2> HIDE DEF batch, A
  <2>3. QED
    BY <1>2, <1>3, <1>4, <2>1, <2>2, RowsOfCover DEF RowsFor
<1>9. Cover(FlattenSeq([i \in DOMAIN single |->
                RowsOf(<<single[i]>>, single[i], others[i].scores)]), B, own, repeats)
  <2>1. B \subseteq own
    OBVIOUS
  <2> HIDE DEF single, B
  <2>2. QED
    BY <1>2, <1>3, <1>4, <2>1, SinglesCover
<1>10. QED
  <2> DEFINE more == RowsOf(batch, 0, outcome.scores) \o
                        FlattenSeq([i \in DOMAIN single |->
                            RowsOf(<<single[i]>>, single[i], others[i].scores)])
  <2>1. Cover(more, Chunk, own, repeats)
    <3> HIDE DEF A, B
    <3>1. Cover(more, A \cup B, own, repeats)
      BY <1>3, <1>4, <1>8, <1>9, Joined
    <3>2. QED
      BY <1>3, <3>1
  <2> HIDE DEF more
  <2>2. QED
    BY <1>5, <1>7, <2>1 DEF more

-----------------------------------------------------------------------------
(* The summary *)

\* FoldLeft takes the rows from the last one backwards, by a recursive function on sets of
\* places; that there is one is shown by naming it: as many as there are pairs of a row and a
\* number up to its successful trials.
Won(rs, W) == UNION {{i} \X (1..rs[i].wins) : i \in W}

IsSum(g, rs) ==
    g = [W \in SUBSET DOMAIN rs |->
            IF W = {} THEN 0 ELSE g[W \ {Max(W)}] + rs[Max(W)].wins]

LEMMA FoldIs ==
  ASSUME NEW rs
  PROVE  FoldLeft(LAMBDA n, r : n + r.wins, 0, rs) = (CHOOSE g : IsSum(g, rs))[DOMAIN rs]
  BY DEF FoldLeft, MapThenFoldSet, IsSum

LEMMA MaxIs ==
  ASSUME NEW N \in Nat, NEW W \in SUBSET (1..N), W # {}
  PROVE  Max(W) \in W
<1>1. W \in SUBSET (0..N)
  OBVIOUS
<1>2. \E m \in W : \A k \in W : k <= m
  BY <1>1, Greatest
<1>3. \E m \in W : \A k \in W : m >= k
  BY <1>2
<1>4. QED
  BY <1>3 DEF Max

LEMMA WonFinite ==
  ASSUME NEW N \in Nat, NEW rs, \A i \in 1..N : rs[i].wins \in 0..Repeats, NEW W \in SUBSET (1..N)
  PROVE  IsFiniteSet(Won(rs, W)) /\ Cardinality(Won(rs, W)) \in Nat
<1>1. Repeats \in Nat
  BY TrialAssumption
<1>2. Won(rs, W) \in SUBSET ((1..N) \X (1..Repeats))
  <2>1. \A i \in W : i \in 1..N /\ 1..rs[i].wins \subseteq 1..Repeats
    BY <1>1
  <2>2. \A i \in W : {i} \X (1..rs[i].wins) \subseteq (1..N) \X (1..Repeats)
    BY <2>1
  <2>3. QED
    BY <2>2 DEF Won
<1>3. IsFiniteSet((1..N) \X (1..Repeats))
  <2>1. 1 \in Int /\ N \in Int /\ Repeats \in Int
    BY <1>1
  <2>2. IsFiniteSet(1..N) /\ IsFiniteSet(1..Repeats)
    BY <2>1, FS_Interval
  <2>3. QED
    BY <2>2, FS_Product
<1>4. QED
  BY <1>2, <1>3, FS_Subset, FS_CardinalityType

LEMMA WonSplit ==
  ASSUME NEW N \in Nat, NEW rs, \A i \in 1..N : rs[i].wins \in 0..Repeats, NEW W \in SUBSET (1..N),
         NEW i \in W
  PROVE  Cardinality(Won(rs, W)) = Cardinality(Won(rs, W \ {i})) + rs[i].wins
<1> DEFINE A == {i} \X (1..rs[i].wins)
           B == Won(rs, W \ {i})
<1>1. Won(rs, W) = A \cup B /\ A \cap B = {}
  BY DEF Won
<1>2. rs[i].wins \in Nat
  <2>1. i \in 1..N
    OBVIOUS
  <2>2. QED
    BY <2>1, TrialAssumption
<1>3. IsFiniteSet(A) /\ Cardinality(A) = rs[i].wins
  <2>1. IsFiniteSet({i}) /\ Cardinality({i}) = 1
    BY FS_Singleton
  <2>2. IsFiniteSet(1..rs[i].wins) /\ Cardinality(1..rs[i].wins) = rs[i].wins
    <3>1. PICK w \in Nat : w = rs[i].wins
      BY <1>2
    <3>2. IsFiniteSet(1..w) /\ Cardinality(1..w) = w
      <4>1. 1 \in Int /\ w \in Int /\ (1 > w => w = 0)
        OBVIOUS
      <4>2. QED
        BY <4>1, FS_Interval
    <3>3. QED
      BY <3>1, <3>2
  <2>3. IsFiniteSet(A) /\ Cardinality(A) = Cardinality({i}) * Cardinality(1..rs[i].wins)
    BY <2>1, <2>2, FS_Product
  <2>4. QED
    BY <1>2, <2>1, <2>2, <2>3
<1>4. IsFiniteSet(B) /\ Cardinality(B) \in Nat
  BY WonFinite
<1> HIDE DEF A, B
<1>5. Cardinality(A \cap B) = 0
  BY <1>1, FS_EmptySet
<1>6. Cardinality(A \cup B) = Cardinality(A) + Cardinality(B) - Cardinality(A \cap B)
  BY <1>3, <1>4, FS_Union
<1>7. Cardinality(A \cup B) = Cardinality(B) + rs[i].wins
  BY <1>2, <1>3, <1>4, <1>5, <1>6
<1>8. QED
  BY <1>1, <1>7 DEF B

LEMMA WinsAreWon ==
  ASSUME NEW N \in Nat, NEW rs, DOMAIN rs = 1..N, \A i \in 1..N : rs[i].wins \in 0..Repeats
  PROVE  FoldLeft(LAMBDA n, r : n + r.wins, 0, rs) = Cardinality(Won(rs, 1..N))
<1> DEFINE g == [W \in SUBSET (1..N) |-> Cardinality(Won(rs, W))]
           f == CHOOSE x : IsSum(x, rs)
<1>1. \A W \in SUBSET (1..N) : W # {} => Max(W) \in W
  BY MaxIs
<1>2. Won(rs, {}) = {} /\ Cardinality({}) = 0
  BY FS_EmptySet DEF Won
<1>3. ASSUME NEW W \in SUBSET (1..N), W # {}
      PROVE  Cardinality(Won(rs, W)) = Cardinality(Won(rs, W \ {Max(W)})) + rs[Max(W)].wins
  BY <1>1, <1>3, WonSplit
<1>4. \A W \in SUBSET (1..N) : g[W] = IF W = {} THEN 0 ELSE g[W \ {Max(W)}] + rs[Max(W)].wins
  <2> TAKE W \in SUBSET (1..N)
  <2>1. W \ {Max(W)} \in SUBSET (1..N)
    OBVIOUS
  <2>2. g[W] = Cardinality(Won(rs, W)) /\ g[W \ {Max(W)}] = Cardinality(Won(rs, W \ {Max(W)}))
    BY <2>1
  <2> HIDE DEF g
  <2>3. QED
    BY <1>2, <1>3, <2>2
<1>5. IsSum(g, rs)
  <2> DEFINE h == [W \in SUBSET (1..N) |-> IF W = {} THEN 0 ELSE g[W \ {Max(W)}] + rs[Max(W)].wins]
  <2>1. \A W \in SUBSET (1..N) : g[W] = h[W]
    BY <1>4
  <2>2. g = [W \in SUBSET (1..N) |-> g[W]] /\ h = [W \in SUBSET (1..N) |-> h[W]]
    OBVIOUS
  <2>3. g = h
    <3> HIDE DEF g, h
    <3>1. QED
      BY <2>1, <2>2
  <2>4. QED
    BY <2>3 DEF IsSum
<1>6. IsSum(f, rs)
  <2> HIDE DEF g
  <2>1. QED
    BY <1>5
<1> HIDE DEF f
<1>7. \A W \in SUBSET (1..N) : f[W] = IF W = {} THEN 0 ELSE f[W \ {Max(W)}] + rs[Max(W)].wins
  <2> DEFINE h == [W \in SUBSET (1..N) |-> IF W = {} THEN 0 ELSE f[W \ {Max(W)}] + rs[Max(W)].wins]
  <2>1. f = h
    BY <1>6 DEF IsSum
  <2>2. \A W \in SUBSET (1..N) : h[W] = IF W = {} THEN 0 ELSE f[W \ {Max(W)}] + rs[Max(W)].wins
    OBVIOUS
  <2> HIDE DEF h
  <2>3. QED
    BY <2>1, <2>2
<1>8. \A W \in SUBSET (1..N) : f[W] = Cardinality(Won(rs, W))
  <2> DEFINE bad == {W \in SUBSET (1..N) : f[W] # Cardinality(Won(rs, W))}
  <2> SUFFICES ASSUME bad # {} PROVE FALSE
    OBVIOUS
  <2>1. IsWellFoundedOn(StrictSubsetOrdering(1..N), SUBSET (1..N))
    <3>1. IsFiniteSet(1..N)
      BY FS_Interval
    <3>2. QED
      BY <3>1, FS_StrictSubsetOrderingWellFounded, FS_FiniteSubsetsOfFinite
  <2>2. PICK W \in bad : \A Q \in bad : <<Q, W>> \notin StrictSubsetOrdering(1..N)
    <3>1. bad \subseteq SUBSET (1..N)
      OBVIOUS
    <3> HIDE DEF bad
    <3>2. QED
      BY <2>1, <3>1, WFMin
  <2>3. W \in SUBSET (1..N) /\ f[W] # Cardinality(Won(rs, W))
    OBVIOUS
  <2>4. CASE W = {}
    BY <1>2, <1>7, <2>3, <2>4
  <2>5. CASE W # {}
    <3>1. Max(W) \in W
      BY <1>1, <2>3, <2>5
    <3>2. W \ {Max(W)} \in SUBSET (1..N) /\ <<W \ {Max(W)}, W>> \in StrictSubsetOrdering(1..N)
      BY <2>3, <3>1 DEF StrictSubsetOrdering
    <3>3. f[W \ {Max(W)}] = Cardinality(Won(rs, W \ {Max(W)}))
      BY <2>2, <3>2
    <3> HIDE DEF bad
    <3>4. QED
      BY <1>3, <1>7, <2>3, <2>5, <3>3
  <2>6. QED
    BY <2>4, <2>5
<1>9. f[1..N] = Cardinality(Won(rs, 1..N))
  BY <1>8
<1>10. FoldLeft(LAMBDA n, r : n + r.wins, 0, rs) = f[DOMAIN rs]
  BY FoldIs DEF f
<1>11. f[DOMAIN rs] = Cardinality(Won(rs, 1..N))
  BY <1>9
<1>12. QED
  BY <1>10, <1>11, Zenon

\* The rows that score are the only ones with successful trials.
LEMMA WinsBounded ==
  ASSUME NEW N \in Nat, NEW rs, NEW o, NEW n \in 0..Repeats, \A i \in 1..N : Fits(rs[i], o, n)
  PROVE  Cardinality(Won(rs, 1..N)) <= Cardinality({i \in 1..N : rs[i].scored}) * n
<1> DEFINE E == {i \in 1..N : rs[i].scored}
<1>1. n \in Nat /\ \A i \in 1..N : rs[i].wins \in 0..n /\ (rs[i].scored \/ rs[i].wins = 0)
  BY TrialAssumption DEF Fits, RowType
<1>2. Won(rs, 1..N) \in SUBSET (E \X (1..n))
  <2>1. \A i \in 1..N : {i} \X (1..rs[i].wins) \subseteq E \X (1..n)
    <3> TAKE i \in 1..N
    <3>1. CASE rs[i].scored
      <4>1. i \in E /\ 1..rs[i].wins \subseteq 1..n
        BY <1>1, <3>1
      <4> HIDE DEF E
      <4>2. QED
        BY <4>1
    <3>2. CASE ~rs[i].scored
      <4>1. 1..rs[i].wins = {}
        BY <1>1, <3>2
      <4>2. QED
        BY <4>1
    <3>3. QED
      BY <3>1, <3>2
  <2> HIDE DEF E
  <2>2. QED
    BY <2>1 DEF Won
<1>3. IsFiniteSet(1..N)
  BY FS_Interval
<1>4. IsFiniteSet(E) /\ Cardinality(E) \in Nat
  BY <1>3, FS_Subset, FS_CardinalityType
<1>5. IsFiniteSet(1..n) /\ Cardinality(1..n) = n
  BY <1>1, FS_Interval
<1> HIDE DEF E
<1>6. IsFiniteSet(E \X (1..n)) /\ Cardinality(E \X (1..n)) = Cardinality(E) * Cardinality(1..n)
  BY <1>4, <1>5, FS_Product
<1>7. Cardinality(Won(rs, 1..N)) <= Cardinality(E \X (1..n))
  BY <1>2, <1>6, FS_Subset
<1>8. QED
  BY <1>5, <1>6, <1>7 DEF E

LEMMA Parts ==
  ASSUME NEW W, IsFiniteSet(W), NEW A, NEW B, A \cup B = W, A \cap B = {}
  PROVE  /\ Cardinality(A) + Cardinality(B) = Cardinality(W) /\ IsFiniteSet(A) /\ IsFiniteSet(B)
         /\ Cardinality(A) \in Nat /\ Cardinality(B) \in Nat
<1>1. A \in SUBSET W /\ B \in SUBSET W
  OBVIOUS
<1>2. IsFiniteSet(A) /\ IsFiniteSet(B) /\ Cardinality(A) \in Nat /\ Cardinality(B) \in Nat
  BY <1>1, FS_Subset, FS_CardinalityType
<1>3. Cardinality(A \cap B) = 0
  BY FS_EmptySet
<1>4. Cardinality(A \cup B) = Cardinality(A) + Cardinality(B) - Cardinality(A \cap B)
  BY <1>2, FS_Union
<1>5. Cardinality(A \cup B) = Cardinality(W)
  OBVIOUS
<1>6. Cardinality(A) + Cardinality(B) = Cardinality(W)
  BY <1>2, <1>3, <1>4, <1>5
<1>7. QED
  BY <1>2, <1>6

LEMMA SummaryAddsUp ==
  ASSUME Types, Cover(rows, 1..(at - 1), own, repeats), at = total + 1
  PROVE  AddsUp(Summary)
<1> DEFINE D == DOMAIN rows
           E == {i \in D : rows[i].scored}
           M == {i \in E : rows[i].match}
           U == {i \in E : ~rows[i].match}
           TP == {i \in D : rows[i].scored /\ rows[i].match /\ rows[i].case \in Expected}
           FP == {i \in D : rows[i].scored /\ rows[i].match /\ rows[i].case \notin Expected}
           FN == {i \in D : rows[i].scored /\ ~rows[i].match /\ rows[i].case \in Expected}
           TN == {i \in D : rows[i].scored /\ ~rows[i].match /\ rows[i].case \notin Expected}
           X == {i \in D : ~rows[i].scored}
<1>1. total \in Nat /\ repeats \in 0..Repeats /\ at - 1 = total
  BY Numbers DEF Types
<1>2. Cardinality(1..total) = total /\ IsFiniteSet(1..total)
  BY <1>1, FS_Interval
<1>3. D = 1..total /\ \A i \in D : Fits(rows[i], own, repeats)
  <2>1. rows \in Seq(RowType) /\ Len(rows) = total /\ \A i \in D : Fits(rows[i], own, repeats)
    BY <1>1, <1>2 DEF Cover
  <2>2. QED
    BY <2>1, LenProperties
<1>4. /\ Summary.total = total
      /\ Summary.evaluated = Cardinality(E) /\ Summary.errored = Cardinality(X)
      /\ Summary.tp = Cardinality(TP) /\ Summary.fp = Cardinality(FP)
      /\ Summary.fn = Cardinality(FN) /\ Summary.tn = Cardinality(TN)
  BY DEF Summary, Count
<1>5. Summary.wins = FoldLeft(LAMBDA n, r : n + r.wins, 0, rows)
  BY DEF Summary
<1>6. Cardinality(E) + Cardinality(X) = total /\ IsFiniteSet(E) /\ Cardinality(E) \in Nat
  <2>1. E \cup X = D /\ E \cap X = {}
    OBVIOUS
  <2> HIDE DEF E, X
  <2>2. QED
    BY <1>2, <1>3, <2>1, Parts
<1>7. Cardinality(TP) + Cardinality(FP) + Cardinality(FN) + Cardinality(TN) = Cardinality(E)
  <2>1. /\ M \cup U = E /\ M \cap U = {}
        /\ TP \cup FP = M /\ TP \cap FP = {}
        /\ FN \cup TN = U /\ FN \cap TN = {}
    OBVIOUS
  <2> HIDE DEF E, M, U, TP, FP, FN, TN
  <2>2. /\ Cardinality(M) + Cardinality(U) = Cardinality(E)
        /\ IsFiniteSet(M) /\ IsFiniteSet(U)
    BY <1>6, <2>1, Parts
  <2>3. /\ Cardinality(TP) + Cardinality(FP) = Cardinality(M)
        /\ Cardinality(TP) \in Nat /\ Cardinality(FP) \in Nat
    BY <2>1, <2>2, Parts
  <2>4. /\ Cardinality(FN) + Cardinality(TN) = Cardinality(U)
        /\ Cardinality(FN) \in Nat /\ Cardinality(TN) \in Nat
    BY <2>1, <2>2, Parts
  <2>5. QED
    BY <2>2, <2>3, <2>4
<1>8. Summary.wins <= Cardinality(E) * repeats
  <2>1. \A i \in 1..total : Fits(rows[i], own, repeats) /\ rows[i].wins \in 0..Repeats
    BY <1>3 DEF Fits, RowType
  <2>2. FoldLeft(LAMBDA n, r : n + r.wins, 0, rows) = Cardinality(Won(rows, 1..total))
    <3>1. DOMAIN rows = 1..total
      BY <1>3
    <3>2. QED
      BY <1>1, <2>1, <3>1, WinsAreWon
  <2>3. Cardinality(Won(rows, 1..total)) <= Cardinality({i \in 1..total : rows[i].scored}) * repeats
    BY <1>1, <2>1, WinsBounded
  <2>4. E = {i \in 1..total : rows[i].scored}
    BY <1>3
  <2>5. Summary.wins = Cardinality(Won(rows, 1..total))
    BY <1>5, <2>2, Zenon
  <2>6. QED
    BY <2>3, <2>4, <2>5
<1> HIDE DEF E, X, TP, FP, FN, TN
<1>9. QED
  BY <1>4, <1>6, <1>7, <1>8 DEF AddsUp

-----------------------------------------------------------------------------
(* The steps *)

\* What a step of the loop keeps of rows and trials.
LoopKeeps(rs, place, t, w, k) ==
    /\ Cover(rs, 1..(place - 1), own, repeats) /\ place \in 1..(total + 1)
    /\ TrialInv(t, script) /\ t.count \in 0..MaxCalls
    /\ k \in 0..repeats /\ w \in 0..k

LEMMA Alive ==
  ASSUME IInv, pc # "done"
  PROVE  ~killed /\ LoopKeeps(rows, at, trial, wins, ran)
BY DEF IInv, Types, RowsInv, LoopKeeps

LEMMA CaseScored ==
  ASSUME IInv, pc = "score", at <= total, kind = "single", ScoreCase(at), UNCHANGED trials
  PROVE  pc' \in {"score", "tell"} /\ LoopKeeps(rows', at', trial', wins', ran')
<1>1. LoopKeeps(rows, at, trial, wins, ran) /\ Types
  BY Alive DEF IInv
<1>2. trial' = trial /\ wins' = wins /\ ran' = ran
  BY DEF trials
<1>3. at \in 1..Cases /\ repeats \in 0..Repeats
  BY <1>1, Numbers DEF Types
<1>4. CASE Abort
  BY <1>1, <1>2, <1>4 DEF Abort
<1>5. ASSUME NEW row, Fits(row, own, repeats), row.case = at, Add(<<row>>, 1)
      PROVE  pc' \in {"score", "tell"} /\ LoopKeeps(rows', at', trial', wins', ran')
  <2>1. Cover(rows', 1..(at' - 1), own, repeats) /\ at' \in 1..(total + 1) /\ pc' = pc
    BY <1>1, <1>5, OneMore DEF LoopKeeps
  <2>2. QED
    BY <1>1, <1>2, <2>1 DEF LoopKeeps
<1>6. CASE Add(<<ErrorRow(at)>>, 1)
  BY <1>3, <1>5, <1>6, ErrorFits
<1>7. CASE \E match \in BOOLEAN : Add(<<Row(at, <<at, Resume(at)>>, match, 0)>>, 1)
  <2>1. PICK match \in BOOLEAN : Add(<<Row(at, <<at, Resume(at)>>, match, 0)>>, 1)
    BY <1>7
  <2>2. 0 \in 0..repeats
    BY <1>3, TrialAssumption
  <2>3. /\ Fits(Row(at, <<at, Resume(at)>>, match, 0), own, repeats)
        /\ Row(at, <<at, Resume(at)>>, match, 0).case = at
    BY <1>3, <2>2, ScoredFits DEF Resume
  <2>4. QED
    BY <1>5, <2>1, <2>3
<1>8. QED
  BY <1>4, <1>6, <1>7 DEF ScoreCase

LEMMA ChunkScored ==
  ASSUME IInv, pc = "score", at <= total, ScoreChunk, UNCHANGED trials
  PROVE  pc' \in {"score", "tell"} /\ LoopKeeps(rows', at', trial', wins', ran')
<1>1. LoopKeeps(rows, at, trial, wins, ran) /\ Types
  BY Alive DEF IInv
<1>2. trial' = trial /\ wins' = wins /\ ran' = ran
  BY DEF trials
<1>3. CASE Abort
  BY <1>1, <1>2, <1>3 DEF Abort
<1>4. CASE \E more : Add(more, Cardinality(Chunk)) /\ Cover(more, Chunk, own, repeats)
  <2>1. PICK d \in Nat : Chunk = at..(at + d - 1) /\ Cardinality(Chunk) = d /\ at + d - 1 <= total
    BY <1>1, ChunkIs
  <2>2. PICK more : Add(more, d) /\ Cover(more, at..(at + d - 1), own, repeats)
    BY <1>4, <2>1
  <2>3. Cover(rows', 1..(at' - 1), own, repeats) /\ at' \in 1..(total + 1) /\ pc' = pc
    BY <1>1, <2>1, <2>2, Extended DEF LoopKeeps
  <2>4. QED
    BY <1>1, <1>2, <2>3 DEF LoopKeeps
<1>5. QED
  BY <1>1, <1>3, <1>4, ChunkRows

LEMMA CaseChecked ==
  ASSUME IInv, pc = "score", at <= total, kind = "guardrails", CheckCase(at), UNCHANGED trials
  PROVE  pc' \in {"score", "tell"} /\ LoopKeeps(rows', at', trial', wins', ran')
<1>1. LoopKeeps(rows, at, trial, wins, ran) /\ Types /\ own = {}
  BY Alive DEF IInv, Types
<1>2. trial' = trial /\ wins' = wins /\ ran' = ran
  BY DEF trials
<1>3. at \in 1..Cases /\ repeats \in 0..Repeats /\ 0 \in 0..repeats
  BY <1>1, Numbers, TrialAssumption DEF Types
<1>4. CASE Abort
  BY <1>1, <1>2, <1>4 DEF Abort
<1>5. CASE \E match \in BOOLEAN : Add(<<Row(at, <<at, 0>>, match, 0)>>, 1)
  <2>1. PICK match \in BOOLEAN : Add(<<Row(at, <<at, 0>>, match, 0)>>, 1)
    BY <1>5
  <2>2. <<at, 0>> = <<at, IF at \in own THEN at ELSE 0>>
    BY <1>1
  <2>3. /\ Fits(Row(at, <<at, 0>>, match, 0), own, repeats)
        /\ Row(at, <<at, 0>>, match, 0).case = at
    BY <1>3, <2>2, ScoredFits
  <2>4. Cover(rows', 1..(at' - 1), own, repeats) /\ at' \in 1..(total + 1) /\ pc' = pc
    BY <1>1, <2>1, <2>3, OneMore DEF LoopKeeps
  <2>5. QED
    BY <1>1, <1>2, <2>4 DEF LoopKeeps
<1>6. QED
  BY <1>4, <1>5 DEF CheckCase

LEMMA TrialRun ==
  ASSUME IInv, pc = "score", at <= total, kind = "tool", RunTrial(at)
  PROVE  pc' \in {"score", "tell"} /\ LoopKeeps(rows', at', trial', wins', ran')
<1>1. LoopKeeps(rows, at, trial, wins, ran) /\ Types /\ own = {}
  BY Alive DEF IInv, Types
<1>2. at \in 1..Cases /\ repeats \in 0..Repeats /\ ran \in 0..repeats /\ wins \in 0..ran
  BY <1>1, Numbers DEF Types
<1>3. TrialInv(trial, script) /\ trial.count \in 0..MaxCalls /\ MaxCalls \in Nat /\ Repeats \in Nat
  BY <1>1, TrialAssumption DEF LoopKeeps
<1>4. TrialInv(T!InitialTrial, script) /\ T!InitialTrial.count \in 0..MaxCalls
  BY <1>3, NewTrial
<1>5. CASE ran < repeats /\ CallTool /\ UNCHANGED <<pc, at, rows>>
  <2>1. PICK call \in T!Calls : trial' = T!UseTool(trial, call, script)
    BY <1>5 DEF CallTool
  <2>2. TrialInv(trial', script)
    BY <1>3, <2>1, ToolStep
  <2>3. trial'.count = trial.count + 1
    BY <1>3, <2>1, ToolCounts DEF TrialInv
  <2>4. trial'.count \in 0..MaxCalls
    BY <1>3, <1>5, <2>3 DEF CallTool
  <2>5. QED
    BY <1>1, <1>5, <2>2, <2>4 DEF CallTool, LoopKeeps
<1>6. CASE ran < repeats /\ EndTrial /\ UNCHANGED <<pc, at, rows>>
  <2>1. wins' \in {wins, wins + 1} /\ ran' = ran + 1 /\ trial' = T!InitialTrial
    BY <1>6 DEF EndTrial
  <2>2. ran' \in 0..repeats /\ wins' \in 0..ran'
    BY <1>2, <1>3, <1>6, <2>1
  <2>3. QED
    BY <1>1, <1>4, <1>6, <2>1, <2>2 DEF LoopKeeps
<1>7. ASSUME NEW row, Fits(row, own, repeats), row.case = at, Add(<<row>>, 1), NoTrials
      PROVE  pc' \in {"score", "tell"} /\ LoopKeeps(rows', at', trial', wins', ran')
  <2>1. Cover(rows', 1..(at' - 1), own, repeats) /\ at' \in 1..(total + 1) /\ pc' = pc
    BY <1>1, <1>7, OneMore DEF LoopKeeps
  <2>2. 0 \in 0..repeats /\ 0 \in 0..0
    BY <1>2, <1>3
  <2>3. QED
    BY <1>4, <1>7, <2>1, <2>2 DEF LoopKeeps, NoTrials
<1>8. CASE ran = repeats /\ Add(<<Row(at, <<at, 0>>, FALSE, wins)>>, 1) /\ NoTrials
  <2>1. wins \in 0..repeats /\ <<at, 0>> = <<at, IF at \in own THEN at ELSE 0>>
    BY <1>1, <1>2, <1>8
  <2>2. /\ Fits(Row(at, <<at, 0>>, FALSE, wins), own, repeats)
        /\ Row(at, <<at, 0>>, FALSE, wins).case = at
    BY <1>2, <2>1, ScoredFits
  <2>3. QED
    BY <1>7, <1>8, <2>2
<1>9. CASE ran < repeats /\ Add(<<ErrorRow(at)>>, 1) /\ NoTrials
  BY <1>2, <1>7, <1>9, ErrorFits
<1>10. QED
  BY <1>5, <1>6, <1>8, <1>9 DEF RunTrial

LEMMA ScoreStep ==
  ASSUME IInv, ScoreNext
  PROVE  IInv'
<1>1. pc = "score" /\ at <= total
  BY DEF ScoreNext
<1>2. pc' \in {"score", "tell"} /\ LoopKeeps(rows', at', trial', wins', ran')
  BY <1>1, CaseScored, ChunkScored, CaseChecked, TrialRun DEF ScoreNext
<1>3. /\ UNCHANGED <<kind, own, script, prompt, total, repeats, ending, run, faults, killed>>
      /\ ~killed
  BY <1>1, Alive DEF ScoreNext, request
<1>4. Types'
  BY <1>2, <1>3 DEF IInv, Types, LoopKeeps, Before
<1>5. RowsInv'
  BY <1>2, <1>3 DEF IInv, RowsInv, LoopKeeps, Before
<1>6. MetricsInv'
  <2>1. run.metrics = <<>> /\ run.status \in {"none", "RUNNING"}
    BY <1>1 DEF IInv, MetricsInv
  <2>2. QED
    BY <1>2, <1>3, <2>1 DEF MetricsInv, Before
<1>7. FailureInv'
  BY <1>1, <1>2, <1>3 DEF IInv, FailureInv, Told
<1>8. QED
  BY <1>4, <1>5, <1>6, <1>7 DEF IInv

\* The steps outside of the loop leave rows and trials alone.
LEMMA OutsideRows ==
  ASSUME IInv, pc \in Before \cup {"params", "score", "table", "tell", "close"}, pc # "idle",
         UNCHANGED <<rows, at, trials, own, repeats, killed>>,
         pc' \in Before => pc \in Before, pc' # "idle"
  PROVE  RowsInv' /\ ~killed /\ ~killed'
<1>1. ~killed /\ ~killed'
  BY Alive DEF Before
<1>2. /\ rows' = rows /\ at' = at /\ own' = own /\ repeats' = repeats
      /\ Cover(rows, 1..(at - 1), own, repeats) /\ (pc \in Before => at = 1)
  BY <1>1 DEF IInv, RowsInv
<1>3. QED
  BY <1>1, <1>2 DEF RowsInv


LEMMA InitOK ==
  ASSUME Init
  PROVE  IInv
<1>1. script \in {"ok", "crawl_error", "eval_error"}
  BY ScriptAssumption DEF Init
<1>2. TrialInv(trial, script) /\ trial.count = 0
  BY NewTrial DEF Init
<1>3. Cases \in Nat /\ Repeats \in Nat /\ MaxCalls \in Nat /\ MaxFaults \in Nat
  BY CasesAssumption, TrialAssumption, FaultAssumption
<1>4. Types
  <2>1. kind \in Kinds /\ own \subseteq 1..Cases /\ (kind \in {"guardrails", "tool"} => own = {})
    BY DEF Init
  <2>2. prompt \in BOOLEAN
    BY DEF Init
  <2>3. run \in [status : Statuses, tagged : BOOLEAN, error : BOOLEAN, metrics : {run.metrics}]
    BY DEF Init, NoRun, Statuses
  <2>4. /\ pc \in Before /\ total \in 0..Cases /\ at \in 1..(total + 1)
        /\ trial.count \in 0..MaxCalls /\ ran \in 0..repeats /\ wins \in 0..ran
        /\ repeats \in 0..Repeats
    <3>1. pc = "idle" /\ total = 0 /\ at = 1 /\ ran = 0 /\ wins = 0 /\ repeats = 0
      BY DEF Init
    <3>2. pc \in Before
      BY <3>1 DEF Before
    <3>3. QED
      BY <1>2, <1>3, <3>1, <3>2
  <2>5. ending \in {"FINISHED", "FAILED"} /\ faults \in 0..MaxFaults /\ killed \in BOOLEAN
    <3>1. faults = 0
      BY DEF Init
    <3>2. faults \in 0..MaxFaults
      BY <1>3, <3>1
    <3>3. ending \in {"FINISHED", "FAILED"} /\ killed \in BOOLEAN
      BY DEF Init
    <3>4. QED
      BY <3>2, <3>3
  <2>6. QED
    BY <1>1, <1>2, <2>1, <2>2, <2>3, <2>4, <2>5 DEF Types
<1>5. RowsInv
  <2>1. 1..(at - 1) = {}
    BY DEF Init
  <2>2. QED
    BY <2>1, NoRows DEF Init, RowsInv, Before
<1>6. MetricsInv /\ FailureInv
  BY DEF Init, NoRun, MetricsInv, FailureInv, Before
<1>7. QED
  BY <1>4, <1>5, <1>6 DEF IInv

LEMMA TriggerStep ==
  ASSUME IInv, Trigger
  PROVE  IInv'
<1>1. /\ pc = "idle" /\ pc' \in {"start", "rejected"} /\ repeats' \in 0..Repeats
      /\ UNCHANGED <<kind, own, script, prompt, total, at, rows, trial, wins, ran, ending, run,
                     faults, killed>>
  BY TrialAssumption DEF Trigger, request, trials
<1>2. at = 1 /\ ~killed /\ ran = 0 /\ wins = 0 /\ Cover(rows, 1..(at - 1), own, repeats)
  BY <1>1 DEF IInv, RowsInv, Before
<1>3. Types'
  BY <1>1, <1>2, TrialAssumption DEF IInv, Types, Before
<1>4. RowsInv'
  <2>1. 1..(at - 1) = {} /\ Len(rows) = Cardinality({})
    BY <1>2 DEF Cover
  <2>2. rows = <<>>
    <3>1. rows \in Seq(RowType) /\ Len(rows) = 0
      BY <1>2, <2>1, FS_EmptySet DEF Cover
    <3>2. QED
      BY <3>1, EmptySeq
  <2>3. Cover(rows', 1..(at' - 1), own', repeats')
    BY <1>1, <2>1, <2>2, NoRows
  <2>4. QED
    BY <1>1, <1>2, <2>3 DEF RowsInv, Before
<1>5. MetricsInv'
  BY <1>1 DEF IInv, MetricsInv, Before
<1>6. FailureInv'
  BY <1>1 DEF IInv, FailureInv, Told
<1>7. QED
  BY <1>3, <1>4, <1>5, <1>6 DEF IInv

LEMMA StartStep ==
  ASSUME IInv, StartRun
  PROVE  IInv'
<1>1. /\ pc = "start" /\ pc' \in {"tag", "done"}
      /\ run' \in {run, [run EXCEPT !.status = "RUNNING"]}
      /\ \/ UNCHANGED faults
         \/ faults < MaxFaults /\ faults' = faults + 1
      /\ UNCHANGED <<kind, own, script, prompt, total, at, rows, trial, wins, ran, repeats, ending,
                     killed>>
  BY DEF StartRun, Fault, request, trials
<1>2. run.metrics = <<>> /\ run.status \in {"none", "RUNNING"}
  BY <1>1 DEF IInv, MetricsInv, Before
<1>3. /\ run' \in [status : Statuses, tagged : BOOLEAN, error : BOOLEAN, metrics : {run'.metrics}]
      /\ run'.metrics = <<>> /\ run'.status \in {"none", "RUNNING"} /\ run'.error = run.error
  BY <1>1, <1>2 DEF IInv, Types, Statuses
<1>4. faults' \in 0..MaxFaults
  BY <1>1, FaultAssumption DEF IInv, Types
<1>5. Types'
  BY <1>1, <1>3, <1>4 DEF IInv, Types, Before
<1>6. RowsInv'
  BY <1>1, OutsideRows DEF Before, trials
<1>7. MetricsInv'
  BY <1>1, <1>3 DEF MetricsInv, Before
<1>8. FailureInv'
  BY <1>1, <1>3 DEF FailureInv
<1>9. QED
  BY <1>5, <1>6, <1>7, <1>8 DEF IInv

LEMMA TagsStep ==
  ASSUME IInv, SetTags
  PROVE  IInv'
<1>1. /\ pc = "tag" /\ pc' \in {"setup", "close"}
      /\ run' \in {run, [run EXCEPT !.tagged = TRUE]}
      /\ \/ pc' = "setup" /\ UNCHANGED <<ending, faults>>
         \/ pc' = "close" /\ ending' = "FAILED" /\ faults < MaxFaults /\ faults' = faults + 1
      /\ UNCHANGED <<kind, own, script, prompt, total, at, rows, trial, wins, ran, repeats, killed>>
  BY DEF SetTags, Fault, End, request, trials
<1>2. run.metrics = <<>> /\ run.status \in {"none", "RUNNING"}
  BY <1>1 DEF IInv, MetricsInv, Before
<1>3. /\ run' \in [status : Statuses, tagged : BOOLEAN, error : BOOLEAN, metrics : {run'.metrics}]
      /\ run'.metrics = <<>> /\ run'.status \in {"none", "RUNNING"} /\ run'.error = run.error
  BY <1>1, <1>2 DEF IInv, Types, Statuses
<1>4. faults' \in 0..MaxFaults /\ (pc' = "close" => faults' > 0)
  BY <1>1, FaultAssumption DEF IInv, Types
<1>5. Types'
  BY <1>1, <1>3, <1>4 DEF IInv, Types, Before
<1>6. RowsInv'
  BY <1>1, OutsideRows DEF Before, trials
<1>7. MetricsInv'
  BY <1>1, <1>3 DEF MetricsInv, Before
<1>8. FailureInv'
  BY <1>1, <1>3, <1>4 DEF FailureInv, Told
<1>9. QED
  BY <1>5, <1>6, <1>7, <1>8 DEF IInv

LEMMA SetupStep ==
  ASSUME IInv, Setup
  PROVE  IInv'
<1>1. /\ pc = "setup" /\ pc' \in {"params", "tell", "close"}
      /\ total' \in {total} \cup 0..Cases
      /\ \/ UNCHANGED ending
         \/ ~prompt /\ ending' = "FAILED"
      /\ pc' = "close" => ~prompt /\ ending' = "FAILED"
      /\ UNCHANGED <<kind, own, script, prompt, at, rows, trial, wins, ran, repeats, run, faults,
                     killed>>
  BY DEF Setup, SetupFails, End, request, trials
<1>2. run.metrics = <<>> /\ run.status \in {"none", "RUNNING"} /\ at = 1
  BY <1>1 DEF IInv, MetricsInv, RowsInv, Before
<1>3. total' \in 0..Cases /\ Cases \in Nat /\ at \in 1..(total' + 1)
  BY <1>1, <1>2, CasesAssumption DEF IInv, Types
<1>4. Types'
  BY <1>1, <1>3 DEF IInv, Types, Before
<1>5. RowsInv'
  BY <1>1, OutsideRows DEF Before, trials
<1>6. MetricsInv'
  BY <1>1, <1>2 DEF MetricsInv, Before
<1>7. FailureInv'
  BY <1>1, <1>2 DEF FailureInv, Told
<1>8. QED
  BY <1>4, <1>5, <1>6, <1>7 DEF IInv

LEMMA ParamsStep ==
  ASSUME IInv, LogParams
  PROVE  IInv'
<1>1. /\ pc = "params" /\ pc' \in {"score", "tell"}
      /\ \/ UNCHANGED faults
         \/ faults < MaxFaults /\ faults' = faults + 1
      /\ UNCHANGED <<kind, own, script, prompt, total, at, rows, trial, wins, ran, repeats, ending,
                     run, killed>>
  BY DEF LogParams, Fault, request, trials
<1>2. run.metrics = <<>> /\ run.status \in {"none", "RUNNING"}
  BY <1>1 DEF IInv, MetricsInv
<1>3. faults' \in 0..MaxFaults
  BY <1>1, FaultAssumption DEF IInv, Types
<1>4. Types'
  BY <1>1, <1>3 DEF IInv, Types, Before
<1>5. RowsInv'
  BY <1>1, OutsideRows DEF Before, trials
<1>6. MetricsInv'
  BY <1>1, <1>2 DEF MetricsInv, Before
<1>7. FailureInv'
  BY <1>1, <1>2 DEF FailureInv
<1>8. QED
  BY <1>4, <1>5, <1>6, <1>7 DEF IInv

LEMMA MetricsStep ==
  ASSUME IInv, LogMetrics
  PROVE  IInv'
<1>1. /\ pc = "score" /\ at > total /\ pc' \in {"table", "tell"}
      /\ \/ pc' = "table" /\ run' = [run EXCEPT !.metrics = <<Summary>>]
         \/ pc' = "tell" /\ run' = run
      /\ \/ UNCHANGED faults
         \/ faults < MaxFaults /\ faults' = faults + 1
      /\ UNCHANGED <<kind, own, script, prompt, total, at, rows, trial, wins, ran, repeats, ending,
                     killed>>
  BY DEF LogMetrics, Fault, request, trials
<1>2. run.metrics = <<>> /\ run.status \in {"none", "RUNNING"} /\ at = total + 1
      /\ Cover(rows, 1..(at - 1), own, repeats)
  <2>1. at = total + 1
    BY <1>1, Numbers DEF IInv
  <2>2. QED
    BY <1>1, <2>1, Alive DEF IInv, MetricsInv, LoopKeeps
<1>3. AddsUp(Summary)
  BY <1>2, SummaryAddsUp DEF IInv
<1>4. /\ run' \in [status : Statuses, tagged : BOOLEAN, error : BOOLEAN, metrics : {run'.metrics}]
      /\ run'.status \in {"none", "RUNNING"}
      /\ \/ pc' = "table" /\ run'.metrics = <<Summary>>
         \/ pc' = "tell" /\ run'.metrics = <<>>
  BY <1>1, <1>2 DEF IInv, Types, Statuses
<1>5. faults' \in 0..MaxFaults
  BY <1>1, FaultAssumption DEF IInv, Types
<1>6. Types'
  BY <1>1, <1>4, <1>5 DEF IInv, Types, Before
<1>7. RowsInv'
  BY <1>1, OutsideRows DEF Before, trials
<1>8. MetricsInv'
  <2>1. run'.metrics # <<>> => Len(run'.metrics) = 1 /\ run'.metrics[1] = Summary
    <3>1. PICK m : m = Summary
      OBVIOUS
    <3>2. Len(<<m>>) = 1 /\ <<m>>[1] = m
      OBVIOUS
    <3>3. run'.metrics # <<>> => run'.metrics = <<m>>
      BY <1>4, <3>1
    <3>4. QED
      BY <3>1, <3>2, <3>3
  <2>2. PICK m : m = Summary
    OBVIOUS
  <2>3. /\ m.total = total' /\ m.evaluated + m.errored = total'
        /\ m.tp + m.fp + m.fn + m.tn = m.evaluated
        /\ m.wins <= m.evaluated * repeats'
    BY <1>1, <1>3, <2>2 DEF AddsUp
  <2>4. run'.metrics # <<>> => Len(run'.metrics) = 1 /\ AddsUp(run.metrics[1])'
    BY <2>1, <2>2, <2>3 DEF AddsUp
  <2>5. pc' = "table" => Whole'
    BY <1>1, <1>2, <1>4 DEF Whole
  <2>6. QED
    BY <1>1, <1>4, <2>4, <2>5 DEF MetricsInv, Before
<1>9. FailureInv'
  BY <1>1, <1>4 DEF FailureInv
<1>10. QED
  BY <1>6, <1>7, <1>8, <1>9 DEF IInv

\* The numbers stay true while the dataset is the same.
LEMMA StillAddsUp ==
  ASSUME MetricsInv, run'.metrics = run.metrics, UNCHANGED <<total, repeats>>
  PROVE  (run.metrics # <<>> => Len(run.metrics) = 1 /\ AddsUp(run.metrics[1]))'
BY DEF MetricsInv, AddsUp

LEMMA TableStep ==
  ASSUME IInv, LogTable
  PROVE  IInv'
<1>1. /\ pc = "table" /\ pc' \in {"tell", "close"}
      /\ \/ pc' = "close" /\ ending' = "FINISHED"
         \/ pc' = "tell" /\ UNCHANGED ending
      /\ \/ UNCHANGED faults
         \/ faults < MaxFaults /\ faults' = faults + 1
      /\ UNCHANGED <<kind, own, script, prompt, total, at, rows, trial, wins, ran, repeats, run,
                     killed>>
  BY DEF LogTable, Fault, End, request, trials
<1>2. Whole /\ run.status \in {"none", "RUNNING"}
  BY <1>1 DEF IInv, MetricsInv
<1>3. faults' \in 0..MaxFaults
  BY <1>1, FaultAssumption DEF IInv, Types
<1>4. Types'
  BY <1>1, <1>3 DEF IInv, Types, Before
<1>5. RowsInv'
  BY <1>1, OutsideRows DEF Before, trials
<1>6. MetricsInv'
  BY <1>1, <1>2, StillAddsUp DEF IInv, MetricsInv, Whole, Before
<1>7. FailureInv'
  BY <1>1, <1>2 DEF FailureInv
<1>8. QED
  BY <1>4, <1>5, <1>6, <1>7 DEF IInv

LEMMA TellStep ==
  ASSUME IInv, TagError
  PROVE  IInv'
<1>1. /\ pc = "tell" /\ pc' = "close" /\ ending' = "FAILED"
      /\ \/ run' = [run EXCEPT !.error = TRUE] /\ UNCHANGED faults
         \/ run' = run /\ faults < MaxFaults /\ faults' = faults + 1
      /\ UNCHANGED <<kind, own, script, prompt, total, at, rows, trial, wins, ran, repeats, killed>>
  BY DEF TagError, Fault, End, request, trials
<1>2. run.status \in {"none", "RUNNING"}
  BY <1>1 DEF IInv, MetricsInv
<1>3. /\ run' \in [status : Statuses, tagged : BOOLEAN, error : BOOLEAN, metrics : {run'.metrics}]
      /\ run'.metrics = run.metrics /\ run'.status = run.status
      /\ run'.error \/ faults' > 0
  <2>1. /\ run \in [status : Statuses, tagged : BOOLEAN, error : BOOLEAN, metrics : {run.metrics}]
        /\ faults \in Nat
    BY FaultAssumption DEF IInv, Types
  <2>2. CASE run' = [run EXCEPT !.error = TRUE]
    BY <2>1, <2>2
  <2>3. CASE run' = run /\ faults' = faults + 1
    BY <2>1, <2>3
  <2>4. QED
    BY <1>1, <2>2, <2>3
<1>4. faults' \in 0..MaxFaults
  BY <1>1, FaultAssumption DEF IInv, Types
<1>5. Types'
  BY <1>1, <1>3, <1>4 DEF IInv, Types, Before
<1>6. RowsInv'
  BY <1>1, OutsideRows DEF Before, trials
<1>7. MetricsInv'
  BY <1>1, <1>2, <1>3, StillAddsUp DEF IInv, MetricsInv, Before
<1>8. FailureInv'
  BY <1>1, <1>3 DEF FailureInv, Told
<1>9. QED
  BY <1>5, <1>6, <1>7, <1>8 DEF IInv

LEMMA EndStep ==
  ASSUME IInv, EndRun
  PROVE  IInv'
<1>1. /\ pc = "close" /\ pc' = "done"
      /\ run' \in {run, [run EXCEPT !.status = ending]}
      /\ \/ UNCHANGED faults
         \/ faults < MaxFaults /\ faults' = faults + 1
      /\ UNCHANGED <<kind, own, script, prompt, total, at, rows, trial, wins, ran, repeats, ending,
                     killed>>
  BY DEF EndRun, Fault, request, trials
<1>2. /\ run.status \in {"none", "RUNNING"} /\ (ending = "FINISHED" => Whole)
      /\ (ending = "FAILED" => Told) /\ ending \in {"FINISHED", "FAILED"}
  BY <1>1 DEF IInv, MetricsInv, FailureInv, Types
<1>3. /\ run' \in [status : Statuses, tagged : BOOLEAN, error : BOOLEAN, metrics : {run'.metrics}]
      /\ run'.metrics = run.metrics /\ run'.error = run.error
      /\ run'.status \in {"none", "RUNNING", ending}
  BY <1>1, <1>2 DEF IInv, Types, Statuses
<1>4. faults' \in 0..MaxFaults /\ faults' >= faults /\ faults \in Nat
  BY <1>1, FaultAssumption DEF IInv, Types
<1>5. Types'
  BY <1>1, <1>3, <1>4 DEF IInv, Types, Before
<1>6. RowsInv' /\ ~killed'
  BY <1>1, OutsideRows DEF Before, trials
<1>7. MetricsInv'
  <2>1. run'.status = "FINISHED" => Whole'
    BY <1>1, <1>2, <1>3 DEF Whole
  <2>2. QED
    BY <1>1, <1>3, <1>6, <2>1, StillAddsUp DEF IInv, MetricsInv, Before
<1>8. FailureInv'
  <2>1. Told => Told'
    BY <1>1, <1>3, <1>4 DEF Told
  <2>2. QED
    BY <1>1, <1>2, <1>3, <2>1 DEF FailureInv
<1>9. QED
  BY <1>5, <1>6, <1>7, <1>8 DEF IInv

LEMMA KillStep ==
  ASSUME IInv, Kill
  PROVE  IInv'
<1>1. /\ pc \notin {"idle", "rejected", "done"} /\ killed' = TRUE /\ pc' = "done" /\ rows' = <<>>
      /\ trial' = T!InitialTrial /\ wins' = 0 /\ ran' = 0
      /\ UNCHANGED <<kind, own, script, prompt, total, at, repeats, ending, run, faults>>
  BY DEF Kill, NoTrials, request
<1>2. TrialInv(trial', script) /\ trial'.count \in 0..MaxCalls
  BY <1>1, NewTrial, TrialAssumption
<1>3. repeats \in Nat
  BY Numbers DEF IInv
<1>4. Types'
  BY <1>1, <1>2, <1>3 DEF IInv, Types, Before
<1>5. RowsInv'
  BY <1>1 DEF RowsInv, Before
<1>6. MetricsInv'
  <2>1. run.status # "FINISHED"
    BY <1>1 DEF IInv, MetricsInv
  <2>2. QED
    BY <1>1, <2>1, StillAddsUp DEF IInv, MetricsInv, Before
<1>7. FailureInv'
  BY <1>1 DEF IInv, FailureInv, Told
<1>8. QED
  BY <1>4, <1>5, <1>6, <1>7 DEF IInv

LEMMA Stutter ==
  ASSUME IInv, UNCHANGED vars
  PROVE  IInv'
<1>1. UNCHANGED <<kind, own, script, prompt, pc, total, at, rows, trial, wins, ran, repeats, ending,
                  run, faults, killed>>
  BY DEF vars, request, thread, trials
<1>2. Types' /\ RowsInv'
  BY <1>1 DEF IInv, Types, RowsInv
<1>3. MetricsInv' /\ FailureInv'
  BY <1>1, StillAddsUp DEF IInv, MetricsInv, FailureInv, Told, Whole
<1>4. QED
  BY <1>2, <1>3 DEF IInv

\* Request, rows, trial, MLflow run and ending fit together wherever the thread is, for datasets,
\* chunks, replies and trials of any size.
THEOREM Inductive == Spec => []IInv
<1>1. Init => IInv
  BY InitOK
<1>2. IInv /\ [Next]_vars => IInv'
  BY TriggerStep, StartStep, TagsStep, SetupStep, ParamsStep, ScoreStep, MetricsStep, TableStep,
     TellStep, EndStep, KillStep, Stutter DEF Next, Thread
<1>3. QED
  BY <1>1, <1>2, PTL DEF Spec

\* The score of a row is that of its own posting against its own resume, whatever ids the model
\* echoes, leaves out or makes up, in a chunk of any size (run_offline_eval.py, evaluate_batched).
THEOREM ScoresAreOwn == Spec => []RowsOwnScore
<1>1. IInv => RowsOwnScore
  <2> SUFFICES ASSUME IInv PROVE RowsOwnScore
    OBVIOUS
  <2>1. CASE killed
    <3>1. rows = <<>> /\ DOMAIN rows = {}
      BY <2>1, EmptySeq DEF IInv, RowsInv
    <3>2. QED
      BY <3>1 DEF RowsOwnScore
  <2>2. CASE ~killed
    BY <2>2 DEF IInv, RowsInv, Cover, Fits, RowsOwnScore, Resume
  <2>3. QED
    BY <2>1, <2>2
<1>2. QED
  BY <1>1, Inductive, PTL

\* What GET shows of an eval is true of it: the numbers of a completed one are about each case
\* once, a failed one says why or could not be told, and the two verdicts on a trial agree.
THEOREM ResultIsTold == Spec => []ResultTold
<1>1. IInv => ResultTold
  <2> SUFFICES ASSUME IInv PROVE ResultTold
    OBVIOUS
  <2>1. /\ Types /\ RowsInv /\ MetricsInv /\ FailureInv
        /\ Cases \in Nat /\ total \in Nat /\ at \in Nat \ {0} /\ total <= Cases
    BY Numbers DEF IInv
  <2>2. \A i \in DOMAIN rows : rows[i].case \in 1..Cases /\ rows[i].of[1] \in 0..Cases
    <3>1. CASE killed
      <4>1. rows = <<>> /\ DOMAIN rows = {}
        BY <2>1, <3>1, EmptySeq DEF RowsInv
      <4>2. QED
        BY <4>1
    <3>2. CASE ~killed
      <4>1. \A i \in DOMAIN rows : rows[i] \in RowType
        BY <2>1, <3>2 DEF RowsInv, Cover, Fits
      <4>2. QED
        BY <4>1 DEF RowType
    <3>3. QED
      BY <3>1, <3>2
  <2>3. TypeOK
    <3>1. /\ run.status \in Statuses /\ Len(run.metrics) <= 1
      <4>1. run.status \in Statuses
        BY <2>1 DEF Types
      <4>2. Len(<<>>) = 0
        BY EmptySeq
      <4>3. run.metrics # <<>> => Len(run.metrics) = 1
        BY <2>1 DEF MetricsInv
      <4>4. Len(run.metrics) \in {0, 1}
        BY <4>2, <4>3, Zenon
      <4>5. PICK n \in {0, 1} : n = Len(run.metrics)
        BY <4>4
      <4>6. n <= 1
        OBVIOUS
      <4>7. QED
        BY <4>1, <4>5, <4>6
    <3>2. at \in 1..(Cases + 1)
      BY <2>1 DEF Types
    <3>3. QED
      BY <2>1, <2>2, <3>1, <3>2 DEF Types, TypeOK, Before
  <2>4. CompletedIsWhole
    <3> SUFFICES ASSUME View = "completed" PROVE CompletedIsWhole
      BY DEF CompletedIsWhole
    <3>1. run.status = "FINISHED"
      BY DEF View
    <3>2. Whole /\ ~killed
      BY <2>1, <3>1 DEF MetricsInv
    <3>3. at - 1 = total /\ Cover(rows, 1..total, own, repeats)
      <4>1. at - 1 = total
        BY <2>1, <3>2 DEF Whole
      <4>2. QED
        BY <2>1, <3>2, <4>1 DEF RowsInv
    <3>4. Len(rows) = total
      <4>1. 1 \in Int /\ total \in Int /\ (1 > total => total = 0)
        BY <2>1
      <4>2. Cardinality(1..total) = total
        BY <4>1, FS_Interval
      <4>3. QED
        BY <3>3, <4>2 DEF Cover
    <3>5. {rows[i].case : i \in DOMAIN rows} = 1..total
      BY <3>3 DEF Cover
    <3>6. Len(run.metrics) = 1 /\ AddsUp(run.metrics[1])
      <4>1. Len(run.metrics) = 1 /\ run.metrics # <<>>
        BY <3>2, EmptySeq DEF Whole
      <4>2. QED
        BY <2>1, <4>1 DEF MetricsInv
    <3>7. QED
      BY <3>4, <3>5, <3>6 DEF CompletedIsWhole, AddsUp
  <2>5. FailureTold
    BY <2>1 DEF FailureTold, View, FailureInv, Told
  <2>6. TrialVerdictsAgree
    <3>1. TrialInv(trial, script) /\ script \in {"ok", "crawl_error", "eval_error"}
      BY <2>1 DEF Types
    <3>2. QED
      BY <3>1, VerdictsAgree DEF TrialVerdictsAgree
  <2>7. QED
    BY <2>3, <2>4, <2>5, <2>6 DEF ResultTold
<1>2. QED
  BY <1>1, Inductive, PTL


-----------------------------------------------------------------------------
(* Why EvalSettles needs nothing but fairness: what an eval has still to do *)
(* is a tuple of naturals, compared from the left, that every step lowers.  *)

\* The labels of the thread in the order they are passed; the loop stays at one of them.
EvalPhase ==
    CASE pc = "idle"   -> 9
      [] pc = "start"  -> 8
      [] pc = "tag"    -> 7
      [] pc = "setup"  -> 6
      [] pc = "params" -> 5
      [] pc = "score"  -> 4
      [] pc = "table"  -> 3
      [] pc = "tell"   -> 2
      [] pc = "close"  -> 1
      [] OTHER         -> 0

CasesLeft  == Cases + 1 - at
TrialsLeft == repeats - ran
CallsLeft  == MaxCalls - trial.count

EvalMeasured == EvalPhase \in Nat /\ CasesLeft \in Nat /\ TrialsLeft \in Nat /\ CallsLeft \in Nat

EvalNearer ==
    \/ EvalPhase' < EvalPhase
    \/ EvalPhase' = EvalPhase /\ CasesLeft' < CasesLeft
    \/ EvalPhase' = EvalPhase /\ CasesLeft' = CasesLeft /\ TrialsLeft' < TrialsLeft
    \/ /\ EvalPhase' = EvalPhase /\ CasesLeft' = CasesLeft /\ TrialsLeft' = TrialsLeft
       /\ CallsLeft' < CallsLeft

LEMMA EvalIsMeasured == ASSUME IInv PROVE EvalMeasured
<1>1. EvalPhase \in Nat
  BY DEF EvalPhase
<1>2. /\ at \in 1..(Cases + 1) /\ repeats \in Nat /\ ran \in 0..repeats
      /\ trial.count \in 0..MaxCalls /\ Cases \in Nat /\ MaxCalls \in Nat
  BY Numbers DEF IInv, Types
<1>3. CasesLeft \in Nat /\ TrialsLeft \in Nat /\ CallsLeft \in Nat
  BY <1>2 DEF CasesLeft, TrialsLeft, CallsLeft
<1>4. QED
  BY <1>1, <1>3 DEF EvalMeasured

\* Outside of the loop each step passes to a later label.
LEMMA OutsideNears ==
  ASSUME IInv,
         \/ Trigger \/ StartRun \/ SetTags \/ Setup \/ LogParams \/ LogMetrics \/ LogTable
         \/ TagError \/ EndRun \/ Kill
  PROVE  EvalPhase' < EvalPhase
<1>1. CASE Trigger
  <2>1. pc = "idle" /\ pc' \in {"start", "rejected"}
    BY <1>1 DEF Trigger
  <2>2. QED
    BY <2>1 DEF EvalPhase
<1>2. CASE StartRun
  <2>1. pc = "start" /\ pc' \in {"tag", "done"}
    BY <1>2 DEF StartRun
  <2>2. QED
    BY <2>1 DEF EvalPhase
<1>3. CASE SetTags
  <2>1. pc = "tag" /\ pc' \in {"setup", "close"}
    BY <1>3 DEF SetTags, End
  <2>2. QED
    BY <2>1 DEF EvalPhase
<1>4. CASE Setup
  <2>1. pc = "setup" /\ pc' \in {"params", "tell", "close"}
    BY <1>4 DEF Setup, SetupFails, End
  <2>2. QED
    BY <2>1 DEF EvalPhase
<1>5. CASE LogParams
  <2>1. pc = "params" /\ pc' \in {"score", "tell"}
    BY <1>5 DEF LogParams
  <2>2. QED
    BY <2>1 DEF EvalPhase
<1>6. CASE LogMetrics
  <2>1. pc = "score" /\ pc' \in {"table", "tell"}
    BY <1>6 DEF LogMetrics
  <2>2. QED
    BY <2>1 DEF EvalPhase
<1>7. CASE LogTable
  <2>1. pc = "table" /\ pc' \in {"close", "tell"}
    BY <1>7 DEF LogTable, End
  <2>2. QED
    BY <2>1 DEF EvalPhase
<1>8. CASE TagError
  <2>1. pc = "tell" /\ pc' = "close"
    BY <1>8 DEF TagError, End
  <2>2. QED
    BY <2>1 DEF EvalPhase
<1>9. CASE EndRun
  <2>1. pc = "close" /\ pc' = "done"
    BY <1>9 DEF EndRun
  <2>2. QED
    BY <2>1 DEF EvalPhase
<1>10. CASE Kill
  <2>1. pc \notin {"idle", "rejected", "done"} /\ pc' = "done" /\ pc \in Before \cup
            {"idle", "rejected", "params", "score", "table", "tell", "close", "done"}
    BY <1>10 DEF Kill, IInv, Types
  <2>2. QED
    BY <2>1 DEF EvalPhase, Before
<1>11. QED
  BY <1>1, <1>2, <1>3, <1>4, <1>5, <1>6, <1>7, <1>8, <1>9, <1>10

\* A step of the loop leaves it, goes on to another case, ends a trial or makes a call of one.
LEMMA LoopNears ==
  ASSUME IInv, ScoreNext
  PROVE  EvalNearer
<1>1. /\ pc = "score" /\ at <= total /\ Types
      /\ at \in Nat /\ total \in Nat /\ total <= Cases /\ Cases \in Nat /\ ran \in Nat
      /\ UNCHANGED <<total, repeats>>
  BY Numbers DEF ScoreNext, IInv
<1>2. ASSUME pc' = "tell" PROVE EvalNearer
  BY <1>1, <1>2 DEF EvalPhase, EvalNearer
<1>3. ASSUME NEW n \in Nat \ {0}, NEW more, Add(more, n) PROVE EvalNearer
  <2>1. pc' = pc /\ at' = at + n
    BY <1>3 DEF Add
  <2>2. CasesLeft' < CasesLeft
    BY <1>1, <2>1 DEF CasesLeft
  <2>3. EvalPhase' = EvalPhase
    BY <2>1 DEF EvalPhase
  <2>4. QED
    BY <2>2, <2>3 DEF EvalNearer
<1>4. CASE ScoreCase(at)
  BY <1>2, <1>3, <1>4 DEF ScoreCase, Abort
<1>5. CASE ScoreChunk
  <2>1. Cardinality(Chunk) \in Nat \ {0}
    <3>1. PICK d \in Nat : Chunk = at..(at + d - 1) /\ Cardinality(Chunk) = d /\ IsFiniteSet(Chunk)
      BY <1>1, ChunkIs
    <3>2. at \in Chunk
      BY <1>1, SizeAssumption DEF Chunk
    <3>3. d # 0
      BY <1>1, <3>1, <3>2
    <3>4. QED
      BY <3>1, <3>3
  <2>2. Abort \/ \E more : Add(more, Cardinality(Chunk))
    BY <1>5, Zenon DEF ScoreChunk, ChunkFails
  <2>3. QED
    BY <1>2, <1>3, <2>1, <2>2 DEF Abort
<1>6. CASE CheckCase(at)
  <2>1. Abort \/ \E more : Add(more, 1)
    BY <1>6, Zenon DEF CheckCase
  <2>2. QED
    BY <1>2, <1>3, <2>1 DEF Abort
<1>7. CASE RunTrial(at)
  <2>1. CASE (CallTool \/ EndTrial) /\ UNCHANGED <<pc, at, rows>>
    <3>1. EvalPhase' = EvalPhase /\ CasesLeft' = CasesLeft
      BY <2>1 DEF EvalPhase, CasesLeft
    <3>2. CASE EndTrial
      <4>1. ran' = ran + 1 /\ repeats' = repeats /\ repeats \in Nat
        BY <1>1, <3>2, Numbers DEF EndTrial
      <4>2. TrialsLeft' < TrialsLeft
        BY <1>1, <4>1 DEF TrialsLeft
      <4>3. QED
        BY <3>1, <4>2 DEF EvalNearer
    <3>3. CASE CallTool
      <4>1. PICK call \in T!Calls : trial' = T!UseTool(trial, call, script)
        BY <3>3 DEF CallTool
      <4>2. trial \in TrialType /\ trial.count \in Nat /\ MaxCalls \in Nat
        BY <1>1, Numbers, TrialAssumption DEF Types, TrialInv
      <4>3. trial'.count = trial.count + 1
        BY <4>1, <4>2, ToolCounts
      <4>4. CallsLeft' < CallsLeft
        BY <4>2, <4>3 DEF CallsLeft
      <4>5. TrialsLeft' = TrialsLeft
        BY <1>1, <3>3 DEF TrialsLeft, CallTool
      <4>6. QED
        BY <3>1, <4>4, <4>5 DEF EvalNearer
    <3>4. QED
      BY <2>1, <3>2, <3>3
  <2>2. QED
    BY <1>3, <1>7, <2>1 DEF RunTrial
<1>8. QED
  BY <1>4, <1>5, <1>6, <1>7 DEF ScoreNext

\* Every eval gets on: whatever the provider, the posting sites, the agent and MLflow do, a step
\* of it lowers what it has left to do, a tuple of naturals, so no eval goes round for ever
\* (the loops of run_offline_eval.py:446-529 and run_tool_selection_eval.py:208-211, 412-444).
THEOREM EvalsAreFinite == Spec => []EvalMeasured /\ [][EvalNearer]_vars
<1>1. IInv /\ Next => EvalNearer
  <2> SUFFICES ASSUME IInv, Next PROVE EvalNearer
    OBVIOUS
  <2>1. CASE ScoreNext
    BY <2>1, LoopNears
  <2>2. CASE ~ScoreNext
    <3>1. EvalPhase' < EvalPhase
      BY <2>2, OutsideNears DEF Next, Thread
    <3>2. QED
      BY <3>1, Zenon DEF EvalNearer
  <2>3. QED
    BY <2>1, <2>2
<1>2. QED
  BY <1>1, EvalIsMeasured, Inductive, PTL DEF Spec

-----------------------------------------------------------------------------
(* The limiter: types                                                       *)

LEMMA BucketsOf ==
  /\ \A c \in Callers : BucketOf[c] \in Buckets
  /\ \A b \in Buckets : CapBucket(b) \in Buckets
  BY CallersAssumption DEF CapBucket, Buckets

LEMMA OlderType == ASSUME NEW n \in 0..Window PROVE Older(n) \in 0..Window
  BY WindowAssumption DEF Older

LEMMA TrimType ==
  ASSUME LimiterTypeOK, NEW b \in Buckets, TrimBucket(b)
  PROVE  /\ age' \in [Buckets -> [Uuids -> 0..Window \cup {Free}]]
         /\ ttl' \in [Buckets -> 0..(Window + Grace) \cup {NoTtl}]
<1>1. Trimmed(age[b]) \in [Uuids -> 0..Window \cup {Free}]
  BY DEF LimiterTypeOK, Trimmed
<1>2. QED
  BY <1>1 DEF LimiterTypeOK, TrimBucket

LEMMA AcquireTypes ==
  ASSUME LimiterTypeOK, NEW c \in Callers, Load(c) \/ AcquireStep(c)
  PROVE  LimiterTypeOK'
<1> USE DEF LimiterTypeOK, Labels, Goto, redis, admin
<1>0. BucketOf[c] \in Buckets /\ CapBucket(BucketOf[c]) \in Buckets /\ 0 \in 0..Window
  BY BucketsOf, WindowAssumption
<1>1. CASE Load(c)
  BY <1>0, <1>1 DEF Load, Caps
<1>2. CASE Trim(c)
  BY <1>0, <1>2, TrimType DEF Trim
<1>3. CASE CountMembers(c)
  BY <1>0, <1>3 DEF CountMembers
<1>4. CASE AddMember(c)
  BY <1>0, <1>4 DEF AddMember
<1>5. CASE Expire(c)
  <2>1. Window + Grace \in 0..(Window + Grace)
    BY WindowAssumption
  <2>2. QED
    BY <1>0, <1>5, <2>1 DEF Expire
<1>6. CASE Wake(c)
  BY <1>6 DEF Wake
<1>7. QED
  BY <1>1, <1>2, <1>3, <1>4, <1>5, <1>6 DEF AcquireStep

LEMMA OperatorTypes ==
  ASSUME LimiterTypeOK,
         \/ \E b \in Buckets : CurrentUsage(b)
         \/ \E a \in Admins : PostQuota(a) \/ \E d \in Distributions : PostCaps(a, d)
  PROVE  LimiterTypeOK'
<1> USE DEF LimiterTypeOK, redis, admin
<1>1. ASSUME NEW b \in Buckets, CurrentUsage(b) PROVE LimiterTypeOK'
  BY <1>1, TrimType DEF CurrentUsage
<1>2. ASSUME NEW a \in Admins, PostQuota(a) PROVE LimiterTypeOK'
  BY <1>2, CapAssumption DEF PostQuota
<1>3. ASSUME NEW a \in Admins, NEW d \in Distributions, PostCaps(a, d) PROVE LimiterTypeOK'
  <2>1. d.caps \in Caps
    BY CapAssumption
  <2>2. peak' \in Caps
    BY <1>3, <2>1 DEF PostCaps, Caps, Larger
  <2>3. QED
    BY <1>3, <2>1, <2>2 DEF PostCaps
<1>4. QED
  BY <1>1, <1>2, <1>3

LEMMA TimeTypes ==
  ASSUME LimiterTypeOK, Tick \/ Crash
  PROVE  LimiterTypeOK'
<1> USE DEF LimiterTypeOK, redis, admin
<1>1. CASE Tick
  <2>1. age' \in [Buckets -> [Uuids -> 0..Window \cup {Free}]]
    BY <1>1, OlderType DEF Tick
  <2>2. lag' \in [Callers -> 0..Window]
    BY <1>1, OlderType, WindowAssumption DEF Tick
  <2>3. ttl' \in [Buckets -> 0..(Window + Grace) \cup {NoTtl}]
    <3>1. ASSUME NEW b \in Buckets, ttl[b] \notin {0, 1, NoTtl}
          PROVE  ttl[b] - 1 \in 0..(Window + Grace)
      <4>1. ttl[b] \in 0..(Window + Grace) \ {0}
        BY <3>1
      <4> HIDE DEF LimiterTypeOK
      <4>2. QED
        BY <4>1, WindowAssumption
    <3>2. ttl' = [b \in Buckets |-> IF ttl[b] \in {0, 1, NoTtl} THEN NoTtl ELSE ttl[b] - 1]
      BY <1>1 DEF Tick
    <3>3. QED
      BY <3>1, <3>2
  <2>4. QED
    BY <1>1, <2>1, <2>2, <2>3 DEF Tick
<1>2. CASE Crash
  BY <1>2, WindowAssumption DEF Crash, Labels
<1>3. QED
  BY <1>1, <1>2

\* Every variable keeps its type; in particular a set always has a time to live within
\* the window and its grace.
THEOREM LimiterTypes == LimiterSpec => []LimiterTypeOK
<1>1. LimiterInit => LimiterTypeOK
  BY CapAssumption, WindowAssumption DEF LimiterInit, LimiterTypeOK, Labels
<1>2. LimiterTypeOK /\ [LimiterNext]_limiterVars => LimiterTypeOK'
  <2> SUFFICES ASSUME LimiterTypeOK, [LimiterNext]_limiterVars PROVE LimiterTypeOK'
    OBVIOUS
  <2>1. CASE UNCHANGED limiterVars
    BY <2>1 DEF LimiterTypeOK, limiterVars
  <2>2. QED
    BY <2>1, AcquireTypes, OperatorTypes, TimeTypes DEF LimiterNext
<1>3. QED
  BY <1>1, <1>2, PTL DEF LimiterSpec

-----------------------------------------------------------------------------
(* The overrun.  A caller that has counted and not yet added weighs as much *)
(* as a member of the set: adding changes the sum for neither.              *)

Bound(b) ==
    Cardinality(Held(b)) + Cardinality(Adding(b)) + 1
        <= peak[CapBucket(b)] + Larger(1, Cardinality(UsersOf(b)))

LEMMA FiniteParts ==
  ASSUME NEW b \in Buckets
  PROVE  /\ IsFiniteSet(Held(b)) /\ Cardinality(Held(b)) \in Nat
         /\ IsFiniteSet(Adding(b)) /\ Cardinality(Adding(b)) \in Nat
         /\ IsFiniteSet(UsersOf(b)) /\ Cardinality(UsersOf(b)) \in Nat
         /\ Cardinality(Adding(b)) <= Cardinality(UsersOf(b))
<1>1. IsFiniteSet(Held(b))
  BY UuidAssumption, FS_Subset DEF Held
<1>2. IsFiniteSet(UsersOf(b))
  BY CallersAssumption, FS_Subset DEF UsersOf
<1>3. Adding(b) \in SUBSET UsersOf(b)
  BY DEF Adding
<1>4. IsFiniteSet(Adding(b)) /\ Cardinality(Adding(b)) <= Cardinality(UsersOf(b))
  BY <1>2, <1>3, FS_Subset
<1>5. QED
  BY <1>1, <1>2, <1>4, FS_CardinalityType

LEMMA FinitePartsNext ==
  ASSUME NEW b \in Buckets
  PROVE  /\ IsFiniteSet(Held(b)') /\ Cardinality(Held(b)') \in Nat
         /\ IsFiniteSet(Adding(b)') /\ Cardinality(Adding(b)') \in Nat
         /\ Cardinality(Adding(b)') <= Cardinality(UsersOf(b))
<1>1. IsFiniteSet(Held(b)')
  BY UuidAssumption, FS_Subset DEF Held
<1>2. Adding(b)' \in SUBSET UsersOf(b)
  BY DEF Adding, UsersOf
<1>3. IsFiniteSet(Adding(b)') /\ Cardinality(Adding(b)') <= Cardinality(UsersOf(b))
  BY <1>2, FiniteParts, FS_Subset
<1>4. QED
  BY <1>1, <1>3, FS_CardinalityType

\* Members leave, callers leave, caps are raised: the bound stays.
LEMMA BoundKept ==
  ASSUME NEW b \in Buckets, LimiterTypeOK, LimiterTypeOK', Bound(b),
         Held(b)' \subseteq Held(b), Adding(b)' \subseteq Adding(b),
         peak'[CapBucket(b)] >= peak[CapBucket(b)]
  PROVE  Bound(b)'
<1>1. Cardinality(Held(b)') <= Cardinality(Held(b))
  BY FiniteParts, FS_Subset
<1>2. Cardinality(Adding(b)') <= Cardinality(Adding(b))
  BY FiniteParts, FS_Subset
<1>3. peak[CapBucket(b)] \in Nat /\ peak'[CapBucket(b)] \in Nat
  BY BucketsOf DEF LimiterTypeOK, Caps
<1>4. Larger(1, Cardinality(UsersOf(b))) \in Nat
  BY FiniteParts DEF Larger
<1>5. UsersOf(b)' = UsersOf(b)
  BY DEF UsersOf
<1> DEFINE h == Cardinality(Held(b))  a == Cardinality(Adding(b))
           h2 == Cardinality(Held(b)')  a2 == Cardinality(Adding(b)')
           n == Larger(1, Cardinality(UsersOf(b)))
           p == peak[CapBucket(b)]  p2 == peak'[CapBucket(b)]
<1>6. h \in Nat /\ a \in Nat /\ h2 \in Nat /\ a2 \in Nat
  BY FiniteParts, FinitePartsNext
<1>7. h + a + 1 <= p + n
  BY DEF Bound
<1>8. h2 + a2 + 1 <= p2 + n
  <2> HIDE DEF h, a, h2, a2, n, p, p2
  <2>1. h2 <= h /\ a2 <= a /\ p2 >= p /\ n \in Nat /\ p \in Nat /\ p2 \in Nat
    BY <1>1, <1>2, <1>3, <1>4 DEF h, a, h2, a2, n, p, p2
  <2>2. QED
    BY <1>6, <1>7, <2>1
<1>9. QED
  BY <1>5, <1>8 DEF Bound

\* A caller that passes found fewer members than its cap, and at most all the callers of
\* its bucket are then between count and add.
LEMMA BoundCount ==
  ASSUME NEW c \in Callers, LimiterIInv, LimiterTypeOK', CountMembers(c), NEW b \in Buckets
  PROVE  Bound(b)'
<1>0. LimiterTypeOK /\ Bound(b)
  BY DEF LimiterIInv, OverrunBounded, Bound
<1>1. Held(b)' = Held(b) /\ peak' = peak /\ UsersOf(b)' = UsersOf(b)
  BY DEF CountMembers, redis, admin, Held, UsersOf
<1>2. CASE BucketOf[c] = b /\ HasRoom(c)
  <2>1. Cardinality(Held(b)) < peak[CapBucket(b)]
    <3>1. /\ cap[c] \in Nat /\ peak[CapBucket(b)] \in Nat
          /\ cap[c] <= peak[CapBucket(b)] /\ Cardinality(Held(b)) < cap[c]
      BY <1>0, <1>2, BucketsOf DEF LimiterIInv, LimiterTypeOK, Caps, HasRoom
    <3>2. QED
      BY <3>1, FiniteParts
  <2>2. Cardinality(Adding(b)') <= Larger(1, Cardinality(UsersOf(b)))
    BY FinitePartsNext, FiniteParts DEF Larger
  <2>3. /\ peak[CapBucket(b)] \in Nat /\ Larger(1, Cardinality(UsersOf(b))) \in Nat
    BY <1>0, FiniteParts, BucketsOf DEF LimiterTypeOK, Caps, Larger
  <2>4. Cardinality(Held(b)) \in Nat /\ Cardinality(Adding(b)') \in Nat
    BY FiniteParts, FinitePartsNext
  <2>5. Cardinality(Held(b)) + Cardinality(Adding(b)') + 1
          <= peak[CapBucket(b)] + Larger(1, Cardinality(UsersOf(b)))
    BY <2>1, <2>2, <2>3, <2>4
  <2>6. QED
    BY <1>1, <2>5 DEF Bound
<1>3. CASE ~(BucketOf[c] = b /\ HasRoom(c))
  <2>1. Adding(b)' \subseteq Adding(b)
    BY <1>0, <1>3 DEF CountMembers, Goto, Adding, UsersOf, LimiterTypeOK
  <2>2. peak'[CapBucket(b)] >= peak[CapBucket(b)]
    BY <1>0, <1>1, BucketsOf DEF LimiterTypeOK, Caps
  <2>3. QED
    BY <1>0, <1>1, <2>1, <2>2, BoundKept
<1>4. QED
  BY <1>2, <1>3

\* Adding turns a caller between count and add into a member.
LEMMA BoundAdd ==
  ASSUME NEW c \in Callers, LimiterIInv, LimiterTypeOK', AddMember(c), NEW b \in Buckets
  PROVE  Bound(b)'
<1>0. LimiterTypeOK /\ Bound(b) /\ BucketOf[c] \in Buckets
  BY BucketsOf DEF LimiterIInv, OverrunBounded, Bound
<1>1. PICK u \in Uuids \ Held(BucketOf[c]) : age' = [age EXCEPT ![BucketOf[c]][u] = lag[c]]
  BY DEF AddMember
<1>2. peak' = peak /\ UsersOf(b)' = UsersOf(b)
  BY DEF AddMember, admin, UsersOf
<1>3. CASE BucketOf[c] = b
  <2>1. Held(b)' = Held(b) \cup {u} /\ u \notin Held(b)
    <3>1. lag[c] # Free
      BY <1>0, NullAssumption DEF LimiterTypeOK
    <3>2. QED
      BY <1>0, <1>1, <1>3, <3>1 DEF Held, LimiterTypeOK
  <2>2. Adding(b)' = Adding(b) \ {c} /\ c \in Adding(b)
    BY <1>0, <1>3 DEF AddMember, Goto, Adding, UsersOf, LimiterTypeOK
  <2>3. Cardinality(Held(b)') = Cardinality(Held(b)) + 1
    BY <2>1, FiniteParts, FS_AddElement
  <2>4. Cardinality(Adding(b)') = Cardinality(Adding(b)) - 1
    BY <2>2, FiniteParts, FS_RemoveElement
  <2>5. Cardinality(Held(b)') + Cardinality(Adding(b)') + 1
          = Cardinality(Held(b)) + Cardinality(Adding(b)) + 1
    BY <2>3, <2>4, FiniteParts
  <2>6. QED
    BY <1>0, <1>2, <2>5 DEF Bound
<1>4. CASE BucketOf[c] # b
  <2>1. Held(b)' = Held(b) /\ Adding(b)' = Adding(b)
    BY <1>0, <1>1, <1>4 DEF AddMember, Goto, Held, Adding, UsersOf, LimiterTypeOK
  <2>2. QED
    BY <1>0, <1>2, <2>1 DEF Bound
<1>5. QED
  BY <1>3, <1>4

\* Whatever happens elsewhere only takes members and callers away.
LEMMA BoundOther ==
  ASSUME LimiterIInv, LimiterTypeOK', [LimiterNext]_limiterVars, NEW b \in Buckets,
         ~\E c \in Callers : CountMembers(c) \/ AddMember(c)
  PROVE  Bound(b)'
<1>0. LimiterTypeOK /\ Bound(b)
  BY DEF LimiterIInv, OverrunBounded, Bound
<1> USE DEF redis, admin
<1>1. peak'[CapBucket(b)] >= peak[CapBucket(b)]
  <2>1. ASSUME NEW a \in Admins, NEW d \in Distributions, PostCaps(a, d)
        PROVE  peak'[CapBucket(b)] >= peak[CapBucket(b)]
    BY <1>0, <2>1, BucketsOf, CapAssumption DEF PostCaps, Larger, LimiterTypeOK, Caps
  <2>2. CASE ~\E a \in Admins, d \in Distributions : PostCaps(a, d)
    <3>1. peak' = peak
      BY <2>2 DEF LimiterNext, Load, AcquireStep, Trim, CountMembers, AddMember, Expire, Wake, CurrentUsage,
                  PostQuota, Tick, Crash, limiterVars
    <3>2. QED
      BY <1>0, <3>1, BucketsOf DEF LimiterTypeOK, Caps
  <2>3. QED
    BY <2>1, <2>2
<1>2. Held(b)' \subseteq Held(b)
  <2>1. ASSUME NEW d \in Buckets, TrimBucket(d) PROVE Held(b)' \subseteq Held(b)
    BY <1>0, <2>1 DEF TrimBucket, Trimmed, Held, LimiterTypeOK
  <2>2. CASE Tick
    BY <1>0, <2>2 DEF Tick, Held
  <2>3. CASE age' = age
    BY <2>3 DEF Held
  <2>4. QED
    BY <2>1, <2>2, <2>3, BucketsOf
       DEF LimiterNext, Load, AcquireStep, Trim, Expire, Wake, CurrentUsage, PostQuota, PostCaps,
           Crash, limiterVars
<1>3. Adding(b)' \subseteq Adding(b)
  <2>1. ASSUME NEW c \in Callers, NEW x \in Labels \ {"add"}, Goto(c, x)
        PROVE  Adding(b)' \subseteq Adding(b)
    BY <1>0, <2>1 DEF Goto, Adding, UsersOf, LimiterTypeOK
  <2>2. CASE Crash
    BY <2>2 DEF Crash, Adding, UsersOf
  <2>3. CASE stage' = stage
    BY <2>3 DEF Adding, UsersOf
  <2>4. ASSUME NEW c \in Callers, Load(c) \/ AcquireStep(c)
        PROVE  Adding(b)' \subseteq Adding(b)
    BY <2>1, <2>4 DEF Load, AcquireStep, Trim, Expire, Wake, Labels
  <2>5. QED
    BY <2>2, <2>3, <2>4 DEF LimiterNext, CurrentUsage, PostQuota, PostCaps, Tick, limiterVars
<1>4. QED
  BY <1>0, <1>1, <1>2, <1>3, BoundKept

\* The cap a caller holds was in force at some time.
LEMMA CapsHeld ==
  ASSUME LimiterIInv, LimiterTypeOK', [LimiterNext]_limiterVars
  PROVE  /\ \A b \in Buckets : peak'[b] >= caps'[b]
         /\ \A c \in Callers : cap'[c] <= peak'[CapBucket(BucketOf[c])]
<1> USE DEF redis, admin
<1>0. /\ LimiterTypeOK
      /\ \A b \in Buckets : peak[b] >= caps[b] /\ peak[b] \in Nat /\ caps[b] \in Nat
      /\ \A c \in Callers :
           /\ cap[c] <= peak[CapBucket(BucketOf[c])] /\ cap[c] \in Nat
           /\ CapBucket(BucketOf[c]) \in Buckets
  BY BucketsOf DEF LimiterIInv, LimiterTypeOK, Caps
<1>1. ASSUME NEW a \in Admins, NEW d \in Distributions, PostCaps(a, d)
      PROVE  /\ \A b \in Buckets : peak'[b] >= caps'[b] /\ peak'[b] >= peak[b] /\ peak'[b] \in Nat
             /\ cap' = cap
  <2>1. \A b \in Buckets : d.caps[b] \in Nat
    BY CapAssumption DEF Caps
  <2>2. QED
    BY <1>0, <1>1, <2>1 DEF PostCaps, Larger
<1>2. CASE \E a \in Admins, d \in Distributions : PostCaps(a, d)
  BY <1>0, <1>1, <1>2
<1>3. CASE ~\E a \in Admins, d \in Distributions : PostCaps(a, d)
  <2>1. peak' = peak /\ caps' = caps
    BY <1>3 DEF LimiterNext, Load, AcquireStep, Trim, CountMembers, AddMember, Expire, Wake, CurrentUsage,
                PostQuota, Tick, Crash, limiterVars
  <2>2. ASSUME NEW c \in Callers
        PROVE  cap'[c] \in {cap[c], 0, caps[CapBucket(BucketOf[c])]}
    <3>1. CASE \E d \in Callers : Load(d) \/ Expire(d)
      BY <1>0, <3>1 DEF Load, Expire, LimiterTypeOK
    <3>2. CASE Crash
      BY <3>2 DEF Crash
    <3>3. CASE cap' = cap
      BY <3>3
    <3>4. QED
      BY <1>3, <3>1, <3>2, <3>3
         DEF LimiterNext, AcquireStep, Trim, CountMembers, AddMember, Wake, CurrentUsage, PostQuota,
             Tick, limiterVars
  <2>3. QED
    BY <1>0, <2>1, <2>2
<1>4. QED
  BY <1>2, <1>3

\* Callers that count before any of them adds overrun a cap by at most their number less
\* one, for any number of buckets' users, any window and caps posted at any moment.
THEOREM Overrun == LimiterSpec => []OverrunBounded
<1>1. LimiterInit => LimiterIInv
  <2> SUFFICES ASSUME LimiterInit PROVE LimiterIInv
    OBVIOUS
  <2>1. LimiterTypeOK
    BY CapAssumption, WindowAssumption DEF LimiterInit, LimiterTypeOK, Labels
  <2>2. \A b \in Buckets : peak[b] >= caps[b] /\ peak[b] \in Nat \ {0}
    BY CapAssumption DEF LimiterInit, Caps
  <2>3. \A c \in Callers : cap[c] <= peak[CapBucket(BucketOf[c])]
    BY <2>2, BucketsOf DEF LimiterInit
  <2>4. ASSUME NEW b \in Buckets PROVE Bound(b)
    <3>1. Held(b) = {} /\ Adding(b) = {}
      BY DEF LimiterInit, Held, Adding, UsersOf
    <3>2. Cardinality(Held(b)) = 0 /\ Cardinality(Adding(b)) = 0
      BY <3>1, FS_EmptySet
    <3>3. Larger(1, Cardinality(UsersOf(b))) \in Nat /\ peak[CapBucket(b)] \in Nat \ {0}
      BY <2>2, FiniteParts, BucketsOf DEF Larger
    <3>4. QED
      BY <3>2, <3>3 DEF Bound
  <2>5. QED
    BY <2>1, <2>2, <2>3, <2>4 DEF LimiterIInv, OverrunBounded, Bound
<1>2. LimiterIInv /\ LimiterTypeOK' /\ [LimiterNext]_limiterVars => LimiterIInv'
  <2> SUFFICES ASSUME LimiterIInv, LimiterTypeOK', [LimiterNext]_limiterVars PROVE LimiterIInv'
    OBVIOUS
  <2>1. \A b \in Buckets : Bound(b)'
    BY BoundCount, BoundAdd, BoundOther
  <2>2. OverrunBounded'
    BY <2>1 DEF OverrunBounded, Bound
  <2>3. QED
    BY <2>2, CapsHeld DEF LimiterIInv
<1>3. LimiterIInv => OverrunBounded
  BY DEF LimiterIInv
<1>4. QED
  BY <1>1, <1>2, <1>3, LimiterTypes, PTL DEF LimiterSpec

\* A bucket that one thread calls under never holds more calls of a window than the largest
\* cap so far, whatever the operator posts and the other buckets do: the check before the
\* ZADD is enough for it (acquire of utils/rate_limiter.py).
THEOREM LoneCaller ==
  LimiterSpec => [](\A b \in Buckets : Cardinality(UsersOf(b)) <= 1
                                         => Cardinality(Held(b)) <= peak[CapBucket(b)])
<1>1. LimiterTypeOK /\ OverrunBounded
        => \A b \in Buckets : Cardinality(UsersOf(b)) <= 1 => Cardinality(Held(b)) <= peak[CapBucket(b)]
  <2> SUFFICES ASSUME LimiterTypeOK, OverrunBounded, NEW b \in Buckets, Cardinality(UsersOf(b)) <= 1
               PROVE  Cardinality(Held(b)) <= peak[CapBucket(b)]
    OBVIOUS
  <2>1. Cardinality(Held(b)) + Cardinality(Adding(b)) + 1
           <= peak[CapBucket(b)] + Larger(1, Cardinality(UsersOf(b)))
    BY DEF OverrunBounded
  <2>2. Larger(1, Cardinality(UsersOf(b))) = 1
    BY FiniteParts DEF Larger
  <2>3. peak[CapBucket(b)] \in Nat
    BY BucketsOf DEF LimiterTypeOK, Caps
  <2> QED
    BY <2>1, <2>2, <2>3, FiniteParts
<1> QED
  BY <1>1, Overrun, LimiterTypes, PTL
=============================================================================

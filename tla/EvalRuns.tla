------------------------------ MODULE EvalRuns ------------------------------
(***************************************************************************)
(* One eval run, from its trigger (api/eval_runs.py) through the           *)
(* background thread (evals/run_offline_eval.py, run_guardrails_eval.py,   *)
(* run_tool_selection_eval.py) to what GET /evals/{eval_id} answers.       *)
(*                                                                         *)
(* The MLflow run is the only durable record: the rows are the thread's.   *)
(* Any call of MLflow may fail, and the process may be killed between any  *)
(* two.  Runs that go on at the same time have nothing in common here but  *)
(* the rate limiter, which is RpmLimiter.                                  *)
(***************************************************************************)
EXTENDS Naturals, Sequences, FiniteSets, SequencesExt

CONSTANTS
    Cases,           \* number of cases of the golden dataset
    Expected,        \* those of 1..Cases whose expected_is_match / expected_triggered holds
    BatchSize,       \* resolved_batch_size
    MaxItems,        \* bound on the items of a reply, see BatchScoring
    Repeats,         \* trials of a case of a tool-selection eval, at most
    Scripts,         \* of the cases' jobs: subset of {"ok", "crawl_error", "eval_error"}
    MaxCalls,        \* bound on the calls of a trial, its recursion limit
    MaxFaults        \* bound on calls of MLflow that fail

ASSUME CasesAssumption == Cases \in Nat /\ Expected \subseteq 1..Cases
ASSUME SizeAssumption  == BatchSize \in Nat \ {0} /\ MaxItems \in Nat
ASSUME TrialAssumption == Repeats \in Nat /\ MaxCalls \in Nat
ASSUME FaultAssumption == MaxFaults \in Nat
ASSUME ScriptAssumption == Scripts \subseteq {"ok", "crawl_error", "eval_error"}

S == INSTANCE BatchScoring WITH MaxBatch <- BatchSize
T == INSTANCE ToolTrial

\* What a call of score_jobs_batch for n jobs may come to.
Outcomes(n) == {o.outcome : o \in {p \in S!BatchOutcomes : p.jobs = n}}

VARIABLES
    kind,            \* single (and legacy), batch, guardrails, tool
    own,             \* cases with a resume of their own
    pc, total, at,   \* the thread: where it is, len(cases) after limit, index of the next case
    rows,            \* its rows
    script,          \* of the cases of a tool-selection eval
    trial, wins, ran, \* its trial under way; trials of the case that succeeded, and that ended
    repeats,
    ending,          \* status the with block of the MLflow run is left with
    run,             \* the MLflow run: status, tagged, error, metrics
    prompt,          \* the prompt version asked for exists (FALSE: SystemExit)
    faults, killed

trials  == <<trial, wins, ran>>
thread  == <<pc, total, at, rows, trials, repeats, ending>>
request == <<kind, own, script, prompt>>
vars    == <<request, thread, run, faults, killed>>

Kinds    == {"single", "batch", "guardrails", "tool"}
Statuses == {"none", "RUNNING", "FINISHED", "FAILED"}

\* The case a row is about, the case and resume its score is about (0: the resume on file),
\* and whether the score is a match (a guardrail has triggered); successful trials.
Row(c, of, match, successes) ==
    [case |-> c, scored |-> TRUE, of |-> of, match |-> match, wins |-> successes]
ErrorRow(c) == [case |-> c, scored |-> FALSE, of |-> <<0, 0>>, match |-> FALSE, wins |-> 0]
Resume(c) == IF c \in own THEN c ELSE 0

NoRun == [status |-> "none", tagged |-> FALSE, error |-> FALSE, metrics |-> <<>>]

TypeOK ==
    /\ kind \in Kinds /\ own \subseteq 1..Cases /\ prompt \in BOOLEAN
    /\ pc \in {"idle", "rejected", "start", "tag", "setup", "params", "score",
               "table", "tell", "close", "done"}
    /\ total \in 0..Cases /\ at \in 1..(Cases + 1)
    /\ \A i \in DOMAIN rows : rows[i].case \in 1..Cases /\ rows[i].of[1] \in 0..Cases
    /\ trial.count \in 0..MaxCalls /\ wins \in 0..ran /\ ran \in 0..repeats
    /\ repeats \in 0..Repeats
    /\ ending \in {"FINISHED", "FAILED"}
    /\ run.status \in Statuses /\ Len(run.metrics) <= 1
    /\ faults \in 0..MaxFaults /\ killed \in BOOLEAN

Init ==
    /\ kind \in Kinds
    /\ own \in SUBSET (1..Cases)
    /\ kind \in {"guardrails", "tool"} => own = {}
    /\ script \in Scripts
    /\ prompt \in (IF kind \in {"single", "batch"} THEN BOOLEAN ELSE {TRUE})
    /\ pc = "idle" /\ total = 0 /\ at = 1 /\ rows = <<>>
    /\ trial = T!InitialTrial /\ wins = 0 /\ ran = 0
    /\ repeats = 0 /\ ending = "FINISHED"
    /\ run = NoRun
    /\ faults = 0 /\ killed = FALSE

(***************************************************************************)
(* The request                                                             *)
(***************************************************************************)
\* 202 and a thread, or 400 for a dataset that is not there or a version that is not
\* one of the production prompt.
Trigger ==
    /\ pc = "idle"
    /\ \/ pc' = "start"
       \/ pc' = "rejected"
    /\ repeats' \in (IF kind = "tool" THEN 0..Repeats ELSE {0})
    /\ UNCHANGED <<request, total, at, rows, trials, ending, run, faults, killed>>

(***************************************************************************)
(* The thread, outside the loop                                            *)
(***************************************************************************)
Fault == faults < MaxFaults /\ faults' = faults + 1

End(status) == pc' = "close" /\ ending' = status

\* Nothing is recorded of what fails before the run is started: repeats < 1, MLflow away.
StartRun ==
    /\ pc = "start"
    /\ \/ /\ kind = "tool" => repeats > 0
          /\ run' = [run EXCEPT !.status = "RUNNING"]
          /\ pc' = "tag" /\ UNCHANGED faults
       \/ /\ kind = "tool" /\ repeats = 0
          /\ pc' = "done" /\ UNCHANGED <<run, faults>>
       \/ Fault /\ pc' = "done" /\ UNCHANGED run
    /\ UNCHANGED <<request, total, at, rows, trials, repeats, ending, killed>>

SetTags ==
    /\ pc = "tag"
    /\ \/ run' = [run EXCEPT !.tagged = TRUE] /\ pc' = "setup" /\ UNCHANGED <<ending, faults>>
       \/ Fault /\ End("FAILED") /\ UNCHANGED run
    /\ UNCHANGED <<request, total, at, rows, trials, repeats, killed>>

SetupFails == pc' = "tell" /\ UNCHANGED ending

\* Dataset and limit, resume, prompt, client.  A prompt that is not there is a SystemExit,
\* which `except Exception` lets through.
Setup ==
    /\ pc = "setup"
    /\ \/ /\ prompt
          /\ total' \in 0..Cases
          /\ pc' = "params" /\ UNCHANGED ending
       \/ SetupFails /\ UNCHANGED total
       \/ ~prompt /\ End("FAILED") /\ UNCHANGED total
    /\ UNCHANGED <<request, at, rows, trials, repeats, run, faults, killed>>

LogParams ==
    /\ pc = "params"
    /\ \/ pc' = "score" /\ UNCHANGED faults
       \/ Fault /\ pc' = "tell"
    /\ UNCHANGED <<request, total, at, rows, trials, repeats, ending, run, killed>>

(***************************************************************************)
(* The loop over the cases                                                 *)
(***************************************************************************)
\* An error that is caught costs the cases it was about, any other ends the run.
Abort == pc' = "tell" /\ UNCHANGED <<at, rows>>

Add(newRows, n) ==
    /\ rows' = rows \o newRows
    /\ at' = at + n
    /\ UNCHANGED pc

ScoreCase(c) ==
    \E outcome \in S!ScoreJob :
        \/ outcome.error = "abort" /\ Abort
        \/ /\ outcome.error \in S!CaughtErrors
           /\ Add(<<ErrorRow(c)>>, 1)
        \/ /\ outcome.error = "none"
           /\ Add(<<Row(c, <<c, Resume(c)>>, outcome.scores[1].is = "match", 0)>>, 1)

Chunk == at..(IF at + BatchSize - 1 < total THEN at + BatchSize - 1 ELSE total)
InOrder(set) ==
    CHOOSE seq \in [1..Cardinality(set) -> set] : \A i, j \in DOMAIN seq : i < j => seq[i] < seq[j]

\* The rows of one call of score_jobs_batch: the ids of its prompt are the places in batch.
IdOf(batch, c) == CHOOSE i \in DOMAIN batch : batch[i] = c

RowsOf(batch, resume, scores) ==
    [i \in DOMAIN batch |->
        LET id == IdOf(batch, batch[i])
        IN  IF id \in DOMAIN scores
            THEN Row(batch[i], <<batch[scores[id].id], resume>>, scores[id].is = "match", 0)
            ELSE ErrorRow(batch[i])]

\* Mutants: a chunk that fails leaves no rows; it is tried again.
BugNoRows == Add(<<>>, Cardinality(Chunk))
BugAgain  == pc' = "params" /\ UNCHANGED <<at, rows>>
ChunkFails == Add([i \in 1..Cardinality(Chunk) |-> ErrorRow(at + i - 1)], Cardinality(Chunk))

\* The cases without a resume of their own in one call, then each of the others in a call of
\* its own; whatever fails, fails the chunk.
ScoreChunk ==
    LET batch  == InOrder(Chunk \ own)
        single == InOrder(Chunk \cap own)
        main   == IF batch = <<>> THEN {S!Scored(<<>>)} ELSE Outcomes(Len(batch))
    IN  \E outcome \in main, others \in [DOMAIN single -> Outcomes(1)] :
            LET errors == ({outcome.error} \cup {others[i].error : i \in DOMAIN others}) \ {"none"}
            IN  \/ "abort" \in errors /\ Abort
                \/ errors \ {"abort"} # {} /\ ChunkFails
                \/ /\ errors = {}
                   /\ Add(RowsOf(batch, 0, outcome.scores) \o
                              FlattenSeq([i \in DOMAIN single |->
                                  RowsOf(<<single[i]>>, single[i], others[i].scores)]),
                              Cardinality(Chunk))

\* The checks of one posting or output: no provider, and nothing is caught but the block.
CheckCase(c) ==
    \/ \E triggered \in BOOLEAN : Add(<<Row(c, <<c, 0>>, triggered, 0)>>, 1)
    \/ Abort

\* The trials of a case start afresh; its row takes the successful ones along.
NoTrials == trial' = T!InitialTrial /\ wins' = 0 /\ ran' = 0

\* The agent calls one tool after the other and stops when it likes; at the recursion limit
\* the trial is cut off, and counts with the calls made until then.
CallTool ==
    /\ trial.count < MaxCalls
    /\ \E call \in T!Calls : trial' = T!UseTool(trial, call, script)
    /\ UNCHANGED <<wins, ran>>

EndTrial ==
    \E incomplete \in (IF trial.count = MaxCalls THEN BOOLEAN ELSE {FALSE}) :
        /\ wins' = IF T!Succeeded([trial EXCEPT !.incomplete = incomplete], script)
                   THEN wins + 1 ELSE wins
        /\ ran' = ran + 1
        /\ trial' = T!InitialTrial

\* One more of the `repeats` trials of a case; whatever a trial raises is the error row of
\* the case.
RunTrial(c) ==
    \/ ran < repeats /\ (CallTool \/ EndTrial) /\ UNCHANGED <<pc, at, rows>>
    \/ ran = repeats /\ Add(<<Row(c, <<c, 0>>, FALSE, wins)>>, 1) /\ NoTrials
    \/ ran < repeats /\ Add(<<ErrorRow(c)>>, 1) /\ NoTrials

ScoreNext ==
    /\ pc = "score" /\ at <= total
    /\ \/ kind = "single"     /\ ScoreCase(at)  /\ UNCHANGED trials
       \/ kind = "batch"      /\ ScoreChunk     /\ UNCHANGED trials
       \/ kind = "guardrails" /\ CheckCase(at)  /\ UNCHANGED trials
       \/ kind = "tool"       /\ RunTrial(at)
    /\ UNCHANGED <<request, total, repeats, ending, run, faults, killed>>

(***************************************************************************)
(* The summary and the end of the run                                      *)
(***************************************************************************)
Count(P(_)) == Cardinality({i \in DOMAIN rows : P(rows[i])})

Summary ==
    [total     |-> total,
     evaluated |-> Count(LAMBDA r : r.scored),
     errored   |-> Count(LAMBDA r : ~r.scored),
     wins      |-> FoldLeft(LAMBDA n, r : n + r.wins, 0, rows),
     tp |-> Count(LAMBDA r : r.scored /\ r.match /\ r.case \in Expected),
     fp |-> Count(LAMBDA r : r.scored /\ r.match /\ r.case \notin Expected),
     fn |-> Count(LAMBDA r : r.scored /\ ~r.match /\ r.case \in Expected),
     tn |-> Count(LAMBDA r : r.scored /\ ~r.match /\ r.case \notin Expected)]

LogMetrics ==
    /\ pc = "score" /\ at > total
    /\ \/ run' = [run EXCEPT !.metrics = <<Summary>>] /\ pc' = "table" /\ UNCHANGED faults
       \/ Fault /\ pc' = "tell" /\ UNCHANGED run
    /\ UNCHANGED <<request, total, at, rows, trials, repeats, ending, killed>>

LogTable ==
    /\ pc = "table"
    /\ \/ End("FINISHED") /\ UNCHANGED faults
       \/ Fault /\ pc' = "tell" /\ UNCHANGED ending
    /\ UNCHANGED <<request, total, at, rows, trials, repeats, run, killed>>

TagError ==
    /\ pc = "tell"
    /\ End("FAILED")
    /\ \/ run' = [run EXCEPT !.error = TRUE] /\ UNCHANGED faults
       \/ Fault /\ UNCHANGED run
    /\ UNCHANGED <<request, total, at, rows, trials, repeats, killed>>

EndRun ==
    /\ pc = "close"
    /\ \/ run' = [run EXCEPT !.status = ending] /\ UNCHANGED faults
       \/ Fault /\ UNCHANGED run
    /\ pc' = "done"
    /\ UNCHANGED <<request, total, at, rows, trials, repeats, ending, killed>>

\* The process is killed: the thread is a daemon, its rows are lost.
Kill ==
    /\ pc \notin {"idle", "rejected", "done"}
    /\ killed' = TRUE
    /\ pc' = "done" /\ rows' = <<>> /\ NoTrials
    /\ UNCHANGED <<request, total, at, repeats, ending, run, faults>>

Thread ==
    \/ StartRun \/ SetTags \/ Setup \/ LogParams \/ ScoreNext
    \/ LogMetrics \/ LogTable \/ TagError \/ EndRun

Next == Trigger \/ Thread \/ Kill

Spec == Init /\ [][Next]_vars

\* The thread of a run goes on, every call it makes returns or raises in the end.
FairSpec == Spec /\ WF_vars(Thread)

\* What GET /evals/{eval_id} answers: runs are found by their tags.
View ==
    IF ~run.tagged THEN "404"
    ELSE IF run.status = "FINISHED" THEN "completed"
    ELSE IF run.status = "FAILED" THEN "failed" ELSE "running"

(***************************************************************************)
(* Properties                                                              *)
(***************************************************************************)
\* A completed eval speaks of every case once: no case is lost with its chunk or counted
\* twice, and the numbers of the result add up to the dataset.
CompletedIsWhole ==
    View = "completed" =>
        /\ Len(rows) = total
        /\ {rows[i].case : i \in DOMAIN rows} = 1..total
        /\ Len(run.metrics) = 1
        /\ LET m == run.metrics[1]
           IN  /\ m.total = total /\ m.evaluated + m.errored = total
               /\ kind # "tool" => m.tp + m.fp + m.fn + m.tn = m.evaluated
               /\ kind = "tool" => m.wins <= m.evaluated * repeats

\* The score of a row is that of its own posting against its own resume: the synthetic ids
\* of a chunk, which skip the cases with a resume of their own, lead back to their cases
\* whatever ids the model echoes, leaves out or makes up.
RowsOwnScore ==
    \A i \in DOMAIN rows :
        rows[i].scored => rows[i].of = <<rows[i].case, Resume(rows[i].case)>>

\* A failed eval says why, but for two cases: the prompt that does not exist (a SystemExit),
\* and an MLflow that cannot be told.
FailureTold == View = "failed" => run.error \/ ~prompt \/ faults > 0

\* The two verdicts on a trial are computed apart, from the phases of the jobs and from the
\* calls without their order; on a trial without contract violations they say the same:
\* exactly the calls of the plan were made if and only if the batch was fetched first, every
\* job ended where it should and no call was one too many.
TrialVerdictsAgree ==
    trial.guardrail = 0 =>
        (T!Adherent(trial, script) <=>
            T!Accurate(trial, script) /\ trial.count = T!ExpectedCallCount(script))

\* What GET shows of an eval is true of it, in each of the three kinds: its numbers, its
\* error and its two verdicts on a trial (api/eval_runs.py:42-48, run_offline_eval.py:266-328,
\* run_tool_selection_eval.py:159-188).
ResultTold == TypeOK /\ CompletedIsWhole /\ FailureTold /\ TrialVerdictsAgree

\* A triggered eval comes to an end that GET shows, unless the process is killed, MLflow
\* fails, or the run is refused before it starts.
EvalSettles ==
    pc = "start" ~> \/ View \in {"completed", "failed"}
                    \/ killed \/ faults > 0
                    \/ kind = "tool" /\ repeats = 0
=============================================================================

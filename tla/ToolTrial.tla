------------------------------ MODULE ToolTrial ------------------------------
(***************************************************************************)
(* One trial of the tool-selection eval: the mock tools the agent calls    *)
(* (evals/mock_agent_tools.py) and the verdicts drawn from its call log    *)
(* (evals/run_tool_selection_eval.py, _run_one_trial): each job's phase,   *)
(* guardrail errors, and the comparison with the golden plan               *)
(* (evals/tool_eval_dataset.py), which disregards the order of the calls.  *)
(*                                                                         *)
(* The case has one job, whose script says whether crawling or evaluating  *)
(* it fails; the agent may also name a job that it made up.                *)
(***************************************************************************)
LOCAL INSTANCE Naturals

Job   == 1
Other == 2

Calls == {<<"get_jobs_to_process", 0>>} \cup
         {"crawl_job", "evaluate_match", "record_job_result"} \X {Job, Other}

\* The closure of the mock tools: batch_fetched, phases, and of the log what the scores use.
NoCalls == [call \in Calls |-> 0]
InitialTrial == [fetched |-> FALSE, phase |-> "pending", guardrail |-> 0, touched |-> FALSE,
                 first |-> FALSE, count |-> 0, calls |-> NoCalls, incomplete |-> FALSE]

Logged(t, call, kind) ==
    [t EXCEPT !.count = @ + 1,
              !.calls[call] = @ + 1,
              !.guardrail = IF kind = "guardrail" THEN @ + 1 ELSE @,
              !.touched = @ \/ (kind = "guardrail" /\ call[2] = Job),
              !.first = IF t.count = 0 THEN call[1] = "get_jobs_to_process" ELSE @]

Moved(t, call, phase, kind) == Logged([t EXCEPT !.phase = phase], call, kind)

GetJobs(t, call) ==
    IF t.fetched THEN Logged(t, call, "guardrail")
    ELSE Logged([t EXCEPT !.fetched = TRUE], call, "none")

CrawlJob(t, call, script) ==
    IF call[2] # Job \/ ~t.fetched \/ t.phase # "pending" THEN Logged(t, call, "guardrail")
    ELSE IF script = "crawl_error" THEN Moved(t, call, "crawl_error", "scripted")
    ELSE Moved(t, call, "crawled", "none")

EvaluateMatch(t, call, script) ==
    IF call[2] # Job \/ t.phase # "crawled" THEN Logged(t, call, "guardrail")
    ELSE IF script = "eval_error" THEN Moved(t, call, "eval_error", "scripted")
    ELSE Moved(t, call, "evaluated", "none")

\* A second record of a recorded job is a no-op, not an error.
RecordJobResult(t, call) ==
    IF call[2] # Job \/ t.phase \notin {"evaluated", "recorded"} THEN Logged(t, call, "guardrail")
    ELSE Moved(t, call, "recorded", "none")

UseTool(t, call, script) ==
    CASE call[1] = "get_jobs_to_process" -> GetJobs(t, call)
      [] call[1] = "crawl_job"           -> CrawlJob(t, call, script)
      [] call[1] = "evaluate_match"      -> EvaluateMatch(t, call, script)
      [] call[1] = "record_job_result"   -> RecordJobResult(t, call)

(***************************************************************************)
(* The golden plan and the scores                                          *)
(***************************************************************************)
TerminalState(script) == IF script = "ok" THEN "recorded" ELSE script

ExpectedTrajectory(script) ==
    {<<"get_jobs_to_process", 0>>, <<"crawl_job", Job>>} \cup
    (IF script = "crawl_error" THEN {} ELSE {<<"evaluate_match", Job>>}) \cup
    (IF script = "ok" THEN {<<"record_job_result", Job>>} ELSE {})

ExpectedCallCount(script) ==
    1 + (CASE script = "crawl_error" -> 1 [] script = "eval_error" -> 2 [] script = "ok" -> 3)

\* plan_adherence, with trajectory_match_mode "unordered".
Adherent(t, script) ==
    t.calls = [call \in Calls |-> IF call \in ExpectedTrajectory(script) THEN 1 ELSE 0]

\* _score_trial: tool_selection_accuracy is 1 when the batch was fetched first and every
\* job ended where the script has it end, without a guardrail error of its own.
Accurate(t, script) == t.first /\ ~t.touched /\ t.phase = TerminalState(script)

Succeeded(t, script) == Adherent(t, script) /\ ~t.incomplete
=============================================================================

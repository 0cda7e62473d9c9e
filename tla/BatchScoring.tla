---------------------------- MODULE BatchScoring ----------------------------
(***************************************************************************)
(* What one call of score_job or score_jobs_batch may return or raise      *)
(* (llm_providers/__init__.py), and how the reply of the model is parsed   *)
(* (llm_providers/base.py).                                                *)
(*                                                                         *)
(* A reply is the sequence of the complete items of the JSON array and     *)
(* whether it is cut off.  An item is the id it echoes and what it amounts *)
(* to: a verdict, a breakdown that does not validate, or a reasoning that  *)
(* the output guardrail refuses.                                           *)
(***************************************************************************)
EXTENDS Naturals, SequencesExt

CONSTANTS
    MaxBatch,        \* most jobs of one call
    MaxItems         \* bound on the items of a reply

Verdicts == {"match", "no_match"}
Items(n) == [id : 1..(n + 1), is : Verdicts \cup {"invalid", "oversized"}]
Replies(n) == [items : SeqOf(Items(n), MaxItems), cut : BOOLEAN]

\* Exceptions of a call of the provider and of the guardrails in front of it: the first
\* three are caught by whoever asked, the others (BillingExhaustedError, ClientError, a
\* connection that breaks off) are not.
CaughtErrors == {"rate_limited", "transient", "unparsable", "blocked"}
Raised(error) == [error |-> error, scores |-> <<>>]
Scored(scores) == [error |-> "none", scores |-> scores]

\* A cut-off array is worth its complete items, but nothing without one; and one item that
\* does not validate costs the whole reply.
Parses(reply) ==
    /\ reply.cut => reply.items # <<>>
    /\ \A i \in DOMAIN reply.items : reply.items[i].is # "invalid"

\* Mutant: an item that echoes a known id is taken for the job at its own place in the reply.
BugByPlace(reply, ids) ==
    [id \in {i \in ids \cap DOMAIN reply.items :
                reply.items[i].id \in ids /\ reply.items[i].is \in Verdicts} |->
        reply.items[id]]

\* The item that answers for each id, by the id it echoes: unknown ids and refused items are
\* left out, and of two items with one id the later one counts.
Answers(reply, ids) ==
    LET good(id) == {i \in DOMAIN reply.items :
                        reply.items[i].id = id /\ reply.items[i].is \in Verdicts}
        last(id) == CHOOSE i \in good(id) : \A k \in good(id) : k <= i
    IN  [id \in {i \in ids : good(i) # {}} |-> reply.items[last(id)]]

\* score_jobs_batch for the jobs 1..n, of which those in flagged look like an injection.
ScoreJobsBatch(n, flagged, reply) ==
    IF flagged = 1..n THEN Scored(<<>>)
    ELSE IF Parses(reply) THEN Scored(Answers(reply, 1..n \ flagged))
    ELSE Raised("unparsable")

\* What a call for n jobs may come to, with n: a set, so that TLC computes it once.
BatchOutcomes ==
    UNION {{[jobs |-> n, outcome |-> Raised(e)] :
                e \in {"rate_limited", "transient", "unparsable", "abort"}} \cup
           {[jobs |-> n, outcome |-> ScoreJobsBatch(n, flagged, reply)] :
                flagged \in SUBSET (1..n), reply \in Replies(n)} : n \in 1..MaxBatch}

\* score_job: the one job is blocked where a batch would leave it out.
ScoreJob == {Raised(e) : e \in CaughtErrors \cup {"abort"}} \cup
            {Scored(<<item>>) : item \in {i \in Items(1) : i.id = 1 /\ i.is \in Verdicts}}
=============================================================================

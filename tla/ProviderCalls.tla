---------------------------- MODULE ProviderCalls ----------------------------
(***************************************************************************)
(* One scoring call and its retries: call_scoring_model                    *)
(* (llm_providers/__init__.py), call_model with its fallback and the       *)
(* cooldown of the primary model (gemini_provider.py), and the billing     *)
(* alert (utils/billing_status.py).                                        *)
(*                                                                         *)
(* Callers are threads: the tools of a matching cycle, a backfill run, an  *)
(* eval run.  They share two things in Redis, the cooldown key and the two *)
(* keys of the alert; every Redis command and every network call is a step.*)
(* The rate limiter in front of each network call is RpmLimiter.           *)
(***************************************************************************)
EXTENDS Naturals

CONSTANTS
    Callers,
    MaxTransient,     \* _TRANSIENT_MAX_RETRIES
    MaxLimited,       \* _RATE_LIMIT_MAX_RETRIES
    Ttl,              \* GEMINI_PRIMARY_MODEL_COOLDOWN_SECONDS, in ticks
    MaxFaults         \* bound on Redis commands that raise RedisError

ASSUME RetryAssumption == MaxTransient \in Nat /\ MaxLimited \in Nat
ASSUME TtlAssumption   == Ttl \in Nat \ {0}
ASSUME FaultAssumption == MaxFaults \in Nat

VARIABLES
    isDefault,        \* GEMINI_MODEL is the default model, so there is a fallback
    cooldown,         \* time to live of the cooldown key, 0 if absent
    at, message,      \* the keys billing_exhausted_at and billing_exhausted_message exist
    pc,
    transient, limited,  \* of each caller: transient_attempt, rate_limit_attempt
    faults,
    \* history, of each caller:
    calls,            \* network calls of the call_scoring_model in progress
    billed,           \* that one has been told that the credits are gone
    inBench,          \* calls of the primary model in the present cooldown
    blind,            \* a check of the cooldown failed in the present cooldown
    exhausted,        \* its last call_scoring_model raised BillingExhaustedError
    acked             \* the operator reset the alert after the caller began to set it

retry   == <<transient, limited>>
alert   == <<at, message>>
seenBench == <<inBench, blind>>
history == <<calls, billed, seenBench, exhausted, acked>>
vars    == <<isDefault, cooldown, alert, pc, retry, faults, history>>

Labels   == {"idle", "check", "primary", "bench", "fallback", "at", "message", "sleep"}
Replies  == {"text", "truncated", "billing", "limited", "client", "server", "lost"}

MostCalls == 2 * (1 + MaxTransient + MaxLimited)

TypeOK ==
    /\ isDefault \in BOOLEAN
    /\ cooldown \in 0..Ttl
    /\ at \in BOOLEAN /\ message \in BOOLEAN
    /\ pc \in [Callers -> Labels]
    /\ transient \in [Callers -> 0..MaxTransient]
    /\ limited \in [Callers -> 0..MaxLimited]
    /\ faults \in 0..MaxFaults
    /\ calls \in [Callers -> 0..(MostCalls + 1)]
    /\ billed \in [Callers -> BOOLEAN] /\ blind \in [Callers -> BOOLEAN]
    /\ inBench \in [Callers -> Nat]
    /\ exhausted \in [Callers -> BOOLEAN] /\ acked \in [Callers -> BOOLEAN]

Init ==
    /\ isDefault \in BOOLEAN
    /\ cooldown = 0
    /\ at = FALSE /\ message = FALSE
    /\ pc = [c \in Callers |-> "idle"]
    /\ transient = [c \in Callers |-> 0]
    /\ limited = [c \in Callers |-> 0]
    /\ faults = 0
    /\ calls = [c \in Callers |-> 0]
    /\ billed = [c \in Callers |-> FALSE]
    /\ inBench = [c \in Callers |-> 0]
    /\ blind = [c \in Callers |-> FALSE]
    /\ exhausted = [c \in Callers |-> FALSE]
    /\ acked = [c \in Callers |-> FALSE]

Goto(c, label) == pc' = [pc EXCEPT ![c] = label]

\* The count of a call that goes on; past MostCalls it is not told apart.
Inside(c, n) ==
    IF pc'[c] = "idle" THEN 0 ELSE IF n > MostCalls THEN MostCalls + 1 ELSE n

\* call_scoring_model returns or raises; its locals are gone.
Return(c, end) ==
    /\ Goto(c, "idle")
    /\ exhausted' = [exhausted EXCEPT ![c] = end = "billing"]
    /\ transient' = [transient EXCEPT ![c] = 0]
    /\ limited' = [limited EXCEPT ![c] = 0]

Continue(c, label) == Goto(c, label) /\ UNCHANGED <<retry, exhausted>>

\* Another Redis command of the bounded number that may raise.
RedisError == faults < MaxFaults /\ faults' = faults + 1

(***************************************************************************)
(* The retry loop                                                          *)
(***************************************************************************)
Begin(c) ==
    /\ pc[c] = "idle"
    /\ Goto(c, "check")
    /\ exhausted' = [exhausted EXCEPT ![c] = FALSE]
    /\ acked' = [acked EXCEPT ![c] = FALSE]
    /\ UNCHANGED <<isDefault, cooldown, alert, retry, faults, calls, billed, inBench, blind>>

\* Mutant: the attempt is not counted.
BugNotCounted(c) == Goto(c, "sleep") /\ UNCHANGED <<retry, exhausted>>

RetryTransient(c) ==
    IF transient[c] = MaxTransient THEN Return(c, "transient")
    ELSE /\ transient' = [transient EXCEPT ![c] = @ + 1]
         /\ Goto(c, "sleep")
         /\ UNCHANGED <<limited, exhausted>>

\* Mutant: a rate limit starts the transient budget afresh.
BugOneBudget(c) ==
    IF limited[c] = MaxLimited THEN Return(c, "rate_limit")
    ELSE /\ limited' = [limited EXCEPT ![c] = IF transient[c] > 0 THEN 0 ELSE @ + 1]
         /\ transient' = [transient EXCEPT ![c] = 0]
         /\ Goto(c, "sleep")
         /\ UNCHANGED exhausted

RetryLimited(c) ==
    IF limited[c] = MaxLimited THEN Return(c, "rate_limit")
    ELSE /\ limited' = [limited EXCEPT ![c] = @ + 1]
         /\ Goto(c, "sleep")
         /\ UNCHANGED <<transient, exhausted>>

Wake(c) ==
    /\ pc[c] = "sleep"
    /\ Continue(c, "check")
    /\ UNCHANGED <<isDefault, cooldown, alert, faults, history>>

(***************************************************************************)
(* call_model                                                              *)
(***************************************************************************)
\* Mutant: the cooldown is looked at once, before the first attempt.
BugCheckOnce(c) == cooldown > 0 /\ calls[c] = 0

InCooldown(c) == cooldown > 0

\* A GET that fails, or has no client yet (the other thread is making it), counts as no
\* cooldown; other models are never checked.
Check(c) ==
    /\ pc[c] = "check"
    /\ \/ ~isDefault /\ Continue(c, "primary") /\ UNCHANGED <<faults, blind>>
       \/ /\ isDefault
          /\ Continue(c, IF InCooldown(c) THEN "fallback" ELSE "primary")
          /\ UNCHANGED <<faults, blind>>
       \/ /\ isDefault /\ RedisError
          /\ Continue(c, "primary")
          /\ blind' = [blind EXCEPT ![c] = cooldown > 0]
    /\ UNCHANGED <<isDefault, cooldown, alert, calls, billed, inBench, acked>>

\* What _generate_content makes of the replies that mean the same for both models:
\* MatchResponseError of a truncated text, exceptions the SDK does not wrap.
Answer(c, reply) ==
    \/ reply = "text"      /\ Return(c, "text")
    \/ reply = "truncated" /\ Return(c, "match_error")
    \/ reply = "lost"      /\ Return(c, "error")
    \/ reply = "billing"   /\ Continue(c, "at")

AskPrimary(c, reply) ==
    /\ pc[c] = "primary"
    /\ \/ Answer(c, reply)
       \/ isDefault /\ reply \in {"client", "limited", "server"} /\ Continue(c, "bench")
       \/ ~isDefault /\ reply = "client"  /\ Return(c, "client_error")
       \/ ~isDefault /\ reply = "limited" /\ RetryLimited(c)
       \/ ~isDefault /\ reply = "server"  /\ RetryTransient(c)
    /\ calls' = [calls EXCEPT ![c] = Inside(c, @ + 1)]
    /\ inBench' = [inBench EXCEPT ![c] = IF cooldown > 0 /\ ~blind[c] THEN @ + 1 ELSE @]
    /\ billed' = [billed EXCEPT ![c] = reply = "billing"]
    /\ UNCHANGED <<isDefault, cooldown, alert, faults, blind, acked>>

\* _set_primary_cooldown: a failed SET is ignored.
Bench(c) ==
    /\ pc[c] = "bench"
    /\ \/ cooldown' = Ttl /\ UNCHANGED faults
       \/ RedisError /\ UNCHANGED cooldown
    /\ Continue(c, "fallback")
    /\ UNCHANGED <<isDefault, alert, history>>

AskFallback(c, reply) ==
    /\ pc[c] = "fallback"
    /\ \/ Answer(c, reply)
       \/ reply = "client"  /\ Return(c, "client_error")
       \/ reply = "limited" /\ RetryLimited(c)
       \/ reply = "server"  /\ RetryTransient(c)
    /\ calls' = [calls EXCEPT ![c] = Inside(c, @ + 1)]
    /\ billed' = [billed EXCEPT ![c] = reply = "billing"]
    /\ UNCHANGED <<isDefault, cooldown, alert, faults, inBench, blind, acked>>

(***************************************************************************)
(* The billing alert: two SETs, and the operator's one DEL of both keys    *)
(***************************************************************************)
Left(c) ==
    /\ calls' = [calls EXCEPT ![c] = Inside(c, @)]
    /\ billed' = [billed EXCEPT ![c] = @ /\ pc'[c] # "idle"]

\* Mutant: only the second of the two keys is set.
BugMessageOnly(c) ==
    /\ pc[c] = "at"
    /\ message' = TRUE /\ Return(c, "billing")
    /\ Left(c)
    /\ UNCHANGED <<isDefault, cooldown, at, faults, inBench, blind, acked>>

RecordAt(c) ==
    /\ pc[c] = "at"
    /\ \/ at' = TRUE /\ Continue(c, "message") /\ UNCHANGED faults
       \/ RedisError /\ Return(c, "error") /\ UNCHANGED at
    /\ acked' = [acked EXCEPT ![c] = FALSE]
    /\ Left(c)
    /\ UNCHANGED <<isDefault, cooldown, message, inBench, blind>>

\* Then call_model raises BillingExhaustedError, which no retry loop catches.
RecordMessage(c) ==
    /\ pc[c] = "message"
    /\ \/ message' = TRUE /\ Return(c, "billing") /\ UNCHANGED faults
       \/ RedisError /\ Return(c, "error") /\ UNCHANGED message
    /\ Left(c)
    /\ UNCHANGED <<isDefault, cooldown, at, inBench, blind, acked>>

\* POST /admin/billing-status/reset.
ResetBillingStatus ==
    /\ at' = FALSE /\ message' = FALSE
    /\ acked' = [c \in Callers |-> pc[c] = "message" \/ exhausted[c]]
    /\ UNCHANGED <<isDefault, cooldown, pc, retry, faults, calls, billed, inBench, blind,
                   exhausted>>

(***************************************************************************)
(* Time                                                                    *)
(***************************************************************************)
Expired(h, empty) == IF cooldown = 1 THEN [c \in Callers |-> empty] ELSE h

Tick ==
    /\ cooldown > 0
    /\ cooldown' = cooldown - 1
    /\ inBench' = Expired(inBench, 0)
    /\ blind' = Expired(blind, FALSE)
    /\ UNCHANGED <<isDefault, alert, pc, retry, faults, calls, billed, exhausted,
                   acked>>

Ask(c) == \E reply \in Replies : AskPrimary(c, reply) \/ AskFallback(c, reply)

CallStep(c) ==
    Wake(c) \/ Check(c) \/ Ask(c) \/ Bench(c) \/ RecordAt(c) \/ RecordMessage(c)

Next ==
    \/ \E c \in Callers : Begin(c) \/ CallStep(c)
    \/ ResetBillingStatus
    \/ Tick

Spec == Init /\ [][Next]_vars

\* A thread inside a call runs on, time passes, and, an assumption since gemini_provider.py:49
\* sets no timeout of its own, every network call returns or raises in the end.
Fairness == WF_vars(Tick) /\ \A c \in Callers : WF_vars(CallStep(c))

FairSpec == Spec /\ Fairness

(***************************************************************************)
(* Properties                                                              *)
(***************************************************************************)
\* What one scoring call may cost: the two retry budgets are independent, each attempt is
\* at most the primary and the fallback model, and a caller may yet ask while one call is left.
CallsBounded ==
    \A c \in Callers :
        calls[c] + (IF pc[c] \in {"idle", "at", "message"} THEN 0 ELSE 1) <= MostCalls

\* A caller who has been told that the credits are gone asks nobody again: no fallback, no
\* retry, and no attempt that benches the primary model.
BillingEndsCall ==
    \A c \in Callers : billed[c] => pc[c] \in {"at", "message"}

\* What a scoring call may spend, whoever answers it and whatever Redis does
\* (llm_providers/__init__.py:110-144, gemini_provider.py:158-246).
SpendBounded == TypeOK /\ CallsBounded /\ BillingEndsCall

\* While the primary model is benched a caller reaches it at most once more, with the check
\* it had made before, unless Redis refused to say.
BenchHolds == \A c \in Callers : inBench[c] <= 1

\* A call that ended for want of credits has left the alert for the dashboard, whichever
\* model said so, unless the operator took it away afterwards.
RaisedIsRecorded ==
    \A c \in Callers : exhausted[c] => acked[c] \/ (at /\ message)

\* Every call ends, whatever the provider answers.
CallEnds == \A c \in Callers : pc[c] = "check" ~> pc[c] = "idle"
=============================================================================

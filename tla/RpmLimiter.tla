----------------------------- MODULE RpmLimiter -----------------------------
(***************************************************************************)
(* utils/rate_limiter.py: RedisRpmLimiter.acquire as the provider calls it *)
(* (llm_providers/gemini_provider.py), GET /admin/rate-limits and          *)
(* POST /admin/rate-limits/config, for one model.                          *)
(*                                                                         *)
(* Callers are threads: tool calls of a matching cycle, the thread of a    *)
(* backfill run, an eval run.  They share one Redis sorted set per bucket  *)
(* and nothing else; every Redis command is one step.  Time is a tick, and *)
(* a member of a set carries its age, so there is no horizon.  Reading the *)
(* clock is one step with the trim that follows it: a later trim with the  *)
(* same reading removes no more than this one.                             *)
(***************************************************************************)
EXTENDS Naturals, FiniteSets

CONSTANTS
    Callers,         \* threads that call acquire
    BucketOf,        \* [Callers -> Buckets], the `bucket` argument of a thread
    Uuids,           \* uuid4().hex of a member
    Admins,          \* concurrent POST /admin/rate-limits/config requests
    Distributions,   \* bodies of those requests
    DefaultCaps,     \* DEFAULT_RPM_CAP, BACKFILL_RPM_CAP, EVAL_RPM_CAP
    Window,          \* WINDOW_SECONDS, in ticks
    Grace,           \* the seconds EXPIRE adds to the window
    NoQuota, Free, NoTtl

Buckets == {"live", "backfill", "eval"}          \* RPM_BUCKETS
Caps    == [Buckets -> Nat \ {0}]

ASSUME CallersAssumption == IsFiniteSet(Callers) /\ BucketOf \in [Callers -> Buckets]
ASSUME UuidAssumption == IsFiniteSet(Uuids)
ASSUME WindowAssumption == Window \in Nat \ {0} /\ Grace \in Nat
ASSUME CapAssumption ==
    /\ DefaultCaps \in Caps
    /\ \A d \in Distributions : d.caps \in Caps /\ d.quota \in Nat \cup {NoQuota}
ASSUME NullAssumption == NoQuota \notin Nat /\ Free \notin Nat /\ NoTtl \notin Nat

VARIABLES
    age,             \* the sorted sets: age of each member by its score, Free if absent
    ttl,             \* time to live of each sorted set
    caps, quota,     \* the hash jobmanageragent:rpm_config
    stage, cap, lag, \* of each caller: label, effective_cap, time since `now` was read
                     \* (0 where the local does not exist)
    posting,         \* requests whose caps are stored and whose quota is not
    peak             \* history: the largest cap of each bucket so far

limiterVars  == <<age, ttl, caps, quota, stage, cap, lag, posting, peak>>
redis == <<age, ttl>>
admin == <<caps, quota, posting, peak>>

Labels == {"idle", "trim", "count", "add", "expire", "sleep"}

LimiterTypeOK ==
    /\ age \in [Buckets -> [Uuids -> 0..Window \cup {Free}]]
    /\ ttl \in [Buckets -> 0..(Window + Grace) \cup {NoTtl}]
    /\ caps \in Caps
    /\ quota \in Nat \cup {NoQuota}
    /\ stage \in [Callers -> Labels]
    /\ cap \in [Callers -> Nat]
    /\ lag \in [Callers -> 0..Window]
    /\ posting \in [Admins -> Distributions \cup {NoQuota}]
    /\ peak \in Caps

LimiterInit ==
    /\ age = [b \in Buckets |-> [u \in Uuids |-> Free]]
    /\ ttl = [b \in Buckets |-> NoTtl]
    /\ caps = DefaultCaps
    /\ quota = NoQuota
    /\ stage = [c \in Callers |-> "idle"]
    /\ cap = [c \in Callers |-> 0]
    /\ lag = [c \in Callers |-> 0]
    /\ posting = [a \in Admins |-> NoQuota]
    /\ peak = DefaultCaps

Held(b)   == {u \in Uuids : age[b][u] # Free}           \* ZCARD counts these
UsersOf(b) == {c \in Callers : BucketOf[c] = b}
Adding(b) == {c \in UsersOf(b) : stage[c] = "add"}
Goto(c, label) == stage' = [stage EXCEPT ![c] = label]

(***************************************************************************)
(* One acquire                                                             *)
(***************************************************************************)
\* _generate_content passes the backfill cap for bucket "backfill" and None otherwise,
\* and acquire takes None for load_rpm_cap, the cap of the live bucket.
CapBucket(b) == IF b = "backfill" THEN "backfill" ELSE "live"

Load(c) ==
    /\ stage[c] = "idle"
    /\ cap' = [cap EXCEPT ![c] = caps[CapBucket(BucketOf[c])]]
    /\ Goto(c, "trim")
    /\ UNCHANGED <<redis, admin, lag>>

\* ZREMRANGEBYSCORE; Redis deletes a set, and its time to live, with its last member.
Trimmed(members) == [u \in Uuids |-> IF members[u] = Window THEN Free ELSE members[u]]

TrimBucket(b) ==
    /\ age' = [age EXCEPT ![b] = Trimmed(@)]
    /\ ttl' = [ttl EXCEPT ![b] = IF \A u \in Uuids : age'[b][u] = Free THEN NoTtl ELSE @]

Trim(c) ==
    /\ stage[c] = "trim"
    /\ TrimBucket(BucketOf[c])
    /\ lag' = [lag EXCEPT ![c] = 0]
    /\ Goto(c, "count")
    /\ UNCHANGED <<admin, cap>>

\* Mutants: a count that reaches the cap still passes; the slot before the last is refused.
BugInclusive(c) == Cardinality(Held(BucketOf[c])) <= cap[c]
BugLastSlot(c)  == Cardinality(Held(BucketOf[c])) + 1 < cap[c]

HasRoom(c) == Cardinality(Held(BucketOf[c])) < cap[c]

CountMembers(c) ==
    /\ stage[c] = "count"
    /\ \/ HasRoom(c) /\ Goto(c, "add") /\ UNCHANGED lag
       \/ ~HasRoom(c) /\ Goto(c, "sleep") /\ lag' = [lag EXCEPT ![c] = 0]
    /\ UNCHANGED <<redis, admin, cap>>

\* ZADD with the reading of the clock as the score.
AddMember(c) ==
    LET b == BucketOf[c] IN
    /\ stage[c] = "add"
    /\ \E u \in Uuids \ Held(b) : age' = [age EXCEPT ![b][u] = lag[c]]
    /\ lag' = [lag EXCEPT ![c] = 0]
    /\ Goto(c, "expire")
    /\ UNCHANGED <<ttl, admin, cap>>

\* EXPIRE, a no-op on a set that is gone; then acquire returns and the call is made.
Expire(c) ==
    LET b == BucketOf[c] IN
    /\ stage[c] = "expire"
    /\ ttl' = [ttl EXCEPT ![b] = IF Held(b) = {} THEN NoTtl ELSE Window + Grace]
    /\ cap' = [cap EXCEPT ![c] = 0]
    /\ Goto(c, "idle")
    /\ UNCHANGED <<age, admin, lag>>

\* After the sleep the loop starts over, with the cap it was given at first.
Wake(c) ==
    /\ stage[c] = "sleep"
    /\ Goto(c, "trim")
    /\ UNCHANGED <<redis, admin, cap, lag>>

AcquireStep(c) == Trim(c) \/ CountMembers(c) \/ AddMember(c) \/ Expire(c) \/ Wake(c)

(***************************************************************************)
(* GET /admin/rate-limits trims a bucket and counts it.                    *)
(***************************************************************************)
CurrentUsage(b) ==
    /\ TrimBucket(b)
    /\ UNCHANGED <<admin, stage, cap, lag>>

(***************************************************************************)
(* POST /admin/rate-limits/config: the body is validated, the caps are     *)
(* stored in one command and the quota in another.                         *)
(***************************************************************************)
Total(c) == c["live"] + c["backfill"] + c["eval"]
Larger(m, n) == IF m < n THEN n ELSE m

PostCaps(a, d) ==
    /\ posting[a] = NoQuota
    /\ d.quota # NoQuota => Total(d.caps) <= d.quota
    /\ caps' = d.caps
    /\ peak' = [b \in Buckets |-> Larger(peak[b], d.caps[b])]
    /\ posting' = [posting EXCEPT ![a] = d]
    /\ UNCHANGED <<redis, quota, stage, cap, lag>>

PostQuota(a) ==
    /\ posting[a] # NoQuota
    /\ quota' = posting[a].quota
    /\ posting' = [posting EXCEPT ![a] = NoQuota]
    /\ UNCHANGED <<redis, caps, peak, stage, cap, lag>>

(***************************************************************************)
(* Time passes; a set whose time to live is over is deleted.               *)
(***************************************************************************)
Older(n) == IF n = Window THEN Window ELSE n + 1

Tick ==
    /\ age' = [b \in Buckets |-> [u \in Uuids |->
                  IF age[b][u] = Free \/ ttl[b] \in {0, 1} THEN Free ELSE Older(age[b][u])]]
    /\ ttl' = [b \in Buckets |-> IF ttl[b] \in {0, 1, NoTtl} THEN NoTtl ELSE ttl[b] - 1]
    /\ lag' = [c \in Callers |-> IF stage[c] \in {"count", "add"} THEN Older(lag[c]) ELSE 0]
    /\ UNCHANGED <<admin, stage, cap>>

\* A redeploy: threads and requests are gone, Redis is not.
Crash ==
    /\ stage' = [c \in Callers |-> "idle"]
    /\ cap' = [c \in Callers |-> 0]
    /\ lag' = [c \in Callers |-> 0]
    /\ posting' = [a \in Admins |-> NoQuota]
    /\ UNCHANGED <<redis, caps, quota, peak>>

LimiterNext ==
    \/ \E c \in Callers : Load(c) \/ AcquireStep(c)
    \/ \E b \in Buckets : CurrentUsage(b)
    \/ \E a \in Admins : PostQuota(a) \/ \E d \in Distributions : PostCaps(a, d)
    \/ Tick
    \/ Crash

LimiterSpec == LimiterInit /\ [][LimiterNext]_limiterVars

\* Time goes on and a thread inside acquire runs; nobody has to call it.
LimiterFairness == WF_limiterVars(Tick) /\ \A c \in Callers : WF_limiterVars(AcquireStep(c))

LimiterFairSpec == LimiterSpec /\ LimiterFairness

(***************************************************************************)
(* Properties                                                              *)
(***************************************************************************)
\* acquire counts and then adds, so callers of one bucket that count together overrun
\* the cap, but never by more than their number less one: a bucket with one caller
\* keeps to its cap, whatever the other buckets, the operator and restarts do.
OverrunBounded ==
    \A b \in Buckets :
        Cardinality(Held(b)) + Cardinality(Adding(b)) + 1
            <= peak[CapBucket(b)] + Larger(1, Cardinality(UsersOf(b)))

\* A caller asleep for want of room does not wait for ever: it, or another caller of its
\* bucket, gets the next slot (or a redeploy ends it).
SlotProgress ==
    \A c \in Callers :
        stage[c] = "sleep"
            ~> stage[c] = "idle" \/ \E d \in UsersOf(BucketOf[c]) : stage[d] = "expire"

\* The inductive invariant behind OverrunBounded.
LimiterIInv ==
    /\ LimiterTypeOK
    /\ \A b \in Buckets : peak[b] >= caps[b]
    /\ \A c \in Callers : cap[c] <= peak[CapBucket(BucketOf[c])]
    /\ OverrunBounded

=============================================================================

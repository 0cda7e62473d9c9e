------------------------ MODULE ProviderCalls_proofs ------------------------
(***************************************************************************)
(* Proofs about ProviderCalls: for any number of callers, any retry        *)
(* budgets and any cooldown, a scoring call spends no more than its two    *)
(* budgets allow, a benched model is left alone, and a call that ended for *)
(* want of credits has left the alert.                                     *)
(***************************************************************************)
EXTENDS ProviderCalls, TLAPS

USE RetryAssumption, TtlAssumption, FaultAssumption

(***************************************************************************)
(* The inductive invariant                                                 *)
(***************************************************************************)
\* TypeOK in two halves: the numbers and labels, and the Booleans.
NumbersOK ==
    /\ cooldown \in 0..Ttl /\ faults \in 0..MaxFaults
    /\ pc \in [Callers -> Labels]
    /\ transient \in [Callers -> 0..MaxTransient]
    /\ limited \in [Callers -> 0..MaxLimited]
    /\ calls \in [Callers -> 0..(MostCalls + 1)]
    /\ inBench \in [Callers -> Nat]

BooleansOK ==
    /\ isDefault \in BOOLEAN /\ at \in BOOLEAN /\ message \in BOOLEAN
    /\ billed \in [Callers -> BOOLEAN] /\ blind \in [Callers -> BOOLEAN]
    /\ exhausted \in [Callers -> BOOLEAN] /\ acked \in [Callers -> BOOLEAN]

\* What a call has cost where it stands: two network calls for each attempt that is over,
\* and those of the attempt it is in.
Attempts(c) == transient[c] + limited[c]

Cost(c) ==
    /\ pc[c] = "idle"                          => calls[c] = 0
    /\ pc[c] \in {"check", "primary", "sleep"} => calls[c] <= 2 * Attempts(c)
    /\ pc[c] \in {"bench", "fallback"}         => calls[c] <= 2 * Attempts(c) + 1
    /\ pc[c] \in {"at", "message"}             => calls[c] <= 2 * Attempts(c) + 2

\* A caller at the primary model in a cooldown either has not been there in this one, or
\* could not ask for it; and it is only the default model that is benched.
Benched(c) ==
    /\ pc[c] = "bench" => isDefault
    /\ cooldown = 0 => inBench[c] = 0
    /\ pc[c] = "primary" /\ cooldown > 0 /\ ~blind[c] => inBench[c] = 0
    /\ inBench[c] <= 1

OnlyDefault == cooldown > 0 => isDefault

\* The first key of the alert is there while the second is set, or the operator was quicker.
Alerted(c) ==
    /\ pc[c] = "message" => acked[c] \/ at
    /\ exhausted[c] => pc[c] = "idle"
    /\ exhausted[c] => acked[c] \/ (at /\ message)

Billed(c) == billed[c] => pc[c] \in {"at", "message"}

IInv ==
    /\ NumbersOK /\ BooleansOK /\ OnlyDefault
    /\ \A c \in Callers : Cost(c) /\ Benched(c) /\ Alerted(c) /\ Billed(c)

LEMMA TypeHalves == TypeOK <=> NumbersOK /\ BooleansOK
  BY DEF TypeOK, NumbersOK, BooleansOK

LEMMA MostCallsNat == MostCalls \in Nat
  BY DEF MostCalls

LEMMA InitIInv == Init => IInv
<1> SUFFICES ASSUME Init PROVE IInv
  OBVIOUS
<1>1. NumbersOK
  BY MostCallsNat DEF Init, NumbersOK, Labels
<1>2. BooleansOK
  BY Zenon DEF Init, BooleansOK
<1>4. OnlyDefault
  BY DEF Init, OnlyDefault
<1>3. ASSUME NEW c \in Callers PROVE Cost(c) /\ Benched(c) /\ Alerted(c) /\ Billed(c)
  BY <1>3 DEF Init, Cost, Attempts, Benched, Alerted, Billed
<1> QED
  BY <1>1, <1>2, <1>3, <1>4 DEF IInv

(***************************************************************************)
(* The steps of a caller                                                   *)
(***************************************************************************)
LEMMA BeginKeeps ==
  ASSUME IInv, NEW c \in Callers, Begin(c)
  PROVE  IInv'
<1>1. NumbersOK'
  BY MostCallsNat DEF IInv, NumbersOK, Labels, Begin, Goto, retry, alert
<1>2. BooleansOK'
  BY Zenon DEF IInv, BooleansOK, Begin, Goto, retry, alert
<1>3. OnlyDefault'
  BY DEF IInv, OnlyDefault, Benched, Begin, Goto, retry, alert
<1>4. ASSUME NEW d \in Callers PROVE Cost(d)'
  BY <1>1, MostCallsNat DEF IInv, NumbersOK, Cost, Attempts, Begin, Goto, retry, alert
<1>5. ASSUME NEW d \in Callers PROVE Benched(d)'
  BY DEF IInv, NumbersOK, BooleansOK, OnlyDefault, Benched, Begin, Goto, retry, alert
<1>6. ASSUME NEW d \in Callers PROVE Alerted(d)'
  BY DEF IInv, NumbersOK, BooleansOK, Alerted, Begin, Goto, retry, alert
<1>7. ASSUME NEW d \in Callers PROVE Billed(d)'
  BY DEF IInv, NumbersOK, BooleansOK, Billed, Begin, Goto, retry, alert
<1> QED
  BY <1>1, <1>2, <1>3, <1>4, <1>5, <1>6, <1>7 DEF IInv

LEMMA WakeKeeps ==
  ASSUME IInv, NEW c \in Callers, Wake(c)
  PROVE  IInv'
<1>1. NumbersOK'
  BY MostCallsNat DEF IInv, NumbersOK, Labels, Wake, Continue, Goto, retry, alert, history, seenBench
<1>2. BooleansOK'
  BY Zenon DEF IInv, BooleansOK, Wake, Continue, Goto, retry, alert, history, seenBench
<1>3. OnlyDefault'
  BY DEF IInv, OnlyDefault, Benched, Wake, Continue, Goto, retry, alert, history, seenBench
<1>4. ASSUME NEW d \in Callers PROVE Cost(d)'
  BY <1>1, MostCallsNat DEF IInv, NumbersOK, Cost, Attempts, Wake, Continue, Goto, retry, alert, history, seenBench
<1>5. ASSUME NEW d \in Callers PROVE Benched(d)'
  BY DEF IInv, NumbersOK, BooleansOK, OnlyDefault, Benched, Wake, Continue, Goto, retry, alert, history, seenBench
<1>6. ASSUME NEW d \in Callers PROVE Alerted(d)'
  BY DEF IInv, NumbersOK, BooleansOK, Alerted, Wake, Continue, Goto, retry, alert, history, seenBench
<1>7. ASSUME NEW d \in Callers PROVE Billed(d)'
  BY DEF IInv, NumbersOK, BooleansOK, Billed, Wake, Continue, Goto, retry, alert, history, seenBench
<1> QED
  BY <1>1, <1>2, <1>3, <1>4, <1>5, <1>6, <1>7 DEF IInv

LEMMA CheckKeeps ==
  ASSUME IInv, NEW c \in Callers, Check(c)
  PROVE  IInv'
<1>1. NumbersOK'
  BY MostCallsNat DEF IInv, NumbersOK, Labels, Check, Continue, Goto, InCooldown, RedisError, retry, alert
<1>2. BooleansOK'
  <2>1. (cooldown > 0) \in BOOLEAN
    OBVIOUS
  <2>2. blind' \in [Callers -> BOOLEAN]
    BY <2>1, Zenon DEF IInv, BooleansOK, Check
  <2> QED
    BY <2>2, Zenon DEF IInv, BooleansOK, Check, Continue, retry, alert
<1>3. OnlyDefault'
  BY DEF IInv, OnlyDefault, Benched, Check, Continue, Goto, InCooldown, RedisError, retry, alert
<1>4. ASSUME NEW d \in Callers PROVE Cost(d)'
  BY <1>1, MostCallsNat DEF IInv, NumbersOK, Cost, Attempts, Check, Continue, Goto, InCooldown, RedisError, retry, alert
<1>5. ASSUME NEW d \in Callers PROVE Benched(d)'
  BY DEF IInv, NumbersOK, BooleansOK, OnlyDefault, Benched, Check, Continue, Goto, InCooldown, RedisError, retry, alert
<1>6. ASSUME NEW d \in Callers PROVE Alerted(d)'
  BY DEF IInv, NumbersOK, BooleansOK, Alerted, Check, Continue, Goto, InCooldown, RedisError, retry, alert
<1>7. ASSUME NEW d \in Callers PROVE Billed(d)'
  BY DEF IInv, NumbersOK, BooleansOK, Billed, Check, Continue, Goto, InCooldown, RedisError, retry, alert
<1> QED
  BY <1>1, <1>2, <1>3, <1>4, <1>5, <1>6, <1>7 DEF IInv

LEMMA BenchKeeps ==
  ASSUME IInv, NEW c \in Callers, Bench(c)
  PROVE  IInv'
<1>1. NumbersOK'
  BY MostCallsNat DEF IInv, NumbersOK, Labels, Bench, Continue, Goto, RedisError, retry, alert, history, seenBench
<1>2. BooleansOK'
  BY Zenon DEF IInv, BooleansOK, Bench, Continue, Goto, RedisError, retry, alert, history, seenBench
<1>3. OnlyDefault'
  BY DEF IInv, OnlyDefault, Benched, Bench, Continue, Goto, RedisError, retry, alert, history, seenBench
<1>4. ASSUME NEW d \in Callers PROVE Cost(d)'
  BY <1>1, MostCallsNat DEF IInv, NumbersOK, Cost, Attempts, Bench, Continue, Goto, RedisError, retry, alert, history, seenBench
<1>5. ASSUME NEW d \in Callers PROVE Benched(d)'
  BY DEF IInv, NumbersOK, BooleansOK, OnlyDefault, Benched, Bench, Continue, Goto, RedisError, retry, alert, history, seenBench
<1>6. ASSUME NEW d \in Callers PROVE Alerted(d)'
  BY DEF IInv, NumbersOK, BooleansOK, Alerted, Bench, Continue, Goto, RedisError, retry, alert, history, seenBench
<1>7. ASSUME NEW d \in Callers PROVE Billed(d)'
  BY DEF IInv, NumbersOK, BooleansOK, Billed, Bench, Continue, Goto, RedisError, retry, alert, history, seenBench
<1> QED
  BY <1>1, <1>2, <1>3, <1>4, <1>5, <1>6, <1>7 DEF IInv

LEMMA RecordAtKeeps ==
  ASSUME IInv, NEW c \in Callers, RecordAt(c)
  PROVE  IInv'
<1>1. NumbersOK'
  BY MostCallsNat DEF IInv, NumbersOK, Labels, RecordAt, Continue, Return, Goto, Left, Inside, RedisError, retry
<1>2. BooleansOK'
  BY Zenon DEF IInv, BooleansOK, RecordAt, Continue, Return, Goto, Left, Inside, RedisError, retry
<1>3. OnlyDefault'
  BY DEF IInv, OnlyDefault, Benched, RecordAt, Continue, Return, Goto, Left, Inside, RedisError, retry
<1>4. ASSUME NEW d \in Callers PROVE Cost(d)'
  BY <1>1, MostCallsNat DEF IInv, NumbersOK, Cost, Attempts, RecordAt, Continue, Return, Goto, Left, Inside, RedisError, retry
<1>5. ASSUME NEW d \in Callers PROVE Benched(d)'
  BY DEF IInv, NumbersOK, BooleansOK, OnlyDefault, Benched, RecordAt, Continue, Return, Goto, Left, Inside, RedisError, retry
<1>6. ASSUME NEW d \in Callers PROVE Alerted(d)'
  BY DEF IInv, NumbersOK, BooleansOK, Alerted, RecordAt, Continue, Return, Goto, Left, Inside, RedisError, retry
<1>7. ASSUME NEW d \in Callers PROVE Billed(d)'
  BY DEF IInv, NumbersOK, BooleansOK, Billed, RecordAt, Continue, Return, Goto, Left, Inside, RedisError, retry
<1> QED
  BY <1>1, <1>2, <1>3, <1>4, <1>5, <1>6, <1>7 DEF IInv

LEMMA RecordMessageKeeps ==
  ASSUME IInv, NEW c \in Callers, RecordMessage(c)
  PROVE  IInv'
<1>1. NumbersOK'
  BY MostCallsNat DEF IInv, NumbersOK, Labels, RecordMessage, Return, Goto, Left, Inside, RedisError
<1>2. BooleansOK'
  BY Zenon DEF IInv, BooleansOK, RecordMessage, Return, Goto, Left, Inside, RedisError
<1>3. OnlyDefault'
  BY DEF IInv, OnlyDefault, Benched, RecordMessage, Return, Goto, Left, Inside, RedisError
<1>4. ASSUME NEW d \in Callers PROVE Cost(d)'
  BY <1>1, MostCallsNat DEF IInv, NumbersOK, Cost, Attempts, RecordMessage, Return, Goto, Left, Inside, RedisError
<1>5. ASSUME NEW d \in Callers PROVE Benched(d)'
  BY DEF IInv, NumbersOK, BooleansOK, OnlyDefault, Benched, RecordMessage, Return, Goto, Left, Inside, RedisError
<1>6. ASSUME NEW d \in Callers PROVE Alerted(d)'
  BY DEF IInv, NumbersOK, BooleansOK, Alerted, RecordMessage, Return, Goto, Left, Inside, RedisError
<1>7. ASSUME NEW d \in Callers PROVE Billed(d)'
  BY DEF IInv, NumbersOK, BooleansOK, Billed, RecordMessage, Return, Goto, Left, Inside, RedisError
<1> QED
  BY <1>1, <1>2, <1>3, <1>4, <1>5, <1>6, <1>7 DEF IInv

LEMMA AskPrimaryKeeps ==
  ASSUME IInv, NEW c \in Callers, NEW reply \in Replies, AskPrimary(c, reply)
  PROVE  IInv'
<1>1. NumbersOK'
  BY MostCallsNat DEF IInv, NumbersOK, Labels, AskPrimary, Answer, RetryTransient, RetryLimited, Continue, Return, Goto, Inside, alert, retry
<1>2. BooleansOK'
  BY Zenon DEF IInv, BooleansOK, AskPrimary, Answer, RetryTransient, RetryLimited, Continue, Return, Goto, Inside, alert, retry
<1>3. OnlyDefault'
  BY DEF IInv, OnlyDefault, Benched, AskPrimary, Answer, RetryTransient, RetryLimited, Continue, Return, Goto, Inside, alert, retry
<1>4. ASSUME NEW d \in Callers PROVE Cost(d)'
  BY <1>1, MostCallsNat DEF IInv, NumbersOK, Cost, Attempts, AskPrimary, Answer, RetryTransient, RetryLimited, Continue, Return, Goto, Inside, alert, retry
<1>5. ASSUME NEW d \in Callers PROVE Benched(d)'
  BY DEF IInv, NumbersOK, BooleansOK, OnlyDefault, Benched, AskPrimary, Answer, RetryTransient, RetryLimited, Continue, Return, Goto, Inside, alert, retry
<1>6. ASSUME NEW d \in Callers PROVE Alerted(d)'
  BY DEF IInv, NumbersOK, BooleansOK, Alerted, AskPrimary, Answer, RetryTransient, RetryLimited, Continue, Return, Goto, Inside, alert, retry
<1>7. ASSUME NEW d \in Callers PROVE Billed(d)'
  BY DEF IInv, NumbersOK, BooleansOK, Billed, AskPrimary, Answer, RetryTransient, RetryLimited, Continue, Return, Goto, Inside, alert, retry
<1> QED
  BY <1>1, <1>2, <1>3, <1>4, <1>5, <1>6, <1>7 DEF IInv

LEMMA AskFallbackKeeps ==
  ASSUME IInv, NEW c \in Callers, NEW reply \in Replies, AskFallback(c, reply)
  PROVE  IInv'
<1>1. NumbersOK'
  BY MostCallsNat DEF IInv, NumbersOK, Labels, AskFallback, Answer, RetryTransient, RetryLimited, Continue, Return, Goto, Inside, alert, retry
<1>2. BooleansOK'
  BY Zenon DEF IInv, BooleansOK, AskFallback, Answer, RetryTransient, RetryLimited, Continue, Return, Goto, Inside, alert, retry
<1>3. OnlyDefault'
  BY DEF IInv, OnlyDefault, Benched, AskFallback, Answer, RetryTransient, RetryLimited, Continue, Return, Goto, Inside, alert, retry
<1>4. ASSUME NEW d \in Callers PROVE Cost(d)'
  <2>1. CASE d # c
    BY <1>1, <2>1 DEF IInv, NumbersOK, Cost, Attempts, AskFallback, Answer, RetryTransient, RetryLimited, Continue, Return, Goto, alert, retry
  <2>2. CASE d = c
    <3>1. calls[c] <= 2 * Attempts(c) + 1 /\ Attempts(c) \in Nat /\ calls[c] \in Nat
      BY DEF IInv, NumbersOK, Cost, Attempts, AskFallback
    <3>2. calls'[c] = Inside(c, calls[c] + 1)
      BY DEF IInv, NumbersOK, AskFallback
    <3>3. pc'[c] # "idle" => calls'[c] <= calls[c] + 1
      BY <3>1, <3>2, MostCallsNat DEF Inside
    <3>4. \/ pc'[c] = "idle"
          \/ pc'[c] = "at" /\ UNCHANGED <<transient, limited>>
          \/ pc'[c] = "sleep" /\ Attempts(c)' = Attempts(c) + 1
      BY DEF IInv, NumbersOK, Attempts, AskFallback, Answer, RetryTransient, RetryLimited, Continue, Return, Goto, retry
    <3>5. calls'[c] \in Nat
      BY <1>1, MostCallsNat DEF NumbersOK
    <3>6. CASE pc'[c] = "idle"
      BY <3>2, <3>6, <2>2 DEF Inside, Cost
    <3>7. CASE pc'[c] = "at" /\ UNCHANGED <<transient, limited>>
      BY <3>1, <3>3, <3>5, <3>7, <2>2 DEF Attempts, Cost
    <3>8. CASE pc'[c] = "sleep" /\ Attempts(c)' = Attempts(c) + 1
      BY <3>1, <3>3, <3>5, <3>8, <2>2 DEF Cost
    <3> QED
      BY <3>4, <3>6, <3>7, <3>8
  <2> QED
    BY <2>1, <2>2
<1>5. ASSUME NEW d \in Callers PROVE Benched(d)'
  BY DEF IInv, NumbersOK, BooleansOK, OnlyDefault, Benched, AskFallback, Answer, RetryTransient, RetryLimited, Continue, Return, Goto, Inside, alert, retry
<1>6. ASSUME NEW d \in Callers PROVE Alerted(d)'
  BY DEF IInv, NumbersOK, BooleansOK, Alerted, AskFallback, Answer, RetryTransient, RetryLimited, Continue, Return, Goto, Inside, alert, retry
<1>7. ASSUME NEW d \in Callers PROVE Billed(d)'
  BY DEF IInv, NumbersOK, BooleansOK, Billed, AskFallback, Answer, RetryTransient, RetryLimited, Continue, Return, Goto, Inside, alert, retry
<1> QED
  BY <1>1, <1>2, <1>3, <1>4, <1>5, <1>6, <1>7 DEF IInv

(***************************************************************************)
(* The operator, the clock and the theorems                                *)
(***************************************************************************)
LEMMA ResetKeeps ==
  ASSUME IInv, ResetBillingStatus
  PROVE  IInv'
<1>1. NumbersOK'
  BY DEF IInv, NumbersOK, ResetBillingStatus, retry
<1>2. BooleansOK'
  <2>1. acked' \in [Callers -> BOOLEAN]
    BY Zenon DEF ResetBillingStatus, IInv, BooleansOK
  <2> QED
    BY <2>1, Zenon DEF IInv, BooleansOK, ResetBillingStatus
<1>3. OnlyDefault'
  BY DEF IInv, OnlyDefault, ResetBillingStatus
<1>4. ASSUME NEW d \in Callers PROVE (Cost(d) /\ Benched(d) /\ Alerted(d) /\ Billed(d))'
  BY DEF IInv, NumbersOK, BooleansOK, Cost, Attempts, Benched, Alerted, Billed,
         ResetBillingStatus, retry
<1> QED
  BY <1>1, <1>2, <1>3, <1>4 DEF IInv

LEMMA TickKeeps ==
  ASSUME IInv, Tick
  PROVE  IInv'
<1>1. NumbersOK'
  BY DEF IInv, NumbersOK, Tick, Expired, retry
<1>2. BooleansOK'
  BY Zenon DEF IInv, BooleansOK, Tick, Expired, alert
<1>3. OnlyDefault'
  BY DEF IInv, NumbersOK, OnlyDefault, Tick
<1>4. ASSUME NEW d \in Callers PROVE (Cost(d) /\ Benched(d) /\ Alerted(d) /\ Billed(d))'
  BY DEF IInv, NumbersOK, BooleansOK, Cost, Attempts, Benched, Alerted, Billed,
         Tick, Expired, retry, alert
<1> QED
  BY <1>1, <1>2, <1>3, <1>4 DEF IInv

LEMMA StutterKeeps ==
  ASSUME IInv, UNCHANGED vars
  PROVE  IInv'
  BY DEF IInv, NumbersOK, BooleansOK, OnlyDefault, Cost, Attempts, Benched, Alerted, Billed,
         vars, alert, retry, history, seenBench

\* The costs, the bench and the alert of every caller keep what ProviderCalls.tla says of them,
\* with what each label still has to spend.
THEOREM Inductive == Spec => []IInv
<1>1. ASSUME IInv, [Next]_vars PROVE IInv'
  <2> USE <1>1
  <2>1. ASSUME NEW c \in Callers, Begin(c) PROVE IInv'
    BY <2>1, BeginKeeps
  <2>2. ASSUME NEW c \in Callers, CallStep(c) PROVE IInv'
    <3>1. CASE Wake(c)
      BY <3>1, WakeKeeps
    <3>2. CASE Check(c)
      BY <3>2, CheckKeeps
    <3>3. CASE Ask(c)
      BY <3>3, AskPrimaryKeeps, AskFallbackKeeps DEF Ask
    <3>4. CASE Bench(c)
      BY <3>4, BenchKeeps
    <3>5. CASE RecordAt(c)
      BY <3>5, RecordAtKeeps
    <3>6. CASE RecordMessage(c)
      BY <3>6, RecordMessageKeeps
    <3> QED
      BY <2>2, <3>1, <3>2, <3>3, <3>4, <3>5, <3>6 DEF CallStep
  <2>3. CASE ResetBillingStatus
    BY <2>3, ResetKeeps
  <2>4. CASE Tick
    BY <2>4, TickKeeps
  <2>5. CASE UNCHANGED vars
    BY <2>5, StutterKeeps
  <2> QED
    BY <2>1, <2>2, <2>3, <2>4, <2>5 DEF Next
<1> QED
  BY InitIInv, <1>1, PTL DEF Spec

\* A call in progress has a call left for each label it may yet ask from.
LEMMA SpendFollows ==
  ASSUME IInv
  PROVE  SpendBounded
<1>1. TypeOK
  BY TypeHalves DEF IInv
<1>2. ASSUME NEW c \in Callers
      PROVE  calls[c] + (IF pc[c] \in {"idle", "at", "message"} THEN 0 ELSE 1) <= MostCalls
  <2>1. /\ Attempts(c) \in Nat /\ Attempts(c) <= MaxTransient + MaxLimited
        /\ pc[c] \in Labels /\ Cost(c)
    BY DEF IInv, NumbersOK, Attempts
  <2>2. calls[c] \in Nat
    BY MostCallsNat DEF IInv, NumbersOK
  <2>3. MostCalls = 2 * (MaxTransient + MaxLimited) + 2
    BY DEF MostCalls
  <2> QED
    BY <2>1, <2>2, <2>3 DEF Labels, Cost
<1>3. BillingEndsCall
  BY DEF IInv, Billed, BillingEndsCall
<1> QED
  BY <1>1, <1>2, <1>3 DEF SpendBounded, CallsBounded

\* However the replies of the provider and the errors of Redis fall, a scoring call makes no
\* more network calls than two for each attempt its two budgets allow, and none after it has
\* been told that the credits are gone.
THEOREM SpendIsBounded == Spec => []SpendBounded
  BY Inductive, SpendFollows, PTL

\* While the primary model is benched, no caller reaches it a second time, whoever benched it.
THEOREM BenchIsHeld == Spec => []BenchHolds
<1>1. IInv => BenchHolds
  BY DEF IInv, Benched, BenchHolds
<1> QED
  BY Inductive, <1>1, PTL

\* Whoever has raised BillingExhaustedError has left both keys of the alert, or the operator
\* has reset it since.
THEOREM RaisedWasRecorded == Spec => []RaisedIsRecorded
<1>1. IInv => RaisedIsRecorded
  BY DEF IInv, Alerted, RaisedIsRecorded
<1> QED
  BY Inductive, <1>1, PTL

(***************************************************************************)
(* Why CallEnds needs nothing but fairness: what a call has still to do is *)
(* a tuple of naturals, compared from the left, that each of its own steps *)
(* lowers and no step of anybody else touches.                             *)
(***************************************************************************)
InCall(c) == IF pc[c] = "idle" THEN 0 ELSE 1

\* The retries that the two budgets still allow.
Retries(c) == (MaxTransient - transient[c]) + (MaxLimited - limited[c])

\* The labels of one attempt, in the order they are passed.
Stage(c) ==
    CASE pc[c] = "sleep"    -> 6
      [] pc[c] = "check"    -> 5
      [] pc[c] = "primary"  -> 4
      [] pc[c] = "bench"    -> 3
      [] pc[c] = "fallback" -> 2
      [] pc[c] = "at"       -> 1
      [] OTHER              -> 0

CallMeasured == \A c \in Callers : Retries(c) \in Nat /\ Stage(c) \in Nat

CallNearer(c) ==
    \/ InCall(c)' < InCall(c)
    \/ InCall(c)' = InCall(c) /\ Retries(c)' < Retries(c)
    \/ InCall(c)' = InCall(c) /\ Retries(c)' = Retries(c) /\ Stage(c)' < Stage(c)

CallStill(c) == InCall(c)' = InCall(c) /\ Retries(c)' = Retries(c) /\ Stage(c)' = Stage(c)

\* Of a step: a caller begins, gets nearer to its end, or is left where it is, and whenever it
\* moves inside a call it gets nearer.
CallsGetOn ==
    \A c \in Callers :
        /\ Begin(c) \/ CallNearer(c) \/ CallStill(c)
        /\ CallStep(c) => CallNearer(c)

\* A call that returns has left; one that goes on spends a retry or passes to a later label.
LEMMA LeavingNears ==
  ASSUME IInv, NEW c \in Callers, pc[c] # "idle", pc'[c] = "idle"
  PROVE  CallNearer(c)
  BY DEF CallNearer, InCall

LEMMA RetryNears ==
  ASSUME IInv, NEW c \in Callers, pc[c] # "idle",
         RetryTransient(c) \/ RetryLimited(c)
  PROVE  CallNearer(c)
<1>1. /\ transient[c] \in 0..MaxTransient /\ limited[c] \in 0..MaxLimited
      /\ pc \in [Callers -> Labels]
      /\ transient \in [Callers -> 0..MaxTransient] /\ limited \in [Callers -> 0..MaxLimited]
  BY DEF IInv, NumbersOK
<1>2. CASE pc'[c] = "idle"
  BY <1>2, LeavingNears
<1>3. CASE pc'[c] # "idle"
  <2>1. Retries(c)' < Retries(c)
    BY <1>1, <1>3 DEF RetryTransient, RetryLimited, Return, Goto, Retries
  <2> QED
    BY <1>3, <2>1 DEF CallNearer, InCall
<1> QED
  BY <1>2, <1>3

LEMMA LabelNears ==
  ASSUME IInv, NEW c \in Callers, UNCHANGED retry, pc[c] # "idle", pc'[c] # "idle",
         Stage(c)' < Stage(c)
  PROVE  CallNearer(c)
  BY DEF CallNearer, InCall, Retries, retry

LEMMA AnswerNears ==
  ASSUME IInv, NEW c \in Callers, NEW reply \in Replies, Answer(c, reply),
         pc[c] \in {"primary", "fallback"}
  PROVE  CallNearer(c)
<1>1. pc \in [Callers -> Labels]
  BY DEF IInv, NumbersOK
<1>2. CASE pc'[c] = "idle"
  BY <1>2, LeavingNears
<1>3. CASE pc'[c] # "idle"
  <2>1. pc'[c] = "at" /\ UNCHANGED retry
    BY <1>1, <1>3 DEF Answer, Continue, Return, Goto
  <2>2. Stage(c)' < Stage(c)
    BY <2>1 DEF Stage
  <2> QED
    BY <2>1, <2>2, LabelNears
<1> QED
  BY <1>2, <1>3

LEMMA CallStepNears ==
  ASSUME IInv, NEW c \in Callers, CallStep(c)
  PROVE  CallNearer(c)
<1>0. pc \in [Callers -> Labels]
  BY DEF IInv, NumbersOK
<1>1. CASE Wake(c)
  <2>1. pc[c] = "sleep" /\ pc'[c] = "check" /\ UNCHANGED retry
    BY <1>0, <1>1 DEF Wake, Continue, Goto
  <2>2. Stage(c)' < Stage(c)
    BY <2>1 DEF Stage
  <2> QED
    BY <2>1, <2>2, LabelNears
<1>2. CASE Check(c)
  <2>1. pc[c] = "check" /\ pc'[c] \in {"primary", "fallback"} /\ UNCHANGED retry
    BY <1>0, <1>2 DEF Check, Continue, Goto
  <2>2. Stage(c)' < Stage(c)
    BY <2>1 DEF Stage
  <2> QED
    BY <2>1, <2>2, LabelNears
<1>3. CASE Bench(c)
  <2>1. pc[c] = "bench" /\ pc'[c] = "fallback" /\ UNCHANGED retry
    BY <1>0, <1>3 DEF Bench, Continue, Goto
  <2>2. Stage(c)' < Stage(c)
    BY <2>1 DEF Stage
  <2> QED
    BY <2>1, <2>2, LabelNears
<1>4. CASE RecordAt(c)
  <2>1. pc[c] = "at" /\ (pc'[c] = "idle" \/ (pc'[c] = "message" /\ UNCHANGED retry))
    BY <1>0, <1>4 DEF RecordAt, Continue, Return, Goto
  <2>2. pc'[c] = "message" => Stage(c)' < Stage(c)
    BY <2>1 DEF Stage
  <2> QED
    BY <2>1, <2>2, LabelNears, LeavingNears
<1>5. CASE RecordMessage(c)
  <2>1. pc[c] = "message" /\ pc'[c] = "idle"
    BY <1>0, <1>5 DEF RecordMessage, Return, Goto
  <2> QED
    BY <2>1, LeavingNears
<1>6. ASSUME NEW reply \in Replies, AskPrimary(c, reply) PROVE CallNearer(c)
  <2>0. pc[c] = "primary"
    BY <1>6 DEF AskPrimary
  <2>1. CASE Answer(c, reply)
    BY <2>0, <2>1, AnswerNears
  <2>2. CASE Continue(c, "bench")
    <3>1. pc'[c] = "bench" /\ UNCHANGED retry
      BY <1>0, <2>2 DEF Continue, Goto
    <3>2. Stage(c)' < Stage(c)
      BY <2>0, <3>1 DEF Stage
    <3> QED
      BY <2>0, <3>1, <3>2, LabelNears
  <2>3. CASE Return(c, "client_error")
    <3>1. pc'[c] = "idle"
      BY <1>0, <2>3 DEF Return, Goto
    <3> QED
      BY <2>0, <3>1, LeavingNears
  <2>4. CASE RetryLimited(c) \/ RetryTransient(c)
    BY <2>0, <2>4, RetryNears
  <2> QED
    BY <1>6, <2>1, <2>2, <2>3, <2>4, Zenon DEF AskPrimary
<1>7. ASSUME NEW reply \in Replies, AskFallback(c, reply) PROVE CallNearer(c)
  <2>0. pc[c] = "fallback"
    BY <1>7 DEF AskFallback
  <2>1. CASE Answer(c, reply)
    BY <2>0, <2>1, AnswerNears
  <2>2. CASE Return(c, "client_error")
    <3>1. pc'[c] = "idle"
      BY <1>0, <2>2 DEF Return, Goto
    <3> QED
      BY <2>0, <3>1, LeavingNears
  <2>3. CASE RetryLimited(c) \/ RetryTransient(c)
    BY <2>0, <2>3, RetryNears
  <2> QED
    BY <1>7, <2>1, <2>2, <2>3, Zenon DEF AskFallback
<1> QED
  BY <1>1, <1>2, <1>3, <1>4, <1>5, <1>6, <1>7, Zenon DEF CallStep, Ask

\* The steps of one caller leave the counters and the label of the others alone.
LEMMA OthersWait ==
  ASSUME IInv, NEW c \in Callers, NEW d \in Callers, d # c, Begin(d) \/ CallStep(d)
  PROVE  CallStill(c)
<1>0. /\ pc \in [Callers -> Labels] /\ transient \in [Callers -> 0..MaxTransient]
      /\ limited \in [Callers -> 0..MaxLimited]
  BY DEF IInv, NumbersOK
<1>1. pc'[c] = pc[c] /\ transient'[c] = transient[c] /\ limited'[c] = limited[c]
  <2>1. CASE Begin(d) \/ Wake(d) \/ Check(d) \/ Bench(d) \/ RecordAt(d) \/ RecordMessage(d)
    BY <1>0, <2>1 DEF Begin, Wake, Check, Bench, RecordAt, RecordMessage, Continue, Return, Goto,
       retry
  <2>2. CASE Ask(d)
    BY <1>0, <2>2 DEF Ask, AskPrimary, AskFallback, Answer, RetryTransient, RetryLimited,
       Continue, Return, Goto, retry
  <2> QED
    BY <2>1, <2>2 DEF CallStep
<1> QED
  BY <1>1 DEF CallStill, InCall, Retries, Stage

\* Every scoring call gets on: each of its steps lowers what it has left to do, which is a
\* tuple of naturals, and nothing that other threads, the operator, Redis or the clock do
\* raises it (the retry loop of llm_providers/__init__.py:110-144 around call_model).
THEOREM CallsAreFinite == Spec => []CallMeasured /\ [][CallsGetOn]_vars
<1>1. IInv => CallMeasured
  <2>1. ASSUME NEW c \in Callers, IInv PROVE Retries(c) \in Nat
    BY <2>1 DEF IInv, NumbersOK, Retries
  <2>2. ASSUME NEW c \in Callers PROVE Stage(c) \in Nat
    BY DEF Stage
  <2> QED
    BY <2>1, <2>2 DEF CallMeasured
<1>2. ASSUME IInv, Next PROVE CallsGetOn
  <2> SUFFICES ASSUME NEW c \in Callers
               PROVE  /\ Begin(c) \/ CallNearer(c) \/ CallStill(c)
                      /\ CallStep(c) => CallNearer(c)
    BY Zenon DEF CallsGetOn
  <2>1. CallStep(c) => CallNearer(c)
    BY <1>2, CallStepNears
  <2>2. ASSUME NEW d \in Callers, Begin(d) \/ CallStep(d)
        PROVE  Begin(c) \/ CallNearer(c) \/ CallStill(c)
    BY <1>2, <2>1, <2>2, OthersWait
  <2>3. CASE ResetBillingStatus \/ Tick
    <3>1. UNCHANGED <<pc, transient, limited>>
      BY <2>3 DEF ResetBillingStatus, Tick, retry
    <3>2. CallStill(c)
      BY <3>1 DEF CallStill, InCall, Retries, Stage
    <3> QED
      BY <2>1, <3>2
  <2> QED
    BY <1>2, <2>1, <2>2, <2>3, Zenon DEF Next
<1> QED
  BY Inductive, <1>1, <1>2, PTL DEF Spec
=============================================================================

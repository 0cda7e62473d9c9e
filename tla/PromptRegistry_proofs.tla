----------------------- MODULE PromptRegistry_proofs -----------------------
(***************************************************************************)
(* What the history of the alias and the registered variants are worth,    *)
(* for any number of readers, operators, files and deploys.                *)
(***************************************************************************)
EXTENDS PromptRegistry, SequenceTheorems, FiniteSetTheorems, TLAPS

-----------------------------------------------------------------------------
(* The inductive invariant: what a thread knows of the past of the alias.  *)

Was(v) == \E i \in 1..Len(timeline) : timeline[i] = v

\* The alias has been `to`, and `from` before that (unless there was nothing before).
Told(from, to) ==
    \E j \in 1..Len(timeline) :
        /\ timeline[j] = to
        /\ from # 0 => \E i \in 1..(j - 1) : timeline[i] = from

Holding == {"previous", "set", "stamp", "insert"}

ThreadInv(t) ==
    /\ pc[t] \in Holding => ver[t] # 0
    /\ prev[t] # 0 => Was(prev[t])
    /\ pc[t] \in {"stamp", "insert"} => Told(prev[t], ver[t])

IInv ==
    /\ TypeOK
    /\ alias # 0 => Was(alias)
    /\ \A t \in Threads : ThreadInv(t)
    /\ \A h \in rows : Told(h.from_version, h.to_version)

-----------------------------------------------------------------------------
(* The alias moves: everything told before stays told.                     *)

LEMMA Appended ==
  ASSUME NEW S, NEW s \in Seq(S), NEW v
  PROVE  /\ Append(s, v) \in Seq(S \cup {v})
         /\ Len(Append(s, v)) = Len(s) + 1
         /\ \A i \in 1..Len(s) : Append(s, v)[i] = s[i]
         /\ Append(s, v)[Len(s) + 1] = v
<1>1. s \in Seq(S \cup {v})
  BY SeqMonotonic
<1>2. QED
  BY <1>1, AppendProperties

LEMMA TimelineGrows ==
  ASSUME TypeOK, NEW v \in Nat, timeline' = Append(timeline, v)
  PROVE  /\ Was(v)'
         /\ \A x : Was(x) => Was(x)'
         /\ \A x, y : Told(x, y) => Told(x, y)'
         /\ \A x : (x # 0 => Was(x)) => Told(x, v)'
<1> DEFINE n == Len(timeline)
<1>1. /\ n \in Nat /\ Len(timeline') = n + 1
      /\ \A i \in 1..n : timeline'[i] = timeline[i]
      /\ timeline'[n + 1] = v
  BY Appended, LenProperties DEF TypeOK
<1> HIDE DEF n
<1>2. Was(v)' /\ \A x : Was(x) => Was(x)'
  BY <1>1 DEF Was, n
<1>3. ASSUME NEW x, NEW y, Told(x, y) PROVE Told(x, y)'
  <2>1. PICK j \in 1..n : timeline[j] = y /\ (x # 0 => \E i \in 1..(j - 1) : timeline[i] = x)
    BY <1>3 DEF Told, n
  <2>2. j \in 1..(n + 1) /\ timeline'[j] = y
    BY <1>1, <2>1
  <2>3. ASSUME x # 0 PROVE \E i \in 1..(j - 1) : timeline'[i] = x
    <3>1. PICK i \in 1..(j - 1) : timeline[i] = x
      BY <2>1, <2>3
    <3>2. i \in 1..n
      BY <1>1, <3>1
    <3>3. QED
      BY <1>1, <3>1, <3>2
  <2>4. QED
    BY <1>1, <2>2, <2>3 DEF Told
<1>4. ASSUME NEW x, x # 0 => Was(x) PROVE Told(x, v)'
  <2>1. n + 1 \in 1..(n + 1) /\ (n + 1) - 1 = n
    BY <1>1
  <2>2. x # 0 => \E i \in 1..n : timeline'[i] = x
    BY <1>1, <1>4 DEF Was, n
  <2>3. QED
    BY <1>1, <2>1, <2>2 DEF Told
<1>5. QED
  BY <1>2, <1>3, <1>4

\* Nothing is told, and nothing changes for a thread that keeps its locals, when the
\* alias stays.
LEMMA TimelineStays ==
  ASSUME timeline' = timeline
  PROVE  /\ \A x : Was(x)' <=> Was(x)
         /\ \A x, y : Told(x, y)' <=> Told(x, y)
  BY DEF Was, Told

LEMMA ToldIsRegistered ==
  ASSUME TypeOK, NEW x, NEW y, Told(x, y), x # 0
  PROVE  x \in 1..Len(versions)
<1>1. PICK j \in 1..Len(timeline) : \E i \in 1..(j - 1) : timeline[i] = x
  BY DEF Told
<1>2. PICK i \in 1..(j - 1) : timeline[i] = x
  BY <1>1
<1>3. i \in 1..Len(timeline)
  BY <1>1, <1>2, LenProperties DEF TypeOK
<1>4. QED
  BY <1>2, <1>3, ElementOfSeq DEF TypeOK

-----------------------------------------------------------------------------
(* Types.                                                                  *)

LEMMA OnDiskType == ASSUME TypeOK, NEW f \in Files PROVE OnDisk(f) \in Templates
  BY DEF TypeOK, OnDisk, Templates

LEMMA VariantIsFile ==
  ASSUME NEW i \in 1..Len(Variants)
  PROVE  Variants[i] \in Files /\ Variants[i] # Bootstrap
  BY FileAssumption, ElementOfSeq

\* A version is added at the end; what refers to versions still does.
LEMMA VersionsGrow ==
  ASSUME TypeOK, NEW template \in Templates, versions' = Append(versions, template)
  PROVE  /\ versions' \in Seq(Templates)
         /\ Len(versions) \in Nat
         /\ Len(versions') = Len(versions) + 1
         /\ \A i \in 1..Len(versions) : versions'[i] = versions[i]
         /\ versions'[Len(versions) + 1] = template
         /\ timeline \in Seq(1..Len(versions'))
<1>1. /\ versions' \in Seq(Templates)
      /\ Len(versions) \in Nat
      /\ Len(versions') = Len(versions) + 1
      /\ \A i \in 1..Len(versions) : versions'[i] = versions[i]
      /\ versions'[Len(versions) + 1] = template
  BY AppendProperties, LenProperties DEF TypeOK
<1>2. 1..Len(versions) \subseteq 1..Len(versions')
  BY <1>1
<1>3. QED
  BY <1>1, <1>2, SeqMonotonic DEF TypeOK

LEMMA StartupTypes ==
  ASSUME TypeOK, Deploy \/ SyncVariant \/ Serve \/ Crash
  PROVE  TypeOK'
<1> USE DEF TypeOK, startup, locals
<1>0. 1 \in 1..(Len(Variants) + 1) /\ Len(Variants) \in Nat /\ Len(versions) \in Nat
  BY FileAssumption, LenProperties
<1>1. CASE Deploy
  <2>1. disk' \in [Files -> Texts]
    BY <1>1, FileAssumption DEF Deploy
  <2>2. known' \subseteq Templates
    BY <1>1, ElementOfSeq DEF Deploy, Registered
  <2>3. QED
    BY <1>0, <1>1, <2>1, <2>2 DEF Deploy
<1>2. CASE SyncVariant
  <2>0. OnDisk(Variants[at]) \in Templates /\ at' \in 1..(Len(Variants) + 1)
    BY <1>0, <1>2, OnDiskType, VariantIsFile DEF SyncVariant
  <2>1. CASE IsNew(OnDisk(Variants[at]))
    <3>1. versions' = Append(versions, OnDisk(Variants[at]))
          /\ known' = known \cup {OnDisk(Variants[at])}
      BY <1>2, <2>1 DEF SyncVariant
    <3>2. /\ versions' \in Seq(Templates) /\ Len(versions') = Len(versions) + 1
          /\ timeline \in Seq(1..Len(versions'))
      BY <2>0, <3>1, VersionsGrow
    <3>3. 0..Len(versions) \subseteq 0..Len(versions')
      BY <1>0, <3>2
    <3>4. QED
      BY <1>2, <2>0, <3>1, <3>2, <3>3 DEF SyncVariant
  <2>2. CASE ~IsNew(OnDisk(Variants[at]))
    BY <1>2, <2>0, <2>2 DEF SyncVariant
  <2>3. QED
    BY <2>1, <2>2
<1>3. CASE Serve
  BY <1>0, <1>3 DEF Serve
<1>4. CASE Crash
  BY <1>0, <1>4 DEF Crash, Quiet
<1>5. QED
  BY <1>1, <1>2, <1>3, <1>4

LEMMA ReaderTypes ==
  ASSUME TypeOK, NEW r \in Threads, ReadUnaliased(r) \/ Register(r)
  PROVE  TypeOK'
<1> USE DEF TypeOK, startup, Goto
<1>1. CASE ReadUnaliased(r)
  BY <1>1 DEF ReadUnaliased
<1>2. CASE Register(r)
  <2>1. OnDisk(Bootstrap) \in Templates
    BY OnDiskType DEF Files
  <2>2. /\ versions' \in Seq(Templates) /\ Len(versions') = Len(versions) + 1
        /\ Len(versions) \in Nat /\ timeline \in Seq(1..Len(versions'))
    BY <1>2, <2>1, VersionsGrow DEF Register
  <2>3. 0..Len(versions) \subseteq 0..Len(versions') /\ Len(versions) + 1 \in 0..Len(versions')
    BY <2>2
  <2>4. QED
    BY <1>2, <2>2, <2>3 DEF Register
<1>3. QED
  BY <1>1, <1>2

LEMMA OperatorTypes ==
  ASSUME IInv, NEW o \in Threads, Promote(o) \/ Revert(o) \/ Previous(o)
  PROVE  TypeOK'
<1> USE DEF TypeOK, startup, Goto
<1>0. TypeOK /\ Len(versions) \in Nat
  BY LenProperties DEF IInv
<1>1. ASSUME NEW v \in 1..Len(versions), Begin(o, v) PROVE TypeOK'
  <2>1. v \in 0..Len(versions)
    BY <1>0
  <2>2. QED
    BY <1>0, <1>1, <2>1 DEF Begin
<1>2. CASE Promote(o)
  BY <1>1, <1>2 DEF Promote
<1>3. CASE Revert(o)
  BY <1>0, <1>1, <1>3, ToldIsRegistered DEF Revert, LastChange, IInv
<1>4. CASE Previous(o)
  BY <1>0, <1>4 DEF Previous
<1>5. QED
  BY <1>2, <1>3, <1>4

LEMMA MoveTypes ==
  ASSUME IInv, NEW t \in Threads, SetAlias(t) \/ Stamp(t) \/ RecordHistoryEntry(t) \/ Fail(t)
  PROVE  TypeOK'
<1> USE DEF TypeOK, startup, Goto
<1>0. TypeOK /\ Len(versions) \in Nat
  BY LenProperties DEF IInv
<1>1. CASE SetAlias(t)
  <2>1. ver[t] \in 1..Len(versions)
    BY <1>0, <1>1 DEF IInv, ThreadInv, Holding, SetAlias
  <2>2. timeline' \in Seq(1..Len(versions))
    BY <1>0, <1>1, <2>1, AppendProperties DEF SetAlias
  <2>3. QED
    BY <1>0, <1>1, <2>1, <2>2 DEF SetAlias
<1>2. CASE Stamp(t)
  BY <1>0, <1>2 DEF Stamp
<1>3. CASE RecordHistoryEntry(t)
  <2>1. [changed_at |-> stamp[t], from_version |-> prev[t], to_version |-> ver[t]] \in Entries
    BY <1>0 DEF Entries
  <2>2. QED
    BY <1>0, <1>3, <2>1 DEF RecordHistoryEntry, Return
<1>4. CASE Fail(t)
  BY <1>0, <1>4 DEF Fail, Return
<1>5. QED
  BY <1>1, <1>2, <1>3, <1>4

LEMMA TypeStep == ASSUME IInv, [Next]_vars PROVE TypeOK'
<1>1. CASE UNCHANGED vars
  BY <1>1 DEF IInv, TypeOK, vars
<1>2. CASE Next
  BY <1>2, StartupTypes, ReaderTypes, OperatorTypes, MoveTypes DEF Next, Threads, IInv
<1>3. QED
  BY <1>1, <1>2

-----------------------------------------------------------------------------
(* The history.                                                            *)

\* A step of thread t alone: the others keep what they know.
Alone(t) ==
    \A s \in Threads \ {t} : pc'[s] = pc[s] /\ ver'[s] = ver[s] /\ prev'[s] = prev[s]

LEMMA AliasMoves ==
  ASSUME IInv, NEW t \in Threads, SetAlias(t)
  PROVE  /\ Was(alias)'
         /\ \A s \in Threads : ThreadInv(s)'
         /\ \A h \in rows' : Told(h.from_version, h.to_version)'
<1>0. TypeOK /\ ver[t] \in Nat /\ timeline' = Append(timeline, ver[t]) /\ alias' = ver[t]
      /\ rows' = rows /\ ver' = ver /\ prev' = prev /\ pc' = [pc EXCEPT ![t] = "stamp"]
  BY LenProperties DEF IInv, TypeOK, SetAlias, Goto
<1>1. /\ Was(ver[t])'
      /\ \A x : Was(x) => Was(x)'
      /\ \A x, y : Told(x, y) => Told(x, y)'
      /\ \A x : (x # 0 => Was(x)) => Told(x, ver[t])'
  BY <1>0, TimelineGrows
<1>2. Was(alias)'
  BY <1>0, <1>1 DEF Was
<1>3. ASSUME NEW s \in Threads PROVE ThreadInv(s)'
  <2>1. ThreadInv(s) /\ pc[t] = "set"
    BY DEF IInv, SetAlias
  <2>2. PICK x, y : x = prev[s] /\ y = ver[s] /\ x = prev'[s] /\ y = ver'[s]
    BY <1>0
  <2>3. x # 0 => Was(x)'
    BY <1>1, <2>1, <2>2 DEF ThreadInv
  <2>4. pc'[s] \in {"stamp", "insert"} => Told(x, y)'
    <3>1. CASE s = t
      BY <1>1, <2>1, <2>2, <3>1 DEF ThreadInv
    <3>2. CASE s # t
      BY <1>0, <1>1, <2>1, <2>2, <3>2 DEF ThreadInv, TypeOK
    <3>3. QED
      BY <3>1, <3>2
  <2>5. pc'[s] \in Holding => y # 0
    BY <1>0, <2>1, <2>2 DEF ThreadInv, TypeOK, Holding
  <2>6. QED
    BY <2>2, <2>3, <2>4, <2>5 DEF ThreadInv, Was, Told
<1>4. \A h \in rows' : Told(h.from_version, h.to_version)'
  BY <1>0, <1>1 DEF IInv, Told
<1>5. QED
  BY <1>2, <1>3, <1>4

\* While the alias stays, a thread that keeps its locals knows what it knew.
LEMMA Unmoved ==
  ASSUME IInv, timeline' = timeline, NEW t, Alone(t)
  PROVE  \A s \in Threads \ {t} : ThreadInv(s)'
  BY TimelineStays DEF IInv, ThreadInv, Alone, Was, Told

LEMMA ReadersKnow ==
  ASSUME IInv, NEW r \in Threads, ReadUnaliased(r) \/ Register(r)
  PROVE  /\ alias' = alias /\ timeline' = timeline /\ rows' = rows
         /\ \A s \in Threads : ThreadInv(s)'
<1>1. TypeOK /\ ThreadInv(r) /\ Len(versions) \in Nat
  BY LenProperties DEF IInv, TypeOK
<1>2. /\ alias' = alias /\ timeline' = timeline /\ rows' = rows /\ prev' = prev
      /\ pc'[r] \in {"register", "set"} /\ (pc'[r] = "set" => ver'[r] # 0)
      /\ Alone(r)
  BY <1>1 DEF ReadUnaliased, Register, Goto, TypeOK, Alone
<1>3. ThreadInv(r)'
  BY <1>1, <1>2 DEF ThreadInv, Holding, Was
<1>4. QED
  BY <1>2, <1>3, Unmoved

LEMMA OperatorsKnow ==
  ASSUME IInv, NEW o \in Threads, Promote(o) \/ Revert(o) \/ Previous(o)
  PROVE  /\ alias' = alias /\ timeline' = timeline /\ rows' = rows
         /\ \A s \in Threads : ThreadInv(s)'
<1>0. TypeOK /\ ThreadInv(o) /\ Len(versions) \in Nat
  BY LenProperties DEF IInv, TypeOK
<1>1. ASSUME NEW v, v # 0, Begin(o, v)
      PROVE  /\ alias' = alias /\ timeline' = timeline /\ rows' = rows
             /\ \A s \in Threads : ThreadInv(s)'
  <2>1. /\ alias' = alias /\ timeline' = timeline /\ rows' = rows /\ prev' = prev
        /\ pc'[o] = "previous" /\ ver'[o] = v /\ Alone(o)
    BY <1>0, <1>1 DEF Begin, Goto, TypeOK, Alone
  <2>2. ThreadInv(o)'
    BY <1>0, <1>1, <2>1 DEF ThreadInv, Was
  <2>3. QED
    BY <2>1, <2>2, Unmoved
<1>2. CASE Promote(o)
  <2>1. PICK v \in 1..Len(versions) : Begin(o, v)
    BY <1>2 DEF Promote
  <2>2. v # 0
    OBVIOUS
  <2>3. QED
    BY <1>1, <2>1, <2>2
<1>3. CASE Revert(o)
  BY <1>1, <1>3 DEF Revert
<1>4. CASE Previous(o)
  <2>1. /\ alias' = alias /\ timeline' = timeline /\ rows' = rows
        /\ pc[o] = "previous" /\ pc'[o] = "set" /\ ver' = ver /\ prev'[o] = alias /\ Alone(o)
    BY <1>0, <1>4 DEF Previous, Goto, TypeOK, Alone
  <2>2. ThreadInv(o)'
    BY <1>0, <2>1 DEF IInv, ThreadInv, Holding, Was
  <2>3. QED
    BY <2>1, <2>2, Unmoved
<1>5. QED
  BY <1>2, <1>3, <1>4

LEMMA RecordersKnow ==
  ASSUME IInv, NEW t \in Threads, Stamp(t) \/ RecordHistoryEntry(t) \/ Fail(t)
  PROVE  /\ alias' = alias /\ timeline' = timeline
         /\ \A s \in Threads : ThreadInv(s)'
         /\ \A h \in rows' : Told(h.from_version, h.to_version)
<1>0. TypeOK /\ ThreadInv(t)
  BY DEF IInv
<1>1. /\ alias' = alias /\ timeline' = timeline /\ Alone(t)
      /\ \/ pc[t] = "stamp" /\ pc'[t] = "insert" /\ ver' = ver /\ prev' = prev
         \/ pc'[t] = "idle" /\ ver'[t] = 0 /\ prev'[t] = 0
  BY <1>0 DEF Stamp, RecordHistoryEntry, Fail, Return, Goto, TypeOK, Alone
<1>2. ThreadInv(t)'
  BY <1>0, <1>1 DEF ThreadInv, Holding, Was, Told
<1>3. \A h \in rows' : Told(h.from_version, h.to_version)
  <2>1. CASE RecordHistoryEntry(t)
    <3>1. Told(prev[t], ver[t])
      BY <1>0, <2>1 DEF ThreadInv, RecordHistoryEntry
    <3>2. QED
      BY <2>1, <3>1 DEF IInv, RecordHistoryEntry
  <2>2. CASE Stamp(t) \/ Fail(t)
    BY <2>2 DEF IInv, Stamp, Fail
  <2>3. QED
    BY <2>1, <2>2
<1>4. QED
  BY <1>1, <1>2, <1>3, Unmoved

LEMMA StartupKnows ==
  ASSUME IInv, Deploy \/ SyncVariant \/ Serve \/ Crash
  PROVE  /\ alias' = alias /\ timeline' = timeline /\ rows' = rows
         /\ \A s \in Threads : ThreadInv(s)'
<1>1. CASE Deploy \/ SyncVariant \/ Serve
  <2>1. alias' = alias /\ timeline' = timeline /\ rows' = rows /\ pc' = pc /\ ver' = ver /\ prev' = prev
    BY <1>1 DEF Deploy, SyncVariant, Serve, locals
  <2>2. QED
    BY <2>1 DEF IInv, ThreadInv, Was, Told
<1>2. CASE Crash
  BY <1>2 DEF Crash, Quiet, ThreadInv, Holding
<1>3. QED
  BY <1>1, <1>2

LEMMA Step == ASSUME IInv, [Next]_vars PROVE IInv'
<1>1. CASE \E t \in Threads : SetAlias(t)
  BY <1>1, AliasMoves, TypeStep DEF IInv
<1>2. CASE ~\E t \in Threads : SetAlias(t)
  <2>1. /\ alias' = alias /\ timeline' = timeline
        /\ \A s \in Threads : ThreadInv(s)'
        /\ \A h \in rows' : Told(h.from_version, h.to_version)
    <3>1. CASE UNCHANGED vars
      BY <3>1 DEF vars, IInv, ThreadInv, Was, Told
    <3>2. CASE Next
      BY <1>2, <3>2, ReadersKnow, OperatorsKnow, RecordersKnow, StartupKnows
         DEF Next, Threads, IInv
    <3>3. QED
      BY <3>1, <3>2
  <2>2. QED
    BY <2>1, TypeStep DEF IInv, Was, Told
<1>3. QED
  BY <1>1, <1>2

\* Types, and what each thread knows of the alias: its previous_version was live some
\* time, and once it has moved the alias, before that move.
THEOREM Inductive == Spec => []IInv
<1>1. Init => IInv
  <2> SUFFICES ASSUME Init PROVE IInv
    OBVIOUS
  <2>1. TypeOK
    BY FileAssumption, EmptySeq DEF Init, TypeOK, Quiet
  <2>2. QED
    BY <2>1 DEF Init, IInv, ThreadInv, Quiet, Holding
<1>2. IInv /\ [Next]_vars => IInv'
  BY Step
<1>3. QED
  BY <1>1, <1>2, PTL DEF Spec

\* Every variable keeps its type: no alias and no request names a version that is not
\* registered.
THEOREM TypeCorrect == Spec => []TypeOK
<1>1. IInv => TypeOK
  BY DEF IInv
<1>2. QED
  BY <1>1, Inductive, PTL

\* The history tells of moves the alias really made, in their order, for any number of
\* concurrent requests and bootstraps, failed calls and redeploys.
THEOREM HistoryIsTrue == Spec => []HistoryTruthful
<1>1. IInv => HistoryTruthful
  BY DEF IInv, Told, HistoryTruthful
<1>2. QED
  BY <1>1, Inductive, PTL

-----------------------------------------------------------------------------
(* The variants: a startup knows every variant that is registered, readers *)
(* add versions of the bootstrap file only.                                *)

VariantsKnown ==
    boot = "sync" =>
        \A i \in 1..Len(versions) : versions[i][1] # Bootstrap => versions[i] \in known

LEMMA VersionAdded ==
  ASSUME TypeOK, VariantsOnce, NEW template \in Templates, versions' = Append(versions, template),
         \A i \in 1..Len(versions) :
             versions[i][1] # Bootstrap /\ template[1] # Bootstrap => versions[i] # template
  PROVE  VariantsOnce'
<1>1. /\ Len(versions) \in Nat /\ Len(versions') = Len(versions) + 1
      /\ \A i \in 1..Len(versions) : versions'[i] = versions[i]
      /\ versions'[Len(versions) + 1] = template
  BY VersionsGrow
<1>2. SUFFICES ASSUME NEW i \in 1..Len(versions'), NEW j \in 1..Len(versions'),
                      versions'[i] = versions'[j], versions'[i][1] # Bootstrap
               PROVE  i = j
  BY DEF VariantsOnce
<1>3. /\ i \in 1..Len(versions) \/ i = Len(versions) + 1
      /\ j \in 1..Len(versions) \/ j = Len(versions) + 1
  BY <1>1, <1>2
<1>4. CASE i \in 1..Len(versions) /\ j \in 1..Len(versions)
  BY <1>1, <1>2, <1>4 DEF VariantsOnce
<1>5. CASE i \in 1..Len(versions) /\ j = Len(versions) + 1
  BY <1>1, <1>2, <1>5
<1>6. CASE i = Len(versions) + 1 /\ j \in 1..Len(versions)
  BY <1>1, <1>2, <1>6
<1>7. QED
  BY <1>3, <1>4, <1>5, <1>6

\* Any number of redeploys, each cut off anywhere, register a text of a variant once.
THEOREM VariantsRegisteredOnce == Spec => []VariantsOnce
<1> DEFINE Inv == VariantsOnce /\ VariantsKnown
<1>1. Init => Inv
  BY DEF Init, VariantsOnce, VariantsKnown
<1>2. TypeOK /\ Inv /\ [Next]_vars => Inv'
  <2> SUFFICES ASSUME TypeOK, VariantsOnce, VariantsKnown, [Next]_vars
               PROVE  VariantsOnce' /\ VariantsKnown'
    OBVIOUS
  <2>1. CASE SyncVariant
    <3> DEFINE template == OnDisk(Variants[at])
    <3>1. template \in Templates
      <4>1. at \in 1..Len(Variants)
        BY <2>1, FileAssumption, LenProperties DEF TypeOK, SyncVariant
      <4>2. QED
        BY <4>1, OnDiskType, VariantIsFile
    <3>2. CASE IsNew(template)
      <4>1. boot' = boot /\ boot = "sync" /\ versions' = Append(versions, template)
            /\ known' = known \cup {template} /\ template \notin known
        BY <2>1, <3>2 DEF SyncVariant, IsNew
      <4>2. \A i \in 1..Len(versions) : versions[i][1] # Bootstrap => versions[i] \in known
        BY <4>1 DEF VariantsKnown
      <4>3. VariantsOnce'
        BY <3>1, <4>1, <4>2, VersionAdded
      <4>4. VariantsKnown'
        <5>1. /\ Len(versions) \in Nat /\ Len(versions') = Len(versions) + 1
              /\ \A i \in 1..Len(versions) : versions'[i] = versions[i]
              /\ versions'[Len(versions) + 1] = template
          BY <3>1, <4>1, VersionsGrow
        <5>2. \A i \in 1..Len(versions') : i \in 1..Len(versions) \/ i = Len(versions) + 1
          BY <5>1
        <5>3. QED
          BY <4>1, <4>2, <5>1, <5>2 DEF VariantsKnown
      <4>5. QED
        BY <4>3, <4>4
    <3>3. CASE ~IsNew(template)
      BY <2>1, <3>3 DEF SyncVariant, VariantsOnce, VariantsKnown
    <3>4. QED
      BY <3>2, <3>3
  <2>2. ASSUME NEW r \in Readers, Register(r) PROVE VariantsOnce' /\ VariantsKnown'
    <3> DEFINE template == OnDisk(Bootstrap)
    <3>1. template \in Templates /\ template[1] = Bootstrap
      BY OnDiskType DEF Files, OnDisk
    <3>2. versions' = Append(versions, template) /\ boot' = boot /\ known' = known
      BY <2>2 DEF Register, startup
    <3>3. VariantsOnce'
      BY <3>1, <3>2, VersionAdded
    <3>4. /\ Len(versions) \in Nat /\ Len(versions') = Len(versions) + 1
          /\ \A i \in 1..Len(versions) : versions'[i] = versions[i]
          /\ versions'[Len(versions) + 1] = template
      BY <3>1, <3>2, VersionsGrow
    <3>5. \A i \in 1..Len(versions') : i \in 1..Len(versions) \/ i = Len(versions) + 1
      BY <3>4
    <3>6. QED
      BY <3>1, <3>2, <3>3, <3>4, <3>5 DEF VariantsKnown
  <2>3. CASE Deploy
    BY <2>3 DEF Deploy, Registered, VariantsOnce, VariantsKnown
  <2>4. CASE ~Deploy /\ ~SyncVariant /\ ~\E r \in Readers : Register(r)
    <3>1. versions' = versions /\ (boot' = "sync" => boot = "sync" /\ known' = known)
      BY <2>4 DEF Next, Serve, Crash, ReadUnaliased, Promote, Revert, Begin, Previous,
                  SetAlias, Stamp, RecordHistoryEntry, Fail, startup, locals, vars
    <3>2. QED
      BY <3>1 DEF VariantsOnce, VariantsKnown
  <2>5. QED
    BY <2>1, <2>2, <2>3, <2>4
<1>3. QED
  BY <1>1, <1>2, TypeCorrect, PTL DEF Spec

-----------------------------------------------------------------------------
(* The number of entries: a thread that has moved the alias and not        *)
(* recorded it weighs as much as an entry.                                 *)

Moved == {t \in Threads : pc[t] \in {"stamp", "insert"}}

Counted ==
    /\ IsFiniteSet(rows)
    /\ Cardinality(rows) + Cardinality(Moved) <= Len(timeline)

LEMMA MovedIsFinite ==
  /\ IsFiniteSet(Moved) /\ Cardinality(Moved) \in Nat
  /\ IsFiniteSet(Moved') /\ Cardinality(Moved') \in Nat
<1>1. Moved \subseteq Threads /\ Moved' \subseteq Threads
  BY DEF Moved
<1>2. QED
  BY <1>1, ThreadAssumption, FS_Subset, FS_CardinalityType

LEMMA CountedWhenStill ==
  ASSUME TypeOK, Counted, rows' = rows, timeline' = timeline, Moved' \subseteq Moved
  PROVE  Counted'
<1>1. Cardinality(Moved') <= Cardinality(Moved)
  BY MovedIsFinite, FS_Subset
<1>2. Cardinality(rows) \in Nat /\ Len(timeline) \in Nat
  BY FS_CardinalityType, LenProperties DEF Counted, TypeOK
<1>3. QED
  BY <1>1, <1>2, MovedIsFinite DEF Counted

LEMMA CountedWhenMoved ==
  ASSUME TypeOK, Counted, NEW t \in Threads, SetAlias(t)
  PROVE  Counted'
<1>1. rows' = rows /\ pc[t] = "set" /\ pc' = [pc EXCEPT ![t] = "stamp"]
  BY DEF SetAlias, Goto
<1>2. Moved' = Moved \cup {t} /\ t \notin Moved
  BY <1>1 DEF Moved, TypeOK
<1>3. Cardinality(Moved') = Cardinality(Moved) + 1
  BY <1>2, MovedIsFinite, FS_AddElement
<1>4. Len(timeline') = Len(timeline) + 1 /\ Len(timeline) \in Nat
  BY Appended, LenProperties DEF SetAlias, TypeOK
<1>5. Cardinality(rows) \in Nat
  BY FS_CardinalityType DEF Counted
<1>6. QED
  BY <1>1, <1>3, <1>4, <1>5, MovedIsFinite DEF Counted

LEMMA CountedWhenRecorded ==
  ASSUME TypeOK, Counted, NEW t \in Threads, RecordHistoryEntry(t)
  PROVE  Counted'
<1>1. PICK h : rows' = rows \cup {h}
  BY DEF RecordHistoryEntry
<1>2. Moved' = Moved \ {t} /\ t \in Moved
  BY DEF RecordHistoryEntry, Return, Goto, Moved, TypeOK
<1>3. Cardinality(Moved') = Cardinality(Moved) - 1
  BY <1>2, MovedIsFinite, FS_RemoveElement
<1>4. /\ IsFiniteSet(rows') /\ Cardinality(rows) \in Nat /\ Cardinality(rows') \in Nat
      /\ Cardinality(rows') <= Cardinality(rows) + 1
  <2>1. IsFiniteSet(rows) /\ Cardinality(rows) \in Nat
    BY FS_CardinalityType DEF Counted
  <2>2. /\ IsFiniteSet(rows \cup {h})
        /\ Cardinality(rows \cup {h}) = Cardinality(rows)
             \/ Cardinality(rows \cup {h}) = Cardinality(rows) + 1
    BY <2>1, FS_AddElement
  <2>3. QED
    BY <1>1, <2>1, <2>2
<1>5. timeline' = timeline /\ Len(timeline) \in Nat
  BY LenProperties DEF RecordHistoryEntry, TypeOK
<1>6. QED
  BY <1>3, <1>4, <1>5, MovedIsFinite DEF Counted

\* No request is recorded without a move of its own, for any number of them.
THEOREM RecordsHaveMoves == Spec => []NoPhantomRecord
<1>1. Init => Counted
  <2> SUFFICES ASSUME Init PROVE Counted
    OBVIOUS
  <2>1. rows = {} /\ Moved = {} /\ timeline = <<>>
    BY DEF Init, Moved
  <2>2. QED
    BY <2>1, FS_EmptySet DEF Counted
<1>2. TypeOK /\ Counted /\ [Next]_vars => Counted'
  <2> SUFFICES ASSUME TypeOK, Counted, [Next]_vars PROVE Counted'
    OBVIOUS
  <2>1. CASE \E t \in Threads : SetAlias(t) \/ RecordHistoryEntry(t)
    BY <2>1, CountedWhenMoved, CountedWhenRecorded
  <2>2. CASE ~\E t \in Threads : SetAlias(t) \/ RecordHistoryEntry(t)
    <3>1. rows' = rows /\ timeline' = timeline
      BY <2>2 DEF Next, Deploy, SyncVariant, Serve, Crash, ReadUnaliased, Register, Promote,
                  Revert, Begin, Previous, Stamp, Fail, vars
    <3>2. Moved' \subseteq Moved
      <4>1. ASSUME NEW t \in Threads, Stamp(t) PROVE Moved' \subseteq Moved
        BY <4>1 DEF Stamp, Goto, Moved, TypeOK
      <4>2. ASSUME NEW t \in Threads, NEW x, x \notin {"stamp", "insert"}, Goto(t, x)
            PROVE  Moved' \subseteq Moved
        BY <4>2 DEF Goto, Moved, TypeOK
      <4>3. CASE Crash
        BY <4>3 DEF Crash, Moved
      <4>4. CASE pc' = pc
        BY <4>4 DEF Moved
      <4>5. QED
        BY <2>2, <4>1, <4>2, <4>3, <4>4
           DEF Next, Threads, Deploy, SyncVariant, Serve, ReadUnaliased, Register, Promote, Revert,
               Begin, Previous, Fail, Return, locals, vars
    <3>3. QED
      BY <3>1, <3>2, CountedWhenStill
  <2>3. QED
    BY <2>1, <2>2
<1>3. TypeOK /\ Counted => NoPhantomRecord
  <2> SUFFICES ASSUME TypeOK, Counted PROVE NoPhantomRecord
    OBVIOUS
  <2>1. Cardinality(rows) \in Nat /\ Len(timeline) \in Nat
    BY FS_CardinalityType, LenProperties DEF Counted, TypeOK
  <2>2. QED
    BY <2>1, MovedIsFinite DEF Counted, NoPhantomRecord
<1>4. QED
  BY <1>1, <1>2, <1>3, TypeCorrect, PTL DEF Spec

-----------------------------------------------------------------------------
(* Batch prompts.                                                          *)

\* A version that a thread is about to alias passed the refusal under this deploy.
Passed(v) == IsBatch(v) => versions[v] # OnDisk(versions[v][1])

AllIdle == \A t \in Threads : pc[t] = "idle"

Checked ==
    /\ boot # "up" => AllIdle
    /\ \A t \in Threads : pc[t] \in {"previous", "set"} => Passed(ver[t])

LEMMA PassedKept ==
  ASSUME TypeOK, NEW v \in 1..Len(versions), Passed(v), disk' = disk,
         versions'[v] = versions[v]
  PROVE  Passed(v)'
  BY DEF Passed, IsBatch, OnDisk

\* When the bootstrap file is not a batch prompt (get_active_prompt does not look), a
\* batch prompt goes live only if its text is not the one on disk any more.
THEOREM BatchRefused ==
  ASSUME SidecarMode[Bootstrap] # "batch"
  PROVE  Spec => BatchOnlyWhenEdited
<1>1. Init => Checked
  BY DEF Init, Checked, AllIdle
<1>2. IInv /\ Checked /\ [Next]_vars => Checked'
  <2> SUFFICES ASSUME IInv, Checked, [Next]_vars PROVE Checked'
    OBVIOUS
  <2>0. TypeOK /\ Len(versions) \in Nat
    BY LenProperties DEF IInv, TypeOK
  <2>1. CASE Deploy \/ Crash
    <3>1. (\A t \in Threads : pc'[t] = "idle")
      BY <2>1 DEF Deploy, Crash, Checked, AllIdle, locals
    <3>2. QED
      BY <3>1 DEF Checked, AllIdle
  <2>2. CASE SyncVariant \/ Serve
    <3>1. \A t \in Threads : pc'[t] = "idle"
      BY <2>2 DEF SyncVariant, Serve, Checked, AllIdle, locals
    <3>2. QED
      BY <3>1 DEF Checked, AllIdle
  <2>3. ASSUME NEW t \in Threads, disk' = disk, boot' = boot, boot = "up",
               Alone(t), pc'[t] \in {"previous", "set"} => Passed(ver[t])',
               Len(versions') >= Len(versions),
               \A i \in 1..Len(versions) : versions'[i] = versions[i]
        PROVE  Checked'
    <3>1. ASSUME NEW s \in Threads, s # t, pc'[s] \in {"previous", "set"}
          PROVE  Passed(ver[s])'
      <4>1. PICK v : v = ver[s] /\ v = ver'[s]
        BY <2>3, <3>1 DEF Alone
      <4>2. pc[s] \in {"previous", "set"} /\ Passed(v) /\ v \in 1..Len(versions)
        BY <2>0, <2>3, <3>1, <4>1 DEF Alone, Checked, IInv, ThreadInv, Holding, TypeOK
      <4>3. Passed(v)'
        BY <2>0, <2>3, <4>2, PassedKept
      <4>4. QED
        BY <4>1, <4>3 DEF Passed, IsBatch, OnDisk
    <3>2. QED
      BY <2>3, <3>1 DEF Checked
  <2> DEFINE Calls(t) == SetAlias(t) \/ Stamp(t) \/ RecordHistoryEntry(t) \/ Fail(t)
  <2>4. ASSUME NEW t \in Threads, Calls(t) PROVE Checked'
    <3>1. /\ disk' = disk /\ boot' = boot /\ versions' = versions /\ Alone(t)
          /\ pc[t] # "idle" /\ pc'[t] \notin {"previous", "set"}
      BY <2>0, <2>4 DEF SetAlias, Stamp, RecordHistoryEntry, Fail, Return, Goto, startup, Alone, TypeOK
    <3>2. boot = "up"
      BY <3>1 DEF Checked, AllIdle
    <3>3. QED
      BY <2>0, <2>3, <3>1, <3>2
  <2>5. ASSUME NEW r \in Readers, ReadUnaliased(r) PROVE Checked'
    <3>1. /\ disk' = disk /\ boot' = boot /\ boot = "up" /\ versions' = versions
          /\ Alone(r) /\ pc'[r] = "register" /\ r \in Threads
      BY <2>0, <2>5 DEF ReadUnaliased, Goto, startup, Alone, TypeOK, Threads
    <3>2. QED
      BY <2>0, <2>3, <3>1
  <2>6. ASSUME NEW r \in Readers, Register(r) PROVE Checked'
    <3>1. /\ disk' = disk /\ boot' = boot /\ Alone(r) /\ r \in Threads
          /\ pc[r] = "register" /\ ver'[r] = Len(versions) + 1
          /\ versions' = Append(versions, OnDisk(Bootstrap))
      BY <2>0, <2>6 DEF Register, Goto, startup, Alone, TypeOK, Threads
    <3>2. boot = "up"
      BY <3>1 DEF Checked, AllIdle
    <3>3. OnDisk(Bootstrap) \in Templates /\ OnDisk(Bootstrap)[1] = Bootstrap
      BY <2>0, OnDiskType DEF Files, OnDisk
    <3>4. /\ Len(versions') = Len(versions) + 1
          /\ \A i \in 1..Len(versions) : versions'[i] = versions[i]
          /\ versions'[Len(versions) + 1] = OnDisk(Bootstrap)
      BY <2>0, <3>1, <3>3, VersionsGrow
    <3>5. Passed(ver[r])'
      BY <3>1, <3>3, <3>4 DEF Passed, IsBatch
    <3>6. QED
      BY <2>0, <2>3, <3>1, <3>2, <3>4, <3>5
  <2>7. ASSUME NEW o \in Operators, NEW v, Begin(o, v) PROVE Checked'
    <3>1. /\ disk' = disk /\ boot' = boot /\ boot = "up" /\ versions' = versions
          /\ Alone(o) /\ ver'[o] = v /\ o \in Threads /\ MayGoLive(v)
      BY <2>0, <2>7 DEF Begin, Goto, startup, Alone, TypeOK, Threads
    <3>2. Passed(v)
      BY <3>1 DEF MayGoLive, SchemaMode, Passed, IsBatch
    <3>3. Passed(ver[o])'
      BY <3>1, <3>2 DEF Passed, IsBatch, OnDisk
    <3>4. QED
      BY <2>0, <2>3, <3>1, <3>3
  <2>8. ASSUME NEW o \in Operators, Previous(o) PROVE Checked'
    <3>1. /\ disk' = disk /\ boot' = boot /\ versions' = versions
          /\ Alone(o) /\ ver' = ver /\ o \in Threads /\ pc[o] = "previous"
      BY <2>0, <2>8 DEF Previous, Goto, startup, Alone, TypeOK, Threads
    <3>2. boot = "up" /\ Passed(ver[o])
      BY <3>1 DEF Checked, AllIdle
    <3>3. Passed(ver[o])'
      BY <3>1, <3>2 DEF Passed, IsBatch, OnDisk
    <3>4. QED
      BY <2>0, <2>3, <3>1, <3>2, <3>3
  <2>9. CASE UNCHANGED vars
    BY <2>9 DEF vars, Checked, AllIdle, Passed, IsBatch, OnDisk
  <2>10. QED
    BY <2>1, <2>2, <2>4, <2>5, <2>6, <2>7, <2>8, <2>9 DEF Next, Promote, Revert
<1>3. IInv /\ Checked /\ [Next]_vars =>
        [alias' # alias /\ IsBatch(alias)' => (versions[alias] # OnDisk(versions[alias][1]))']_vars
  <2> SUFFICES ASSUME IInv, Checked, [Next]_vars, alias' # alias, IsBatch(alias)'
               PROVE  (versions[alias] # OnDisk(versions[alias][1]))'
    OBVIOUS
  <2>1. PICK t \in Threads : SetAlias(t)
    BY DEF Next, Deploy, SyncVariant, Serve, Crash, ReadUnaliased, Register, Promote, Revert,
           Begin, Previous, Stamp, RecordHistoryEntry, Fail, vars
  <2>2. Passed(ver[t]) /\ alias' = ver[t] /\ versions' = versions /\ disk' = disk
    BY <2>1 DEF Checked, SetAlias, startup
  <2>3. QED
    BY <2>2 DEF Passed, IsBatch, OnDisk
<1>4. QED
  BY <1>1, <1>2, <1>3, Inductive, PTL DEF Spec, BatchOnlyWhenEdited
=============================================================================

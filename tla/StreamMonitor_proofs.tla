------------------------ MODULE StreamMonitor_proofs ------------------------
(***************************************************************************)
(* Proofs about StreamMonitor: for any levels, windows, batch sizes and    *)
(* bounds, a server applies the entries of a stream one after the other,   *)
(* and a dashboard that has read what it was told, once it had data, shows *)
(* all of it.                                                              *)
(***************************************************************************)
EXTENDS StreamMonitor, SequenceTheorems, FiniteSetTheorems, WellFoundedInduction, TLAPS

USE MonitorAssumption

(***************************************************************************)
(* The inductive invariant                                                 *)
(***************************************************************************)
LogEntry == [at : 0..MaxClock, level : Levels]

LogOK ==
    /\ log \in [Streams -> Seq(LogEntry)]
    /\ clock \in 0..MaxClock
    /\ Len(log["web"]) + Len(log["jds"]) <= MaxEntries

\* What is remembered of the streams is in them.
PollerOK ==
    /\ pc \in {"seed", "poll", "blocked", "apply", "sleep"}
    /\ seeding \in 0..2
    /\ cursor \in [Streams -> Nat]
    /\ \A s \in Streams : cursor[s] <= Len(log[s])
    /\ todo \in Seq(Entries)
    /\ \A i \in DOMAIN todo : todo[i][2] <= Len(log[todo[i][1]])
    /\ pc \in {"poll", "blocked", "sleep"} => todo = <<>>
    /\ pc = "blocked" =>
          /\ asked \in [Streams -> Nat]
          /\ \A s \in Streams : /\ asked[s] <= Len(log[s])
                                /\ cursor[s] # 0 => asked[s] = cursor[s]

\* While it seeds, what is left to apply are the last entries of the stream that was read.
Seeded(s) == pc = "seed" /\ seeding >= 1 /\ s = StreamNames[seeding]
SeedOK ==
    pc = "seed" =>
        /\ \A k \in 1..2 : k > seeding => cursor[StreamNames[k]] = 0
        /\ \A i \in DOMAIN todo :
              Seeded(todo[i][1]) /\ todo[i][2] = cursor[todo[i][1]] - Len(todo) + i

\* A response has the entries of one stream after those of another, each in order, and begins
\* where the stream has been followed to.
BatchOK ==
    pc = "apply" =>
        /\ \A i \in DOMAIN todo : i + 1 \in DOMAIN todo /\ todo[i + 1][1] = todo[i][1] =>
              todo[i + 1][2] = todo[i][2] + 1
        /\ \A i, j, k \in DOMAIN todo : i < j /\ j < k /\ todo[i][1] = todo[k][1] =>
              todo[j][1] = todo[i][1]
        /\ \A i \in DOMAIN todo :
              (i = 1 \/ todo[i - 1][1] # todo[i][1]) /\ cursor[todo[i][1]] # 0 =>
                  todo[i][2] = cursor[todo[i][1]] + 1

\* How far a stream has been applied.
Mark(s) == IF Seeded(s) THEN cursor[s] - Len(todo) ELSE cursor[s]

IsLast(k) == \A l \in DOMAIN applied : k < l => applied[l][1] # applied[k][1]

AppliedOK ==
    /\ applied \in Seq(Entries)
    /\ AppliedContiguous
    /\ \A k \in DOMAIN applied :
          /\ cursor[applied[k][1]] # 0
          /\ IsLast(k) => applied[k][2] = Mark(applied[k][1])

NodeType == [events : Nat, errors : Seq(0..MaxClock)]
ShownOK == nodes \in [Nodes -> NodeType]

\* Once it has read all it was told, and of that something while it had data, a dashboard
\* fetches what it was told of or has it.
DashboardOK ==
    /\ phase \in {"away", "connecting", "open", "on"}
    /\ queue \in Nat /\ news \in BOOLEAN
    /\ faults \in 0..MaxFaults
    /\ news => view # None
    /\ pc = "seed" => phase \in {"away", "connecting"}
    /\ Subscribed /\ news /\ queue = 0 =>
          \/ fetch \in {<<"asked">>, <<"got", Len(applied)>>}
          \/ fetch = None /\ view \in {<<"got", Len(applied)>>, <<"static">>}

PollInv == LogOK /\ PollerOK /\ SeedOK /\ BatchOK /\ AppliedOK /\ ShownOK
IInv == PollInv /\ DashboardOK

(***************************************************************************)
(* The streams and their places                                            *)
(***************************************************************************)
LEMMA StreamsAre ==
  /\ Streams = {"web", "jds"} /\ Len(StreamNames) = 2
  /\ StreamNames[1] \in Streams /\ StreamNames[2] \in Streams /\ StreamNames[1] # StreamNames[2]
  /\ \A s \in Streams : s = StreamNames[1] \/ s = StreamNames[2]
<1>1. CASE StreamNames = <<"web", "jds">>
  BY <1>1 DEF Streams
<1>2. CASE StreamNames = <<"jds", "web">>
  BY <1>2 DEF Streams
<1> QED
  BY <1>1, <1>2, StreamAssumption

LEMMA Half ==
  ASSUME NEW m \in Nat, NEW n \in Nat, m + n <= MaxEntries
  PROVE  m \in 0..MaxEntries /\ n \in 0..MaxEntries
OBVIOUS

LEMMA LogLen ==
  ASSUME LogOK, NEW s \in Streams
  PROVE  Len(log[s]) \in 0..MaxEntries
<1>1. log["web"] \in Seq(LogEntry) /\ log["jds"] \in Seq(LogEntry) /\ (s = "web" \/ s = "jds")
  BY StreamsAre DEF LogOK
<1>2. Len(log["web"]) \in Nat /\ Len(log["jds"]) \in Nat
  BY <1>1, LenProperties
<1>3. Len(log["web"]) + Len(log["jds"]) <= MaxEntries
  BY DEF LogOK
<1>4. Len(log["web"]) \in 0..MaxEntries /\ Len(log["jds"]) \in 0..MaxEntries
  BY <1>2, <1>3, Half, Zenon
<1> QED
  BY <1>1, <1>4, Zenon

LEMMA EntryParts ==
  ASSUME NEW p \in Entries
  PROVE  p[1] \in Streams /\ p[2] \in 1..MaxEntries /\ p = <<p[1], p[2]>>
BY DEF Entries

Span(first, last) == IF last < first THEN 0 ELSE last + 1 - first

LEMMA PlacesAre ==
  ASSUME LogOK, NEW s \in Streams, NEW first \in Nat \ {0}, NEW last \in Nat, last <= Len(log[s])
  PROVE  /\ Places(s, first, last) \in Seq(Entries)
         /\ Len(Places(s, first, last)) = Span(first, last)
         /\ Span(first, last) \in Nat
         /\ DOMAIN Places(s, first, last) = 1..Span(first, last)
         /\ \A k \in 1..Span(first, last) :
               Places(s, first, last)[k] = <<s, first + k - 1>> /\ first + k - 1 <= Len(log[s])
<1> DEFINE ps == Places(s, first, last)
           n == Span(first, last)
<1>1. n \in Nat /\ Len(log[s]) \in 0..MaxEntries
  BY LogLen DEF Span
<1>2. ps = [k \in 1..n |-> <<s, first + k - 1>>]
  BY DEF Places, Span
<1>3. ASSUME NEW k \in 1..n PROVE first + k - 1 \in 1..MaxEntries /\ first + k - 1 <= Len(log[s])
  BY <1>1 DEF Span
<1> HIDE DEF n
<1>4. \A k \in 1..n : ps[k] = <<s, first + k - 1>> /\ ps[k] \in Entries
  BY <1>2, <1>3 DEF Entries
<1>5. ps \in [1..n -> Entries]
  BY <1>2, <1>4
<1> HIDE DEF ps
<1>6. ps \in Seq(Entries)
  BY <1>1, <1>5, SeqDef
<1>7. Len(ps) = n /\ DOMAIN ps = 1..n
  BY <1>1, <1>5, <1>6, LenProperties
<1> QED
  BY <1>1, <1>3, <1>4, <1>6, <1>7 DEF ps, n

LEMMA AllPlaces ==
  ASSUME LogOK, NEW s \in Streams, NEW L \in Nat, L <= Len(log[s])
  PROVE  /\ Places(s, 1, L) \in Seq(Entries) /\ Len(Places(s, 1, L)) = L
         /\ \A k \in 1..L : Places(s, 1, L)[k] = <<s, k>>
<1>1. 1 \in Nat \ {0} /\ Span(1, L) = L
  BY DEF Span
<1>2. /\ Places(s, 1, L) \in Seq(Entries) /\ Len(Places(s, 1, L)) = Span(1, L)
      /\ \A k \in 1..Span(1, L) : Places(s, 1, L)[k] = <<s, 1 + k - 1>>
  BY <1>1, PlacesAre
<1>3. \A k \in 1..L : 1 + k - 1 = k
  OBVIOUS
<1> QED
  BY <1>1, <1>2, <1>3

\* The last entries of a stream that is not empty.
LEMMA SeedIs ==
  ASSUME LogOK, NEW s \in Streams, log[s] # <<>>
  PROVE  LET ps == LastOf(Places(s, 1, Len(log[s])), SeedCount)
         IN  /\ ps \in Seq(Entries) /\ Len(ps) \in 1..Len(log[s]) /\ DOMAIN ps = 1..Len(ps)
             /\ \A k \in 1..Len(ps) : ps[k] = <<s, Len(log[s]) - Len(ps) + k>>
<1> DEFINE L == Len(log[s])
           all == Places(s, 1, L)
           f == IF L > SeedCount THEN L - SeedCount + 1 ELSE 1
           ps == SubSeq(all, f, L)
<1>1. L \in Nat \ {0}
  BY StreamsAre, EmptySeq DEF LogOK
<1>2. /\ all \in Seq(Entries) /\ Len(all) = L
      /\ \A k \in 1..L : all[k] = <<s, k>>
  <2>1. L \in Nat /\ L <= Len(log[s])
    <3> HIDE DEF L
    <3>1. L <= Len(log[s])
      BY <1>1 DEF L
    <3> QED
      BY <1>1, <3>1
  <2> QED
    BY <2>1, AllPlaces
<1>3. LastOf(all, SeedCount) = ps
  BY <1>2 DEF LastOf
<1>4. f \in 1..L
  BY <1>1
<1> HIDE DEF all, L, f
<1>5. \A k \in f..L : k \in 1..L /\ all[k] \in Entries
  BY <1>1, <1>2, <1>4, ElementOfSeq
<1>6. /\ ps \in Seq(Entries)
      /\ Len(ps) = IF f <= L THEN L - f + 1 ELSE 0
      /\ \A k \in 1..(L - f + 1) : ps[k] = all[f + k - 1]
  BY <1>1, <1>4, <1>5, SubSeqProperties
<1>7. Len(ps) = L - f + 1 /\ L - f + 1 \in 1..L
  BY <1>1, <1>4, <1>6
<1>8. ASSUME NEW k \in 1..(L - f + 1) PROVE ps[k] = <<s, L - (L - f + 1) + k>>
  <2>1. f + k - 1 \in 1..L /\ f + k - 1 = L - (L - f + 1) + k
    BY <1>1, <1>4
  <2> QED
    BY <1>2, <1>6, <2>1
<1>9. DOMAIN ps = 1..Len(ps)
  BY <1>6, LenProperties
<1> HIDE DEF ps
<1> QED
  BY <1>3, <1>6, <1>7, <1>8, <1>9 DEF L, all

(***************************************************************************)
(* A response                                                              *)
(***************************************************************************)
LEMMA NewIs ==
  ASSUME LogOK, PollerOK, pc = "blocked", NEW s \in Streams
  PROVE  /\ New(s) \in Seq(Entries) /\ Len(New(s)) \in Nat
         /\ \A k \in 1..Len(New(s)) : New(s)[k] = <<s, asked[s] + k>> /\ asked[s] + k <= Len(log[s])
<1>1. asked[s] \in Nat /\ asked[s] <= Len(log[s])
  BY DEF PollerOK
<1>2. Len(log[s]) \in Nat
  BY LogLen
<1>3. asked[s] + 1 \in Nat \ {0} /\ Upto(s) \in Nat /\ Upto(s) <= Len(log[s])
  BY <1>1, <1>2 DEF Upto
<1>4. /\ New(s) \in Seq(Entries) /\ Len(New(s)) \in Nat
      /\ \A k \in 1..Len(New(s)) : /\ New(s)[k] = <<s, (asked[s] + 1) + k - 1>>
                                   /\ (asked[s] + 1) + k - 1 <= Len(log[s])
  BY <1>3, PlacesAre DEF New
<1>5. \A k \in 1..Len(New(s)) : (asked[s] + 1) + k - 1 = asked[s] + k
  BY <1>1, <1>4
<1> QED
  BY <1>4, <1>5

LEMMA ResponseIs ==
  ASSUME LogOK, PollerOK, pc = "blocked"
  PROVE  \E a, b \in Nat :
            /\ Response \in Seq(Entries) /\ Len(Response) = a + b /\ DOMAIN Response = 1..(a + b)
            /\ \A i \in 1..a : /\ Response[i] = <<StreamNames[1], asked[StreamNames[1]] + i>>
                               /\ asked[StreamNames[1]] + i <= Len(log[StreamNames[1]])
            /\ \A i \in (a + 1)..(a + b) :
                  /\ Response[i] = <<StreamNames[2], asked[StreamNames[2]] + (i - a)>>
                  /\ asked[StreamNames[2]] + (i - a) <= Len(log[StreamNames[2]])
<1> DEFINE f == StreamNames[1]
           g == StreamNames[2]
           a == Len(New(f))
           b == Len(New(g))
<1>1. f \in Streams /\ g \in Streams
  BY StreamsAre
<1>2. New(f) \in Seq(Entries) /\ New(g) \in Seq(Entries) /\ a \in Nat /\ b \in Nat
  BY <1>1, NewIs
<1>3. /\ Response \in Seq(Entries) /\ Len(Response) = a + b
      /\ \A i \in 1..(a + b) : Response[i] = IF i <= a THEN New(f)[i] ELSE New(g)[i - a]
  BY <1>2, ConcatProperties DEF Response
<1>4. DOMAIN Response = 1..(a + b)
  BY <1>3, LenProperties
<1>5. \A i \in 1..a : New(f)[i] = <<f, asked[f] + i>> /\ asked[f] + i <= Len(log[f])
  BY <1>1, NewIs
<1>6. \A i \in 1..b : New(g)[i] = <<g, asked[g] + i>> /\ asked[g] + i <= Len(log[g])
  BY <1>1, NewIs
<1> HIDE DEF a, b, f, g
<1>7. \A i \in 1..a : Response[i] = <<f, asked[f] + i>> /\ asked[f] + i <= Len(log[f])
  <2> TAKE i \in 1..a
  <2>1. i \in 1..(a + b) /\ i <= a
    BY <1>2
  <2> QED
    BY <1>3, <1>5, <2>1
<1>8. \A i \in (a + 1)..(a + b) :
         Response[i] = <<g, asked[g] + (i - a)>> /\ asked[g] + (i - a) <= Len(log[g])
  <2> TAKE i \in (a + 1)..(a + b)
  <2>1. i \in 1..(a + b) /\ ~(i <= a) /\ i - a \in 1..b
    BY <1>2
  <2> QED
    BY <1>3, <1>6, <2>1
<1>9. a \in Nat /\ b \in Nat
  BY <1>2
<1> QED
  BY <1>3, <1>4, <1>7, <1>8, <1>9 DEF f, g

LEMMA RespondKeeps ==
  ASSUME PollInv, Respond
  PROVE  PollerOK' /\ BatchOK'
<1>1. LogOK /\ PollerOK /\ pc = "blocked" /\ todo' = Response /\ UNCHANGED <<log, seeding, cursor>>
      /\ pc' = IF Response = <<>> THEN "poll" ELSE "apply"
  BY DEF PollInv, Respond, redis
<1> DEFINE f == StreamNames[1]
           g == StreamNames[2]
<1>2. PICK a \in Nat, b \in Nat :
        /\ Response \in Seq(Entries) /\ Len(Response) = a + b /\ DOMAIN Response = 1..(a + b)
        /\ \A i \in 1..a : Response[i] = <<f, asked[f] + i>> /\ asked[f] + i <= Len(log[f])
        /\ \A i \in (a + 1)..(a + b) :
              Response[i] = <<g, asked[g] + (i - a)>> /\ asked[g] + (i - a) <= Len(log[g])
  BY <1>1, ResponseIs
<1>3. /\ f # g /\ f \in Streams /\ g \in Streams
      /\ asked[f] \in Nat /\ asked[g] \in Nat
      /\ cursor[f] # 0 => asked[f] = cursor[f]
      /\ cursor[g] # 0 => asked[g] = cursor[g]
  BY <1>1, StreamsAre DEF PollerOK
<1> HIDE DEF f, g
<1>4. \A i \in 1..(a + b) : i \in 1..a \/ i \in (a + 1)..(a + b)
  OBVIOUS
<1>5. \A i \in 1..a : Response[i][1] = f /\ Response[i][2] = asked[f] + i
  BY <1>2
<1>6. \A i \in (a + 1)..(a + b) : Response[i][1] = g /\ Response[i][2] = asked[g] + (i - a)
  BY <1>2
<1>7. PollerOK'
  <2>1. \A i \in DOMAIN Response : Response[i][2] <= Len(log[Response[i][1]])
    BY <1>2, <1>4, <1>5, <1>6
  <2> QED
    BY <1>1, <1>2, <2>1 DEF PollerOK
<1>8. ASSUME NEW i \in 1..(a + b), i + 1 \in 1..(a + b), Response[i + 1][1] = Response[i][1]
      PROVE  Response[i + 1][2] = Response[i][2] + 1
  <2>1. CASE i + 1 \in 1..a
    BY <1>3, <1>5, <2>1
  <2>2. CASE i \in (a + 1)..(a + b)
    <3>1. i + 1 \in (a + 1)..(a + b)
      BY <1>8, <2>2
    <3> QED
      BY <1>3, <1>6, <2>2, <3>1
  <2>3. CASE i \in 1..a /\ i + 1 \in (a + 1)..(a + b)
    BY <1>3, <1>5, <1>6, <1>8, <2>3
  <2> QED
    BY <1>4, <1>8, <2>1, <2>2, <2>3
<1>9. ASSUME NEW i \in 1..(a + b), NEW j \in 1..(a + b), NEW k \in 1..(a + b), i < j, j < k,
             Response[i][1] = Response[k][1]
      PROVE  Response[j][1] = Response[i][1]
  <2>1. CASE k \in 1..a
    BY <1>5, <1>9, <2>1
  <2>2. CASE i \in (a + 1)..(a + b)
    BY <1>6, <1>9, <2>2
  <2>3. CASE i \in 1..a /\ k \in (a + 1)..(a + b)
    BY <1>3, <1>5, <1>6, <1>9, <2>3
  <2> QED
    BY <1>4, <2>1, <2>2, <2>3
<1>10. ASSUME NEW i \in 1..(a + b), i = 1 \/ Response[i - 1][1] # Response[i][1],
              cursor[Response[i][1]] # 0
       PROVE  Response[i][2] = cursor[Response[i][1]] + 1
  <2>1. CASE i \in 1..a
    <3>1. CASE i = 1
      BY <1>3, <1>5, <1>10, <2>1, <3>1
    <3>2. CASE i # 1
      <4>1. i - 1 \in 1..a
        BY <2>1, <3>2
      <4> QED
        BY <1>5, <1>10, <2>1, <3>2, <4>1
    <3> QED
      BY <3>1, <3>2
  <2>2. CASE i \in (a + 1)..(a + b)
    <3>1. CASE i = a + 1
      BY <1>3, <1>6, <1>10, <2>2, <3>1
    <3>2. CASE i # a + 1
      <4>1. i - 1 \in (a + 1)..(a + b) /\ i # 1
        BY <2>2, <3>2
      <4> QED
        BY <1>6, <1>10, <2>2, <4>1
    <3> QED
      BY <3>1, <3>2
  <2> QED
    BY <1>4, <2>1, <2>2
<1>11. DOMAIN todo' = 1..(a + b) /\ todo' = Response /\ cursor' = cursor
  BY <1>1, <1>2
<1>12. \A i \in DOMAIN todo' : i + 1 \in DOMAIN todo' /\ todo'[i + 1][1] = todo'[i][1] =>
          todo'[i + 1][2] = todo'[i][2] + 1
  BY <1>8, <1>11
<1>13. \A i, j, k \in DOMAIN todo' : i < j /\ j < k /\ todo'[i][1] = todo'[k][1] =>
          todo'[j][1] = todo'[i][1]
  BY <1>9, <1>11
<1>14. \A i \in DOMAIN todo' :
          (i = 1 \/ todo'[i - 1][1] # todo'[i][1]) /\ cursor'[todo'[i][1]] # 0 =>
              todo'[i][2] = cursor'[todo'[i][1]] + 1
  BY <1>10, <1>11
<1> QED
  BY <1>7, <1>12, <1>13, <1>14 DEF BatchOK

(***************************************************************************)
(* An entry is applied                                                     *)
(***************************************************************************)
LEMMA KeptIs ==
  ASSUME NEW T, NEW values \in Seq(T), NEW old
  PROVE  Kept(values, old) \in Seq(T)
<1> DEFINE gone == {k \in DOMAIN values : 1..k \subseteq old}
           m == Cardinality(gone) + 1
           n == Len(values)
<1>1. n \in Nat /\ DOMAIN values = 1..n
  BY LenProperties
<1>2. IsFiniteSet(gone)
  <2>1. gone \subseteq 1..n
    BY <1>1
  <2>2. 1 \in Int /\ n \in Int
    BY <1>1
  <2> HIDE DEF gone, n
  <2> QED
    BY <2>1, <2>2, FS_Interval, FS_Subset
<1>3. m \in Nat \ {0}
  BY <1>2, FS_CardinalityType
<1> HIDE DEF gone, m, n
<1>4. \A i \in m..n : values[i] \in T
  BY <1>1, <1>3, ElementOfSeq DEF n
<1>5. SubSeq(values, m, n) \in Seq(T)
  BY <1>1, <1>3, <1>4, SubSeqProperties
<1> QED
  BY <1>5 DEF Kept, gone, m, n

LEMMA RecordedIs ==
  ASSUME NEW node \in NodeType, NEW e \in LogEntry
  PROVE  Recorded(node, e) \in NodeType
<1>1. Trimmed(node.errors, e.at) \in Seq(0..MaxClock)
  BY KeptIs DEF NodeType, Trimmed
<1>2. (IF e.level = "error" THEN <<e.at>> ELSE <<>>) \in Seq(0..MaxClock)
  <2>1. e.at \in 0..MaxClock
    BY DEF LogEntry
  <2>2. <<e.at>> \in Seq(0..MaxClock) /\ <<>> \in Seq(0..MaxClock)
    BY <2>1
  <2> QED
    BY <2>2, Zenon
<1>3. Trimmed(node.errors, e.at) \o (IF e.level = "error" THEN <<e.at>> ELSE <<>>)
         \in Seq(0..MaxClock)
  BY <1>1, <1>2, ConcatProperties
<1> QED
  BY <1>3 DEF Recorded, NodeType

LEMMA ApplyShows ==
  ASSUME LogOK, ShownOK, NEW p \in Entries, p[2] <= Len(log[p[1]]), Apply(p)
  PROVE  ShownOK'
<1>1. Entry(p) \in LogEntry
  <2>1. p[1] \in Streams /\ p[2] \in 1..Len(log[p[1]])
    BY EntryParts, LogLen
  <2> QED
    BY <2>1, ElementOfSeq DEF Entry, LogOK
<1>2. nodes' \in [Nodes -> NodeType]
  BY <1>1, RecordedIs DEF Apply, ShownOK
<1> QED
  BY <1>2 DEF ShownOK

LEMMA AppendApplied ==
  ASSUME AppliedOK, NEW p \in Entries, applied' = Append(applied, p),
         \A k \in DOMAIN applied : IsLast(k) /\ applied[k][1] = p[1] => p[2] = applied[k][2] + 1
  PROVE  /\ applied' \in Seq(Entries)
         /\ AppliedContiguous'
         /\ \A k \in DOMAIN applied' :
               \/ applied'[k] = p
               \/ /\ k \in DOMAIN applied /\ applied'[k] = applied[k]
                  /\ IsLast(k)' => IsLast(k) /\ applied[k][1] # p[1]
<1> DEFINE n == Len(applied)
<1>1. n \in Nat /\ DOMAIN applied = 1..n
  BY LenProperties DEF AppliedOK
<1>2. /\ applied' \in Seq(Entries) /\ Len(applied') = n + 1
      /\ \A k \in 1..n : applied'[k] = applied[k]
      /\ applied'[n + 1] = p
  BY AppendProperties DEF AppliedOK
<1>3. DOMAIN applied' = 1..(n + 1)
  BY <1>2, LenProperties
<1> HIDE DEF n
<1>4. \A k \in 1..(n + 1) : k \in 1..n \/ k = n + 1
  BY <1>1
<1>5. ASSUME NEW k \in 1..n, IsLast(k)'
      PROVE  IsLast(k) /\ applied[k][1] # p[1]
  <2>1. \A l \in 1..(n + 1) : k < l => applied'[l][1] # applied'[k][1]
    BY <1>3, <1>5 DEF IsLast
  <2>2. n + 1 \in 1..(n + 1) /\ k < n + 1
    BY <1>1
  <2>3. \A l \in 1..n : l \in 1..(n + 1)
    BY <1>1
  <2> QED
    BY <1>1, <1>2, <2>1, <2>2, <2>3 DEF IsLast
<1>6. AppliedContiguous'
  <2> SUFFICES ASSUME NEW k \in DOMAIN applied', NEW l \in DOMAIN applied', k < l,
                      applied'[k][1] = applied'[l][1],
                      \A m \in DOMAIN applied' : k < m /\ m < l => applied'[m][1] # applied'[k][1]
               PROVE  applied'[l][2] = applied'[k][2] + 1
    BY Zenon DEF AppliedContiguous
  <2> k \in 1..(n + 1) /\ l \in 1..(n + 1)
    BY <1>3
  <2>1. k \in 1..n
    BY <1>1
  <2>2. CASE l \in 1..n
    <3>1. \A m \in 1..n : k < m /\ m < l => applied[m][1] # applied[k][1]
      <4> TAKE m \in 1..n
      <4>1. m \in DOMAIN applied'
        BY <1>1, <1>3
      <4> QED
        BY <1>2, <2>1, <4>1
    <3>2. applied[k][1] = applied[l][1]
      BY <1>2, <2>1, <2>2
    <3>3. applied[l][2] = applied[k][2] + 1
      BY <1>1, <2>1, <2>2, <3>1, <3>2 DEF AppliedOK, AppliedContiguous
    <3> QED
      BY <1>2, <2>1, <2>2, <3>3
  <2>3. CASE l = n + 1
    <3>1. \A m \in 1..n : k < m => applied[m][1] # applied[k][1]
      <4> TAKE m \in 1..n
      <4>1. m \in DOMAIN applied' /\ m < l
        BY <1>1, <1>3, <2>3
      <4> QED
        BY <1>2, <2>1, <4>1
    <3>2. IsLast(k) /\ applied[k][1] = p[1]
      BY <1>1, <1>2, <2>1, <2>3, <3>1 DEF IsLast
    <3>3. p[2] = applied[k][2] + 1
      BY <1>1, <2>1, <3>2
    <3> QED
      BY <1>2, <2>1, <2>3, <3>3
  <2> QED
    BY <1>4, <2>2, <2>3
<1> QED
  BY <1>1, <1>2, <1>3, <1>4, <1>5, <1>6

\* Nothing is applied, and what has been applied of a stream is where it was.
LEMMA AppliedKept ==
  ASSUME AppliedOK, UNCHANGED applied,
         \A k \in DOMAIN applied : LET s == applied[k][1]
                                   IN  cursor'[s] # 0 /\ Mark(s)' = Mark(s)
  PROVE  AppliedOK'
<1>1. AppliedContiguous' /\ \A k \in DOMAIN applied : IsLast(k)' => IsLast(k)
  BY DEF AppliedOK, AppliedContiguous, IsLast
<1>2. ASSUME NEW k \in DOMAIN applied
      PROVE  cursor'[applied[k][1]] # 0 /\ (IsLast(k)' => applied[k][2] = Mark(applied[k][1])')
  BY <1>1, <1>2 DEF AppliedOK
<1> QED
  BY <1>1, <1>2 DEF AppliedOK

LEMMA MarkIsCursor ==
  ASSUME PollerOK, todo = <<>>, NEW s \in Streams
  PROVE  Mark(s) = cursor[s]
<1>1. cursor[s] \in Nat /\ Len(todo) = 0
  BY DEF PollerOK
<1> QED
  BY <1>1 DEF Mark

(***************************************************************************)
(* Steps that apply nothing                                                *)
(***************************************************************************)
\* The poller and what it has applied are as they were.
LEMMA PollerSame ==
  ASSUME PollInv, UNCHANGED <<pc, seeding, cursor, asked, todo, applied>>, LogOK',
         \A s \in Streams : Len(log[s]) <= Len(log'[s])
  PROVE  PollerOK' /\ SeedOK' /\ BatchOK' /\ AppliedOK'
<1>1. PollerOK'
  <2>1. \A s \in Streams : Len(log[s]) \in Nat /\ Len(log'[s]) \in Nat /\ cursor[s] \in Nat
    <3>1. LogOK /\ PollerOK
      BY DEF PollInv
    <3>2. \A s \in Streams : Len(log[s]) \in Nat
      BY <3>1, LogLen
    <3>3. \A s \in Streams : log'[s] \in Seq(LogEntry)
      BY DEF LogOK
    <3> QED
      BY <3>1, <3>2, <3>3, LenProperties DEF PollerOK
  <2>2. \A s \in Streams : cursor'[s] <= Len(log'[s])
    BY <2>1 DEF PollInv, PollerOK
  <2>3. ASSUME NEW i \in DOMAIN todo PROVE todo[i][2] <= Len(log'[todo[i][1]])
    <3>1. todo[i] \in Entries /\ todo[i][2] <= Len(log[todo[i][1]])
      BY LenProperties, ElementOfSeq DEF PollInv, PollerOK
    <3>2. todo[i][1] \in Streams /\ todo[i][2] \in Nat
      BY <3>1, EntryParts
    <3> QED
      BY <2>1, <3>1, <3>2
  <2>4. pc = "blocked" => \A s \in Streams : asked[s] \in Nat /\ asked[s] <= Len(log'[s])
    BY <2>1 DEF PollInv, PollerOK
  <2> QED
    BY <2>2, <2>3, <2>4 DEF PollInv, PollerOK
<1>2. SeedOK'
  BY DEF PollInv, SeedOK, Seeded
<1>3. BatchOK'
  BY DEF PollInv, BatchOK
<1>4. AppliedOK'
  BY DEF PollInv, AppliedOK, AppliedContiguous, IsLast, Mark, Seeded
<1> QED
  BY <1>1, <1>2, <1>3, <1>4

LEMMA PublishKeeps ==
  ASSUME PollInv, NEW s \in Streams, NEW level \in LevelsOf[s], Publish(s, level)
  PROVE  PollInv'
<1> DEFINE e == [at |-> clock, level |-> level]
<1>1. e \in LogEntry
  BY LevelAssumption DEF PollInv, LogOK, LogEntry
<1>2. /\ log \in [Streams -> Seq(LogEntry)] /\ log' = [log EXCEPT ![s] = Append(log[s], e)]
      /\ Len(log["web"]) + Len(log["jds"]) < MaxEntries
  BY DEF PollInv, LogOK, Publish
<1> HIDE DEF e
<1>3. /\ log'[s] \in Seq(LogEntry) /\ Len(log'[s]) = Len(log[s]) + 1
      /\ \A t \in Streams : t # s => log'[t] = log[t]
  BY <1>1, <1>2, AppendProperties
<1>4. log' \in [Streams -> Seq(LogEntry)]
  BY <1>2, <1>3
<1>5. \A t \in Streams : Len(log[t]) \in Nat
  BY <1>2, LenProperties
<1>6. Len(log'["web"]) + Len(log'["jds"]) = Len(log["web"]) + Len(log["jds"]) + 1
  <2> DEFINE w == Len(log["web"])
             j == Len(log["jds"])
             w2 == Len(log'["web"])
             j2 == Len(log'["jds"])
  <2>1. w \in Nat /\ j \in Nat
    BY <1>5, StreamsAre
  <2>2. (w2 = w + 1 /\ j2 = j) \/ (w2 = w /\ j2 = j + 1)
    BY <1>3, StreamsAre
  <2> HIDE DEF w, j, w2, j2
  <2>3. w2 + j2 = w + j + 1
    BY <2>1, <2>2
  <2> QED
    BY <2>3 DEF w, j, w2, j2
<1>7. LogOK'
  <2> DEFINE n == Len(log["web"]) + Len(log["jds"])
             n2 == Len(log'["web"]) + Len(log'["jds"])
  <2>1. n \in Nat
    <3>1. Len(log["web"]) \in Nat /\ Len(log["jds"]) \in Nat
      BY <1>5, StreamsAre
    <3>2. \A x, y \in Nat : x + y \in Nat
      OBVIOUS
    <3> QED
      BY <3>1, <3>2, Zenon
  <2>2. n < MaxEntries /\ n2 = n + 1
    BY <1>2, <1>6
  <2> HIDE DEF n, n2
  <2>3. n2 <= MaxEntries
    BY <2>1, <2>2
  <2> QED
    BY <1>4, <2>3 DEF n2, LogOK, PollInv, Publish
<1>8. \A t \in Streams : Len(log[t]) <= Len(log'[t])
  BY <1>3, <1>5
<1>9. ShownOK'
  BY DEF PollInv, ShownOK, Publish, state
<1> QED
  BY <1>7, <1>8, <1>9, PollerSame DEF PollInv, Publish, poller, state

\* The dashboard and the clock.
LEMMA OthersKeep ==
  ASSUME PollInv, UNCHANGED <<log, poller, applied, nodes>>, clock' \in 0..MaxClock
  PROVE  PollInv'
<1>1. LogOK' /\ ShownOK'
  BY DEF PollInv, LogOK, ShownOK
<1>2. \A s \in Streams : Len(log[s]) <= Len(log'[s])
  BY LogLen DEF PollInv
<1> QED
  BY <1>1, <1>2, PollerSame DEF PollInv, poller

LEMMA SameLog ==
  ASSUME PollInv, UNCHANGED <<redis, nodes>>
  PROVE  LogOK' /\ ShownOK'
BY DEF PollInv, LogOK, ShownOK, redis

\* The poller goes on with nothing to apply before and after.
LEMMA IdlePoller ==
  ASSUME PollInv, UNCHANGED <<redis, state, cursor, seeding>>, todo = <<>>, todo' = <<>>,
         pc' \in {"poll", "blocked", "sleep"},
         pc' = "blocked" => /\ asked' \in [Streams -> Nat]
                            /\ \A s \in Streams : /\ asked'[s] <= Len(log[s])
                                                  /\ cursor[s] # 0 => asked'[s] = cursor[s]
  PROVE  PollInv'
<1>1. LogOK' /\ ShownOK'
  BY SameLog DEF state
<1>2. SeedOK' /\ BatchOK'
  BY DEF SeedOK, BatchOK
<1>3. PollerOK'
  BY DEF PollInv, PollerOK, redis
<1>4. ASSUME NEW k \in DOMAIN applied
      PROVE  cursor'[applied[k][1]] # 0 /\ Mark(applied[k][1])' = Mark(applied[k][1])
  <2>1. applied[k][1] \in Streams
    BY LenProperties, ElementOfSeq, EntryParts DEF PollInv, AppliedOK
  <2>2. Mark(applied[k][1]) = cursor[applied[k][1]]
    BY <2>1, MarkIsCursor DEF PollInv
  <2>3. cursor[applied[k][1]] # 0
    BY DEF PollInv, AppliedOK
  <2> QED
    BY <2>2, <2>3 DEF Mark, Seeded, state
<1>5. AppliedOK'
  BY <1>4, AppliedKept DEF PollInv, state
<1> QED
  BY <1>1, <1>2, <1>3, <1>5 DEF PollInv

LEMMA ServeKeeps ==
  ASSUME PollInv, Serve
  PROVE  PollInv'
BY IdlePoller DEF Serve

LEMMA WakeKeeps ==
  ASSUME PollInv, Wake
  PROVE  PollInv'
BY IdlePoller DEF Wake, Again, PollInv, PollerOK

LEMMA PollFailsKeeps ==
  ASSUME PollInv, PollFails
  PROVE  PollInv'
BY IdlePoller DEF PollFails, AfterError, PollInv, PollerOK

LEMMA PollKeeps ==
  ASSUME PollInv, Poll
  PROVE  PollInv'
<1>1. asked' = [s \in Streams |-> IF cursor[s] = Dollar THEN Len(log[s]) ELSE cursor[s]]
  BY DEF Poll
<1>2. \A s \in Streams : Len(log[s]) \in Nat /\ cursor[s] \in Nat /\ cursor[s] <= Len(log[s])
  BY LogLen DEF PollInv, PollerOK
<1>3. /\ asked' \in [Streams -> Nat]
      /\ \A s \in Streams : asked'[s] <= Len(log[s]) /\ (cursor[s] # 0 => asked'[s] = cursor[s])
  BY <1>1, <1>2 DEF Dollar
<1> QED
  BY <1>3, IdlePoller DEF Poll, PollInv, PollerOK

LEMMA RespondKeepsAll ==
  ASSUME PollInv, Respond
  PROVE  PollInv'
<1>1. LogOK' /\ ShownOK'
  BY SameLog DEF Respond, state
<1>2. SeedOK'
  BY DEF SeedOK, Respond
<1>3. ASSUME NEW k \in DOMAIN applied
      PROVE  cursor'[applied[k][1]] # 0 /\ Mark(applied[k][1])' = Mark(applied[k][1])
  <2>1. cursor[applied[k][1]] # 0
    BY DEF PollInv, AppliedOK
  <2> QED
    BY <2>1 DEF Mark, Seeded, Respond, state
<1>4. AppliedOK'
  BY <1>3, AppliedKept DEF PollInv, Respond, state
<1> QED
  BY <1>1, <1>2, <1>4, RespondKeeps DEF PollInv

LEMMA RestartKeeps ==
  ASSUME PollInv, Restart
  PROVE  PollInv'
<1>1. LogOK'
  BY DEF PollInv, LogOK, Restart, redis
<1>2. /\ pc' = "seed" /\ seeding' = 0 /\ cursor' = NoCursor /\ todo' = <<>> /\ applied' = <<>>
      /\ DOMAIN todo' = {} /\ DOMAIN applied' = {}
  BY DEF Restart
<1>3. \A s \in Streams : cursor'[s] = 0 /\ Len(log'[s]) \in Nat
  BY <1>1, <1>2, LenProperties DEF NoCursor, Dollar, LogOK
<1>4. PollerOK' /\ SeedOK' /\ BatchOK'
  BY <1>2, <1>3, StreamsAre DEF PollerOK, SeedOK, BatchOK, NoCursor, Dollar
<1>5. AppliedOK'
  BY <1>2 DEF AppliedOK, AppliedContiguous
<1>6. ShownOK'
  BY DEF ShownOK, Restart, NoNodes, NodeType
<1> QED
  BY <1>1, <1>4, <1>5, <1>6 DEF PollInv

(***************************************************************************)
(* The steps that seed and apply                                           *)
(***************************************************************************)
LEMMA TailIs ==
  ASSUME NEW xs \in Seq(Entries), xs # <<>>
  PROVE  /\ Len(xs) \in Nat \ {0} /\ DOMAIN xs = 1..Len(xs)
         /\ 1 \in DOMAIN xs /\ Head(xs) = xs[1] /\ xs[1] \in Entries
         /\ Tail(xs) \in Seq(Entries) /\ Len(Tail(xs)) = Len(xs) - 1
         /\ DOMAIN Tail(xs) = 1..(Len(xs) - 1)
         /\ \A i \in 1..(Len(xs) - 1) : /\ i + 1 \in DOMAIN xs
                                        /\ Tail(xs)[i] = xs[i + 1]
<1>1. Len(xs) \in Nat \ {0} /\ DOMAIN xs = 1..Len(xs)
  BY LenProperties, EmptySeq
<1>2. 1 \in DOMAIN xs /\ Head(xs) = xs[1] /\ xs[1] \in Entries
  BY <1>1, HeadTailProperties, ElementOfSeq
<1>3. /\ Tail(xs) \in Seq(Entries) /\ Len(Tail(xs)) = Len(xs) - 1
      /\ \A i \in 1..Len(Tail(xs)) : Tail(xs)[i] = xs[i + 1]
  BY HeadTailProperties
<1>4. DOMAIN Tail(xs) = 1..(Len(xs) - 1)
  BY <1>3, LenProperties
<1> QED
  BY <1>1, <1>2, <1>3, <1>4

LEMMA SeedReadKeeps ==
  ASSUME PollInv, SeedRead
  PROVE  PollInv'
<1> DEFINE s == StreamNames[seeding + 1]
<1>1. /\ pc = "seed" /\ todo = <<>> /\ seeding' = seeding + 1 /\ seeding < 2
      /\ UNCHANGED <<redis, pc, nodes, applied>>
  BY StreamsAre DEF SeedRead, state
<1>2. LogOK' /\ ShownOK'
  BY <1>1, SameLog
<1>3. seeding \in 0..2 /\ seeding' \in 1..2 /\ s = StreamNames[seeding'] /\ s \in Streams
  <2>1. seeding \in 0..2
    BY DEF PollInv, PollerOK
  <2>2. seeding + 1 = 1 \/ seeding + 1 = 2
    BY <1>1, <2>1
  <2> QED
    BY <1>1, <2>1, <2>2, StreamsAre
<1>4. cursor[s] = 0
  BY <1>1, <1>3 DEF PollInv, SeedOK
<1>5. \/ /\ log[s] # <<>> /\ cursor' = [cursor EXCEPT ![s] = Len(log[s])]
         /\ todo' = LastOf(Places(s, 1, Len(log[s])), SeedCount)
      \/ cursor' = cursor /\ todo' = <<>>
  BY DEF SeedRead
<1> HIDE DEF s
<1>6. cursor \in [Streams -> Nat] /\ \A t \in Streams : Len(log[t]) \in Nat /\ cursor[t] <= Len(log[t])
  BY LogLen DEF PollInv, PollerOK
<1>7. /\ cursor' \in [Streams -> Nat]
      /\ \A t \in Streams : cursor'[t] <= Len(log[t]) /\ (t # s => cursor'[t] = cursor[t])
  BY <1>3, <1>5, <1>6
<1>8. /\ todo' \in Seq(Entries)
      /\ \A i \in DOMAIN todo' : /\ todo'[i][1] = s /\ todo'[i][2] <= Len(log[s])
                                 /\ todo'[i][2] = cursor'[s] - Len(todo') + i
  <2>1. CASE log[s] # <<>> /\ cursor' = [cursor EXCEPT ![s] = Len(log[s])]
             /\ todo' = LastOf(Places(s, 1, Len(log[s])), SeedCount)
    <3> DEFINE n == Len(todo')
               L == Len(log[s])
    <3>1. /\ todo' \in Seq(Entries) /\ n \in 1..L /\ DOMAIN todo' = 1..n
          /\ \A k \in 1..n : todo'[k] = <<s, L - n + k>>
      BY <1>3, <2>1, SeedIs DEF PollInv
    <3>2. L \in Nat /\ cursor'[s] = L
      BY <1>3, <1>6, <2>1
    <3> HIDE DEF n, L
    <3>3. \A k \in 1..n : /\ todo'[k][1] = s /\ todo'[k][2] <= L
                          /\ todo'[k][2] = cursor'[s] - n + k
      BY <3>1, <3>2
    <3> QED
      BY <3>1, <3>3 DEF n, L
  <2>2. CASE cursor' = cursor /\ todo' = <<>>
    <3>1. todo' \in Seq(Entries) /\ DOMAIN todo' = {}
      BY <2>2
    <3> QED
      BY <3>1
  <2> QED
    BY <1>5, <2>1, <2>2
<1>9. PollerOK'
  <2>1. pc' = "seed" /\ log' = log /\ seeding' \in 0..2
    BY <1>1, <1>3 DEF redis
  <2>2. \A i \in DOMAIN todo' : todo'[i][2] <= Len(log'[todo'[i][1]])
    BY <1>8, <2>1
  <2> QED
    BY <1>7, <1>8, <2>1, <2>2 DEF PollerOK
<1>10. SeedOK'
  <2>1. ASSUME NEW k \in 1..2, k > seeding' PROVE cursor'[StreamNames[k]] = 0
    <3>1. StreamNames[k] # s /\ StreamNames[k] \in Streams
      BY <1>3, <2>1, StreamsAre
    <3>2. k > seeding
      BY <1>1, <1>3, <2>1
    <3> QED
      BY <1>1, <1>7, <3>1, <3>2 DEF PollInv, SeedOK
  <2>2. pc' = "seed" /\ seeding' >= 1
    BY <1>1, <1>3
  <2> QED
    BY <1>3, <1>8, <2>1, <2>2 DEF SeedOK, Seeded
<1>11. BatchOK'
  BY <1>1 DEF BatchOK
<1>12. ASSUME NEW k \in DOMAIN applied, NEW t, t = applied[k][1]
       PROVE  cursor'[t] # 0 /\ Mark(t)' = Mark(t)
  <2>1. t \in Streams
    BY <1>12, LenProperties, ElementOfSeq, EntryParts DEF PollInv, AppliedOK
  <2>2. cursor[t] # 0
    BY <1>12 DEF PollInv, AppliedOK
  <2>3. t # s
    BY <1>4, <2>2
  <2>4. Mark(t) = cursor[t]
    BY <1>1, <2>1, MarkIsCursor DEF PollInv
  <2>5. ~(t = StreamNames[seeding'])
    BY <1>3, <2>3
  <2>6. cursor'[t] = cursor[t] /\ Mark(t)' = cursor'[t]
    BY <1>7, <2>1, <2>3, <2>5 DEF Mark, Seeded
  <2> QED
    BY <2>2, <2>4, <2>6
<1>13. AppliedOK'
  <2>1. \A k \in DOMAIN applied : /\ cursor'[applied[k][1]] # 0
                                  /\ Mark(applied[k][1])' = Mark(applied[k][1])
    BY <1>1, <1>12 DEF Mark, Seeded
  <2> QED
    BY <1>1, <2>1, AppliedKept DEF PollInv
<1> QED
  BY <1>2, <1>9, <1>10, <1>11, <1>13 DEF PollInv

\* What is applied is in order after a step that applies the head of what is left.
LEMMA AppliedGoesOn ==
  ASSUME PollInv, NEW p \in Entries, applied' = Append(applied, p),
         cursor'[p[1]] # 0, Mark(p[1])' = p[2],
         \A k \in DOMAIN applied : IsLast(k) /\ applied[k][1] = p[1] => p[2] = applied[k][2] + 1,
         \A t \in Streams : t # p[1] => cursor'[t] = cursor[t] /\ Mark(t)' = Mark(t)
  PROVE  AppliedOK'
<1>1. p[1] \in Streams
  BY EntryParts
<1>2. /\ applied' \in Seq(Entries)
      /\ AppliedContiguous'
      /\ \A k \in DOMAIN applied' :
            \/ applied'[k] = p
            \/ /\ k \in DOMAIN applied /\ applied'[k] = applied[k]
               /\ IsLast(k)' => IsLast(k) /\ applied[k][1] # p[1]
  BY AppendApplied DEF PollInv
<1>3. ASSUME NEW k \in DOMAIN applied', NEW t, t = applied'[k][1]
      PROVE  cursor'[t] # 0 /\ (IsLast(k)' => applied'[k][2] = Mark(t)')
  <2>1. CASE applied'[k] = p
    <3>1. t = p[1]
      BY <1>3, <2>1
    <3> QED
      BY <2>1, <3>1
  <2>2. CASE k \in DOMAIN applied /\ applied'[k] = applied[k]
             /\ (IsLast(k)' => IsLast(k) /\ applied[k][1] # p[1])
    <3>1. cursor[t] # 0 /\ (IsLast(k) => applied[k][2] = Mark(t))
      BY <1>3, <2>2 DEF PollInv, AppliedOK
    <3>2. t \in Streams
      BY <1>2, <1>3, LenProperties, ElementOfSeq, EntryParts
    <3>3. cursor'[t] # 0
      BY <3>1, <3>2
    <3>4. ASSUME IsLast(k)' PROVE applied'[k][2] = Mark(t)'
      <4>1. IsLast(k) /\ t # p[1]
        BY <1>3, <2>2, <3>4
      <4> QED
        BY <2>2, <3>1, <3>2, <4>1
    <3> QED
      BY <3>3, <3>4
  <2> QED
    BY <1>2, <2>1, <2>2
<1> QED
  BY <1>2, <1>3 DEF AppliedOK, Mark, Seeded

\* Of an entry that is applied, the rest of the batch and the state that is shown.
LEMMA HeadApplied ==
  ASSUME PollInv, todo # <<>>, Apply(Head(todo)), todo' = Tail(todo)
  PROVE  /\ todo[1] \in Entries /\ todo[1][1] \in Streams /\ todo[1][2] \in Nat \ {0}
         /\ todo[1][2] <= Len(log[todo[1][1]])
         /\ applied' = Append(applied, todo[1])
         /\ ShownOK'
         /\ Len(todo) \in Nat \ {0} /\ DOMAIN todo = 1..Len(todo) /\ 1 \in DOMAIN todo
         /\ todo' \in Seq(Entries) /\ Len(todo') = Len(todo) - 1
         /\ DOMAIN todo' = 1..(Len(todo) - 1)
         /\ \A i \in 1..(Len(todo) - 1) : i + 1 \in DOMAIN todo /\ todo'[i] = todo[i + 1]
         /\ \A i \in DOMAIN todo' : todo'[i][2] <= Len(log[todo'[i][1]])
<1>1. todo \in Seq(Entries) /\ \A i \in DOMAIN todo : todo[i][2] <= Len(log[todo[i][1]])
  BY DEF PollInv, PollerOK
<1>2. /\ Len(todo) \in Nat \ {0} /\ DOMAIN todo = 1..Len(todo)
      /\ 1 \in DOMAIN todo /\ Head(todo) = todo[1] /\ todo[1] \in Entries
      /\ todo' \in Seq(Entries) /\ Len(todo') = Len(todo) - 1
      /\ DOMAIN todo' = 1..(Len(todo) - 1)
      /\ \A i \in 1..(Len(todo) - 1) : i + 1 \in DOMAIN todo /\ todo'[i] = todo[i + 1]
  BY <1>1, TailIs
<1>3. todo[1][1] \in Streams /\ todo[1][2] \in 1..MaxEntries /\ todo[1][2] <= Len(log[todo[1][1]])
  BY <1>1, <1>2, EntryParts
<1>4. applied' = Append(applied, todo[1])
  BY <1>2 DEF Apply
<1>5. ShownOK'
  BY <1>2, <1>3, ApplyShows DEF PollInv
<1>6. \A i \in DOMAIN todo' : todo'[i][2] <= Len(log[todo'[i][1]])
  BY <1>1, <1>2
<1> QED
  BY <1>2, <1>3, <1>4, <1>5, <1>6

LEMMA SeedApplyKeeps ==
  ASSUME PollInv, SeedApply
  PROVE  PollInv'
<1> PICK p, n : p = todo[1] /\ n = Len(todo)
  OBVIOUS
<1>1. /\ pc = "seed" /\ todo # <<>> /\ Apply(Head(todo)) /\ todo' = Tail(todo)
      /\ UNCHANGED <<log, clock, pc, seeding, cursor>>
  BY DEF SeedApply, redis
<1>2. /\ p \in Entries /\ p[1] \in Streams /\ p[2] \in Nat \ {0}
      /\ applied' = Append(applied, p)
      /\ ShownOK'
      /\ n \in Nat \ {0} /\ DOMAIN todo = 1..n /\ 1 \in DOMAIN todo
      /\ todo' \in Seq(Entries) /\ Len(todo') = n - 1
      /\ DOMAIN todo' = 1..(n - 1)
      /\ \A i \in 1..(n - 1) : i + 1 \in DOMAIN todo /\ todo'[i] = todo[i + 1]
      /\ \A i \in DOMAIN todo' : todo'[i][2] <= Len(log[todo'[i][1]])
  BY <1>1, HeadApplied
<1>3. \A i \in DOMAIN todo : /\ Seeded(todo[i][1])
                             /\ todo[i][2] = cursor[todo[i][1]] - n + i
  BY <1>1 DEF PollInv, SeedOK
<1>4. cursor \in [Streams -> Nat]
  BY DEF PollInv, PollerOK
<1>5. Seeded(p[1]) /\ p[2] = cursor[p[1]] - n + 1 /\ cursor[p[1]] \in Nat
  BY <1>2, <1>3, <1>4
<1>6. LogOK'
  BY <1>1 DEF PollInv, LogOK
<1>7. PollerOK'
  BY <1>1, <1>2 DEF PollInv, PollerOK
<1>8. SeedOK'
  <2>1. ASSUME NEW i \in DOMAIN todo'
        PROVE  /\ todo'[i][1] = StreamNames[seeding] /\ seeding >= 1
               /\ todo'[i][2] = cursor[todo'[i][1]] - (n - 1) + i
    <3>1. i \in 1..(n - 1) /\ i + 1 \in DOMAIN todo /\ todo'[i] = todo[i + 1]
      BY <1>2
    <3>2. /\ todo[i + 1][1] = StreamNames[seeding] /\ seeding >= 1
          /\ todo[i + 1][2] = cursor[todo[i + 1][1]] - n + (i + 1)
      BY <1>3, <3>1 DEF Seeded
    <3>3. StreamNames[seeding] \in Streams
      BY <1>2, <1>5 DEF Seeded
    <3>4. cursor[StreamNames[seeding]] \in Nat
      BY <1>4, <3>3
    <3> DEFINE c == cursor[StreamNames[seeding]]
    <3> HIDE DEF c
    <3>5. c - n + (i + 1) = c - (n - 1) + i
      <4>1. c \in Nat /\ n \in Nat /\ i \in Nat
        BY <1>2, <3>1, <3>4 DEF c
      <4> QED
        BY <4>1
    <3> QED
      BY <3>1, <3>2, <3>5 DEF c
  <2>2. \A k \in 1..2 : k > seeding => cursor[StreamNames[k]] = 0
    BY <1>1 DEF PollInv, SeedOK
  <2> QED
    BY <1>1, <1>2, <2>1, <2>2 DEF SeedOK, Seeded
<1>9. BatchOK'
  BY <1>1 DEF BatchOK
<1>10. cursor'[p[1]] # 0 /\ Mark(p[1])' = p[2] /\ Mark(p[1]) = p[2] - 1
  <2>1. cursor'[p[1]] = cursor[p[1]] /\ p[1] = StreamNames[seeding'] /\ seeding' >= 1 /\ pc' = "seed"
    BY <1>1, <1>5 DEF Seeded
  <2>2. Mark(p[1])' = cursor[p[1]] - (n - 1) /\ Mark(p[1]) = cursor[p[1]] - n
    BY <1>2, <1>5, <2>1 DEF Mark, Seeded
  <2> DEFINE c == cursor[p[1]]
             q == p[2]
  <2>3. c \in Nat /\ q \in Nat \ {0} /\ q = c - n + 1 /\ n \in Nat \ {0}
    BY <1>2, <1>5
  <2> HIDE DEF c, q
  <2>4. c # 0 /\ c - (n - 1) = q /\ c - n = q - 1
    BY <2>3
  <2> QED
    BY <2>1, <2>2, <2>4 DEF c, q
<1>11. \A k \in DOMAIN applied : IsLast(k) /\ applied[k][1] = p[1] => p[2] = applied[k][2] + 1
  <2>1. p[2] \in Nat /\ \A x : x = p[2] - 1 => p[2] = x + 1
    BY <1>2
  <2> QED
    BY <1>10, <2>1 DEF PollInv, AppliedOK
<1>12. \A t \in Streams : t # p[1] => cursor'[t] = cursor[t] /\ Mark(t)' = Mark(t)
  <2> TAKE t \in Streams
  <2> SUFFICES ASSUME t # p[1] PROVE cursor'[t] = cursor[t] /\ Mark(t)' = Mark(t)
    OBVIOUS
  <2>1. t # StreamNames[seeding] /\ seeding' = seeding
    BY <1>1, <1>5 DEF Seeded
  <2> QED
    BY <1>1, <2>1 DEF Mark, Seeded
<1>13. AppliedOK'
  <2>1. p \in Entries /\ applied' = Append(applied, p)
    BY <1>2
  <2> QED
    BY <1>10, <1>11, <1>12, <2>1, AppliedGoesOn
<1> QED
  BY <1>2, <1>6, <1>7, <1>8, <1>9, <1>13 DEF PollInv

LEMMA ApplyNextKeeps ==
  ASSUME PollInv, ApplyNext
  PROVE  PollInv'
<1> PICK p, n : p = todo[1] /\ n = Len(todo)
  OBVIOUS
<1>1. /\ pc = "apply" /\ todo # <<>> /\ Apply(Head(todo)) /\ todo' = Tail(todo)
      /\ cursor' = [cursor EXCEPT ![Head(todo)[1]] = Head(todo)[2]]
      /\ pc' = (IF todo' = <<>> THEN "poll" ELSE "apply")
      /\ UNCHANGED <<log, clock, seeding>>
  BY DEF ApplyNext, redis
<1>2. /\ p \in Entries /\ p[1] \in Streams /\ p[2] \in Nat \ {0}
      /\ p[2] <= Len(log[p[1]])
      /\ applied' = Append(applied, p)
      /\ ShownOK'
      /\ n \in Nat \ {0} /\ DOMAIN todo = 1..n /\ 1 \in DOMAIN todo
      /\ todo' \in Seq(Entries) /\ Len(todo') = n - 1
      /\ DOMAIN todo' = 1..(n - 1)
      /\ \A i \in 1..(n - 1) : i + 1 \in DOMAIN todo /\ todo'[i] = todo[i + 1]
      /\ \A i \in DOMAIN todo' : todo'[i][2] <= Len(log[todo'[i][1]])
  BY <1>1, HeadApplied
<1>3. Head(todo) = p
  BY <1>1, TailIs DEF PollInv, PollerOK
<1>4. /\ \A i \in DOMAIN todo : i + 1 \in DOMAIN todo /\ todo[i + 1][1] = todo[i][1] =>
            todo[i + 1][2] = todo[i][2] + 1
      /\ \A i, j, k \in DOMAIN todo : i < j /\ j < k /\ todo[i][1] = todo[k][1] =>
            todo[j][1] = todo[i][1]
      /\ \A i \in DOMAIN todo :
            (i = 1 \/ todo[i - 1][1] # todo[i][1]) /\ cursor[todo[i][1]] # 0 =>
                todo[i][2] = cursor[todo[i][1]] + 1
  BY <1>1 DEF PollInv, BatchOK
<1>5. cursor \in [Streams -> Nat] /\ \A s \in Streams : cursor[s] <= Len(log[s])
  BY DEF PollInv, PollerOK
<1>6. /\ cursor' \in [Streams -> Nat] /\ cursor'[p[1]] = p[2]
      /\ \A t \in Streams : t # p[1] => cursor'[t] = cursor[t]
  BY <1>1, <1>2, <1>3, <1>5
<1>7. LogOK'
  BY <1>1 DEF PollInv, LogOK
<1>8. PollerOK'
  <2>1. \A s \in Streams : cursor'[s] <= Len(log[s])
    BY <1>2, <1>5, <1>6
  <2>2. pc' \in {"poll", "apply"} /\ (pc' = "poll" => todo' = <<>>)
    BY <1>1
  <2>3. seeding' \in 0..2
    BY <1>1 DEF PollInv, PollerOK
  <2> QED
    BY <1>1, <1>2, <1>6, <2>1, <2>2, <2>3 DEF PollerOK
<1>9. SeedOK'
  BY <1>1 DEF SeedOK
<1>10. BatchOK'
  <2>1. ASSUME NEW i \in DOMAIN todo', i + 1 \in DOMAIN todo', todo'[i + 1][1] = todo'[i][1]
        PROVE  todo'[i + 1][2] = todo'[i][2] + 1
    <3>1. i \in 1..(n - 1) /\ i + 1 \in 1..(n - 1)
      BY <1>2, <2>1
    <3>2. /\ todo'[i] = todo[i + 1] /\ todo'[i + 1] = todo[(i + 1) + 1]
          /\ i + 1 \in DOMAIN todo /\ (i + 1) + 1 \in DOMAIN todo
      BY <1>2, <3>1
    <3> QED
      BY <1>4, <2>1, <3>2
  <2>2. ASSUME NEW i \in DOMAIN todo', NEW j \in DOMAIN todo', NEW k \in DOMAIN todo',
               i < j, j < k, todo'[i][1] = todo'[k][1]
        PROVE  todo'[j][1] = todo'[i][1]
    <3>1. i + 1 < j + 1 /\ j + 1 < k + 1
      BY <1>2, <2>2
    <3>2. /\ todo'[i] = todo[i + 1] /\ todo'[j] = todo[j + 1] /\ todo'[k] = todo[k + 1]
          /\ i + 1 \in DOMAIN todo /\ j + 1 \in DOMAIN todo /\ k + 1 \in DOMAIN todo
      BY <1>2
    <3> QED
      BY <1>4, <2>2, <3>1, <3>2
  <2>3. ASSUME NEW i \in DOMAIN todo', i = 1 \/ todo'[i - 1][1] # todo'[i][1],
               cursor'[todo'[i][1]] # 0
        PROVE  todo'[i][2] = cursor'[todo'[i][1]] + 1
    <3> DEFINE t == todo'[i][1]
    <3>1. i \in 1..(n - 1) /\ todo'[i] = todo[i + 1] /\ i + 1 \in DOMAIN todo /\ i \in DOMAIN todo
      BY <1>2
    <3>2. t = todo[i + 1][1] /\ t \in Streams
      BY <1>2, <3>1, ElementOfSeq, EntryParts
    <3>3. i # 1 => i - 1 \in 1..(n - 1) /\ todo'[i - 1] = todo[i]
      <4> SUFFICES ASSUME i # 1 PROVE i - 1 \in 1..(n - 1) /\ todo'[i - 1] = todo[i]
        OBVIOUS
      <4>1. i - 1 \in 1..(n - 1) /\ (i - 1) + 1 = i
        BY <3>1
      <4> QED
        BY <1>2, <4>1
    <3>4. CASE t = p[1]
      <4>1. CASE i = 1
        <5>1. todo[1 + 1][2] = todo[1][2] + 1
          BY <1>4, <3>1, <3>2, <3>4, <4>1
        <5> QED
          BY <1>6, <3>1, <3>4, <4>1, <5>1
      <4>2. CASE i # 1
        <5>1. todo[i][1] # t
          BY <2>3, <3>3, <4>2
        <5>2. 1 < i /\ i < i + 1
          BY <3>1, <4>2
        <5>3. todo[1][1] = todo[i + 1][1]
          BY <3>2, <3>4
        <5>4. todo[i][1] = todo[1][1]
          BY <1>2, <1>4, <3>1, <5>2, <5>3
        <5> QED
          BY <3>4, <5>1, <5>4
      <4> QED
        BY <4>1, <4>2
    <3>5. CASE t # p[1]
      <4>1. cursor'[t] = cursor[t]
        BY <1>6, <3>2, <3>5
      <4>2. (i + 1) - 1 = i /\ todo[i][1] # t
        <5>1. CASE i = 1
          BY <3>5, <5>1
        <5>2. CASE i # 1
          BY <2>3, <3>1, <3>3, <5>2
        <5> QED
          BY <5>1, <5>2
      <4>3. todo[(i + 1) - 1][1] # todo[i + 1][1] /\ cursor[todo[i + 1][1]] # 0
        BY <2>3, <3>2, <4>1, <4>2
      <4>4. todo[i + 1][2] = cursor[todo[i + 1][1]] + 1
        BY <1>4, <3>1, <4>3
      <4> QED
        BY <3>1, <3>2, <4>1, <4>4
    <3> QED
      BY <3>4, <3>5
  <2> QED
    BY <2>1, <2>2, <2>3 DEF BatchOK
<1>11. \A t \in Streams : ~Seeded(t) /\ Mark(t) = cursor[t]
  BY <1>1 DEF Mark, Seeded
<1>12. pc' # "seed"
  BY <1>1
<1>13. \A k \in DOMAIN applied : IsLast(k) /\ applied[k][1] = p[1] => p[2] = applied[k][2] + 1
  <2> TAKE k \in DOMAIN applied
  <2> SUFFICES ASSUME IsLast(k), applied[k][1] = p[1] PROVE p[2] = applied[k][2] + 1
    OBVIOUS
  <2>1. cursor[p[1]] # 0 /\ applied[k][2] = Mark(p[1])
    BY DEF PollInv, AppliedOK
  <2>2. p[2] = cursor[p[1]] + 1
    BY <1>2, <1>4, <2>1
  <2> QED
    BY <1>2, <1>11, <2>1, <2>2
<1>14. AppliedOK'
  <2>1. cursor'[p[1]] # 0
    BY <1>2, <1>6
  <2>2. Mark(p[1])' = p[2]
    BY <1>6, <1>12 DEF Mark, Seeded
  <2>3. \A t \in Streams : t # p[1] => cursor'[t] = cursor[t] /\ Mark(t)' = Mark(t)
    BY <1>6, <1>11, <1>12 DEF Mark, Seeded
  <2>4. p \in Entries /\ applied' = Append(applied, p)
    BY <1>2
  <2> QED
    BY <1>13, <2>1, <2>2, <2>3, <2>4, AppliedGoesOn
<1> QED
  BY <1>2, <1>7, <1>8, <1>9, <1>10, <1>14 DEF PollInv

(***************************************************************************)
(* The dashboard                                                           *)
(***************************************************************************)
LEMMA FaultBounded ==
  ASSUME DashboardOK, Fault
  PROVE  faults' \in 0..MaxFaults
BY DEF DashboardOK, Fault

LEMMA DashboardSame ==
  ASSUME DashboardOK, UNCHANGED <<dashboard, applied>>, faults' \in 0..MaxFaults,
         pc' = "seed" => pc = "seed"
  PROVE  DashboardOK'
BY DEF DashboardOK, dashboard, Subscribed

LEMMA PollerKeeps ==
  ASSUME IInv, PollerStep
  PROVE  IInv'
<1>1. PollInv /\ DashboardOK /\ faults \in 0..MaxFaults
  BY DEF IInv, DashboardOK
<1>2. CASE SeedRead
  <2>1. PollInv'
    BY <1>1, <1>2, SeedReadKeeps
  <2>2. faults' \in 0..MaxFaults
    BY <1>1, <1>2, FaultBounded DEF SeedRead
  <2>3. DashboardOK'
    BY <1>1, <1>2, <2>2, DashboardSame DEF SeedRead, state
  <2> QED
    BY <2>1, <2>3 DEF IInv
<1>3. CASE SeedApply
  <2>1. PollInv'
    BY <1>1, <1>3, SeedApplyKeeps
  <2>2. DashboardOK'
    BY <1>1, <1>3 DEF SeedApply, DashboardOK, dashboard, Subscribed
  <2> QED
    BY <2>1, <2>2 DEF IInv
<1>4. CASE Serve
  BY <1>1, <1>4, ServeKeeps, DashboardSame DEF Serve, state, IInv
<1>5. CASE Poll
  BY <1>1, <1>5, PollKeeps, DashboardSame DEF Poll, state, IInv
<1>6. CASE Respond
  BY <1>1, <1>6, RespondKeepsAll, DashboardSame DEF Respond, state, IInv
<1>7. CASE PollFails
  BY <1>1, <1>7, PollFailsKeeps, FaultBounded, DashboardSame DEF PollFails, state, IInv
<1>8. CASE Wake
  BY <1>1, <1>8, WakeKeeps, DashboardSame DEF Wake, Again, state, IInv
<1>9. CASE ApplyNext
  <2>1. PollInv'
    BY <1>1, <1>9, ApplyNextKeeps
  <2>2. pc' # "seed" /\ UNCHANGED <<phase, fetch, view, news, faults>>
        /\ queue' = IF Subscribed THEN queue + 1 ELSE queue
    BY <1>9 DEF ApplyNext
  <2>3. queue \in Nat /\ queue' \in Nat /\ (Subscribed => queue' # 0)
    <3>1. queue \in Nat
      BY <1>1 DEF DashboardOK
    <3> QED
      BY <2>2, <3>1
  <2>4. DashboardOK'
    BY <1>1, <2>2, <2>3 DEF DashboardOK, Subscribed
  <2> QED
    BY <2>1, <2>4 DEF IInv
<1> QED
  BY <1>2, <1>3, <1>4, <1>5, <1>6, <1>7, <1>8, <1>9 DEF PollerStep

\* What leaves the server as it is.
LEMMA ServerSame ==
  ASSUME PollInv, UNCHANGED <<redis, poller, nodes, applied>>
  PROVE  PollInv'
<1>1. clock' \in 0..MaxClock /\ UNCHANGED log
  BY DEF PollInv, LogOK, redis
<1> QED
  BY <1>1, OthersKeep

LEMMA DashboardKeeps ==
  ASSUME IInv, Mount \/ DashboardStep \/ Disconnect
  PROVE  IInv'
<1>1. PollInv /\ DashboardOK /\ faults \in 0..MaxFaults /\ queue \in Nat
  BY DEF IInv, DashboardOK
<1>2. CASE Mount
  <2>1. PollInv'
    BY <1>1, <1>2, ServerSame DEF Mount, state
  <2>2. DashboardOK'
    BY <1>1, <1>2 DEF Mount, DashboardOK, poller, state, Subscribed
  <2> QED
    BY <2>1, <2>2 DEF IInv
<1>3. CASE Subscribe
  <2>1. PollInv'
    BY <1>1, <1>3, ServerSame DEF Subscribe, state
  <2>2. DashboardOK'
    BY <1>1, <1>3 DEF Subscribe, DashboardOK, poller, state, Subscribed
  <2> QED
    BY <2>1, <2>2 DEF IInv
<1>4. CASE StreamBegins
  <2>1. PollInv'
    BY <1>1, <1>4, ServerSame DEF StreamBegins, state
  <2>2. DashboardOK'
    BY <1>1, <1>4 DEF StreamBegins, DashboardOK, poller, state, Subscribed
  <2> QED
    BY <2>1, <2>2 DEF IInv
<1>5. CASE Receive
  <2>1. PollInv'
    BY <1>1, <1>5, ServerSame DEF Receive, state
  <2>2. queue' \in Nat
    BY <1>1, <1>5 DEF Receive
  <2>3. DashboardOK'
    BY <1>1, <1>5, <2>2 DEF Receive, Refetch, DashboardOK, poller, state, Subscribed
  <2> QED
    BY <2>1, <2>3 DEF IInv
<1>6. CASE Answer
  <2>1. PollInv'
    BY <1>1, <1>6, ServerSame DEF Answer, state
  <2>2. DashboardOK'
    BY <1>1, <1>6 DEF Answer, DashboardOK, poller, state, Subscribed
  <2> QED
    BY <2>1, <2>2 DEF IInv
<1>7. CASE Arrive
  <2>1. PollInv'
    BY <1>1, <1>7, ServerSame DEF Arrive, state
  <2>2. DashboardOK'
    BY <1>1, <1>7 DEF Arrive, DashboardOK, poller, state, Subscribed
  <2> QED
    BY <2>1, <2>2 DEF IInv
<1>8. CASE FetchFails
  <2>1. PollInv'
    BY <1>1, <1>8, ServerSame DEF FetchFails, state
  <2>2. faults' \in 0..MaxFaults
    BY <1>1, <1>8, FaultBounded DEF FetchFails
  <2>3. fetch' = None /\ view' = <<"static">> /\ view' # None
    BY <1>8 DEF FetchFails, None
  <2>4. DashboardOK'
    BY <1>1, <1>8, <2>2, <2>3 DEF FetchFails, DashboardOK, poller, state, Subscribed
  <2> QED
    BY <2>1, <2>4 DEF IInv
<1>9. CASE Disconnect
  <2>1. PollInv'
    BY <1>1, <1>9, ServerSame DEF Disconnect, state
  <2>2. faults' \in 0..MaxFaults
    BY <1>1, <1>9, FaultBounded DEF Disconnect
  <2>3. DashboardOK'
    BY <1>1, <1>9, <2>2 DEF Disconnect, DashboardOK, poller, state, Subscribed
  <2> QED
    BY <2>1, <2>3 DEF IInv
<1> QED
  BY <1>2, <1>3, <1>4, <1>5, <1>6, <1>7, <1>8, <1>9 DEF DashboardStep

(***************************************************************************)
(* The invariant is inductive                                              *)
(***************************************************************************)
LEMMA InitIInv == Init => IInv
<1> SUFFICES ASSUME Init PROVE IInv
  OBVIOUS
<1>1. log = [s \in Streams |-> <<>>] /\ clock = 0
  BY DEF Init
<1>2. LogOK
  <2>1. log["web"] = <<>> /\ log["jds"] = <<>>
    BY <1>1, StreamsAre
  <2>2. Len(log["web"]) = 0 /\ Len(log["jds"]) = 0
    BY <2>1
  <2>3. Len(log["web"]) + Len(log["jds"]) = 0
    BY <2>2
  <2>4. log \in [Streams -> Seq(LogEntry)]
    BY <1>1
  <2>5. 0 <= MaxEntries /\ clock \in 0..MaxClock
    BY <1>1
  <2>6. Len(log["web"]) + Len(log["jds"]) <= MaxEntries
    BY <2>3, <2>5, Zenon
  <2> QED
    BY <2>4, <2>5, <2>6 DEF LogOK
<1>3. /\ pc = "seed" /\ seeding = 0 /\ cursor = NoCursor /\ todo = <<>> /\ applied = <<>>
      /\ DOMAIN todo = {} /\ DOMAIN applied = {}
  BY DEF Init
<1>4. \A s \in Streams : cursor[s] = 0 /\ Len(log[s]) \in Nat
  BY <1>2, <1>3, LenProperties DEF NoCursor, Dollar, LogOK
<1>5. PollerOK /\ SeedOK /\ BatchOK
  BY <1>3, <1>4, StreamsAre DEF PollerOK, SeedOK, BatchOK, NoCursor, Dollar
<1>6. AppliedOK
  BY <1>3 DEF AppliedOK, AppliedContiguous
<1>7. ShownOK
  BY DEF Init, ShownOK, NoNodes, NodeType
<1>8. DashboardOK
  <2>1. /\ phase = "away" /\ queue = 0 /\ news = FALSE /\ faults = 0 /\ 0 \in 0..MaxFaults
    BY DEF Init
  <2> QED
    BY <2>1 DEF DashboardOK, Subscribed
<1> QED
  BY <1>2, <1>5, <1>6, <1>7, <1>8 DEF IInv, PollInv

LEMMA StepKeeps == IInv /\ [Next]_vars => IInv'
<1> SUFFICES ASSUME IInv, [Next]_vars PROVE IInv'
  OBVIOUS
<1>1. PollInv /\ DashboardOK /\ faults \in 0..MaxFaults
  BY DEF IInv, DashboardOK
<1>2. ASSUME NEW s \in Streams, NEW level \in LevelsOf[s], Publish(s, level)
      PROVE  IInv'
  <2>1. PollInv'
    BY <1>1, <1>2, PublishKeeps
  <2>2. DashboardOK'
    BY <1>1, <1>2, DashboardSame DEF Publish, poller, state
  <2> QED
    BY <2>1, <2>2 DEF IInv
<1>3. CASE Tick
  <2>1. clock' \in 0..MaxClock
    BY <1>1, <1>3 DEF Tick, PollInv, LogOK
  <2>2. PollInv'
    BY <1>1, <1>3, <2>1, OthersKeep DEF Tick, state, PollInv, ShownOK
  <2>3. DashboardOK'
    BY <1>1, <1>3, DashboardSame DEF Tick, poller, state
  <2> QED
    BY <2>2, <2>3 DEF IInv
<1>4. CASE Restart
  <2>1. PollInv'
    BY <1>1, <1>4, RestartKeeps
  <2>2. faults' \in 0..MaxFaults
    BY <1>1, <1>4, FaultBounded DEF Restart
  <2>3. /\ phase' \in {"away", "connecting"} /\ queue' = 0 /\ news' = FALSE
    BY <1>4 DEF Restart
  <2>4. DashboardOK'
    BY <2>2, <2>3 DEF DashboardOK, Subscribed
  <2> QED
    BY <2>1, <2>4 DEF IInv
<1>5. CASE UNCHANGED vars
  <2>1. PollInv'
    BY <1>1, <1>5, ServerSame DEF vars, state
  <2>2. DashboardOK'
    BY <1>1, <1>5, DashboardSame DEF vars, poller, state
  <2> QED
    BY <2>1, <2>2 DEF IInv
<1> QED
  BY <1>2, <1>3, <1>4, <1>5, PollerKeeps, DashboardKeeps DEF Next

(***************************************************************************)
(* The theorems                                                            *)
(***************************************************************************)
\* What the server remembers of the streams agrees with them and with what it has applied, and
\* a dashboard that has read what it was told, and of that something while it had data, fetches
\* it or has it, in every reachable state.
THEOREM Inductive == Spec => []IInv
<1>1. Init => IInv
  BY InitIInv
<1>2. IInv /\ [Next]_vars => IInv'
  BY StepKeeps
<1> QED
  BY <1>1, <1>2, PTL DEF Spec

\* However polls fail, batches end and the process is replaced, a process applies the entries
\* of a stream one after the other, none twice and none left out (main.py:236-272).
THEOREM OneAfterTheOther == Spec => []AppliedInOrder
<1>1. IInv => AppliedInOrder
  <2> SUFFICES ASSUME IInv PROVE AppliedInOrder
    OBVIOUS
  <2>1. PollInv /\ DashboardOK
    BY DEF IInv
  <2>2. log \in [Streams -> Seq([at : 0..MaxClock, level : Levels])] /\ clock \in 0..MaxClock
    BY <2>1 DEF PollInv, LogOK, LogEntry
  <2>3. /\ pc \in {"seed", "poll", "blocked", "apply", "sleep"} /\ seeding \in 0..Len(StreamNames)
        /\ todo \in Seq(Entries)
    BY <2>1, StreamsAre DEF PollInv, PollerOK
  <2>4. \A s \in Streams : cursor[s] \in 0..Len(log[s])
    BY <2>1, LogLen DEF PollInv, PollerOK
  <2>5. \A n \in Nodes : nodes[n] \in [events : Nat, errors : Seq(0..MaxClock)]
    BY <2>1 DEF PollInv, ShownOK, NodeType
  <2>6. applied \in Seq(Entries) /\ AppliedContiguous
    BY <2>1 DEF PollInv, AppliedOK
  <2>7. /\ phase \in {"away", "connecting", "open", "on"}
        /\ queue \in Nat /\ news \in BOOLEAN /\ faults \in 0..MaxFaults
    BY <2>1 DEF DashboardOK
  <2>8. TypeOK
    BY <2>2, <2>3, <2>4, <2>5, <2>6, <2>7 DEF TypeOK
  <2> QED
    BY <2>6, <2>8 DEF AppliedInOrder
<1> QED
  BY <1>1, Inductive, PTL

\* However updates, snapshots, failures and reconnections meet, a dashboard that since it
\* subscribed has read an update while it had data, has read all it was told and waits for
\* nothing shows all that the server has applied, or says that its data is static
\* (main.py:224-229, hooks/index.ts:281-286).
THEOREM DashboardCatchesUp == Spec => []DashboardCurrent
<1>1. IInv => DashboardCurrent
  <2> SUFFICES ASSUME DashboardOK, phase = "on", queue = 0, fetch = None, news
               PROVE  view \in {<<"got", Len(applied)>>, <<"static">>}
    BY DEF IInv, DashboardCurrent
  <2>1. fetch \notin {<<"asked">>, <<"got", Len(applied)>>}
    BY DEF None
  <2> QED
    BY <2>1 DEF DashboardOK, Subscribed
<1> QED
  BY <1>1, Inductive, PTL

(***************************************************************************)
(* The errors that are shown                                               *)
(***************************************************************************)
\* The entries of a stream are in the order of their times, and none is later than now.
LogTimes ==
    \A s \in Streams : \A i, j \in 1..Len(log[s]) :
        /\ log[s][i].at <= clock
        /\ i <= j => log[s][i].at <= log[s][j].at

\* What has been applied is in the streams.
HeldOK == \A k \in DOMAIN applied : applied[k][2] <= Len(log[applied[k][1]])

\* The entries applied, in their order, and the recent errors among those a node received.
Arrived == [k \in DOMAIN applied |-> Entry(applied[k])]
RecentIn(arrived, received) ==
    {k \in received : /\ arrived[k].level = "error"
                      /\ \A l \in received : arrived[l].at <= arrived[k].at + Window}

\* src has the place in which each of the errors has arrived: they are in the order in which
\* they came, and each of the recent ones is there.
Trace(arrived, received, errors, src) ==
    /\ src \in [DOMAIN errors -> received]
    /\ \A i, j \in DOMAIN errors : i < j => src[i] < src[j]
    /\ \A i \in DOMAIN errors : arrived[src[i]].level = "error" /\ arrived[src[i]].at = errors[i]
    /\ \A k \in RecentIn(arrived, received) : \E i \in DOMAIN errors : src[i] = k

\* Of a node with one stream no other error is there.
Traced(n, src) ==
    /\ Trace(Arrived, Received(n), nodes[n].errors, src)
    /\ n = "scrape-yc-script" =>
          \A i \in DOMAIN nodes[n].errors : src[i] \in RecentIn(Arrived, Received(n))

TracedOK == \A n \in Nodes : \E src \in [DOMAIN nodes[n].errors -> Received(n)] : Traced(n, src)
ErrorsOK == LogTimes /\ HeldOK /\ TracedOK

LEMMA Least ==
  ASSUME NEW S \in SUBSET Nat, S # {}
  PROVE  \E m \in S : \A k \in S : m <= k
<1>1. PICK m \in S : \A k \in S : <<k, m>> \notin OpToRel(<, Nat)
  BY NatLessThanWellFounded, WFMin
<1>2. \A k \in S : ~(k < m)
  BY <1>1 DEF OpToRel
<1> QED
  BY <1>2

\* What is kept of a sequence are its elements from the first that is not old.
LEMMA KeptFrom ==
  ASSUME NEW T, NEW values \in Seq(T), NEW old
  PROVE  \E g \in 0..Len(values) :
            /\ Kept(values, old) = SubSeq(values, g + 1, Len(values))
            /\ \A i \in 1..g : i \in old
            /\ g + 1 \in 1..Len(values) => g + 1 \notin old
<1> DEFINE n == Len(values)
           gone == {k \in DOMAIN values : 1..k \subseteq old}
<1>1. n \in Nat /\ DOMAIN values = 1..n
  BY LenProperties
<1> DEFINE young == {k \in 1..n : k \notin old}
<1>2. \E g \in 0..n : (\A i \in 1..g : i \in old) /\ (g + 1 \in 1..n => g + 1 \notin old)
  <2>1. CASE young = {}
    <3>1. n \in 0..n /\ (\A i \in 1..n : i \in old) /\ n + 1 \notin 1..n
      BY <1>1, <2>1
    <3> QED
      BY <3>1
  <2>2. CASE young # {}
    <3>1. young \in SUBSET Nat
      OBVIOUS
    <3>2. PICK m \in young : \A k \in young : m <= k
      <4> HIDE DEF young
      <4> QED
        BY <2>2, <3>1, Least
    <3>3. m \in 1..n /\ m \notin old /\ m - 1 \in 0..n /\ (m - 1) + 1 = m
      BY <1>1, <3>2
    <3>4. ASSUME NEW i \in 1..(m - 1) PROVE i \in old
      <4>1. i \in 1..n /\ ~(m <= i)
        BY <1>1, <3>3
      <4> QED
        BY <3>2, <4>1
    <3> QED
      BY <3>3, <3>4
  <2> QED
    BY <2>1, <2>2
<1>3. PICK g \in 0..n : (\A i \in 1..g : i \in old) /\ (g + 1 \in 1..n => g + 1 \notin old)
  BY <1>2
<1>4. gone = 1..g
  <2>1. ASSUME NEW k \in gone PROVE k \in 1..g
    <3>1. k \in 1..n /\ 1..k \subseteq old
      BY <1>1
    <3>2. CASE g + 1 <= k
      <4>1. g + 1 \in 1..k /\ g + 1 \in 1..n
        BY <1>1, <3>1, <3>2
      <4> QED
        BY <1>3, <3>1, <4>1
    <3> QED
      BY <1>1, <3>1, <3>2
  <2>2. ASSUME NEW k \in 1..g PROVE k \in gone
    <3>1. k \in 1..n /\ 1..k \subseteq 1..g
      BY <1>1
    <3> QED
      BY <1>1, <1>3, <3>1
  <2> QED
    BY <2>1, <2>2
<1>5. Cardinality(1..g) = g
  <2>1. 1 \in Int /\ g \in Int /\ g >= 0
    BY <1>1
  <2> QED
    BY <2>1, FS_Interval
<1>6. Kept(values, old) = SubSeq(values, g + 1, n)
  BY <1>4, <1>5 DEF Kept
<1> QED
  BY <1>3, <1>6

\* The errors of a node that is told of an entry: those from the first that is within the
\* window of it, and the entry, if it is one.
GoOn(errors, n, e, new, g) ==
    /\ g \in 0..n
    /\ \A i \in 1..g : errors[i] + Window < e.at
    /\ g + 1 \in 1..n => errors[g + 1] + Window >= e.at
    /\ DOMAIN new = 1..((n - g) + IF e.level = "error" THEN 1 ELSE 0)
    /\ \A i \in 1..(n - g) : new[i] = errors[g + i]
    /\ e.level = "error" => new[(n - g) + 1] = e.at

LEMMA RecordedErrors ==
  ASSUME NEW node \in NodeType, NEW e \in LogEntry, NEW errors, errors = node.errors,
         NEW n, n = Len(errors), NEW new, new = Recorded(node, e).errors
  PROVE  \E g \in 0..n : GoOn(errors, n, e, new, g)
<1> DEFINE old == {k \in DOMAIN errors : errors[k] + Window < e.at}
           last == IF e.level = "error" THEN <<e.at>> ELSE <<>>
<1>1. errors \in Seq(0..MaxClock) /\ n \in Nat /\ DOMAIN errors = 1..n
  BY LenProperties DEF NodeType
<1>2. \A i \in 1..n : errors[i] \in 0..MaxClock
  BY <1>1, ElementOfSeq
<1>3. e.at \in 0..MaxClock
  BY DEF LogEntry
<1>4. PICK g \in 0..n :
         /\ Kept(errors, old) = SubSeq(errors, g + 1, n)
         /\ \A i \in 1..g : i \in old
         /\ g + 1 \in 1..n => g + 1 \notin old
  <2> HIDE DEF old
  <2> QED
    BY <1>1, KeptFrom
<1>5. \A i \in 1..g : errors[i] + Window < e.at
  BY <1>4
<1>6. g + 1 \in 1..n => errors[g + 1] + Window >= e.at
  <2> SUFFICES ASSUME g + 1 \in 1..n PROVE errors[g + 1] + Window >= e.at
    OBVIOUS
  <2>1. ~(errors[g + 1] + Window < e.at)
    BY <1>1, <1>4
  <2> QED
    BY <1>2, <1>3, <2>1
<1> DEFINE kept == SubSeq(errors, g + 1, n)
<1>7. new = kept \o last
  BY <1>4 DEF Recorded, Trimmed
<1> HIDE DEF old
<1>8. /\ kept \in Seq(0..MaxClock) /\ Len(kept) = n - g
      /\ \A i \in 1..(n - g) : kept[i] = errors[g + i]
  <2>1. \A i \in (g + 1)..n : errors[i] \in 0..MaxClock
    BY <1>1, <1>2
  <2>2. g + 1 \in Nat /\ n \in Nat
    BY <1>1
  <2>3. /\ kept \in Seq(0..MaxClock)
        /\ Len(kept) = IF g + 1 <= n THEN n - (g + 1) + 1 ELSE 0
        /\ \A i \in 1..(n - (g + 1) + 1) : kept[i] = errors[(g + 1) + i - 1]
    BY <1>1, <2>1, <2>2, SubSeqProperties
  <2>4. Len(kept) = n - g
    BY <1>1, <2>3
  <2>5. ASSUME NEW i \in 1..(n - g) PROVE kept[i] = errors[g + i]
    <3>1. i \in 1..(n - (g + 1) + 1) /\ (g + 1) + i - 1 = g + i
      BY <1>1
    <3> QED
      BY <2>3, <3>1
  <2> QED
    BY <2>3, <2>4, <2>5
<1> DEFINE m == n - g
<1>9. m \in Nat
  BY <1>1
<1> HIDE DEF kept
<1>10. CASE e.level = "error"
  <2>1. last = <<e.at>> /\ last \in Seq(0..MaxClock) /\ Len(last) = 1 /\ last[1] = e.at
    BY <1>3, <1>10
  <2> HIDE DEF last, m
  <2>2. /\ new \in Seq(0..MaxClock) /\ Len(new) = m + 1
        /\ \A i \in 1..(m + 1) : new[i] = IF i <= m THEN kept[i] ELSE last[i - m]
    <3>1. kept \in Seq(0..MaxClock) /\ Len(kept) = m
      BY <1>8 DEF m
    <3> QED
      BY <1>7, <2>1, <3>1, ConcatProperties
  <2>3. DOMAIN new = 1..(m + 1)
    BY <2>2, LenProperties
  <2>4. ASSUME NEW i \in 1..m PROVE new[i] = errors[g + i]
    <3>1. i \in 1..(m + 1) /\ i <= m
      BY <1>9
    <3> QED
      BY <1>8, <2>2, <3>1 DEF m
  <2>5. new[m + 1] = e.at
    <3>1. m + 1 \in 1..(m + 1) /\ ~(m + 1 <= m) /\ (m + 1) - m = 1
      BY <1>9
    <3> QED
      BY <2>1, <2>2, <3>1
  <2> QED
    BY <1>5, <1>6, <1>10, <2>3, <2>4, <2>5 DEF m, GoOn
<1>11. CASE e.level # "error"
  <2>1. new = kept
    BY <1>7, <1>8, <1>11, ConcatEmptySeq
  <2>2. DOMAIN new = 1..(m + 0)
    BY <1>8, <1>9, <2>1, LenProperties
  <2> QED
    BY <1>5, <1>6, <1>8, <1>11, <2>1, <2>2 DEF m, GoOn
<1> QED
  BY <1>10, <1>11

Contiguous(seq) ==
    \A k, l \in DOMAIN seq :
        /\ k < l /\ seq[k][1] = seq[l][1]
        /\ \A m \in DOMAIN seq : k < m /\ m < l => seq[m][1] # seq[k][1]
        => seq[l][2] = seq[k][2] + 1

LEMMA Between ==
  ASSUME NEW k \in Nat, NEW m \in Nat, NEW l \in Nat, k < m, m < l
  PROVE  m - k \in Nat /\ l - m \in Nat /\ ~(l - k <= m - k) /\ ~(l - k <= l - m)
OBVIOUS

LEMMA Transitive ==
  ASSUME NEW x \in Nat, NEW y \in Nat, NEW z \in Nat, x < y, y < z \/ z = y + 1
  PROVE  x < z
OBVIOUS

\* Where each entry is next to the one before it, they are in the order of their places: two
\* that are not, as near to each other as any, would have none of their stream between them.
LEMMA InOrder ==
  ASSUME NEW seq \in Seq(Entries), Contiguous(seq),
         NEW a \in DOMAIN seq, NEW b \in DOMAIN seq, a < b, seq[a][1] = seq[b][1]
  PROVE  seq[a][2] < seq[b][2]
<1> DEFINE Apart(k, l) == k < l /\ seq[k][1] = seq[l][1] /\ ~(seq[k][2] < seq[l][2])
           bad == {d \in Nat : \E k, l \in DOMAIN seq : Apart(k, l) /\ d = l - k}
<1>1. DOMAIN seq \subseteq Nat /\ \A k \in DOMAIN seq : seq[k][2] \in Nat
  <2>1. DOMAIN seq \subseteq Nat
    BY LenProperties
  <2>2. \A k \in DOMAIN seq : seq[k] \in Entries
    BY ElementOfSeq, LenProperties
  <2> QED
    BY <2>1, <2>2, EntryParts
<1>2. CASE bad = {}
  <2>1. b - a \in Nat
    BY <1>1
  <2>2. ~Apart(a, b)
    BY <1>2, <2>1
  <2> QED
    BY <2>2
<1>3. CASE bad # {}
  <2>1. PICK d \in bad : \A c \in bad : d <= c
    <3>1. bad \in SUBSET Nat
      OBVIOUS
    <3> HIDE DEF bad
    <3> QED
      BY <1>3, <3>1, Least
  <2>2. PICK k \in DOMAIN seq, l \in DOMAIN seq : Apart(k, l) /\ d = l - k
    BY <2>1
  <2>3. ASSUME NEW m \in DOMAIN seq, k < m, m < l PROVE seq[m][1] # seq[k][1]
    <3> SUFFICES ASSUME seq[m][1] = seq[k][1] PROVE FALSE
      OBVIOUS
    <3>1. m - k \in Nat /\ l - m \in Nat /\ ~(d <= m - k) /\ ~(d <= l - m)
      <4>1. k \in Nat /\ m \in Nat /\ l \in Nat
        BY <1>1
      <4> HIDE DEF bad
      <4> QED
        BY <2>2, <2>3, <4>1, Between
    <3>2. ~Apart(k, m) /\ ~Apart(m, l)
      BY <2>1, <3>1
    <3>3. seq[k][2] < seq[m][2] /\ seq[m][2] < seq[l][2]
      BY <2>2, <2>3, <3>2
    <3> QED
      <4>1. seq[k][2] \in Nat /\ seq[m][2] \in Nat /\ seq[l][2] \in Nat
        BY <1>1
      <4>2. seq[k][2] < seq[l][2]
        BY <3>3, <4>1, Transitive
      <4> QED
        BY <2>2, <4>2
  <2>4. seq[l][2] = seq[k][2] + 1
    BY <2>2, <2>3 DEF Contiguous
  <2>5. seq[k][2] < seq[l][2]
    <3>1. seq[k][2] \in Nat /\ \A x \in Nat : x < x + 1
      BY <1>1
    <3> QED
      BY <2>4, <3>1, Zenon
  <2> QED
    BY <2>2, <2>5
<1> QED
  BY <1>2, <1>3

\* The errors that follow have a trace; and no other than recent ones are among them, if that
\* was so and what the node received is in the order of its times.
GoesOn(arr, arr2, R, S, errors, src, new) ==
    \E src2 \in [DOMAIN new -> S] :
       /\ Trace(arr2, S, new, src2)
       /\ (\A i \in DOMAIN errors : src[i] \in RecentIn(arr, R))
          /\ (\A k, l \in S : k <= l => arr2[k].at <= arr2[l].at)
          => \A i \in DOMAIN new : src2[i] \in RecentIn(arr2, S)

\* A node that is told of an entry.
LEMMA TraceGoesOn ==
  ASSUME NEW L \in Nat, NEW R \in SUBSET (1..L), NEW arr, NEW arr2, NEW e, e = arr2[L + 1],
         \A k \in 1..(L + 1) : arr2[k] \in LogEntry,
         \A k \in 1..L : arr2[k] = arr[k],
         NEW errors, NEW n \in Nat, DOMAIN errors = 1..n,
         NEW src, Trace(arr, R, errors, src),
         NEW new, NEW g \in 0..n, GoOn(errors, n, e, new, g)
  PROVE  GoesOn(arr, arr2, R, R \cup {L + 1}, errors, src, new)
<1> DEFINE m == n - g
           z == IF e.level = "error" THEN 1 ELSE 0
           S == R \cup {L + 1}
           src2 == [i \in 1..(m + z) |-> IF i <= m THEN src[g + i] ELSE L + 1]
<1>1. m \in Nat /\ z \in Nat /\ m + z \in Nat /\ DOMAIN new = 1..(m + z)
  BY DEF GoOn
<1>2. /\ src \in [1..n -> R]
      /\ \A i, j \in 1..n : i < j => src[i] < src[j]
      /\ \A i \in 1..n : arr[src[i]].level = "error" /\ arr[src[i]].at = errors[i]
      /\ \A k \in RecentIn(arr, R) : \E i \in 1..n : src[i] = k
  BY DEF Trace
<1>3. \A k \in 1..(L + 1) : arr2[k].at \in Nat
  BY DEF LogEntry
<1>4. \A i \in 1..n : src[i] \in R /\ src[i] \in 1..L /\ arr2[src[i]] = arr[src[i]]
  BY <1>2
<1>5. L + 1 \in 1..(L + 1) /\ \A k \in 1..L : k < L + 1 /\ k # L + 1 /\ k \in 1..(L + 1)
  OBVIOUS
<1>6. \A i \in 1..m : g + i \in 1..n /\ i \in 1..(m + z) /\ new[i] = errors[g + i]
  BY DEF GoOn
<1>7. e.level = "error" => new[m + 1] = e.at
  BY DEF GoOn
<1>8. g + 1 \in 1..n => errors[g + 1] + Window >= e.at
  BY DEF GoOn
<1>9. z = IF e.level = "error" THEN 1 ELSE 0
  OBVIOUS
<1>10. \A i \in 1..g : i \in 1..n /\ errors[i] + Window < e.at
  BY DEF GoOn
<1>11. /\ g \in Nat
       /\ \A i \in 1..n : i \in 1..g \/ i \in (g + 1)..n
       /\ \A i \in (g + 1)..n : i - g \in 1..m /\ g + (i - g) = i
  OBVIOUS
<1> HIDE DEF m, z
<1>12. \A i \in 1..(m + z) : \/ i \in 1..m /\ src2[i] = src[g + i]
                             \/ i = m + 1 /\ z = 1 /\ e.level = "error" /\ src2[i] = L + 1
  <2> TAKE i \in 1..(m + z)
  <2>1. CASE i <= m
    <3>1. i \in 1..m
      BY <1>1, <2>1
    <3> QED
      BY <2>1, <3>1
  <2>2. CASE ~(i <= m)
    <3>1. i = m + 1 /\ z = 1 /\ e.level = "error"
      BY <1>1, <1>9, <2>2
    <3> QED
      BY <2>2, <3>1
  <2> QED
    BY <2>1, <2>2
<1> HIDE DEF src2
<1>13. src2 \in [1..(m + z) -> S]
  <2>1. \A i \in 1..(m + z) : src2[i] \in S
    BY <1>4, <1>6, <1>12
  <2>2. src2 = [i \in 1..(m + z) |-> src2[i]]
    BY Zenon DEF src2
  <2> QED
    BY <2>1, <2>2
<1>14. ASSUME NEW i \in 1..(m + z), NEW j \in 1..(m + z), i < j PROVE src2[i] < src2[j]
  <2>1. i \in 1..m /\ src2[i] = src[g + i] /\ g + i \in 1..n
    <3>1. ~(i = m + 1 /\ z = 1)
      BY <1>1, <1>14
    <3> QED
      BY <1>6, <1>12, <3>1
  <2>2. CASE j \in 1..m /\ src2[j] = src[g + j]
    <3>1. g + i < g + j /\ g + j \in 1..n
      BY <1>6, <1>11, <1>14, <2>2
    <3> QED
      BY <1>2, <2>1, <2>2, <3>1
  <2>3. CASE src2[j] = L + 1
    BY <1>4, <1>5, <2>1, <2>3
  <2> QED
    BY <1>12, <2>2, <2>3
<1>15. ASSUME NEW i \in 1..(m + z)
       PROVE  arr2[src2[i]].level = "error" /\ arr2[src2[i]].at = new[i]
  <2>1. CASE i \in 1..m /\ src2[i] = src[g + i]
    <3>1. g + i \in 1..n /\ new[i] = errors[g + i]
      BY <1>6, <2>1
    <3>2. arr2[src[g + i]] = arr[src[g + i]]
      BY <1>4, <3>1
    <3> QED
      BY <1>2, <2>1, <3>1, <3>2
  <2>2. CASE i = m + 1 /\ e.level = "error" /\ src2[i] = L + 1
    BY <1>7, <2>2
  <2> QED
    BY <1>12, <2>1, <2>2
<1>16. ASSUME NEW k \in RecentIn(arr2, S) PROVE \E i \in 1..(m + z) : src2[i] = k
  <2>1. k \in S /\ arr2[k].level = "error" /\ \A l \in S : arr2[l].at <= arr2[k].at + Window
    BY <1>16 DEF RecentIn
  <2>2. CASE k = L + 1
    <3>1. z = 1 /\ m + 1 \in 1..(m + z) /\ m + 1 \notin 1..m
      BY <1>1, <1>9, <2>1, <2>2
    <3>2. src2[m + 1] = L + 1
      BY <1>12, <3>1
    <3> QED
      BY <2>2, <3>1, <3>2
  <2>3. CASE k \in R
    <3>1. k \in RecentIn(arr, R)
      <4>1. k \in 1..L /\ arr2[k] = arr[k] /\ \A l \in R : arr2[l] = arr[l]
        BY <2>3
      <4> QED
        BY <2>1, <2>3, <4>1 DEF RecentIn
    <3>2. PICK i \in 1..n : src[i] = k
      BY <1>2, <3>1
    <3>3. e.at <= errors[i] + Window
      BY <1>2, <1>4, <2>1, <3>2
    <3>4. i \notin 1..g
      <4>1. e.at \in Nat /\ errors[i] \in Nat
        <5>1. errors[i] = arr2[src[i]].at
          BY <1>2, <1>4
        <5> QED
          BY <1>3, <1>4, <1>5, <5>1
      <4> QED
        BY <1>10, <3>3, <4>1
    <3>5. i - g \in 1..m /\ g + (i - g) = i
      BY <1>11, <3>4
    <3>6. i - g \in 1..(m + z) /\ src2[i - g] = src[g + (i - g)]
      <4>1. i - g # m + 1
        BY <1>1, <3>5
      <4> QED
        BY <1>6, <1>12, <3>5, <4>1
    <3> QED
      BY <3>2, <3>5, <3>6
  <2> QED
    BY <2>1, <2>2, <2>3
<1>17. Trace(arr2, S, new, src2)
  BY <1>1, <1>13, <1>14, <1>15, <1>16 DEF Trace
<1>18. ASSUME \A i \in 1..n : src[i] \in RecentIn(arr, R),
              \A k, l \in S : k <= l => arr2[k].at <= arr2[l].at,
              NEW i \in 1..(m + z)
       PROVE  src2[i] \in RecentIn(arr2, S)
  <2>1. src2[i] \in S /\ arr2[src2[i]].level = "error"
    BY <1>13, <1>15
  <2>2. \A k \in S : k \in 1..(L + 1) /\ k <= L + 1 /\ arr2[k].at \in Nat
    BY <1>3, <1>5
  <2>3. ASSUME NEW l \in S PROVE arr2[l].at <= arr2[src2[i]].at + Window
    <3>1. arr2[l].at <= e.at
      BY <1>18, <2>2
    <3>2. CASE src2[i] = L + 1
      BY <2>2, <3>1, <3>2
    <3>3. CASE i \in 1..m /\ src2[i] = src[g + i]
      <4>1. g + i \in 1..n /\ g + 1 \in 1..n /\ g + 1 <= g + i
        BY <1>1, <1>6, <1>11, <3>3
      <4>2. errors[g + 1] = arr2[src[g + 1]].at /\ src[g + 1] \in S
        BY <1>2, <1>4, <4>1
      <4>3. src[g + 1] <= src[g + i]
        <5>1. g + 1 = g + i \/ g + 1 < g + i
          BY <4>1
        <5>2. src[g + 1] \in Nat /\ src[g + i] \in Nat
          BY <1>4, <4>1
        <5> QED
          BY <1>2, <4>1, <5>1, <5>2
      <4>4. arr2[src[g + 1]].at <= arr2[src[g + i]].at
        BY <1>4, <1>18, <4>1, <4>2, <4>3
      <4>5. e.at <= errors[g + 1] + Window
        <5>1. e.at \in Nat /\ errors[g + 1] \in Nat
          BY <2>2, <4>2
        <5> QED
          BY <1>8, <4>1, <5>1
      <4>6. src2[i] \in S /\ e.at \in Nat
        BY <2>1, <2>2
      <4> DEFINE u == arr2[l].at
                 v == arr2[src[g + 1]].at
                 w == arr2[src2[i]].at
                 t == e.at
      <4>7. u \in Nat /\ v \in Nat /\ w \in Nat /\ t \in Nat /\ Window \in Nat
        BY <2>2, <4>2, <4>6, Zenon
      <4>8. u <= t /\ t <= v + Window /\ v <= w
        BY <3>1, <3>3, <4>2, <4>4, <4>5
      <4> HIDE DEF u, v, w, t
      <4>9. u <= w + Window
        BY <4>7, <4>8
      <4> QED
        BY <4>9 DEF u, w
    <3> QED
      BY <1>12, <3>2, <3>3
  <2> QED
    BY <2>1, <2>3 DEF RecentIn
<1> QED
  BY <1>1, <1>13, <1>17, <1>18 DEF GoesOn

LEMMA TraceSame ==
  ASSUME NEW R, NEW arr, NEW arr2, \A k \in R : arr2[k] = arr[k],
         NEW errors, NEW src, Trace(arr, R, errors, src)
  PROVE  Trace(arr2, R, errors, src) /\ RecentIn(arr2, R) = RecentIn(arr, R)
<1>1. RecentIn(arr2, R) = RecentIn(arr, R)
  BY DEF RecentIn
<1>2. \A i \in DOMAIN errors : arr2[src[i]] = arr[src[i]]
  BY DEF Trace
<1> QED
  BY <1>1, <1>2 DEF Trace

\* The entries of one stream that have been applied are in the order of their times.
LEMMA OneStreamTimes ==
  ASSUME NEW seq \in Seq(Entries), Contiguous(seq),
         NEW lg, \A s \in Streams : \A i, j \in 1..Len(lg[s]) : i <= j => lg[s][i].at <= lg[s][j].at,
         \A s \in Streams : Len(lg[s]) \in Nat,
         \A k \in DOMAIN seq : seq[k][2] <= Len(lg[seq[k][1]]),
         NEW k \in DOMAIN seq, NEW l \in DOMAIN seq, k <= l, seq[k][1] = seq[l][1]
  PROVE  lg[seq[k][1]][seq[k][2]].at <= lg[seq[l][1]][seq[l][2]].at
<1>1. seq[k] \in Entries /\ seq[l] \in Entries /\ k \in Nat /\ l \in Nat
  BY ElementOfSeq, LenProperties
<1>2. PICK s \in Streams : s = seq[k][1] /\ s = seq[l][1]
  BY <1>1, EntryParts
<1> DEFINE i == seq[k][2]
           j == seq[l][2]
<1>3. i \in Nat \ {0} /\ j \in Nat \ {0} /\ i <= Len(lg[s]) /\ j <= Len(lg[s]) /\ Len(lg[s]) \in Nat
  BY <1>1, <1>2, EntryParts
<1>4. i < j \/ i = j
  <2>1. CASE k = l
    BY <2>1
  <2>2. CASE k # l
    <3>1. k < l
      BY <1>1, <2>2
    <3> QED
      BY <3>1, InOrder
  <2> QED
    BY <2>1, <2>2
<1> HIDE DEF i, j
<1>5. i \in 1..Len(lg[s]) /\ j \in 1..Len(lg[s]) /\ i <= j
  BY <1>3, <1>4
<1>6. lg[s][i].at <= lg[s][j].at
  BY <1>5
<1> QED
  BY <1>2, <1>6 DEF i, j

\* An entry is applied.
LEMMA ApplyTraces ==
  ASSUME PollInv, ErrorsOK, NEW p \in Entries, p[2] <= Len(log[p[1]]), Apply(p), AppliedOK',
         UNCHANGED <<log, clock>>
  PROVE  ErrorsOK'
<1> DEFINE L == Len(applied)
<1>1. applied \in Seq(Entries) /\ LogOK /\ nodes \in [Nodes -> NodeType]
  BY DEF PollInv, AppliedOK, ShownOK
<1>2. L \in Nat /\ DOMAIN applied = 1..L
  BY <1>1, LenProperties
<1>3. applied' = Append(applied, p) /\ applied' \in Seq(Entries)
  BY DEF Apply, AppliedOK
<1>4. /\ DOMAIN applied' = 1..(L + 1)
      /\ \A k \in 1..L : applied'[k] = applied[k]
      /\ applied'[L + 1] = p
  BY <1>1, <1>3, AppendProperties, LenProperties
<1> HIDE DEF L
<1>5. \A k \in 1..L : k \in 1..(L + 1) /\ k # L + 1
  BY <1>2
<1>6. L + 1 \in 1..(L + 1) /\ \A k \in 1..(L + 1) : k \in 1..L \/ k = L + 1
  BY <1>2
<1>7. LogTimes'
  BY DEF ErrorsOK, LogTimes
<1>8. HeldOK'
  <2> SUFFICES ASSUME NEW k \in 1..(L + 1) PROVE applied'[k][2] <= Len(log[applied'[k][1]])
    BY <1>4 DEF HeldOK
  <2>1. CASE k \in 1..L
    BY <1>2, <1>4, <2>1 DEF ErrorsOK, HeldOK
  <2>2. CASE k = L + 1
    BY <1>4, <2>2
  <2> QED
    BY <1>6, <2>1, <2>2
<1> PICK arr, arr2 : arr = Arrived /\ arr2 = Arrived'
  OBVIOUS
<1>9. \A k \in 1..(L + 1) : arr2[k] = Entry(applied'[k]) /\ arr2[k] \in LogEntry
  <2> TAKE k \in 1..(L + 1)
  <2>1. arr2[k] = log[applied'[k][1]][applied'[k][2]]
    BY <1>4 DEF Arrived, Entry
  <2>2. applied'[k] \in Entries
    BY <1>3, <1>4, ElementOfSeq, LenProperties
  <2>3. applied'[k][1] \in Streams /\ applied'[k][2] \in Nat \ {0}
        /\ applied'[k][2] <= Len(log[applied'[k][1]])
    BY <1>4, <1>8, <2>2, EntryParts DEF HeldOK
  <2>4. log[applied'[k][1]] \in Seq(LogEntry) /\ Len(log[applied'[k][1]]) \in Nat
    BY <1>1, <2>3, LogLen DEF LogOK
  <2>5. applied'[k][2] \in 1..Len(log[applied'[k][1]])
    BY <2>3, <2>4
  <2> QED
    BY <2>1, <2>4, <2>5, ElementOfSeq DEF Entry
<1>10. \A k \in 1..L : arr2[k] = arr[k]
  BY <1>2, <1>4, <1>5, <1>9 DEF Arrived, Entry
<1>11. arr2[L + 1] = Entry(p)
  BY <1>4, <1>6, <1>9
<1>12. ASSUME NEW n \in Nodes
       PROVE  \E src \in [DOMAIN nodes'[n].errors -> Received(n)'] : Traced(n, src)'
  <2> PICK R, R2 : R = Received(n) /\ R2 = Received(n)'
    OBVIOUS
  <2>1. R \in SUBSET (1..L)
    BY <1>2 DEF Received
  <2>2. R2 = IF n \in NodesOf(p[1]) THEN R \cup {L + 1} ELSE R
    <3>1. R2 = {k \in 1..(L + 1) : n \in NodesOf(applied'[k][1])}
      BY <1>4 DEF Received, NodesOf
    <3>2. R = {k \in 1..L : n \in NodesOf(applied[k][1])}
      BY <1>2 DEF Received, NodesOf
    <3>3. \A k \in 1..L : k \in R2 <=> k \in R
      BY <1>4, <1>5, <3>1, <3>2
    <3>4. L + 1 \in R2 <=> n \in NodesOf(p[1])
      BY <1>4, <1>6, <3>1
    <3>5. L + 1 \notin R
      BY <1>5, <2>1
    <3> QED
      BY <1>6, <2>1, <3>1, <3>3, <3>4, <3>5
  <2>3. PICK src \in [DOMAIN nodes[n].errors -> R] : Traced(n, src)
    BY <1>12 DEF ErrorsOK, TracedOK
  <2>4. /\ Trace(arr, R, nodes[n].errors, src)
        /\ n = "scrape-yc-script" => \A i \in DOMAIN nodes[n].errors : src[i] \in RecentIn(arr, R)
    BY <2>3 DEF Traced
  <2>5. SUFFICES \E src2 \in [DOMAIN nodes'[n].errors -> R2] :
                    /\ Trace(arr2, R2, nodes'[n].errors, src2)
                    /\ n = "scrape-yc-script" =>
                          \A i \in DOMAIN nodes'[n].errors : src2[i] \in RecentIn(arr2, R2)
    BY DEF Traced
  <2>6. CASE n \notin NodesOf(p[1])
    <3>1. nodes'[n] = nodes[n] /\ R2 = R
      BY <1>12, <2>2, <2>6 DEF Apply
    <3>2. Trace(arr2, R, nodes[n].errors, src) /\ RecentIn(arr2, R) = RecentIn(arr, R)
      <4>1. \A k \in R : arr2[k] = arr[k]
        BY <1>10, <2>1
      <4> QED
        BY <2>4, <4>1, TraceSame
    <3> QED
      BY <2>3, <2>4, <3>1, <3>2
  <2>7. CASE n \in NodesOf(p[1])
    <3> PICK errors, m, new, e : /\ errors = nodes[n].errors /\ m = Len(errors)
                                 /\ new = nodes'[n].errors /\ e = Entry(p)
      OBVIOUS
    <3>1. new = Recorded(nodes[n], e).errors
      BY <1>12, <2>7 DEF Apply
    <3>2. e \in LogEntry /\ e = arr2[L + 1]
      BY <1>6, <1>9, <1>11
    <3>3. nodes[n] \in NodeType
      BY <1>1, <1>12
    <3>4. m \in Nat /\ DOMAIN errors = 1..m
      BY <3>3, LenProperties DEF NodeType
    <3>5. PICK g \in 0..m : GoOn(errors, m, e, new, g)
      BY <3>1, <3>2, <3>3, RecordedErrors
    <3>6. GoesOn(arr, arr2, R, R \cup {L + 1}, errors, src, new)
      <4>1. /\ \A k \in 1..(L + 1) : arr2[k] \in LogEntry
            /\ Trace(arr, R, errors, src)
        BY <1>9, <2>4
      <4> QED
        BY <1>2, <1>10, <2>1, <3>2, <3>4, <3>5, <4>1, TraceGoesOn
    <3>7. R2 = R \cup {L + 1}
      BY <2>2, <2>7
    <3>8. ASSUME n = "scrape-yc-script"
          PROVE  \A k, l \in R2 : k <= l => arr2[k].at <= arr2[l].at
      <4> SUFFICES ASSUME NEW k \in R2, NEW l \in R2, k <= l PROVE arr2[k].at <= arr2[l].at
        OBVIOUS
      <4>1. /\ k \in 1..(L + 1) /\ l \in 1..(L + 1)
            /\ n \in NodesOf(applied'[k][1]) /\ n \in NodesOf(applied'[l][1])
        BY <1>4 DEF Received, NodesOf
      <4>2. applied'[k][1] \in Streams /\ applied'[l][1] \in Streams
        BY <1>3, <1>4, <4>1, ElementOfSeq, LenProperties, EntryParts
      <4>3. applied'[k][1] = applied'[l][1]
        BY <3>8, <4>1, <4>2, StreamsAre DEF NodesOf
      <4>4. Contiguous(applied')
        BY DEF AppliedOK, AppliedContiguous, Contiguous
      <4>5. /\ \A s \in Streams : \A i, j \in 1..Len(log[s]) : i <= j => log[s][i].at <= log[s][j].at
            /\ \A s \in Streams : Len(log[s]) \in Nat
            /\ \A i \in DOMAIN applied' : applied'[i][2] <= Len(log[applied'[i][1]])
        BY <1>1, <1>8, LogLen DEF ErrorsOK, LogTimes, HeldOK
      <4>6. log[applied'[k][1]][applied'[k][2]].at <= log[applied'[l][1]][applied'[l][2]].at
        BY <1>3, <1>4, <4>1, <4>3, <4>4, <4>5, OneStreamTimes
      <4> QED
        BY <1>9, <4>1, <4>6 DEF Entry
    <3> QED
      BY <2>4, <3>6, <3>7, <3>8 DEF GoesOn
  <2> QED
    BY <2>6, <2>7
<1>13. TracedOK'
  BY <1>12 DEF TracedOK
<1> QED
  BY <1>7, <1>8, <1>13 DEF ErrorsOK

\* Nothing is applied.
LEMMA TracesStay ==
  ASSUME HeldOK, TracedOK, UNCHANGED <<applied, nodes>>,
         \A k \in DOMAIN applied : Entry(applied[k])' = Entry(applied[k])
  PROVE  TracedOK'
<1> SUFFICES ASSUME NEW n \in Nodes
             PROVE  \E src \in [DOMAIN nodes[n].errors -> Received(n)] : Traced(n, src)'
  BY DEF TracedOK, Received
<1>1. Received(n)' = Received(n) /\ Received(n) \subseteq DOMAIN applied
  BY DEF Received
<1>2. PICK src \in [DOMAIN nodes[n].errors -> Received(n)] : Traced(n, src)
  BY DEF TracedOK
<1>3. Arrived' = Arrived
  BY DEF Arrived
<1>4. Traced(n, src)'
  BY <1>1, <1>2, <1>3 DEF Traced
<1> QED
  BY <1>4

\* Nothing has been applied, and nothing is shown.
LEMMA NoTraces ==
  ASSUME NEW arr
  PROVE  \E src \in [DOMAIN <<>> -> {}] :
            Trace(arr, {}, <<>>, src) /\ \A i \in DOMAIN <<>> : src[i] \in RecentIn(arr, {})
<1> DEFINE src == [i \in {} |-> i]
<1>1. DOMAIN <<>> = {}
  OBVIOUS
<1>2. src \in [{} -> {}] /\ RecentIn(arr, {}) = {}
  BY DEF RecentIn
<1>3. Trace(arr, {}, <<>>, src)
  BY <1>1, <1>2 DEF Trace
<1> QED
  BY <1>1, <1>2, <1>3

LEMMA PublishErrors ==
  ASSUME IInv, ErrorsOK, NEW s \in Streams, NEW level \in LevelsOf[s], Publish(s, level)
  PROVE  ErrorsOK'
<1> DEFINE e == [at |-> clock, level |-> level]
<1>1. /\ log \in [Streams -> Seq(LogEntry)] /\ log' = [log EXCEPT ![s] = Append(log[s], e)]
      /\ clock \in 0..MaxClock /\ clock' = clock
      /\ UNCHANGED <<applied, nodes>>
  BY DEF IInv, PollInv, LogOK, Publish, state
<1>2. e \in LogEntry /\ e.at = clock
  BY <1>1, LevelAssumption DEF LogEntry
<1> HIDE DEF e
<1>3. \A t \in Streams : Len(log[t]) \in Nat /\ \A i \in 1..Len(log[t]) : log[t][i].at \in Nat
  <2> TAKE t \in Streams
  <2>1. log[t] \in Seq(LogEntry)
    BY <1>1
  <2>2. \A i \in 1..Len(log[t]) : log[t][i] \in LogEntry
    BY <2>1, ElementOfSeq
  <2> QED
    BY <2>1, <2>2, LenProperties DEF LogEntry
<1>4. /\ Len(log'[s]) = Len(log[s]) + 1
      /\ \A i \in 1..Len(log[s]) : log'[s][i] = log[s][i]
      /\ log'[s][Len(log[s]) + 1] = e
      /\ \A t \in Streams : t # s => log'[t] = log[t]
  BY <1>1, <1>2, AppendProperties
<1>5. LogTimes'
  <2> SUFFICES ASSUME NEW t \in Streams, NEW i \in 1..Len(log'[t]), NEW j \in 1..Len(log'[t])
               PROVE  log'[t][i].at <= clock /\ (i <= j => log'[t][i].at <= log'[t][j].at)
    BY <1>1 DEF LogTimes
  <2>1. CASE t # s
    BY <1>4, <2>1 DEF ErrorsOK, LogTimes
  <2>2. CASE t = s
    <3> PICK n : n = Len(log[s])
      OBVIOUS
    <3>1. n \in Nat /\ i \in 1..(n + 1) /\ j \in 1..(n + 1)
      BY <1>3, <1>4, <2>2
    <3>2. \A k \in 1..n : log'[t][k].at \in Nat /\ log'[t][k].at <= clock
      BY <1>3, <1>4, <2>2 DEF ErrorsOK, LogTimes
    <3>3. log'[t][n + 1].at = clock /\ clock \in Nat
      BY <1>1, <1>2, <1>4, <2>2
    <3>4. log'[t][i].at <= clock
      <4>1. i \in 1..n \/ i = n + 1
        BY <3>1
      <4> QED
        BY <3>2, <3>3, <4>1
    <3>5. ASSUME i <= j PROVE log'[t][i].at <= log'[t][j].at
      <4>1. CASE j = n + 1
        BY <3>3, <3>4, <4>1
      <4>2. CASE j # n + 1
        <5>1. i \in 1..n /\ j \in 1..n
          BY <3>1, <3>5, <4>2
        <5>2. log[s][i].at <= log[s][j].at
          BY <3>5, <5>1 DEF ErrorsOK, LogTimes
        <5> QED
          BY <1>4, <2>2, <5>1, <5>2
      <4> QED
        BY <4>1, <4>2
    <3> QED
      BY <3>4, <3>5
  <2> QED
    BY <2>1, <2>2
<1>6. ASSUME NEW k \in DOMAIN applied
      PROVE  applied[k][2] <= Len(log'[applied[k][1]]) /\ Entry(applied[k])' = Entry(applied[k])
  <2>1. applied \in Seq(Entries)
    BY DEF IInv, PollInv, AppliedOK
  <2>2. applied[k] \in Entries
    BY <2>1, ElementOfSeq, LenProperties
  <2> PICK t, i : t = applied[k][1] /\ i = applied[k][2]
    OBVIOUS
  <2>3. t \in Streams /\ i \in Nat \ {0} /\ i <= Len(log[t])
    BY <2>2, EntryParts DEF ErrorsOK, HeldOK
  <2>4. i <= Len(log'[t]) /\ log'[t][i] = log[t][i]
    <3>1. i \in 1..Len(log[t])
      BY <1>3, <2>3
    <3>2. CASE t = s
      BY <1>3, <1>4, <2>3, <3>1, <3>2
    <3>3. CASE t # s
      BY <1>4, <2>3, <3>3
    <3> QED
      BY <3>2, <3>3
  <2> QED
    BY <1>1, <2>4 DEF Entry
<1>7. HeldOK'
  BY <1>1, <1>6 DEF HeldOK
<1>8. TracedOK'
  BY <1>1, <1>6, TracesStay DEF ErrorsOK
<1> QED
  BY <1>5, <1>7, <1>8 DEF ErrorsOK

\* Neither the streams nor what is applied or shown changes.
LEMMA QuietErrors ==
  ASSUME IInv, ErrorsOK, UNCHANGED <<log, applied, nodes>>, clock' \in Nat, clock <= clock'
  PROVE  ErrorsOK'
<1>1. LogTimes'
  <2> SUFFICES ASSUME NEW t \in Streams, NEW i \in 1..Len(log[t]), NEW j \in 1..Len(log[t])
               PROVE  log[t][i].at <= clock' /\ (i <= j => log[t][i].at <= log[t][j].at)
    BY DEF LogTimes
  <2>1. log[t] \in Seq(LogEntry) /\ clock \in Nat
    BY DEF IInv, PollInv, LogOK
  <2>2. log[t][i] \in LogEntry
    BY <2>1, ElementOfSeq
  <2>3. log[t][i].at \in Nat
    BY <2>2 DEF LogEntry
  <2>4. log[t][i].at <= clock /\ (i <= j => log[t][i].at <= log[t][j].at)
    BY DEF ErrorsOK, LogTimes
  <2> QED
    BY <2>1, <2>3, <2>4
<1>2. HeldOK'
  BY DEF ErrorsOK, HeldOK
<1>3. TracedOK'
  BY TracesStay DEF ErrorsOK, Entry
<1> QED
  BY <1>1, <1>2, <1>3 DEF ErrorsOK

LEMMA NothingErrors ==
  ASSUME LogTimes, applied = <<>>, nodes = NoNodes
  PROVE  ErrorsOK
<1>1. HeldOK
  BY DEF HeldOK
<1>2. ASSUME NEW n \in Nodes
      PROVE  \E src \in [DOMAIN nodes[n].errors -> Received(n)] : Traced(n, src)
  <2>1. nodes[n].errors = <<>> /\ Received(n) = {}
    BY <1>2 DEF NoNodes, Received
  <2>2. \E src \in [DOMAIN <<>> -> {}] :
           Trace(Arrived, {}, <<>>, src) /\ \A i \in DOMAIN <<>> : src[i] \in RecentIn(Arrived, {})
    BY NoTraces
  <2> QED
    BY <2>1, <2>2 DEF Traced
<1> QED
  BY <1>1, <1>2 DEF ErrorsOK, TracedOK

LEMMA ErrorsStep == IInv /\ IInv' /\ ErrorsOK /\ [Next]_vars => ErrorsOK'
<1> SUFFICES ASSUME IInv, IInv', ErrorsOK, [Next]_vars PROVE ErrorsOK'
  OBVIOUS
<1>1. PollInv /\ PollInv' /\ AppliedOK' /\ clock \in Nat /\ clock <= clock
  <2>1. PollInv /\ PollInv' /\ AppliedOK'
    BY DEF IInv, PollInv
  <2>2. clock \in 0..MaxClock
    BY <2>1 DEF PollInv, LogOK
  <2>3. clock \in Nat /\ clock <= clock
    BY <2>2
  <2> QED
    BY <2>1, <2>3
<1>2. ASSUME NEW s \in Streams, NEW level \in LevelsOf[s], Publish(s, level)
      PROVE  ErrorsOK'
  BY <1>2, PublishErrors
<1>3. CASE Tick
  <2>1. clock' \in Nat /\ clock <= clock' /\ UNCHANGED <<log, applied, nodes>>
    BY <1>1, <1>3 DEF Tick, state
  <2> QED
    BY <2>1, QuietErrors
<1>4. CASE SeedApply \/ ApplyNext
  <2>1. /\ todo # <<>> /\ Apply(Head(todo)) /\ todo' = Tail(todo)
        /\ UNCHANGED <<log, clock>>
    BY <1>4 DEF SeedApply, ApplyNext, redis
  <2>2. todo[1] \in Entries /\ todo[1][2] <= Len(log[todo[1][1]])
    BY <1>1, <2>1, HeadApplied
  <2>3. Head(todo) = todo[1]
    BY <1>1, <2>1, TailIs DEF PollInv, PollerOK
  <2>4. Apply(todo[1])
    BY <2>1, <2>3
  <2> QED
    BY <1>1, <2>1, <2>2, <2>4, ApplyTraces
<1>5. CASE Restart
  <2>1. applied' = <<>> /\ nodes' = NoNodes /\ UNCHANGED <<log, clock>>
    BY <1>5 DEF Restart, redis
  <2>2. LogTimes' /\ HeldOK'
    BY <2>1 DEF ErrorsOK, LogTimes, HeldOK
  <2>3. ASSUME NEW n \in Nodes
        PROVE  \E src \in [DOMAIN nodes'[n].errors -> Received(n)'] : Traced(n, src)'
    <3>1. nodes'[n].errors = <<>> /\ Received(n)' = {}
      BY <2>1, <2>3 DEF NoNodes, Received
    <3> PICK arr : arr = Arrived'
      OBVIOUS
    <3>2. PICK src \in [DOMAIN <<>> -> {}] :
             Trace(arr, {}, <<>>, src) /\ \A i \in DOMAIN <<>> : src[i] \in RecentIn(arr, {})
      BY NoTraces
    <3>3. Traced(n, src)'
      BY <3>1, <3>2 DEF Traced
    <3> QED
      BY <3>1, <3>2, <3>3
  <2> QED
    BY <2>2, <2>3 DEF ErrorsOK, TracedOK
<1>6. CASE UNCHANGED <<log, clock, applied, nodes>>
  BY <1>1, <1>6, QuietErrors
<1>7. CASE SeedRead \/ Serve \/ Poll \/ Respond \/ PollFails \/ Wake
  <2>1. UNCHANGED <<log, clock, applied, nodes>>
    BY <1>7 DEF SeedRead, Serve, Poll, Respond, PollFails, Wake, redis, state
  <2> QED
    BY <1>6, <2>1
<1>8. CASE Mount \/ DashboardStep \/ Disconnect \/ UNCHANGED vars
  <2>1. UNCHANGED <<log, clock, applied, nodes>>
    BY <1>8 DEF Mount, DashboardStep, Subscribe, StreamBegins, Receive, Answer, Arrive, FetchFails,
       Disconnect, vars, redis, state
  <2> QED
    BY <1>6, <2>1
<1> QED
  BY <1>2, <1>3, <1>4, <1>5, <1>7, <1>8 DEF Next, PollerStep

\* A trace names as many entries as there are errors.
LEMMA TraceCounts ==
  ASSUME NEW R \in SUBSET Nat, NEW arr, NEW n \in Nat, NEW errors, DOMAIN errors = 1..n,
         NEW src, Trace(arr, R, errors, src)
  PROVE  /\ Cardinality(RecentIn(arr, R)) <= n
         /\ (\A i \in 1..n : src[i] \in RecentIn(arr, R)) => Cardinality(RecentIn(arr, R)) = n
<1> DEFINE named == {src[i] : i \in 1..n}
           recent == RecentIn(arr, R)
<1>1. /\ src \in [1..n -> R]
      /\ \A i, j \in 1..n : i < j => src[i] < src[j]
      /\ \A k \in recent : \E i \in 1..n : src[i] = k
  BY DEF Trace
<1>2. IsFiniteSet(1..n) /\ Cardinality(1..n) = n
  <2>1. 1 \in Int /\ n \in Int /\ (1 > n => n = 0)
    OBVIOUS
  <2> QED
    BY <2>1, FS_Interval
<1>3. ASSUME NEW i \in 1..n, NEW j \in 1..n, src[i] = src[j] PROVE i = j
  <2>1. src[i] \in Nat /\ src[j] \in Nat
    BY <1>1
  <2>2. ~(i < j) /\ ~(j < i)
    BY <1>1, <1>3, <2>1
  <2> QED
    BY <2>2
<1>4. src \in Surjection(1..n, named) /\ src \in Injection(1..n, named)
  <2>1. src \in [1..n -> named]
    BY <1>1
  <2>2. \A x \in named : \E i \in 1..n : src[i] = x
    OBVIOUS
  <2> HIDE DEF named
  <2> QED
    BY <1>3, <2>1, <2>2 DEF Surjection, Injection, IsInjective
<1> HIDE DEF named
<1>5. IsFiniteSet(named) /\ Cardinality(named) = n
  BY <1>2, <1>4, FS_Surjection
<1>6. recent \in SUBSET named
  BY <1>1 DEF named
<1>7. Cardinality(recent) <= n
  BY <1>5, <1>6, FS_Subset
<1>8. ASSUME \A i \in 1..n : src[i] \in recent PROVE Cardinality(recent) = n
  <2>1. named \subseteq recent
    BY <1>8 DEF named
  <2>2. named = recent
    BY <1>6, <2>1
  <2> QED
    BY <1>5, <2>2
<1> QED
  BY <1>7, <1>8

\* In whatever order two streams bring their errors, and however they are read again, a node
\* shows each that is no older than the window before the latest of its entries, and where one
\* stream brings them no other (main.py:350-375, 569-571).
THEOREM ErrorsAreShown == Spec => []ErrorsShown
<1>1. Init => ErrorsOK
  <2> SUFFICES ASSUME Init PROVE ErrorsOK
    OBVIOUS
  <2>1. \A s \in Streams : 1..Len(log[s]) = {}
    BY DEF Init
  <2>2. LogTimes /\ applied = <<>> /\ nodes = NoNodes
    BY <2>1 DEF Init, LogTimes
  <2> QED
    BY <2>2, NothingErrors
<1>2. IInv /\ ErrorsOK => ErrorsShown
  <2> SUFFICES ASSUME IInv, ErrorsOK PROVE ErrorsShown
    OBVIOUS
  <2>1. ASSUME NEW n \in Nodes
        PROVE  /\ Cardinality(Recent(n)) <= Len(nodes[n].errors)
               /\ n = "scrape-yc-script" => Cardinality(Recent(n)) = Len(nodes[n].errors)
    <3> PICK R, arr, errors, m : /\ R = Received(n) /\ arr = Arrived
                                 /\ errors = nodes[n].errors /\ m = Len(errors)
      OBVIOUS
    <3>1. PICK src : /\ Trace(arr, R, errors, src)
                     /\ n = "scrape-yc-script" => \A i \in DOMAIN errors : src[i] \in RecentIn(arr, R)
      BY <2>1 DEF ErrorsOK, TracedOK, Traced
    <3>2. R \in SUBSET Nat
      <4>1. applied \in Seq(Entries)
        BY DEF IInv, PollInv, AppliedOK
      <4>2. DOMAIN applied \subseteq Nat
        BY <4>1, LenProperties
      <4> QED
        BY <4>2 DEF Received
    <3>3. m \in Nat /\ DOMAIN errors = 1..m
      <4>1. nodes[n] \in NodeType
        BY <2>1 DEF IInv, PollInv, ShownOK
      <4>2. errors \in Seq(0..MaxClock)
        BY <4>1 DEF NodeType
      <4> QED
        BY <4>2, LenProperties
    <3>4. Recent(n) = RecentIn(arr, R)
      BY DEF Recent, RecentIn, Received, Arrived
    <3>5. /\ Cardinality(RecentIn(arr, R)) <= m
          /\ (\A i \in 1..m : src[i] \in RecentIn(arr, R)) => Cardinality(RecentIn(arr, R)) = m
      BY <3>1, <3>2, <3>3, TraceCounts
    <3> QED
      BY <3>1, <3>3, <3>4, <3>5
  <2>2. "scrape-yc-script" \in Nodes
    BY DEF Nodes
  <2> QED
    BY <2>1, <2>2 DEF ErrorsShown
<1> QED
  BY <1>1, <1>2, ErrorsStep, Inductive, PTL DEF Spec

(***************************************************************************)
(* The way the streams are followed                                        *)
(***************************************************************************)
Following(s) == cursor[s] # Dollar

\* The entry after the place where a stream is followed to.
NextOf(s) == <<s, cursor[s] + 1>>

\* An XREAD that is answered now brings the next entry of every stream that has one.
NextIsRead ==
    pc = "blocked" =>
        \A s \in Streams : Following(s) /\ cursor[s] < Len(log[s])
            => \E i \in DOMAIN Response : Response[i] = NextOf(s)

\* A process leaves its place in a stream only for the next entry, as it applies it.
FollowedOn ==
    Restart \/ \A s \in Streams : Following(s) =>
        \/ cursor'[s] = cursor[s]
        \/ cursor'[s] = cursor[s] + 1 /\ applied' = Append(applied, NextOf(s))

LEMMA NextRead ==
  ASSUME LogOK, PollerOK, pc = "blocked", NEW s \in Streams, Following(s), cursor[s] < Len(log[s])
  PROVE  \E i \in DOMAIN Response : Response[i] = NextOf(s)
<1> DEFINE f == StreamNames[1]
           g == StreamNames[2]
           a == Len(New(f))
           b == Len(New(g))
<1>1. f \in Streams /\ g \in Streams /\ (s = f \/ s = g)
  BY StreamsAre
<1>2. asked[s] = cursor[s] /\ asked[s] \in Nat /\ Len(log[s]) \in Nat
  BY LogLen DEF PollerOK, Following, Dollar
<1>3. Upto(s) \in Nat /\ asked[s] + 1 <= Upto(s) /\ Upto(s) <= Len(log[s])
  BY <1>2 DEF Upto
<1>4. Len(New(s)) = Span(asked[s] + 1, Upto(s))
  <2>1. asked[s] + 1 \in Nat \ {0}
    BY <1>2
  <2> QED
    BY <1>3, <2>1, PlacesAre DEF New
<1>5. 1 \in 1..Len(New(s))
  BY <1>2, <1>3, <1>4 DEF Span
<1>6. New(s)[1] = NextOf(s)
  BY <1>2, <1>5, NewIs DEF NextOf
<1>7. New(f) \in Seq(Entries) /\ New(g) \in Seq(Entries) /\ a \in Nat /\ b \in Nat
  BY <1>1, NewIs
<1>8. /\ Response \in Seq(Entries) /\ Len(Response) = a + b
      /\ \A i \in 1..(a + b) : Response[i] = IF i <= a THEN New(f)[i] ELSE New(g)[i - a]
  BY <1>7, ConcatProperties DEF Response
<1>9. DOMAIN Response = 1..(a + b)
  BY <1>8, LenProperties
<1>10. CASE s = f
  <2>1. 1 \in 1..a
    BY <1>5, <1>10
  <2>2. 1 \in 1..(a + b) /\ 1 <= a
    BY <1>7, <2>1
  <2> QED
    BY <1>6, <1>8, <1>9, <1>10, <2>2
<1>11. CASE s = g
  <2>1. 1 \in 1..b
    BY <1>5, <1>11
  <2>2. a + 1 \in 1..(a + b) /\ ~(a + 1 <= a) /\ (a + 1) - a = 1
    BY <1>7, <2>1
  <2> QED
    BY <1>6, <1>8, <1>9, <1>11, <2>2
<1> QED
  BY <1>1, <1>10, <1>11

LEMMA StepFollows == IInv /\ Next => FollowedOn
<1> SUFFICES ASSUME LogOK, PollerOK, SeedOK, BatchOK, Next, ~Restart, NEW s \in Streams, Following(s)
             PROVE  \/ cursor'[s] = cursor[s]
                    \/ cursor'[s] = cursor[s] + 1 /\ applied' = Append(applied, NextOf(s))
  BY DEF IInv, PollInv, FollowedOn
<1>1. cursor \in [Streams -> Nat]
  BY DEF PollerOK
<1>2. CASE ApplyNext
  <2>1. /\ pc = "apply" /\ todo \in Seq(Entries) /\ todo # <<>>
        /\ cursor' = [cursor EXCEPT ![Head(todo)[1]] = Head(todo)[2]]
        /\ applied' = Append(applied, Head(todo))
    BY <1>2 DEF ApplyNext, Apply, PollerOK
  <2>2. Head(todo) = todo[1] /\ 1 \in DOMAIN todo /\ todo[1] \in Entries
    BY <2>1, HeadTailProperties, LenProperties, EmptySeq
  <2>3. CASE todo[1][1] = s
    <3>1. todo[1][2] = cursor[s] + 1
      BY <2>1, <2>2, <2>3 DEF BatchOK, Following, Dollar
    <3>2. todo[1] = NextOf(s)
      BY <2>2, <2>3, <3>1, EntryParts DEF NextOf
    <3> QED
      BY <1>1, <2>1, <2>2, <2>3, <3>1, <3>2
  <2>4. CASE todo[1][1] # s
    BY <1>1, <2>1, <2>2, <2>4
  <2> QED
    BY <2>3, <2>4
<1>3. CASE SeedRead
  <2>1. PICK t \in Streams : /\ t = StreamNames[seeding + 1]
                             /\ cursor' = [cursor EXCEPT ![t] = Len(log[t])] \/ cursor' = cursor
    BY <1>3, StreamsAre DEF SeedRead, PollerOK
  <2>2. seeding + 1 \in 1..2 /\ seeding + 1 > seeding /\ pc = "seed"
    BY <1>3, StreamsAre DEF SeedRead, PollerOK
  <2>3. cursor[t] = 0
    BY <2>1, <2>2, Zenon DEF SeedOK
  <2>4. s # t
    BY <2>3 DEF Following, Dollar
  <2> QED
    BY <1>1, <2>1, <2>4
<1>4. CASE ~ApplyNext /\ ~SeedRead
  <2>1. cursor' = cursor
    BY <1>4 DEF Next, Publish, Tick, PollerStep, SeedApply, Serve, Poll, Respond, PollFails, AfterError,
       Wake, Mount, DashboardStep, Subscribe, StreamBegins, Receive, Answer, Arrive, FetchFails,
       Disconnect, poller
  <2> QED
    BY <2>1
<1> QED
  BY <1>2, <1>3, <1>4

\* A server that is behind in a stream it has a place in is answered with the next entry, and
\* it leaves its place only for that entry, as it applies it: no failure of a poll and no
\* other stream takes it past one (_poll_streams and _apply_entry, main.py:255-272).
THEOREM NothingIsPassedOver == Spec => []NextIsRead /\ [][FollowedOn]_vars
<1>1. IInv => NextIsRead
  BY NextRead DEF IInv, PollInv, NextIsRead
<1>2. IInv /\ [Next]_vars => [FollowedOn]_vars
  BY StepFollows
<1> QED
  BY Inductive, <1>1, <1>2, PTL DEF Spec
=============================================================================

----------------------- MODULE MatchingWorker_proofs -----------------------
(***************************************************************************)
(* What an arbitrary LLM can do to the results, and what lost replies,     *)
(* errors and restarts do to the entries of the stream, for any number of  *)
(* jobs, versions and events and any limits.                               *)
(***************************************************************************)
EXTENDS MatchingWorker, SequenceTheorems, FiniteSetTheorems, WellFoundedInduction, TLAPS

-----------------------------------------------------------------------------
(* Types, and what the place of the worker says about the rest.            *)

InHandPlaces == {"entry", "ack", "trigger"}

PlaceInv ==
    /\ Len(stream) <= MaxEvents
    /\ worker \in InHandPlaces <=> inHand # <<>>
    /\ worker \in InHandPlaces \cup {"read", "idle"} => delivered # NoGroup
    /\ stage = "agent" => version \in Versions
    /\ stage # "agent" =>
          /\ version = NoVersion /\ urls = {} /\ details = {} /\ scores = NoScores
          /\ calls = 0 /\ evaluated = 0
    /\ \A j \in Jobs : scores[j] # "none" => j \in details

Base == TypeOK /\ PlaceInv

USE DEF scraper, control, queue, tools, cycle, vars

LEMMA Limits == MaxJobs \in Nat /\ ReadCount \in Nat /\ MaxEvents \in Nat /\ CallLimit \in Nat
  BY LimitAssumption DEF CallLimit

\* A call of a tool: its type, and what it leaves alone.
LEMMA RecordedType ==
  ASSUME TypeOK, NEW j \in Jobs, NEW v \in Versions, NEW result \in MT!Result, RecordJobResult(j, v, result)
  PROVE  matches' \in [Jobs \X Versions -> MT!Result]
  BY DEF TypeOK, MT!TableTypeOK, RecordJobResult, Fresh

LEMMA ToolCallTypes ==
  ASSUME Base, ToolCall
  PROVE  /\ calls' \in 0..CallLimit /\ version \in Versions
         /\ stage = "agent" /\ stage' = "agent"
  BY Limits DEF Base, TypeOK, PlaceInv, ToolCall

LEMMA ToolPreservesBase ==
  ASSUME Base, ToolCall, urls' \in SUBSET Jobs, details' \in SUBSET urls',
         scores' \in [Jobs -> MT!Scored \cup {"none"}], evaluated' \in Nat, 
         matches' \in [Jobs \X Versions -> MT!Result],
         \A j \in Jobs : scores'[j] # "none" => j \in details'
  PROVE  Base'
<1>1. UNCHANGED <<scraper, control, queue, stage, mode, version>>
  BY DEF ToolCall
<1>2. TypeOK'
  BY <1>1, ToolCallTypes DEF Base, TypeOK, MT!TableTypeOK
<1>3. PlaceInv'
  BY <1>1, ToolCallTypes DEF Base, PlaceInv
<1>4. QED
  BY <1>2, <1>3 DEF Base

\* The tools one by one.
LEMMA ToolsPreserveBase ==
  ASSUME Base, GetJobsToProcess \/ FruitlessCall
               \/ \E j \in Jobs : CrawlJob(j) \/ CrawlNotFound(j) \/ EvaluateMatch(j) \/ RecordResult(j)
  PROVE  Base'
<1> USE DEF MT!Scored, MT!Result
<1>0. /\ urls \subseteq Jobs /\ details \subseteq urls /\ evaluated \in Nat
      /\ scores \in [Jobs -> MT!Scored \cup {"none"}]
      /\ matches \in [Jobs \X Versions -> MT!Result]
      /\ \A j \in Jobs : scores[j] # "none" => j \in details
      /\ listings \in Seq(Jobs)
  BY DEF Base, TypeOK, PlaceInv, MT!TableTypeOK
<1>1. CASE GetJobsToProcess
  <2>1. Fetched \subseteq Jobs
    BY <1>0, ElementOfSeq DEF Fetched, Waiting
  <2>2. QED
    BY <1>0, <1>1, <2>1, ToolPreservesBase DEF GetJobsToProcess
<1>2. CASE FruitlessCall
  BY <1>0, <1>2, ToolPreservesBase DEF FruitlessCall
<1>3. ASSUME NEW j \in Jobs, CrawlJob(j) PROVE Base'
  BY <1>0, <1>3, ToolPreservesBase DEF CrawlJob
<1>4. ASSUME NEW j \in Jobs, CrawlNotFound(j) PROVE Base'
  <2>1. matches' \in [Jobs \X Versions -> MT!Result]
    BY <1>4, ToolCallTypes, RecordedType DEF CrawlNotFound, Base
  <2>2. QED
    BY <1>0, <1>4, <2>1, ToolPreservesBase DEF CrawlNotFound
<1>5. ASSUME NEW j \in Jobs, EvaluateMatch(j) PROVE Base'
  BY <1>0, <1>5, ToolPreservesBase DEF EvaluateMatch
<1>6. ASSUME NEW j \in Jobs, RecordResult(j) PROVE Base'
  <2>1. matches' \in [Jobs \X Versions -> MT!Result]
    <3>1. scores[j] \in MT!Result
      BY <1>0
    <3>2. QED
      BY <1>6, <3>1, ToolCallTypes, RecordedType DEF RecordResult, Base
  <2>2. evaluated' \in Nat
    BY <1>0, <1>6 DEF RecordResult
  <2>3. QED
    BY <1>0, <1>6, <2>1, <2>2, ToolPreservesBase DEF RecordResult
<1>7. QED
  BY <1>1, <1>2, <1>3, <1>4, <1>5, <1>6

\* The entries of a reply, in order.
LEMMA ReadTypes ==
  ASSUME Base, Deliver
  PROVE  /\ delivered \in Nat /\ delivered' \in Nat /\ Len(stream) \in Nat
         /\ delivered < delivered' /\ delivered' <= Len(stream) /\ Len(stream) <= MaxEvents
         /\ pending' \subseteq Entries
<1>1. /\ delivered \in Nat /\ delivered' \in Nat /\ Len(stream) \in Nat
      /\ delivered < delivered' /\ delivered' <= Len(stream) /\ Len(stream) <= MaxEvents
  BY Limits, LimitAssumption, LenProperties DEF Base, TypeOK, PlaceInv, Deliver
<1>2. (delivered + 1)..delivered' \subseteq Entries
  BY <1>1, Limits DEF Entries
<1>3. QED
  BY <1>1, <1>2 DEF Base, TypeOK, Deliver

LEMMA Reply ==
  ASSUME Base, Read
  PROVE  /\ inHand' \in Seq(Entries) /\ inHand' # <<>> /\ Len(inHand') = delivered' - delivered
         /\ \A i \in 1..Len(inHand') : inHand'[i] = delivered + i
<1> DEFINE n == delivered' - delivered
           reply == [i \in 1..n |-> delivered + i]
<1>1. n \in Nat /\ n > 0 /\ inHand' = reply /\ \A i \in 1..n : delivered + i \in Entries
  BY ReadTypes, Limits DEF Read, Entries
<1>2. reply \in Seq(Entries) /\ Len(reply) = n
  <2> HIDE DEF n
  <2>1. reply \in [1..n -> Entries]
    BY <1>1
  <2> HIDE DEF reply
  <2>2. QED
    BY <1>1, <2>1
<1>3. \A i \in 1..n : reply[i] = delivered + i
  OBVIOUS
<1> HIDE DEF n, reply
<1>4. inHand' # <<>>
  BY <1>1, <1>2, EmptySeq
<1>5. QED
  BY <1>1, <1>2, <1>3, <1>4 DEF n

LEMMA EndPreservesBase ==
  ASSUME Base, worker \in InCycle, EndCycle
  PROVE  Base'
<1>1. NoScores \in [Jobs -> MT!Scored \cup {"none"}] /\ 0 \in 0..CallLimit
      /\ \A j \in Jobs : NoScores[j] = "none"
  BY Limits DEF NoScores
<1>2. worker = "trigger" => Head(inHand) \in Entries
  BY HeadTailProperties DEF Base, TypeOK, PlaceInv, InHandPlaces
<1>3. served' \in [Entries -> Nat]
  BY <1>2 DEF Base, TypeOK, EndCycle
<1>4. worker' \in {"ensure", "ack", "read"} /\ (worker' = "ack" <=> worker = "trigger")
      /\ (worker' = "read" <=> worker = "idle")
  BY DEF EndCycle, InCycle
<1>5. TypeOK'
  BY <1>1, <1>3, <1>4 DEF Base, TypeOK, MT!TableTypeOK, EndCycle, DropCycle, InCycle
<1>6. PlaceInv'
  BY <1>1, <1>4 DEF Base, PlaceInv, EndCycle, DropCycle, InHandPlaces, InCycle
<1>7. QED
  BY <1>5, <1>6 DEF Base

LEMMA StartPreservesBase ==
  ASSUME Base, Boot \/ Idle \/ HandleTrigger
  PROVE  Base'
<1>1. TypeOK'
  BY DEF Base, TypeOK, MT!TableTypeOK, PlaceInv, Boot, Idle, HandleTrigger, StartCycle, InCycle, Modes
<1>2. stage # "agent"
  BY DEF Base, TypeOK, Boot, Idle, HandleTrigger, InCycle
<1>3. PlaceInv'
  BY <1>2 DEF Base, PlaceInv, Boot, Idle, HandleTrigger, StartCycle, InHandPlaces
<1>4. QED
  BY <1>1, <1>3 DEF Base

LEMMA ConsumerPreservesBase ==
  ASSUME Base, EnsureGroup \/ Read \/ ReadLost \/ IgnoreEvent \/ Ack \/ Die
  PROVE  Base'
<1>0. Len(stream) \in Nat /\ inHand \in Seq(Entries)
  BY LenProperties DEF Base, TypeOK
<1>1. CASE EnsureGroup
  <2>1. /\ delivered' \in 0..Len(stream) /\ origin' \in 0..Len(stream)
        /\ worker = "ensure" /\ worker' = "read"
        /\ UNCHANGED <<scraper, control, pending, inHand, served, cycle, matches>>
    BY <1>0, <1>1 DEF Base, TypeOK, EnsureGroup
  <2>2. TypeOK'
    BY <2>1 DEF Base, TypeOK, MT!TableTypeOK, InCycle
  <2>3. PlaceInv'
    BY <1>0, <2>1, NullAssumption DEF Base, PlaceInv, InHandPlaces
  <2>4. QED
    BY <2>2, <2>3 DEF Base
<1>2. CASE Read
  <2>1. delivered' \in 0..Len(stream') /\ pending' \subseteq Entries
    BY <1>2, ReadTypes DEF Read, Deliver
  <2>2. TypeOK'
    BY <1>2, <2>1, ReadTypes, Reply DEF Base, TypeOK, MT!TableTypeOK, Read, Deliver, InCycle
  <2>3. PlaceInv'
    BY <1>2, ReadTypes, Reply, NullAssumption DEF Base, PlaceInv, Read, Deliver, InHandPlaces
  <2>4. QED
    BY <2>2, <2>3 DEF Base
<1>3. CASE ReadLost
  <2>1. delivered' \in 0..Len(stream') /\ pending' \subseteq Entries
    BY <1>3, ReadTypes DEF ReadLost, Deliver
  <2>2. TypeOK'
    BY <1>3, <2>1, ReadTypes DEF Base, TypeOK, MT!TableTypeOK, ReadLost, Deliver, InCycle
  <2>3. PlaceInv'
    BY <1>3, ReadTypes, NullAssumption DEF Base, PlaceInv, ReadLost, Deliver, InHandPlaces
  <2>4. QED
    BY <2>2, <2>3 DEF Base
<1>4. CASE IgnoreEvent
  BY <1>4 DEF Base, TypeOK, MT!TableTypeOK, PlaceInv, IgnoreEvent, InHandPlaces, InCycle
<1>5. CASE Ack
  <2>1. /\ Tail(inHand) \in Seq(Entries) /\ Len(Tail(inHand)) = Len(inHand) - 1
        /\ Len(inHand) \in Nat \ {0}
    BY <1>0, <1>5, HeadTailProperties, EmptySeq DEF Base, PlaceInv, Ack, InHandPlaces
  <2>2. Tail(inHand) = <<>> <=> Len(inHand) = 1
    BY <2>1, EmptySeq
  <2>3. QED
    BY <1>5, <2>1, <2>2 DEF Base, TypeOK, MT!TableTypeOK, PlaceInv, Ack, InHandPlaces, InCycle
<1>6. CASE Die
  BY <1>6, EmptySeq DEF Base, TypeOK, MT!TableTypeOK, PlaceInv, Die, InHandPlaces, InCycle
<1>7. QED
  BY <1>1, <1>2, <1>3, <1>4, <1>5, <1>6

LEMMA EnvironmentPreservesBase ==
  ASSUME Base, Environment
  PROVE  Base'
<1>0. Len(stream) \in Nat /\ inHand \in Seq(Entries)
  BY LenProperties DEF Base, TypeOK
<1>1. ASSUME NEW j \in Jobs, WriteJob(j) PROVE Base'
  <2>1. Append(listings, j) \in Seq(Jobs)
    BY AppendProperties DEF Base, TypeOK
  <2>2. QED
    BY <1>1, <2>1 DEF Base, TypeOK, MT!TableTypeOK, PlaceInv, WriteJob
<1>2. ASSUME NEW type \in EventTypes, Publish(type) PROVE Base'
  <2>1. /\ stream' \in Seq(EventTypes) /\ Len(stream') = Len(stream) + 1
        /\ \A e \in 1..Len(stream) : stream'[e] = stream[e]
    BY <1>2, AppendProperties DEF Base, TypeOK, Publish
  <2>2. delivered' \in 0..Len(stream') \cup {NoGroup} /\ origin' \in 0..Len(stream')
    BY <1>0, <1>2, <2>1 DEF Base, TypeOK, Publish
  <2>3. Len(stream') <= MaxEvents
    BY <1>0, <1>2, <2>1, Limits DEF Publish
  <2>4. QED
    BY <1>2, <2>1, <2>2, <2>3 DEF Base, TypeOK, MT!TableTypeOK, PlaceInv, Publish
<1>3. ASSUME NEW v \in Versions, Promote(v) PROVE Base'
  BY <1>3 DEF Base, TypeOK, MT!TableTypeOK, PlaceInv, Promote
<1>4. ASSUME NEW m \in Modes, SetFlag(m) PROVE Base'
  BY <1>4 DEF Base, TypeOK, MT!TableTypeOK, PlaceInv, SetFlag
<1>5. QED
  BY <1>1, <1>2, <1>3, <1>4 DEF Environment

LEMMA CrashPreservesBase ==
  ASSUME Base, Crash
  PROVE  Base'
<1>1. NoScores \in [Jobs -> MT!Scored \cup {"none"}] /\ 0 \in 0..CallLimit
      /\ \A j \in Jobs : NoScores[j] = "none"
  BY Limits DEF NoScores
<1>2. QED
  BY <1>1, EmptySeq
     DEF Base, TypeOK, MT!TableTypeOK, PlaceInv, Crash, DropCycle, InHandPlaces, InCycle

LEMMA BaseStep == Base /\ [Next]_vars => Base'
<1> SUFFICES ASSUME Base, [Next]_vars PROVE Base'
  OBVIOUS
<1>1. CASE CycleStep
  <2>1. CASE (CheckFlag /\ ~flags[mode]) \/ Stop
    <3>1. worker \in InCycle
      BY <2>1 DEF Base, TypeOK, CheckFlag, Stop
    <3>2. QED
      BY <2>1, <3>1, EndPreservesBase DEF CheckFlag, Stop
  <2>2. CASE CheckFlag /\ flags[mode]
    BY <2>2 DEF Base, TypeOK, MT!TableTypeOK, PlaceInv, CheckFlag
  <2>3. CASE Resolve
    BY <2>3 DEF Base, TypeOK, MT!TableTypeOK, PlaceInv, Resolve
  <2>4. QED
    BY <1>1, <2>1, <2>2, <2>3, ToolsPreserveBase DEF CycleStep
<1>2. CASE ConsumerStep \/ Boot \/ ReadLost \/ Die
  BY <1>2, ConsumerPreservesBase, StartPreservesBase DEF ConsumerStep
<1>3. CASE UNCHANGED vars
  BY <1>3 DEF Base, TypeOK, MT!TableTypeOK, PlaceInv
<1>4. QED
  BY <1>1, <1>2, <1>3, EnvironmentPreservesBase, CrashPreservesBase DEF Next

LEMMA BaseHolds == Spec => []Base
<1>1. Init => Base
  <2> SUFFICES ASSUME Init PROVE Base
    OBVIOUS
  <2>1. /\ <<>> \in Seq(Jobs) /\ <<>> \in Seq(EventTypes) /\ <<>> \in Seq(Entries)
        /\ Len(stream) = 0 /\ stream = <<>>
    BY EmptySeq DEF Init
  <2>2. /\ NoScores \in [Jobs -> MT!Scored \cup {"none"}] /\ 0 \in 0..CallLimit
        /\ \A j \in Jobs : NoScores[j] = "none"
    BY Limits DEF NoScores
  <2>3. TypeOK
    BY <2>1, <2>2 DEF Init, TypeOK, MT!TableTypeOK, MT!Result, Modes, InCycle
  <2>4. PlaceInv
    BY <2>1, <2>2, Limits DEF Init, PlaceInv, InHandPlaces
  <2>5. QED
    BY <2>3, <2>4 DEF Base
<1>2. QED
  BY <1>1, BaseStep, PTL DEF Spec

\* Every variable of the worker, the stream and the cycle keeps its type; in particular a
\* cycle never makes more calls than the limit allows.
THEOREM TypeCorrect == Spec => []TypeOK
<1>1. Base => TypeOK
  BY DEF Base
<1>2. QED
  BY <1>1, BaseHolds, PTL

-----------------------------------------------------------------------------
(* The table of results. *)

\* A step that writes to the table is one call of a tool, for the version of the cycle.
LEMMA OnlyToolsWrite ==
  ASSUME Base, [Next]_vars, matches' # matches
  PROVE  /\ stage = "agent" /\ version \in Versions /\ UNCHANGED <<stage, version, urls, details, scores>>
         /\ \E j \in urls, result \in MT!Result \ {"none"} :
               /\ Fresh(j, version)
               /\ matches' = [matches EXCEPT ![<<j, version>>] = result]
               /\ \/ result = "gone" /\ evaluated' = evaluated
                  \/ result = scores[j] /\ evaluated' = evaluated + 1
<1>0. /\ urls \subseteq Jobs /\ details \subseteq urls
      /\ scores \in [Jobs -> MT!Scored \cup {"none"}]
      /\ \A j \in Jobs : scores[j] # "none" => j \in details
  BY DEF Base, TypeOK, PlaceInv
<1>1. PICK j \in Jobs : CrawlNotFound(j) \/ RecordResult(j)
  BY DEF Next, Environment, WriteJob, Publish, Promote, SetFlag, Boot, StartCycle, CycleStep, CheckFlag,
         EndCycle, Resolve, Stop, GetJobsToProcess, FruitlessCall, CrawlJob, EvaluateMatch,
         ConsumerStep, EnsureGroup, Read, Idle, HandleTrigger, IgnoreEvent, Ack, ReadLost, Deliver, Die, Crash
<1>2. CASE CrawlNotFound(j)
  <2>1. "gone" \in MT!Result \ {"none"}
    BY DEF MT!Result
  <2>2. QED
    BY <1>2, <2>1, ToolCallTypes DEF CrawlNotFound, RecordJobResult, ToolCall
<1>3. CASE RecordResult(j)
  <2>1. scores[j] \in MT!Result \ {"none"} /\ j \in urls
    BY <1>0, <1>3 DEF MT!Result, RecordResult
  <2>2. QED
    BY <1>3, <2>1, ToolCallTypes DEF RecordResult, RecordJobResult, ToolCall
<1>4. QED
  BY <1>1, <1>2, <1>3

\* The tools never change a result that is there: what job_matches promises is kept,
\* whatever the LLM calls.
THEOREM MatchTableRefined == Spec => ImplementsMatchTable
<1>1. Init => MT!TableTypeOK
  BY DEF Init, MT!TableTypeOK, MT!Result
<1>2. Base /\ [Next]_vars => [MT!TableNext]_matches
  <2> SUFFICES ASSUME Base, [Next]_vars, matches' # matches PROVE MT!TableNext
    OBVIOUS
  <2>1. PICK j \in urls, result \in MT!Result \ {"none"} :
           Fresh(j, version) /\ matches' = [matches EXCEPT ![<<j, version>>] = result]
    BY OnlyToolsWrite
  <2>2. <<j, version>> \in Jobs \X Versions
    BY OnlyToolsWrite DEF Base, TypeOK
  <2>3. QED
    BY <2>1, <2>2 DEF MT!TableNext, MT!Insert, Fresh
<1>3. QED
  BY <1>1, <1>2, BaseHolds, PTL DEF Spec, ImplementsMatchTable, MT!TableSpec

-----------------------------------------------------------------------------
(* One result per job: what the cycle knows of the jobs it has fetched.    *)

ToolUse == 
    \/ GetJobsToProcess \/ FruitlessCall
    \/ \E j \in Jobs : CrawlJob(j) \/ CrawlNotFound(j) \/ EvaluateMatch(j) \/ RecordResult(j)

\* How a cycle with an agent comes about: it starts with nothing, goes on, or uses a tool.
LEMMA CycleGoesOn ==
  ASSUME Base, [Next]_vars, stage' = "agent"
  PROVE  \/ /\ urls' = {} /\ details' = {} /\ scores' = NoScores /\ calls' = 0 /\ evaluated' = 0
            /\ matches' = matches
         \/ stage = "agent" /\ UNCHANGED <<cycle, matches>>
         \/ ToolUse
<1>1. CASE CycleStep
  <2>1. CASE Resolve
    BY <2>1 DEF Base, PlaceInv, Resolve
  <2>2. CASE CheckFlag \/ Stop
    BY <2>2 DEF CheckFlag, Stop, EndCycle, DropCycle
  <2>3. QED
    BY <1>1, <2>1, <2>2 DEF CycleStep, ToolUse
<1>2. CASE Environment \/ ConsumerStep \/ Boot \/ ReadLost \/ Die \/ Crash \/ UNCHANGED vars
  BY <1>2 DEF Environment, WriteJob, Publish, Promote, SetFlag, Boot, StartCycle, ConsumerStep,
       EnsureGroup, Read, Idle, HandleTrigger, IgnoreEvent, Ack, ReadLost, Deliver, Die, Crash, DropCycle
<1>3. QED
  BY <1>1, <1>2 DEF Next

SameVersion(j, v) == \A w \in Versions : matches[<<j, w>>] # "none" => w = v

VersionInv ==
    /\ \A j \in Jobs, v \in Versions : matches[<<j, v>>] # "none" => SameVersion(j, v)
    /\ stage = "agent" => \A j \in urls : SameVersion(j, version)

LEMMA FetchedUnrecorded ==
  ASSUME Base, NEW j \in Fetched, NEW v \in Versions
  PROVE  matches[<<j, v>>] = "none"
BY DEF Fetched, Waiting, Recorded

LEMMA VersionStep == Base /\ VersionInv /\ [Next]_vars => VersionInv'
<1> SUFFICES ASSUME Base, VersionInv, [Next]_vars PROVE VersionInv'
  OBVIOUS
<1>1. CASE matches' # matches
  <2>1. PICK j \in urls, result \in MT!Result \ {"none"} :
           matches' = [matches EXCEPT ![<<j, version>>] = result]
    BY <1>1, OnlyToolsWrite
  <2>2. /\ stage = "agent" /\ version' = version /\ urls' = urls /\ version \in Versions /\ j \in Jobs
        /\ matches \in [Jobs \X Versions -> MT!Result]
    BY <1>1, OnlyToolsWrite DEF Base, TypeOK, MT!TableTypeOK
  <2>3. \A k \in Jobs, v \in Versions :
           matches'[<<k, v>>] = IF k = j /\ v = version THEN result ELSE matches[<<k, v>>]
    BY <2>1, <2>2
  <2>4. SameVersion(j, version)
    BY <2>2 DEF VersionInv
  <2>5. \A w \in Versions : matches'[<<j, w>>] # "none" => w = version
    BY <2>2, <2>3, <2>4 DEF SameVersion
  <2>6. \A k \in Jobs \ {j}, w \in Versions : matches'[<<k, w>>] = matches[<<k, w>>]
    BY <2>3
  <2>7. ASSUME NEW k \in Jobs, NEW v \in Versions, matches'[<<k, v>>] # "none"
        PROVE  \A w \in Versions : matches'[<<k, w>>] # "none" => w = v
    BY <2>5, <2>6, <2>7 DEF VersionInv, SameVersion
  <2>8. ASSUME NEW k \in urls
        PROVE  \A w \in Versions : matches'[<<k, w>>] # "none" => w = version
    <3>1. k \in Jobs
      BY DEF Base, TypeOK
    <3>2. QED
      BY <2>2, <2>5, <2>6, <3>1 DEF VersionInv, SameVersion
  <2>9. QED
    BY <2>2, <2>7, <2>8 DEF VersionInv, SameVersion
<1>2. CASE matches' = matches
  <2>1. \A j \in Jobs, v \in Versions : matches'[<<j, v>>] # "none" => SameVersion(j, v)'
    BY <1>2 DEF VersionInv, SameVersion
  <2>2. ASSUME stage' = "agent", NEW j \in urls' PROVE SameVersion(j, version)'
    <3>1. CASE stage = "agent" /\ version' = version /\ j \in urls
      BY <1>2, <3>1 DEF VersionInv, SameVersion
    <3>2. CASE GetJobsToProcess /\ j \in Fetched
      BY <1>2, <3>2, FetchedUnrecorded DEF SameVersion
    <3>3. QED
      BY <2>2, <3>1, <3>2, CycleGoesOn
         DEF ToolUse, GetJobsToProcess, FruitlessCall, CrawlJob, CrawlNotFound, EvaluateMatch,
             RecordResult, ToolCall
  <2>3. QED
    BY <2>1, <2>2 DEF VersionInv
<1>3. QED
  BY <1>1, <1>2

\* However many jobs are listed and versions promoted, and whatever the LLM calls, the
\* matching cycle gives no job a result under two versions.
THEOREM OneVersion == Spec => []OneVersionPerJob
<1>1. Init => VersionInv
  BY DEF Init, VersionInv, SameVersion
<1>2. VersionInv => OneVersionPerJob
  <2> SUFFICES ASSUME VersionInv, NEW j \in Jobs
               PROVE  Cardinality({v \in Versions : matches[<<j, v>>] # "none"}) <= 1
    BY DEF OneVersionPerJob
  <2> DEFINE found == {v \in Versions : matches[<<j, v>>] # "none"}
  <2>1. CASE found = {}
    <3>1. Cardinality(found) = 0
      BY <2>1, FS_EmptySet
    <3>2. QED
      BY <3>1
  <2>2. CASE found # {}
    <3>1. PICK v \in Versions : matches[<<j, v>>] # "none"
      BY <2>2
    <3>2. found = {v}
      BY <3>1 DEF VersionInv, SameVersion
    <3>3. Cardinality(found) = 1
      BY <3>2, FS_Singleton
    <3>4. QED
      BY <3>3
  <2>3. QED
    BY <2>1, <2>2
<1>3. QED
  BY <1>1, <1>2, VersionStep, BaseHolds, PTL DEF Spec

-----------------------------------------------------------------------------
(* The stream: an entry is in one reply only, and in its order.            *)

Beyond(e) == delivered # NoGroup => e > delivered

InHandInv ==
    /\ \A i \in 1..Len(inHand) :
          /\ inHand[i] <= delivered
          /\ served[inHand[i]] = 0 \/ (i = 1 /\ worker = "ack")
          /\ \A k \in 1..Len(inHand) : i < k => inHand[i] < inHand[k]
    /\ worker = "ack" /\ stream[inHand[1]] \in Triggers => served[inHand[1]] > 0

QueueInv ==
    /\ InHandInv
    /\ \A e \in Entries : Beyond(e) => served[e] = 0
    /\ ServedOnce
    /\ AckedAfterCycle

LEMMA QueueTypes ==
  ASSUME Base
  PROVE  /\ Len(inHand) \in Nat /\ Len(stream) \in Nat /\ Entries \subseteq Nat /\ origin \in Nat
         /\ \A i \in 1..Len(inHand) : inHand[i] \in Entries
         /\ inHand # <<>> => Len(inHand) > 0 /\ Head(inHand) = inHand[1]
         /\ served \in [Entries -> Nat]
         /\ delivered # NoGroup => delivered \in Nat /\ delivered <= Len(stream)
         /\ delivered # NoGroup => \A e \in (origin + 1)..delivered : e \in Entries
<1>1. inHand \in Seq(Entries) /\ stream \in Seq(EventTypes)
  BY DEF Base, TypeOK
<1>2. /\ Len(inHand) \in Nat /\ Len(stream) \in Nat /\ Entries \subseteq Nat
      /\ inHand # <<>> => Len(inHand) > 0
  BY <1>1, LenProperties, EmptySeq DEF Entries
<1>3. origin \in Nat /\ (delivered # NoGroup => delivered \in Nat /\ delivered <= Len(stream))
  BY <1>2 DEF Base, TypeOK
<1>4. delivered # NoGroup => \A e \in (origin + 1)..delivered : e \in Entries
  BY <1>2, <1>3, Limits DEF Base, PlaceInv, Entries
<1>5. \A i \in 1..Len(inHand) : inHand[i] \in Entries
  BY <1>1, ElementOfSeq
<1>6. QED
  BY <1>1, <1>2, <1>3, <1>4, <1>5 DEF Base, TypeOK

\* The end of a cycle serves the entry at the head of the reply, for the first time.
LEMMA EndKeepsQueue ==
  ASSUME Base, QueueInv, worker \in InCycle, EndCycle
  PROVE  QueueInv'
<1>1. UNCHANGED <<stream, delivered, pending, inHand, origin>>
  BY DEF EndCycle
<1>2. CASE worker # "trigger"
  <2>1. served' = served /\ worker' # "ack"
    BY <1>2 DEF EndCycle, InCycle
  <2>2. worker \notin InHandPlaces
    BY <1>2 DEF InCycle, InHandPlaces
  <2>3. inHand = <<>> /\ Len(inHand) = 0
    BY <2>2, EmptySeq DEF Base, PlaceInv
  <2>4. QED
    BY <1>1, <2>1, <2>3 DEF QueueInv, InHandInv, Beyond, ServedOnce, AckedAfterCycle
<1>3. CASE worker = "trigger"
  <2>1. Len(inHand) > 0 /\ Head(inHand) = inHand[1] /\ inHand[1] \in Entries /\ delivered # NoGroup
    BY <1>3, QueueTypes DEF Base, PlaceInv, InHandPlaces
  <2>2. served[inHand[1]] = 0 /\ inHand[1] <= delivered
    BY <1>3, <2>1, QueueTypes DEF QueueInv, InHandInv
  <2>3. worker' = "ack" /\ served' = [served EXCEPT ![inHand[1]] = 1]
    <3>1. worker' = "ack" /\ served' = [served EXCEPT ![inHand[1]] = served[inHand[1]] + 1]
      BY <1>3, <2>1 DEF EndCycle
    <3>2. QED
      BY <2>2, <3>1
  <2>4. served'[inHand[1]] = 1 /\ \A e \in Entries : e # inHand[1] => served'[e] = served[e]
    BY <2>1, <2>3, QueueTypes
  <2>5. InHandInv'
    <3>1. ASSUME NEW i \in 1..Len(inHand) PROVE served'[inHand[i]] = 0 \/ i = 1
      <4>1. CASE i # 1
        <5>1. inHand[i] # inHand[1]
          BY <2>1, <4>1, QueueTypes DEF QueueInv, InHandInv
        <5>2. QED
          BY <1>3, <2>4, <4>1, <5>1, QueueTypes DEF QueueInv, InHandInv
      <4>2. QED
        BY <4>1
    <3>2. QED
      BY <1>1, <2>3, <2>4, <3>1 DEF QueueInv, InHandInv
  <2>6. \A e \in Entries : Beyond(e)' => served'[e] = 0
    BY <1>1, <2>1, <2>2, <2>4, QueueTypes DEF QueueInv, Beyond
  <2>7. ServedOnce'
    BY <2>4 DEF QueueInv, ServedOnce
  <2>8. ASSUME NEW e \in (origin + 1)..delivered, stream[e] \in Triggers, e \notin pending
        PROVE  served'[e] > 0
    <3>1. served[e] > 0 /\ e \in Entries
      BY <2>1, <2>8, QueueTypes DEF QueueInv, AckedAfterCycle
    <3>2. QED
      BY <2>4, <3>1
  <2>9. QED
    BY <1>1, <2>5, <2>6, <2>7, <2>8 DEF QueueInv, AckedAfterCycle
<1>4. QED
  BY <1>2, <1>3

LEMMA EnsureKeepsQueue ==
  ASSUME Base, QueueInv, EnsureGroup
  PROVE  QueueInv'
<1>1. UNCHANGED <<stream, pending, inHand, served>> /\ inHand = <<>> /\ Len(inHand) = 0 /\ worker' = "read"
  BY EmptySeq DEF EnsureGroup, Base, PlaceInv, InHandPlaces
<1>2. InHandInv'
  BY <1>1 DEF InHandInv
<1>3. CASE delivered # NoGroup
  BY <1>1, <1>2, <1>3 DEF EnsureGroup, QueueInv, Beyond, ServedOnce, AckedAfterCycle
<1>4. CASE delivered = NoGroup
  <2>1. \A e \in Entries : served[e] = 0
    BY <1>4 DEF QueueInv, Beyond
  <2>2. delivered' = origin' /\ origin' \in Nat
    BY <1>4, QueueTypes DEF EnsureGroup
  <2>3. AckedAfterCycle'
    <3>1. PICK o \in Nat : o = origin' /\ o = delivered'
      BY <2>2
    <3>2. (o + 1)..o = {}
      OBVIOUS
    <3>3. QED
      BY <3>1, <3>2 DEF AckedAfterCycle
  <2>4. QED
    BY <1>1, <1>2, <2>1, <2>3 DEF QueueInv, ServedOnce
<1>5. QED
  BY <1>3, <1>4

\* A reply holds entries nobody has seen; a lost one leaves them pending.
LEMMA DeliverKeepsQueue ==
  ASSUME Base, QueueInv, Read \/ ReadLost
  PROVE  QueueInv'
<1>1. /\ Deliver /\ UNCHANGED <<stream, origin, served>> /\ worker' # "ack"
      /\ delivered' \in Nat /\ delivered < delivered' /\ delivered \in Nat /\ delivered # NoGroup
      /\ delivered' <= MaxEvents /\ delivered' # NoGroup
      /\ pending' = pending \cup (delivered + 1)..delivered'
  BY ReadTypes, NullAssumption, Limits DEF Read, ReadLost, Deliver
<1>2. \A e \in Entries : Beyond(e) <=> e > delivered
  BY <1>1 DEF Beyond
<1>3. \A e \in Entries : Beyond(e)' => e > delivered' /\ e > delivered
  BY <1>1, QueueTypes DEF Beyond
<1>4. InHandInv'
  <2>1. CASE Read
    <3>1. PICK d, n, reply : /\ d = delivered /\ n = delivered' /\ reply = inHand'
      OBVIOUS
    <3>2. /\ d \in Nat /\ n \in Nat /\ Len(reply) = n - d /\ n <= MaxEvents
          /\ \A i \in 1..Len(reply) : reply[i] = d + i
      BY <1>1, <2>1, <3>1, Reply
    <3>3. \A i \in 1..Len(reply) : reply[i] \in Nat /\ reply[i] <= n /\ reply[i] > d
      BY <3>2
    <3>4. \A i, k \in 1..Len(reply) : i < k => reply[i] < reply[k]
      BY <3>2
    <3>5. \A i \in 1..Len(reply) : served[reply[i]] = 0
      <4>1. \A i \in 1..Len(reply) : reply[i] \in Entries
        BY <3>2, <3>3, Limits DEF Entries
      <4>2. QED
        BY <1>2, <3>1, <3>3, <4>1 DEF QueueInv
    <3>6. QED
      BY <1>1, <3>1, <3>3, <3>4, <3>5 DEF InHandInv
  <2>2. CASE ReadLost
    <3>1. inHand = <<>> /\ inHand' = inHand /\ Len(inHand) = 0
      BY <2>2, EmptySeq DEF ReadLost, Deliver, Base, PlaceInv, InHandPlaces
    <3>2. QED
      BY <1>1, <3>1 DEF InHandInv
  <2>3. QED
    BY <2>1, <2>2
<1>5. \A e \in Entries : Beyond(e)' => served'[e] = 0
  BY <1>1, <1>2, <1>3 DEF QueueInv
<1>6. AckedAfterCycle'
  BY <1>1, QueueTypes DEF QueueInv, AckedAfterCycle
<1>7. ServedOnce'
  BY <1>1 DEF QueueInv, ServedOnce
<1>8. QED
  BY <1>4, <1>5, <1>6, <1>7 DEF QueueInv

LEMMA AckKeepsQueue ==
  ASSUME Base, QueueInv, Ack
  PROVE  QueueInv'
<1>1. /\ UNCHANGED <<stream, delivered, origin, served>> /\ worker = "ack"
      /\ pending' = pending \ {inHand[1]} /\ inHand' = Tail(inHand) /\ worker' # "ack"
      /\ Len(inHand) \in Nat /\ Len(inHand) > 0 /\ delivered # NoGroup
  BY QueueTypes DEF Ack, Base, PlaceInv, InHandPlaces
<1>2. /\ Len(inHand') = Len(inHand) - 1
      /\ \A i \in 1..Len(inHand') : inHand'[i] = inHand[i + 1]
  BY <1>1, HeadTailProperties DEF Base, TypeOK, PlaceInv, InHandPlaces
<1>3. InHandInv'
  <2>1. PICK n, rest : n = Len(inHand) /\ rest = inHand'
    OBVIOUS
  <2>2. n \in Nat /\ Len(rest) = n - 1 /\ \A i \in 1..Len(rest) : rest[i] = inHand[i + 1] /\ i + 1 \in 1..n
    BY <1>1, <1>2, <2>1
  <2>3. \A i, k \in 1..Len(rest) : i < k => rest[i] < rest[k]
    BY <2>1, <2>2 DEF QueueInv, InHandInv
  <2>4. \A i \in 1..Len(rest) : rest[i] <= delivered /\ served[rest[i]] = 0
    BY <2>1, <2>2 DEF QueueInv, InHandInv
  <2>5. QED
    BY <1>1, <2>1, <2>3, <2>4 DEF InHandInv
<1>4. AckedAfterCycle'
  <2>1. stream[inHand[1]] \in Triggers => served[inHand[1]] > 0
    BY <1>1 DEF QueueInv, InHandInv
  <2>2. QED
    BY <1>1, <2>1 DEF QueueInv, AckedAfterCycle
<1>5. QED
  BY <1>1, <1>3, <1>4 DEF QueueInv, Beyond, ServedOnce

LEMMA PublishKeepsQueue ==
  ASSUME Base, QueueInv, NEW type \in EventTypes, Publish(type)
  PROVE  QueueInv'
<1>1. /\ UNCHANGED queue
      /\ \A e \in 1..Len(stream) : stream'[e] = stream[e]
  BY AppendProperties DEF Publish, Base, TypeOK
<1>2. delivered # NoGroup => \A e \in (origin + 1)..delivered : e \in 1..Len(stream)
  BY QueueTypes
<1>3. worker = "ack" => inHand[1] \in 1..Len(stream)
  <2> SUFFICES ASSUME worker = "ack" PROVE inHand[1] \in 1..Len(stream)
    OBVIOUS
  <2>1. 1 \in 1..Len(inHand) /\ inHand[1] \in Entries /\ delivered # NoGroup
    BY QueueTypes DEF Base, PlaceInv, InHandPlaces
  <2>2. inHand[1] <= delivered
    BY <2>1 DEF QueueInv, InHandInv
  <2>3. QED
    BY <2>1, <2>2, QueueTypes DEF Entries
<1>4. AckedAfterCycle'
  BY <1>1, <1>2 DEF QueueInv, AckedAfterCycle
<1>5. QED
  BY <1>1, <1>3, <1>4 DEF QueueInv, InHandInv, Beyond, ServedOnce

\* A step that moves the worker between its places, and no entry.
LEMMA PlaceKeepsQueue ==
  ASSUME Base, QueueInv, UNCHANGED <<stream, delivered, pending, origin, served>>,
         \/ UNCHANGED <<worker, inHand>>
         \/ inHand' = inHand /\ worker # "ack" /\ worker' # "ack"
         \/ inHand' = inHand /\ worker = "entry" /\ stream[inHand[1]] \notin Triggers
         \/ inHand' = <<>> /\ worker' # "ack"
  PROVE  QueueInv'
<1>1. Len(<<>>) = 0
  BY EmptySeq
<1>2. InHandInv'
  BY <1>1 DEF QueueInv, InHandInv
<1>3. QED
  BY <1>2 DEF QueueInv, Beyond, ServedOnce, AckedAfterCycle

LEMMA QueueStep == Base /\ QueueInv /\ [Next]_vars => QueueInv'
<1> SUFFICES ASSUME Base, QueueInv, [Next]_vars PROVE QueueInv'
  OBVIOUS
<1>1. CASE EnsureGroup \/ Read \/ ReadLost \/ Ack
  BY <1>1, EnsureKeepsQueue, DeliverKeepsQueue, AckKeepsQueue
<1>2. CASE (CheckFlag /\ ~flags[mode]) \/ Stop
  <2>1. worker \in InCycle
    BY <1>2 DEF Base, TypeOK, CheckFlag, Stop
  <2>2. QED
    BY <1>2, <2>1, EndKeepsQueue DEF CheckFlag, Stop
<1>3. CASE (CheckFlag /\ flags[mode]) \/ Resolve \/ ToolUse
  BY <1>3, PlaceKeepsQueue
     DEF CheckFlag, Resolve, ToolUse, GetJobsToProcess, FruitlessCall, CrawlJob, CrawlNotFound,
         EvaluateMatch, RecordResult, ToolCall
<1>4. CASE Boot \/ Idle \/ HandleTrigger
  BY <1>4, PlaceKeepsQueue DEF Boot, Idle, HandleTrigger, StartCycle
<1>5. CASE IgnoreEvent
  BY <1>5, PlaceKeepsQueue, QueueTypes DEF IgnoreEvent, Base, PlaceInv, InHandPlaces
<1>6. CASE Die \/ Crash
  BY <1>6, PlaceKeepsQueue DEF Die, Crash
<1>7. CASE Environment
  <2>1. ASSUME NEW type \in EventTypes, Publish(type) PROVE QueueInv'
    BY <2>1, PublishKeepsQueue
  <2>2. CASE \/ \E j \in Jobs : WriteJob(j)
             \/ \E v \in Versions : Promote(v)
             \/ \E m \in Modes : SetFlag(m)
    BY <2>2, PlaceKeepsQueue DEF WriteJob, Promote, SetFlag
  <2>3. QED
    BY <1>7, <2>1, <2>2 DEF Environment
<1>8. CASE UNCHANGED vars
  BY <1>8, PlaceKeepsQueue
<1>9. QED
  BY <1>1, <1>2, <1>3, <1>4, <1>5, <1>6, <1>7, <1>8 DEF Next, CycleStep, ConsumerStep, ToolUse

LEMMA QueueHolds == Spec => []QueueInv
<1>1. Init => QueueInv
  <2>1. Init => Len(inHand) = 0
    BY EmptySeq DEF Init
  <2>2. QED
    BY <2>1 DEF Init, QueueInv, InHandInv, ServedOnce, AckedAfterCycle
<1>2. QED
  BY <1>1, QueueStep, BaseHolds, PTL DEF Spec

\* Whatever is lost, fails or restarts, a trigger leaves the pending list only when its
\* cycle has ended.
THEOREM Acked == Spec => []AckedAfterCycle
<1>1. QueueInv => AckedAfterCycle
  BY DEF QueueInv
<1>2. QED
  BY <1>1, QueueHolds, PTL

\* For any stream and any read count, no entry is ever served twice.
THEOREM Served == Spec => []ServedOnce
<1>1. QueueInv => ServedOnce
  BY DEF QueueInv
<1>2. QED
  BY <1>1, QueueHolds, PTL

-----------------------------------------------------------------------------
(* One batch per cycle: the limit and the order of the query.              *)

LEMMA Least ==
  ASSUME NEW S \in SUBSET Nat, S # {}
  PROVE  \E m \in S : \A k \in S : m <= k
<1>1. PICK m \in S : \A k \in S : <<k, m>> \notin OpToRel(<, Nat)
  BY NatLessThanWellFounded, WFMin
<1>2. \A k \in S : ~(k < m)
  BY <1>1 DEF OpToRel
<1>3. QED
  BY <1>2

LEMMA Greatest ==
  ASSUME NEW n \in Nat, NEW S \in SUBSET (1..n), S # {}
  PROVE  \E m \in S : \A k \in S : k <= m
<1> DEFINE T == {i \in Nat : n - i \in S}
<1>1. PICK k \in S : TRUE
  OBVIOUS
<1>2. n - k \in T
  BY <1>1
<1>3. PICK i \in T : \A l \in T : i <= l
  BY <1>2, Least
<1>4. ASSUME NEW l \in S PROVE l <= n - i
  <2>1. n - l \in T
    BY <1>4
  <2>2. QED
    BY <1>3, <2>1
<1>5. QED
  BY <1>3, <1>4

\* Fewer than MaxJobs waiting jobs in front of each: at most MaxJobs of them.
LEMMA LimitedSelection ==
  ASSUME NEW S, IsFiniteSet(S), NEW k \in S, NEW T, IsFiniteSet(T), S \ {k} \subseteq T,
         Cardinality(T) < MaxJobs
  PROVE  Cardinality(S) <= MaxJobs
<1>1. IsFiniteSet(S \ {k}) /\ Cardinality(S \ {k}) = Cardinality(S) - 1
  BY FS_RemoveElement
<1>2. Cardinality(S \ {k}) <= Cardinality(T)
  BY FS_Subset
<1>3. /\ Cardinality(S) \in Nat /\ Cardinality(T) \in Nat
  BY FS_CardinalityType
<1>4. QED
  BY <1>1, <1>2, <1>3, Limits

LEMMA FetchedLimit ==
  ASSUME Base
  PROVE  IsFiniteSet(Fetched) /\ Cardinality(Fetched) <= MaxJobs
<1> DEFINE chosen == {k \in Waiting : Cardinality(InFront(k)) < MaxJobs}
           pick == [k \in chosen |-> listings[k]]
<1>1. Len(listings) \in Nat /\ IsFiniteSet(1..Len(listings)) /\ 1..Len(listings) \subseteq Nat
  <2>1. Len(listings) \in Nat
    BY LenProperties DEF Base, TypeOK
  <2>2. IsFiniteSet(1..Len(listings))
    BY <2>1, FS_Interval
  <2>3. QED
    BY <2>1, <2>2
<1>2. Waiting \subseteq 1..Len(listings) /\ chosen \subseteq Waiting
  BY DEF Waiting
<1>3. IsFiniteSet(Waiting) /\ IsFiniteSet(chosen)
  BY <1>1, <1>2, FS_Subset
<1>4. \A i : IsFiniteSet(InFront(i))
  BY <1>3, FS_Subset DEF InFront
<1>5. Cardinality(chosen) <= MaxJobs
  <2>1. CASE chosen = {}
    <3>1. Cardinality(chosen) = 0
      BY <2>1, FS_EmptySet
    <3>2. QED
      BY <3>1, Limits
  <2>2. CASE chosen # {} /\ mode = "live"
    <3>1. PICK m \in chosen : \A k \in chosen : m <= k
      <4>1. chosen \in SUBSET Nat
        BY <1>1, <1>2
      <4> HIDE DEF chosen
      <4>2. QED
        BY <2>2, <4>1, Least
    <3>2. \A k \in chosen \ {m} : k \in InFront(m)
      BY <1>1, <1>2, <2>2, <3>1 DEF InFront
    <3>3. QED
      BY <1>3, <1>4, <3>1, <3>2, LimitedSelection
  <2>3. CASE chosen # {} /\ mode # "live"
    <3>1. PICK m \in chosen : \A k \in chosen : k <= m
      <4>1. chosen \in SUBSET (1..Len(listings))
        BY <1>2
      <4> HIDE DEF chosen
      <4>2. QED
        BY <1>1, <2>3, <4>1, Greatest
    <3>2. \A k \in chosen \ {m} : k \in InFront(m)
      BY <1>1, <1>2, <2>3, <3>1 DEF InFront
    <3>3. QED
      BY <1>3, <1>4, <3>1, <3>2, LimitedSelection
  <2>4. QED
    BY <2>1, <2>2, <2>3
<1>6. pick \in Surjection(chosen, Fetched)
  BY DEF Fetched, Surjection
<1>7. IsFiniteSet(Fetched) /\ Cardinality(Fetched) <= Cardinality(chosen)
  BY <1>3, <1>6, FS_Surjection
<1>8. Cardinality(chosen) \in Nat /\ Cardinality(Fetched) \in Nat
  BY <1>3, <1>7, FS_CardinalityType
<1>9. QED
  BY <1>5, <1>7, <1>8, Limits

Scorings == {j \in Jobs : scores[j] # "none"}
Counted  == {j \in urls : matches[<<j, version>>] \in MT!Scored}
Spent    == Cardinality(details) + Cardinality(Scorings) + evaluated

\* Each job a cycle counts was crawled, scored and recorded by a call of its own, and
\* the jobs of a second batch take a second call to fetch.
CycleInv ==
    stage = "agent" =>
        /\ Counted \subseteq Scorings
        /\ evaluated <= Cardinality(Counted)
        /\ Spent <= calls
        /\ urls # {} => Spent + 1 <= calls
        /\ Cardinality(urls) > MaxJobs => Spent + 2 <= calls

LEMMA CycleSizes ==
  ASSUME Base
  PROVE  /\ IsFiniteSet(urls) /\ IsFiniteSet(details) /\ IsFiniteSet(Scorings) /\ IsFiniteSet(Counted)
         /\ Cardinality(urls) \in Nat /\ Cardinality(details) \in Nat
         /\ Cardinality(Scorings) \in Nat /\ Cardinality(Counted) \in Nat
         /\ evaluated \in Nat /\ calls \in Nat
         /\ Scorings \subseteq details /\ details \subseteq urls
<1>1. /\ urls \subseteq Jobs /\ details \subseteq urls /\ Scorings \subseteq details
      /\ Counted \subseteq urls /\ evaluated \in Nat /\ calls \in Nat
  BY Limits DEF Base, TypeOK, PlaceInv, Scorings, Counted
<1>2. IsFiniteSet(urls)
  BY <1>1, JobAssumption, FS_Subset
<1>3. IsFiniteSet(details) /\ IsFiniteSet(Counted)
  BY <1>1, <1>2, FS_Subset
<1>4. IsFiniteSet(Scorings)
  BY <1>1, <1>3, FS_Subset
<1>5. QED
  BY <1>1, <1>2, <1>3, <1>4, FS_CardinalityType

\* A call that adds at most one to what the cycle has spent.
LEMMA CallPaysForOne ==
  ASSUME Base, Base', CycleInv, stage = "agent", calls' = calls + 1, urls' = urls,
         \/ Cardinality(details)' <= Cardinality(details) + 1 /\ UNCHANGED <<Scorings, evaluated>>
         \/ Cardinality(Scorings)' <= Cardinality(Scorings) + 1 /\ UNCHANGED <<details, evaluated>>
         \/ evaluated' = evaluated + 1 /\ UNCHANGED <<details, Scorings>>
         \/ UNCHANGED <<details, Scorings, evaluated>>,
         Counted' \subseteq Scorings', evaluated' <= Cardinality(Counted)'
  PROVE  CycleInv'
<1>1. PICK d, s, e, c, u, dd, ss, ee :
           /\ d = Cardinality(details) /\ s = Cardinality(Scorings) /\ e = evaluated
           /\ c = calls /\ u = Cardinality(urls)
           /\ dd = Cardinality(details)' /\ ss = Cardinality(Scorings)' /\ ee = evaluated'
  OBVIOUS
<1>2. d \in Nat /\ s \in Nat /\ e \in Nat /\ c \in Nat /\ dd \in Nat /\ ss \in Nat /\ ee \in Nat
  <2>1. (Cardinality(details) \in Nat /\ Cardinality(Scorings) \in Nat /\ evaluated \in Nat)'
    BY CycleSizes, PTL
  <2>2. QED
    BY <1>1, <2>1, CycleSizes
<1>3. \/ dd <= d + 1 /\ ss = s /\ ee = e
      \/ ss <= s + 1 /\ dd = d /\ ee = e
      \/ ee = e + 1 /\ dd = d /\ ss = s
      \/ dd = d /\ ss = s /\ ee = e
  BY <1>1
<1>4. dd + ss + ee <= d + s + e + 1
  BY <1>2, <1>3
<1>5. /\ d + s + e <= c
      /\ urls # {} => d + s + e + 1 <= c
      /\ u > MaxJobs => d + s + e + 2 <= c
  BY <1>1 DEF CycleInv, Spent
<1>6. /\ dd + ss + ee <= c + 1
      /\ urls # {} => dd + ss + ee + 1 <= c + 1
      /\ u > MaxJobs => dd + ss + ee + 2 <= c + 1
  BY <1>2, <1>4, <1>5
<1>7. QED
  BY <1>1, <1>6 DEF CycleInv, Spent

LEMMA OneMore ==
  ASSUME NEW S, NEW x, IsFiniteSet(S)
  PROVE  Cardinality(S \cup {x}) <= Cardinality(S) + 1
<1>1. Cardinality(S) \in Nat
  BY FS_CardinalityType
<1>2. CASE x \in S
  <2>1. S \cup {x} = S
    BY <1>2
  <2>2. QED
    BY <1>1, <2>1
<1>3. CASE x \notin S
  <2>1. Cardinality(S \cup {x}) = Cardinality(S) + 1
    BY <1>3, FS_AddElement
  <2>2. QED
    BY <1>1, <2>1
<1>4. QED
  BY <1>2, <1>3

LEMMA FetchPays ==
  ASSUME Base, Base', CycleInv, GetJobsToProcess
  PROVE  CycleInv'
<1>1. /\ stage = "agent" /\ stage' = "agent" /\ calls' = calls + 1 /\ version' = version /\ version \in Versions
      /\ UNCHANGED <<details, scores, evaluated, matches>> /\ urls' = urls \cup Fetched
  BY ToolCallTypes DEF GetJobsToProcess, ToolCall
<1>2. Counted' = Counted
  BY <1>1, FetchedUnrecorded DEF Counted, MT!Scored
<1>3. Scorings' = Scorings /\ Spent' = Spent
  BY <1>1 DEF Scorings, Spent
<1>4. Spent \in Nat /\ calls \in Nat
  BY CycleSizes DEF Spent
<1>5. CASE urls = {}
  <2>1. Cardinality(urls') <= MaxJobs
    <3>1. PICK F : F = Fetched
      OBVIOUS
    <3>2. Cardinality(F) <= MaxJobs
      BY <3>1, FetchedLimit
    <3>3. urls' = F
      BY <1>1, <1>5, <3>1
    <3>4. QED
      BY <3>2, <3>3
  <2>2. Cardinality(urls') \in Nat
    <3>1. (Cardinality(urls) \in Nat)'
      BY CycleSizes, PTL
    <3>2. QED
      BY <3>1
  <2>3. ~(Cardinality(urls') > MaxJobs)
    BY <2>1, <2>2, Limits
  <2>4. QED
    BY <1>1, <1>2, <1>3, <1>4, <2>3 DEF CycleInv
<1>6. CASE urls # {}
  <2>1. Spent + 1 <= calls
    BY <1>1, <1>6 DEF CycleInv
  <2>2. Spent <= calls + 1 /\ Spent + 1 <= calls + 1 /\ Spent + 2 <= calls + 1
    BY <1>4, <2>1
  <2>3. QED
    BY <1>1, <1>2, <1>3, <2>2 DEF CycleInv
<1>7. QED
  BY <1>5, <1>6

LEMMA JobToolPays ==
  ASSUME Base, Base', CycleInv, NEW j,
         \/ FruitlessCall
         \/ j \in Jobs /\ (CrawlJob(j) \/ CrawlNotFound(j) \/ EvaluateMatch(j) \/ RecordResult(j))
  PROVE  CycleInv'
<1>1. /\ stage = "agent" /\ calls' = calls + 1 /\ version' = version /\ version \in Versions /\ urls' = urls
      /\ urls \subseteq Jobs
  BY ToolCallTypes DEF CrawlJob, CrawlNotFound, EvaluateMatch, RecordResult, FruitlessCall, ToolCall, Base, TypeOK
<1>2. /\ Counted \subseteq Scorings /\ evaluated <= Cardinality(Counted)
  BY <1>1 DEF CycleInv
<1>3. /\ evaluated \in Nat /\ Cardinality(Counted) \in Nat /\ Cardinality(details) \in Nat
      /\ IsFiniteSet(Counted) /\ IsFiniteSet(details) /\ IsFiniteSet(Scorings)
  BY CycleSizes
<1>4. /\ matches \in [Jobs \X Versions -> MT!Result]
      /\ scores \in [Jobs -> MT!Scored \cup {"none"}]
  BY DEF Base, TypeOK, MT!TableTypeOK
<1>5. CASE j \in Jobs /\ CrawlJob(j)
  <2>1. UNCHANGED <<scores, evaluated, matches>> /\ details' = details \cup {j}
    BY <1>5 DEF CrawlJob
  <2>2. Counted' = Counted /\ Scorings' = Scorings
    BY <1>1, <2>1 DEF Counted, Scorings
  <2>3. Cardinality(details)' <= Cardinality(details) + 1
    <3>1. Cardinality(details \cup {j}) <= Cardinality(details) + 1
      BY <1>3, OneMore
    <3>2. QED
      BY <2>1, <3>1
  <2>4. QED
    BY <1>1, <1>2, <2>1, <2>2, <2>3, CallPaysForOne
<1>6. CASE FruitlessCall
  <2>1. UNCHANGED <<details, scores, evaluated, matches>>
    BY <1>6 DEF FruitlessCall
  <2>2. Counted' = Counted /\ Scorings' = Scorings
    BY <1>1, <2>1 DEF Counted, Scorings
  <2>3. QED
    BY <1>1, <1>2, <2>1, <2>2, CallPaysForOne
<1>7. CASE j \in Jobs /\ CrawlNotFound(j)
  <2>1. UNCHANGED <<details, scores, evaluated>> /\ RecordJobResult(j, version, "gone")
    BY <1>7 DEF CrawlNotFound
  <2>2. Scorings' = Scorings
    BY <2>1 DEF Scorings
  <2>3. \A k \in Jobs : matches'[<<k, version>>] \in MT!Scored <=> matches[<<k, version>>] \in MT!Scored
    BY <1>1, <1>4, <2>1 DEF RecordJobResult, Fresh, MT!Scored
  <2>4. Counted' = Counted
    BY <1>1, <2>3 DEF Counted
  <2>5. QED
    BY <1>1, <1>2, <2>1, <2>2, <2>4, CallPaysForOne
<1>8. CASE j \in Jobs /\ EvaluateMatch(j)
  <2>1. UNCHANGED <<details, evaluated, matches>>
    BY <1>8 DEF EvaluateMatch
  <2>2. PICK verdict \in MT!Scored : scores' = [scores EXCEPT ![j] = verdict]
    BY <1>8 DEF EvaluateMatch
  <2>3. Scorings' = Scorings \cup {j}
    BY <1>4, <1>8, <2>2 DEF Scorings, MT!Scored
  <2>4. Counted' = Counted
    BY <1>1, <2>1 DEF Counted
  <2>5. Cardinality(Scorings)' <= Cardinality(Scorings) + 1
    <3>1. Cardinality(Scorings \cup {j}) <= Cardinality(Scorings) + 1
      BY <1>3, OneMore
    <3>2. QED
      BY <2>3, <3>1
  <2>6. QED
    BY <1>1, <1>2, <2>1, <2>3, <2>4, <2>5, CallPaysForOne
<1>9. CASE j \in Jobs /\ RecordResult(j) /\ ~Fresh(j, version)
  <2>1. UNCHANGED <<details, scores, evaluated, matches>>
    BY <1>9 DEF RecordResult, RecordJobResult
  <2>2. Counted' = Counted /\ Scorings' = Scorings
    BY <1>1, <2>1 DEF Counted, Scorings
  <2>3. QED
    BY <1>1, <1>2, <2>1, <2>2, CallPaysForOne
<1>10. CASE j \in Jobs /\ RecordResult(j) /\ Fresh(j, version)
  <2>1. /\ UNCHANGED <<details, scores>> /\ evaluated' = evaluated + 1 /\ scores[j] # "none"
        /\ matches' = [matches EXCEPT ![<<j, version>>] = scores[j]]
    BY <1>10 DEF RecordResult, RecordJobResult
  <2>2. scores[j] \in MT!Scored /\ j \in urls /\ j \in Scorings
    BY <1>4, <1>10, <2>1, CycleSizes DEF Scorings
  <2>3. \A k \in Jobs : matches'[<<k, version>>] = IF k = j THEN scores[j] ELSE matches[<<k, version>>]
    BY <1>1, <1>4, <2>1
  <2>4. Counted' = Counted \cup {j}
    BY <1>1, <2>2, <2>3 DEF Counted
  <2>5. j \notin Counted
    BY <1>10 DEF Counted, Fresh, MT!Scored
  <2>6. Scorings' = Scorings
    BY <2>1 DEF Scorings
  <2>7. Cardinality(Counted)' = Cardinality(Counted) + 1
    BY <1>3, <2>4, <2>5, FS_AddElement
  <2>8. evaluated' <= Cardinality(Counted)'
    BY <1>2, <1>3, <2>1, <2>7
  <2>9. Counted' \subseteq Scorings'
    BY <1>2, <2>2, <2>4, <2>6
  <2>10. QED
    BY <1>1, <2>1, <2>6, <2>8, <2>9, CallPaysForOne
<1>11. QED
  BY <1>5, <1>6, <1>7, <1>8, <1>9, <1>10

LEMMA CycleStepKeeps == Base /\ CycleInv /\ [Next]_vars => CycleInv'
<1> SUFFICES ASSUME Base, CycleInv, [Next]_vars, stage' = "agent" PROVE CycleInv'
  BY DEF CycleInv
<1>0. Base'
  BY BaseStep
<1>1. CASE stage = "agent" /\ UNCHANGED <<cycle, matches>>
  BY <1>1 DEF CycleInv, Spent, Scorings, Counted
<1>2. CASE ToolUse
  BY <1>0, <1>2, FetchPays, JobToolPays DEF ToolUse
<1>3. CASE urls' = {} /\ details' = {} /\ scores' = NoScores /\ calls' = 0 /\ evaluated' = 0
  <2>1. Counted' = {} /\ Scorings' = {}
    BY <1>3 DEF Counted, Scorings, NoScores
  <2>2. Cardinality({}) = 0
    BY FS_EmptySet
  <2>3. QED
    BY <1>3, <2>1, <2>2, Limits DEF CycleInv, Spent
<1>4. QED
  BY <1>1, <1>2, <1>3, CycleGoesOn

\* More than MaxJobs jobs counted would have taken 3 * (MaxJobs + 1) + 2 calls.
LEMMA OneBatch == Base /\ CycleInv => OneBatchPerCycle /\ EvaluatedIsRecorded
<1> SUFFICES ASSUME Base, CycleInv PROVE OneBatchPerCycle /\ EvaluatedIsRecorded
  OBVIOUS
<1>1. /\ Cardinality(Counted) \in Nat /\ Cardinality(Scorings) \in Nat /\ Cardinality(details) \in Nat
      /\ Cardinality(urls) \in Nat /\ evaluated \in Nat
      /\ Cardinality(Scorings) <= Cardinality(details) /\ Cardinality(details) <= Cardinality(urls)
  BY CycleSizes, FS_Subset
<1>2. CASE stage # "agent"
  <2>1. evaluated = 0
    BY <1>2 DEF Base, PlaceInv
  <2>2. QED
    BY <1>1, <2>1, Limits DEF OneBatchPerCycle, EvaluatedIsRecorded, Counted
<1>3. CASE stage = "agent"
  <2>1. /\ evaluated <= Cardinality(Counted) /\ Counted \subseteq Scorings
        /\ Cardinality(urls) > MaxJobs => Spent + 2 <= calls
    BY <1>3 DEF CycleInv
  <2>2. Cardinality(Counted) <= Cardinality(Scorings)
    BY <2>1, CycleSizes, FS_Subset
  <2>3. calls <= 3 * MaxJobs + 4 /\ calls \in Nat
    BY Limits DEF Base, TypeOK, CallLimit
  <2>4. ASSUME evaluated > MaxJobs PROVE FALSE
    <3>1. /\ Cardinality(Scorings) > MaxJobs /\ Cardinality(details) > MaxJobs
          /\ Cardinality(urls) > MaxJobs
      BY <1>1, <2>1, <2>2, <2>4, Limits
    <3>2. Spent >= 3 * MaxJobs + 3
      BY <1>1, <2>4, <3>1, Limits DEF Spent
    <3>3. Spent \in Nat
      BY <1>1 DEF Spent
    <3>4. QED
      BY <2>1, <2>3, <3>1, <3>2, <3>3, Limits
  <2>5. QED
    BY <1>1, <2>1, <2>4, Limits DEF OneBatchPerCycle, EvaluatedIsRecorded, Counted
<1>4. QED
  BY <1>2, <1>3

LEMMA CycleHolds == Spec => []CycleInv
<1>1. Init => CycleInv
  BY DEF Init, CycleInv
<1>2. QED
  BY <1>1, CycleStepKeeps, BaseHolds, PTL DEF Spec

\* For any MAX_JOBS_PER_CYCLE and any number of jobs, the limit on tool calls keeps a
\* cycle from scoring more jobs than one batch holds.
THEOREM OneBatchOnly == Spec => []OneBatchPerCycle
BY OneBatch, CycleHolds, BaseHolds, PTL

\* What a cycle counts is what it has put into the table under its version.
THEOREM CountIsReal == Spec => []EvaluatedIsRecorded
BY OneBatch, CycleHolds, BaseHolds, PTL

-----------------------------------------------------------------------------
(* What the worker has left to do before it reads again: the entries it    *)
(* has in hand, its place in the loop, the stage of its cycle and the tool *)
(* calls the cycle may still make, compared in this order.                 *)

Place == IF worker \in {"boot", "entry"} THEN 4
         ELSE IF worker \in {"ensure", "trigger"} THEN 3
         ELSE IF worker \in {"idle", "ack"} THEN 2
         ELSE IF worker = "read" THEN 1 ELSE 0

Phase == IF stage = "check" THEN 3
         ELSE IF stage = "resolve" THEN 2
         ELSE IF stage = "agent" THEN 1 ELSE 0

CallsLeft == CallLimit - calls

LoopMeasured == Len(inHand) \in Nat /\ Place \in Nat /\ Phase \in Nat /\ CallsLeft \in Nat

LoopNearer ==
    \/ Len(inHand)' < Len(inHand)
    \/ /\ Len(inHand)' = Len(inHand)
       /\ \/ Place' < Place
          \/ /\ Place' = Place
             /\ Phase' < Phase \/ (Phase' = Phase /\ CallsLeft' < CallsLeft)

LoopStill == UNCHANGED <<Len(inHand), Place, Phase, CallsLeft>>

LoopGetsOn ==
    /\ Boot \/ Read \/ Idle \/ LoopNearer \/ LoopStill
    /\ CycleStep \/ EnsureGroup \/ HandleTrigger \/ IgnoreEvent \/ Ack => LoopNearer

LEMMA LoopTypes ==
  ASSUME Base
  PROVE  /\ inHand \in Seq(Entries) /\ Len(inHand) \in Nat
         /\ calls \in Nat /\ calls <= CallLimit /\ CallLimit \in Nat
         /\ worker \in InHandPlaces <=> inHand # <<>>
         /\ stage # "none" <=> worker \in InCycle
         /\ stage \in {"none", "check", "resolve", "agent"}
         /\ stage # "agent" => calls = 0
  BY Limits, LenProperties DEF Base, TypeOK, PlaceInv

LEMMA EndNears ==
  ASSUME Base, worker \in InCycle, EndCycle
  PROVE  LoopNearer
<1>1. /\ inHand' = inHand
      /\ <<worker, worker'>> \in {<<"boot", "ensure">>, <<"trigger", "ack">>, <<"idle", "read">>}
  BY DEF EndCycle, InCycle
<1>2. Place' < Place
  BY <1>1 DEF Place
<1> QED
  BY <1>1, <1>2 DEF LoopNearer

LEMMA CycleNears ==
  ASSUME Base, CycleStep
  PROVE  LoopNearer
<1>1. CASE ToolUse
  <2>1. /\ stage = "agent" /\ stage' = "agent" /\ calls' = calls + 1 /\ UNCHANGED <<inHand, worker>>
    BY <1>1 DEF ToolUse, GetJobsToProcess, FruitlessCall, CrawlJob, CrawlNotFound, EvaluateMatch,
       RecordResult, ToolCall
  <2>2. CallsLeft' < CallsLeft
    BY <2>1, LoopTypes DEF CallsLeft, CallLimit
  <2>3. Place' = Place /\ Phase' = Phase
    BY <2>1 DEF Place, Phase
  <2> QED
    BY <2>1, <2>2, <2>3 DEF LoopNearer
<1>2. CASE CheckFlag \/ Resolve \/ Stop
  <2>1. CASE EndCycle
    <3>1. stage # "none"
      BY <1>2 DEF CheckFlag, Resolve, Stop
    <3> QED
      BY <2>1, <3>1, LoopTypes, EndNears
  <2>2. CASE ~EndCycle
    <3>1. /\ <<stage, stage'>> \in {<<"check", "resolve">>, <<"resolve", "agent">>}
          /\ UNCHANGED <<inHand, worker>>
      BY <1>2, <2>2 DEF CheckFlag, Resolve, Stop
    <3>2. Phase' < Phase
      BY <3>1 DEF Phase
    <3>3. Place' = Place
      BY <3>1 DEF Place
    <3> QED
      BY <3>1, <3>2, <3>3 DEF LoopNearer
  <2> QED
    BY <2>1, <2>2
<1> QED
  BY <1>1, <1>2 DEF CycleStep, ToolUse

LEMMA QueueNears ==
  ASSUME Base, EnsureGroup \/ HandleTrigger \/ IgnoreEvent \/ Ack
  PROVE  LoopNearer
<1>1. CASE Ack
  <2>1. inHand # <<>> /\ inHand' = Tail(inHand)
    BY <1>1, LoopTypes DEF Ack, InHandPlaces
  <2>2. Len(inHand') = Len(inHand) - 1 /\ Len(inHand) \in Nat
    BY <2>1, LoopTypes, HeadTailProperties
  <2> QED
    BY <2>2 DEF LoopNearer
<1>2. CASE EnsureGroup \/ HandleTrigger \/ IgnoreEvent
  <2>1. /\ inHand' = inHand
        /\ <<worker, worker'>> \in {<<"ensure", "read">>, <<"entry", "trigger">>, <<"entry", "ack">>}
    BY <1>2 DEF EnsureGroup, HandleTrigger, IgnoreEvent, StartCycle
  <2>2. Place' < Place
    BY <2>1 DEF Place
  <2> QED
    BY <2>1, <2>2 DEF LoopNearer
<1> QED
  BY <1>1, <1>2

\* An error or a redeploy drops what is in hand; a worker that is dead has nothing left.
LEMMA StoppingNears ==
  ASSUME Base, Base', Die \/ Crash
  PROVE  LoopNearer \/ LoopStill
<1>1. inHand' = <<>> /\ Len(<<>>) = 0 /\ Len(inHand) \in Nat /\ worker' \in {"dead", "down"}
  BY LoopTypes DEF Die, Crash
<1>2. CASE inHand # <<>>
  <2>1. Len(inHand) # 0
    BY <1>2, LoopTypes, EmptySeq
  <2> QED
    BY <1>1, <2>1 DEF LoopNearer
<1>3. CASE inHand = <<>> /\ worker # "dead"
  <2>1. worker \in {"boot", "idle", "ensure", "read"}
    BY <1>3, LoopTypes DEF Base, TypeOK, InHandPlaces, InCycle, Die, Crash
  <2>2. Place' < Place
    BY <1>1, <2>1 DEF Place
  <2> QED
    BY <1>1, <1>3, <2>2 DEF LoopNearer
<1>4. CASE inHand = <<>> /\ worker = "dead"
  <2>1. stage = "none" /\ calls = 0
    BY <1>4, LoopTypes DEF InCycle
  <2>2. stage' = "none" /\ calls' = 0
    BY <1>4 DEF Die, Crash, DropCycle
  <2>3. Place' = 0 /\ Place = 0
    BY <1>1, <1>4 DEF Place
  <2> QED
    BY <1>1, <1>4, <2>1, <2>2, <2>3 DEF LoopStill, Phase, CallsLeft, CallLimit
<1> QED
  BY <1>2, <1>3, <1>4

\* Between two reads of the stream the worker has finitely much to do, however the LLM
\* behaves: each of its steps (each tool call, guardrail and acknowledgement) lowers a tuple
\* of naturals, and nothing that the scraper, the operators or a redeploy do raises it
\* (run_forever of stream_consumer.py and the tool-call limit of react_agent.py).
THEOREM CyclesAreFinite == Spec => []LoopMeasured /\ [][LoopGetsOn]_vars
<1>1. Base => LoopMeasured
  <2>1. Place \in Nat /\ Phase \in Nat
    BY DEF Place, Phase
  <2> QED
    BY <2>1, LoopTypes DEF LoopMeasured, CallsLeft
<1>2. ASSUME Base, Base', Next PROVE LoopGetsOn
  <2>1. CycleStep \/ EnsureGroup \/ HandleTrigger \/ IgnoreEvent \/ Ack => LoopNearer
    BY <1>2, CycleNears, QueueNears
  <2>2. CASE Environment \/ ReadLost
    <3>1. UNCHANGED <<inHand, worker, stage, calls>>
      BY <2>2 DEF Environment, WriteJob, Publish, Promote, SetFlag, ReadLost, Deliver
    <3>2. LoopStill
      BY <3>1 DEF LoopStill, Place, Phase, CallsLeft, CallLimit
    <3> QED
      BY <2>1, <3>2 DEF LoopGetsOn
  <2>3. CASE Die \/ Crash
    BY <1>2, <2>1, <2>3, StoppingNears DEF LoopGetsOn
  <2>4. CASE Boot \/ Read \/ Idle \/ CycleStep \/ EnsureGroup \/ HandleTrigger \/ IgnoreEvent \/ Ack
    BY <2>1, <2>4 DEF LoopGetsOn
  <2> QED
    BY <1>2, <2>2, <2>3, <2>4, Zenon DEF Next, ConsumerStep
<1>3. Base /\ Base' /\ [Next]_vars => [LoopGetsOn]_vars
  BY <1>2
<1> QED
  BY BaseHolds, <1>1, <1>3, PTL DEF Spec

=============================================================================

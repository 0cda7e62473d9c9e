---------------------------- MODULE StreamMonitor ----------------------------
(***************************************************************************)
(* ObservabilityServer/main.py and the dashboard that reads it             *)
(* (ObservabilityDashboard/src/hooks/index.ts).  The server copies the     *)
(* entries of the Redis streams into the state of the nodes it shows       *)
(* (that of the edges is left out), and tells every subscriber of          *)
(* /api/events/stream; a dashboard that is told fetches the snapshot       *)
(* /api/dashboard again.                                                   *)
(*                                                                         *)
(* The server is one asyncio loop and applies an entry under its lock, so  *)
(* that a snapshot sees all of an entry or nothing of it.  An entry of a   *)
(* stream is known by its place in it.                                     *)
(***************************************************************************)
EXTENDS Naturals, Sequences, FiniteSets

CONSTANTS
    StreamNames,      \* the streams followed, in the order they are seeded
    LevelsOf,         \* the levels of the events each stream carries
    SeedCount,        \* entries read of each stream at the start, 100
    ReadCount,        \* entries of each stream in one response, 100
    Window,           \* ERROR_WINDOW_SECONDS, in ticks
    MaxEntries, MaxClock, \* bounds
    MaxFaults         \* bound on failures: Redis, requests, connections, the process

ASSUME MonitorAssumption ==
    /\ SeedCount \in Nat \ {0} /\ ReadCount \in Nat \ {0} /\ Window \in Nat
    /\ MaxEntries \in Nat /\ MaxClock \in Nat /\ MaxFaults \in Nat

\* DEFAULT_STREAMS, in either order: webscraper:events and jobdataserver:events.
ASSUME StreamAssumption == StreamNames \in {<<"web", "jds">>, <<"jds", "web">>}

Levels  == {"info", "warning", "error"}
Streams == {StreamNames[k] : k \in DOMAIN StreamNames}

ASSUME LevelAssumption == LevelsOf \in [Streams -> SUBSET Levels]

VARIABLES
    log, clock,       \* of each stream: its entries, each with its level and time
    pc, seeding,      \* what the poller does; how many streams are seeded
    cursor,           \* _last_ids: a place in the stream, or "$" (0)
    asked,            \* the ids XREAD has been called with, "$" resolved
    todo,             \* entries of the response, or of the seed, not yet applied
    nodes,            \* _nodes
    phase, queue,     \* the dashboard's EventSource; messages in its subscriber queue
    fetch, view,      \* its request of the snapshot; events in the snapshot it shows
    faults,
    applied,          \* history: entries applied by this process
    news              \* history: since it subscribed, the dashboard has read an update while it had data

redis     == <<log, clock>>
poller    == <<pc, seeding, cursor, asked, todo>>
state     == <<nodes, applied>>
dashboard == <<phase, queue, fetch, view, news>>
vars      == <<redis, poller, state, dashboard, faults>>

None == <<>>
Dollar == 0
Nodes == {"scrape-yc-script", "data-server-backend", "scraped-data-table", "redis-stream"}

Entries == Streams \X (1..MaxEntries)

TypeOK ==
    /\ log \in [Streams -> Seq([at : 0..MaxClock, level : Levels])]
    /\ clock \in 0..MaxClock
    /\ pc \in {"seed", "poll", "blocked", "apply", "sleep"}
    /\ seeding \in 0..Len(StreamNames)
    /\ \A s \in Streams : cursor[s] \in 0..Len(log[s])
    /\ todo \in Seq(Entries) /\ applied \in Seq(Entries)
    /\ \A n \in Nodes : nodes[n] \in [events : Nat, errors : Seq(0..MaxClock)]
    /\ phase \in {"away", "connecting", "open", "on"}
    /\ queue \in Nat /\ news \in BOOLEAN
    /\ faults \in 0..MaxFaults

NoNodes == [n \in Nodes |-> [events |-> 0, errors |-> <<>>]]

NoCursor == [s \in Streams |-> Dollar]

\* A process that starts: __init__, and lifespan, which seeds before it serves.
Init ==
    /\ log = [s \in Streams |-> <<>>] /\ clock = 0
    /\ pc = "seed" /\ seeding = 0 /\ cursor = NoCursor /\ asked = None /\ todo = <<>>
    /\ nodes = NoNodes /\ applied = <<>>
    /\ phase = "away" /\ queue = 0 /\ fetch = None /\ view = None /\ news = FALSE
    /\ faults = 0

Fault == faults < MaxFaults /\ faults' = faults + 1

LastOf(xs, n) == SubSeq(xs, IF Len(xs) > n THEN Len(xs) - n + 1 ELSE 1, Len(xs))

\* The entries first..last of a stream.
Places(s, first, last) == [k \in 1..(IF last < first THEN 0 ELSE last + 1 - first) |->
                              <<s, first + k - 1>>]

(***************************************************************************)
(* The streams                                                             *)
(***************************************************************************)
Publish(s, level) ==
    /\ Len(log["web"]) + Len(log["jds"]) < MaxEntries
    /\ log' = [log EXCEPT ![s] = Append(@, [at |-> clock, level |-> level])]
    /\ UNCHANGED <<clock, poller, state, dashboard, faults>>

Tick ==
    /\ clock < MaxClock
    /\ clock' = clock + 1
    /\ UNCHANGED <<log, poller, state, dashboard, faults>>

(***************************************************************************)
(* _apply_entry                                                            *)
(***************************************************************************)
Kept(values, old) ==
    LET gone == {k \in DOMAIN values : 1..k \subseteq old}
    IN  SubSeq(values, Cardinality(gone) + 1, Len(values))

\* trim_window: the front goes while it is older than the window.
\* Mutant: a second too early.
BugTrimmed(values, now) == Kept(values, {k \in DOMAIN values : values[k] + Window <= now})
Trimmed(values, now) == Kept(values, {k \in DOMAIN values : values[k] + Window < now})

Recorded(node, e) ==
    [events |-> node.events + 1,
     errors |-> Trimmed(node.errors, e.at) \o (IF e.level = "error" THEN <<e.at>> ELSE <<>>)]

\* classify_source and _record_storage_activity.  The stage of the scraper's writes is
\* "write:<source>", never "write": none of its events is one of the table.
NodesOf(s) ==
    {"redis-stream"} \cup IF s = "jds" THEN {"data-server-backend", "scraped-data-table"}
                          ELSE {"scrape-yc-script"}

Entry(p) == log[p[1]][p[2]]

Apply(p) ==
    LET e == Entry(p)
    IN  /\ applied' = Append(applied, p)
        /\ nodes' = [n \in Nodes |-> IF n \in NodesOf(p[1]) THEN Recorded(nodes[n], e) ELSE nodes[n]]

(***************************************************************************)
(* The poller                                                              *)
(***************************************************************************)
\* One stream of _seed_from_recent_entries.
SeedRead ==
    /\ pc = "seed" /\ todo = <<>> /\ seeding < Len(StreamNames)
    /\ seeding' = seeding + 1
    /\ LET s == StreamNames[seeding + 1]
       IN  \/ /\ log[s] # <<>>
              /\ cursor' = [cursor EXCEPT ![s] = Len(log[s])]
              /\ todo' = LastOf(Places(s, 1, Len(log[s])), SeedCount)
              /\ UNCHANGED faults
           \/ log[s] = <<>> /\ UNCHANGED <<cursor, todo, faults>>
           \/ Fault /\ UNCHANGED <<cursor, todo>>            \* a RedisError is logged
    /\ UNCHANGED <<redis, pc, asked, state, dashboard>>

SeedApply ==
    /\ pc = "seed" /\ todo # <<>>
    /\ Apply(Head(todo)) /\ todo' = Tail(todo)
    /\ UNCHANGED <<redis, pc, seeding, cursor, asked, dashboard, faults>>

Serve ==
    /\ pc = "seed" /\ todo = <<>> /\ seeding = Len(StreamNames)
    /\ pc' = "poll"
    /\ UNCHANGED <<redis, seeding, cursor, asked, todo, state, dashboard, faults>>

\* XREAD resolves "$" when it is called.
Poll ==
    /\ pc = "poll"
    /\ asked' = [s \in Streams |-> IF cursor[s] = Dollar THEN Len(log[s]) ELSE cursor[s]]
    /\ pc' = "blocked"
    /\ UNCHANGED <<redis, seeding, cursor, todo, state, dashboard, faults>>

Upto(s) == IF Len(log[s]) < asked[s] + ReadCount THEN Len(log[s]) ELSE asked[s] + ReadCount

\* The entries of one stream after those of another.
New(s) == Places(s, asked[s] + 1, Upto(s))
Response == New(StreamNames[1]) \o New(StreamNames[2])

\* The response, or none after BLOCK_MS.
Respond ==
    /\ pc = "blocked"
    /\ todo' = Response
    /\ pc' = IF todo' = <<>> THEN "poll" ELSE "apply"
    /\ asked' = None
    /\ UNCHANGED <<redis, seeding, cursor, state, dashboard, faults>>

\* Mutant: after an error the streams are followed from their end.
BugFromEnd == NoCursor
AfterError == cursor

PollFails ==
    /\ pc = "blocked"
    /\ Fault
    /\ cursor' = AfterError
    /\ pc' = "sleep" /\ asked' = None
    /\ UNCHANGED <<redis, seeding, todo, state, dashboard>>

\* Mutant: the task ends.
BugEnds == "sleep"
Again == "poll"

Wake ==
    /\ pc = "sleep" /\ pc' = Again
    /\ UNCHANGED <<redis, seeding, cursor, asked, todo, state, dashboard, faults>>

Subscribed == phase \in {"open", "on"}

\* An entry: cursor, state, broadcast.
ApplyNext ==
    LET p == Head(todo)
    IN  /\ pc = "apply" /\ todo # <<>>
        /\ cursor' = [cursor EXCEPT ![p[1]] = p[2]]
        /\ Apply(p)
        /\ queue' = IF Subscribed THEN queue + 1 ELSE queue
        /\ todo' = Tail(todo)
        /\ pc' = IF todo' = <<>> THEN "poll" ELSE "apply"
        /\ UNCHANGED <<redis, seeding, asked, phase, fetch, view, news, faults>>

\* The process is replaced; its connections break.
Restart ==
    /\ Fault
    /\ pc' = "seed" /\ seeding' = 0 /\ cursor' = NoCursor /\ asked' = None /\ todo' = <<>>
    /\ nodes' = NoNodes /\ applied' = <<>>
    /\ phase' = IF phase = "away" THEN "away" ELSE "connecting"
    /\ queue' = 0 /\ news' = FALSE
    /\ IF fetch = <<"asked">> THEN fetch' = None /\ view' = <<"static">>
       ELSE UNCHANGED <<fetch, view>>
    /\ UNCHANGED redis

PollerStep ==
    SeedRead \/ SeedApply \/ Serve \/ Poll \/ Respond \/ PollFails \/ Wake \/ ApplyNext

(***************************************************************************)
(* The dashboard                                                           *)
(***************************************************************************)
Mount ==
    /\ phase = "away"
    /\ phase' = "connecting" /\ fetch' = <<"asked">>
    /\ UNCHANGED <<redis, poller, state, queue, view, news, faults>>

\* subscribe, before the response begins.
Subscribe ==
    /\ phase = "connecting" /\ pc # "seed"
    /\ phase' = "open" /\ queue' = 0 /\ news' = FALSE
    /\ UNCHANGED <<redis, poller, state, fetch, view, faults>>

\* The ready event changes nothing but the label of the connection.
StreamBegins ==
    /\ phase = "open" /\ phase' = "on"
    /\ UNCHANGED <<redis, poller, state, queue, fetch, view, news, faults>>

\* Mutant: an update during a fetch is always taken for answered by it.
BugJoined == fetch' = IF fetch = None THEN <<"asked">> ELSE fetch

\* invalidateQueries: a fetch under way is cancelled and another begins, unless it is the
\* first: without data to keep, the query joins the fetch that it waits for.
Refetch == fetch' = IF fetch # None /\ view = None THEN fetch ELSE <<"asked">>

Receive ==
    /\ phase = "on" /\ queue > 0
    /\ queue' = queue - 1
    /\ Refetch
    /\ news' = (news \/ view # None)
    /\ UNCHANGED <<redis, poller, state, phase, view, faults>>

\* EventSource connects again by itself.
Disconnect ==
    /\ Subscribed
    /\ Fault
    /\ phase' = "connecting" /\ queue' = 0
    /\ UNCHANGED <<redis, poller, state, fetch, view, news>>

\* snapshot
Answer ==
    /\ fetch = <<"asked">> /\ pc # "seed"
    /\ fetch' = <<"got", Len(applied)>>
    /\ UNCHANGED <<redis, poller, state, phase, queue, view, news, faults>>

Arrive ==
    /\ fetch # None /\ fetch # <<"asked">>
    /\ view' = fetch /\ fetch' = None
    /\ UNCHANGED <<redis, poller, state, phase, queue, news, faults>>

\* fetchSystemDag shows its static data when the request fails.
FetchFails ==
    /\ fetch # None
    /\ (pc = "seed" /\ fetch = <<"asked">> /\ UNCHANGED faults) \/ Fault
    /\ view' = <<"static">> /\ fetch' = None
    /\ UNCHANGED <<redis, poller, state, phase, queue, news>>

DashboardStep == Subscribe \/ StreamBegins \/ Receive \/ Answer \/ Arrive \/ FetchFails

Next ==
    \/ \E s \in Streams : \E level \in LevelsOf[s] : Publish(s, level)
    \/ Tick \/ PollerStep \/ Restart
    \/ Mount \/ DashboardStep \/ Disconnect

Spec == Init /\ [][Next]_vars

\* The loop of the server and that of the browser go on.
FairSpec == Spec /\ WF_vars(PollerStep) /\ WF_vars(DashboardStep)

(***************************************************************************)
(* Properties                                                              *)
(***************************************************************************)
\* However polls fail and batches end, a process applies the entries of a stream one after the
\* other: none twice, and none left out after the first (main.py:236-272).
AppliedContiguous ==
    \A k, l \in DOMAIN applied :
        /\ k < l /\ applied[k][1] = applied[l][1]
        /\ \A m \in DOMAIN applied : k < m /\ m < l => applied[m][1] # applied[k][1]
        => applied[l][2] = applied[k][2] + 1

\* So is the memory of a process at any time: a run of each stream, and what follows from it.
AppliedInOrder == TypeOK /\ AppliedContiguous

\* The errors that a node shows: each that it has received no longer than the window before
\* the latest of its entries, in whatever order two streams bring them; and no other where its
\* entries come from one stream (main.py:350-375, 569-571).
Received(n) == {k \in DOMAIN applied : n \in NodesOf(applied[k][1])}
Recent(n) ==
    {k \in Received(n) :
        /\ Entry(applied[k]).level = "error"
        /\ \A l \in Received(n) : Entry(applied[l]).at <= Entry(applied[k]).at + Window}
ErrorsShown ==
    /\ \A n \in Nodes : Cardinality(Recent(n)) <= Len(nodes[n].errors)
    /\ Len(nodes["scrape-yc-script"].errors) = Cardinality(Recent("scrape-yc-script"))

\* A dashboard that has read an update since it subscribed while it had data to show, has read
\* all it was told and waits for no answer shows every event the server has applied (or its
\* static data, when its last request failed), however events, snapshots and reconnections
\* meet.  An update that is read before the first answer asks for nothing and may stay unseen
\* until the next one (main.py:224-229, 327-340; hooks/index.ts:281-286).
DashboardCurrent ==
    (phase = "on" /\ queue = 0 /\ fetch = None /\ news) =>
        view \in {<<"got", Len(applied)>>, <<"static">>}

\* A server that is behind in a stream it has a place in catches up with what is published,
\* unless the process is replaced (main.py:255-272).
Behind == \E s \in Streams : cursor[s] # Dollar /\ cursor[s] < Len(log[s])
EntriesReach == Behind ~> (~Behind \/ pc = "seed")
=============================================================================

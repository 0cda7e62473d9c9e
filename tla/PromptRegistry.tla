--------------------------- MODULE PromptRegistry ---------------------------
(***************************************************************************)
(* integrations/mlflow/prompt_registry.py: the prompt versions registered  *)
(* in MLflow, the alias 'production' that live scoring follows, and the    *)
(* history of its changes in Postgres; with the endpoints of api/admin.py  *)
(* that promote and revert and the startup of api/app.py.                  *)
(*                                                                         *)
(* One server process.  Its threads are readers (the worker's cycles,      *)
(* GET topology, GET summary), which bootstrap when nothing is aliased,    *)
(* and operators' requests.  MLflow, Postgres and the process share no     *)
(* transaction: every call to one of them is a step, and may fail.         *)
(***************************************************************************)
EXTENDS Naturals, Sequences, FiniteSets

CONSTANTS
    Readers, Operators,
    Bootstrap,         \* PROMPT_FILE, the file a bootstrap registers
    Variants,          \* the other prompt files in the order of their names
    SidecarMode,       \* [files -> schema_mode of its .meta.json, or the default]
    Texts,             \* what a file may say
    Deployments,       \* [files -> Texts]: the prompts/ directory of each deploy
    MaxVersions,       \* bound on the registered versions
    MaxChanges         \* bound on the moves of the alias

Threads == Readers \cup Operators
Files   == {Bootstrap} \cup {Variants[i] : i \in 1..Len(Variants)}
Modes   == {"legacy", "single", "batch"}

ASSUME ThreadAssumption == Readers \cap Operators = {} /\ IsFiniteSet(Threads)
ASSUME FileAssumption ==
    /\ Variants \in Seq(Files \ {Bootstrap})
    /\ SidecarMode \in [Files -> Modes]
    /\ Deployments \subseteq [Files -> Texts]
ASSUME BoundAssumption == MaxVersions \in Nat /\ MaxChanges \in Nat

VARIABLES
    disk,              \* prompts/ of the running deploy
    versions,          \* MLflow: the template of version i, as <<file, text>>
    alias,             \* MLflow: the version aliased 'production', 0 for none
    rows,              \* Postgres: prompt_active_history
    clock,             \* readings of the clock so far, each larger than the last
    boot, known, at,   \* the startup: its stage, existing_templates, its next file
    pc, ver, prev, stamp,  \* of each thread: label, version to alias,
                           \* previous_version, changed_at (0 where there is none)
    timeline           \* history: the values the alias has had

vars    == <<disk, versions, alias, rows, clock, boot, known, at, pc, ver, prev, stamp, timeline>>
startup == <<disk, boot, known, at>>
locals  == <<pc, ver, prev, stamp>>

Templates == Files \X Texts
Entries   == [changed_at : Nat, from_version : Nat, to_version : Nat]

TypeOK ==
    /\ disk \in [Files -> Texts]
    /\ versions \in Seq(Templates)
    /\ alias \in 0..Len(versions)
    /\ rows \subseteq Entries
    /\ clock \in Nat
    /\ boot \in {"down", "sync", "up"}
    /\ known \subseteq Templates
    /\ at \in 1..(Len(Variants) + 1)
    /\ pc \in [Threads -> {"idle", "register", "previous", "set", "stamp", "insert"}]
    /\ ver \in [Threads -> 0..Len(versions)]
    /\ prev \in [Threads -> 0..Len(versions)]
    /\ stamp \in [Threads -> Nat]
    /\ timeline \in Seq(1..Len(versions))

Quiet == [t \in Threads |-> 0]

Init ==
    /\ disk \in Deployments
    /\ versions = <<>>
    /\ alias = 0
    /\ rows = {}
    /\ clock = 0
    /\ boot = "down"
    /\ known = {}
    /\ at = 1
    /\ pc = [t \in Threads |-> "idle"]
    /\ ver = Quiet /\ prev = Quiet /\ stamp = Quiet
    /\ timeline = <<>>

Registered == {versions[i] : i \in 1..Len(versions)}
OnDisk(file) == <<file, disk[file]>>
IsBatch(v) == SidecarMode[versions[v][1]] = "batch"      \* what the version really asks for

\* _resolve_schema_mode: by content, so a text that is no longer on disk is "legacy".
SchemaMode(v) ==
    IF versions[v] = OnDisk(versions[v][1]) THEN SidecarMode[versions[v][1]] ELSE "legacy"

Goto(t, label) == pc' = [pc EXCEPT ![t] = label]

Return(t) ==
    /\ Goto(t, "idle")
    /\ ver' = [ver EXCEPT ![t] = 0]
    /\ prev' = [prev EXCEPT ![t] = 0]
    /\ stamp' = [stamp EXCEPT ![t] = 0]

(***************************************************************************)
(* Startup: register_prompt_variants, before any thread is started         *)
(***************************************************************************)
Deploy ==
    /\ boot = "down"
    /\ disk' \in Deployments
    /\ boot' = "sync"
    /\ known' = Registered
    /\ at' = 1
    /\ UNCHANGED <<versions, alias, rows, clock, locals, timeline>>

\* Mutant: existing_templates is not consulted.
BugNoDedup(template) == TRUE
IsNew(template) == template \notin known

SyncVariant ==
    /\ boot = "sync" /\ at <= Len(Variants)
    /\ LET template == OnDisk(Variants[at]) IN
       \/ /\ IsNew(template)
          /\ Len(versions) < MaxVersions
          /\ versions' = Append(versions, template)
          /\ known' = known \cup {template}
       \/ /\ ~IsNew(template)
          /\ UNCHANGED <<versions, known>>
    /\ at' = at + 1
    /\ UNCHANGED <<disk, alias, rows, clock, boot, locals, timeline>>

\* All files are seen, or MLflow fails and the startup goes on regardless.
Serve ==
    /\ boot = "sync"
    /\ boot' = "up"
    /\ at' = 1
    /\ known' = {}
    /\ UNCHANGED <<disk, versions, alias, rows, clock, locals, timeline>>

(***************************************************************************)
(* get_active_prompt, which changes something only when nothing is aliased *)
(***************************************************************************)
ReadUnaliased(r) ==
    /\ boot = "up" /\ pc[r] = "idle"
    /\ alias = 0
    /\ Goto(r, "register")
    /\ UNCHANGED <<startup, versions, alias, rows, clock, ver, prev, stamp, timeline>>

Register(r) ==
    /\ pc[r] = "register"
    /\ Len(versions) < MaxVersions
    /\ versions' = Append(versions, OnDisk(Bootstrap))
    /\ ver' = [ver EXCEPT ![r] = Len(versions) + 1]
    /\ Goto(r, "set")
    /\ UNCHANGED <<startup, alias, rows, clock, prev, stamp, timeline>>

(***************************************************************************)
(* set_active_prompt_version and revert_active_prompt_version              *)
(***************************************************************************)
\* Mutant: a batch prompt is not refused.
BugAnyMode(v) == TRUE
MayGoLive(v) == SchemaMode(v) # "batch"

Begin(o, v) ==
    /\ boot = "up" /\ pc[o] = "idle"
    /\ MayGoLive(v)
    /\ ver' = [ver EXCEPT ![o] = v]
    /\ Goto(o, "previous")
    /\ UNCHANGED <<startup, versions, alias, rows, clock, prev, stamp, timeline>>

Promote(o) == \E v \in 1..Len(versions) : Begin(o, v)

LastChange == {h \in rows : \A other \in rows : h.changed_at >= other.changed_at}

Revert(o) == \E h \in LastChange : h.from_version # 0 /\ Begin(o, h.from_version)

\* Mutant: the previous alias is read after the new one is set.
BugPreviousTooLate(o) ==
    /\ pc[o] = "previous"
    /\ prev' = [prev EXCEPT ![o] = ver[o]]
    /\ Goto(o, "set")
    /\ UNCHANGED <<startup, versions, alias, rows, clock, ver, stamp, timeline>>
\* Mutant: nothing is set when the alias is there already, and it is recorded all the same.
BugRecordNoChange(o) ==
    /\ pc[o] = "previous"
    /\ prev' = [prev EXCEPT ![o] = alias]
    /\ Goto(o, IF alias = ver[o] THEN "stamp" ELSE "set")
    /\ UNCHANGED <<startup, versions, alias, rows, clock, ver, stamp, timeline>>

Previous(o) ==
    /\ pc[o] = "previous"
    /\ prev' = [prev EXCEPT ![o] = alias]
    /\ Goto(o, "set")
    /\ UNCHANGED <<startup, versions, alias, rows, clock, ver, stamp, timeline>>

(***************************************************************************)
(* What both do last: move the alias, read the clock, insert the entry     *)
(***************************************************************************)
SetAlias(t) ==
    /\ pc[t] = "set"
    /\ Len(timeline) < MaxChanges
    /\ alias' = ver[t]
    /\ timeline' = Append(timeline, ver[t])
    /\ Goto(t, "stamp")
    /\ UNCHANGED <<startup, versions, rows, clock, ver, prev, stamp>>

Stamp(t) ==
    /\ pc[t] = "stamp"
    /\ clock' = clock + 1
    /\ stamp' = [stamp EXCEPT ![t] = clock + 1]
    /\ Goto(t, "insert")
    /\ UNCHANGED <<startup, versions, alias, rows, ver, prev, timeline>>

RecordHistoryEntry(t) ==
    /\ pc[t] = "insert"
    /\ rows' = rows \cup {[changed_at |-> stamp[t], from_version |-> prev[t], to_version |-> ver[t]]}
    /\ Return(t)
    /\ UNCHANGED <<startup, versions, alias, clock, timeline>>

(***************************************************************************)
(* Failures                                                                *)
(***************************************************************************)
\* A call to MLflow or Postgres raises.
Fail(t) ==
    /\ pc[t] # "idle"
    /\ Return(t)
    /\ UNCHANGED <<startup, versions, alias, rows, clock, timeline>>

\* The process dies; a redeploy follows.
Crash ==
    /\ boot # "down"
    /\ boot' = "down"
    /\ known' = {} /\ at' = 1
    /\ pc' = [t \in Threads |-> "idle"]
    /\ ver' = Quiet /\ prev' = Quiet /\ stamp' = Quiet
    /\ UNCHANGED <<disk, versions, alias, rows, clock, timeline>>

Next ==
    \/ Deploy \/ SyncVariant \/ Serve \/ Crash
    \/ \E r \in Readers : ReadUnaliased(r) \/ Register(r)
    \/ \E o \in Operators : Promote(o) \/ Revert(o) \/ Previous(o)
    \/ \E t \in Threads : SetAlias(t) \/ Stamp(t) \/ RecordHistoryEntry(t) \/ Fail(t)

Spec == Init /\ [][Next]_vars

(***************************************************************************)
(* What holds                                                              *)
(***************************************************************************)
\* Every entry of the history names two values the alias really had, in that
\* order, whatever other requests, bootstraps and crashes came between: the
\* previous alias is read before the new one is set and recorded.
HistoryTruthful ==
    \A h \in rows : \E j \in 1..Len(timeline) :
        /\ timeline[j] = h.to_version
        /\ h.from_version # 0 => \E i \in 1..(j - 1) : timeline[i] = h.from_version

\* The history never holds more entries than the alias made moves: no request
\* that failed, and no request that was repeated, is recorded as a cutover.
NoPhantomRecord == Cardinality(rows) <= Len(timeline)

\* However often the server is redeployed, and wherever a startup is cut off,
\* a text of a variant is registered once: register_prompt_variants is idempotent.
VariantsOnce ==
    \A i, j \in 1..Len(versions) :
        versions[i] = versions[j] /\ versions[i][1] # Bootstrap => i = j

\* A batch prompt goes live only if its text is not the one on disk any more:
\* the refusal of set_active_prompt_version covers promotions and reverts alike.
BatchOnlyWhenEdited ==
    [][alias' # alias /\ IsBatch(alias)' => (versions[alias] # OnDisk(versions[alias][1]))']_vars

=============================================================================

------------------------------ MODULE SourceRun ------------------------------
(***************************************************************************)
(* One scheduled source and the runs Temporal starts for it: the           *)
(* SourceRunWorkflow, its two activities (resolve_source and               *)
(* record_source_run), the url connector's conditional fetch, and the rows *)
(* the control plane keeps (sources, source_runs).                         *)
(*                                                                         *)
(* What upstream publishes is a version number per URL; a body is the pair *)
(* of a URL and a version, and stands for the bytes and their hash.  The   *)
(* clock of all publications is one, so a version is also the value of the *)
(* Last-Modified header.  An optional value is a set of at most one.       *)
(***************************************************************************)
EXTENDS Integers, FiniteSets

CONSTANTS
    Urls,             \* the locations a source may be pointed at
    Tagged,           \* the ones whose server sends an ETag
    Items,            \* number of items a fetch returns (1 for the url connector)
    MaxVersion,       \* bound: publications
    ResolveAttempts,  \* maximum_attempts of resolve_source (3)
    RecordAttempts,   \* maximum_attempts of record_source_run (10)
    MaxFaults,        \* bound: failures, lost requests and refusals of a behaviour
    MaxEdits          \* bound: PATCHes of the location

ASSUME SourceRunAssumption ==
    /\ Urls # {} /\ Tagged \subseteq Urls
    /\ Items \in Nat \ {0} /\ MaxVersion \in Nat \ {0}
    /\ ResolveAttempts \in Nat \ {0} /\ RecordAttempts \in Nat \ {0}
    /\ MaxFaults \in Nat /\ MaxEdits \in Nat

VARIABLES
    upstream,   \* [Urls -> version published there]
    source,     \* the row of sources: url, incremental state, last run
    run,        \* the run in flight
    rows,       \* job rows the run created: <<attempt, item>>
    started,    \* child workflows the run started: <<attempt, item>>
    late,       \* requests of a timed-out record attempt that may still be served
    ingested,   \* history: bodies all of whose items were ingested
    budget      \* faults and edits left

vars == <<upstream, source, run, rows, started, late, ingested, budget>>

Versions == 0 .. MaxVersion
Bodies == Urls \X Versions
Outcomes == {"unchanged", "ingested", "failed"}

IncrementalState == [etag: SUBSET Bodies, lm: Versions, hash: SUBSET Bodies]
NoState == [etag |-> {}, lm |-> 0, hash |-> {}]

RunRecord == [outcome: Outcomes, fetched: SUBSET Bodies, ok: 0 .. Items, jobs: 0 .. Items]
Idle == [pc |-> "idle", try |-> 1, row |-> [url |-> CHOOSE u \in Urls : TRUE, state |-> NoState],
         fetched |-> {}, staged |-> 0, jobs |-> [i \in 1 .. Items |-> "none"],
         outcome |-> "failed", save |-> {}]

Requests == [kind: {"run"}, record: RunRecord] \cup [kind: {"state"}, state: IncrementalState]

Init ==
    /\ upstream = [u \in Urls |-> 1]
    /\ source \in [there: {TRUE}, archived: {FALSE}, url: Urls, state: {NoState}, last: {{}}]
    /\ run = Idle
    /\ rows = {} /\ started = {} /\ late = {} /\ ingested = {}
    /\ budget = [faults |-> MaxFaults, edits |-> MaxEdits]

Spend == budget' = [budget EXCEPT !.faults = @ - 1]
CanFail == budget.faults > 0

----------------------------------------------------------------------------
(* The url connector. *)

Body(u) == <<u, upstream[u]>>

\* The answer of the web server: If-None-Match decides when the server knows
\* entity tags, If-Modified-Since otherwise.
NotModified(u, state) ==
    IF u \in Tagged /\ state.etag # {}
    THEN Body(u) \in state.etag
    ELSE state.lm > 0 /\ upstream[u] <= state.lm

\* Resolution::Unchanged: a 304, or a body whose hash is the stored one.
Unchanged(u, state) == NotModified(u, state) \/ Body(u) \in state.hash

\* The state a fetch returns.
Learned(u) == [etag |-> IF u \in Tagged THEN {Body(u)} ELSE {},
               lm |-> upstream[u], hash |-> {Body(u)}]

----------------------------------------------------------------------------
(* resolve_source: load, check, fetch, stage; up to ResolveAttempts times. *)

\* Mutant of Tick: a failed run is not repeated.
TickUnlessFailed ==
    /\ run.pc = "idle" /\ \A r \in source.last : r.outcome # "failed"
    /\ run' = [Idle EXCEPT !.pc = "load"]
    /\ rows' = {} /\ started' = {}
    /\ UNCHANGED <<upstream, source, late, ingested, budget>>

\* The schedule fires; with ScheduleOverlapPolicy::Skip a tick during a run is dropped.
Tick ==
    /\ run.pc = "idle"
    /\ run' = [Idle EXCEPT !.pc = "load"]
    /\ rows' = {} /\ started' = {}
    /\ UNCHANGED <<upstream, source, late, ingested, budget>>

LoadSource ==
    /\ run.pc = "load"
    /\ run' = IF source.there /\ ~source.archived
              THEN [run EXCEPT !.pc = "checks", !.row = [url |-> source.url, state |-> source.state]]
              ELSE [run EXCEPT !.pc = "record", !.try = 1]
    /\ UNCHANGED <<upstream, source, rows, started, late, ingested, budget>>

\* Credits, pipeline, pinned destination and credential are in order.
ChecksPass ==
    /\ run.pc = "checks"
    /\ run' = [run EXCEPT !.pc = "fetch"]
    /\ UNCHANGED <<upstream, source, rows, started, late, ingested, budget>>

\* A NonRetryable error: no credits, no pipeline, a fetch that was rejected, blocked or too large.
Refused ==
    /\ run.pc \in {"checks", "fetch"} /\ CanFail /\ Spend
    /\ run' = [run EXCEPT !.pc = "record", !.try = 1, !.outcome = "failed"]
    /\ UNCHANGED <<upstream, source, rows, started, late, ingested>>

Fetch ==
    /\ run.pc = "fetch"
    /\ run' = IF Unchanged(run.row.url, run.row.state)
              THEN [run EXCEPT !.pc = "record", !.try = 1, !.outcome = "unchanged",
                               !.fetched = {Body(run.row.url)}]
              ELSE [run EXCEPT !.pc = "stage", !.staged = 0, !.fetched = {Body(run.row.url)},
                               !.save = {Learned(run.row.url)}]
    /\ UNCHANGED <<upstream, source, rows, started, late, ingested, budget>>

\* Mutant of StageItem: each item's child is started as soon as it is staged.
StageItemAndStart ==
    /\ run.pc = "stage"
    /\ LET i == run.staged + 1 IN
       /\ rows' \in {rows, rows \cup {<<run.try, i>>}}
       /\ started' = started \cup {<<run.try, i>>}
       /\ run' = IF i < Items
                 THEN [run EXCEPT !.staged = i]
                 ELSE [run EXCEPT !.staged = i, !.pc = "children",
                                  !.jobs = [j \in 1 .. Items |-> "running"]]
    /\ UNCHANGED <<upstream, source, late, ingested, budget>>

\* One item: a new job id, the bytes staged, the job row (best effort); the last one answers.
StageItem ==
    /\ run.pc = "stage"
    /\ LET i == run.staged + 1 IN
       /\ rows' \in {rows, rows \cup {<<run.try, i>>}}
       /\ IF i < Items
          THEN /\ run' = [run EXCEPT !.staged = i]
               /\ UNCHANGED started
          ELSE /\ run' = [run EXCEPT !.staged = i, !.pc = "children",
                                     !.jobs = [j \in 1 .. Items |-> "running"]]
               /\ started' = started \cup {<<run.try, j>> : j \in 1 .. Items}
    /\ UNCHANGED <<upstream, source, late, ingested, budget>>

\* A Retryable error or the start-to-close timeout: the next attempt starts over, with new
\* job ids; the rows stay.  After the last attempt the run has failed.
ResolveAgain ==
    /\ run.pc \in {"load", "checks", "fetch", "stage"} /\ CanFail /\ Spend
    /\ run' = IF run.try < ResolveAttempts
              THEN [Idle EXCEPT !.pc = "load", !.try = run.try + 1]
              ELSE [run EXCEPT !.pc = "record", !.try = 1, !.outcome = "failed",
                               !.fetched = {}, !.save = {}]
    /\ UNCHANGED <<upstream, source, rows, started, late, ingested>>

----------------------------------------------------------------------------
(* The children, and what the run makes of them. *)

ChildEnds(i) ==
    /\ run.pc = "children" /\ run.jobs[i] = "running"
    /\ \/ /\ run' = [run EXCEPT !.jobs[i] = "ok"]
          /\ UNCHANGED budget
       \/ /\ CanFail /\ Spend
          /\ run' = [run EXCEPT !.jobs[i] = "failed"]
    /\ ingested' = IF \A j \in 1 .. Items : run'.jobs[j] = "ok"
                   THEN ingested \cup run.fetched ELSE ingested
    /\ UNCHANGED <<upstream, source, rows, started, late>>

\* Mutant of Join: the state is saved whatever the children did.
JoinSavesAlways ==
    /\ run.pc = "children" /\ \A i \in 1 .. Items : run.jobs[i] # "running"
    /\ run' = [run EXCEPT !.pc = "record", !.try = 1,
                  !.outcome = IF \A i \in 1 .. Items : run.jobs[i] = "ok" THEN "ingested" ELSE @]
    /\ UNCHANGED <<upstream, source, rows, started, late, ingested, budget>>

\* Mutant of Join: the run does not wait for its children and takes one success for all.
JoinFirst ==
    /\ run.pc = "children" /\ \E i \in 1 .. Items : run.jobs[i] # "running"
    /\ run' = IF \E i \in 1 .. Items : run.jobs[i] = "ok"
              THEN [run EXCEPT !.pc = "record", !.try = 1, !.outcome = "ingested"]
              ELSE [run EXCEPT !.pc = "record", !.try = 1, !.save = {}]
    /\ UNCHANGED <<upstream, source, rows, started, late, ingested, budget>>

\* Every child has answered: the state rides on the record only if none failed.
Join ==
    /\ run.pc = "children" /\ \A i \in 1 .. Items : run.jobs[i] # "running"
    /\ run' = IF \A i \in 1 .. Items : run.jobs[i] = "ok"
              THEN [run EXCEPT !.pc = "record", !.try = 1, !.outcome = "ingested"]
              ELSE [run EXCEPT !.pc = "record", !.try = 1, !.save = {}]
    /\ UNCHANGED <<upstream, source, rows, started, late, ingested, budget>>

----------------------------------------------------------------------------
(* record_source_run: POST the run, then PUT the state. *)

\* The row of source_runs: items = the jobs that did not fail.
RecordOf == [outcome |-> run.outcome, fetched |-> run.fetched,
             jobs |-> Cardinality({i \in 1 .. Items : run.jobs[i] # "none"}),
             ok |-> Cardinality({i \in 1 .. Items : run.jobs[i] = "ok"})]

\* What the control plane does with a request: the run only while its source exists
\* (foreign key, 404), mirrored onto the source; the state whatever the row holds.
Serve(row, r) ==
    IF ~row.there THEN row
    ELSE IF r.kind = "run" THEN [row EXCEPT !.last = {r.record}]
    ELSE [row EXCEPT !.state = r.state]

RunRequest == [kind |-> "run", record |-> RecordOf]
StateRequest == [kind |-> "state", state |-> CHOOSE s \in run.save : TRUE]

PostRun ==
    /\ run.pc = "record"
    /\ source' = Serve(source, RunRequest)
    /\ run' = IF source.there /\ run.save # {} THEN [run EXCEPT !.pc = "save"] ELSE Idle
    /\ UNCHANGED <<upstream, rows, started, late, ingested, budget>>

SaveState ==
    /\ run.pc = "save"
    /\ source' = Serve(source, StateRequest)
    /\ run' = Idle
    /\ UNCHANGED <<upstream, rows, started, late, ingested, budget>>

\* The attempt failed or timed out; its request was lost or is still on its way.  The next
\* attempt posts the run again; after the last one the error is logged and the run ends.
RecordAgain ==
    /\ run.pc \in {"record", "save"} /\ CanFail /\ Spend
    /\ late' \in {late, late \cup {IF run.pc = "record" THEN RunRequest ELSE StateRequest}}
    /\ run' = IF run.try < RecordAttempts
              THEN [run EXCEPT !.pc = "record", !.try = @ + 1]
              ELSE Idle
    /\ UNCHANGED <<upstream, source, rows, started, ingested>>

\* A request of a timed-out attempt is served at last.
ServeLate ==
    /\ \E r \in late : source' = Serve(source, r) /\ late' = late \ {r}
    /\ UNCHANGED <<upstream, run, rows, started, ingested, budget>>

----------------------------------------------------------------------------
(* The world around the run. *)

Publish(u) ==
    /\ \E v \in Versions : v > upstream[u] /\ upstream' = [upstream EXCEPT ![u] = v]
                           /\ \A w \in Urls : v > upstream[w]
    /\ UNCHANGED <<source, run, rows, started, late, ingested, budget>>

\* PATCH /sources/{uid} of the location: the incremental state is left as it is.
Repoint(u) ==
    /\ source.there /\ u # source.url /\ budget.edits > 0
    /\ source' = [source EXCEPT !.url = u]
    /\ budget' = [budget EXCEPT !.edits = @ - 1]
    /\ UNCHANGED <<upstream, run, rows, started, late, ingested>>

\* DELETE /sources/{uid}; the runs cascade.
DeleteSource ==
    /\ source.there
    /\ source' = [source EXCEPT !.there = FALSE, !.last = {}, !.state = NoState]
    /\ UNCHANGED <<upstream, run, rows, started, late, ingested, budget>>

\* Its pipeline was deleted.
ArchiveSource ==
    /\ source.there /\ ~source.archived
    /\ source' = [source EXCEPT !.archived = TRUE]
    /\ UNCHANGED <<upstream, run, rows, started, late, ingested, budget>>

Work == \/ Tick \/ LoadSource \/ ChecksPass \/ Fetch \/ StageItem
        \/ (\E i \in 1 .. Items : ChildEnds(i)) \/ Join \/ PostRun \/ SaveState

Next ==
    \/ Work
    \/ Refused \/ ResolveAgain \/ RecordAgain \/ ServeLate
    \/ \E u \in Urls : Publish(u) \/ Repoint(u)
    \/ DeleteSource \/ ArchiveSource

\* Schedules keep firing and Temporal keeps running what it started; users, upstream,
\* failures and late requests owe nothing.
Spec == Init /\ [][Next]_vars /\ WF_vars(Work)

----------------------------------------------------------------------------
(* Properties. *)

SourceRow == [there: BOOLEAN, archived: BOOLEAN, url: Urls, state: IncrementalState,
              last: SUBSET RunRecord]
RunState == [pc: {"idle", "load", "checks", "fetch", "stage", "children", "record", "save"},
             try: 1 .. ResolveAttempts + RecordAttempts, row: [url: Urls, state: IncrementalState],
             fetched: SUBSET Bodies, staged: 0 .. Items,
             jobs: [1 .. Items -> {"none", "running", "ok", "failed"}],
             outcome: Outcomes, save: SUBSET IncrementalState]

\* Type invariant.
TypeOK ==
    /\ upstream \in [Urls -> Versions]
    /\ source \in SourceRow
    /\ run \in RunState
    /\ rows \subseteq (1 .. ResolveAttempts) \X (1 .. Items)
    /\ started \subseteq (1 .. ResolveAttempts) \X (1 .. Items)
    /\ late \subseteq Requests
    /\ ingested \subseteq Bodies
    /\ budget \in [faults: 0 .. MaxFaults, edits: 0 .. MaxEdits]

\* The incremental state never runs ahead of the index: it is empty, or its hash, its ETag and
\* its date are those of one body, every item of which was ingested, through failed children,
\* retried records and late requests (source_workflow.rs: "saved only when every child
\* succeeded").
StateIngested ==
    source.state = NoState \/
    \E b \in ingested : /\ source.state.hash = {b} /\ source.state.lm = b[2]
                       /\ source.state.etag \subseteq {b}

\* The validators of a state are a date only, and the date is that of a file at another
\* location: the one case in which "not modified" is about a file nobody compared.
Foreign(u, state) ==
    /\ u \notin Tagged \/ state.etag = {}
    /\ \E b \in state.hash : b[1] # u

\* A run recorded as unchanged found a body that an earlier run had ingested in full
\* (connector.rs: "Upstream is byte-identical to the previous run").
UnchangedIsIngested ==
    \A r \in source.last : r.outcome = "unchanged" => r.fetched \subseteq ingested

\* Nothing is passed over that was never ingested: neither by the state a later run compares
\* with, nor by a run that ends unchanged, whatever servers it meets and however often the
\* location is edited; only a foreign date can hide a file (url.rs sends the date of the last
\* run to the location of this one), and nothing else can.
OnlyIngestedIsSkipped ==
    /\ StateIngested
    /\ run.outcome = "unchanged" =>
         run.fetched \subseteq ingested \/ Foreign(run.row.url, run.row.state)

\* What the control plane shows of the last run is what happened to its jobs: ingested
\* means every item of what was fetched, and a failed run never counts all its jobs as items.
RunRowTrue ==
    \A r \in source.last :
        /\ r.outcome = "ingested" => r.ok = r.jobs /\ r.jobs = Items /\ r.fetched \subseteq ingested
        /\ r.outcome = "failed" => r.jobs = 0 \/ r.ok < r.jobs

\* Whatever resolve attempts were lost and however many rows they left, a run starts one
\* child per item, and a run resolved at the first attempt leaves no row without a child.
EachItemRunsOnce ==
    /\ \A i \in 1 .. Items : Cardinality({t \in 1 .. ResolveAttempts : <<t, i>> \in started}) <= 1
    /\ run.pc = "children" /\ run.try = 1 => rows \subseteq started

\* Once failures and edits stop, what upstream publishes is ingested, unless the source is
\* deleted or archived or a foreign date hides it: a failed run is repeated by the next tick.
EventuallyIngested ==
    <>[](\/ ~source.there \/ source.archived
         \/ Body(source.url) \in ingested \/ Foreign(source.url, source.state))
=============================================================================

# TLA+ verification of meili-ingest

meili-ingest ("glutony") takes files, URLs and webhooks, runs each through a
pipeline of plugins on Temporal workers, and writes the resulting documents to
Meilisearch.  This directory holds TLA+ models of its coordination logic, the TLC
configurations that check them, and TLAPS proofs of the results that matter most.
Paths below are relative to the repository root.

## 1. The system and its parts

Three services share one Postgres database, one blob store and one Temporal
namespace.

| part | state it keeps | operations | what is hard about it |
|---|---|---|---|
| gateway (`crates/gateway`) | none of its own; reads Temporal, writes through the control plane | submit a job or an archive, read and cancel a job, manage pipelines, sources and connections | every request is several calls to Temporal and the control plane; nothing makes them atomic |
| control plane (`crates/control-plane`) | Postgres: pipelines, sources, source runs, jobs, the Lab outbox; in memory: the pipeline cache, the Lab credit and AI-target caches | CRUD, `PATCH /internal/jobs/{id}`, resolve a pipeline, accept and deliver Lab events | concurrent writers of one row, several replicas sending from one outbox, caches against writes |
| `PipelineWorkflow` (`crates/worker/src/workflow.rs`) | progress snapshot, map of step outputs | run a DAG in waves, fan out, cancel, report usage | parallel activities with retries, cancellation by two routes, an early return out of a joined wave |
| step activities (`crates/worker/src/activity.rs`) | none | execute a step, expand a fan-out, mark a job started, report usage | at-least-once execution, three writes in one retried activity |
| `SourceRunWorkflow` (`source_workflow.rs`, `source_activity.rs`) | the source's incremental state | resolve a source, start one child per item, record the run | state may only advance when every item was ingested; retries after partial effects |
| `ArchiveWorkflow` (`archive_workflow.rs`, `archive_activity.rs`) | per-file counts, cursor into a manifest | expand an archive, start waves of children, continue as new | counts and cancellation across a continue-as-new |
| Lab billing (`lab_events.rs`, `lab_sender.rs`, `crates/usage/src/lab.rs`) | outbox rows: attempts, next attempt, delivered | accept, claim, convert, send, mark, reschedule, purge, drop | leases that expire, several senders, a conversion that resets rows |
| plugin SDK (`crates/plugin-sdk`) | pipeline definitions | normalize, validate (Kahn), statuses and progress | ordering and cycle detection |
| gateway front (`headers.rs`, `context.rs`, `extract.rs`, `handlers/*`) | none | who the caller is, what a body contains, where a submission goes | a destination assembled from headers, query, tenant, connection and pipeline |
| archive, blob, source connectors, usage client | staged and spilled objects, usage rows | unpack, stage, spill, fetch, report | limits at their boundary, redirects, retries that write again |
| Meilisearch indexer (`plugins/meili-indexer`) | none; Meilisearch's index and tasks | create the index, send batches, wait for tasks | an attempt that gave up while Meilisearch still works on its batch |
| router, catalog, other plugins | none | classify, convert, chunk, enrich | value-level code with many corner cases |

Interactions: the gateway starts a workflow and then inserts its row in the control
plane; the worker patches that row when the workflow starts and when it ends; a
`GET /jobs/{id}` reads Temporal and writes what it saw through to the row.  The
worker posts billing events to the control plane's outbox; one sender per replica
drains it to the Lab.  Temporal schedules start source runs, whose children are
ordinary pipeline jobs; an archive job starts one pipeline job per file.

What makes each part correct, and where it can go wrong, is listed per hazard in
`PROJECT.json`; in short:

| part | must hold |
|---|---|
| a pipeline job | steps run after their dependencies, "succeeded" means every step, one usage event with the final outcome, cancelled only if asked, always closes |
| a job's row | may lag behind the workflow, never ahead of it; repaired by whoever opens the job; a refused cancellation means the job is over |
| the Lab outbox | every accepted event is billed or its loss is logged; nothing is marked that was not billed; one sender per v2 row while every sender is within its lease |
| an archive job | every file routed once and counted once, across waves and continued runs; success means they were ingested |
| a source run | the incremental state advances only past items that were ingested; at most one child per item, although the job rows of a lost attempt may stay queued |
| sources and schedules | a live schedule has a row and a row's `paused` mirrors its schedule, unless requests overlapped or Temporal failed a call of a create or of its rollback |
| caches | a write is seen once its invalidation returned, unless a load overlapped it; a rejected key does not come back, unless another fetch raced its report |
| a submission | writes only where its own request, tenant and pipeline say, whatever changes meanwhile |
| connections | a step writes with a host and a key stored together, for its own tenant |
| the index | a step that reports success has all its documents in the index, batches within the limits |
| stored and fetched bytes | what is read back is whole and the right one; a fetch stays within the address policy, its cap and its credentials |
| metering | a job is billed what it did, once, also when the report is retried |
| plugins | every record, section or chunk appears once and in order; an error is an error and not a shorter result; what is billed was answered |
| definitions | validation orders the steps so that each follows its dependencies, and refuses exactly the cyclic ones |

## 2. Modules

| module | models | from |
|---|---|---|
| `JobLifecycle` | abstract: the statuses a job goes through and how its execution closes | `JobStatus`, `WorkflowResult` |
| `PipelineJob` | one `PipelineWorkflow` execution with its activities | `workflow.rs`, `dag.rs`, `activity.rs` |
| `JobRow` | one row of the control plane's job table, the workflow it mirrors, and the gateway requests that write and read both | `control-plane/jobs.rs`, `gateway/state.rs`, `handlers/jobs.rs`, `handlers/ingest.rs`, `activity.rs` |
| `LabOutbox` | the outbox table, the senders of all replicas, the Lab's answers | `lab_events.rs`, `lab_sender.rs`, migration 0005 |
| `ArchiveJob` | one `ArchiveWorkflow` execution over all its runs, with its activities and children | `archive_workflow.rs`, `archive_activity.rs` |
| `SourceRun` | all runs of one source: tick, conditional fetch, staging, children, record | `source_workflow.rs`, `source_activity.rs`, `source/url.rs`, `control-plane/sources.rs` |
| `Sources` | a source's row and schedule under concurrent requests and crashes, a pipeline delete's cascade | `handlers/sources.rs`, `schedules.rs`, `handlers/pipelines.rs` |
| `PipelineCache` | the control plane's cached list of pipelines | `resolver.rs` |
| `RecentAnswer` | abstract: an answer that was true at most a window ago | |
| `LabCredits`, `AiTarget` | the two caches in front of the Lab; each implements `RecentAnswer` | `lab/credits.rs`, `gateway/lab.rs`; `lab/ai.rs`, `ai_target.rs` |
| `Caches` | the three caches side by side, one running at a time; states what they implement | |
| `Submission` | one ingest request from its headers to the writes of its jobs | `extract.rs`, `context.rs`, `handlers/ingest.rs`, `connection.rs` |
| `Connections` | rows of saved destinations, the requests that change them, the workers that use them | `connections.rs` of gateway, control plane and worker |
| `Destinations` | `Submission`, `Connections`, `BlobStore` and `Indexer` side by side: where a tenant's data is written, and whether it arrives | |
| `Indexer` | attempts of index steps against one Meilisearch index | `plugins/meili-indexer` |
| `BlobStore` | staged uploads and spilled step outputs under retries | `blob` |
| `Metering` | the usage report of a job, its prices, both usage stores, `GET /usage` | `usage`, `handlers/usage.rs` |
| `Definitions` | normalize, validate, registry checks, versions, built-in pipelines, waves and fan-out | `plugin-sdk/types.rs`, `control-plane/pipelines.rs`, `registry.rs`, `dag.rs`, `router` |
| `GatewayRequests` (extends `Definitions`) | what a request says: caller, bodies, templates, sealing, statuses | gateway and control-plane handlers |
| `Routing` | MIME, which pipeline wins, which index | `router`, `extract.rs` |
| `ArchiveReader` | walking zip, tar, gzip and nested archives under the limits | `archive` |
| `Fetching` | address classes, host policy, redirects, caps, conditional requests, objects of other stores | `source/guard.rs`, `host_policy.rs`, `url.rs`, `blob` |
| `Documents` | documents and the contract of a step; extended by the modules below | `plugin-sdk/types.rs` |
| `Records`, `TextSections`, `Transforms`, `Enrichers`, `Media` | the plugins | `plugins/*` |
| `PluginConfigs` | each plugin's configuration, by its manifest's schema and by its parser | `plugins/*`, `control-plane/pipelines.rs` |
| `PipelineJobProofs`, `JobRowProofs`, `LabOutboxProofs`, `ArchiveJobProofs`, `SourceRunProofs`, `SourcesProofs`, `CachesProofs`, `DestinationsProofs` | TLAPS proofs about the module each one extends | |

`MCPipelineJob`, `MCJobRow`, `MCLabOutbox` and `MCSources` give the constants values for
TLC, the symmetries too, and define no behaviour; `ArchiveJob` and `SourceRun` run as they
are, on the instances of their `.cfg` files.  `Caches` runs the three caches one at a time
(`which` says which one a behaviour is about, the variables of the others stay idle).
`MCCaches` adds a bound, `MaxOverlap`, and the symmetry.  `Destinations` does the same for
a submission, the connections, the blob store and an index, and `MCPlatform` extends it by
the other parts around the workflows, with an input `x` for the parts that have no state,
and by `MCPlugins`, which runs one step of a plugin on each of an enumerated set of inputs
and keeps its result in `out`.

Refinements: `PipelineJob` and `ArchiveJob` implement `JobLifecycle`
(`ImplementsLifecycle`), with the identity on `status` and `close`.  `LabCredits` and
`AiTarget` implement `RecentAnswer` (`AnswersRecent`): what the Lab knows maps to
`truth`, a lookup under way to a question, the end of the lookup to its answer.
`JobRow` does not repeat the pipeline: its workflow is the lifecycle plus the
activities that write the row, so what it shows holds for both kinds of job.

Operators named "Mutant of ..." are deliberately wrong variants of the definition
below them.  Nothing uses them; each is listed in `PROJECT.json` with the property
that catches it.

## 3. How the models correspond to the code

**PipelineJob.**  `pc` is the await point at which `run()` is suspended; between two
of them a workflow task is one action.  `status`, `currentStep`, `completed`,
`results` and `cancelRequested` are the fields of `WorkflowProgress`, `done` the keys
of the local map of outputs.  `phase`, `total` and `branch` are what Temporal knows
of the step futures `run_step` awaits.  The merge loop over a joined wave is one
action per result, in definition order, because it may return in the middle.
`CancelSignal` is the signal handler, which only sets a flag that the loop reads
between waves; `TemporalCancel` is the second call of the gateway's cancel, which
cancels running activities.  `UsageRecorded` covers both ends of the usage activity,
since its error is swallowed.

**JobRow.**  Every HTTP request that touches the row is its own action, and a request
that reads first and writes later (`GET /jobs/{id}`: describe, query, write through)
keeps what it read in `reader[r]`.  `stray` counts `record_job_started` patches whose
caller gave up but whose request is still on its way.  `origin` tells a job submitted
by a request (workflow first, then the row) from one a source run or an archive
starts (row first, then the workflow).

**LabOutbox.**  `table`, `due`, `preV2` and `stale` are the columns `delivered_at`,
`next_attempt`, `body` and `created_at` reduced to what the queries compare.  One
action per transaction of a sender, one for each outcome of the POST; `Stop` is a
crash between any two.  `next_attempt` is one column that claims, reloads, backoffs and
conversions overwrite: `leased[s]` are the rows whose `next_attempt` sender `s` wrote
last, to lease them, and `lapsed` the senders whose own claim is more than `LEASE` old.
`cut` is a history variable: the rows in a sender's hands whose lease a lapsed sender
replaced by a backoff.  The Lab, and a replica that is not upgraded, are external and
modelled from what `lab_sender.rs` and the migration say of them.

**ArchiveJob.**  Files are numbered in manifest order, `next` is the cursor and
`fate[f]` what became of file `f`.  `listed` is how many entries the stored manifest
has: an expansion that timed out and finishes late (`StaleManifest`) stores its own
list under the same key.  `ContinueAsNew` ends one run and `Resume` begins the next;
a signal may arrive in between (`carried` is what the last run handed over).

**SourceRun.**  A URL holds a version, which stands for its body, its hash and its
validators; all publications share one clock, so a version is also a Last-Modified date.
`Tagged` are the locations whose server sends an entity tag; the instance has one of
either kind.  One action per activity
attempt and per request it makes: an attempt may fail, be retried (`ResolveAgain`,
`RecordAgain`), or time out with a request still on its way (`late`).  A retried
`resolve_source` draws new job ids, hence rows and children are pairs of an attempt
and an item.  Users may repoint, archive or delete the source in mid-run.
`ingested` is a history variable: the bodies all of whose items were ingested.

**Sources.**  A request is a series of calls to the control plane and to Temporal;
`req[c]` is where it is and what it has read, `Crash` ends it between any two calls.  A
call may also fail, with or without its effect.  That is the same as a crash just before
or just after it, but for a create: there a failed call starts the rollback
(`undo_schedule`, `undo_row`), whose own failures are logged and passed over.  Ids are
never drawn twice.  Two history variables: `overlap` is whether two requests that create
or remove, or two that change values, were ever under way together, `unanswered` the ids
for which Temporal failed a call of the create or of its rollback.

**The caches.**  A lookup reads the clock and the cache, leaves, and comes back to
write what it was told, so two lookups may write in either order.  `now` is a bounded
clock, `FRESH` and `STALE` its windows.  `LabCredits` keeps one failure time for all
accounts, as the code does.  `AiTarget` has one cache per replica, a Lab that rotates
keys and a Gateway that may refuse the current one; a step that was refused reports
the key and is retried, through any replica.  Its history variables are `raced`, the
reports whose fetch overlapped another fetch of their replica, and `gone`, per replica the
keys the Lab was told of by a report that was not raced.  In `PipelineCache` the time a list was loaded and stored is
history.

**Submission, Connections, Indexer, BlobStore, Metering.**  One action per request to
another service.  `Submission` follows one request, one item at a time, while the
pipeline table and the connections change.  `Connections` splits create and patch into
read, validate and write, and lets a name resolve elsewhere over time.  `Indexer` has
the attempts of the steps of two jobs, the next one of a job within its retry policy, also
while the one before still runs; Meilisearch is external and works on its tasks in order
whenever it likes, whether or not the attempt that sent them still waits.  `BlobStore` has two
attempts of each branch that write under one key, while the next step reads; keys are
built from names as the code builds them, so the slots of two steps may share one
(`Namesakes`).  In
`Metering` each insert may be done and its answer lost.

**The other modules** are operators, translated function by function and named as in
the code.  An optional value is a set of at most one element, a `Result` is `[ok |-> x]`
or `[err |-> e]`, and a text is a sequence of words or of the characters the code tells
apart.  Their properties state what a result must be in terms of the input, never by
repeating the operator.

## 4. The runs

| run | instance | distinct states |
|---|---|---|
| `pipeline_job` | diamond of four steps, one fanned out into at most 2 branches, 2 attempts | 11 712 |
| `job_row` | both origins, 2 polling clients, 2 attempts of the start patch | about 456 000 |
| `lab_outbox` | 2 senders, 2 events, one pre-v2, an old replica; sender symmetry | about 2 303 000 |
| `lab_outbox_live` | 1 sender that may stop, 2 events | about 19 000 |
| `archive_job` | up to 4 files, waves of 2, 2 waves a run, 2 attempts to expand | about 408 000 |
| `source_run` | 2 locations, one with entity tags, 2 items, 2 versions, 2 attempts of each activity, 2 faults, 1 edit | about 248 000 |
| `source_run_unchanged` | the same | `UnchangedIsIngested` violated (finding) |
| `sources` | 2 clients, 2 ids, 2 faults; client symmetry | about 1 136 000 |
| `sources_orphan` | the same without faults | `NoOrphanSchedule` violated (finding) |
| `caches` | 2 lookups of 2 accounts, windows of 1 and 2 ticks; 2 steps, 2 replicas, 2 keys, windows of 2 and 3 ticks; 2 readers, 2 writers; symmetry | about 1 217 000 |
| `platform` | submission, connections, index, blob store, metering, a step of every plugin, and the other parts without state, one at a time | about 1 183 000 |
| `connections_unproven` | the connections alone | `SavedIsProven` violated (finding) |

What the passing runs show:

- `pipeline_job`: `StepsInOrderOnce` (dependencies first; the completed count, the
  outputs and the billed results are the same steps), `SucceededMeansAllDone`,
  `UsageFinal`, `BilledWorkHappened`, `FinishedWorkBilled` (a finished step is billed with
  all its branches, but behind a failed or cancelled step of its own wave; a job that only
  the cancel signal ended bills every step it started), `EventuallyCloses`,
  `ImplementsLifecycle`.
- `job_row`: `RowNeverAhead`, `ToldTheTruth` (no client is told of an outcome the job
  does not have, by a status or by a refused cancellation), and `RowCatchesUp`:
  whatever was lost or overwritten, the row of a finished job becomes and stays
  terminal if somebody keeps opening the job.
- `lab_outbox`: `NeverDoneUnbilled`, `AcceptedNotLost`, `ExclusiveWhileOnTime` (two
  senders within their leases never send one v2 row, unless a sender past its own lease
  overwrote the lease of the other);
  `lab_outbox_live`: `EventuallyBilled`.
- `archive_job`: `ProgressExact` (cursor, counts and one wave at a time),
  `SucceededMeansIngested`, `EachFileOnce`, `EventuallyCloses`, `ImplementsLifecycle`.
- `source_run`: `OnlyIngestedIsSkipped` (the incremental state never makes a later run
  skip what was not ingested, nor does a run end unchanged on it, whatever the server
  sends; the one exception, a date learned at another location, is the finding of
  `source_run_unchanged`), `RunRowTrue`, `EachItemRunsOnce`, `EventuallyIngested`.
- `sources`: `SchedulesMirrored` (row and schedule live and die together, and agree on
  pause and cron, unless requests overlapped or failed), `OnlyTemporalHides` (after
  crashes and failed calls, a schedule without a row is one for which Temporal failed a
  call of the create or of its rollback).
- `caches`: `AnswersRecent`, `RetrySeesRotation` (a retry whose request reached the Lab
  gets a key that was current after the failed attempt, whatever other replicas still
  hold, and the replica that reported a key has it no more), `OldListOnlyByOverlap`.
- `platform`: `DestinationSound` (where a submission may write, and through which
  connection), `WholeOnlyIfNamed` (archives), `IndexedMeansStored`, `FilesWhole`,
  `ReadsBounded` (fetches and archives), `MeteringExact`, `DefinitionsSound` (definitions,
  waves, versions, requests); of the plugins `RecordsFaithful`, `SectionsFaithful`,
  `ChunksFaithful`, `EnrichersFaithful` (what a plugin emits against what was in its input,
  with a cancel at each check and each kind of answer) and `SchemasAgree` (a config the
  schema accepts is one the plugin accepts, but for the gaps the module names).

Findings, each the counterexample of one run and quoted in full in `PROJECT.json`:

1. A DELETE of a source that overlaps its POST leaves a live schedule without a row
   (`handlers/sources.rs:418`).
2. Two overlapping PATCHes of a connection, one of the host and one of the key, store a
   pair that was never validated (`gateway/src/handlers/connections.rs:143`).
3. A run of a source whose location was edited ends "unchanged" on a file that was never
   ingested, when the new server compares dates only and the file is older than the last
   one ingested from the old location (`source/url.rs:65`).

### Observations

Behaviour the models reproduce and the properties allow for, and differences between
comments and code that were met while reading it; no run is about them.

Workflows and rows:
- Work done beside a failed or cancelled step of the same wave is not metered
  (`workflow.rs:184`).
- A job that ends before the gateway inserts its row is listed as queued until someone
  opens it (`handlers/ingest.rs:296`); a late patch or a stale write-through takes a
  terminal row back to running (`control-plane/jobs.rs:161`); a child job about to
  start is refused cancellation as finished (`handlers/jobs.rs:183`).
- During the v2 rollout a conversion lets two replicas send one row
  (`lab_events.rs:101`); the Lab ignores the duplicate by its id.  Migration 0004 says
  rows are never deleted before delivery, `drop_stale` deletes them after 24 h.
- An archive job cancelled while it expands or prepares reports failed
  (`archive_workflow.rs:129`); a cancel signal handled with the first task of a
  continued run is overwritten (`archive_workflow.rs:74`).
- Two senders may send one v2 row although both are within their leases, against
  `lab_events.rs:5` ("never deliver the same row"): a sender past its own lease that gets
  an answer at last reschedules its rows to a short backoff and so replaces the lease of
  the sender that holds them now (`lab_events.rs:169-180`), and a third claim takes them.
  `ExclusiveDelivery` states the promise without this exception and is false of the model;
  the Lab ignores the duplicate.
- A live schedule may be left without a row (`sources.rs:6-7`) when Temporal creates the
  schedule and its answer is lost, so the rollback deletes the row only (186-188), or when
  the rollback fails to delete the schedule, which it logs before it deletes the row
  (208-211, 230-242).
- Job rows that a lost attempt of `resolve_source` inserted stay queued: the next attempt
  draws new ids and starts its own children (`source_activity.rs`).
- A list loaded across a write's invalidate is served until it expires
  (`resolver.rs:60-70`).  `ai.rs:154-161` promises "never the rejected key"; a fetch that
  was under way when the key was reported may store that key again, or keep the entry alive
  for one that was reported through the same replica at the same time.

Values:
- Only the first member of a gzip is read (`url.rs:204`).  Bytes of skipped archive
  entries do not count against `max_total_bytes` (`archive/src/lib.rs:106`).
- `validate` orders by a first-in-first-out Kahn, its comment promises definition order
  (`types.rs:963-965`); `normalize` gives every step but the
  first a predecessor, also one with an explicit `depends_on: []`, which its comment calls
  a root (935-936).
- A fan-out over `$.documents` of a byte output has no branches and succeeds
  (`dag.rs:65-68`); `$.many` branches are not capped.
- The catalog says the audio and video pipelines chunk (`catalog.rs:500`, `:508`), the
  built-in definitions do not (`router/src/lib.rs:631-650`).
- Step ids are free text (`types.rs` `validate`), so a step `a-1` spills under the key of
  branch 1 of a step `a` and one overwrites the other's output (`blob/src/lib.rs:802-806`):
  `hydrate_output` does not undo `spill_output` then, as its comment says it does (817-819);
  an upload that is declared with the MIME of a spilled output is read as one
  (`blob/src/lib.rs:826`).  `FilesWhole` lets a step read what a slot of the same name computed, and
  nothing else.
- A version that starts at `i32::MAX` can never be updated.  Two jobs with different
  primary keys that race on a missing index: the loser fails for good.
- `used_by` says a tenant without a connection of that name falls back to the global one
  (`control-plane/connections.rs:233-238`); the worker looks in the tenant's scope only.  `GatewayConfig::validate` says CHANGE_ME is
  refused for every secret (`state.rs:235`) and does not check `LAB_SERVICE_TOKEN`.
- A template with an unknown specifier or an offset out of range panics instead of
  failing when the source is created (`template.rs:68-83`); `truncate` slices bytes
  (`handlers/usage.rs:168-174`).  A `description: null` in a PATCH changes nothing.
- Plugins: `max_rows` of xlsx counts the header; sheets whose names sanitise alike
  share ids; fields named id, content or _meta do not reach the index; html keeps the
  first article; a heading without text vanishes; a script that sets the id to `()`
  makes it "null", and `OnError::Keep` does not keep a document "untouched" when its
  fields are what is refused (`script/src/lib.rs:104`, 357-365): id, title and content
  are already replaced; chunk ids are not cut to 511 bytes again; a fixed
  chunk may be contained in the one before it; the duration limit of a video uses the
  declared rate.  `PluginConfigs` names where a schema is looser or stricter than the
  plugin's parser.

### Bounds

- `MaxBranches` 2, `MaxAttempts` 2: a fan-out with one good and one bad branch, and
  a failure after a retry, both happen; further ones repeat them.  The proofs hold
  for every value.
- `MaxStartAttempts` 2 (3 in the code): one stray patch beside a served one.  A
  second stray writes what the first wrote.
- Two clients: one whose snapshot is stale and one that is up to date.
- Two events and two senders: a batch of which the Lab takes one, and two senders
  that hold one row.
- `MaxFiles` 4, `Wave` 2, `WavesPerRun` 2: at least one continued run, a short last
  wave, and both reasons to continue.  `Kept` (how many skipped entries are described)
  1 with `MaxUnreadable` 2: more are skipped than described.  `ExpandAttempts` 2: one
  lost attempt that may rewrite the manifest.
- `source_run`: two items, so that one may fail beside a good one; two versions, so that
  a run meets a change; two attempts and two faults, so that an attempt is lost and the
  run that follows it fails too; one edit, from a location with entity tags to one without
  or back.
- `sources`: two ids, so that a uid is deleted and created again while a request still
  holds the first id; two faults, so that a call of a create fails and its rollback fails
  or is cut short too.
- Caches: credits are fresh for one tick and usable for two, AI targets for two and three,
  so that an entry of either is fresh, then stale, then gone.  Two keys are one rotation,
  two replicas a rotation that one has seen and the other has not.  `MaxOverlap` 1: two AI
  steps are under way together at the first tick through any replicas and at the second
  through one; later they run one at a time, which is where the windows close.
- The index of `platform`: two attempts of one job, or one of each of two jobs, so that an
  attempt that was given up and another job both get in the way; batches of 2 documents
  and 6 bytes, so that a batch is cut by count, by bytes, and a document is too large; two
  slices of waiting; an index that is missing, has no key, or has another key.
- The blob store of `platform`: two branches of one step and a step without branches, two
  attempts of each, outputs at the threshold and above it, an upload that stays inline, one
  in a folder and one without a name.
- `platform`: inputs are small sets around each limit in the code (at the
  limit, one below, one above), each kind of answer of a service, and a cancel at every
  check.  The limits themselves are scaled down and passed as arguments or named
  (`MaxU32`).

### Deadlock

A closed pipeline job stutters explicitly (`Closed`), a finished submission too.
`job_row`, `archive_job`, `platform` and `connections_unproven` switch the
deadlock check off: a job that has closed with no request about it, a closed archive
job, a part whose requests are all answered and a step that has its result are where
these systems stop.

## 5. Fairness

- PipelineJob: weak fairness of the workflow and of every activity's answer.
  Temporal hands out workflow tasks as long as a worker polls, and every activity has
  a start-to-close timeout and a bounded number of attempts.  Nobody has to cancel.
- ArchiveJob: weak fairness of its work, for the same reasons; that a child ends is
  `EventuallyCloses` of `PipelineJob`.  No lost attempt ever has to finish.
- JobRow: the submission, the activities and the HTTP requests end, each having a
  client timeout.  `RowCatchesUp` also assumes what it is about: some client keeps
  opening the job, and its write-through does not fail every time.
- LabOutbox: leases and backoffs end with the clock and senders run in a loop.  Strong
  fairness only where the world must cooperate: an event that is sent again and again
  is not refused or lost for ever, and a conversion that is tried again and again is
  not interrupted for ever.  `Stop`, `DropStale` and the posts get none.
- SourceRun: weak fairness of `Work`: the schedule keeps firing and Temporal runs what
  it started.  Faults, edits and publications are bounded and never forced, and a late
  request may never be served.
- Sources, the caches and `platform` state safety only: nobody has to retry a request,
  and a cache owes no progress.

## 6. Proofs

All theorems hold for every value of the constants under the named assumptions of
the modules:

- `OrderAssumption`: the definition order lists every step once, after its
  dependencies, which is what `validate()` accepts.
- `CreditsAssumption`, `TargetsAssumption`: an entry is reused without asking no longer
  than it may be fallen back on.  `credits.rs:18-22` has 30 s and 300 s; `ai.rs:18` caps
  the Lab's `cache_ttl` at 300 s, its `STALE_FOR`.  `AccountsAssumption`: Lab accounts are
  accounts.  `KeysAssumption`: there is a first key.
- `SubmissionAssumption`: a path names at most one index, and "own", the mark of the
  deployment's host and key, is nothing a request can send.
- `ConnectionsAssumption`: the types of the request fields; a request to create has a
  host, which `CreateConnectionRequest` requires.
- `IndexerAssumption`: the limits of a batch are at least 1, as `parse_config` requires;
  there is one index at most; sizes are numbers.
- `StoreAssumption`: a step reads a list of slots, each the id of a step and a branch or
  none; sizes are numbers.
- `BoundAssumption`, `RowAssumption`, `OutboxAssumption`, `ArchiveAssumption`,
  `SourceRunAssumption`, `SourcesAssumption`: bounds are numbers, those of attempts, items
  and ids at least one, a `NoStep` that is
  no step, at least one location.

No theorem has a hypothesis beyond these.  What is false of the code is part of the
property instead, as narrow as it was found to be: `OnlyIngestedIsSkipped` exempts a
location whose server sends no entity tag and is compared by a date learned elsewhere
(`Foreign`), `OnlyTemporalHides` the ids Temporal left unanswered, `ExclusiveWhileOnTime`
the rows in `cut`, and `FilesWhole` a slot with a namesake and an upload that is declared
as a spilled output.

Each argument is one inductive invariant `IInv` with one lemma per part and one step
per action:

- `PipelineJob!IInv` adds to the properties: what each await point implies
  (`Stages`), that outputs are closed under dependencies and waves hold only started
  steps without one (`Waves`), that results are successes while the job runs, that
  only a Temporal cancellation cancels activities, that a joined step stays settled
  and its units are branches that answered, all of them if it succeeded (`Joined`,
  `UnitsHappened`, `UnitsComplete`, `NoEarlyBranches`), and that a merge stops half way
  only at a step that failed or was cancelled (`HalfMerged`).  `SucceededMeansAllDone` needs
  `OrderAssumption`: if no step is ready and one is missing, the first missing one in
  definition order would be ready.  The refinement of `JobLifecycle` maps each action
  to `Begin`, `Reject`, `Finish`, `Close` or a stutter.
- `JobRow!IInv` adds `Outcomes` (a closed execution closed as it says), `Snapshots`
  (whatever a request has read holds no outcome but the job's: status is decided
  once, so an old snapshot is behind, never wrong), `Submitted` and `Refusals`.
- `LabOutbox!IInv` adds `BodiesConverted` (past the conversion a sender holds no
  pre-v2 body), `AcksAreBilled`, `IdleHoldsNothing` and `LeasesHold` (a row that a sender
  within its lease holds is in the table, not due, and its `next_attempt` is that sender's:
  pre-v2, dropped and cut rows are exactly where this fails).
- `ArchiveJob!IInv` is the types, `Shape`, `Decided`, `CursorExact`, `CountsExact` and
  `OneWaveAtATime`; the counts are cardinalities, so their steps rest on lemmas about
  what a step adds to the set of files of one fate.
- `SourceRun!IInv` adds to the types what each point of a run implies (`Stages`), that
  every state which is stored, compared with or still on its way marks one published
  body that was ingested (`StatesKept`; the state a run has learned may be kept only
  once its children are done), that records on their way are as true as the stored one
  (`RecordsFaithful`), that a run which ended unchanged compared its location with a file
  that was ingested or with a foreign date (`Compared`), and that all children are of one
  attempt (`OneAttempt`).
- `Sources!IInv` ties the history of overlaps to the requests in flight (`OneAtATime`)
  and says, for each point of a request, how row and schedule stand to each other
  (`Existing` for their existence, failures and rollbacks included; `Uncut` for what a
  request without a fault leaves; `Valued` for pause and cron).  `IdsDrawnOnce` is what
  keeps a late request from touching the schedule of a source created again.
- `Caches!CachesInv`: the Lab's history is up to date, a cached answer was true at or
  after the date of its entry, and what a lookup was told was true after it read the
  clock, in any order of the writes; every key in a cache or on its way was minted and none
  that is gone at a replica is on its way there (`AiGone`: `GoneKeys`, `KeysMinted`,
  `NotBack`, and `Alone`, that a report which is not raced is the only fetch of its
  replica); for the lists, that the cached one was stored after
  the last answered write.  The refinements of `RecentAnswer` map every action to one
  abstract step or a stutter.
- `Destinations!IInv` is `SubInv`, `ConInv`, `IdxInv` or `BlobInv`, for the part that runs.  `SubInv`: the
  context of a tenant never has the deployment's host or key (`CtxOk`); what is decided
  of an item at each point (`RouteOk`); an archive that stays whole has a pipeline that
  names its type until the table moves (`WholeOk`), which rests on the lemma that a
  resolution finds at most one pipeline; a started job keeps all that (`JobsOk`).
  `ConInv`: a stored row is its tenant's, made by a request that has ended, its pair
  probed as a pair (`Rows`); a request stores what it probed (`Probing`, `Inserting`,
  `Updating`); the id of a deleted row is never inserted again (`Deleted`).
  `IdxInv`: an attempt's batches cut its documents into consecutive ranges within the
  limits (`AttemptOk`); its tasks are those batches, in order, in Meilisearch's queue
  (`SentOk`); what it has waited for was done (`AwaitedOk`); a finished task is final, what
  it added is in the index, and a refused one leaves an index whose key stays wrong for it
  (`TaskOk`).  That `plan_batches` cuts so (`PlanOk`) is an induction over the documents,
  carried out with the well-foundedness of strict inclusion on the prefixes that hold.
  `BlobInv`: what stands at the key of a slot was computed by an attempt of that slot or of
  one with the same name, whichever wrote last (`StoredOk`); what an attempt or the
  workflow holds is an output of the slot itself or the reference to that key (`Held`); the
  staged upload stays until a step of its name writes over it (`Uploaded`).
  `hydrate_output` is recursive; as no stored output is a reference, one round solves the
  recursion (`HydratesOnce`).

The properties of the runs that join several of these facts are theorems of their own:
`StepsInOrder`, `FinishedWorkIsBilled`, `NoFalseEnd`, `NoEventLeftUnbilled`,
`LeasesExclude`, `ProgressIsExact`, `NothingPassedOver`, `RowAndScheduleMirrored`,
`HiddenByTemporalOnly`, `Implementation`, `DestinationsAreSound`,
`IndexedIsStored`, `FilesAreWhole`.
Each of the inductive invariants also holds in every state of the instance of its run.

Every safety property, action property and refinement checked by `pipeline_job`,
`job_row`, `lab_outbox`, `archive_job`, `source_run`, `sources` and `caches` is also a
theorem, and so are `DestinationSound`, `WholeOnlyIfNamed`, `IndexedMeansStored` and
`FilesWhole` of `platform`.

Only model-checked:

- the liveness properties (`EventuallyCloses`, `RowCatchesUp`, `EventuallyBilled`,
  `EventuallyIngested`): fairness is beyond the prover;
- of `platform`, `DefinitionsSound`, `ReadsBounded` and the properties of the plugins: they
  are about recursive functions of trees and of sequences of trees; the prover loses
  its solver where a RECURSIVE operator is in reach, and the library's induction theorems
  cannot be instantiated (`PlanOk` gets by with a least element, for one loop);
- `MeteringExact`, whose totals are sums over sets.

## 7. Plan

Left to do, in this order:

1. `Metering`: that no report is counted twice, apart from the sums.

The plugin modules, `Definitions` and `ArchiveReader` use recursion over their data and
stay with TLC.

## 8. What is abstracted or not modelled

Abstracted:

- Data: in the workflow models documents, bytes, configurations, messages and costs.  A
  step answers ok, failed or retried; a child of an archive succeeds or fails.
- The Temporal server is external: at-least-once activities, timeouts, signals that
  may be handled before `run()` is polled, cancellation, continue-as-new.
- The attempts of `expand_fan_out` and `prepare_archive_files` are one answer each:
  what an attempt stages or records, a retry stages or records again under the same
  key (`file_job_id` is derived from the job and the file's position).
- `JobRow`: `asked` stands for either way to cancel.  A second, late `record_usage`
  patch writes the same outcome as the first and is left out, as are tenant visibility
  checks and the row a `GET` falls back to, which it only reads.
- `LabOutbox`: the limit of 500 rows and the order by age; a sender claims every due
  row.
- `ArchiveJob`: the lists of issues kept beside the counts, and why routing skips or
  refuses a file.
- Texts: wording of messages, logging, white space that no decision reads.

Not modelled:

- Decoding of file formats (zip entries, tar headers, docx, pdf, avro, parquet, audio
  and video): libraries.  The models begin at what the decoder found.
- The model vendors, Meilisearch, ClickHouse, Tinybird, Postgres, object stores and the
  Lab: external, modelled from the answers the code tells apart.
- The script language of `document_script`: a run is an error or the map it leaves.
- The WASM and gRPC transports of external plugins: one call, one answer; a call that
  ends by timeout is a failed attempt of `PipelineJob`.
- Route wiring, telemetry, seeding of built-in pipelines at boot, the order of service
  start-up: no state modelled here exists yet.
- An operator's Terminate and execution timeouts of a workflow.
- Lists and pages of the API, which only read.

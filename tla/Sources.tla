------------------------------- MODULE Sources -------------------------------
(***************************************************************************)
(* The life of one source handle (a uid in one tenant's scope): the        *)
(* /sources and DELETE /pipelines requests of the gateway, each a series of *)
(* calls to the control plane (the row) and to Temporal (the schedule),    *)
(* interleaved with the calls of other requests and cut short by a crash.  *)
(* A call may also fail, with or without its effect: it ends a request, as *)
(* a crash after or before the call does, but sends a create to its        *)
(* rollback, whose own failures are only logged.                           *)
(*                                                                         *)
(* A row has a surrogate id, which names its schedule.  The control plane  *)
(* finds a row by uid and tenant in update and delete, by id in set_paused *)
(* and load_for_run.  At most one row has the uid (unique index).          *)
(***************************************************************************)
EXTENDS Integers, FiniteSets

CONSTANTS
    Clients,      \* requests in flight at a time
    MaxIds,       \* bound: sources created under the uid
    MaxFaults     \* bound: gateways that die halfway and calls of a create that fail

ASSUME SourcesAssumption == MaxIds \in Nat \ {0} /\ MaxFaults \in Nat

VARIABLES
    row,        \* the row of the uid: a set of at most one record
    sched,      \* the schedules in Temporal, one per id
    pipeline,   \* does the pipeline the source feeds exist
    req,        \* [Clients -> request in flight]
    ids,        \* ids drawn so far
    faults,     \* faults left
    overlap,    \* history: the kinds of overlap that have happened
    unanswered  \* history: ids for which Temporal failed a call of their create

vars == <<row, sched, pipeline, req, ids, faults, overlap, unanswered>>

Ids == 1 .. MaxIds
Crons == {0, 1}
Rows == [id: Ids, paused: BOOLEAN, archived: BOOLEAN, cron: Crons]
Schedules == [id: Ids, paused: BOOLEAN, cron: Crons]

Existence == {"create", "delete", "pdelete"}
Writes == Existence \cup {"patch", "pause", "unpause"}
Ops == Writes \cup {"run", "pcreate"}

NoRequest == [op |-> "none", pc |-> "idle", id |-> 0, cron |-> 0]

Init ==
    /\ row = {} /\ sched = {} /\ pipeline = TRUE
    /\ req = [c \in Clients |-> NoRequest]
    /\ ids = 0 /\ faults = MaxFaults /\ overlap = {} /\ unanswered = {}

At(c, op, pc) == req[c].op = op /\ req[c].pc = pc
Goto(c, pc) == req' = [req EXCEPT ![c].pc = pc]
GotoWith(c, pc, id) == req' = [req EXCEPT ![c].pc = pc, ![c].id = id]
Done(c) == req' = [req EXCEPT ![c] = NoRequest]

\* The schedule calls.  A schedule that is gone is an error to every call but delete.
Scheduled(id) == \E s \in sched : s.id = id
Schedule(id, isPaused) == sched' = sched \cup {[id |-> id, paused |-> isPaused, cron |-> 0]}
UpdateSpec(id, k) == sched' = {IF s.id = id THEN [s EXCEPT !.cron = k] ELSE s : s \in sched}
PauseSchedule(id, b) == sched' = {IF s.id = id THEN [s EXCEPT !.paused = b] ELSE s : s \in sched}
Unschedule(id) == sched' = {s \in sched : s.id # id}

\* The calls on the row.  The routes of a uid answer 404, None to the gateway, without one.
NotFound == row = {}
NewRow(id) == [id |-> id, paused |-> TRUE, archived |-> FALSE, cron |-> 0]
UpdateByUid(field, value) == row' = {[r EXCEPT ![field] = value] : r \in row}
SetPausedById(id, b) == row' = {IF r.id = id THEN [r EXCEPT !.paused = b] ELSE r : r \in row}
DeleteByUid == row' = {}
ArchiveForPipeline == row' = {[r EXCEPT !.archived = TRUE, !.paused = TRUE] : r \in row}

\* A request arrives.  Whether it overlaps another write of the handle is remembered:
\* two requests that create or remove it, or a change of a value and any other write.
Arrive(c, op) ==
    /\ req[c] = NoRequest
    /\ \E k \in IF op = "patch" THEN Crons ELSE {0} :
         req' = [req EXCEPT ![c] = [op |-> op, pc |-> "start", id |-> 0, cron |-> k]]
    /\ LET others == {req[d].op : d \in Clients \ {c}} \cap Writes IN
       overlap' = overlap
          \cup (IF op \in Existence /\ others \cap Existence # {} THEN {"existence"} ELSE {})
          \cup (IF op \in Writes /\ others # {} THEN {"value"} ELSE {})
    /\ UNCHANGED <<row, sched, pipeline, ids, faults, unanswered>>

----------------------------------------------------------------------------
(* POST /sources *)

\* Body, cron fields, location and pipeline are checked; a refusal ends the request.
CreateCheck(c) ==
    /\ At(c, "create", "start")
    /\ \/ pipeline /\ Goto(c, "insert")
       \/ Done(c)
    /\ UNCHANGED <<row, sched, pipeline, ids, faults, overlap, unanswered>>

\* 1. The row, paused; a second row of the uid is refused by the unique index, and an
\* insert past the bound fails like one the database refused.
CreateInsert(c) ==
    /\ At(c, "create", "insert")
    /\ IF row = {} /\ ids < MaxIds
       THEN /\ row' = {NewRow(ids + 1)}
            /\ ids' = ids + 1
            /\ GotoWith(c, "schedule", ids + 1)
       ELSE /\ Done(c)
            /\ UNCHANGED <<row, ids>>
    /\ UNCHANGED <<sched, pipeline, faults, overlap, unanswered>>

\* A call of the create fails.
Fault == faults > 0 /\ faults' = faults - 1

\* ... one to Temporal, which keeps what it will of it.
Unanswered(c) == Fault /\ unanswered' = unanswered \cup {req[c].id}

\* 2. The schedule, live.  Temporal rejects it (its cron, say), or the call fails after it
\* had its effect: either way only the row is rolled back.
CreateSchedule(c) ==
    /\ At(c, "create", "schedule")
    /\ \/ /\ Schedule(req[c].id, FALSE)
          /\ Goto(c, "unpause")
          /\ UNCHANGED <<faults, unanswered>>
       \/ /\ Goto(c, "undo_row")
          /\ UNCHANGED <<sched, faults, unanswered>>
       \/ /\ Schedule(req[c].id, FALSE)
          /\ Goto(c, "undo_row")
          /\ Unanswered(c)
    /\ UNCHANGED <<row, pipeline, ids, overlap>>

\* Mutant of CreateUnpause: its rollback leaves the schedule, as the one of a refused
\* schedule does.
UnpauseUndoesRow(c) ==
    /\ At(c, "create", "unpause")
    /\ \/ /\ UpdateByUid("paused", FALSE)
          /\ IF NotFound THEN Goto(c, "undo_row") ELSE Done(c)
          /\ UNCHANGED faults
       \/ /\ UpdateByUid("paused", FALSE) \/ UNCHANGED row
          /\ Goto(c, "undo_row")
          /\ Fault
    /\ UNCHANGED <<sched, pipeline, ids, overlap, unanswered>>

\* 3. The row that has the uid now is unpaused; none, or a call that fails before or after
\* its effect, means roll back.
CreateUnpause(c) ==
    /\ At(c, "create", "unpause")
    /\ \/ /\ UpdateByUid("paused", FALSE)
          /\ IF NotFound THEN Goto(c, "undo_schedule") ELSE Done(c)
          /\ UNCHANGED faults
       \/ /\ UpdateByUid("paused", FALSE) \/ UNCHANGED row
          /\ Goto(c, "undo_schedule")
          /\ Fault
    /\ UNCHANGED <<sched, pipeline, ids, overlap, unanswered>>

\* A schedule that cannot be deleted is logged, and the row goes all the same.
UndoSchedule(c) ==
    /\ At(c, "create", "undo_schedule")
    /\ Goto(c, "undo_row")
    /\ \/ Unschedule(req[c].id) /\ UNCHANGED <<faults, unanswered>>
       \/ Unanswered(c) /\ UNCHANGED sched
    /\ UNCHANGED <<row, pipeline, ids, overlap>>

\* The row is deleted by uid and tenant: whichever has them.
UndoRow(c) ==
    /\ At(c, "create", "undo_row")
    /\ DeleteByUid
    /\ Done(c)
    /\ UNCHANGED <<sched, pipeline, ids, faults, overlap, unanswered>>

----------------------------------------------------------------------------
(* Requests on an existing source: owned() reads the row first. *)

ReadOwned(c) ==
    /\ req[c].op \in {"patch", "pause", "unpause", "run", "delete"} /\ req[c].pc = "start"
    /\ \/ NotFound /\ Done(c)
       \/ \E r \in row :
             IF req[c].op = "run" /\ r.archived THEN Done(c) ELSE GotoWith(c, "schedule", r.id)
    /\ UNCHANGED <<row, sched, pipeline, ids, faults, overlap, unanswered>>

\* PATCH of the cron: the schedule first; one that is gone is an error and nothing changed.
PatchSchedule(c) ==
    /\ At(c, "patch", "schedule")
    /\ UpdateSpec(req[c].id, req[c].cron)
    /\ IF Scheduled(req[c].id) THEN Goto(c, "row") ELSE Done(c)
    /\ UNCHANGED <<row, pipeline, ids, faults, overlap, unanswered>>

PatchRow(c) ==
    /\ At(c, "patch", "row")
    /\ UpdateByUid("cron", req[c].cron)
    /\ Done(c)
    /\ UNCHANGED <<sched, pipeline, ids, faults, overlap, unanswered>>

SetPausedSchedule(c) ==
    /\ req[c].op \in {"pause", "unpause"} /\ req[c].pc = "schedule"
    /\ PauseSchedule(req[c].id, req[c].op = "pause")
    /\ IF Scheduled(req[c].id) THEN Goto(c, "row") ELSE Done(c)
    /\ UNCHANGED <<row, pipeline, ids, faults, overlap, unanswered>>

SetPausedRow(c) ==
    /\ req[c].op \in {"pause", "unpause"} /\ req[c].pc = "row"
    /\ SetPausedById(req[c].id, req[c].op = "pause")
    /\ Done(c)
    /\ UNCHANGED <<sched, pipeline, ids, faults, overlap, unanswered>>

\* POST /sources/{uid}/run: credits, then the trigger.
TriggerRun(c) ==
    /\ At(c, "run", "schedule")
    /\ Done(c)
    /\ UNCHANGED <<row, sched, pipeline, ids, faults, overlap, unanswered>>

DeleteSchedule(c) ==
    /\ At(c, "delete", "schedule")
    /\ Unschedule(req[c].id)
    /\ Goto(c, "row")
    /\ UNCHANGED <<row, pipeline, ids, faults, overlap, unanswered>>

DeleteRow(c) ==
    /\ At(c, "delete", "row")
    /\ DeleteByUid
    /\ Done(c)
    /\ UNCHANGED <<sched, pipeline, ids, faults, overlap, unanswered>>

----------------------------------------------------------------------------
(* Pipelines *)

\* One transaction: the pipeline goes, its sources are archived; the ids come back.
PipelineDelete(c) ==
    /\ At(c, "pdelete", "start")
    /\ pipeline' = FALSE
    /\ IF pipeline THEN ArchiveForPipeline ELSE UNCHANGED row
    /\ \/ /\ pipeline
          /\ \E r \in row : ~r.archived /\ GotoWith(c, "stop", r.id)
       \/ /\ ~pipeline \/ \A r \in row : r.archived
          /\ Done(c)
    /\ UNCHANGED <<sched, ids, faults, overlap, unanswered>>

\* Mutant of StopSchedule: the archived source's schedule is left running.
StopNothing(c) ==
    /\ At(c, "pdelete", "stop")
    /\ Done(c)
    /\ UNCHANGED <<row, sched, pipeline, ids, faults, overlap, unanswered>>

StopSchedule(c) ==
    /\ At(c, "pdelete", "stop")
    /\ Unschedule(req[c].id)
    /\ Done(c)
    /\ UNCHANGED <<row, pipeline, ids, faults, overlap, unanswered>>

PipelineCreate(c) ==
    /\ At(c, "pcreate", "start")
    /\ pipeline' = TRUE
    /\ Done(c)
    /\ UNCHANGED <<row, sched, ids, faults, overlap, unanswered>>

\* The gateway dies between two calls of a request, or a call fails and ends it.
Crash(c) ==
    /\ req[c] # NoRequest /\ Fault
    /\ Done(c)
    /\ UNCHANGED <<row, sched, pipeline, ids, overlap, unanswered>>

Step(c) ==
    \/ CreateCheck(c) \/ CreateInsert(c) \/ CreateSchedule(c) \/ CreateUnpause(c)
    \/ UndoSchedule(c) \/ UndoRow(c) \/ ReadOwned(c) \/ PatchSchedule(c) \/ PatchRow(c)
    \/ SetPausedSchedule(c) \/ SetPausedRow(c) \/ TriggerRun(c) \/ DeleteSchedule(c)
    \/ DeleteRow(c) \/ PipelineDelete(c) \/ StopSchedule(c) \/ PipelineCreate(c)

Next == \E c \in Clients : Step(c) \/ Crash(c) \/ \E op \in Ops : Arrive(c, op)

Spec == Init /\ [][Next]_vars

----------------------------------------------------------------------------
(* Properties. *)

\* Type invariant.
TypeOK ==
    /\ row \subseteq Rows /\ Cardinality(row) <= 1
    /\ sched \subseteq Schedules /\ \A s, t \in sched : s.id = t.id => s = t
    /\ pipeline \in BOOLEAN /\ ids \in 0 .. MaxIds /\ faults \in 0 .. MaxFaults
    /\ \A c \in Clients : req[c].op \in Ops \cup {"none"} /\ req[c].id \in 0 .. MaxIds
    /\ overlap \subseteq {"existence", "value"} /\ unanswered \subseteq 0 .. MaxIds

Quiet == \A c \in Clients : req[c] = NoRequest
Visible == \A s \in sched : \E r \in row : r.id = s.id

\* Requests that create or remove the source one after the other, mixed with any others,
\* leave row and schedule together: a live source has one, an archived or removed one none.
ExistenceMirrored ==
    Quiet /\ faults = MaxFaults /\ "existence" \notin overlap =>
        /\ Visible
        /\ \A r \in row : Scheduled(r.id) <=> ~r.archived

\* After any series of requests that did not overlap, the row of a live source shows the
\* schedule's pause and cron.
ValuesMirrored ==
    Quiet /\ faults = MaxFaults /\ overlap = {} =>
        \A r \in row, s \in sched : ~r.archived => s.paused = r.paused /\ s.cron = r.cron

\* The schedule that fires is the one the row shows, as far as requests do not overlap.
SchedulesMirrored == ExistenceMirrored /\ ValuesMirrored

\* Every schedule has a row, or is one for which Temporal failed the create or its rollback.
Accounted == \A s \in sched : s.id \in unanswered \/ \E r \in row : r.id = s.id

\* Gateways that die between any two calls, those of a rollback included, and calls to the
\* control plane that fail leave no schedule without a row: what is left behind is visible,
\* and a DELETE repairs it.  Only a call to Temporal that fails during a create can hide a
\* schedule, since the rollback removes the row regardless.
OnlyTemporalHides == "existence" \notin overlap /\ Quiet => Accounted

\* Once every request has ended, no schedule fires for a source that has no row, whatever
\* the requests were (handlers/sources.rs: "no half-created source is left behind").
NoOrphanSchedule == Quiet => Visible
=============================================================================

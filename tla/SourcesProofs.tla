---------------------------- MODULE SourcesProofs ----------------------------
(***************************************************************************)
(* Proofs about Sources, for any number of requests in flight, of sources  *)
(* created under the handle and of faults.                                *)
(***************************************************************************)
EXTENDS Sources, FiniteSetTheorems, TLAPS

Points == {"idle", "start", "insert", "schedule", "unpause", "undo_schedule", "undo_row", "row", "stop"}
Requests == [op: Ops \cup {"none"}, pc: Points, id: 0 .. MaxIds, cron: Crons]

----------------------------------------------------------------------------
(* The inductive invariant. *)

Types ==
    /\ row \subseteq Rows /\ \A r, q \in row : r = q
    /\ sched \subseteq Schedules
    /\ pipeline \in BOOLEAN /\ ids \in 0 .. MaxIds /\ faults \in 0 .. MaxFaults
    /\ req \in [Clients -> Requests]
    /\ overlap \subseteq {"existence", "value"}
    /\ unanswered \subseteq 0 .. MaxIds /\ (faults = MaxFaults => unanswered = {})

\* An id names one schedule: the request that drew it is the only one to schedule it.
IdsDrawnOnce ==
    /\ \A s \in sched : s.id <= ids
    /\ \A s, t \in sched : s.id = t.id => s = t
    /\ \A c \in Clients : At(c, "create", "schedule") =>
         /\ req[c].id \in 1 .. ids
         /\ \A s \in sched : s.id # req[c].id
         /\ \A d \in Clients : At(d, "create", "schedule") /\ req[d].id = req[c].id => d = c

\* What the history of overlaps says of the requests in flight.
OneAtATime ==
    /\ "existence" \notin overlap =>
         \A c, d \in Clients : req[c].op \in Existence /\ req[d].op \in Existence => c = d
    /\ "value" \notin overlap =>
         \A c, d \in Clients : req[c].op \in Writes /\ req[d].op \in Writes => c = d

\* The schedules that Temporal answered for.
Known == {s \in sched : s.id \notin unanswered}

OfRow(c) == \A r \in row : r.id = req[c].id

\* Row and schedule at each point of a request that creates or removes the source.
InOrder(c) ==
    /\ At(c, "create", "schedule") =>
         Known = {} /\ row # {} /\ OfRow(c) /\ \A r \in row : ~r.archived
    /\ At(c, "create", "unpause") =>
         Scheduled(req[c].id) /\ row # {} /\ OfRow(c) /\ \A r \in row : ~r.archived
    /\ At(c, "create", "undo_schedule") => OfRow(c)
    /\ At(c, "create", "undo_row") => Known = {}
    /\ At(c, "delete", "schedule") => OfRow(c)
    /\ At(c, "delete", "row") => Known = {}
    /\ At(c, "pdelete", "stop") => OfRow(c) /\ \A r \in row : r.archived

Existing == "existence" \notin overlap => Accounted /\ \A c \in Clients : InOrder(c)

Together == \A r \in row : Scheduled(r.id) <=> ~r.archived

\* Between the call that changes the one and the call that changes the other.
Halfway(c) ==
    \/ At(c, "create", "schedule") \/ At(c, "create", "unpause")
    \/ At(c, "create", "undo_schedule") \/ At(c, "create", "undo_row")
    \/ At(c, "delete", "row") \/ At(c, "pdelete", "stop")

Uncut ==
    "existence" \notin overlap /\ faults = MaxFaults => Together \/ \E c \in Clients : Halfway(c)

\* The values of row and schedule at each point of a request that changes one.
Agree == \A r \in row, s \in sched : ~r.archived => s.paused = r.paused /\ s.cron = r.cron

Writing(c) ==
    Halfway(c) \/ (req[c].op \in {"patch", "pause", "unpause"} /\ req[c].pc = "row")

Values(c) ==
    /\ At(c, "create", "schedule") => \A r \in row : r.cron = 0
    /\ At(c, "create", "unpause") =>
         (\A r \in row : r.cron = 0) /\ \A s \in sched : s.cron = 0 /\ ~s.paused
    /\ req[c].op \in {"patch", "pause", "unpause"} /\ req[c].pc \in {"schedule", "row"} => OfRow(c)
    /\ At(c, "patch", "row") =>
         /\ \A s \in sched : s.cron = req[c].cron
         /\ \A r \in row, s \in sched : ~r.archived => s.paused = r.paused
    /\ req[c].op \in {"pause", "unpause"} /\ req[c].pc = "row" =>
         /\ \A s \in sched : s.paused <=> req[c].op = "pause"
         /\ \A r \in row, s \in sched : ~r.archived => s.cron = r.cron

Valued ==
    overlap = {} /\ faults = MaxFaults =>
        (Agree \/ \E c \in Clients : Writing(c)) /\ \A c \in Clients : Values(c)

IInv == Types /\ IdsDrawnOnce /\ OneAtATime /\ Existing /\ Uncut /\ Valued

----------------------------------------------------------------------------
(* What the moves of a request do. *)

\* Request c moves alone: to its next point, or to its end.
Only(c) == req' \in [Clients -> Requests] /\ \A d \in Clients : d # c => req'[d] = req[d]
To(c, pc, id) == /\ Only(c) /\ req'[c].op = req[c].op /\ req'[c].cron = req[c].cron
                 /\ req'[c].pc = pc /\ req'[c].id = id
Over(c) == Only(c) /\ req'[c].op = "none" /\ req'[c].pc = "idle"

LEMMA Moved ==
    ASSUME Types, NEW c \in Clients, NEW pc \in Points, Goto(c, pc)
    PROVE  To(c, pc, req[c].id)
BY DEF Types, Goto, Requests, To, Only

LEMMA MovedWith ==
    ASSUME Types, NEW c \in Clients, NEW pc \in Points, NEW id \in 0 .. MaxIds, GotoWith(c, pc, id)
    PROVE  To(c, pc, id)
BY DEF Types, GotoWith, Requests, To, Only

LEMMA Ended ==
    ASSUME Types, NEW c \in Clients, Done(c)
    PROVE  Over(c)
<1>1. NoRequest \in Requests
  BY SourcesAssumption DEF NoRequest, Requests, Points, Crons, SourcesAssumption
<1> QED BY <1>1 DEF Types, Done, NoRequest, Over, Only

LEMMA Arrived ==
    ASSUME Types, NEW c \in Clients, NEW op \in Ops, Arrive(c, op)
    PROVE  Only(c) /\ req[c].op = "none" /\ req'[c].op = op /\ req'[c].pc = "start"
<1>1. PICK k \in Crons : req' = [req EXCEPT ![c] = [op |-> op, pc |-> "start", id |-> 0, cron |-> k]]
  BY DEF Arrive, Crons
<1>2. [op |-> op, pc |-> "start", id |-> 0, cron |-> k] \in Requests
  BY SourcesAssumption DEF Requests, Points, SourcesAssumption
<1> QED BY <1>1, <1>2 DEF Types, Arrive, NoRequest, Only

----------------------------------------------------------------------------
(* What the calls on the row and on the schedules do. *)

\* A change of the row's values keeps the row.
LEMMA RowUnpaused ==
    ASSUME Types, UpdateByUid("paused", FALSE)
    PROVE  /\ row' \subseteq Rows /\ (\A r, q \in row' : r = q) /\ (row = {} <=> row' = {})
           /\ \A q \in row' : \E r \in row :
                q.id = r.id /\ q.archived = r.archived /\ ~q.paused /\ q.cron = r.cron
<1> DEFINE f(r) == [r EXCEPT !["paused"] = FALSE]
<1>1. ASSUME NEW r \in Rows
      PROVE  f(r) \in Rows /\ f(r).id = r.id /\ f(r).archived = r.archived /\ ~f(r).paused /\ f(r).cron = r.cron
  BY DEF Rows
<1>2. row' = {f(r) : r \in row} /\ row \subseteq Rows
  BY DEF UpdateByUid, Types
<1>3. \A r, q \in row : r = q
  BY DEF Types
<1> HIDE DEF f
<1> QED BY <1>1, <1>2, <1>3

LEMMA RowUpdated ==
    ASSUME Types, NEW k \in Crons, UpdateByUid("cron", k)
    PROVE  /\ row' \subseteq Rows /\ (\A r, q \in row' : r = q) /\ (row = {} <=> row' = {})
           /\ \A q \in row' : \E r \in row :
                q.id = r.id /\ q.archived = r.archived /\ q.paused = r.paused /\ q.cron = k
<1> DEFINE f(r) == [r EXCEPT !["cron"] = k]
<1>1. ASSUME NEW r \in Rows
      PROVE  f(r) \in Rows /\ f(r).id = r.id /\ f(r).archived = r.archived /\ f(r).paused = r.paused /\ f(r).cron = k
  BY DEF Rows
<1>2. row' = {f(r) : r \in row} /\ row \subseteq Rows
  BY DEF UpdateByUid, Types
<1>3. \A r, q \in row : r = q
  BY DEF Types
<1> HIDE DEF f
<1> QED BY <1>1, <1>2, <1>3

LEMMA RowPaused ==
    ASSUME Types, NEW id, NEW b \in BOOLEAN, SetPausedById(id, b)
    PROVE  /\ row' \subseteq Rows /\ (\A r, q \in row' : r = q) /\ (row = {} <=> row' = {})
           /\ \A q \in row' : \E r \in row :
                /\ q.id = r.id /\ q.archived = r.archived /\ q.cron = r.cron
                /\ (r.id = id => q.paused = b)
<1> DEFINE f(x) == IF x.id = id THEN [x EXCEPT !.paused = b] ELSE x
<1>1. ASSUME NEW x \in Rows
      PROVE  f(x) \in Rows /\ f(x).id = x.id /\ f(x).archived = x.archived /\ f(x).cron = x.cron
             /\ (x.id = id => f(x).paused = b)
  BY DEF Rows
<1>2. row' = {f(x) : x \in row} /\ row \subseteq Rows
  BY DEF SetPausedById, Types
<1>3. \A r, q \in row : r = q
  BY DEF Types
<1> HIDE DEF f
<1> QED BY <1>1, <1>2, <1>3

LEMMA RowArchived ==
    ASSUME Types, ArchiveForPipeline
    PROVE  /\ row' \subseteq Rows /\ (\A r, q \in row' : r = q) /\ (row = {} <=> row' = {})
           /\ \A q \in row' : q.archived /\ \E r \in row : q.id = r.id
<1> DEFINE f(x) == [x EXCEPT !.archived = TRUE, !.paused = TRUE]
<1>1. ASSUME NEW x \in Rows
      PROVE  f(x) \in Rows /\ f(x).id = x.id /\ f(x).archived
  BY DEF Rows
<1>2. row' = {f(x) : x \in row} /\ row \subseteq Rows
  BY DEF ArchiveForPipeline, Types
<1>3. \A r, q \in row : r = q
  BY DEF Types
<1> HIDE DEF f
<1> QED BY <1>1, <1>2, <1>3

LEMMA SpecUpdated ==
    ASSUME Types, NEW id, NEW k \in Crons, UpdateSpec(id, k)
    PROVE  /\ sched' \subseteq Schedules
           /\ \A t \in sched' : \E s \in sched : 
                t.id = s.id /\ t.paused = s.paused /\ t.cron = (IF s.id = id THEN k ELSE s.cron)
           /\ \A s \in sched : \E t \in sched' : t.id = s.id
           /\ (\A s, t \in sched : s.id = t.id => s = t) => \A s, t \in sched' : s.id = t.id => s = t
           /\ ~Scheduled(id) => sched' = sched
<1> DEFINE f(x) == IF x.id = id THEN [x EXCEPT !.cron = k] ELSE x
<1>1. ASSUME NEW x \in Schedules
      PROVE  f(x) \in Schedules /\ f(x).id = x.id /\ f(x).paused = x.paused
             /\ f(x).cron = (IF x.id = id THEN k ELSE x.cron)
  BY DEF Schedules
<1>2. sched' = {f(x) : x \in sched} /\ sched \subseteq Schedules
  BY DEF UpdateSpec, Types
<1> HIDE DEF f
<1>3. sched' \subseteq Schedules
      /\ \A s \in sched : \E t \in sched' : t.id = s.id
  BY <1>1, <1>2
<1>4. (\A s, t \in sched : s.id = t.id => s = t) => \A s, t \in sched' : s.id = t.id => s = t
  BY <1>1, <1>2
<1>5. ~Scheduled(id) => sched' = sched
  <2>1. \A x \in sched : x.id # id => f(x) = x
    BY DEF f
  <2> SUFFICES ASSUME ~Scheduled(id) PROVE sched' = sched
    OBVIOUS
  <2>2. \A x \in sched : f(x) = x
    BY <2>1 DEF Scheduled
  <2>3. {f(x) : x \in sched} = sched
    BY <2>2
  <2> QED BY <1>2, <2>3
<1>6. \A t \in sched' : \E s \in sched :
        t.id = s.id /\ t.paused = s.paused /\ t.cron = (IF s.id = id THEN k ELSE s.cron)
  BY <1>1, <1>2
<1> QED BY <1>3, <1>4, <1>5, <1>6

LEMMA SchedulePaused ==
    ASSUME Types, NEW id, NEW b \in BOOLEAN, PauseSchedule(id, b)
    PROVE  /\ sched' \subseteq Schedules
           /\ \A t \in sched' : \E s \in sched : 
                t.id = s.id /\ t.cron = s.cron /\ (s.id = id => t.paused = b)
           /\ \A s \in sched : \E t \in sched' : t.id = s.id
           /\ (\A s, t \in sched : s.id = t.id => s = t) => \A s, t \in sched' : s.id = t.id => s = t
           /\ ~Scheduled(id) => sched' = sched
<1> DEFINE f(x) == IF x.id = id THEN [x EXCEPT !.paused = b] ELSE x
<1>1. ASSUME NEW x \in Schedules
      PROVE  f(x) \in Schedules /\ f(x).id = x.id /\ f(x).cron = x.cron
             /\ (x.id = id => f(x).paused = b)
  BY DEF Schedules
<1>2. sched' = {f(x) : x \in sched} /\ sched \subseteq Schedules
  BY DEF PauseSchedule, Types
<1> HIDE DEF f
<1>3. sched' \subseteq Schedules
      /\ \A s \in sched : \E t \in sched' : t.id = s.id
  BY <1>1, <1>2
<1>4. (\A s, t \in sched : s.id = t.id => s = t) => \A s, t \in sched' : s.id = t.id => s = t
  BY <1>1, <1>2
<1>5. ~Scheduled(id) => sched' = sched
  <2>1. \A x \in sched : x.id # id => f(x) = x
    BY DEF f
  <2> SUFFICES ASSUME ~Scheduled(id) PROVE sched' = sched
    OBVIOUS
  <2>2. \A x \in sched : f(x) = x
    BY <2>1 DEF Scheduled
  <2>3. {f(x) : x \in sched} = sched
    BY <2>2
  <2> QED BY <1>2, <2>3
<1>6. \A t \in sched' : \E s \in sched :
        t.id = s.id /\ t.cron = s.cron /\ (s.id = id => t.paused = b)
  BY <1>1, <1>2
<1> QED BY <1>3, <1>4, <1>5, <1>6

----------------------------------------------------------------------------
(* What each action does. *)

LEMMA CreateCheckDoes ==
    ASSUME Types, NEW c \in Clients, CreateCheck(c)
    PROVE  /\ At(c, "create", "start")
           /\ To(c, "insert", req[c].id) \/ Over(c)
           /\ UNCHANGED <<row, sched, pipeline, ids, faults, overlap, unanswered>>
BY Moved, MovedWith, Ended DEF CreateCheck, At, Points

LEMMA CreateInsertDoes ==
    ASSUME Types, NEW c \in Clients, CreateInsert(c)
    PROVE  /\ At(c, "create", "insert")
           /\ \/ /\ row = {} /\ row' = {NewRow(ids')} /\ NewRow(ids') \in Rows
                 /\ ids' = ids + 1 /\ ids' \in Ids /\ To(c, "schedule", ids')
              \/ Over(c) /\ row' = row /\ ids' = ids
           /\ UNCHANGED <<sched, pipeline, faults, overlap, unanswered>>
<1>1. CASE row = {} /\ ids < MaxIds
  <2>1. ids + 1 \in Ids /\ ids + 1 \in 0 .. MaxIds
    BY <1>1, SourcesAssumption DEF Types, Ids, SourcesAssumption
  <2>2. NewRow(ids + 1) \in Rows
    BY <2>1 DEF NewRow, Rows, Crons
  <2>3. To(c, "schedule", ids + 1)
    BY <1>1, <2>1, MovedWith DEF CreateInsert, Points
  <2> QED BY <1>1, <2>1, <2>2, <2>3 DEF CreateInsert
<1>2. CASE ~(row = {} /\ ids < MaxIds)
  BY <1>2, Ended DEF CreateInsert
<1> QED BY <1>1, <1>2

LEMMA CreateScheduleDoes ==
    ASSUME Types, NEW c \in Clients, CreateSchedule(c)
    PROVE  /\ At(c, "create", "schedule")
           /\ \/ /\ sched' = sched \cup {[id |-> req[c].id, paused |-> FALSE, cron |-> 0]} /\ To(c, "unpause", req[c].id)
                 /\ faults' = faults /\ unanswered' = unanswered
              \/ sched' = sched /\ To(c, "undo_row", req[c].id) /\ faults' = faults /\ unanswered' = unanswered
              \/ /\ sched' = sched \cup {[id |-> req[c].id, paused |-> FALSE, cron |-> 0]} /\ To(c, "undo_row", req[c].id)
                 /\ Unanswered(c)
           /\ UNCHANGED <<row, pipeline, ids, overlap>>
BY Moved, MovedWith, Ended DEF CreateSchedule, At, Points, Schedule

LEMMA CreateUnpauseDoes ==
    ASSUME Types, NEW c \in Clients, CreateUnpause(c)
    PROVE  /\ At(c, "create", "unpause")
           /\ \/ /\ UpdateByUid("paused", FALSE) /\ faults' = faults
                 /\ ((row = {} /\ To(c, "undo_schedule", req[c].id)) \/ (row # {} /\ Over(c)))
              \/ (UpdateByUid("paused", FALSE) \/ row' = row) /\ To(c, "undo_schedule", req[c].id) /\ Fault
           /\ UNCHANGED <<sched, pipeline, ids, overlap, unanswered>>
<1>1. Goto(c, "undo_schedule") => To(c, "undo_schedule", req[c].id)
  BY Moved DEF Points
<1>2. Done(c) => Over(c)
  BY Ended
<1>3. CASE UpdateByUid("paused", FALSE) /\ faults' = faults /\ IF NotFound THEN Goto(c, "undo_schedule") ELSE Done(c)
  BY <1>1, <1>2, <1>3 DEF CreateUnpause, NotFound
<1>4. CASE (UpdateByUid("paused", FALSE) \/ row' = row) /\ Goto(c, "undo_schedule") /\ Fault
  BY <1>1, <1>4 DEF CreateUnpause
<1> QED BY <1>3, <1>4 DEF CreateUnpause

LEMMA UndoScheduleDoes ==
    ASSUME Types, NEW c \in Clients, UndoSchedule(c)
    PROVE  /\ At(c, "create", "undo_schedule")
           /\ To(c, "undo_row", req[c].id)
           /\ \/ sched' = {s \in sched : s.id # req[c].id} /\ faults' = faults /\ unanswered' = unanswered
              \/ sched' = sched /\ Unanswered(c)
           /\ UNCHANGED <<row, pipeline, ids, overlap>>
BY Moved, MovedWith, Ended DEF UndoSchedule, At, Points, Unschedule

LEMMA UndoRowDoes ==
    ASSUME Types, NEW c \in Clients, UndoRow(c)
    PROVE  /\ At(c, "create", "undo_row")
           /\ Over(c)
           /\ row' = {}
           /\ UNCHANGED <<sched, pipeline, ids, faults, overlap, unanswered>>
BY Moved, MovedWith, Ended DEF UndoRow, At, Points, DeleteByUid

LEMMA ReadOwnedDoes ==
    ASSUME Types, NEW c \in Clients, ReadOwned(c)
    PROVE  /\ req[c].op \in {"patch", "pause", "unpause", "run", "delete"} /\ req[c].pc = "start"
           /\ \/ Over(c)
              \/ \E r \in row : To(c, "schedule", r.id)
           /\ UNCHANGED <<row, sched, pipeline, ids, faults, overlap, unanswered>>
<1>1. \A r \in row : r.id \in 0 .. MaxIds
  BY DEF Types, Rows, Ids
<1> QED BY <1>1, MovedWith, Ended DEF ReadOwned, Points

LEMMA PatchScheduleDoes ==
    ASSUME Types, NEW c \in Clients, PatchSchedule(c)
    PROVE  /\ At(c, "patch", "schedule")
           /\ \/ To(c, "row", req[c].id)
              \/ Over(c) /\ ~Scheduled(req[c].id)
           /\ UpdateSpec(req[c].id, req[c].cron) /\ req[c].cron \in Crons
           /\ UNCHANGED <<row, pipeline, ids, faults, overlap, unanswered>>
BY Moved, MovedWith, Ended DEF PatchSchedule, At, Points, Types, Requests

LEMMA PatchRowDoes ==
    ASSUME Types, NEW c \in Clients, PatchRow(c)
    PROVE  /\ At(c, "patch", "row")
           /\ Over(c)
           /\ UpdateByUid("cron", req[c].cron) /\ req[c].cron \in Crons
           /\ UNCHANGED <<sched, pipeline, ids, faults, overlap, unanswered>>
BY Moved, MovedWith, Ended DEF PatchRow, At, Points, Types, Requests

LEMMA SetPausedScheduleDoes ==
    ASSUME Types, NEW c \in Clients, SetPausedSchedule(c)
    PROVE  /\ req[c].op \in {"pause", "unpause"} /\ req[c].pc = "schedule"
           /\ \/ To(c, "row", req[c].id)
              \/ Over(c) /\ ~Scheduled(req[c].id)
           /\ PauseSchedule(req[c].id, req[c].op = "pause")
           /\ UNCHANGED <<row, pipeline, ids, faults, overlap, unanswered>>
BY Moved, MovedWith, Ended DEF SetPausedSchedule, At, Points

LEMMA SetPausedRowDoes ==
    ASSUME Types, NEW c \in Clients, SetPausedRow(c)
    PROVE  /\ req[c].op \in {"pause", "unpause"} /\ req[c].pc = "row"
           /\ Over(c)
           /\ SetPausedById(req[c].id, req[c].op = "pause")
           /\ UNCHANGED <<sched, pipeline, ids, faults, overlap, unanswered>>
BY Moved, MovedWith, Ended DEF SetPausedRow, At, Points

LEMMA TriggerRunDoes ==
    ASSUME Types, NEW c \in Clients, TriggerRun(c)
    PROVE  /\ At(c, "run", "schedule")
           /\ Over(c)
           /\ UNCHANGED <<row, sched, pipeline, ids, faults, overlap, unanswered>>
BY Moved, MovedWith, Ended DEF TriggerRun, At, Points

LEMMA DeleteScheduleDoes ==
    ASSUME Types, NEW c \in Clients, DeleteSchedule(c)
    PROVE  /\ At(c, "delete", "schedule")
           /\ To(c, "row", req[c].id)
           /\ sched' = {s \in sched : s.id # req[c].id}
           /\ UNCHANGED <<row, pipeline, ids, faults, overlap, unanswered>>
BY Moved, MovedWith, Ended DEF DeleteSchedule, At, Points, Unschedule

LEMMA DeleteRowDoes ==
    ASSUME Types, NEW c \in Clients, DeleteRow(c)
    PROVE  /\ At(c, "delete", "row")
           /\ Over(c)
           /\ row' = {}
           /\ UNCHANGED <<sched, pipeline, ids, faults, overlap, unanswered>>
BY Moved, MovedWith, Ended DEF DeleteRow, At, Points, DeleteByUid

LEMMA PipelineDeleteDoes ==
    ASSUME Types, NEW c \in Clients, PipelineDelete(c)
    PROVE  /\ At(c, "pdelete", "start")
           /\ \/ ArchiveForPipeline /\ \E r \in row : To(c, "stop", r.id)
              \/ ArchiveForPipeline /\ Over(c) /\ \A r \in row : r.archived
              \/ row' = row /\ Over(c)
           /\ pipeline' = FALSE
           /\ UNCHANGED <<sched, ids, faults, overlap, unanswered>>
<1>1. \A r \in row : r.id \in 0 .. MaxIds
  BY DEF Types, Rows, Ids
<1> QED BY <1>1, MovedWith, Ended DEF PipelineDelete, Points

LEMMA StopScheduleDoes ==
    ASSUME Types, NEW c \in Clients, StopSchedule(c)
    PROVE  /\ At(c, "pdelete", "stop")
           /\ Over(c)
           /\ sched' = {s \in sched : s.id # req[c].id}
           /\ UNCHANGED <<row, pipeline, ids, faults, overlap, unanswered>>
BY Moved, MovedWith, Ended DEF StopSchedule, At, Points, Unschedule

LEMMA PipelineCreateDoes ==
    ASSUME Types, NEW c \in Clients, PipelineCreate(c)
    PROVE  /\ At(c, "pcreate", "start")
           /\ Over(c)
           /\ pipeline' = TRUE
           /\ UNCHANGED <<row, sched, ids, faults, overlap, unanswered>>
BY Moved, MovedWith, Ended DEF PipelineCreate, At, Points

LEMMA CrashDoes ==
    ASSUME Types, NEW c \in Clients, Crash(c)
    PROVE  /\ Fault
           /\ Over(c)
           /\ UNCHANGED <<row, sched, pipeline, ids, overlap, unanswered>>
BY Moved, MovedWith, Ended DEF Crash, At, Points

\* A fault leaves one fewer.
LEMMA Faulted ==
    ASSUME Types, Fault
    PROVE  faults' \in 0 .. MaxFaults /\ faults' # MaxFaults
BY SourcesAssumption DEF Types, Fault, SourcesAssumption

\* Every action keeps the types.
LEMMA TypesStep == Types /\ IdsDrawnOnce /\ [Next]_vars => Types'
<1> SUFFICES ASSUME Types, IdsDrawnOnce, [Next]_vars
             PROVE  Types'
  OBVIOUS
<1> USE DEF Types
<1>1. ASSUME NEW c \in Clients, CreateCheck(c)
      PROVE  Types'
  BY <1>1, CreateCheckDoes DEF To, Over, Only
<1>2. ASSUME NEW c \in Clients, CreateInsert(c)
      PROVE  Types'
  <2>1. ids' \in 0 .. MaxIds
    BY <1>2, CreateInsertDoes DEF Ids
  <2> QED BY <1>2, <2>1, CreateInsertDoes DEF To, Over, Only
<1>3. ASSUME NEW c \in Clients, CreateSchedule(c)
      PROVE  Types'
  <2>1. req[c].id \in Ids
    BY <1>3, CreateScheduleDoes, SourcesAssumption DEF Ids, IdsDrawnOnce, SourcesAssumption
  <2>2. [id |-> req[c].id, paused |-> FALSE, cron |-> 0] \in Schedules
    BY <2>1 DEF Schedules, Crons
  <2>3. sched' \subseteq Schedules
    BY <1>3, <2>2, CreateScheduleDoes
  <2>5. req[c].id \in 0 .. MaxIds
    BY DEF Requests
  <2>4. Unanswered(c) => /\ faults' \in 0 .. MaxFaults /\ faults' # MaxFaults
                         /\ unanswered' \subseteq 0 .. MaxIds
    BY <2>5, Faulted DEF Unanswered
  <2> QED BY <1>3, <2>3, <2>4, CreateScheduleDoes DEF To, Only
<1>4. ASSUME NEW c \in Clients, CreateUnpause(c)
      PROVE  Types'
  <2>1. row' \subseteq Rows /\ \A q, w \in row' : q = w
    BY <1>4, CreateUnpauseDoes, RowUnpaused
  <2>2. Fault => faults' \in 0 .. MaxFaults /\ faults' # MaxFaults
    BY Faulted
  <2>3. Only(c) /\ (faults' = faults \/ Fault) /\ unanswered' = unanswered /\ overlap' = overlap
    BY <1>4, CreateUnpauseDoes DEF To, Over
  <2> QED BY <1>4, <2>1, <2>2, <2>3, CreateUnpauseDoes DEF Only
<1>5. ASSUME NEW c \in Clients, UndoSchedule(c)
      PROVE  Types'
  <2>1. req[c].id \in 0 .. MaxIds
    BY DEF Requests
  <2>2. Unanswered(c) => /\ faults' \in 0 .. MaxFaults /\ faults' # MaxFaults
                         /\ unanswered' \subseteq 0 .. MaxIds
    BY <2>1, Faulted DEF Unanswered
  <2> QED BY <1>5, <2>2, UndoScheduleDoes DEF To, Only
<1>6. ASSUME NEW c \in Clients, UndoRow(c)
      PROVE  Types'
  BY <1>6, UndoRowDoes DEF To, Over, Only
<1>7. ASSUME NEW c \in Clients, ReadOwned(c)
      PROVE  Types'
  BY <1>7, ReadOwnedDoes DEF To, Over, Only
<1>8. ASSUME NEW c \in Clients, PatchSchedule(c)
      PROVE  Types'
  BY <1>8, PatchScheduleDoes, SpecUpdated DEF To, Over, Only
<1>9. ASSUME NEW c \in Clients, PatchRow(c)
      PROVE  Types'
  BY <1>9, PatchRowDoes, RowUpdated DEF To, Over, Only
<1>10. ASSUME NEW c \in Clients, SetPausedSchedule(c)
      PROVE  Types'
  <2>1. sched' \subseteq Schedules
    BY <1>10, SetPausedScheduleDoes, SchedulePaused
  <2> QED BY <1>10, <2>1, SetPausedScheduleDoes DEF To, Over, Only
<1>11. ASSUME NEW c \in Clients, SetPausedRow(c)
      PROVE  Types'
  BY <1>11, SetPausedRowDoes, RowPaused DEF To, Over, Only
<1>12. ASSUME NEW c \in Clients, TriggerRun(c)
      PROVE  Types'
  BY <1>12, TriggerRunDoes DEF To, Over, Only
<1>13. ASSUME NEW c \in Clients, DeleteSchedule(c)
      PROVE  Types'
  BY <1>13, DeleteScheduleDoes DEF To, Over, Only
<1>14. ASSUME NEW c \in Clients, DeleteRow(c)
      PROVE  Types'
  BY <1>14, DeleteRowDoes DEF To, Over, Only
<1>15. ASSUME NEW c \in Clients, PipelineDelete(c)
      PROVE  Types'
  BY <1>15, PipelineDeleteDoes, RowArchived DEF To, Over, Only
<1>16. ASSUME NEW c \in Clients, StopSchedule(c)
      PROVE  Types'
  BY <1>16, StopScheduleDoes DEF To, Over, Only
<1>17. ASSUME NEW c \in Clients, PipelineCreate(c)
      PROVE  Types'
  BY <1>17, PipelineCreateDoes DEF To, Over, Only
<1>18. ASSUME NEW c \in Clients, Crash(c)
      PROVE  Types'
  <2>1. faults' \in 0 .. MaxFaults /\ faults' # MaxFaults
    BY <1>18, CrashDoes, Faulted
  <2> QED BY <1>18, <2>1, CrashDoes DEF Over, Only
<1>19. ASSUME NEW c \in Clients, NEW op \in Ops, Arrive(c, op)
      PROVE  Types'
  <2>1. overlap' \subseteq {"existence", "value"}
    BY <1>19 DEF Arrive
  <2> QED BY <1>19, <2>1, Arrived DEF Arrive, Only
<1>20. CASE UNCHANGED vars
  BY <1>20 DEF vars, To, Over, Only
<1> QED BY <1>1, <1>2, <1>3, <1>4, <1>5, <1>6, <1>7, <1>8, <1>9, <1>10, <1>11, <1>12, <1>13, <1>14, <1>15, <1>16, <1>17, <1>18, <1>19, <1>20 DEF Next, Step

\* While no overlap is remembered, one request at a time creates or removes, or writes.
LEMMA OneStep == Types /\ OneAtATime /\ [Next]_vars => OneAtATime'
<1> SUFFICES ASSUME Types, OneAtATime, [Next]_vars
             PROVE  OneAtATime'
  OBVIOUS
<1> USE DEF OneAtATime
<1>1. ASSUME NEW c \in Clients, CreateCheck(c)
      PROVE  OneAtATime'
  BY <1>1, CreateCheckDoes DEF To, Over, Only, At, Existence, Writes
<1>2. ASSUME NEW c \in Clients, CreateInsert(c)
      PROVE  OneAtATime'
  BY <1>2, CreateInsertDoes DEF To, Over, Only, At, Existence, Writes
<1>3. ASSUME NEW c \in Clients, CreateSchedule(c)
      PROVE  OneAtATime'
  BY <1>3, CreateScheduleDoes DEF To, Over, Only, At, Existence, Writes
<1>4. ASSUME NEW c \in Clients, CreateUnpause(c)
      PROVE  OneAtATime'
  BY <1>4, CreateUnpauseDoes DEF To, Over, Only, At, Existence, Writes
<1>5. ASSUME NEW c \in Clients, UndoSchedule(c)
      PROVE  OneAtATime'
  BY <1>5, UndoScheduleDoes DEF To, Over, Only, At, Existence, Writes
<1>6. ASSUME NEW c \in Clients, UndoRow(c)
      PROVE  OneAtATime'
  BY <1>6, UndoRowDoes DEF To, Over, Only, At, Existence, Writes
<1>7. ASSUME NEW c \in Clients, ReadOwned(c)
      PROVE  OneAtATime'
  BY <1>7, ReadOwnedDoes DEF To, Over, Only, At, Existence, Writes
<1>8. ASSUME NEW c \in Clients, PatchSchedule(c)
      PROVE  OneAtATime'
  BY <1>8, PatchScheduleDoes DEF To, Over, Only, At, Existence, Writes
<1>9. ASSUME NEW c \in Clients, PatchRow(c)
      PROVE  OneAtATime'
  BY <1>9, PatchRowDoes DEF To, Over, Only, At, Existence, Writes
<1>10. ASSUME NEW c \in Clients, SetPausedSchedule(c)
      PROVE  OneAtATime'
  BY <1>10, SetPausedScheduleDoes DEF To, Over, Only, At, Existence, Writes
<1>11. ASSUME NEW c \in Clients, SetPausedRow(c)
      PROVE  OneAtATime'
  BY <1>11, SetPausedRowDoes DEF To, Over, Only, At, Existence, Writes
<1>12. ASSUME NEW c \in Clients, TriggerRun(c)
      PROVE  OneAtATime'
  BY <1>12, TriggerRunDoes DEF To, Over, Only, At, Existence, Writes
<1>13. ASSUME NEW c \in Clients, DeleteSchedule(c)
      PROVE  OneAtATime'
  BY <1>13, DeleteScheduleDoes DEF To, Over, Only, At, Existence, Writes
<1>14. ASSUME NEW c \in Clients, DeleteRow(c)
      PROVE  OneAtATime'
  BY <1>14, DeleteRowDoes DEF To, Over, Only, At, Existence, Writes
<1>15. ASSUME NEW c \in Clients, PipelineDelete(c)
      PROVE  OneAtATime'
  <2>1. Only(c) /\ req'[c].op \in {req[c].op, "none"} /\ overlap' = overlap
    BY <1>15, PipelineDeleteDoes DEF To, Over
  <2> QED BY <2>1 DEF Only, Existence, Writes
<1>16. ASSUME NEW c \in Clients, StopSchedule(c)
      PROVE  OneAtATime'
  BY <1>16, StopScheduleDoes DEF To, Over, Only, At, Existence, Writes
<1>17. ASSUME NEW c \in Clients, PipelineCreate(c)
      PROVE  OneAtATime'
  BY <1>17, PipelineCreateDoes DEF To, Over, Only, At, Existence, Writes
<1>18. ASSUME NEW c \in Clients, Crash(c)
      PROVE  OneAtATime'
  BY <1>18, CrashDoes DEF To, Over, Only, At, Existence, Writes
<1>19. ASSUME NEW c \in Clients, NEW op \in Ops, Arrive(c, op)
      PROVE  OneAtATime'
  <2>1. Only(c) /\ req'[c].op = op /\ overlap \subseteq overlap'
    BY <1>19, Arrived DEF Arrive
  <2>2. ASSUME NEW d \in Clients, d # c, req[d].op \in Existence, op \in Existence
        PROVE  "existence" \in overlap'
    BY <1>19, <2>2 DEF Arrive, Writes
  <2>3. ASSUME NEW d \in Clients, d # c, req[d].op \in Writes, op \in Writes
        PROVE  "value" \in overlap'
    BY <1>19, <2>3 DEF Arrive
  <2> QED BY <2>1, <2>2, <2>3 DEF Only
<1>20. CASE UNCHANGED vars
  BY <1>20 DEF vars, To, Over, Only, At, Existence, Writes
<1> QED BY <1>1, <1>2, <1>3, <1>4, <1>5, <1>6, <1>7, <1>8, <1>9, <1>10, <1>11, <1>12, <1>13, <1>14, <1>15, <1>16, <1>17, <1>18, <1>19, <1>20 DEF Next, Step

\* A step that neither draws an id nor schedules one leaves the ids as they are.
LEMMA IdsKept ==
    ASSUME Types, IdsDrawnOnce, NEW c \in Clients, Only(c), req'[c].pc # "schedule" \/ req'[c].op # "create",
           ids' = ids, \A t \in sched' : \E s \in sched : t.id = s.id,
           \A s, t \in sched' : s.id = t.id => s = t
    PROVE  IdsDrawnOnce'
BY DEF IdsDrawnOnce, Only, At

\* No two requests schedule the same id.
LEMMA IdsStep == Types /\ IdsDrawnOnce /\ [Next]_vars => IdsDrawnOnce'
<1> SUFFICES ASSUME Types, IdsDrawnOnce, [Next]_vars
             PROVE  IdsDrawnOnce'
  OBVIOUS
<1> USE DEF IdsDrawnOnce
<1>1. ASSUME NEW c \in Clients, CreateCheck(c)
      PROVE  IdsDrawnOnce'
  <2>1. Only(c) /\ ids' = ids /\ (req'[c].op # "create" \/ req'[c].pc # "schedule")
    BY <1>1, CreateCheckDoes DEF To, Over, At
  <2>2. /\ \A t \in sched' : \E s \in sched : t.id = s.id
        /\ \A s, t \in sched' : s.id = t.id => s = t
    BY <1>1, CreateCheckDoes
  <2> QED BY <2>1, <2>2, IdsKept
<1>2. ASSUME NEW c \in Clients, CreateInsert(c)
      PROVE  IdsDrawnOnce'
  <2>1. CASE Over(c) /\ row' = row /\ ids' = ids
    <3>1. Only(c) /\ req'[c].op # "create"
      BY <2>1 DEF Over
    <3> QED BY <1>2, <2>1, <3>1, CreateInsertDoes, IdsKept
  <2>2. CASE ids' = ids + 1 /\ To(c, "schedule", ids')
    <3>1. ids \in Nat /\ sched' = sched /\ \A s \in sched : s.id \in Nat /\ s.id <= ids
      BY <1>2, CreateInsertDoes, SourcesAssumption DEF Types, Schedules, Ids, SourcesAssumption
    <3>2. \A d \in Clients : At(d, "create", "schedule") => req[d].id \in 1 .. ids
      OBVIOUS
    <3>3. \A d \in Clients : d # c => req'[d] = req[d]
      BY <2>2 DEF To, Only
    <3>4. req'[c].id = ids + 1 /\ ids' = ids + 1
      BY <2>2 DEF To
    <3>5. \A s \in sched' : s.id <= ids'
      BY <3>1, <3>4
    <3>6. ASSUME NEW d \in Clients, At(d, "create", "schedule")'
          PROVE  /\ req'[d].id \in 1 .. ids'
                 /\ \A s \in sched' : s.id # req'[d].id
                 /\ \A e \in Clients : At(e, "create", "schedule")' /\ req'[e].id = req'[d].id => e = d
      BY <3>1, <3>2, <3>3, <3>4, <3>6 DEF At
    <3> QED BY <3>1, <3>5, <3>6
  <2> QED BY <1>2, <2>1, <2>2, CreateInsertDoes
<1>3. ASSUME NEW c \in Clients, CreateSchedule(c)
      PROVE  IdsDrawnOnce'
  <2>1. Only(c) /\ ids' = ids /\ req'[c].pc # "schedule" /\ At(c, "create", "schedule")
    BY <1>3, CreateScheduleDoes DEF To
  <2>2. CASE sched' = sched
    BY <2>1, <2>2, IdsKept
  <2>3. CASE sched' = sched \cup {[id |-> req[c].id, paused |-> FALSE, cron |-> 0]}
    <3>1. req[c].id <= ids /\ \A s \in sched : s.id # req[c].id
      BY <2>1
    <3>2. \A t \in sched' : t \in sched \/ t.id = req[c].id
      BY <2>3
    <3>3. \A s \in sched' : s.id <= ids'
      BY <2>1, <3>1, <3>2
    <3>5. \A s, t \in sched' : s.id = t.id => s = t
      <4> DEFINE new == [id |-> req[c].id, paused |-> FALSE, cron |-> 0]
      <4>1. new.id = req[c].id
        OBVIOUS
      <4> HIDE DEF new
      <4>2. sched' = sched \cup {new}
        BY <2>3 DEF new
      <4> QED BY <3>1, <4>1, <4>2
    <3>4. ASSUME NEW d \in Clients, At(d, "create", "schedule")'
          PROVE  /\ req'[d].id \in 1 .. ids'
                 /\ \A s \in sched' : s.id # req'[d].id
                 /\ \A e \in Clients : At(e, "create", "schedule")' /\ req'[e].id = req'[d].id => e = d
      <4>1. d # c /\ req'[d] = req[d] /\ At(d, "create", "schedule")
        BY <2>1, <3>4 DEF Only, At
      <4>2. req[d].id # req[c].id
        BY <2>1, <4>1
      <4> QED BY <2>1, <3>2, <4>1, <4>2 DEF Only, At
    <3> QED BY <3>3, <3>4, <3>5
  <2> QED BY <1>3, <2>2, <2>3, CreateScheduleDoes
<1>4. ASSUME NEW c \in Clients, CreateUnpause(c)
      PROVE  IdsDrawnOnce'
  <2>1. Only(c) /\ ids' = ids /\ (req'[c].op # "create" \/ req'[c].pc # "schedule")
    BY <1>4, CreateUnpauseDoes DEF To, Over, At
  <2>2. /\ \A t \in sched' : \E s \in sched : t.id = s.id
        /\ \A s, t \in sched' : s.id = t.id => s = t
    BY <1>4, CreateUnpauseDoes
  <2> QED BY <2>1, <2>2, IdsKept
<1>5. ASSUME NEW c \in Clients, UndoSchedule(c)
      PROVE  IdsDrawnOnce'
  <2>1. Only(c) /\ ids' = ids /\ (req'[c].op # "create" \/ req'[c].pc # "schedule")
    BY <1>5, UndoScheduleDoes DEF To, Over, At
  <2>2. /\ \A t \in sched' : \E s \in sched : t.id = s.id
        /\ \A s, t \in sched' : s.id = t.id => s = t
    BY <1>5, UndoScheduleDoes
  <2> QED BY <2>1, <2>2, IdsKept
<1>6. ASSUME NEW c \in Clients, UndoRow(c)
      PROVE  IdsDrawnOnce'
  <2>1. Only(c) /\ ids' = ids /\ (req'[c].op # "create" \/ req'[c].pc # "schedule")
    BY <1>6, UndoRowDoes DEF To, Over, At
  <2>2. /\ \A t \in sched' : \E s \in sched : t.id = s.id
        /\ \A s, t \in sched' : s.id = t.id => s = t
    BY <1>6, UndoRowDoes
  <2> QED BY <2>1, <2>2, IdsKept
<1>7. ASSUME NEW c \in Clients, ReadOwned(c)
      PROVE  IdsDrawnOnce'
  <2>1. Only(c) /\ ids' = ids /\ (req'[c].op # "create" \/ req'[c].pc # "schedule")
    BY <1>7, ReadOwnedDoes DEF To, Over
  <2>2. /\ \A t \in sched' : \E s \in sched : t.id = s.id
        /\ \A s, t \in sched' : s.id = t.id => s = t
    BY <1>7, ReadOwnedDoes
  <2> QED BY <2>1, <2>2, IdsKept
<1>8. ASSUME NEW c \in Clients, PatchSchedule(c)
      PROVE  IdsDrawnOnce'
  <2>1. Only(c) /\ ids' = ids /\ (req'[c].op # "create" \/ req'[c].pc # "schedule")
    BY <1>8, PatchScheduleDoes DEF To, Over, At
  <2>2. /\ \A t \in sched' : \E s \in sched : t.id = s.id
        /\ \A s, t \in sched' : s.id = t.id => s = t
    BY <1>8, PatchScheduleDoes, SpecUpdated
  <2> QED BY <2>1, <2>2, IdsKept
<1>9. ASSUME NEW c \in Clients, PatchRow(c)
      PROVE  IdsDrawnOnce'
  <2>1. Only(c) /\ ids' = ids /\ (req'[c].op # "create" \/ req'[c].pc # "schedule")
    BY <1>9, PatchRowDoes DEF To, Over, At
  <2>2. /\ \A t \in sched' : \E s \in sched : t.id = s.id
        /\ \A s, t \in sched' : s.id = t.id => s = t
    BY <1>9, PatchRowDoes
  <2> QED BY <2>1, <2>2, IdsKept
<1>10. ASSUME NEW c \in Clients, SetPausedSchedule(c)
      PROVE  IdsDrawnOnce'
  <2>1. Only(c) /\ ids' = ids /\ (req'[c].op # "create" \/ req'[c].pc # "schedule")
    BY <1>10, SetPausedScheduleDoes DEF To, Over, At
  <2>2. /\ \A t \in sched' : \E s \in sched : t.id = s.id
        /\ \A s, t \in sched' : s.id = t.id => s = t
    <3>1. PICK b \in BOOLEAN : PauseSchedule(req[c].id, b)
      BY <1>10, SetPausedScheduleDoes
    <3> QED BY <3>1, SchedulePaused
  <2> QED BY <2>1, <2>2, IdsKept
<1>11. ASSUME NEW c \in Clients, SetPausedRow(c)
      PROVE  IdsDrawnOnce'
  <2>1. Only(c) /\ ids' = ids /\ (req'[c].op # "create" \/ req'[c].pc # "schedule")
    BY <1>11, SetPausedRowDoes DEF To, Over, At
  <2>2. /\ \A t \in sched' : \E s \in sched : t.id = s.id
        /\ \A s, t \in sched' : s.id = t.id => s = t
    BY <1>11, SetPausedRowDoes
  <2> QED BY <2>1, <2>2, IdsKept
<1>12. ASSUME NEW c \in Clients, TriggerRun(c)
      PROVE  IdsDrawnOnce'
  <2>1. Only(c) /\ ids' = ids /\ (req'[c].op # "create" \/ req'[c].pc # "schedule")
    BY <1>12, TriggerRunDoes DEF To, Over, At
  <2>2. /\ \A t \in sched' : \E s \in sched : t.id = s.id
        /\ \A s, t \in sched' : s.id = t.id => s = t
    BY <1>12, TriggerRunDoes
  <2> QED BY <2>1, <2>2, IdsKept
<1>13. ASSUME NEW c \in Clients, DeleteSchedule(c)
      PROVE  IdsDrawnOnce'
  <2>1. Only(c) /\ ids' = ids /\ (req'[c].op # "create" \/ req'[c].pc # "schedule")
    BY <1>13, DeleteScheduleDoes DEF To, Over, At
  <2>2. /\ \A t \in sched' : \E s \in sched : t.id = s.id
        /\ \A s, t \in sched' : s.id = t.id => s = t
    BY <1>13, DeleteScheduleDoes
  <2> QED BY <2>1, <2>2, IdsKept
<1>14. ASSUME NEW c \in Clients, DeleteRow(c)
      PROVE  IdsDrawnOnce'
  <2>1. Only(c) /\ ids' = ids /\ (req'[c].op # "create" \/ req'[c].pc # "schedule")
    BY <1>14, DeleteRowDoes DEF To, Over, At
  <2>2. /\ \A t \in sched' : \E s \in sched : t.id = s.id
        /\ \A s, t \in sched' : s.id = t.id => s = t
    BY <1>14, DeleteRowDoes
  <2> QED BY <2>1, <2>2, IdsKept
<1>15. ASSUME NEW c \in Clients, PipelineDelete(c)
      PROVE  IdsDrawnOnce'
  <2>1. Only(c) /\ ids' = ids /\ (req'[c].op # "create" \/ req'[c].pc # "schedule")
    BY <1>15, PipelineDeleteDoes DEF To, Over, At
  <2>2. /\ \A t \in sched' : \E s \in sched : t.id = s.id
        /\ \A s, t \in sched' : s.id = t.id => s = t
    BY <1>15, PipelineDeleteDoes
  <2> QED BY <2>1, <2>2, IdsKept
<1>16. ASSUME NEW c \in Clients, StopSchedule(c)
      PROVE  IdsDrawnOnce'
  <2>1. Only(c) /\ ids' = ids /\ (req'[c].op # "create" \/ req'[c].pc # "schedule")
    BY <1>16, StopScheduleDoes DEF To, Over, At
  <2>2. /\ \A t \in sched' : \E s \in sched : t.id = s.id
        /\ \A s, t \in sched' : s.id = t.id => s = t
    BY <1>16, StopScheduleDoes
  <2> QED BY <2>1, <2>2, IdsKept
<1>17. ASSUME NEW c \in Clients, PipelineCreate(c)
      PROVE  IdsDrawnOnce'
  <2>1. Only(c) /\ ids' = ids /\ (req'[c].op # "create" \/ req'[c].pc # "schedule")
    BY <1>17, PipelineCreateDoes DEF To, Over, At
  <2>2. /\ \A t \in sched' : \E s \in sched : t.id = s.id
        /\ \A s, t \in sched' : s.id = t.id => s = t
    BY <1>17, PipelineCreateDoes
  <2> QED BY <2>1, <2>2, IdsKept
<1>18. ASSUME NEW c \in Clients, Crash(c)
      PROVE  IdsDrawnOnce'
  <2>1. Only(c) /\ ids' = ids /\ (req'[c].op # "create" \/ req'[c].pc # "schedule")
    BY <1>18, CrashDoes DEF To, Over, At
  <2>2. /\ \A t \in sched' : \E s \in sched : t.id = s.id
        /\ \A s, t \in sched' : s.id = t.id => s = t
    BY <1>18, CrashDoes
  <2> QED BY <2>1, <2>2, IdsKept
<1>19. ASSUME NEW c \in Clients, NEW op \in Ops, Arrive(c, op)
      PROVE  IdsDrawnOnce'
  <2>1. Only(c) /\ ids' = ids /\ sched' = sched /\ req'[c].pc # "schedule"
    BY <1>19, Arrived DEF Arrive
  <2> QED BY <2>1, IdsKept
<1>20. CASE UNCHANGED vars
  BY <1>20 DEF vars, To, Over, Only, At
<1> QED BY <1>1, <1>2, <1>3, <1>4, <1>5, <1>6, <1>7, <1>8, <1>9, <1>10, <1>11, <1>12, <1>13, <1>14, <1>15, <1>16, <1>17, <1>18, <1>19, <1>20 DEF Next, Step

\* A step that keeps the ids of row and schedules, and whether the row is archived, keeps
\* what holds of every other request.
LEMMA ExistingKept ==
    ASSUME Types, Existing, NEW c \in Clients, Only(c), overlap \subseteq overlap',
           row = {} <=> row' = {},
           \A q \in row' : \E r \in row : q.id = r.id /\ q.archived = r.archived,
           \A t \in sched' : \E s \in sched : t.id = s.id,
           \A s \in sched : \E t \in sched' : t.id = s.id,
           unanswered' = unanswered,
           "existence" \notin overlap' => InOrder(c)'
    PROVE  Existing'
<1> SUFFICES ASSUME "existence" \notin overlap' PROVE Accounted' /\ \A d \in Clients : InOrder(d)'
  BY DEF Existing
<1>1. Accounted /\ \A d \in Clients : InOrder(d)
  BY DEF Existing
<1>2. \A r \in row : \E q \in row' : q.id = r.id
  BY DEF Types
<1>3. Accounted'
  BY <1>1, <1>2 DEF Accounted
<1>4. Known = {} => Known' = {}
  BY DEF Known
<1>5. ASSUME NEW d \in Clients, d # c
      PROVE  InOrder(d)'
  <2>1. req'[d] = req[d] /\ InOrder(d)
    BY <1>1, <1>5 DEF Only
  <2>2. OfRow(d) => OfRow(d)'
    BY <2>1 DEF OfRow
  <2>3. Scheduled(req[d].id) => Scheduled(req[d].id)'
    BY <2>1 DEF Scheduled
  <2>4. (\A r \in row : ~r.archived) => \A r \in row' : ~r.archived
    OBVIOUS
  <2>5. (\A r \in row : r.archived) => \A r \in row' : r.archived
    OBVIOUS
  <2> QED BY <1>4, <2>1, <2>2, <2>3, <2>4, <2>5 DEF InOrder, At
<1> QED BY <1>3, <1>5

\* A step of the one request that creates or removes the source concerns no other.
LEMMA ExistingMoved ==
    ASSUME Types, OneAtATime, Existing, NEW c \in Clients, Only(c), overlap' = overlap,
           req[c].op \in Existence,
           "existence" \notin overlap /\ Accounted /\ InOrder(c) => Accounted' /\ InOrder(c)'
    PROVE  Existing'
<1> SUFFICES ASSUME "existence" \notin overlap PROVE Accounted' /\ \A d \in Clients : InOrder(d)'
  BY DEF Existing
<1>1. Accounted' /\ InOrder(c)'
  BY DEF Existing
<1>2. ASSUME NEW d \in Clients, d # c
      PROVE  InOrder(d)'
  <2>1. req'[d].op \notin Existence
    BY <1>2 DEF OneAtATime, Only
  <2> QED BY <2>1 DEF InOrder, At, Existence
<1> QED BY <1>1, <1>2

\* Row and schedule stay in order while requests that create or remove do not overlap.
LEMMA ExistingStep == Types /\ OneAtATime /\ Existing /\ [Next]_vars => Existing'
<1> SUFFICES ASSUME Types, OneAtATime, Existing, [Next]_vars
             PROVE  Existing'
  OBVIOUS
<1>1. ASSUME NEW c \in Clients, CreateCheck(c)
      PROVE  Existing'
  <2>1. Only(c) /\ row' = row /\ sched' = sched /\ overlap' = overlap /\ unanswered' = unanswered
    BY <1>1, CreateCheckDoes DEF To, Over
  <2>2. InOrder(c)'
    BY <1>1, CreateCheckDoes DEF To, Over, InOrder, At
  <2> QED BY <2>1, <2>2, ExistingKept
<1>2. ASSUME NEW c \in Clients, CreateInsert(c)
      PROVE  Existing'
  <2>1. Only(c) /\ overlap' = overlap /\ req[c].op \in Existence
    BY <1>2, CreateInsertDoes DEF To, Over, At, Existence
  <2>2. ASSUME "existence" \notin overlap, Accounted, InOrder(c)
        PROVE  Accounted' /\ InOrder(c)'
    <3>1. CASE Over(c) /\ row' = row
      BY <1>2, <2>2, <3>1, CreateInsertDoes DEF Over, Accounted, InOrder, At
    <3>2. CASE row = {} /\ row' = {NewRow(ids')} /\ To(c, "schedule", ids')
      <4>1. Known = {} /\ Known' = {} /\ sched' = sched /\ unanswered' = unanswered
        BY <1>2, <2>2, <3>2, CreateInsertDoes DEF Accounted, Known
      <4>2. row' # {} /\ OfRow(c)' /\ \A r \in row' : ~r.archived
        BY <3>2 DEF NewRow, OfRow, To
      <4> QED BY <2>2, <3>2, <4>1, <4>2 DEF Accounted, InOrder, At, To
    <3> QED BY <1>2, <3>1, <3>2, CreateInsertDoes
  <2> QED BY <2>1, <2>2, ExistingMoved
<1>3. ASSUME NEW c \in Clients, CreateSchedule(c)
      PROVE  Existing'
  <2>1. Only(c) /\ overlap' = overlap /\ req[c].op \in Existence
    BY <1>3, CreateScheduleDoes DEF To, Over, At, Existence
  <2>2. ASSUME "existence" \notin overlap, Accounted, InOrder(c)
        PROVE  Accounted' /\ InOrder(c)'
    <3>1. Known = {} /\ row # {} /\ OfRow(c) /\ row' = row /\ \A r \in row : ~r.archived
      BY <1>3, <2>2, CreateScheduleDoes DEF InOrder
    <3>2. CASE sched' = sched /\ To(c, "undo_row", req[c].id) /\ unanswered' = unanswered
      BY <2>2, <3>1, <3>2 DEF Accounted, Known, InOrder, To, At
    <3>3. CASE /\ sched' = sched \cup {[id |-> req[c].id, paused |-> FALSE, cron |-> 0]}
               /\ To(c, "unpause", req[c].id) /\ unanswered' = unanswered
      <4>2. req'[c].id = req[c].id /\ req'[c].pc = "unpause"
        BY <3>3 DEF To
      <4>5. \A s \in sched : s.id \in unanswered
        BY <3>1 DEF Known
      <4>6. [id |-> req[c].id, paused |-> FALSE, cron |-> 0].id = req[c].id
        OBVIOUS
      <4>1. Scheduled(req[c].id)' /\ \A s \in sched' : s.id = req[c].id \/ s.id \in unanswered'
        BY <3>3, <4>2, <4>5, <4>6 DEF Scheduled
      <4>3. Accounted'
        BY <3>1, <4>1 DEF Accounted, OfRow
      <4> QED BY <3>1, <4>1, <4>2, <4>3 DEF InOrder, At, OfRow, Scheduled
    <3>4. CASE /\ sched' = sched \cup {[id |-> req[c].id, paused |-> FALSE, cron |-> 0]}
               /\ To(c, "undo_row", req[c].id) /\ Unanswered(c)
      <4>1. \A s \in sched' : s.id \in unanswered'
        BY <3>1, <3>4 DEF Known, Unanswered
      <4> QED BY <3>4, <4>1 DEF Accounted, Known, InOrder, To, At
    <3> QED BY <1>3, <3>2, <3>3, <3>4, CreateScheduleDoes
  <2> QED BY <2>1, <2>2, ExistingMoved
<1>4. ASSUME NEW c \in Clients, CreateUnpause(c)
      PROVE  Existing'
  <2>1. /\ At(c, "create", "unpause") /\ overlap' = overlap /\ sched' = sched /\ Only(c)
        /\ unanswered' = unanswered /\ (Over(c) \/ To(c, "undo_schedule", req[c].id))
    BY <1>4, CreateUnpauseDoes DEF To, Over
  <2>2. /\ row = {} <=> row' = {}
        /\ \A q \in row' : \E r \in row : q.id = r.id /\ q.archived = r.archived
    BY <1>4, CreateUnpauseDoes, RowUnpaused
  <2>3. "existence" \notin overlap' => InOrder(c)'
    <3>1. CASE Over(c)
      BY <3>1 DEF InOrder, Over, At
    <3>2. CASE To(c, "undo_schedule", req[c].id)
      <4> SUFFICES ASSUME "existence" \notin overlap PROVE InOrder(c)'
        BY <2>1
      <4>1. OfRow(c)
        BY <2>1 DEF Existing, InOrder
      <4>2. OfRow(c)'
        BY <2>2, <3>2, <4>1 DEF OfRow, To
      <4> QED BY <3>2, <4>2 DEF InOrder, To, At
    <3> QED BY <2>1, <3>1, <3>2
  <2> QED BY <2>1, <2>2, <2>3, ExistingKept
<1>5. ASSUME NEW c \in Clients, UndoSchedule(c)
      PROVE  Existing'
  <2>1. Only(c) /\ overlap' = overlap /\ req[c].op \in Existence
    BY <1>5, UndoScheduleDoes DEF To, Over, At, Existence
  <2>2. ASSUME "existence" \notin overlap, Accounted, InOrder(c)
        PROVE  Accounted' /\ InOrder(c)'
    <3>1. \A s \in sched : s.id = req[c].id \/ s.id \in unanswered
      BY <1>5, <2>2, UndoScheduleDoes DEF InOrder, Accounted, OfRow
    <3>2. \A s \in sched' : s.id \in unanswered'
      BY <1>5, <3>1, UndoScheduleDoes DEF Unanswered
    <3> QED BY <1>5, <3>2, UndoScheduleDoes DEF Accounted, Known, InOrder, To, At
  <2> QED BY <2>1, <2>2, ExistingMoved
<1>6. ASSUME NEW c \in Clients, UndoRow(c)
      PROVE  Existing'
  <2>1. Only(c) /\ overlap' = overlap /\ req[c].op \in Existence
    BY <1>6, UndoRowDoes DEF To, Over, At, Existence
  <2>2. ASSUME "existence" \notin overlap, Accounted, InOrder(c)
        PROVE  Accounted' /\ InOrder(c)'
    <3>1. \A s \in sched' : s.id \in unanswered'
      BY <1>6, <2>2, UndoRowDoes DEF InOrder, Known
    <3> QED BY <1>6, <3>1, UndoRowDoes DEF Accounted, InOrder, Over, At
  <2> QED BY <2>1, <2>2, ExistingMoved
<1>7. ASSUME NEW c \in Clients, ReadOwned(c)
      PROVE  Existing'
  <2>1. Only(c) /\ row' = row /\ sched' = sched /\ overlap' = overlap /\ unanswered' = unanswered
    BY <1>7, ReadOwnedDoes DEF To, Over
  <2>2. InOrder(c)'
    <3>1. CASE Over(c)
      BY <3>1 DEF Over, InOrder, At
    <3>2. ASSUME NEW r \in row, To(c, "schedule", r.id)
          PROVE  InOrder(c)'
      <4>1. req'[c].id = r.id /\ req'[c].op # "create" /\ req'[c].pc = "schedule" /\ row' = row
        BY <1>7, <3>2, ReadOwnedDoes DEF To
      <4>2. OfRow(c)'
        BY <4>1 DEF OfRow, Types
      <4> QED BY <4>1, <4>2 DEF InOrder, At
    <3> QED BY <1>7, <3>1, <3>2, ReadOwnedDoes
  <2> QED BY <2>1, <2>2, ExistingKept
<1>8. ASSUME NEW c \in Clients, PatchSchedule(c)
      PROVE  Existing'
  <2>1. /\ overlap' = overlap /\ row' = row /\ Only(c) /\ InOrder(c)'
        /\ unanswered' = unanswered
    BY <1>8, PatchScheduleDoes DEF To, Over, InOrder, At
  <2>2. /\ \A t \in sched' : \E s \in sched : t.id = s.id
        /\ \A s \in sched : \E t \in sched' : t.id = s.id
    BY <1>8, PatchScheduleDoes, SpecUpdated
  <2> QED BY <2>1, <2>2, ExistingKept
<1>9. ASSUME NEW c \in Clients, PatchRow(c)
      PROVE  Existing'
  <2>1. /\ overlap' = overlap /\ sched' = sched /\ Only(c) /\ InOrder(c)'
        /\ unanswered' = unanswered
    BY <1>9, PatchRowDoes DEF Over, InOrder, At
  <2>2. /\ row = {} <=> row' = {}
        /\ \A q \in row' : \E r \in row : q.id = r.id /\ q.archived = r.archived
    BY <1>9, PatchRowDoes, RowUpdated
  <2> QED BY <2>1, <2>2, ExistingKept
<1>10. ASSUME NEW c \in Clients, SetPausedSchedule(c)
      PROVE  Existing'
  <2>1. /\ overlap' = overlap /\ row' = row /\ Only(c) /\ InOrder(c)'
        /\ unanswered' = unanswered
    BY <1>10, SetPausedScheduleDoes DEF To, Over, InOrder, At
  <2>2. /\ \A t \in sched' : \E s \in sched : t.id = s.id
        /\ \A s \in sched : \E t \in sched' : t.id = s.id
    <3>1. PICK b \in BOOLEAN : PauseSchedule(req[c].id, b)
      BY <1>10, SetPausedScheduleDoes
    <3> QED BY <3>1, SchedulePaused
  <2> QED BY <2>1, <2>2, ExistingKept
<1>11. ASSUME NEW c \in Clients, SetPausedRow(c)
      PROVE  Existing'
  <2>1. /\ overlap' = overlap /\ sched' = sched /\ Only(c) /\ InOrder(c)'
        /\ unanswered' = unanswered
    BY <1>11, SetPausedRowDoes DEF Over, InOrder, At
  <2>2. /\ row = {} <=> row' = {}
        /\ \A q \in row' : \E r \in row : q.id = r.id /\ q.archived = r.archived
    <3>1. PICK b \in BOOLEAN : SetPausedById(req[c].id, b)
      BY <1>11, SetPausedRowDoes
    <3> QED BY <3>1, RowPaused
  <2> QED BY <2>1, <2>2, ExistingKept
<1>12. ASSUME NEW c \in Clients, TriggerRun(c)
      PROVE  Existing'
  <2>1. Only(c) /\ row' = row /\ sched' = sched /\ overlap' = overlap /\ unanswered' = unanswered
    BY <1>12, TriggerRunDoes DEF To, Over
  <2>2. InOrder(c)'
    BY <1>12, TriggerRunDoes DEF To, Over, InOrder, At
  <2> QED BY <2>1, <2>2, ExistingKept
<1>13. ASSUME NEW c \in Clients, DeleteSchedule(c)
      PROVE  Existing'
  <2>1. Only(c) /\ overlap' = overlap /\ req[c].op \in Existence
    BY <1>13, DeleteScheduleDoes DEF To, Over, At, Existence
  <2>2. ASSUME "existence" \notin overlap, Accounted, InOrder(c)
        PROVE  Accounted' /\ InOrder(c)'
    <3>1. \A s \in sched : s.id = req[c].id \/ s.id \in unanswered
      BY <1>13, <2>2, DeleteScheduleDoes DEF InOrder, Accounted, OfRow
    <3>2. \A s \in sched' : s.id \in unanswered'
      BY <1>13, <3>1, DeleteScheduleDoes
    <3> QED BY <1>13, <3>2, DeleteScheduleDoes DEF Accounted, Known, InOrder, To, At
  <2> QED BY <2>1, <2>2, ExistingMoved
<1>14. ASSUME NEW c \in Clients, DeleteRow(c)
      PROVE  Existing'
  <2>1. Only(c) /\ overlap' = overlap /\ req[c].op \in Existence
    BY <1>14, DeleteRowDoes DEF To, Over, At, Existence
  <2>2. ASSUME "existence" \notin overlap, Accounted, InOrder(c)
        PROVE  Accounted' /\ InOrder(c)'
    <3>1. \A s \in sched' : s.id \in unanswered'
      BY <1>14, <2>2, DeleteRowDoes DEF InOrder, Known
    <3> QED BY <1>14, <3>1, DeleteRowDoes DEF Accounted, InOrder, Over, At
  <2> QED BY <2>1, <2>2, ExistingMoved
<1>15. ASSUME NEW c \in Clients, PipelineDelete(c)
      PROVE  Existing'
  <2>1. Only(c) /\ overlap' = overlap /\ req[c].op \in Existence
    BY <1>15, PipelineDeleteDoes DEF To, Over, At, Existence
  <2>2. ASSUME "existence" \notin overlap, Accounted, InOrder(c)
        PROVE  Accounted' /\ InOrder(c)'
    <3>1. CASE row' = row /\ Over(c)
      BY <1>15, <2>2, <3>1, PipelineDeleteDoes DEF Accounted, InOrder, Over, At
    <3>2. CASE ArchiveForPipeline
      <4>1. /\ row = {} <=> row' = {}
            /\ \A q \in row' : q.archived /\ \E r \in row : q.id = r.id
        BY <3>2, RowArchived
      <4>2. \A r \in row : \E q \in row' : q.id = r.id
        BY <4>1 DEF Types
      <4>3. Accounted'
        BY <1>15, <2>2, <4>2, PipelineDeleteDoes DEF Accounted
      <4>4. CASE Over(c)
        BY <4>3, <4>4 DEF Over, InOrder, At
      <4>5. ASSUME NEW r \in row, To(c, "stop", r.id)
            PROVE  InOrder(c)'
        <5>1. OfRow(c)'
          BY <4>1, <4>5 DEF Types, OfRow, To
        <5> QED BY <4>1, <4>5, <5>1 DEF InOrder, At, To
      <4> QED BY <1>15, <4>3, <4>4, <4>5, PipelineDeleteDoes
    <3> QED BY <1>15, <3>1, <3>2, PipelineDeleteDoes
  <2> QED BY <2>1, <2>2, ExistingMoved
<1>16. ASSUME NEW c \in Clients, StopSchedule(c)
      PROVE  Existing'
  <2>1. Only(c) /\ overlap' = overlap /\ req[c].op \in Existence
    BY <1>16, StopScheduleDoes DEF To, Over, At, Existence
  <2>2. ASSUME "existence" \notin overlap, Accounted, InOrder(c)
        PROVE  Accounted' /\ InOrder(c)'
    BY <1>16, <2>2, StopScheduleDoes DEF Accounted, InOrder, Over, At
  <2> QED BY <2>1, <2>2, ExistingMoved
<1>17. ASSUME NEW c \in Clients, PipelineCreate(c)
      PROVE  Existing'
  <2>1. Only(c) /\ row' = row /\ sched' = sched /\ overlap' = overlap /\ unanswered' = unanswered
    BY <1>17, PipelineCreateDoes DEF To, Over
  <2>2. InOrder(c)'
    BY <1>17, PipelineCreateDoes DEF To, Over, InOrder, At
  <2> QED BY <2>1, <2>2, ExistingKept
<1>18. ASSUME NEW c \in Clients, Crash(c)
      PROVE  Existing'
  <2>1. Only(c) /\ row' = row /\ sched' = sched /\ overlap' = overlap /\ unanswered' = unanswered
    BY <1>18, CrashDoes DEF To, Over
  <2>2. InOrder(c)'
    BY <1>18, CrashDoes DEF To, Over, InOrder, At
  <2> QED BY <2>1, <2>2, ExistingKept
<1>19. ASSUME NEW c \in Clients, NEW op \in Ops, Arrive(c, op)
      PROVE  Existing'
  <2>1. /\ Only(c) /\ row' = row /\ sched' = sched /\ overlap \subseteq overlap' /\ req'[c].pc = "start"
        /\ unanswered' = unanswered
    BY <1>19, Arrived DEF Arrive
  <2>2. InOrder(c)'
    BY <2>1 DEF InOrder, At
  <2> QED BY <2>1, <2>2, ExistingKept
<1>20. CASE UNCHANGED vars
  BY <1>20 DEF vars, Existing, Accounted, Known, InOrder, At, OfRow, Scheduled
<1> QED BY <1>1, <1>2, <1>3, <1>4, <1>5, <1>6, <1>7, <1>8, <1>9, <1>10, <1>11, <1>12, <1>13, <1>14, <1>15, <1>16, <1>17, <1>18, <1>19, <1>20 DEF Next, Step

\* A step that keeps the ids of row and schedules, and whether the row is archived, keeps them
\* together.
LEMMA UncutKept ==
    ASSUME Types, Uncut, NEW c \in Clients, Only(c), overlap \subseteq overlap', faults' = faults,
           \A q \in row' : \E r \in row : q.id = r.id /\ q.archived = r.archived,
           \A t \in sched' : \E s \in sched : t.id = s.id,
           \A s \in sched : \E t \in sched' : t.id = s.id,
           ~Halfway(c)
    PROVE  Uncut'
<1> SUFFICES ASSUME "existence" \notin overlap', faults' = MaxFaults
             PROVE  Together' \/ \E d \in Clients : Halfway(d)'
  BY DEF Uncut
<1>1. CASE Together
  <2>1. Together'
    BY <1>1 DEF Together, Scheduled
  <2> QED BY <2>1
<1>2. ASSUME NEW d \in Clients, Halfway(d)
      PROVE  \E e \in Clients : Halfway(e)'
  <2>1. req'[d] = req[d]
    BY <1>2 DEF Only
  <2>2. Halfway(d)'
    BY <1>2, <2>1 DEF Halfway, At
  <2> QED BY <2>2
<1> QED BY <1>1, <1>2 DEF Uncut

\* Without a crash, row and schedule are together except halfway through a request.
LEMMA UncutStep == Types /\ Existing /\ Uncut /\ [Next]_vars => Uncut'
<1> SUFFICES ASSUME Types, Existing, Uncut, [Next]_vars
             PROVE  Uncut'
  OBVIOUS
<1>1. ASSUME NEW c \in Clients, CreateCheck(c)
      PROVE  Uncut'
  <2>1. Only(c) /\ row' = row /\ sched' = sched /\ overlap' = overlap /\ faults' = faults
    BY <1>1, CreateCheckDoes DEF To, Over
  <2>2. ~Halfway(c)
    BY <1>1, CreateCheckDoes DEF Halfway, At
  <2> QED BY <2>1, <2>2, UncutKept
<1>2. ASSUME NEW c \in Clients, CreateInsert(c)
      PROVE  Uncut'
  <2>1. CASE Over(c) /\ row' = row
    <3>1. ~Halfway(c)
      BY <1>2, CreateInsertDoes DEF Halfway, At
    <3> QED BY <1>2, <2>1, <3>1, CreateInsertDoes, UncutKept DEF Over
  <2>2. CASE To(c, "schedule", ids')
    <3>1. Halfway(c)'
      BY <1>2, <2>2, CreateInsertDoes DEF To, Halfway, At
    <3> QED BY <3>1 DEF Uncut
  <2> QED BY <1>2, <2>1, <2>2, CreateInsertDoes
<1>3. ASSUME NEW c \in Clients, CreateSchedule(c)
      PROVE  Uncut'
  <2>1. Halfway(c)'
    BY <1>3, CreateScheduleDoes DEF To, Halfway, At
  <2> QED BY <2>1 DEF Uncut
<1>4. ASSUME NEW c \in Clients, CreateUnpause(c)
      PROVE  Uncut'
  <2> SUFFICES ASSUME "existence" \notin overlap', faults' = MaxFaults PROVE Together'
    BY DEF Uncut
  <2>5. ~Fault
    BY Faulted
  <2>1. Scheduled(req[c].id) /\ OfRow(c) /\ \A r \in row : ~r.archived
    BY <1>4, CreateUnpauseDoes DEF Existing, InOrder
  <2>2. \A q \in row' : \E r \in row : q.id = r.id /\ q.archived = r.archived
    BY <1>4, <2>5, CreateUnpauseDoes, RowUnpaused
  <2>3. \A q \in row' : q.id = req[c].id /\ ~q.archived
    BY <2>1, <2>2 DEF OfRow
  <2>4. sched' = sched
    BY <1>4, CreateUnpauseDoes
  <2> QED BY <2>1, <2>3, <2>4 DEF Together, Scheduled
<1>5. ASSUME NEW c \in Clients, UndoSchedule(c)
      PROVE  Uncut'
  <2>1. Halfway(c)'
    BY <1>5, UndoScheduleDoes DEF To, Halfway, At
  <2> QED BY <2>1 DEF Uncut
<1>6. ASSUME NEW c \in Clients, UndoRow(c)
      PROVE  Uncut'
  <2>1. Together'
    BY <1>6, UndoRowDoes DEF Together
  <2> QED BY <2>1 DEF Uncut
<1>7. ASSUME NEW c \in Clients, ReadOwned(c)
      PROVE  Uncut'
  <2>1. Only(c) /\ row' = row /\ sched' = sched /\ overlap' = overlap /\ faults' = faults
    BY <1>7, ReadOwnedDoes DEF To, Over
  <2>2. ~Halfway(c)
    BY <1>7, ReadOwnedDoes DEF Halfway, At
  <2> QED BY <2>1, <2>2, UncutKept
<1>8. ASSUME NEW c \in Clients, PatchSchedule(c)
      PROVE  Uncut'
  <2>1. overlap' = overlap /\ faults' = faults /\ row' = row /\ Only(c) /\ ~Halfway(c)
    BY <1>8, PatchScheduleDoes DEF To, Over, Halfway, At
  <2>2. /\ \A t \in sched' : \E s \in sched : t.id = s.id
        /\ \A s \in sched : \E t \in sched' : t.id = s.id
    BY <1>8, PatchScheduleDoes, SpecUpdated
  <2> QED BY <2>1, <2>2, UncutKept
<1>9. ASSUME NEW c \in Clients, PatchRow(c)
      PROVE  Uncut'
  <2>1. overlap' = overlap /\ faults' = faults /\ sched' = sched /\ Only(c) /\ ~Halfway(c)
    BY <1>9, PatchRowDoes DEF To, Over, Halfway, At
  <2>2. /\ row = {} <=> row' = {}
        /\ \A q \in row' : \E r \in row : q.id = r.id /\ q.archived = r.archived
    BY <1>9, PatchRowDoes, RowUpdated
  <2> QED BY <2>1, <2>2, UncutKept
<1>10. ASSUME NEW c \in Clients, SetPausedSchedule(c)
      PROVE  Uncut'
  <2>1. overlap' = overlap /\ faults' = faults /\ row' = row /\ Only(c) /\ ~Halfway(c)
    BY <1>10, SetPausedScheduleDoes DEF To, Over, Halfway, At
  <2>2. /\ \A t \in sched' : \E s \in sched : t.id = s.id
        /\ \A s \in sched : \E t \in sched' : t.id = s.id
    <3>1. PICK b \in BOOLEAN : PauseSchedule(req[c].id, b)
      BY <1>10, SetPausedScheduleDoes
    <3> QED BY <3>1, SchedulePaused
  <2> QED BY <2>1, <2>2, UncutKept
<1>11. ASSUME NEW c \in Clients, SetPausedRow(c)
      PROVE  Uncut'
  <2>1. overlap' = overlap /\ faults' = faults /\ sched' = sched /\ Only(c) /\ ~Halfway(c)
    BY <1>11, SetPausedRowDoes DEF To, Over, Halfway, At
  <2>2. /\ row = {} <=> row' = {}
        /\ \A q \in row' : \E r \in row : q.id = r.id /\ q.archived = r.archived
    <3>1. PICK b \in BOOLEAN : SetPausedById(req[c].id, b)
      BY <1>11, SetPausedRowDoes
    <3> QED BY <3>1, RowPaused
  <2> QED BY <2>1, <2>2, UncutKept
<1>12. ASSUME NEW c \in Clients, TriggerRun(c)
      PROVE  Uncut'
  <2>1. Only(c) /\ row' = row /\ sched' = sched /\ overlap' = overlap /\ faults' = faults
    BY <1>12, TriggerRunDoes DEF To, Over
  <2>2. ~Halfway(c)
    BY <1>12, TriggerRunDoes DEF Halfway, At
  <2> QED BY <2>1, <2>2, UncutKept
<1>13. ASSUME NEW c \in Clients, DeleteSchedule(c)
      PROVE  Uncut'
  <2>1. Halfway(c)'
    BY <1>13, DeleteScheduleDoes DEF To, Halfway, At
  <2> QED BY <2>1 DEF Uncut
<1>14. ASSUME NEW c \in Clients, DeleteRow(c)
      PROVE  Uncut'
  <2>1. Together'
    BY <1>14, DeleteRowDoes DEF Together
  <2> QED BY <2>1 DEF Uncut
<1>15. ASSUME NEW c \in Clients, PipelineDelete(c)
      PROVE  Uncut'
  <2>1. sched' = sched /\ overlap' = overlap /\ faults' = faults /\ ~Halfway(c)
    BY <1>15, PipelineDeleteDoes DEF Halfway, At
  <2>2. CASE row' = row /\ Over(c)
    BY <2>1, <2>2, UncutKept DEF Over
  <2>3. CASE ArchiveForPipeline /\ Over(c) /\ \A r \in row : r.archived
    <3>1. \A q \in row' : q.archived /\ \E r \in row : q.id = r.id
      BY <2>3, RowArchived
    <3>2. \A q \in row' : \E r \in row : q.id = r.id /\ q.archived = r.archived
      <4>1. \A r \in row : r.archived = TRUE
        BY <2>3 DEF Types, Rows
      <4>2. \A q \in row' : q.archived = TRUE
        BY <2>3, <3>1, RowArchived DEF Rows
      <4> QED BY <3>1, <4>1, <4>2
    <3> QED BY <2>1, <2>3, <3>2, UncutKept DEF Over
  <2>4. ASSUME NEW r \in row, To(c, "stop", r.id)
        PROVE  Uncut'
    <3>1. Halfway(c)'
      BY <1>15, <2>4, PipelineDeleteDoes DEF To, Halfway, At
    <3> QED BY <3>1 DEF Uncut
  <2> QED BY <1>15, <2>2, <2>3, <2>4, PipelineDeleteDoes
<1>16. ASSUME NEW c \in Clients, StopSchedule(c)
      PROVE  Uncut'
  <2> SUFFICES ASSUME "existence" \notin overlap' PROVE Together'
    BY DEF Uncut
  <2>1. OfRow(c) /\ \A r \in row : r.archived
    BY <1>16, StopScheduleDoes DEF Existing, InOrder
  <2> QED BY <1>16, <2>1, StopScheduleDoes DEF Together, Scheduled, OfRow
<1>17. ASSUME NEW c \in Clients, PipelineCreate(c)
      PROVE  Uncut'
  <2>1. Only(c) /\ row' = row /\ sched' = sched /\ overlap' = overlap /\ faults' = faults
    BY <1>17, PipelineCreateDoes DEF To, Over
  <2>2. ~Halfway(c)
    BY <1>17, PipelineCreateDoes DEF Halfway, At
  <2> QED BY <2>1, <2>2, UncutKept
<1>18. ASSUME NEW c \in Clients, Crash(c)
      PROVE  Uncut'
  <2>1. faults' # MaxFaults
    BY <1>18, CrashDoes, Faulted
  <2> QED BY <2>1 DEF Uncut
<1>19. ASSUME NEW c \in Clients, NEW op \in Ops, Arrive(c, op)
      PROVE  Uncut'
  <2>1. /\ Only(c) /\ row' = row /\ sched' = sched /\ overlap \subseteq overlap' /\ faults' = faults
        /\ ~Halfway(c)
    BY <1>19, Arrived DEF Arrive, Halfway, At
  <2> QED BY <2>1, UncutKept
<1>20. CASE UNCHANGED vars
  BY <1>20 DEF vars, Uncut, Together, Halfway, At, Scheduled
<1> QED BY <1>1, <1>2, <1>3, <1>4, <1>5, <1>6, <1>7, <1>8, <1>9, <1>10, <1>11, <1>12, <1>13, <1>14, <1>15, <1>16, <1>17, <1>18, <1>19, <1>20 DEF Next, Step

\* A step that leaves row and schedules alone keeps the values of every other request.
LEMMA ValuedKept ==
    ASSUME Types, Valued, NEW c \in Clients, Only(c), overlap \subseteq overlap', faults' = faults,
           row' = row, sched' = sched, ~Writing(c), Values(c)'
    PROVE  Valued'
<1> SUFFICES ASSUME overlap' = {}, faults' = MaxFaults
             PROVE  (Agree' \/ \E d \in Clients : Writing(d)') /\ \A d \in Clients : Values(d)'
  BY DEF Valued
<1>1. overlap = {} /\ faults = MaxFaults
  OBVIOUS
<1>2. (Agree \/ \E d \in Clients : Writing(d)) /\ \A d \in Clients : Values(d)
  BY <1>1 DEF Valued
<1>3. Agree => Agree'
  BY DEF Agree
<1>4. ASSUME NEW d \in Clients, d # c
      PROVE  (Writing(d) => Writing(d)') /\ Values(d)'
  <2>1. req'[d] = req[d] /\ Values(d)
    BY <1>2, <1>4 DEF Only
  <2> QED BY <2>1 DEF Writing, Halfway, Values, At, OfRow
<1> QED BY <1>2, <1>3, <1>4

\* A step of the only write in flight concerns no other request.
LEMMA ValuedMoved ==
    ASSUME Types, OneAtATime, Existing, Valued, NEW c \in Clients, Only(c), req[c].op \in Writes,
           overlap' = overlap, faults' = faults,
           overlap = {} /\ sched = Known /\ Visible /\ InOrder(c) /\ Values(c) /\ (Agree \/ Writing(c)) =>
             (Agree' \/ Writing(c)') /\ Values(c)'
    PROVE  Valued'
<1> SUFFICES ASSUME overlap = {}, faults = MaxFaults
             PROVE  (Agree' \/ \E d \in Clients : Writing(d)') /\ \A d \in Clients : Values(d)'
  BY DEF Valued
<1>1. \A d \in Clients : d # c => req[d].op \notin Writes
  BY DEF OneAtATime
<1>2. Agree \/ Writing(c)
  BY <1>1 DEF Valued, Writing, Halfway, At, Writes, Existence
<1>3. sched = Known /\ Visible /\ InOrder(c) /\ Values(c)
  BY DEF Existing, Valued, Accounted, Visible, Known, Types
<1>4. (Agree' \/ Writing(c)') /\ Values(c)'
  BY <1>2, <1>3
<1>5. ASSUME NEW d \in Clients, d # c
      PROVE  Values(d)'
  <2>1. req'[d].op \notin Writes
    BY <1>1, <1>5 DEF Only
  <2> QED BY <2>1 DEF Values, At, Writes, Existence
<1> QED BY <1>4, <1>5

\* Without overlap or crash, row and schedule agree except halfway through a write.
LEMMA ValuedStep == Types /\ OneAtATime /\ Existing /\ Valued /\ [Next]_vars => Valued'
<1> SUFFICES ASSUME Types, OneAtATime, Existing, Valued, [Next]_vars
             PROVE  Valued'
  OBVIOUS
<1>1. ASSUME NEW c \in Clients, CreateCheck(c)
      PROVE  Valued'
  <2>1. Only(c) /\ row' = row /\ sched' = sched /\ overlap' = overlap /\ faults' = faults
    BY <1>1, CreateCheckDoes DEF To, Over
  <2>2. ~Writing(c) /\ Values(c)'
    BY <1>1, CreateCheckDoes DEF Writing, Halfway, At, Values, To, Over
  <2> QED BY <2>1, <2>2, ValuedKept
<1>2. ASSUME NEW c \in Clients, CreateInsert(c)
      PROVE  Valued'
  <2>1. Only(c) /\ overlap' = overlap /\ faults' = faults /\ req[c].op \in Writes
    BY <1>2, CreateInsertDoes DEF To, Over, At, Writes, Existence
  <2>2. ASSUME overlap = {}, sched = Known, Visible, InOrder(c), Values(c), Agree \/ Writing(c)
        PROVE  (Agree' \/ Writing(c)') /\ Values(c)'
    <3>1. CASE Over(c) /\ row' = row
      <4>1. Agree
        BY <1>2, <2>2, CreateInsertDoes DEF Writing, Halfway, At
      <4> QED BY <1>2, <3>1, <4>1, CreateInsertDoes DEF Over, Agree, Values, At
    <3>2. CASE row' = {NewRow(ids')} /\ To(c, "schedule", ids')
      <4>1. \A r \in row' : r.cron = 0
        BY <3>2 DEF NewRow
      <4> QED BY <1>2, <3>2, <4>1, CreateInsertDoes DEF To, Writing, Halfway, At, Values
    <3> QED BY <1>2, <3>1, <3>2, CreateInsertDoes
  <2> QED BY <2>1, <2>2, ValuedMoved
<1>3. ASSUME NEW c \in Clients, CreateSchedule(c)
      PROVE  Valued'
  <2>0. CASE Fault
    <3>1. faults' # MaxFaults
      BY <2>0, Faulted
    <3> QED BY <3>1 DEF Valued
  <2>9. CASE ~Fault
    <3>1. Only(c) /\ overlap' = overlap /\ faults' = faults /\ req[c].op \in Writes
      BY <1>3, <2>9, CreateScheduleDoes DEF Unanswered, To, Over, At, Writes, Existence
    <3>2. ASSUME overlap = {}, sched = Known, Visible, InOrder(c), Values(c), Agree \/ Writing(c)
          PROVE  (Agree' \/ Writing(c)') /\ Values(c)'
      <4>1. At(c, "create", "schedule") /\ row' = row /\ sched = {} /\ \A r \in row : r.cron = 0
        BY <1>3, <2>9, <3>2, CreateScheduleDoes DEF Unanswered, InOrder, Values
      <4>2. CASE sched' = sched /\ To(c, "undo_row", req[c].id)
        BY <4>1, <4>2 DEF To, Writing, Halfway, At, Values
      <4>3. CASE sched' = sched \cup {[id |-> req[c].id, paused |-> FALSE, cron |-> 0]} /\ To(c, "unpause", req[c].id)
        <5>1. \A s \in sched' : s.cron = 0 /\ ~s.paused
          BY <4>1, <4>3
        <5> QED BY <4>1, <4>3, <5>1 DEF To, Writing, Halfway, At, Values
      <4> QED BY <1>3, <2>9, <4>2, <4>3, CreateScheduleDoes DEF Unanswered
    <3> QED BY <3>1, <3>2, ValuedMoved
  <2> QED BY <2>0, <2>9
<1>4. ASSUME NEW c \in Clients, CreateUnpause(c)
      PROVE  Valued'
  <2>0. CASE Fault
    <3>1. faults' # MaxFaults
      BY <2>0, Faulted
    <3> QED BY <3>1 DEF Valued
  <2>9. CASE ~Fault
    <3>1. Only(c) /\ overlap' = overlap /\ faults' = faults /\ req[c].op \in Writes
      BY <1>4, <2>9, CreateUnpauseDoes DEF Unanswered, To, Over, At, Writes, Existence
    <3>2. ASSUME overlap = {}, sched = Known, Visible, InOrder(c), Values(c), Agree \/ Writing(c)
          PROVE  (Agree' \/ Writing(c)') /\ Values(c)'
      <4>1. /\ row # {} /\ sched' = sched /\ (\A r \in row : r.cron = 0)
            /\ \A s \in sched : s.cron = 0 /\ ~s.paused
        BY <1>4, <2>9, <3>2, CreateUnpauseDoes DEF Unanswered, InOrder, Values
      <4>2. row' \subseteq Rows /\ \A q \in row' : ~q.paused /\ \E r \in row : q.cron = r.cron
        BY <1>4, <2>9, CreateUnpauseDoes, RowUnpaused
      <4>3. \A q \in row' : q.paused = FALSE /\ q.cron = 0
        BY <4>1, <4>2 DEF Rows
      <4>4. \A s \in sched' : s.paused = FALSE /\ s.cron = 0
        BY <4>1 DEF Types, Schedules
      <4>5. Agree'
        BY <4>3, <4>4 DEF Agree
      <4> QED BY <1>4, <2>9, <4>1, <4>5, CreateUnpauseDoes DEF Unanswered, Over, Values, At
    <3> QED BY <3>1, <3>2, ValuedMoved
  <2> QED BY <2>0, <2>9
<1>5. ASSUME NEW c \in Clients, UndoSchedule(c)
      PROVE  Valued'
  <2>0. CASE Fault
    <3>1. faults' # MaxFaults
      BY <2>0, Faulted
    <3> QED BY <3>1 DEF Valued
  <2>9. CASE ~Fault
    <3>1. Only(c) /\ overlap' = overlap /\ faults' = faults /\ req[c].op \in Writes
      BY <1>5, <2>9, UndoScheduleDoes DEF Unanswered, To, Over, At, Writes, Existence
    <3>2. ASSUME overlap = {}, sched = Known, Visible, InOrder(c), Values(c), Agree \/ Writing(c)
          PROVE  (Agree' \/ Writing(c)') /\ Values(c)'
      BY <1>5, <2>9, UndoScheduleDoes DEF Unanswered, To, Writing, Halfway, At, Values
    <3> QED BY <3>1, <3>2, ValuedMoved
  <2> QED BY <2>0, <2>9
<1>6. ASSUME NEW c \in Clients, UndoRow(c)
      PROVE  Valued'
  <2>1. Only(c) /\ overlap' = overlap /\ faults' = faults /\ req[c].op \in Writes
    BY <1>6, UndoRowDoes DEF To, Over, At, Writes, Existence
  <2>2. ASSUME overlap = {}, sched = Known, Visible, InOrder(c), Values(c), Agree \/ Writing(c)
        PROVE  (Agree' \/ Writing(c)') /\ Values(c)'
    BY <1>6, UndoRowDoes DEF Agree, Values, Over, At
  <2> QED BY <2>1, <2>2, ValuedMoved
<1>7. ASSUME NEW c \in Clients, ReadOwned(c)
      PROVE  Valued'
  <2>1. /\ Only(c) /\ row' = row /\ sched' = sched /\ overlap' = overlap /\ faults' = faults
        /\ ~Writing(c)
    BY <1>7, ReadOwnedDoes DEF To, Over, Writing, Halfway, At
  <2>2. CASE Over(c)
    BY <2>1, <2>2, ValuedKept DEF Over, Values, At
  <2>3. ASSUME NEW r \in row, To(c, "schedule", r.id)
        PROVE  Values(c)'
    <3>1. req'[c].id = r.id /\ req'[c].op # "create" /\ req'[c].pc = "schedule"
      BY <1>7, <2>3, ReadOwnedDoes DEF To
    <3>2. OfRow(c)'
      BY <2>1, <3>1 DEF OfRow, Types
    <3> QED BY <3>1, <3>2 DEF Values, At
  <2> QED BY <1>7, <2>1, <2>2, <2>3, ReadOwnedDoes, ValuedKept
<1>8. ASSUME NEW c \in Clients, PatchSchedule(c)
      PROVE  Valued'
  <2>1. Only(c) /\ overlap' = overlap /\ faults' = faults /\ req[c].op \in Writes
    BY <1>8, PatchScheduleDoes DEF To, Over, At, Writes, Existence
  <2>2. ASSUME overlap = {}, sched = Known, Visible, InOrder(c), Values(c), Agree \/ Writing(c)
        PROVE  (Agree' \/ Writing(c)') /\ Values(c)'
    <3>1. Agree /\ OfRow(c) /\ row' = row
      BY <1>8, <2>2, PatchScheduleDoes DEF Writing, Halfway, At, Values
    <3>2. \A s \in sched : s.id = req[c].id
      BY <2>2, <3>1 DEF Visible, OfRow
    <3>4. \A t \in sched' : \E s \in sched : 
             t.paused = s.paused /\ t.cron = (IF s.id = req[c].id THEN req[c].cron ELSE s.cron)
      BY <1>8, PatchScheduleDoes, SpecUpdated
    <3>5. \A t \in sched' : t.cron = req[c].cron
      BY <3>2, <3>4
    <3>6. CASE To(c, "row", req[c].id)
      <4>1. Writing(c)' /\ OfRow(c)'
        BY <1>8, <3>1, <3>6, PatchScheduleDoes DEF To, Writing, At, OfRow
      <4>2. \A r \in row', t \in sched' : ~r.archived => t.paused = r.paused
        BY <3>1, <3>4 DEF Agree
      <4> QED BY <1>8, <3>5, <3>6, <4>1, <4>2, PatchScheduleDoes DEF To, Values, At
    <3>7. CASE Over(c) /\ ~Scheduled(req[c].id)
      <4>1. sched = {} /\ sched' = {}
        BY <3>2, <3>4, <3>7 DEF Scheduled
      <4> QED BY <3>7, <4>1 DEF Over, Agree, Values, At
    <3> QED BY <1>8, <3>6, <3>7, PatchScheduleDoes
  <2> QED BY <2>1, <2>2, ValuedMoved
<1>9. ASSUME NEW c \in Clients, PatchRow(c)
      PROVE  Valued'
  <2>1. Only(c) /\ overlap' = overlap /\ faults' = faults /\ req[c].op \in Writes
    BY <1>9, PatchRowDoes DEF To, Over, At, Writes, Existence
  <2>2. ASSUME overlap = {}, sched = Known, Visible, InOrder(c), Values(c), Agree \/ Writing(c)
        PROVE  (Agree' \/ Writing(c)') /\ Values(c)'
    <3>1. /\ sched' = sched /\ (\A s \in sched : s.cron = req[c].cron)
          /\ \A r \in row, s \in sched : ~r.archived => s.paused = r.paused
      BY <1>9, <2>2, PatchRowDoes DEF Values
    <3>2. \A q \in row' : \E r \in row :
             q.archived = r.archived /\ q.paused = r.paused /\ q.cron = req[c].cron
      BY <1>9, PatchRowDoes, RowUpdated
    <3>3. Agree'
      BY <3>1, <3>2 DEF Agree
    <3> QED BY <1>9, <3>3, PatchRowDoes DEF Over, Values, At
  <2> QED BY <2>1, <2>2, ValuedMoved
<1>10. ASSUME NEW c \in Clients, SetPausedSchedule(c)
      PROVE  Valued'
  <2>1. Only(c) /\ overlap' = overlap /\ faults' = faults /\ req[c].op \in Writes
    BY <1>10, SetPausedScheduleDoes DEF To, Over, At, Writes, Existence
  <2>2. ASSUME overlap = {}, sched = Known, Visible, InOrder(c), Values(c), Agree \/ Writing(c)
        PROVE  (Agree' \/ Writing(c)') /\ Values(c)'
    <3>1. Agree /\ OfRow(c) /\ row' = row
      BY <1>10, <2>2, SetPausedScheduleDoes DEF Writing, Halfway, At, Values
    <3>2. \A s \in sched : s.id = req[c].id
      BY <2>2, <3>1 DEF Visible, OfRow
    <3>3. PICK b \in BOOLEAN : PauseSchedule(req[c].id, b) /\ b = (req[c].op = "pause")
      BY <1>10, SetPausedScheduleDoes
    <3>4. \A t \in sched' : \E s \in sched :
             t.cron = s.cron /\ (s.id = req[c].id => t.paused = b)
      <4>1. PauseSchedule(req[c].id, b)
        BY <3>3
      <4> QED BY <4>1, SchedulePaused
    <3>5. \A t \in sched' : t.paused <=> req[c].op = "pause"
      BY <3>2, <3>3, <3>4
    <3>6. CASE To(c, "row", req[c].id)
      <4>1. Writing(c)' /\ OfRow(c)'
        BY <1>10, <3>1, <3>6, SetPausedScheduleDoes DEF To, Writing, At, OfRow
      <4>2. \A r \in row', t \in sched' : ~r.archived => t.cron = r.cron
        BY <3>1, <3>4 DEF Agree
      <4> QED BY <1>10, <3>5, <3>6, <4>1, <4>2, SetPausedScheduleDoes DEF To, Values, At
    <3>7. CASE Over(c) /\ ~Scheduled(req[c].id)
      <4>1. sched = {} /\ sched' = {}
        BY <3>2, <3>4, <3>7 DEF Scheduled
      <4> QED BY <3>7, <4>1 DEF Over, Agree, Values, At
    <3> QED BY <1>10, <3>6, <3>7, SetPausedScheduleDoes
  <2> QED BY <2>1, <2>2, ValuedMoved
<1>11. ASSUME NEW c \in Clients, SetPausedRow(c)
      PROVE  Valued'
  <2>1. Only(c) /\ overlap' = overlap /\ faults' = faults /\ req[c].op \in Writes
    BY <1>11, SetPausedRowDoes DEF To, Over, At, Writes, Existence
  <2>2. ASSUME overlap = {}, sched = Known, Visible, InOrder(c), Values(c), Agree \/ Writing(c)
        PROVE  (Agree' \/ Writing(c)') /\ Values(c)'
    <3>1. /\ sched' = sched /\ OfRow(c) /\ (\A s \in sched : s.paused <=> req[c].op = "pause")
          /\ \A r \in row, s \in sched : ~r.archived => s.cron = r.cron
      BY <1>11, <2>2, SetPausedRowDoes DEF Values
    <3>2. PICK b \in BOOLEAN : SetPausedById(req[c].id, b) /\ b = (req[c].op = "pause")
      BY <1>11, SetPausedRowDoes
    <3>3. \A q \in row' : \E r \in row :
             /\ q.archived = r.archived /\ q.cron = r.cron
             /\ (r.id = req[c].id => q.paused = b)
      <4>1. SetPausedById(req[c].id, b)
        BY <3>2
      <4> QED BY <4>1, RowPaused
    <3>4. \A q \in row' : q.paused = b
      BY <3>1, <3>3 DEF OfRow
    <3>5. \A s \in sched' : s.paused = b
      BY <3>1, <3>2 DEF Types, Schedules
    <3>6. Agree'
      BY <3>1, <3>3, <3>4, <3>5 DEF Agree
    <3> QED BY <1>11, <3>6, SetPausedRowDoes DEF Over, Values, At
  <2> QED BY <2>1, <2>2, ValuedMoved
<1>12. ASSUME NEW c \in Clients, TriggerRun(c)
      PROVE  Valued'
  <2>1. Only(c) /\ row' = row /\ sched' = sched /\ overlap' = overlap /\ faults' = faults
    BY <1>12, TriggerRunDoes DEF To, Over
  <2>2. ~Writing(c) /\ Values(c)'
    BY <1>12, TriggerRunDoes DEF Writing, Halfway, At, Values, To, Over
  <2> QED BY <2>1, <2>2, ValuedKept
<1>13. ASSUME NEW c \in Clients, DeleteSchedule(c)
      PROVE  Valued'
  <2>1. Only(c) /\ overlap' = overlap /\ faults' = faults /\ req[c].op \in Writes
    BY <1>13, DeleteScheduleDoes DEF To, Over, At, Writes, Existence
  <2>2. ASSUME overlap = {}, sched = Known, Visible, InOrder(c), Values(c), Agree \/ Writing(c)
        PROVE  (Agree' \/ Writing(c)') /\ Values(c)'
    BY <1>13, DeleteScheduleDoes DEF To, Writing, Halfway, At, Values
  <2> QED BY <2>1, <2>2, ValuedMoved
<1>14. ASSUME NEW c \in Clients, DeleteRow(c)
      PROVE  Valued'
  <2>1. Only(c) /\ overlap' = overlap /\ faults' = faults /\ req[c].op \in Writes
    BY <1>14, DeleteRowDoes DEF To, Over, At, Writes, Existence
  <2>2. ASSUME overlap = {}, sched = Known, Visible, InOrder(c), Values(c), Agree \/ Writing(c)
        PROVE  (Agree' \/ Writing(c)') /\ Values(c)'
    BY <1>14, DeleteRowDoes DEF Agree, Values, Over, At
  <2> QED BY <2>1, <2>2, ValuedMoved
<1>15. ASSUME NEW c \in Clients, PipelineDelete(c)
      PROVE  Valued'
  <2>1. Only(c) /\ overlap' = overlap /\ faults' = faults /\ req[c].op \in Writes
    BY <1>15, PipelineDeleteDoes DEF To, Over, At, Writes, Existence
  <2>2. ASSUME overlap = {}, sched = Known, Visible, InOrder(c), Values(c), Agree \/ Writing(c)
        PROVE  (Agree' \/ Writing(c)') /\ Values(c)'
    <3>1. CASE row' = row /\ Over(c)
      <4>1. Agree
        BY <1>15, <2>2, PipelineDeleteDoes DEF Writing, Halfway, At
      <4> QED BY <1>15, <3>1, <4>1, PipelineDeleteDoes DEF Over, Agree, Values, At
    <3>2. CASE ArchiveForPipeline /\ Over(c)
      <4>1. \A q \in row' : q.archived
        BY <3>2, RowArchived
      <4> QED BY <3>2, <4>1 DEF Over, Agree, Values, At
    <3>3. ASSUME NEW r \in row, To(c, "stop", r.id)
          PROVE  Writing(c)' /\ Values(c)'
      BY <1>15, <3>3, PipelineDeleteDoes DEF To, Writing, Halfway, At, Values
    <3> QED BY <1>15, <3>1, <3>2, <3>3, PipelineDeleteDoes
  <2> QED BY <2>1, <2>2, ValuedMoved
<1>16. ASSUME NEW c \in Clients, StopSchedule(c)
      PROVE  Valued'
  <2>1. Only(c) /\ overlap' = overlap /\ faults' = faults /\ req[c].op \in Writes
    BY <1>16, StopScheduleDoes DEF To, Over, At, Writes, Existence
  <2>2. ASSUME overlap = {}, sched = Known, Visible, InOrder(c), Values(c), Agree \/ Writing(c)
        PROVE  (Agree' \/ Writing(c)') /\ Values(c)'
    BY <1>16, <2>2, StopScheduleDoes DEF InOrder, Agree, Over, Values, At
  <2> QED BY <2>1, <2>2, ValuedMoved
<1>17. ASSUME NEW c \in Clients, PipelineCreate(c)
      PROVE  Valued'
  <2>1. Only(c) /\ row' = row /\ sched' = sched /\ overlap' = overlap /\ faults' = faults
    BY <1>17, PipelineCreateDoes DEF To, Over
  <2>2. ~Writing(c) /\ Values(c)'
    BY <1>17, PipelineCreateDoes DEF Writing, Halfway, At, Values, To, Over
  <2> QED BY <2>1, <2>2, ValuedKept
<1>18. ASSUME NEW c \in Clients, Crash(c)
      PROVE  Valued'
  <2>1. faults' # MaxFaults
    BY <1>18, CrashDoes, Faulted
  <2> QED BY <2>1 DEF Valued
<1>19. ASSUME NEW c \in Clients, NEW op \in Ops, Arrive(c, op)
      PROVE  Valued'
  <2>1. /\ Only(c) /\ row' = row /\ sched' = sched /\ overlap \subseteq overlap' /\ faults' = faults
        /\ req[c].op = "none" /\ req'[c].pc = "start"
    BY <1>19, Arrived DEF Arrive
  <2>2. ~Writing(c) /\ Values(c)'
    BY <2>1 DEF Writing, Halfway, At, Values
  <2> QED BY <2>1, <2>2, ValuedKept
<1>20. CASE UNCHANGED vars
  BY <1>20 DEF vars, Valued, Agree, Writing, Halfway, Values, At, OfRow
<1> QED BY <1>1, <1>2, <1>3, <1>4, <1>5, <1>6, <1>7, <1>8, <1>9, <1>10, <1>11, <1>12, <1>13, <1>14, <1>15, <1>16, <1>17, <1>18, <1>19, <1>20 DEF Next, Step

LEMMA InitIInv == Init => IInv
<1> SUFFICES ASSUME Init PROVE IInv
  OBVIOUS
<1>1. /\ row = {} /\ sched = {} /\ overlap = {} /\ ids = 0 /\ faults = MaxFaults /\ pipeline = TRUE
      /\ unanswered = {}
      /\ \A c \in Clients : req[c].op = "none" /\ req[c].pc = "idle"
  BY DEF Init, NoRequest
<1>2. Types
  <2>1. NoRequest \in Requests
    BY SourcesAssumption DEF NoRequest, Requests, Points, Crons, SourcesAssumption
  <2>2. req \in [Clients -> Requests]
    BY <2>1 DEF Init
  <2>3. 0 \in 0 .. MaxIds /\ MaxFaults \in 0 .. MaxFaults
    BY SourcesAssumption DEF SourcesAssumption
  <2> QED BY <1>1, <2>2, <2>3 DEF Types
<1>3. IdsDrawnOnce
  BY <1>1 DEF IdsDrawnOnce, At
<1>4. OneAtATime
  BY <1>1 DEF OneAtATime, Writes, Existence
<1>5. Existing
  BY <1>1 DEF Existing, Accounted, InOrder, At
<1>6. Uncut
  BY <1>1 DEF Uncut, Together
<1>7. Valued
  BY <1>1 DEF Valued, Agree, Values, At
<1> QED BY <1>2, <1>3, <1>4, <1>5, <1>6, <1>7 DEF IInv

\* The inductive invariant holds of every state the requests on a handle reach.
THEOREM Invariance == Spec => []IInv
<1>1. IInv /\ [Next]_vars => IInv'
  BY TypesStep, IdsStep, OneStep, ExistingStep, UncutStep, ValuedStep DEF IInv
<1> QED BY <1>1, InitIInv, PTL DEF Spec

----------------------------------------------------------------------------
(* The properties. *)

\* A set without two members has at most one.
LEMMA AtMostOne ==
    ASSUME NEW T, \A t, w \in T : t = w
    PROVE  Cardinality(T) <= 1
<1>1. CASE T = {}
  <2>1. Cardinality(T) = 0
    BY <1>1, FS_EmptySet, Zenon
  <2> QED BY <2>1
<1>2. CASE T # {}
  <2>1. PICK t \in T : TRUE
    BY <1>2
  <2>2. T = {t}
    BY <2>1
  <2>3. Cardinality(T) = 1
    BY <2>2, FS_Singleton, Zenon
  <2> QED BY <2>3
<1> QED BY <1>1, <1>2

\* Whatever overlaps and whatever fails, the handle has at most one row and an id at most
\* one schedule: the surrogate id is drawn once and scheduled by the request that drew it.
THEOREM TypeCorrect == Spec => []TypeOK
<1>1. IInv => TypeOK
  BY AtMostOne DEF IInv, Types, IdsDrawnOnce, TypeOK, Requests
<1> QED BY <1>1, Invariance, PTL

\* Requests that create or remove the source one after the other, mixed with any others, leave
\* row and schedule together, and requests that do not overlap at all leave them with the same
\* values (the handlers of /sources and DELETE /pipelines).
THEOREM RowAndScheduleMirrored == Spec => []SchedulesMirrored
<1>1. IInv => SchedulesMirrored
  <2> SUFFICES ASSUME IInv PROVE SchedulesMirrored
    OBVIOUS
  <2>1. Quiet => \A c \in Clients : req[c].op = "none"
    BY DEF Quiet, NoRequest
  <2>2. Quiet => ~\E c \in Clients : Writing(c)
    BY <2>1 DEF Writing, Halfway, At
  <2>3. ExistenceMirrored
    BY <2>2 DEF IInv, Types, Existing, Uncut, Together, Writing, ExistenceMirrored, Accounted, Visible
  <2>4. ValuesMirrored
    BY <2>2 DEF IInv, Valued, Agree, ValuesMirrored
  <2> QED BY <2>3, <2>4 DEF SchedulesMirrored
<1> QED BY <1>1, Invariance, PTL

\* Whatever dies and whichever calls fail, a schedule left without a row is one for which
\* Temporal failed the create or its rollback, as long as creations and removals do not
\* overlap (the order of the calls in create_source, undo_create and delete_source).
THEOREM HiddenByTemporalOnly == Spec => []OnlyTemporalHides
<1>1. IInv => OnlyTemporalHides
  BY DEF IInv, Existing, OnlyTemporalHides
<1> QED BY <1>1, Invariance, PTL
=============================================================================

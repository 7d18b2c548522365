------------------------------- MODULE JobRow -------------------------------
(***************************************************************************)
(* The row a job has in the control plane's `jobs` table, next to the        *)
(* workflow it caches.  Four parties write or read it without coordination:  *)
(* whoever submits the job (the gateway after starting the workflow, a       *)
(* source run or an archive before starting a child), the worker's           *)
(* record_job_started and record_usage activities, every GET /jobs/{id},     *)
(* and POST /jobs/{id}/cancel, which reads it to explain a refusal.          *)
(*                                                                           *)
(* The workflow is the one JobLifecycle promises.  The error text is reduced *)
(* to its presence, the row's other columns never change.                    *)
(***************************************************************************)
EXTENDS Naturals

CONSTANTS Step,             \* step ids of the job's pipeline
          FirstStep,        \* the head of validate()'s order
          NoStep,           \* current_step = None
          Reader,           \* clients polling GET /jobs/{id}
          MaxStartAttempts  \* attempts of record_job_started

ASSUME RowAssumption == /\ FirstStep \in Step
                        /\ NoStep \notin Step
                        /\ MaxStartAttempts \in Nat \ {0}

VARIABLES origin,    \* "request": submit_one; "child": a source's or archive's job
          submit,    \* how far the submission is
          exists,    \* whether Temporal knows the execution
          status,    \* progress.status
          close,     \* how the execution closed
          wfStep,    \* progress.current_step
          asked,     \* a cancellation reached the execution
          started,   \* attempts record_job_started has used, and whether it ended
          stray,     \* its timed-out requests the control plane may still serve
          recorded,  \* record_usage: "no", "yes" or "gave_up"
          row,       \* the row of the jobs table
          reader,    \* per reader: the GET it has under way
          canceller  \* a POST /jobs/{id}/cancel under way, or its 409

wfVars  == <<exists, status, close, wfStep, asked>>
actVars == <<started, stray, recorded>>
vars == <<origin, submit, wfVars, actVars, row, reader, canceller>>

L == INSTANCE JobLifecycle

RowStatus == {"none"} \cup L!JobStatus

Row == [st : RowStatus, step : Step \cup {NoStep}, err : BOOLEAN]

NoRow  == [st |-> "none", step |-> NoStep, err |-> FALSE]
Queued == [st |-> "queued", step |-> NoStep, err |-> FALSE]

\* A JobUpdate: the body of PATCH /internal/jobs/{job_id}.
Update(st, step, err) == [st |-> st, step |-> step, err |-> err]

Get == [pc : {"idle", "described", "patching"}, upd : Row]

IdleGet == [pc |-> "idle", upd |-> NoRow]

TypeOK ==
  /\ origin \in {"request", "child"}
  /\ submit \in {"new", "inserting", "done", "abandoned"}
  /\ exists \in {"no", "yes", "forgotten"}
  /\ status \in L!JobStatus
  /\ close \in L!CloseState
  /\ wfStep \in Step \cup {NoStep}
  /\ asked \in BOOLEAN
  /\ started \in [attempts : 0..MaxStartAttempts, ended : BOOLEAN]
  /\ stray \in Nat
  /\ recorded \in {"no", "yes", "gave_up"}
  /\ row \in Row
  /\ reader \in [Reader -> Get]
  /\ canceller \in {"idle", "signalled", "refused", "409"}

Init ==
  /\ origin \in {"request", "child"}
  /\ submit = "new"
  /\ exists = "no"
  /\ status = "queued"
  /\ close = "open"
  /\ wfStep = NoStep
  /\ asked = FALSE
  /\ started = [attempts |-> 0, ended |-> FALSE]
  /\ stray = 0
  /\ recorded = "no"
  /\ row = NoRow
  /\ reader = [r \in Reader |-> IdleGet]
  /\ canceller = "idle"

-----------------------------------------------------------------------------
(* The control plane's writes *)

\* insert_job: an upsert that overwrites status, step and error.
InsertJob == row' = Queued

\* Whoever inserts a row does it best effort: an error is logged and forgotten.
TryInsertJob == InsertJob \/ UNCHANGED row

\* update_job_row: absent fields stay, success clears the step, no row is a 404.
UpdateJobRow(upd) ==
  row' = IF row.st = "none" THEN row
         ELSE [st   |-> upd.st,
               step |-> IF upd.st = "succeeded" THEN NoStep
                        ELSE IF upd.step = NoStep THEN row.step ELSE upd.step,
               err  |-> row.err \/ upd.err]

-----------------------------------------------------------------------------
(* Submission *)

\* submit_one (and submit_archive): the workflow is started first ...
StartRequest ==
  /\ origin = "request" /\ submit = "new"
  /\ exists' = "yes"
  /\ submit' = "inserting"
  /\ UNCHANGED <<origin, status, close, wfStep, asked, actVars, row, reader, canceller>>

\* ... then its row is inserted, best effort, and the request answered.
RecordRequest ==
  /\ origin = "request" /\ submit = "inserting"
  /\ submit' = "done"
  /\ TryInsertJob
  /\ UNCHANGED <<origin, wfVars, actVars, reader, canceller>>

\* A source's or an archive's activity inserts the row first, best effort ...
RecordChild ==
  /\ origin = "child" /\ submit = "new"
  /\ submit' = "inserting"
  /\ TryInsertJob
  /\ UNCHANGED <<origin, wfVars, actVars, reader, canceller>>

\* ... and its workflow starts the child once that activity has answered,
StartChild ==
  /\ origin = "child" /\ submit = "inserting"
  /\ exists' = "yes"
  /\ submit' = "done"
  /\ UNCHANGED <<origin, status, close, wfStep, asked, actVars, row, reader, canceller>>

\* unless the activity fails on a later item, or the parent is cancelled.
AbandonChild ==
  /\ origin = "child" /\ submit = "inserting"
  /\ submit' = "abandoned"
  /\ UNCHANGED <<origin, wfVars, actVars, row, reader, canceller>>

-----------------------------------------------------------------------------
(* The workflow and its two bookkeeping activities *)

\* The first workflow task.  A refused definition reports nothing.
RejectJob ==
  /\ exists = "yes"
  /\ L!Reject
  /\ UNCHANGED <<origin, submit, exists, wfStep, asked, actVars, row, reader, canceller>>

BeginJob ==
  /\ exists = "yes"
  /\ L!Begin
  /\ UNCHANGED <<origin, submit, exists, wfStep, asked, actVars, row, reader, canceller>>

StartPatch == Update("running", FirstStep, FALSE)

\* An attempt of record_job_started is answered: patched, or no row to patch.
StartedRecorded ==
  /\ status = "running" /\ ~started.ended
  /\ started.attempts < MaxStartAttempts
  /\ started' = [attempts |-> started.attempts + 1, ended |-> TRUE]
  /\ UpdateJobRow(StartPatch)
  /\ UNCHANGED <<origin, submit, wfVars, stray, recorded, reader, canceller>>

\* An attempt fails, or times out with its request still under way; the last one
\* ends the activity, a cancellation may end it earlier, and the workflow goes on.
StartedFails ==
  /\ status = "running" /\ ~started.ended
  /\ started.attempts < MaxStartAttempts
  /\ \E cut \in {FALSE, asked} :
       started' = [attempts |-> started.attempts + 1,
                   ended |-> cut \/ started.attempts + 1 = MaxStartAttempts]
  /\ stray' \in {stray, stray + 1}
  /\ UNCHANGED <<origin, submit, wfVars, recorded, row, reader, canceller>>

\* The control plane serves, or never serves, a request nobody waits for.
StrayServed ==
  /\ stray > 0
  /\ stray' = stray - 1
  /\ UpdateJobRow(StartPatch) \/ UNCHANGED row
  /\ UNCHANGED <<origin, submit, wfVars, started, recorded, reader,
                 canceller>>

RunStep(s) ==
  /\ status = "running" /\ started.ended /\ wfStep # s
  /\ wfStep' = s
  /\ UNCHANGED <<origin, submit, exists, status, close, asked, actVars, row,
                 reader, canceller>>

\* The outcome is decided.  A failed job keeps the step it failed on.
FinishJob(t) ==
  /\ started.ended
  /\ t = "cancelled" => asked
  /\ L!Finish(t)
  /\ wfStep' = IF t = "failed" THEN wfStep ELSE NoStep
  /\ UNCHANGED <<origin, submit, exists, asked, actVars, row, reader,
                 canceller>>

\* Mutant of UsagePatched: anything but success is reported as an error.
UsageErrsOnCancel ==
  /\ status \in L!Terminal /\ close = "open" /\ recorded # "gave_up"
  /\ UpdateJobRow(Update(status, NoStep, status # "succeeded"))
  /\ recorded' = "yes"
  /\ UNCHANGED <<origin, submit, wfVars, started, stray, reader, canceller>>

\* record_usage patches the row with the outcome before it reports any usage.  An
\* attempt that fails afterwards is retried and patches again.
UsagePatched ==
  /\ status \in L!Terminal /\ close = "open" /\ recorded # "gave_up"
  /\ UpdateJobRow(Update(status, NoStep, status = "failed"))
  /\ recorded' = "yes"
  /\ UNCHANGED <<origin, submit, wfVars, started, stray, reader, canceller>>

\* The seven-day retry window closes before an attempt patched the row.
UsageGivesUp ==
  /\ status \in L!Terminal /\ close = "open" /\ recorded = "no"
  /\ recorded' = "gave_up"
  /\ UNCHANGED <<origin, submit, wfVars, started, stray, row, reader,
                 canceller>>

CloseJob ==
  /\ recorded # "no"
  /\ L!Close
  /\ UNCHANGED <<origin, submit, exists, wfStep, asked, actVars, row, reader, canceller>>

\* Temporal's retention removes a closed execution.
Forget ==
  /\ exists = "yes" /\ close # "open"
  /\ exists' = "forgotten"
  /\ UNCHANGED <<origin, submit, status, close, wfStep, asked, actVars, row,
                 reader, canceller>>

-----------------------------------------------------------------------------
(* GET /jobs/{id} *)

\* A client has the id from the submission's answer or from the job list.
Known == submit = "done" \/ row.st # "none"

\* Mutant of MapExecutionStatus: a completed execution is left to the query.
MapCompletedRuns(c) == IF c \in {"failed", "cancelled"} THEN c ELSE "running"

\* map_execution_status, of the states a pipeline job can close in.
MapExecutionStatus(c) == IF c = "completed" THEN "succeeded"
                         ELSE IF c = "failed" THEN "failed"
                         ELSE IF c = "cancelled" THEN "cancelled"
                         ELSE "running"

\* combine_status: a closed execution wins, else the workflow's own view.
CombineStatus(described, own) == IF described = "running" THEN own ELSE described

\* progress(): the describe call.
Describe(r) ==
  /\ Known /\ exists = "yes" /\ reader[r].pc = "idle"
  /\ reader' = [reader EXCEPT ![r] =
       [pc |-> "described", upd |-> Update(MapExecutionStatus(close), NoStep, FALSE)]]
  /\ UNCHANGED <<origin, submit, wfVars, actVars, row, canceller>>

\* The progress query, a call of its own, is answered ...
QueryAnswered(r) ==
  /\ reader[r].pc = "described" /\ exists = "yes"
  /\ reader' = [reader EXCEPT ![r] =
       [pc |-> "patching",
        upd |-> Update(CombineStatus(reader[r].upd.st, status), wfStep,
                       status = "failed")]]
  /\ UNCHANGED <<origin, submit, wfVars, actVars, row, canceller>>

\* ... or not: no worker, or no execution any more.
QueryFails(r) ==
  /\ reader[r].pc = "described"
  /\ reader' = [reader EXCEPT ![r] = [pc |-> "patching", upd |-> reader[r].upd]]
  /\ UNCHANGED <<origin, submit, wfVars, actVars, row, canceller>>

\* get_job writes the snapshot through to the row, best effort, and answers it.
\* (When Temporal does not know the execution it answers the row and writes
\* nothing.)
WriteThrough(r) ==
  /\ reader[r].pc = "patching"
  /\ UpdateJobRow(reader[r].upd)
  /\ reader' = [reader EXCEPT ![r] = IdleGet]
  /\ UNCHANGED <<origin, submit, wfVars, actVars, canceller>>

WriteThroughFails(r) ==
  /\ reader[r].pc = "patching"
  /\ reader' = [reader EXCEPT ![r] = IdleGet]
  /\ UNCHANGED <<origin, submit, wfVars, actVars, row, canceller>>

-----------------------------------------------------------------------------
(* POST /jobs/{id}/cancel *)

Running == exists = "yes" /\ close = "open"

\* Mutant of Signal: an upstream error is read as "not found".
SignalMisread ==
  /\ Known /\ canceller = "idle"
  /\ asked' = (asked \/ Running)
  /\ canceller' \in IF Running THEN {"signalled", "refused"} ELSE {"refused"}
  /\ UNCHANGED <<origin, submit, exists, status, close, wfStep, actVars, row,
                 reader>>

\* The signal; Temporal answers NotFound for a closed or unknown execution.
Signal ==
  /\ Known /\ canceller = "idle"
  /\ asked' = (asked \/ Running)
  /\ canceller' = IF Running THEN "signalled" ELSE "refused"
  /\ UNCHANGED <<origin, submit, exists, status, close, wfStep, actVars, row,
                 reader>>

\* The cancellation request, a second call: 202, or the job closed meanwhile.
RequestCancel ==
  /\ canceller = "signalled"
  /\ canceller' = IF Running THEN "idle" ELSE "refused"
  /\ UNCHANGED <<origin, submit, wfVars, actVars, row, reader>>

\* Either call fails otherwise: 502, with the signal possibly delivered.
CancelError ==
  /\ canceller \in {"idle", "signalled"} /\ Known
  /\ asked' \in {asked, asked \/ Running}
  /\ canceller' = "idle"
  /\ UNCHANGED <<origin, submit, exists, status, close, wfStep, actVars, row,
                 reader>>

\* not_cancellable: a snapshot or a row, whatever its status, makes it a 409,
\* their absence a 404; a read that fails is taken for an absence.
NotCancellable ==
  /\ canceller = "refused"
  /\ canceller' \in IF exists = "yes" \/ row.st # "none" THEN {"409", "idle"} ELSE {"idle"}
  /\ UNCHANGED <<origin, submit, wfVars, actVars, row, reader>>

CancelAgain ==
  /\ canceller = "409"
  /\ canceller' = "idle"
  /\ UNCHANGED <<origin, submit, wfVars, actVars, row, reader>>

-----------------------------------------------------------------------------
Submission == \/ StartRequest \/ RecordRequest
              \/ RecordChild \/ StartChild \/ AbandonChild

Job == \/ RejectJob \/ BeginJob
       \/ StartedRecorded \/ StartedFails
       \/ \E s \in Step : RunStep(s)
       \/ \E t \in L!Terminal : FinishJob(t)
       \/ UsagePatched \/ UsageGivesUp \/ CloseJob

Query(r) == QueryAnswered(r) \/ QueryFails(r)

Reply(r) == WriteThrough(r) \/ WriteThroughFails(r)

Cancel == \/ Signal \/ RequestCancel \/ CancelError
          \/ NotCancellable \/ CancelAgain

Next == \/ Submission \/ Job \/ StrayServed \/ Forget
        \/ \E r \in Reader : Describe(r) \/ Query(r) \/ Reply(r)
        \/ Cancel

Spec == Init /\ [][Next]_vars

\* The submission and the workflow go on, no request stays on its way for ever,
\* and some client keeps opening the job, its write-through not always failing.
Fairness ==
  /\ WF_vars(Submission)
  /\ WF_vars(RejectJob \/ BeginJob)
  /\ WF_vars(StartedRecorded \/ StartedFails)
  /\ WF_vars(\E t \in L!Terminal : FinishJob(t))
  /\ WF_vars(UsagePatched \/ UsageGivesUp)
  /\ WF_vars(CloseJob)
  /\ WF_vars(StrayServed)
  /\ \A r \in Reader : /\ WF_vars(Query(r))
                       /\ WF_vars(Reply(r))
  /\ \E r \in Reader : WF_vars(Describe(r)) /\ SF_vars(WriteThrough(r))

FairSpec == Spec /\ Fairness

-----------------------------------------------------------------------------
(* Properties *)

\* "A job that succeeded is not 'on' a step" (update_job_row): no order of
\* patches, late ones included, leaves a succeeded row with a step.
SucceededHasNoStep == row.st = "succeeded" => row.step = NoStep

\* The row is a cache that may lag but never runs ahead: a terminal status in it
\* is the workflow's outcome, an error in it is a failed job's, and "cancelled"
\* was asked for, whoever wrote it and however late.
RowNeverAhead ==
  /\ row.st \in L!Terminal => row.st = status
  /\ row.err => status = "failed"
  /\ row.st = "cancelled" => asked

\* No client is told an outcome that is not the job's, although its answer is put
\* together from two calls to Temporal and the job moves between them.
AnswersTrue ==
  \A r \in Reader : reader[r].upd.st \in L!Terminal => reader[r].upd.st = status

\* A request-driven job whose cancellation is refused as "already finished" has
\* finished, although the signal and the cancellation are two calls.
RequestRefusedIsOver ==
  canceller = "409" /\ origin = "request" => ~Running

\* What the API says of a job when it says it is over is so: the status a GET
\* answers and the 409 a cancellation of a request-driven job answers.
ToldTheTruth == AnswersTrue /\ RequestRefusedIsOver

-----------------------------------------------------------------------------
(* The inductive invariant behind the safety properties *)

\* A decided outcome is the one the execution closes with.
Outcomes ==
  /\ status = "cancelled" => asked
  /\ close # "open" => status \in L!Terminal /\ close = L!CloseOf(status)

\* A snapshot on its way to the row holds no outcome but the job's.
Snapshots ==
  \A r \in Reader : /\ reader[r].upd.st \in L!Terminal => reader[r].upd.st = status
                    /\ reader[r].upd.err => status = "failed"

\* A request-driven job is known to its clients only once it was started.
Submitted ==
  /\ origin = "request" => /\ row.st # "none" => submit = "done"
                           /\ submit # "new" => exists # "no"
  /\ exists = "forgotten" => close # "open"

\* Its cancellation is refused only when it has closed.
Refusals ==
  /\ canceller = "signalled" => exists # "no"
  /\ origin = "request" /\ canceller \in {"refused", "409"} => close # "open"

IInv == /\ TypeOK
        /\ Outcomes
        /\ Snapshots
        /\ Submitted
        /\ Refusals
        /\ RowNeverAhead
        /\ SucceededHasNoStep

-----------------------------------------------------------------------------
(* Liveness, and what the comments promise *)

\* Opening a job repairs its row: if some client keeps polling, the row of a job
\* Temporal still knows ends up terminal and stays so, whatever insert or patch
\* was late, lost or overwritten.
RowCatchesUp ==
  <>[](exists = "yes" => row.st \in L!Terminal \cup {"none"})

=============================================================================

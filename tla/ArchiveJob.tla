----------------------------- MODULE ArchiveJob -----------------------------
(***************************************************************************)
(* One archive job: every run of its ArchiveWorkflow                        *)
(* (crates/worker/src/archive_workflow.rs), the activities that expand the  *)
(* archive and route its files (archive_activity.rs) and the child jobs it  *)
(* starts wave by wave, across continue-as-new.                             *)
(*                                                                          *)
(* A file is its position in the manifest; paths, types and staged bytes    *)
(* are left out.  `fate` is what really became of each file, kept by        *)
(* Temporal and the file jobs; the files* counters are what the workflow    *)
(* believes and shows under progress.archive.                               *)
(***************************************************************************)
EXTENDS Naturals, FiniteSets

CONSTANTS MaxFiles,        \* bound on the files of one archive
          MaxUnreadable,   \* bound on the entries the expansion skips
          Wave,            \* WAVE (or batching.wave): files started at once
          WavesPerRun,     \* WAVES_PER_RUN: waves before continue-as-new
          Kept,            \* ARCHIVE_ISSUES_KEPT: skipped entries described
          ExpandAttempts   \* maximum_attempts of expand_archive

ASSUME ArchiveAssumption ==
  /\ MaxFiles \in Nat
  /\ MaxUnreadable \in Nat
  /\ Wave \in Nat \ {0}
  /\ WavesPerRun \in Nat \ {0}
  /\ Kept \in Nat
  /\ ExpandAttempts \in Nat \ {0}

VARIABLES pc,              \* where run() is suspended
          status,          \* progress.status
          error,           \* what progress.error says
          cancelRequested, \* progress.cancel_requested of the current run
          carried,         \* resume.progress.cancel_requested
          tcancel,         \* the current run's Temporal cancellation token
          attempt,         \* attempt of the expand_archive activity
          orphans,         \* timed-out attempts of it that still run
          listed,          \* files in the manifest blob
          unreadable,      \* entries the expansion really skipped
          total,           \* files the expansion reported
          next,            \* first manifest entry not started yet
          waves,           \* waves of the current run
          consumed,        \* entries of the wave under way
          fate,            \* what became of each file
          filesStarted, filesSucceeded, filesFailed, filesSkipped,
          close            \* how the last execution closed

counters == <<filesStarted, filesSucceeded, filesFailed, filesSkipped>>
cursor   == <<total, next, waves, consumed>>
expandVars == <<attempt, orphans, listed, unreadable>>
cancelVars == <<cancelRequested, carried, tcancel>>
vars == <<pc, status, error, cancelVars, expandVars, cursor, fate, counters,
          close>>

L == INSTANCE JobLifecycle

File == 1..MaxFiles

\* "refused" is a file that could not get a job (no destination, wrong index).
Fate == {"none", "skipped", "refused", "running", "succeeded", "failed"}

TypeOK ==
  /\ pc \in {"begin", "started", "expand", "loop", "resume", "prepare",
             "children", "finish", "closed"}
  /\ status \in L!JobStatus
  /\ error \in {"none", "activity", "cancelled", "manifest", "files"}
  /\ cancelRequested \in BOOLEAN
  /\ carried \in BOOLEAN
  /\ tcancel \in BOOLEAN
  /\ attempt \in 1..ExpandAttempts
  /\ orphans \in 0..ExpandAttempts
  /\ listed \in 0..MaxFiles
  /\ unreadable \in 0..MaxUnreadable
  /\ total \in 0..MaxFiles
  /\ next \in 0..MaxFiles
  /\ waves \in 0..WavesPerRun
  /\ consumed \in 0..Wave
  /\ fate \in [File -> Fate]
  /\ filesStarted \in Nat
  /\ filesSucceeded \in Nat
  /\ filesFailed \in Nat
  /\ filesSkipped \in Nat
  /\ close \in L!CloseState

Init ==
  /\ pc = "begin"
  /\ status = "queued"
  /\ error = "none"
  /\ cancelRequested = FALSE
  /\ carried = FALSE
  /\ tcancel = FALSE
  /\ attempt = 1
  /\ orphans = 0
  /\ listed = 0
  /\ unreadable = 0
  /\ total = 0
  /\ next = 0
  /\ waves = 0
  /\ consumed = 0
  /\ fate = [f \in File |-> "none"]
  /\ filesStarted = 0
  /\ filesSucceeded = 0
  /\ filesFailed = 0
  /\ filesSkipped = 0
  /\ close = "open"

-----------------------------------------------------------------------------
(* Endings *)

\* fail(): the status, the message, then the best-effort row update.
Fail(why) ==
  /\ status' = "failed"
  /\ error' = why
  /\ pc' = "finish"

\* finish_cancelled().
FinishCancelled ==
  /\ status' = "cancelled"
  /\ pc' = "finish"
  /\ UNCHANGED error

\* Mutant of FinishRecorded: its error is returned by run().
FinishErrorFailsJob ==
  /\ pc = "finish"
  /\ pc' = "closed"
  /\ close' \in {L!CloseOf(status), "failed"}
  /\ UNCHANGED <<status, error, cancelVars, expandVars, cursor, fate, counters>>

\* record_archive_finished answered, gave up or was cancelled (its error is
\* only logged), and run() returns.
FinishRecorded ==
  /\ pc = "finish"
  /\ pc' = "closed"
  /\ close' = L!CloseOf(status)
  /\ UNCHANGED <<status, error, cancelVars, expandVars, cursor, fate, counters>>

-----------------------------------------------------------------------------
(* expand() *)

Begin ==
  /\ pc = "begin"
  /\ status' = "running"
  /\ pc' = "started"
  /\ UNCHANGED <<error, cancelVars, expandVars, cursor, fate, counters, close>>

\* record_job_started answered, failed or was cancelled: the job goes on.
StartedRecorded ==
  /\ pc = "started"
  /\ pc' = "expand"
  /\ UNCHANGED <<status, error, cancelVars, expandVars, cursor, fate, counters,
                 close>>

\* The walk of the archive: n files staged and listed, k entries skipped, of
\* which the first Kept come back as samples.
ExpandOk(n, k) ==
  /\ pc = "expand"
  /\ listed' = n
  /\ total' = n
  /\ unreadable' = k
  /\ LET samples == IF k < Kept THEN k ELSE Kept
     IN  filesSkipped' = filesSkipped + samples + (k - samples)
  /\ pc' = "loop"
  /\ UNCHANGED <<status, error, cancelVars, attempt, orphans, next, waves,
                 consumed, fate, filesStarted, filesSucceeded, filesFailed, close>>

\* A retryable error, a crash or a missed heartbeat: Temporal starts the next
\* attempt, while an attempt it only lost sight of goes on somewhere.
ExpandRetry ==
  /\ pc = "expand"
  /\ attempt < ExpandAttempts
  /\ attempt' = attempt + 1
  /\ orphans' \in {orphans, orphans + 1}
  /\ UNCHANGED <<pc, status, error, cancelVars, listed, unreadable, cursor, fate,
                 counters, close>>

\* Such an attempt writes its own manifest over the one of the job: the key is
\* the same, the contents of a URL need not be.
StaleManifest ==
  /\ orphans > 0
  /\ orphans' = orphans - 1
  /\ listed' \in 0..MaxFiles
  /\ UNCHANGED <<pc, status, error, cancelVars, attempt, unreadable, cursor, fate,
                 counters, close>>

\* A non-retryable error, or the last attempt failed.
ExpandFails ==
  /\ pc = "expand"
  /\ Fail("activity")
  /\ UNCHANGED <<cancelVars, expandVars, cursor, fate, counters, close>>

\* The activity inherits the run's cancellation; its Cancelled error is handled
\* like any other.
ExpandCancelled ==
  /\ pc = "expand" /\ tcancel
  /\ Fail("cancelled")
  /\ UNCHANGED <<cancelVars, expandVars, cursor, fate, counters, close>>

-----------------------------------------------------------------------------
(* The loop over the manifest *)

CancelAtLoop ==
  /\ pc = "loop" /\ cancelRequested
  /\ FinishCancelled
  /\ UNCHANGED <<cancelVars, expandVars, cursor, fate, counters, close>>

\* After WavesPerRun waves, or earlier when Temporal suggests it: the position
\* and the progress go into the input of the next run, which starts from a
\* default state and with a cancellation token of its own.
ContinueAsNew ==
  /\ pc = "loop" /\ next < total /\ ~cancelRequested
  /\ waves > 0
  /\ carried' = cancelRequested
  /\ cancelRequested' = FALSE
  /\ tcancel' = FALSE
  /\ waves' = 0
  /\ pc' = "resume"
  /\ UNCHANGED <<status, error, expandVars, total, next, consumed, fate, counters,
                 close>>

\* Mutant of Resume: only the position is restored, not the progress.
ResumeWithoutProgress ==
  /\ pc = "resume"
  /\ filesStarted' = 0 /\ filesSucceeded' = 0
  /\ filesFailed' = 0 /\ filesSkipped' = 0
  /\ pc' = "loop"
  /\ UNCHANGED <<status, error, cancelVars, expandVars, cursor, fate, close>>

\* The next run's first workflow task: the carried progress replaces the state.
Resume ==
  /\ pc = "resume"
  /\ cancelRequested' = carried
  /\ pc' = "loop"
  /\ UNCHANGED <<status, error, carried, tcancel, expandVars, cursor, fate,
                 counters, close>>

\* Ask prepare_archive_files to route the next page of the manifest.
StartWave ==
  /\ pc = "loop" /\ next < total /\ ~cancelRequested
  /\ waves < WavesPerRun
  /\ pc' = "prepare"
  /\ UNCHANGED <<status, error, cancelVars, expandVars, cursor, fate, counters,
                 close>>

\* Mutant of Page: the page starts at the last file handed over, not after it.
PageFromLast == {f \in File : next <= f /\ f <= next + Wave /\ f <= listed}

\* The entries the activity reads: at most Wave of those still listed.
Page == {f \in File : next < f /\ f <= next + Wave /\ f <= listed}

\* Every file of the page is skipped (no pipeline handles its type), refused
\* (no destination, or another index than the one the route names) or gets a
\* job, and the jobs start at once.
PrepareOk(skip, refuse) ==
  LET jobs == Page \ (skip \cup refuse)
  IN  /\ pc = "prepare"
      /\ Page # {}
      /\ consumed' = Cardinality(Page)
      /\ fate' = [f \in File |-> IF f \notin Page THEN fate[f]
                                 ELSE IF f \in skip THEN "skipped"
                                 ELSE IF f \in refuse THEN "refused"
                                 ELSE "running"]
      /\ filesSkipped' = filesSkipped + Cardinality(skip)
      /\ filesFailed' = filesFailed + Cardinality(refuse)
      /\ filesStarted' = filesStarted + Cardinality(jobs)
      /\ pc' = "children"
      /\ UNCHANGED <<status, error, cancelVars, expandVars, total, next, waves,
                     filesSucceeded, close>>

\* Mutant of PrepareEmpty: an empty page is taken for a wave.
PrepareEmptyGoesOn ==
  /\ pc = "prepare"
  /\ Page = {}
  /\ waves' = waves + 1
  /\ pc' = "loop"
  /\ UNCHANGED <<status, error, cancelVars, expandVars, total, next, consumed,
                 fate, counters, close>>

\* The manifest holds fewer files than the expansion reported.
PrepareEmpty ==
  /\ pc = "prepare"
  /\ Page = {}
  /\ Fail("manifest")
  /\ UNCHANGED <<cancelVars, expandVars, cursor, fate, counters, close>>

PrepareFails ==
  /\ pc = "prepare"
  /\ Fail("activity")
  /\ UNCHANGED <<cancelVars, expandVars, cursor, fate, counters, close>>

PrepareCancelled ==
  /\ pc = "prepare" /\ tcancel
  /\ Fail("cancelled")
  /\ UNCHANGED <<cancelVars, expandVars, cursor, fate, counters, close>>

\* run_file(): a file's job ended, in success or in any other way (it did not
\* start, failed, or was cancelled by its own client or with its parent).
FileEnds(f, end) ==
  /\ pc = "children"
  /\ fate[f] = "running"
  /\ fate' = [fate EXCEPT ![f] = end]
  /\ UNCHANGED <<pc, status, error, cancelVars, expandVars, cursor, counters,
                 close>>

\* The files of the wave under way that ended so.
Ended(end) == {f \in File : next < f /\ f <= next + consumed /\ fate[f] = end}

\* Mutant of JoinWave: the wave is over as soon as one of its files is.
JoinFirst ==
  /\ pc = "children"
  /\ Ended("succeeded") # {}
  /\ filesSucceeded' = filesSucceeded + Cardinality(Ended("succeeded"))
  /\ filesFailed' = filesFailed + Cardinality(Ended("failed"))
  /\ next' = next + consumed
  /\ waves' = waves + 1
  /\ consumed' = 0
  /\ pc' = "loop"
  /\ UNCHANGED <<status, error, cancelVars, expandVars, total, fate, filesStarted,
                 filesSkipped, close>>

\* join_all: the wave is over; count it and move the cursor.
JoinWave ==
  /\ pc = "children"
  /\ Ended("running") = {}
  /\ filesSucceeded' = filesSucceeded + Cardinality(Ended("succeeded"))
  /\ filesFailed' = filesFailed + Cardinality(Ended("failed"))
  /\ next' = next + consumed
  /\ waves' = waves + 1
  /\ consumed' = 0
  /\ pc' = "loop"
  /\ UNCHANGED <<status, error, cancelVars, expandVars, total, fate, filesStarted,
                 filesSkipped, close>>

\* Mutant of OutcomeError: one good file is enough.
OutcomeAnyFile == filesSucceeded = 0

\* outcome_error(): a failed file, or nothing ingested at all, fails the job.
OutcomeError == filesFailed > 0 \/ filesSucceeded = 0

\* The loop is over.
EndFailed ==
  /\ pc = "loop" /\ next >= total /\ ~cancelRequested
  /\ OutcomeError
  /\ Fail("files")
  /\ UNCHANGED <<cancelVars, expandVars, cursor, fate, counters, close>>

EndSucceeded ==
  /\ pc = "loop" /\ next >= total /\ ~cancelRequested
  /\ ~OutcomeError
  /\ status' = "succeeded"
  /\ pc' = "finish"
  /\ UNCHANGED <<error, cancelVars, expandVars, cursor, fate, counters, close>>

-----------------------------------------------------------------------------
(* Cancellation *)

\* The cancel signal.  Its handler may run before run() is first polled, in
\* the first run and in a continued one alike.
CancelSignal ==
  /\ close = "open" /\ ~cancelRequested
  /\ cancelRequested' = TRUE
  /\ UNCHANGED <<pc, status, error, carried, tcancel, expandVars, cursor, fate,
                 counters, close>>

\* Temporal's own cancellation, which the gateway asks for after the signal and
\* an operator without it.
TemporalCancel ==
  /\ close = "open" /\ ~tcancel
  /\ tcancel' = TRUE
  /\ UNCHANGED <<pc, status, error, cancelRequested, carried, expandVars, cursor,
                 fate, counters, close>>

-----------------------------------------------------------------------------

Work ==
  \/ FinishRecorded \/ Begin \/ StartedRecorded
  \/ \E n \in 0..MaxFiles, k \in 0..MaxUnreadable : ExpandOk(n, k)
  \/ ExpandRetry \/ ExpandFails \/ ExpandCancelled
  \/ CancelAtLoop \/ ContinueAsNew \/ Resume \/ StartWave
  \/ \E skip \in SUBSET Page : \E refuse \in SUBSET (Page \ skip) :
       PrepareOk(skip, refuse)
  \/ PrepareEmpty \/ PrepareFails \/ PrepareCancelled
  \/ \E f \in File : \E end \in {"succeeded", "failed"} : FileEnds(f, end)
  \/ JoinWave \/ EndFailed \/ EndSucceeded

Next == Work \/ StaleManifest \/ CancelSignal \/ TemporalCancel

Spec == Init /\ [][Next]_vars

\* Temporal runs the workflow's tasks, retries and times out its activities and
\* closes its children; nobody has to cancel and no lost attempt has to finish.
FairSpec == Spec /\ WF_vars(Work)

-----------------------------------------------------------------------------
(* Properties *)

\* The entries routed so far, the wave under way included.
Seen == {f \in File : f <= next + consumed}

Became(S, F) == {f \in S : fate[f] \in F}

Merged == {f \in File : f <= next}

\* The cursor and the files agree: exactly the entries before it, and those of
\* the wave under way, were routed.  This is what makes a run continued as new
\* pick up where the last one stopped (ArchiveResume::next).
CursorExact == \A f \in File : fate[f] = "none" <=> f \notin Seen

\* progress.archive tells the truth about every file, in every run of the job:
\* the counts survive waves, retried expansions and continue-as-new.
CountsExact ==
  /\ filesSucceeded = Cardinality(Became(Merged, {"succeeded"}))
  /\ filesFailed = Cardinality(Became(Merged, {"failed"}))
                   + Cardinality(Became(Seen, {"refused"}))
  /\ filesSkipped = unreadable + Cardinality(Became(Seen, {"skipped"}))
  /\ filesStarted = Cardinality(Became(Seen, {"running", "succeeded", "failed"}))

\* Cursor, counts and files stay one story across waves, retried expansions and
\* continue-as-new: no file is passed over, and none is counted as what it was not.
ProgressExact == CursorExact /\ CountsExact

\* "The archive job succeeds when every file it handed to a pipeline succeeded
\* and at least one did" (archive_workflow.rs, module comment), and no file of
\* the manifest was left unrouted.
SucceededMeansIngested ==
  status = "succeeded" =>
    /\ \A f \in File : f <= total => fate[f] \in {"succeeded", "skipped"}
    /\ \E f \in File : fate[f] = "succeeded"

\* "A wave finishes before the next starts, so at most WAVE files of one
\* archive run at once" (archive_workflow.rs, module comment).
OneWaveAtATime ==
  /\ \A f \in Merged : fate[f] # "running"
  /\ Cardinality({f \in File : fate[f] = "running"}) <= Wave

\* No file is handed to a pipeline twice, and its outcome never changes: no
\* wave overlaps an earlier one, in this run or after continue-as-new.
EachFileOnce ==
  [][\A f \in File : fate[f] \notin {"none", "running"} => fate'[f] = fate[f]]_vars

\* Every archive job closes.
EventuallyCloses == <>(close # "open")

\* The job is what the gateway takes it for: a job like any other.
ImplementsLifecycle == L!Spec

-----------------------------------------------------------------------------
(* The inductive invariant of the proofs *)

\* Where run() is suspended fixes the rest of its state.
Shape ==
  /\ orphans < attempt
  /\ next + consumed <= MaxFiles
  /\ pc # "children" => consumed = 0
  /\ pc \in {"prepare", "children"} => waves < WavesPerRun
  /\ pc \in {"begin", "started", "expand"} => next = 0 /\ unreadable = 0
  /\ pc = "begin" => status = "queued"
  /\ pc \notin {"begin", "finish", "closed"} => status = "running"
  /\ pc \in {"finish", "closed"} => status \in L!Terminal
  /\ close = "open" <=> pc # "closed"

\* What the end of run() looked at is still so after it.
Decided ==
  status = "succeeded" => next >= total /\ filesFailed = 0 /\ filesSucceeded > 0

IInv == TypeOK /\ Shape /\ Decided /\ CursorExact /\ CountsExact /\ OneWaveAtATime

=============================================================================

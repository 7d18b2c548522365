---------------------------- MODULE PipelineJob -----------------------------
(***************************************************************************)
(* One execution of PipelineWorkflow (crates/worker/src/workflow.rs): the   *)
(* waves of steps over the pipeline's DAG, the activities that carry the    *)
(* steps out (crates/worker/src/activity.rs), cancellation by signal and by *)
(* Temporal, and the usage report that ends every job.                      *)
(*                                                                          *)
(* The pipeline is a constant: Order is what PipelineDefinition::validate   *)
(* returned for it, Deps its depends_on lists.  Outputs are abstracted to   *)
(* the set of steps that have one (`done`), a fan-out to its number of      *)
(* branches, and billable units to the set of branches that earned them.    *)
(***************************************************************************)
EXTENDS Naturals, Sequences, FiniteSets

CONSTANTS Step,        \* step ids of the pipeline
          Order,       \* the steps in validate()'s topological order
          Deps,        \* depends_on: the steps each step waits for
          FanOut,      \* the steps that declare fan_out
          MaxBranches, \* bound on the branches of one fanned-out step
          MaxAttempts, \* retry.max_attempts of every step (at least 1)
          NoStep       \* progress.current_step = None

\* What validate() guarantees about a definition it accepts.
ASSUME OrderAssumption ==
  /\ Order \in Seq(Step)
  /\ \A s \in Step : \E i \in 1..Len(Order) : Order[i] = s
  /\ \A i, j \in 1..Len(Order) : Order[i] = Order[j] => i = j
  /\ Deps \in [Step -> SUBSET Step]
  /\ \A i \in 1..Len(Order) : \A d \in Deps[Order[i]] :
       \E j \in 1..Len(Order) : j < i /\ Order[j] = d
  /\ FanOut \subseteq {s \in Step : Cardinality(Deps[s]) = 1}

ASSUME BoundAssumption ==
  /\ IsFiniteSet(Step) /\ Step # {}
  /\ MaxBranches \in Nat \ {0}
  /\ MaxAttempts \in Nat \ {0}
  /\ NoStep \notin Step

VARIABLES valid,           \* whether validate() accepts the definition
          pc,              \* where run() is suspended
          status,          \* progress.status
          currentStep,     \* progress.current_step
          completed,       \* progress.completed_steps
          results,         \* progress.steps
          cancelRequested, \* progress.cancel_requested (the cancel signal)
          tcancel,         \* the execution's Temporal cancellation token fired
          done,            \* the keys of `done`: steps with an output
          wave,            \* ready steps whose results are not merged yet
          phase,           \* per step: what its run_step future is doing
          total,           \* per step: the number of its branches
          branch,          \* per step and branch: its execute_step activity
          usage,           \* the JobUsageInput handed to record_usage
          close            \* how the execution closed

progressVars == <<status, currentStep, completed, results>>
stepVars     == <<phase, total, branch>>
vars == <<valid, pc, progressVars, cancelRequested, tcancel, done, wave,
          stepVars, usage, close>>

L == INSTANCE JobLifecycle

Branch == 1..MaxBranches

BranchState == [st : {"unused", "running", "ok", "failed", "cancelled"},
                attempt : 1..MaxAttempts]

Unused  == [st |-> "unused",  attempt |-> 1]
Started == [st |-> "running", attempt |-> 1]

StepResult == [step : Step, status : {"succeeded", "failed"},
               units : SUBSET Branch]

NoUsage == [status |-> "none", steps |-> <<>>]

TypeOK ==
  /\ valid \in BOOLEAN
  /\ pc \in {"validate", "started", "loop", "wave", "merge", "usage", "closed"}
  /\ status \in L!JobStatus
  /\ currentStep \in Step \cup {NoStep}
  /\ completed \in Nat
  /\ results \in Seq(StepResult)
  /\ cancelRequested \in BOOLEAN
  /\ tcancel \in BOOLEAN
  /\ done \in SUBSET Step
  /\ wave \in SUBSET Step
  /\ phase \in [Step -> {"idle", "expanding", "running", "unexpanded",
                         "expand_cancelled"}]
  /\ total \in [Step -> 0..MaxBranches]
  /\ branch \in [Step -> [Branch -> BranchState]]
  /\ usage \in [status : {"none"} \cup L!Terminal, steps : Seq(StepResult)]
  /\ close \in L!CloseState

Init ==
  /\ valid \in BOOLEAN
  /\ pc = "validate"
  /\ status = "queued"
  /\ currentStep = NoStep
  /\ completed = 0
  /\ results = <<>>
  /\ cancelRequested = FALSE
  /\ tcancel = FALSE
  /\ done = {}
  /\ wave = {}
  /\ phase = [s \in Step |-> "idle"]
  /\ total = [s \in Step |-> 0]
  /\ branch = [s \in Step |-> [b \in Branch |-> Unused]]
  /\ usage = NoUsage
  /\ close = "open"

-----------------------------------------------------------------------------
(* Helpers *)

\* ready_steps: not done, every dependency done.
Ready == {s \in Step \ done : Deps[s] \subseteq done}

\* The member of a set of steps that comes first in Order.
FirstOf(S) == Order[CHOOSE i \in 1..Len(Order) :
                      /\ Order[i] \in S
                      /\ \A j \in 1..Len(Order) : Order[j] \in S => i <= j]

\* Mutant of Settled: the join waits for an output or an error only.
SettledUncancelled(s) ==
  \/ phase[s] \in {"unexpanded", "expand_cancelled"}
  \/ /\ phase[s] = "running"
     /\ \A b \in 1..total[s] : branch[s][b].st \in {"ok", "failed"}

\* A branch's activity has an answer the join can use.
Settled(s) ==
  \/ phase[s] \in {"unexpanded", "expand_cancelled"}
  \/ /\ phase[s] = "running"
     /\ \A b \in 1..total[s] : branch[s][b].st # "running"

\* Mutant of Outcome: one good branch is enough.
OutcomeAnyBranch(s) ==
  IF phase[s] = "unexpanded" \/ \A b \in 1..total[s] : branch[s][b].st = "failed"
  THEN "failed"
  ELSE IF \/ phase[s] = "expand_cancelled"
          \/ \E b \in 1..total[s] : branch[s][b].st = "cancelled"
       THEN "cancelled" ELSE "ok"

\* What run_step returns: any failed branch fails the step, else any cancelled
\* branch cancels it, else it is Ok with the outputs of every branch.
Outcome(s) ==
  IF phase[s] = "unexpanded" \/ \E b \in 1..total[s] : branch[s][b].st = "failed"
  THEN "failed"
  ELSE IF \/ phase[s] = "expand_cancelled"
          \/ \E b \in 1..total[s] : branch[s][b].st = "cancelled"
       THEN "cancelled"
       ELSE "ok"

\* emit_usage: freeze the step results into the usage event and start the
\* record_usage activity, on a token of its own so no cancellation reaches it.
EmitUsage(st, steps) == usage' = [status |-> st, steps |-> steps] /\ pc' = "usage"

\* fan_out_branches: one branch per document up to the cap, groups of documents
\* beyond it, none at all for an empty output.
FanOutBranches == 0..MaxBranches

\* The branches 1..n of a step start at attempt 1.
StartBranches(n) == [b \in Branch |-> IF b <= n THEN Started ELSE Unused]

-----------------------------------------------------------------------------
(* The run function *)

\* validate() rejects the definition: the execution fails at once and nothing
\* is reported.
RejectPipeline ==
  /\ pc = "validate" /\ ~valid
  /\ status' = "failed"
  /\ pc' = "closed"
  /\ close' = "failed"
  /\ UNCHANGED <<valid, currentStep, completed, results, cancelRequested,
                 tcancel, done, wave, stepVars, usage>>

Begin ==
  /\ pc = "validate" /\ valid
  /\ status' = "running"
  /\ pc' = "started"
  /\ UNCHANGED <<valid, currentStep, completed, results, cancelRequested,
                 tcancel, done, wave, stepVars, usage, close>>

\* record_job_started answered, failed or was cancelled: the job goes on.
JobStartedRecorded ==
  /\ pc = "started"
  /\ pc' = "loop"
  /\ UNCHANGED <<valid, progressVars, cancelRequested, tcancel, done, wave,
                 stepVars, usage, close>>

\* The first poll of run_step, for every ready step.  A plain step is one
\* activity; a fan-out's upstream output is inline and split at once, or was
\* spilled, and then expand_fan_out runs first.
RunSteps(inline, n) ==
  LET width(s) == IF s \in FanOut THEN n[s] ELSE 1
      spilled(s) == s \in FanOut \ inline
  IN  /\ phase' = [s \in Step |->
                     IF s \notin Ready THEN phase[s]
                     ELSE IF spilled(s) THEN "expanding" ELSE "running"]
      /\ total' = [s \in Step |->
                     IF s \in Ready /\ ~spilled(s) THEN width(s) ELSE total[s]]
      /\ branch' = [s \in Step |->
                     IF s \in Ready /\ ~spilled(s)
                     THEN StartBranches(width(s)) ELSE branch[s]]

\* Start every ready step.
ScheduleWave ==
  /\ pc = "loop" /\ ~cancelRequested /\ Ready # {}
  /\ wave' = Ready
  /\ currentStep' = FirstOf(Ready)
  /\ \E inline \in SUBSET FanOut, n \in [FanOut -> FanOutBranches] :
       RunSteps(inline, n)
  /\ pc' = "wave"
  /\ UNCHANGED <<valid, status, completed, results, cancelRequested, tcancel,
                 done, usage, close>>

\* join_all: every run_step future of the wave has returned.
JoinWave ==
  /\ pc = "wave"
  /\ \A s \in wave : Settled(s)
  /\ pc' = "merge"
  /\ UNCHANGED <<valid, progressVars, cancelRequested, tcancel, done, wave,
                 stepVars, usage, close>>

\* Mutant of MergeOk: the output is not stored.
MergeOkForgetsOutput ==
  /\ pc = "merge" /\ wave # {}
  /\ LET s == FirstOf(wave)
     IN  /\ Outcome(s) = "ok"
         /\ completed' = completed + 1
         /\ results' = Append(results, [step |-> s, status |-> "succeeded",
                                        units |-> 1..total[s]])
         /\ wave' = wave \ {s}
  /\ UNCHANGED <<valid, pc, status, currentStep, cancelRequested, tcancel, done,
                 stepVars, usage, close>>

\* One iteration of the loop over the joined results, in Order: Ok.
MergeOk ==
  /\ pc = "merge" /\ wave # {}
  /\ LET s == FirstOf(wave)
     IN  /\ Outcome(s) = "ok"
         /\ completed' = completed + 1
         /\ results' = Append(results, [step |-> s, status |-> "succeeded",
                                        units |-> 1..total[s]])
         /\ done' = done \cup {s}
         /\ wave' = wave \ {s}
  /\ UNCHANGED <<valid, pc, status, currentStep, cancelRequested, tcancel,
                 stepVars, usage, close>>

\* Mutant of MergeFailed: the event is built before the failed step is pushed.
MergeFailedEarlyUsage ==
  /\ pc = "merge" /\ wave # {}
  /\ LET s == FirstOf(wave)
     IN  /\ Outcome(s) = "failed"
         /\ results' = Append(results, [step |-> s, status |-> "failed",
                                        units |-> {}])
         /\ EmitUsage("failed", results)
  /\ status' = "failed"
  /\ UNCHANGED <<valid, currentStep, completed, cancelRequested, tcancel, done,
                 wave, stepVars, close>>

\* ... Err(Failed): the job fails; the rest of the wave is not looked at.
MergeFailed ==
  /\ pc = "merge" /\ wave # {}
  /\ LET s == FirstOf(wave)
         r == Append(results, [step |-> s, status |-> "failed", units |-> {}])
     IN  /\ Outcome(s) = "failed"
         /\ results' = r
         /\ EmitUsage("failed", r)
  /\ status' = "failed"
  /\ UNCHANGED <<valid, currentStep, completed, cancelRequested, tcancel, done,
                 wave, stepVars, close>>

\* finish_cancelled.
FinishCancelled ==
  /\ status' = "cancelled"
  /\ currentStep' = NoStep
  /\ EmitUsage("cancelled", results)
  /\ UNCHANGED <<valid, completed, results, cancelRequested, tcancel, done,
                 wave, stepVars, close>>

\* Mutant of MergeCancelled: the cancel flag is looked at between two results as well.
MergeCancelChecked ==
  /\ pc = "merge" /\ wave # {}
  /\ cancelRequested \/ Outcome(FirstOf(wave)) = "cancelled"
  /\ FinishCancelled

\* ... Err(Cancelled).
MergeCancelled ==
  /\ pc = "merge" /\ wave # {}
  /\ Outcome(FirstOf(wave)) = "cancelled"
  /\ FinishCancelled

\* The whole wave is merged: back to the top of the loop.
MergeEnd ==
  /\ pc = "merge" /\ wave = {}
  /\ pc' = "loop"
  /\ UNCHANGED <<valid, progressVars, cancelRequested, tcancel, done, wave,
                 stepVars, usage, close>>

\* The check at the top of the loop.
CancelAtLoop ==
  /\ pc = "loop" /\ cancelRequested
  /\ FinishCancelled

\* Mutant of Succeed: the loop is left although steps are ready.
SucceedEarly ==
  /\ pc = "loop" /\ ~cancelRequested /\ done # {}
  /\ status' = "succeeded"
  /\ currentStep' = NoStep
  /\ EmitUsage("succeeded", results)
  /\ UNCHANGED <<valid, completed, results, cancelRequested, tcancel, done,
                 wave, stepVars, close>>

\* Nothing is ready any more.
Succeed ==
  /\ pc = "loop" /\ ~cancelRequested /\ Ready = {}
  /\ status' = "succeeded"
  /\ currentStep' = NoStep
  /\ EmitUsage("succeeded", results)
  /\ UNCHANGED <<valid, completed, results, cancelRequested, tcancel, done,
                 wave, stepVars, close>>

\* Mutant of UsageRecorded: an error of record_usage fails the execution.
UsageErrorFailsJob ==
  /\ pc = "usage"
  /\ pc' = "closed"
  /\ close' \in {L!CloseOf(status), "failed"}
  /\ UNCHANGED <<valid, progressVars, cancelRequested, tcancel, done, wave,
                 stepVars, usage>>

\* record_usage completed, was refused for good or ran out of its window: its
\* error is swallowed and the execution closes with the job's own outcome.
UsageRecorded ==
  /\ pc = "usage"
  /\ pc' = "closed"
  /\ close' = L!CloseOf(status)
  /\ UNCHANGED <<valid, progressVars, cancelRequested, tcancel, done, wave,
                 stepVars, usage>>

-----------------------------------------------------------------------------
(* The activities of a wave *)

\* expand_fan_out answered with n branches, each of which is scheduled.
ExpandOk(s) ==
  /\ phase[s] = "expanding"
  /\ \E n \in FanOutBranches :
       /\ total' = [total EXCEPT ![s] = n]
       /\ branch' = [branch EXCEPT ![s] = StartBranches(n)]
  /\ phase' = [phase EXCEPT ![s] = "running"]
  /\ UNCHANGED <<valid, pc, progressVars, cancelRequested, tcancel, done, wave,
                 usage, close>>

\* expand_fan_out failed for good: the blob is gone, or three attempts did.
ExpandFail(s) ==
  /\ phase[s] = "expanding"
  /\ phase' = [phase EXCEPT ![s] = "unexpanded"]
  /\ UNCHANGED <<valid, pc, progressVars, cancelRequested, tcancel, done, wave,
                 total, branch, usage, close>>

\* The workflow's cancellation reached the expand_fan_out activity.
ExpandCancelled(s) ==
  /\ phase[s] = "expanding" /\ tcancel
  /\ phase' = [phase EXCEPT ![s] = "expand_cancelled"]
  /\ UNCHANGED <<valid, pc, progressVars, cancelRequested, tcancel, done, wave,
                 total, branch, usage, close>>

\* The answer of one execute_step activity.
Answer(s, b, st) ==
  /\ branch[s][b].st = "running"
  /\ branch' = [branch EXCEPT ![s][b] = [st |-> st, attempt |-> @.attempt]]
  /\ UNCHANGED <<valid, pc, progressVars, cancelRequested, tcancel, done, wave,
                 phase, total, usage, close>>

StepOk(s, b) == Answer(s, b, "ok")

\* A non-retryable error on any attempt, or any error on the last one.
StepFail(s, b) == Answer(s, b, "failed")

\* The cancellation reached the activity before it answered.
StepCancelled(s, b) == tcancel /\ Answer(s, b, "cancelled")

\* A retryable error, a start-to-close or a heartbeat timeout: Temporal runs
\* another attempt while the policy allows one.
StepRetry(s, b) ==
  /\ branch[s][b].st = "running"
  /\ branch[s][b].attempt < MaxAttempts
  /\ branch' = [branch EXCEPT ![s][b] = [st |-> @.st, attempt |-> @.attempt + 1]]
  /\ UNCHANGED <<valid, pc, progressVars, cancelRequested, tcancel, done, wave,
                 phase, total, usage, close>>

-----------------------------------------------------------------------------
(* Cancellation, at any point of an open execution *)

\* The cancel signal.
CancelSignal ==
  /\ close = "open" /\ ~cancelRequested
  /\ cancelRequested' = TRUE
  /\ UNCHANGED <<valid, pc, progressVars, tcancel, done, wave, stepVars, usage,
                 close>>

\* A Temporal cancellation request.
TemporalCancel ==
  /\ close = "open" /\ ~tcancel
  /\ tcancel' = TRUE
  /\ UNCHANGED <<valid, pc, progressVars, cancelRequested, done, wave, stepVars,
                 usage, close>>

\* A closed execution takes no further step.
Closed == close # "open" /\ UNCHANGED vars

Run == \/ RejectPipeline \/ Begin \/ JobStartedRecorded \/ ScheduleWave
       \/ JoinWave \/ MergeOk \/ MergeFailed \/ MergeCancelled \/ MergeEnd
       \/ CancelAtLoop \/ Succeed \/ UsageRecorded

Expand(s) == ExpandOk(s) \/ ExpandFail(s) \/ ExpandCancelled(s)

Execute(s, b) == \/ StepOk(s, b) \/ StepFail(s, b)
                 \/ StepCancelled(s, b) \/ StepRetry(s, b)

Next == \/ Run
        \/ \E s \in Step : Expand(s)
        \/ \E s \in Step, b \in Branch : Execute(s, b)
        \/ CancelSignal
        \/ TemporalCancel
        \/ Closed

\* Temporal keeps handing out workflow tasks and every activity has a
\* start-to-close timeout, so each pending answer comes; nobody has to cancel.
Fairness == /\ WF_vars(Run)
            /\ \A s \in Step : WF_vars(Expand(s))
            /\ \A s \in Step, b \in Branch : WF_vars(Execute(s, b))

Spec == Init /\ [][Next]_vars

FairSpec == Spec /\ Fairness

-----------------------------------------------------------------------------
(* Properties *)

\* Every step that was ever started had all its dependencies' outputs, in
\* whatever order the activities of the earlier waves answered.
DependenciesFirst ==
  \A s \in Step : phase[s] # "idle" => Deps[s] \subseteq done

\* A job that reports success ran every step of its pipeline: the scheduling
\* loop never runs dry with a step left over.
SucceededMeansAllDone == status = "succeeded" => done = Step

\* The progress counters, the output map and the billed step results are the
\* same facts: each step is reported at most once, and a step counts as
\* completed exactly when it has an output and a succeeded result.
ResultsAgree ==
  /\ completed = Cardinality(done)
  /\ done = {results[i].step : i \in {k \in DOMAIN results :
                                       results[k].status = "succeeded"}}
  /\ \A i, j \in DOMAIN results : results[i].step = results[j].step => i = j

\* Steps run in the order of their dependencies and leave one result each.
StepsInOrderOnce == DependenciesFirst /\ ResultsAgree

\* No job is reported cancelled unless somebody asked for it, by the signal or
\* through Temporal, whatever its activities answered.
CancelledMeansAsked == status = "cancelled" => cancelRequested \/ tcancel

\* The usage event that bills the job carries the job's final outcome and every
\* step result, and a closed execution reported one unless its definition was
\* refused: no cancellation can come between the outcome and its report.
UsageFinal ==
  /\ usage # NoUsage => usage = [status |-> status, steps |-> results]
  /\ close # "open" /\ valid => usage # NoUsage

\* A billed step result stands for work that happened: all its branches answered
\* with an output.
BilledWorkHappened ==
  \A i \in DOMAIN usage.steps : \A b \in usage.steps[i].units :
     branch[usage.steps[i].step][b].st = "ok"

\* The steps that finished with an output, merged or not, and those the usage event
\* bills with all their branches.
Finished == {s \in Step : phase[s] = "running" /\ Settled(s) /\ Outcome(s) = "ok"}

Billed == {s \in Step : \E i \in DOMAIN usage.steps :
             usage.steps[i].step = s /\ usage.steps[i].units = 1..total[s]}

Before(r, s) == \E i, j \in 1..Len(Order) : i < j /\ Order[i] = r /\ Order[j] = s

\* "A failed job still consumed tokens and CPU, so meter it before failing.
\* Cancellation does the same": a finished step is billed with all its branches,
\* whatever the order of the answers, except behind a failed or cancelled step of the
\* same wave, at which the merge stops.  A cancel signal lets the wave it falls into
\* finish, so a job that only the signal cancelled bills every step it started.
FinishedWorkBilled ==
  usage # NoUsage =>
     /\ \A s \in Finished \ Billed : \E r \in wave : Outcome(r) # "ok" /\ Before(r, s)
     /\ status = "cancelled" /\ ~tcancel =>
          {s \in Step : phase[s] # "idle"} \subseteq Finished \cap Billed

-----------------------------------------------------------------------------
(* The inductive invariant behind the safety properties *)

\* Where run() is suspended decides what has been shown and reported.
Stages ==
  /\ pc = "validate" => status = "queued"
  /\ pc \in {"started", "loop", "wave", "merge"} => status = "running" /\ valid
  /\ pc \in {"usage", "closed"} => status \in L!Terminal
  /\ pc = "usage" => valid
  /\ pc = "closed" => close = L!CloseOf(status)
  /\ pc # "closed" => close = "open"
  /\ IF pc = "usage" \/ (pc = "closed" /\ valid)
     THEN usage = [status |-> status, steps |-> results]
     ELSE usage = NoUsage

\* The steps with an output are closed under depends_on, a wave holds started
\* steps without one, and no step is started outside a wave.
Waves ==
  /\ \A s \in done : Deps[s] \subseteq done
  /\ \A s \in wave : s \notin done /\ Deps[s] \subseteq done
  /\ \A s \in Step : phase[s] # "idle" => s \in done \cup wave
  /\ pc \in {"validate", "started", "loop"} => wave = {}

\* While the job runs, every step result is a success.
AllSucceededSoFar ==
  pc \in {"validate", "started", "loop", "wave", "merge"} =>
     \A i \in DOMAIN results : results[i].status = "succeeded"

\* A cancelled activity is the work of a Temporal cancellation.
CancelledActivities ==
  \A s \in Step :
     /\ phase[s] = "expand_cancelled" => tcancel
     /\ \A k \in Branch : branch[s][k].st = "cancelled" => tcancel

\* The branches of a step are started, and a joined step's are settled for good;
\* a step with an output was not waiting for its expansion.
Joined ==
  /\ pc \in {"merge", "usage", "closed"} => \A s \in wave : Settled(s)
  /\ \A s \in done : phase[s] = "running"
  /\ \A s \in Step : \A b \in 1..total[s] : branch[s][b].st # "unused"

\* A step has no branches before its expansion.
NoEarlyBranches == \A s \in Step : phase[s] # "running" => total[s] = 0

\* A wave is left half merged only at a step that failed or was cancelled.
HalfMerged ==
  pc \in {"usage", "closed"} /\ wave # {} =>
     /\ status \in {"failed", "cancelled"}
     /\ Outcome(FirstOf(wave)) = IF status = "failed" THEN "failed" ELSE "cancelled"

\* A succeeded step result has the units of all branches.
UnitsComplete ==
  \A i \in DOMAIN results : results[i].status = "succeeded" =>
     results[i].step \in done /\ results[i].units = 1..total[results[i].step]

\* The units of a step result are branches that answered with an output.
UnitsHappened ==
  \A i \in DOMAIN results : \A b \in results[i].units :
     results[i].step \in done /\ branch[results[i].step][b].st = "ok"

IInv == /\ TypeOK
        /\ Stages
        /\ Joined
        /\ UnitsHappened
        /\ UnitsComplete
        /\ NoEarlyBranches
        /\ HalfMerged
        /\ Waves
        /\ AllSucceededSoFar
        /\ CancelledActivities
        /\ SucceededMeansAllDone
        /\ CancelledMeansAsked
        /\ ResultsAgree

-----------------------------------------------------------------------------
(* Temporal properties *)

\* Every job ends, whatever fails or is cancelled.
EventuallyCloses == <>(close # "open")

\* The workflow shows the outside world the life of a job and nothing else.
ImplementsLifecycle == L!Spec

=============================================================================

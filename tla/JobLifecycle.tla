---------------------------- MODULE JobLifecycle ----------------------------
(***************************************************************************)
(* What every job workflow promises to whoever watches it: the status in   *)
(* its progress snapshot (`WorkflowProgress::status`) and the way its       *)
(* Temporal execution closes.  The gateway and the job row only rely on     *)
(* this; PipelineJob and ArchiveJob are shown to implement it.              *)
(***************************************************************************)

VARIABLES status,  \* progress.status, as the `progress` query answers it
          close    \* how the Temporal execution closed, "open" until it does

vars == <<status, close>>

\* JobStatus::is_terminal: no further transition is possible.
Terminal == {"succeeded", "failed", "cancelled"}

JobStatus == {"queued", "running"} \cup Terminal

CloseState == {"open", "completed", "failed", "cancelled"}

\* The close state Temporal shows for a workflow that ended with status st:
\* Ok(..), Err(ApplicationFailure) and Err(WorkflowTermination::cancelled()).
CloseOf(st) == IF st = "succeeded" THEN "completed"
               ELSE IF st = "failed" THEN "failed" ELSE "cancelled"

TypeOK == status \in JobStatus /\ close \in CloseState

Init == status = "queued" /\ close = "open"

\* The first workflow task: the definition is valid, work begins.
Begin == status = "queued" /\ status' = "running" /\ UNCHANGED close

\* The first workflow task refuses the definition and fails the execution.
Reject == /\ status = "queued"
          /\ status' = "failed"
          /\ close' = CloseOf("failed")

\* The outcome is decided; usage and status are still to be reported.
Finish(t) == status = "running" /\ status' = t /\ UNCHANGED close

\* The run function returns.
Close == /\ status \in Terminal
         /\ close = "open"
         /\ close' = CloseOf(status)
         /\ UNCHANGED status

Next == Begin \/ Reject \/ (\E t \in Terminal : Finish(t)) \/ Close

Spec == Init /\ [][Next]_vars

=============================================================================

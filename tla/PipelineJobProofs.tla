------------------------- MODULE PipelineJobProofs --------------------------
(***************************************************************************)
(* Proofs about PipelineJob, for every pipeline validate() accepts and any  *)
(* number of steps, branches and attempts.                                  *)
(***************************************************************************)
EXTENDS PipelineJob, FiniteSetTheorems, WellFoundedInduction, TLAPS

\* A non-empty set of positions in Order has a least one (Order is finite).
LEMMA LeastPosition ==
  ASSUME NEW S, \E i \in 1..Len(Order) : Order[i] \in S
  PROVE  \E i \in 1..Len(Order) :
            /\ Order[i] \in S
            /\ \A j \in 1..Len(Order) : Order[j] \in S => i <= j
<1> DEFINE T == {i \in 1..Len(Order) : Order[i] \in S}
<1>0. Len(Order) \in Nat
  BY OrderAssumption DEF OrderAssumption
<1>1. T \subseteq Nat /\ T # {}
  BY <1>0
<1>2. \E x \in T : \A y \in T : ~ (<<y, x>> \in OpToRel(<, Nat))
  <2> HIDE DEF T
  <2> QED BY <1>1, NatLessThanWellFounded, WFMin, Zenon
<1>3. PICK x \in T : \A y \in T : ~ (<<y, x>> \in OpToRel(<, Nat))
  BY <1>2
<1>4. \A y \in T : ~ (y < x)
  BY <1>1, <1>3 DEF OpToRel
<1>5. \A j \in 1..Len(Order) : Order[j] \in S => x <= j
  BY <1>0, <1>4
<1> QED BY <1>3, <1>5

\* FirstOf picks a member: the merge loop handles a step of the wave.
LEMMA FirstOfMember ==
  ASSUME NEW S \in SUBSET Step, S # {}
  PROVE  FirstOf(S) \in S
<1>1. \E i \in 1..Len(Order) : Order[i] \in S
  BY OrderAssumption DEF OrderAssumption
<1>2. \E i \in 1..Len(Order) :
         /\ Order[i] \in S
         /\ \A j \in 1..Len(Order) : Order[j] \in S => i <= j
  BY <1>1, LeastPosition
<1> QED BY <1>2 DEF FirstOf

\* The scheduling loop cannot run dry early: when no step is ready, all are
\* done, because the first unfinished step in Order has only finished
\* dependencies.
LEMMA NothingReadyAllDone ==
  ASSUME done \in SUBSET Step, Ready = {}
  PROVE  done = Step
<1> SUFFICES ASSUME done # Step
             PROVE  FALSE
  OBVIOUS
<1>0. PICK s \in Step : s \notin done
  OBVIOUS
<1>1. \E i \in 1..Len(Order) : Order[i] \in Step \ done
  BY <1>0, OrderAssumption DEF OrderAssumption
<1>2. PICK i \in 1..Len(Order) :
         /\ Order[i] \in Step \ done
         /\ \A j \in 1..Len(Order) : Order[j] \in Step \ done => i <= j
  BY <1>1, LeastPosition
<1>3. \A d \in Deps[Order[i]] : d \in done
  <2> TAKE d \in Deps[Order[i]]
  <2>1. PICK j \in 1..Len(Order) : j < i /\ Order[j] = d
    BY OrderAssumption DEF OrderAssumption
  <2>2. ~ (i <= j)
    BY <2>1, OrderAssumption DEF OrderAssumption
  <2>3. Order[j] \in Step
    BY OrderAssumption DEF OrderAssumption
  <2> QED BY <1>2, <2>1, <2>2, <2>3
<1>4. Order[i] \in Ready
  BY <1>2, <1>3 DEF Ready
<1> QED BY <1>4

-----------------------------------------------------------------------------
(* Type correctness *)

\* Facts about the small helpers that the action cases share.
LEMMA BranchTypes ==
  /\ Unused \in BranchState /\ Started \in BranchState
  /\ \A n : StartBranches(n) \in [Branch -> BranchState]
BY BoundAssumption DEF BoundAssumption, Unused, Started, BranchState,
                       StartBranches

\* A usage event frozen by EmitUsage has the event's type.
LEMMA UsageTypes ==
  ASSUME NEW st \in L!Terminal, NEW r \in Seq(StepResult)
  PROVE  [status |-> st, steps |-> r]
            \in [status : {"none"} \cup L!Terminal, steps : Seq(StepResult)]
OBVIOUS

\* Answering one activity keeps the table of activities well typed.
LEMMA AnswerTypes ==
  ASSUME TypeOK, NEW s \in Step, NEW b \in Branch,
         NEW st \in {"ok", "failed", "cancelled"}, Answer(s, b, st)
  PROVE  TypeOK'
<1>1. branch' \in [Step -> [Branch -> BranchState]]
  BY DEF Answer, TypeOK, BranchState
<1> QED BY <1>1 DEF Answer, TypeOK, progressVars

\* An answer changes the state of one activity only.
LEMMA AnswerShape ==
  ASSUME TypeOK, NEW s \in Step, NEW b \in Branch, NEW st, Answer(s, b, st),
         NEW t \in Step, NEW k \in Branch
  PROVE  branch'[t][k].st = IF t = s /\ k = b THEN st ELSE branch[t][k].st
<1>1. branch' = [branch EXCEPT ![s][b] = [st |-> st,
                                          attempt |-> branch[s][b].attempt]]
  BY DEF Answer
<1>2. CASE t = s /\ k = b
  BY <1>1, <1>2 DEF TypeOK
<1>3. CASE ~(t = s /\ k = b)
  BY <1>1, <1>3, branch'[t][k] = branch[t][k] DEF TypeOK
<1> QED BY <1>2, <1>3

\* TypeOK is inductive on its own.
LEMMA TypeStep == TypeOK /\ [Next]_vars => TypeOK'
<1> SUFFICES ASSUME TypeOK, [Next]_vars PROVE TypeOK'
  OBVIOUS
<1> USE DEF TypeOK, L!JobStatus, L!Terminal, L!CloseState
<1>1. CASE RejectPipeline
  BY <1>1 DEF RejectPipeline, stepVars
<1>2. CASE Begin
  BY <1>2 DEF Begin, stepVars
<1>3. CASE JobStartedRecorded
  BY <1>3 DEF JobStartedRecorded, stepVars, progressVars
<1>4. CASE ScheduleWave
  <2>1. Ready \in SUBSET Step /\ FirstOf(Ready) \in Step
    <3>1. Ready \in SUBSET Step /\ Ready # {}
      BY <1>4 DEF ScheduleWave, RunSteps, FanOutBranches, Ready
    <3> QED BY <3>1, FirstOfMember
  <2>2. PICK inline \in SUBSET FanOut, n \in [FanOut -> 0..MaxBranches] :
           /\ phase' = [s \in Step |->
                          IF s \notin Ready THEN phase[s]
                          ELSE IF s \in FanOut \ inline THEN "expanding"
                               ELSE "running"]
           /\ total' = [s \in Step |->
                          IF s \in Ready /\ ~(s \in FanOut \ inline)
                          THEN IF s \in FanOut THEN n[s] ELSE 1 ELSE total[s]]
           /\ branch' = [s \in Step |->
                          IF s \in Ready /\ ~(s \in FanOut \ inline)
                          THEN StartBranches(IF s \in FanOut THEN n[s] ELSE 1)
                          ELSE branch[s]]
    BY <1>4, Zenon DEF ScheduleWave, RunSteps, FanOutBranches
  <2>3. phase' \in [Step -> {"idle", "expanding", "running", "unexpanded",
                             "expand_cancelled"}]
    BY <2>2
  <2>4. total' \in [Step -> 0..MaxBranches]
    BY <2>2, BoundAssumption DEF BoundAssumption
  <2>5. branch' \in [Step -> [Branch -> BranchState]]
    BY <2>2, BranchTypes
  <2> QED BY <1>4, <2>1, <2>3, <2>4, <2>5 DEF ScheduleWave, RunSteps, FanOutBranches
<1>5. CASE JoinWave
  BY <1>5 DEF JoinWave, stepVars, progressVars
<1>6. CASE MergeOk
  <2> DEFINE s == FirstOf(wave)
  <2>1. s \in Step
    BY <1>6, FirstOfMember DEF MergeOk
  <2>2. [step |-> s, status |-> "succeeded", units |-> 1..total[s]] \in StepResult
    BY <2>1, BoundAssumption DEF BoundAssumption, StepResult, Branch
  <2> QED BY <1>6, <2>1, <2>2 DEF MergeOk, stepVars
<1>7. CASE MergeFailed
  <2> DEFINE s == FirstOf(wave)
             r == [step |-> s, status |-> "failed", units |-> {}]
  <2>1. r \in StepResult
    BY <1>7, FirstOfMember DEF MergeFailed, StepResult
  <2>2. Append(results, r) \in Seq(StepResult)
    BY <2>1
  <2> QED BY <1>7, <2>2 DEF MergeFailed, EmitUsage, stepVars
<1>8. CASE FinishCancelled
  BY <1>8 DEF FinishCancelled, EmitUsage, stepVars
<1>9. CASE MergeEnd
  BY <1>9 DEF MergeEnd, stepVars, progressVars
<1>10. CASE Succeed
  BY <1>10 DEF Succeed, EmitUsage, stepVars
<1>11. CASE UsageRecorded
  <2>1. L!CloseOf(status) \in L!CloseState
    BY <1>11 DEF L!CloseOf
  <2> QED BY <1>11, <2>1 DEF UsageRecorded, stepVars, progressVars
<1>12. ASSUME NEW s \in Step, Expand(s) PROVE TypeOK'
  <2>1. CASE ExpandOk(s)
    BY <2>1, BranchTypes DEF ExpandOk, FanOutBranches, progressVars
  <2>2. CASE ExpandFail(s)
    BY <2>2 DEF ExpandFail, progressVars
  <2>3. CASE ExpandCancelled(s)
    BY <2>3 DEF ExpandCancelled, progressVars
  <2> QED BY <1>12, <2>1, <2>2, <2>3 DEF Expand
<1>13. ASSUME NEW s \in Step, NEW b \in Branch, Execute(s, b) PROVE TypeOK'
  <2>1. CASE StepOk(s, b)
    BY <2>1, AnswerTypes DEF StepOk
  <2>2. CASE StepFail(s, b)
    BY <2>2, AnswerTypes DEF StepFail
  <2>3. CASE StepCancelled(s, b)
    BY <2>3, AnswerTypes DEF StepCancelled
  <2>4. CASE StepRetry(s, b)
    <3>1. branch' \in [Step -> [Branch -> BranchState]]
      BY <2>4, BoundAssumption DEF BoundAssumption, StepRetry, BranchState
    <3> QED BY <2>4, <3>1 DEF StepRetry, progressVars
  <2> QED BY <1>13, <2>1, <2>2, <2>3, <2>4 DEF Execute
<1>14. CASE CancelSignal
  BY <1>14 DEF CancelSignal, stepVars, progressVars
<1>15. CASE TemporalCancel
  BY <1>15 DEF TemporalCancel, stepVars, progressVars
<1>16. CASE UNCHANGED vars
  BY <1>16 DEF vars, stepVars, progressVars
<1> QED
  BY <1>1, <1>2, <1>3, <1>4, <1>5, <1>6, <1>7, <1>8, <1>9, <1>10, <1>11,
     <1>12, <1>13, <1>14, <1>15, <1>16
     DEF Next, Run, MergeCancelled, CancelAtLoop, Closed

\* The initial state is well typed.
LEMMA InitTypes == Init => TypeOK
<1> SUFFICES ASSUME Init PROVE TypeOK
  OBVIOUS
<1>1. branch \in [Step -> [Branch -> BranchState]]
  BY BranchTypes DEF Init
<1>2. total \in [Step -> 0..MaxBranches]
  BY BoundAssumption DEF Init, BoundAssumption
<1>3. usage \in [status : {"none"} \cup L!Terminal, steps : Seq(StepResult)]
  BY DEF Init, NoUsage
<1>4. /\ status \in L!JobStatus /\ close \in L!CloseState
      /\ results \in Seq(StepResult) /\ completed \in Nat
      /\ currentStep \in Step \cup {NoStep}
  BY DEF Init, L!JobStatus, L!CloseState
<1>5. /\ phase \in [Step -> {"idle", "expanding", "running", "unexpanded",
                              "expand_cancelled"}]
      /\ done \in SUBSET Step /\ wave \in SUBSET Step
  BY DEF Init
<1>6. /\ valid \in BOOLEAN /\ cancelRequested \in BOOLEAN
      /\ tcancel \in BOOLEAN
      /\ pc \in {"validate", "started", "loop", "wave", "merge", "usage",
                  "closed"}
  BY DEF Init
<1> QED BY <1>1, <1>2, <1>3, <1>4, <1>5, <1>6 DEF TypeOK

\* Every variable of the workflow keeps its type, for every pipeline.
THEOREM TypeCorrect == Spec => []TypeOK
BY InitTypes, TypeStep, PTL DEF Spec

\* What scheduling a wave does to one step and its activities.
LEMMA ScheduleShape ==
  ASSUME TypeOK, ScheduleWave, NEW s \in Step
  PROVE  /\ s \notin Ready => phase'[s] = phase[s]
         /\ s \in Ready => phase'[s] \in {"expanding", "running"}
         /\ branch'[s] = branch[s] \/ \E n : branch'[s] = StartBranches(n)
<1>1. PICK inline \in SUBSET FanOut, n \in [FanOut -> 0..MaxBranches] :
         /\ phase' = [t \in Step |->
                        IF t \notin Ready THEN phase[t]
                        ELSE IF t \in FanOut \ inline THEN "expanding"
                             ELSE "running"]
         /\ branch' = [t \in Step |->
                        IF t \in Ready /\ ~(t \in FanOut \ inline)
                        THEN StartBranches(IF t \in FanOut THEN n[t] ELSE 1)
                        ELSE branch[t]]
  BY Zenon DEF ScheduleWave, RunSteps, FanOutBranches
<1> QED BY <1>1, Zenon

\* An activity that was just started is not cancelled.
LEMMA StartedNotCancelled ==
  ASSUME NEW n, NEW k \in Branch
  PROVE  StartBranches(n)[k].st # "cancelled"
BY DEF StartBranches, Started, Unused

-----------------------------------------------------------------------------
(* The inductive invariant: each part is preserved by every step *)

\* What is shown and reported always matches where run() is.
LEMMA StagesStep == TypeOK /\ Stages /\ [Next]_vars => Stages'
<1> SUFFICES ASSUME TypeOK, Stages, [Next]_vars PROVE Stages'
  OBVIOUS
<1> USE DEF Stages, NoUsage
<1>1. CASE RejectPipeline
  BY <1>1 DEF RejectPipeline, L!CloseOf, L!Terminal, stepVars, progressVars
<1>2. CASE Begin
  BY <1>2 DEF Begin, stepVars, progressVars
<1>3. CASE JobStartedRecorded
  BY <1>3 DEF JobStartedRecorded, stepVars, progressVars
<1>4. CASE ScheduleWave
  BY <1>4 DEF ScheduleWave, RunSteps, FanOutBranches, stepVars, progressVars
<1>5. CASE JoinWave
  BY <1>5 DEF JoinWave, stepVars, progressVars
<1>6. CASE MergeOk
  BY <1>6 DEF MergeOk, stepVars, progressVars
<1>7. CASE MergeFailed
  BY <1>7 DEF MergeFailed, EmitUsage, L!Terminal, stepVars
<1>8. CASE MergeCancelled
  BY <1>8 DEF MergeCancelled, FinishCancelled, EmitUsage, L!Terminal, stepVars
<1>9. CASE MergeEnd
  BY <1>9 DEF MergeEnd, stepVars, progressVars
<1>10. CASE CancelAtLoop
  BY <1>10 DEF CancelAtLoop, FinishCancelled, EmitUsage, L!Terminal, stepVars
<1>11. CASE Succeed
  BY <1>11 DEF Succeed, EmitUsage, L!Terminal, stepVars
<1>12. CASE UsageRecorded
  BY <1>12 DEF UsageRecorded, stepVars, progressVars
<1>13. ASSUME NEW s \in Step, Expand(s) PROVE Stages'
  BY <1>13 DEF Expand, ExpandOk, FanOutBranches, ExpandFail, ExpandCancelled, progressVars
<1>14. ASSUME NEW s \in Step, NEW b \in Branch, Execute(s, b)
      PROVE Stages'
  BY <1>14 DEF Execute, StepOk, StepFail, StepCancelled, StepRetry, Answer,
            progressVars
<1>15. CASE CancelSignal
  BY <1>15 DEF CancelSignal, stepVars, progressVars
<1>16. CASE TemporalCancel
  BY <1>16 DEF TemporalCancel, stepVars, progressVars
<1>17. CASE UNCHANGED vars
  BY <1>17 DEF vars, stepVars, progressVars
<1> QED
  BY <1>1, <1>2, <1>3, <1>4, <1>5, <1>6, <1>7, <1>8, <1>9, <1>10, <1>11,
     <1>12, <1>13, <1>14, <1>15, <1>16, <1>17
     DEF Next, Run, Closed

\* An activity is only ever cancelled after a Temporal cancellation.
LEMMA CancelledActivitiesStep == TypeOK /\ CancelledActivities /\ [Next]_vars => CancelledActivities'
<1> SUFFICES ASSUME TypeOK, CancelledActivities, [Next]_vars PROVE CancelledActivities'
  OBVIOUS
<1> USE DEF CancelledActivities, TypeOK
<1>1. CASE RejectPipeline
  BY <1>1 DEF RejectPipeline, stepVars, progressVars
<1>2. CASE Begin
  BY <1>2 DEF Begin, stepVars, progressVars
<1>3. CASE JobStartedRecorded
  BY <1>3 DEF JobStartedRecorded, stepVars, progressVars
<1>4. CASE ScheduleWave
  <2> SUFFICES ASSUME NEW s \in Step
               PROVE  /\ phase'[s] = "expand_cancelled" => tcancel
                      /\ \A k \in Branch : branch'[s][k].st = "cancelled" => tcancel
    BY <1>4 DEF ScheduleWave, RunSteps, FanOutBranches
  <2>1. phase'[s] = "expand_cancelled" => phase[s] = "expand_cancelled"
    BY <1>4, ScheduleShape
  <2>2. branch'[s] = branch[s] \/ \E n : branch'[s] = StartBranches(n)
    BY <1>4, ScheduleShape
  <2>3. ASSUME NEW k \in Branch, branch'[s][k].st = "cancelled"
        PROVE  branch[s][k].st = "cancelled"
    BY <2>2, <2>3, StartedNotCancelled, Zenon
  <2> QED BY <2>1, <2>3
<1>5. CASE JoinWave
  BY <1>5 DEF JoinWave, stepVars, progressVars
<1>6. CASE MergeOk
  BY <1>6 DEF MergeOk, stepVars, progressVars
<1>7. CASE MergeFailed
  BY <1>7 DEF MergeFailed, EmitUsage, stepVars, progressVars
<1>8. CASE MergeCancelled
  BY <1>8 DEF MergeCancelled, FinishCancelled, EmitUsage, stepVars, progressVars
<1>9. CASE MergeEnd
  BY <1>9 DEF MergeEnd, stepVars, progressVars
<1>10. CASE CancelAtLoop
  BY <1>10 DEF CancelAtLoop, FinishCancelled, EmitUsage, stepVars, progressVars
<1>11. CASE Succeed
  BY <1>11 DEF Succeed, EmitUsage, stepVars, progressVars
<1>12. CASE UsageRecorded
  BY <1>12 DEF UsageRecorded, stepVars, progressVars
<1>13. ASSUME NEW s \in Step, Expand(s) PROVE CancelledActivities'
  <2>1. CASE ExpandOk(s)
    <3>1. PICK n : branch' = [branch EXCEPT ![s] = StartBranches(n)]
      BY <2>1 DEF ExpandOk, FanOutBranches
    <3>2. \A t \in Step, k \in Branch :
             branch'[t][k].st = "cancelled" => branch[t][k].st = "cancelled"
      BY <3>1, StartedNotCancelled
    <3> QED BY <2>1, <3>2 DEF ExpandOk, FanOutBranches
  <2>2. CASE ExpandFail(s)
    BY <2>2 DEF ExpandFail
  <2>3. CASE ExpandCancelled(s)
    BY <2>3 DEF ExpandCancelled
  <2> QED BY <1>13, <2>1, <2>2, <2>3 DEF Expand
<1>14. ASSUME NEW s \in Step, NEW b \in Branch, Execute(s, b)
      PROVE CancelledActivities'
  <2>1. ASSUME NEW t \in Step, NEW k \in Branch, branch'[t][k].st = "cancelled"
        PROVE  branch[t][k].st = "cancelled" \/ tcancel
    <3>1. CASE StepRetry(s, b)
      <4>1. branch' = [branch EXCEPT ![s][b] = [st |-> branch[s][b].st,
                                attempt |-> branch[s][b].attempt + 1]]
        BY <3>1 DEF StepRetry
      <4>2. CASE t = s /\ k = b
        BY <2>1, <4>1, <4>2, branch'[s][b].st = branch[s][b].st
      <4>3. CASE ~(t = s /\ k = b)
        BY <2>1, <4>1, <4>3, branch'[t][k] = branch[t][k]
      <4> QED BY <4>2, <4>3
    <3>2. CASE StepOk(s, b) \/ StepFail(s, b)
      <4>1. branch'[t][k].st \in {"ok", "failed", branch[t][k].st}
        BY <3>2, AnswerShape DEF StepOk, StepFail
      <4> QED BY <2>1, <4>1
    <3>3. CASE StepCancelled(s, b)
      BY <3>3 DEF StepCancelled
    <3> QED BY <1>14, <3>1, <3>2, <3>3 DEF Execute
  <2>2. UNCHANGED <<phase, tcancel>>
    BY <1>14 DEF Execute, StepOk, StepFail, StepCancelled, StepRetry, Answer
  <2> QED BY <2>1, <2>2
<1>15. CASE CancelSignal
  BY <1>15 DEF CancelSignal, stepVars, progressVars
<1>16. CASE TemporalCancel
  BY <1>16 DEF TemporalCancel, stepVars, progressVars
<1>17. CASE UNCHANGED vars
  BY <1>17 DEF vars, stepVars, progressVars
<1> QED
  BY <1>1, <1>2, <1>3, <1>4, <1>5, <1>6, <1>7, <1>8, <1>9, <1>10, <1>11,
     <1>12, <1>13, <1>14, <1>15, <1>16, <1>17
     DEF Next, Run, Closed

\* Only the last result of a job can be a failure.
LEMMA AllSucceededStep == TypeOK /\ AllSucceededSoFar /\ [Next]_vars => AllSucceededSoFar'
<1> SUFFICES ASSUME TypeOK, AllSucceededSoFar, [Next]_vars PROVE AllSucceededSoFar'
  OBVIOUS
<1> USE DEF AllSucceededSoFar, TypeOK
<1>1. CASE RejectPipeline
  BY <1>1 DEF RejectPipeline, stepVars, progressVars
<1>2. CASE Begin
  BY <1>2 DEF Begin, stepVars, progressVars
<1>3. CASE JobStartedRecorded
  BY <1>3 DEF JobStartedRecorded, stepVars, progressVars
<1>4. CASE ScheduleWave
  BY <1>4 DEF ScheduleWave, RunSteps, FanOutBranches, stepVars, progressVars
<1>5. CASE JoinWave
  BY <1>5 DEF JoinWave, stepVars, progressVars
<1>6. CASE MergeOk
  BY <1>6 DEF MergeOk, stepVars, progressVars
<1>7. CASE MergeFailed
  BY <1>7 DEF MergeFailed, EmitUsage, stepVars, progressVars
<1>8. CASE MergeCancelled
  BY <1>8 DEF MergeCancelled, FinishCancelled, EmitUsage, stepVars, progressVars
<1>9. CASE MergeEnd
  BY <1>9 DEF MergeEnd, stepVars, progressVars
<1>10. CASE CancelAtLoop
  BY <1>10 DEF CancelAtLoop, FinishCancelled, EmitUsage, stepVars, progressVars
<1>11. CASE Succeed
  BY <1>11 DEF Succeed, EmitUsage, stepVars, progressVars
<1>12. CASE UsageRecorded
  BY <1>12 DEF UsageRecorded, stepVars, progressVars
<1>13. ASSUME NEW s \in Step, Expand(s) PROVE AllSucceededSoFar'
  BY <1>13 DEF Expand, ExpandOk, FanOutBranches, ExpandFail, ExpandCancelled, progressVars
<1>14. ASSUME NEW s \in Step, NEW b \in Branch, Execute(s, b)
      PROVE AllSucceededSoFar'
  BY <1>14 DEF Execute, StepOk, StepFail, StepCancelled, StepRetry, Answer,
            progressVars
<1>15. CASE CancelSignal
  BY <1>15 DEF CancelSignal, stepVars, progressVars
<1>16. CASE TemporalCancel
  BY <1>16 DEF TemporalCancel, stepVars, progressVars
<1>17. CASE UNCHANGED vars
  BY <1>17 DEF vars, stepVars, progressVars
<1> QED
  BY <1>1, <1>2, <1>3, <1>4, <1>5, <1>6, <1>7, <1>8, <1>9, <1>10, <1>11,
     <1>12, <1>13, <1>14, <1>15, <1>16, <1>17
     DEF Next, Run, Closed

\* Waves follow the dependencies.
LEMMA WavesStep == TypeOK /\ Waves /\ [Next]_vars => Waves'
<1> SUFFICES ASSUME TypeOK, Waves, [Next]_vars PROVE Waves'
  OBVIOUS
<1> USE DEF Waves, TypeOK
<1>1. CASE RejectPipeline
  BY <1>1 DEF RejectPipeline, stepVars, progressVars
<1>2. CASE Begin
  BY <1>2 DEF Begin, stepVars, progressVars
<1>3. CASE JobStartedRecorded
  BY <1>3 DEF JobStartedRecorded, stepVars, progressVars
<1>4. CASE ScheduleWave
  <2>1. wave' = Ready /\ done' = done /\ pc' = "wave" /\ wave = {}
    BY <1>4 DEF ScheduleWave, RunSteps, FanOutBranches
  <2>2. \A s \in Step : phase'[s] # "idle" => s \in done' \cup wave'
    BY <1>4, <2>1, ScheduleShape
  <2> QED BY <2>1, <2>2 DEF Ready
<1>5. CASE JoinWave
  BY <1>5 DEF JoinWave, stepVars, progressVars
<1>6. CASE MergeOk
  <2>1. FirstOf(wave) \in wave
    BY <1>6, FirstOfMember DEF MergeOk
  <2>2. /\ done' = done \cup {FirstOf(wave)} /\ wave' = wave \ {FirstOf(wave)}
        /\ UNCHANGED <<pc, phase>> /\ pc = "merge"
    BY <1>6 DEF MergeOk, stepVars
  <2> QED BY <2>1, <2>2
<1>7. CASE MergeFailed
  BY <1>7 DEF MergeFailed, EmitUsage, stepVars, progressVars
<1>8. CASE MergeCancelled
  BY <1>8 DEF MergeCancelled, FinishCancelled, EmitUsage, stepVars, progressVars
<1>9. CASE MergeEnd
  BY <1>9 DEF MergeEnd, stepVars, progressVars
<1>10. CASE CancelAtLoop
  BY <1>10 DEF CancelAtLoop, FinishCancelled, EmitUsage, stepVars, progressVars
<1>11. CASE Succeed
  BY <1>11 DEF Succeed, EmitUsage, stepVars, progressVars
<1>12. CASE UsageRecorded
  BY <1>12 DEF UsageRecorded, stepVars, progressVars
<1>13. ASSUME NEW s \in Step, Expand(s) PROVE Waves'
  BY <1>13 DEF Expand, ExpandOk, FanOutBranches, ExpandFail, ExpandCancelled, progressVars
<1>14. ASSUME NEW s \in Step, NEW b \in Branch, Execute(s, b)
      PROVE Waves'
  BY <1>14 DEF Execute, StepOk, StepFail, StepCancelled, StepRetry, Answer,
            progressVars
<1>15. CASE CancelSignal
  BY <1>15 DEF CancelSignal, stepVars, progressVars
<1>16. CASE TemporalCancel
  BY <1>16 DEF TemporalCancel, stepVars, progressVars
<1>17. CASE UNCHANGED vars
  BY <1>17 DEF vars, stepVars, progressVars
<1> QED
  BY <1>1, <1>2, <1>3, <1>4, <1>5, <1>6, <1>7, <1>8, <1>9, <1>10, <1>11,
     <1>12, <1>13, <1>14, <1>15, <1>16, <1>17
     DEF Next, Run, Closed

\* Success is only declared when every step is done.
LEMMA AllDoneStep == TypeOK /\ Stages /\ SucceededMeansAllDone /\ [Next]_vars => SucceededMeansAllDone'
<1> SUFFICES ASSUME TypeOK, Stages, SucceededMeansAllDone, [Next]_vars
             PROVE  SucceededMeansAllDone'
  OBVIOUS
<1> USE DEF SucceededMeansAllDone
<1>1. CASE RejectPipeline
  BY <1>1 DEF RejectPipeline, stepVars, progressVars
<1>2. CASE Begin
  BY <1>2 DEF Begin, stepVars, progressVars
<1>3. CASE JobStartedRecorded
  BY <1>3 DEF JobStartedRecorded, stepVars, progressVars
<1>4. CASE ScheduleWave
  BY <1>4 DEF ScheduleWave, RunSteps, FanOutBranches, stepVars, progressVars
<1>5. CASE JoinWave
  BY <1>5 DEF JoinWave, stepVars, progressVars
<1>6. CASE MergeOk
  <2>1. status' = "running"
    BY <1>6 DEF MergeOk, Stages
  <2> QED BY <2>1
<1>7. CASE MergeFailed
  BY <1>7 DEF MergeFailed, EmitUsage, stepVars, progressVars
<1>8. CASE MergeCancelled
  BY <1>8 DEF MergeCancelled, FinishCancelled, EmitUsage, stepVars, progressVars
<1>9. CASE MergeEnd
  BY <1>9 DEF MergeEnd, stepVars, progressVars
<1>10. CASE CancelAtLoop
  BY <1>10 DEF CancelAtLoop, FinishCancelled, EmitUsage, stepVars, progressVars
<1>11. CASE Succeed
  <2>1. Ready = {} /\ done' = done
    BY <1>11 DEF Succeed
  <2>2. done \in SUBSET Step
    BY DEF TypeOK
  <2> QED BY <2>1, <2>2, NothingReadyAllDone
<1>12. CASE UsageRecorded
  BY <1>12 DEF UsageRecorded, stepVars, progressVars
<1>13. ASSUME NEW s \in Step, Expand(s) PROVE SucceededMeansAllDone'
  BY <1>13 DEF Expand, ExpandOk, FanOutBranches, ExpandFail, ExpandCancelled, progressVars
<1>14. ASSUME NEW s \in Step, NEW b \in Branch, Execute(s, b)
      PROVE SucceededMeansAllDone'
  BY <1>14 DEF Execute, StepOk, StepFail, StepCancelled, StepRetry, Answer,
            progressVars
<1>15. CASE CancelSignal
  BY <1>15 DEF CancelSignal, stepVars, progressVars
<1>16. CASE TemporalCancel
  BY <1>16 DEF TemporalCancel, stepVars, progressVars
<1>17. CASE UNCHANGED vars
  BY <1>17 DEF vars, stepVars, progressVars
<1> QED
  BY <1>1, <1>2, <1>3, <1>4, <1>5, <1>6, <1>7, <1>8, <1>9, <1>10, <1>11,
     <1>12, <1>13, <1>14, <1>15, <1>16, <1>17
     DEF Next, Run, Closed

\* A job becomes cancelled by the signal, or because a cancelled activity led to it.
LEMMA AskedStep == TypeOK /\ CancelledActivities /\ CancelledMeansAsked /\ [Next]_vars => CancelledMeansAsked'
<1> SUFFICES ASSUME TypeOK, CancelledActivities, CancelledMeansAsked, [Next]_vars
             PROVE  CancelledMeansAsked'
  OBVIOUS
<1> USE DEF CancelledMeansAsked
<1>1. CASE RejectPipeline
  BY <1>1 DEF RejectPipeline, stepVars, progressVars
<1>2. CASE Begin
  BY <1>2 DEF Begin, stepVars, progressVars
<1>3. CASE JobStartedRecorded
  BY <1>3 DEF JobStartedRecorded, stepVars, progressVars
<1>4. CASE ScheduleWave
  BY <1>4 DEF ScheduleWave, RunSteps, FanOutBranches, stepVars, progressVars
<1>5. CASE JoinWave
  BY <1>5 DEF JoinWave, stepVars, progressVars
<1>6. CASE MergeOk
  BY <1>6 DEF MergeOk, stepVars, progressVars
<1>7. CASE MergeFailed
  BY <1>7 DEF MergeFailed, EmitUsage, stepVars, progressVars
<1>8. CASE MergeCancelled
  <2> DEFINE s == FirstOf(wave)
  <2>1. s \in Step
    BY <1>8, FirstOfMember DEF MergeCancelled, TypeOK
  <2>2. \/ phase[s] = "expand_cancelled"
        \/ \E k \in 1..total[s] : branch[s][k].st = "cancelled"
    BY <1>8 DEF MergeCancelled, Outcome
  <2>3. 1..total[s] \subseteq Branch
    BY <2>1, BoundAssumption DEF TypeOK, BoundAssumption, Branch
  <2>4. tcancel
    BY <2>1, <2>2, <2>3 DEF CancelledActivities
  <2> QED BY <1>8, <2>4 DEF MergeCancelled, FinishCancelled
<1>9. CASE MergeEnd
  BY <1>9 DEF MergeEnd, stepVars, progressVars
<1>10. CASE CancelAtLoop
  BY <1>10 DEF CancelAtLoop, FinishCancelled, EmitUsage, stepVars, progressVars
<1>11. CASE Succeed
  BY <1>11 DEF Succeed, EmitUsage, stepVars, progressVars
<1>12. CASE UsageRecorded
  BY <1>12 DEF UsageRecorded, stepVars, progressVars
<1>13. ASSUME NEW s \in Step, Expand(s) PROVE CancelledMeansAsked'
  BY <1>13 DEF Expand, ExpandOk, FanOutBranches, ExpandFail, ExpandCancelled, progressVars
<1>14. ASSUME NEW s \in Step, NEW b \in Branch, Execute(s, b)
      PROVE CancelledMeansAsked'
  BY <1>14 DEF Execute, StepOk, StepFail, StepCancelled, StepRetry, Answer,
            progressVars
<1>15. CASE CancelSignal
  BY <1>15 DEF CancelSignal, stepVars, progressVars
<1>16. CASE TemporalCancel
  BY <1>16 DEF TemporalCancel, stepVars, progressVars
<1>17. CASE UNCHANGED vars
  BY <1>17 DEF vars, stepVars, progressVars
<1> QED
  BY <1>1, <1>2, <1>3, <1>4, <1>5, <1>6, <1>7, <1>8, <1>9, <1>10, <1>11,
     <1>12, <1>13, <1>14, <1>15, <1>16, <1>17
     DEF Next, Run, Closed

\* Counters, outputs and step results stay the same facts.
LEMMA ResultsStep == TypeOK /\ Waves /\ AllSucceededSoFar /\ ResultsAgree /\ [Next]_vars => ResultsAgree'
<1> SUFFICES ASSUME TypeOK, Waves, AllSucceededSoFar, ResultsAgree, [Next]_vars
             PROVE  ResultsAgree'
  OBVIOUS
<1> USE DEF ResultsAgree
<1>1. CASE RejectPipeline
  BY <1>1 DEF RejectPipeline, stepVars, progressVars
<1>2. CASE Begin
  BY <1>2 DEF Begin, stepVars, progressVars
<1>3. CASE JobStartedRecorded
  BY <1>3 DEF JobStartedRecorded, stepVars, progressVars
<1>4. CASE ScheduleWave
  <2>1. UNCHANGED <<completed, results, done>>
    BY <1>4 DEF ScheduleWave, RunSteps, FanOutBranches
  <2> QED BY <2>1
<1>5. CASE JoinWave
  BY <1>5 DEF JoinWave, stepVars, progressVars
<1>6. CASE MergeOk
  <2> DEFINE s == FirstOf(wave)
             r == [step |-> s, status |-> "succeeded", units |-> 1..total[s]]
  <2>1. s \in Step /\ s \notin done
    BY <1>6, FirstOfMember DEF MergeOk, TypeOK, Waves
  <2>2. results' = Append(results, r) /\ done' = done \cup {s}
        /\ completed' = completed + 1
    BY <1>6 DEF MergeOk
  <2>3. results \in Seq(StepResult) /\ r \in StepResult
    BY <1>6, <2>1, BoundAssumption
       DEF TypeOK, StepResult, Branch, BoundAssumption
  <2>4. completed' = Cardinality(done')
    <3>1. IsFiniteSet(done)
      BY FS_Subset, BoundAssumption DEF TypeOK, BoundAssumption
    <3> QED BY <2>1, <2>2, <3>1, FS_AddElement DEF TypeOK
  <2>5. /\ DOMAIN results' = 1..(Len(results) + 1)
        /\ \A i \in 1..Len(results) : results'[i] = results[i]
        /\ results'[Len(results) + 1] = r
        /\ Len(results) \in Nat /\ DOMAIN results = 1..Len(results)
    BY <2>2, <2>3
  <2>6. \A i \in DOMAIN results : results[i].step # s
    BY <1>6, <2>1 DEF AllSucceededSoFar, MergeOk
  <2>7. done' = {results'[i].step : i \in {k \in DOMAIN results' :
                                            results'[k].status = "succeeded"}}
    BY <2>2, <2>5
  <2>8. \A i, j \in DOMAIN results' : results'[i].step = results'[j].step => i = j
    BY <2>5, <2>6
  <2> QED BY <2>4, <2>7, <2>8
<1>7. CASE MergeFailed
  <2> DEFINE s == FirstOf(wave)
             r == [step |-> s, status |-> "failed", units |-> {}]
  <2>1. s \in Step /\ s \notin done
    BY <1>7, FirstOfMember DEF MergeFailed, TypeOK, Waves
  <2>2. results' = Append(results, r) /\ UNCHANGED <<done, completed>>
    BY <1>7 DEF MergeFailed
  <2>3. results \in Seq(StepResult) /\ r \in StepResult
    BY <2>1 DEF TypeOK, StepResult
  <2>4. /\ DOMAIN results' = 1..(Len(results) + 1)
        /\ \A i \in 1..Len(results) : results'[i] = results[i]
        /\ results'[Len(results) + 1] = r
        /\ Len(results) \in Nat /\ DOMAIN results = 1..Len(results)
    BY <2>2, <2>3
  <2>5. \A i \in DOMAIN results : results[i].step # s
    BY <1>7, <2>1 DEF AllSucceededSoFar, MergeFailed
  <2>6. done' = {results'[i].step : i \in {k \in DOMAIN results' :
                                            results'[k].status = "succeeded"}}
    BY <2>2, <2>4
  <2>7. \A i, j \in DOMAIN results' : results'[i].step = results'[j].step => i = j
    BY <2>4, <2>5
  <2> QED BY <2>2, <2>6, <2>7
<1>8. CASE MergeCancelled
  BY <1>8 DEF MergeCancelled, FinishCancelled, EmitUsage, stepVars, progressVars
<1>9. CASE MergeEnd
  BY <1>9 DEF MergeEnd, stepVars, progressVars
<1>10. CASE CancelAtLoop
  BY <1>10 DEF CancelAtLoop, FinishCancelled, EmitUsage, stepVars, progressVars
<1>11. CASE Succeed
  BY <1>11 DEF Succeed, EmitUsage, stepVars, progressVars
<1>12. CASE UsageRecorded
  BY <1>12 DEF UsageRecorded, stepVars, progressVars
<1>13. ASSUME NEW s \in Step, Expand(s) PROVE ResultsAgree'
  <2>1. UNCHANGED <<completed, results, done>>
    BY <1>13 DEF Expand, ExpandOk, FanOutBranches, ExpandFail, ExpandCancelled, progressVars
  <2> QED BY <2>1
<1>14. ASSUME NEW s \in Step, NEW b \in Branch, Execute(s, b)
      PROVE ResultsAgree'
  <2>1. UNCHANGED <<completed, results, done>>
    BY <1>14 DEF Execute, StepOk, StepFail, StepCancelled, StepRetry, Answer,
                 progressVars
  <2> QED BY <2>1
<1>15. CASE CancelSignal
  BY <1>15 DEF CancelSignal, stepVars, progressVars
<1>16. CASE TemporalCancel
  BY <1>16 DEF TemporalCancel, stepVars, progressVars
<1>17. CASE UNCHANGED vars
  BY <1>17 DEF vars, stepVars, progressVars
<1> QED
  BY <1>1, <1>2, <1>3, <1>4, <1>5, <1>6, <1>7, <1>8, <1>9, <1>10, <1>11,
     <1>12, <1>13, <1>14, <1>15, <1>16, <1>17
     DEF Next, Run, Closed

\* A branch that was started is not unused.
LEMMA StartedNotUnused ==
  ASSUME NEW n \in 0..MaxBranches, NEW k \in 1..n
  PROVE  StartBranches(n)[k].st # "unused"
<1>1. k \in Branch /\ k <= n
  BY BoundAssumption DEF BoundAssumption, Branch
<1> QED BY <1>1 DEF StartBranches, Started

\* Scheduling starts the branches it counts, and touches only ready steps.
LEMMA ScheduleBranches ==
  ASSUME TypeOK, ScheduleWave, NEW s \in Step
  PROVE  \/ /\ total'[s] = total[s] /\ branch'[s] = branch[s]
         \/ /\ s \in Ready
            /\ \E n \in 0..MaxBranches : total'[s] = n /\ branch'[s] = StartBranches(n)
<1>1. PICK inline \in SUBSET FanOut, n \in [FanOut -> 0..MaxBranches] :
         RunSteps(inline, n)
  BY Zenon DEF ScheduleWave, FanOutBranches
<1> DEFINE plain == s \in Ready /\ ~(s \in FanOut \ inline)
           w == IF s \in FanOut THEN n[s] ELSE 1
<1>2. w \in 0..MaxBranches
  BY BoundAssumption DEF BoundAssumption
<1>3. /\ total'[s] = IF plain THEN w ELSE total[s]
      /\ branch'[s] = IF plain THEN StartBranches(w) ELSE branch[s]
  BY <1>1, Zenon DEF RunSteps
<1> HIDE DEF w
<1> QED BY <1>2, <1>3

\* Expanding one fan-out starts the branches it counts and touches no other step.
LEMMA ExpandShape ==
  ASSUME TypeOK, NEW s \in Step, Expand(s), NEW t \in Step
  PROVE  /\ phase[s] = "expanding"
         /\ t # s => phase'[t] = phase[t]
         /\ \/ total'[t] = total[t] /\ branch'[t] = branch[t]
            \/ /\ t = s
               /\ \E n \in 0..MaxBranches : total'[t] = n /\ branch'[t] = StartBranches(n)
<1>1. CASE ExpandOk(s)
  <2>1. PICK n \in 0..MaxBranches : /\ total' = [total EXCEPT ![s] = n]
                                    /\ branch' = [branch EXCEPT ![s] = StartBranches(n)]
    BY <1>1 DEF ExpandOk, FanOutBranches
  <2>2. phase[s] = "expanding" /\ (t # s => phase'[t] = phase[t])
    BY <1>1 DEF ExpandOk, TypeOK
  <2>3. CASE t = s
    BY <2>1, <2>2, <2>3 DEF TypeOK
  <2>4. CASE t # s
    BY <2>1, <2>2, <2>4 DEF TypeOK
  <2> QED BY <2>3, <2>4
<1>2. CASE ExpandFail(s)
  BY <1>2 DEF ExpandFail, TypeOK
<1>3. CASE ExpandCancelled(s)
  BY <1>3 DEF ExpandCancelled, TypeOK
<1> QED BY <1>1, <1>2, <1>3 DEF Expand

\* An activity's answer is final: only a running branch changes its state.
LEMMA ExecuteShape ==
  ASSUME TypeOK, NEW s \in Step, NEW b \in Branch, Execute(s, b),
         NEW t \in Step, NEW k \in Branch
  PROVE  \/ branch'[t][k].st = branch[t][k].st
         \/ /\ branch[t][k].st = "running"
            /\ branch'[t][k].st \in {"ok", "failed", "cancelled"}
<1>1. CASE StepRetry(s, b)
  <2>1. branch' = [branch EXCEPT ![s][b] = [st |-> branch[s][b].st,
                                            attempt |-> branch[s][b].attempt + 1]]
    BY <1>1 DEF StepRetry
  <2>2. CASE t = s /\ k = b
    BY <2>1, <2>2 DEF TypeOK
  <2>3. CASE ~(t = s /\ k = b)
    BY <2>1, <2>3, branch'[t][k] = branch[t][k] DEF TypeOK
  <2> QED BY <2>2, <2>3
<1>2. ASSUME NEW st \in {"ok", "failed", "cancelled"}, Answer(s, b, st)
      PROVE  \/ branch'[t][k].st = branch[t][k].st
             \/ /\ branch[t][k].st = "running"
                /\ branch'[t][k].st \in {"ok", "failed", "cancelled"}
  <2>1. branch'[t][k].st = IF t = s /\ k = b THEN st ELSE branch[t][k].st
    BY <1>2, AnswerShape
  <2>2. branch[s][b].st = "running"
    BY <1>2 DEF Answer
  <2> QED BY <2>1, <2>2
<1> QED BY <1>1, <1>2 DEF Execute, StepOk, StepFail, StepCancelled

\* What the join waited for stays settled while it is merged.
LEMMA JoinedStep ==
  TypeOK /\ Waves /\ Joined /\ [Next]_vars => Joined'
<1> SUFFICES ASSUME TypeOK, Waves, Joined, [Next]_vars
             PROVE  Joined'
  OBVIOUS
<1> USE DEF Joined, TypeOK
<1>1. CASE RejectPipeline
  BY <1>1 DEF RejectPipeline, Waves, stepVars, progressVars
<1>2. CASE Begin
  BY <1>2 DEF Begin, stepVars, progressVars
<1>3. CASE JobStartedRecorded
  BY <1>3 DEF JobStartedRecorded, stepVars, progressVars
<1>4. CASE ScheduleWave
  <2>1. pc' = "wave" /\ done' = done
    BY <1>4 DEF ScheduleWave
  <2>2. \A s \in done' : phase'[s] = "running"
    BY <1>4, <2>1, ScheduleShape DEF Ready
  <2>3. ASSUME NEW s \in Step, NEW k \in 1..total'[s]
        PROVE  branch'[s][k].st # "unused"
    <3>1. CASE total'[s] = total[s] /\ branch'[s] = branch[s]
      BY <2>3, <3>1
    <3>2. ASSUME NEW n \in 0..MaxBranches, total'[s] = n, branch'[s] = StartBranches(n)
          PROVE  branch'[s][k].st # "unused"
      BY <2>3, <3>2, StartedNotUnused
    <3> QED BY <1>4, <3>1, <3>2, ScheduleBranches
  <2> QED BY <2>1, <2>2, <2>3
<1>5. CASE JoinWave
  <2>1. UNCHANGED <<wave, done, phase, total, branch>> /\ \A s \in wave : Settled(s)
    BY <1>5 DEF JoinWave, stepVars
  <2> QED BY <2>1 DEF Settled
<1>6. CASE MergeOk
  <2>1. FirstOf(wave) \in wave
    BY <1>6, FirstOfMember DEF MergeOk
  <2>2. phase[FirstOf(wave)] = "running"
    BY <1>6, <2>1 DEF MergeOk, Settled, Outcome
  <2> QED BY <1>6, <2>2 DEF MergeOk, Settled, stepVars
<1>7. CASE MergeFailed
  BY <1>7 DEF MergeFailed, EmitUsage, Settled, stepVars, progressVars
<1>8. CASE MergeCancelled
  BY <1>8 DEF MergeCancelled, FinishCancelled, EmitUsage, Settled, stepVars, progressVars
<1>9. CASE MergeEnd
  BY <1>9 DEF MergeEnd, stepVars, progressVars
<1>10. CASE CancelAtLoop
  BY <1>10 DEF CancelAtLoop, FinishCancelled, EmitUsage, Waves, stepVars, progressVars
<1>11. CASE Succeed
  BY <1>11 DEF Succeed, EmitUsage, Waves, stepVars, progressVars
<1>12. CASE UsageRecorded
  BY <1>12 DEF UsageRecorded, Settled, stepVars, progressVars
<1>13. ASSUME NEW s \in Step, Expand(s) PROVE Joined'
  <2>1. UNCHANGED <<pc, wave, done>>
    BY <1>13 DEF Expand, ExpandOk, ExpandFail, ExpandCancelled
  <2>2. phase[s] = "expanding"
    BY <1>13, ExpandShape
  <2>3. \A t \in Step \ {s} : /\ phase'[t] = phase[t] /\ total'[t] = total[t]
                              /\ branch'[t] = branch[t]
    BY <1>13, ExpandShape
  <2>4. pc \in {"merge", "usage", "closed"} => s \notin wave
    BY <2>2 DEF Settled
  <2>5. pc' \in {"merge", "usage", "closed"} => \A t \in wave' : Settled(t)'
    <3> SUFFICES ASSUME pc \in {"merge", "usage", "closed"}, NEW t \in wave PROVE Settled(t)'
      BY <2>1
    <3>1. t \in Step \ {s} /\ Settled(t)
      BY <2>4
    <3> QED BY <2>3, <3>1 DEF Settled
  <2>6. \A t \in done' : phase'[t] = "running"
    BY <2>1, <2>2, <2>3
  <2>7. ASSUME NEW t \in Step, NEW k \in 1..total'[t]
        PROVE  branch'[t][k].st # "unused"
    <3>1. CASE total'[t] = total[t] /\ branch'[t] = branch[t]
      BY <2>7, <3>1
    <3>2. ASSUME NEW n \in 0..MaxBranches, total'[t] = n, branch'[t] = StartBranches(n)
          PROVE  branch'[t][k].st # "unused"
      BY <2>7, <3>2, StartedNotUnused
    <3> QED BY <1>13, <3>1, <3>2, ExpandShape
  <2> QED BY <2>5, <2>6, <2>7
<1>14. ASSUME NEW s \in Step, NEW b \in Branch, Execute(s, b)
       PROVE  Joined'
  <2>1. UNCHANGED <<pc, wave, done, phase, total>>
    BY <1>14 DEF Execute, StepOk, StepFail, StepCancelled, StepRetry, Answer
  <2>2. \A t \in Step : 1..total[t] \subseteq Branch
    BY BoundAssumption DEF BoundAssumption, Branch
  <2>3. \A t \in Step : \A k \in 1..total[t] :
           /\ branch[t][k].st # "running" => branch'[t][k].st # "running"
           /\ branch[t][k].st # "unused" => branch'[t][k].st # "unused"
    <3> TAKE t \in Step
    <3> TAKE k \in 1..total[t]
    <3>1. k \in Branch
      BY <2>2
    <3> QED BY <1>14, <3>1, ExecuteShape
  <2>4. pc' \in {"merge", "usage", "closed"} => \A t \in wave' : Settled(t)'
    BY <2>1, <2>3 DEF Settled
  <2> QED BY <2>1, <2>3, <2>4
<1>15. CASE CancelSignal
  BY <1>15 DEF CancelSignal, Settled, stepVars, progressVars
<1>16. CASE TemporalCancel
  BY <1>16 DEF TemporalCancel, Settled, stepVars, progressVars
<1>17. CASE UNCHANGED vars
  BY <1>17 DEF vars, Settled, stepVars, progressVars
<1> QED
  BY <1>1, <1>2, <1>3, <1>4, <1>5, <1>6, <1>7, <1>8, <1>9, <1>10, <1>11,
     <1>12, <1>13, <1>14, <1>15, <1>16, <1>17
     DEF Next, Run, Closed

\* A merged step's units are branches that answered, and answers are final.
LEMMA UnitsStep ==
  TypeOK /\ Joined /\ UnitsHappened /\ [Next]_vars => UnitsHappened'
<1> SUFFICES ASSUME TypeOK, Joined, UnitsHappened, [Next]_vars
             PROVE  UnitsHappened'
  OBVIOUS
<1> USE DEF UnitsHappened, Joined, TypeOK
<1>1. CASE RejectPipeline
  BY <1>1 DEF RejectPipeline, stepVars, progressVars
<1>2. CASE Begin
  BY <1>2 DEF Begin, stepVars, progressVars
<1>3. CASE JobStartedRecorded
  BY <1>3 DEF JobStartedRecorded, stepVars, progressVars
<1>4. CASE ScheduleWave
  <2>1. UNCHANGED <<results, done>>
    BY <1>4 DEF ScheduleWave
  <2>2. \A s \in done : branch'[s] = branch[s]
    BY <1>4, ScheduleBranches DEF Ready
  <2> QED BY <2>1, <2>2
<1>5. CASE JoinWave
  BY <1>5 DEF JoinWave, stepVars, progressVars
<1>6. CASE MergeOk
  <2> DEFINE s == FirstOf(wave)
             r == [step |-> s, status |-> "succeeded", units |-> 1..total[s]]
  <2>1. s \in wave /\ s \in Step
    BY <1>6, FirstOfMember DEF MergeOk
  <2>2. /\ results' = Append(results, r) /\ done' = done \cup {s}
        /\ branch' = branch /\ pc = "merge" /\ Outcome(s) = "ok"
    BY <1>6 DEF MergeOk, stepVars
  <2>3. 1..total[s] \subseteq Branch
    BY <2>1, BoundAssumption DEF BoundAssumption, Branch
  <2>4. \A k \in 1..total[s] : branch[s][k] \in BranchState
    BY <2>1, <2>3
  <2>5. \A k \in 1..total[s] : branch[s][k].st = "ok"
    BY <2>1, <2>2, <2>4 DEF Outcome, Settled, BranchState
  <2>6. results \in Seq(StepResult) /\ r \in StepResult
    BY <2>1, <2>3 DEF StepResult
  <2>7. /\ DOMAIN results' = 1..(Len(results) + 1)
        /\ \A i \in 1..Len(results) : results'[i] = results[i]
        /\ results'[Len(results) + 1] = r
        /\ Len(results) \in Nat /\ DOMAIN results = 1..Len(results)
    BY <2>2, <2>6
  <2>8. ASSUME NEW i \in DOMAIN results', NEW k \in results'[i].units
        PROVE  results'[i].step \in done' /\ branch'[results'[i].step][k].st = "ok"
    <3>1. CASE i \in 1..Len(results)
      BY <2>2, <2>7, <2>8, <3>1
    <3>2. CASE i = Len(results) + 1
      BY <2>2, <2>5, <2>7, <2>8, <3>2
    <3> QED BY <2>7, <3>1, <3>2
  <2> QED BY <2>8
<1>7. CASE MergeFailed
  <2> DEFINE r == [step |-> FirstOf(wave), status |-> "failed", units |-> {}]
  <2>1. results' = Append(results, r) /\ done' = done /\ branch' = branch
    BY <1>7 DEF MergeFailed, stepVars
  <2>2. results \in Seq(StepResult) /\ r \in StepResult
    BY <1>7, FirstOfMember DEF MergeFailed, StepResult
  <2>3. /\ DOMAIN results' = 1..(Len(results) + 1)
        /\ \A i \in 1..Len(results) : results'[i] = results[i]
        /\ results'[Len(results) + 1] = r
        /\ Len(results) \in Nat /\ DOMAIN results = 1..Len(results)
    BY <2>1, <2>2
  <2> QED BY <2>1, <2>3
<1>8. CASE MergeCancelled
  BY <1>8 DEF MergeCancelled, FinishCancelled, EmitUsage, stepVars, progressVars
<1>9. CASE MergeEnd
  BY <1>9 DEF MergeEnd, stepVars, progressVars
<1>10. CASE CancelAtLoop
  BY <1>10 DEF CancelAtLoop, FinishCancelled, EmitUsage, stepVars, progressVars
<1>11. CASE Succeed
  BY <1>11 DEF Succeed, EmitUsage, stepVars, progressVars
<1>12. CASE UsageRecorded
  BY <1>12 DEF UsageRecorded, stepVars, progressVars
<1>13. ASSUME NEW s \in Step, Expand(s) PROVE UnitsHappened'
  <2>1. UNCHANGED <<results, done>>
    BY <1>13 DEF Expand, ExpandOk, ExpandFail, ExpandCancelled, progressVars
  <2>2. \A t \in done : branch'[t] = branch[t]
    BY <1>13, ExpandShape
  <2> QED BY <2>1, <2>2
<1>14. ASSUME NEW s \in Step, NEW b \in Branch, Execute(s, b)
       PROVE  UnitsHappened'
  <2>1. UNCHANGED <<results, done>>
    BY <1>14 DEF Execute, StepOk, StepFail, StepCancelled, StepRetry, Answer,
                progressVars
  <2>2. \A i \in DOMAIN results : results[i] \in StepResult
    OBVIOUS
  <2>3. \A i \in DOMAIN results : results[i].units \subseteq Branch
    BY <2>2 DEF StepResult
  <2>4. \A t \in Step, k \in Branch :
           branch[t][k].st = "ok" => branch'[t][k].st = "ok"
    BY <1>14, ExecuteShape
  <2>5. ASSUME NEW i \in DOMAIN results, NEW k \in results[i].units
        PROVE  results[i].step \in done /\ branch'[results[i].step][k].st = "ok"
    <3>1. results[i].step \in Step /\ k \in Branch
      BY <2>2, <2>3 DEF StepResult
    <3>2. results[i].step \in done /\ branch[results[i].step][k].st = "ok"
      OBVIOUS
    <3> QED BY <2>4, <3>1, <3>2
  <2> QED BY <2>1, <2>5
<1>15. CASE CancelSignal
  BY <1>15 DEF CancelSignal, stepVars, progressVars
<1>16. CASE TemporalCancel
  BY <1>16 DEF TemporalCancel, stepVars, progressVars
<1>17. CASE UNCHANGED vars
  BY <1>17 DEF vars, stepVars, progressVars
<1> QED
  BY <1>1, <1>2, <1>3, <1>4, <1>5, <1>6, <1>7, <1>8, <1>9, <1>10, <1>11,
     <1>12, <1>13, <1>14, <1>15, <1>16, <1>17
     DEF Next, Run, Closed

\* A step result keeps the units of all its branches: their number is fixed when
\* the step starts.
LEMMA UnitsCompleteStep ==
  TypeOK /\ Joined /\ UnitsComplete /\ [Next]_vars => UnitsComplete'
<1> SUFFICES ASSUME TypeOK, Joined, UnitsComplete, [Next]_vars
             PROVE  UnitsComplete'
  OBVIOUS
<1> USE DEF UnitsComplete
<1>1. ASSUME UNCHANGED <<results, done>>, \A s \in done : total'[s] = total[s]
      PROVE  UnitsComplete'
  BY <1>1
<1>2. CASE ScheduleWave
  <2>1. UNCHANGED <<results, done>>
    BY <1>2 DEF ScheduleWave
  <2>2. \A s \in done : total'[s] = total[s]
    BY <1>2, ScheduleBranches DEF Ready, TypeOK
  <2> QED BY <1>1, <2>1, <2>2
<1>3. ASSUME NEW s \in Step, Expand(s) PROVE UnitsComplete'
  <2>1. UNCHANGED <<results, done>>
    BY <1>3 DEF Expand, ExpandOk, ExpandFail, ExpandCancelled, progressVars
  <2>2. \A t \in done : total'[t] = total[t]
    BY <1>3, ExpandShape DEF Joined, TypeOK
  <2> QED BY <1>1, <2>1, <2>2
<1>4. ASSUME NEW r \in StepResult, results' = Append(results, r), done \subseteq done',
             total' = total,
             r.status = "succeeded" => r.step \in done' /\ r.units = 1..total[r.step]
      PROVE  UnitsComplete'
  <2>1. results \in Seq(StepResult)
    BY DEF TypeOK
  <2>2. /\ DOMAIN results' = 1..(Len(results) + 1)
        /\ \A i \in 1..Len(results) : results'[i] = results[i]
        /\ results'[Len(results) + 1] = r
        /\ Len(results) \in Nat /\ DOMAIN results = 1..Len(results)
    BY <1>4, <2>1
  <2>3. ASSUME NEW i \in DOMAIN results', results'[i].status = "succeeded"
        PROVE  results'[i].step \in done' /\ results'[i].units = 1..total'[results'[i].step]
    <3>1. CASE i \in 1..Len(results)
      BY <1>4, <2>2, <2>3, <3>1
    <3>2. CASE i = Len(results) + 1
      BY <1>4, <2>2, <2>3, <3>2
    <3> QED BY <2>2, <3>1, <3>2
  <2> QED BY <2>3
<1>5. CASE MergeOk
  <2> DEFINE s == FirstOf(wave)
             r == [step |-> s, status |-> "succeeded", units |-> 1..total[s]]
  <2>1. s \in Step
    BY <1>5, FirstOfMember DEF MergeOk, TypeOK
  <2>2. 1..total[s] \subseteq Branch
    BY <2>1, BoundAssumption DEF BoundAssumption, Branch, TypeOK
  <2>3. r \in StepResult
    BY <2>1, <2>2 DEF StepResult
  <2>4. /\ results' = Append(results, r) /\ done' = done \cup {s} /\ total' = total
    BY <1>5 DEF MergeOk, stepVars
  <2>5. r.step = s /\ r.units = 1..total[s]
    OBVIOUS
  <2> QED BY <1>4, <2>3, <2>4, <2>5
<1>6. CASE MergeFailed
  <2> DEFINE r == [step |-> FirstOf(wave), status |-> "failed", units |-> {}]
  <2>1. results' = Append(results, r) /\ done' = done /\ total' = total
    BY <1>6 DEF MergeFailed, stepVars
  <2>2. r \in StepResult /\ r.status # "succeeded"
    BY <1>6, FirstOfMember DEF MergeFailed, StepResult, TypeOK
  <2> QED BY <1>4, <2>1, <2>2
<1>7. CASE Run /\ ~ScheduleWave /\ ~MergeOk /\ ~MergeFailed
  <2>1. UNCHANGED <<results, done, total>>
    BY <1>7 DEF Run, RejectPipeline, Begin, JobStartedRecorded, JoinWave,
                MergeCancelled, FinishCancelled, MergeEnd,
                CancelAtLoop, Succeed, UsageRecorded, stepVars, progressVars
  <2> QED BY <1>1, <2>1
<1>8. ASSUME NEW s \in Step, NEW b \in Branch, Execute(s, b) PROVE UnitsComplete'
  BY <1>1, <1>8 DEF Execute, StepOk, StepFail, StepCancelled, StepRetry, Answer, progressVars
<1>9. CASE CancelSignal \/ TemporalCancel \/ UNCHANGED vars
  BY <1>1, <1>9 DEF CancelSignal, TemporalCancel, vars, stepVars, progressVars
<1> QED BY <1>2, <1>3, <1>5, <1>6, <1>7, <1>8, <1>9 DEF Next, Closed

\* A step is given its branches when it starts to run.
LEMMA NoEarlyBranchesStep ==
  TypeOK /\ Waves /\ NoEarlyBranches /\ [Next]_vars => NoEarlyBranches'
<1> SUFFICES ASSUME TypeOK, Waves, NoEarlyBranches, [Next]_vars
             PROVE  NoEarlyBranches'
  OBVIOUS
<1> USE DEF NoEarlyBranches
<1>1. CASE ScheduleWave
  <2>1. PICK inline \in SUBSET FanOut, n \in [FanOut -> 0..MaxBranches] :
           RunSteps(inline, n)
    BY <1>1, Zenon DEF ScheduleWave, FanOutBranches
  <2>2. pc = "loop"
    BY <1>1 DEF ScheduleWave
  <2>3. ASSUME NEW s \in Step, phase'[s] # "running" PROVE total'[s] = 0
    <3>1. CASE s \notin Ready
      <4>1. phase'[s] = phase[s] /\ total'[s] = total[s]
        BY <2>1, <3>1 DEF RunSteps
      <4> QED BY <2>3, <4>1
    <3>2. CASE s \in Ready
      <4>1. s \in FanOut \ inline
        BY <2>1, <2>3, <3>2 DEF RunSteps
      <4>2. total'[s] = total[s]
        BY <2>1, <3>2, <4>1 DEF RunSteps
      <4>3. phase[s] = "idle"
        BY <2>2, <3>2 DEF Ready, Waves
      <4> QED BY <4>2, <4>3
    <3> QED BY <3>1, <3>2
  <2> QED BY <2>3
<1>2. ASSUME NEW s \in Step, Expand(s) PROVE NoEarlyBranches'
  BY <1>2 DEF Expand, ExpandOk, ExpandFail, ExpandCancelled, TypeOK
<1>3. ASSUME NEW s \in Step, NEW b \in Branch, Execute(s, b) PROVE NoEarlyBranches'
  BY <1>3 DEF Execute, StepOk, StepFail, StepCancelled, StepRetry, Answer
<1>4. CASE Run /\ ~ScheduleWave
  BY <1>4 DEF Run, RejectPipeline, Begin, JobStartedRecorded, JoinWave, MergeOk,
              MergeFailed, MergeCancelled, FinishCancelled, MergeEnd,
              CancelAtLoop, Succeed, UsageRecorded, stepVars
<1>5. CASE CancelSignal \/ TemporalCancel \/ UNCHANGED vars
  BY <1>5 DEF CancelSignal, TemporalCancel, vars, stepVars
<1> QED BY <1>1, <1>2, <1>3, <1>4, <1>5 DEF Next, Closed

\* Only a failed or a cancelled step ends a merge with results left over, and what the
\* step came to does not change afterwards.
LEMMA HalfMergedStep ==
  TypeOK /\ Stages /\ Waves /\ Joined /\ NoEarlyBranches /\ HalfMerged /\ [Next]_vars
     => HalfMerged'
<1> SUFFICES ASSUME TypeOK, Stages, Waves, Joined, NoEarlyBranches, HalfMerged, [Next]_vars
             PROVE  HalfMerged'
  OBVIOUS
<1>1. ASSUME UNCHANGED <<pc, status, wave>>,
             pc \in {"usage", "closed"} =>
                \A s \in wave : /\ phase'[s] = phase[s] /\ total'[s] = total[s]
                               /\ \A k \in 1..total[s] : branch'[s][k].st = branch[s][k].st
      PROVE  HalfMerged'
  <2> SUFFICES ASSUME pc \in {"usage", "closed"}, wave # {} PROVE HalfMerged'
    BY <1>1 DEF HalfMerged
  <2> DEFINE F == FirstOf(wave)
  <2>1. F \in wave /\ F = FirstOf(wave')
    BY <1>1, FirstOfMember DEF TypeOK
  <2>2. Outcome(F)' = Outcome(F)
    <3>1. /\ phase'[F] = phase[F] /\ total'[F] = total[F]
          /\ \A k \in 1..total[F] : branch'[F][k].st = branch[F][k].st
      BY <1>1, <2>1
    <3> HIDE DEF F
    <3> QED BY <1>1, <3>1, FirstOf(wave') = FirstOf(wave) DEF Outcome, F
  <2> QED BY <1>1, <2>1, <2>2 DEF HalfMerged
<1>2. CASE RejectPipeline
  BY <1>2 DEF RejectPipeline, Waves, HalfMerged
<1>3. CASE Begin \/ JobStartedRecorded \/ JoinWave \/ MergeEnd \/ ScheduleWave \/ MergeOk
  BY <1>3 DEF Begin, JobStartedRecorded, JoinWave, MergeEnd, ScheduleWave, MergeOk, HalfMerged
<1>4. CASE MergeFailed
  BY <1>4 DEF MergeFailed, HalfMerged, Outcome, stepVars
<1>5. CASE MergeCancelled
  BY <1>5 DEF MergeCancelled, FinishCancelled, HalfMerged, Outcome, stepVars
<1>6. CASE CancelAtLoop \/ Succeed
  BY <1>6 DEF CancelAtLoop, FinishCancelled, Succeed, EmitUsage, Waves, HalfMerged
<1>7. CASE UsageRecorded
  BY <1>7 DEF UsageRecorded, HalfMerged, Outcome, stepVars, progressVars
<1>8. ASSUME NEW s \in Step, Expand(s) PROVE HalfMerged'
  <2>1. UNCHANGED <<pc, status, wave>>
    BY <1>8 DEF Expand, ExpandOk, ExpandFail, ExpandCancelled, progressVars
  <2>2. phase[s] = "expanding"
    BY <1>8, ExpandShape
  <2>3. pc \in {"usage", "closed"} => s \notin wave
    BY <2>2 DEF Joined, Settled
  <2>4. \A t \in Step \ {s} : /\ phase'[t] = phase[t] /\ total'[t] = total[t]
                              /\ branch'[t] = branch[t]
    BY <1>8, ExpandShape
  <2> QED BY <1>1, <2>1, <2>3, <2>4 DEF TypeOK
<1>9. ASSUME NEW s \in Step, NEW b \in Branch, Execute(s, b) PROVE HalfMerged'
  <2>1. UNCHANGED <<pc, status, wave, phase, total>>
    BY <1>9 DEF Execute, StepOk, StepFail, StepCancelled, StepRetry, Answer, progressVars
  <2>2. ASSUME pc \in {"usage", "closed"}, NEW t \in wave, NEW k \in 1..total[t]
        PROVE  branch'[t][k].st = branch[t][k].st
    <3>1. t \in Step /\ k \in Branch
      BY BoundAssumption DEF BoundAssumption, Branch, TypeOK
    <3>2. Settled(t)
      BY <2>2 DEF Joined
    <3>3. phase[t] = "running"
      BY <2>2, <3>1 DEF NoEarlyBranches
    <3>4. branch[t][k].st # "running"
      BY <2>2, <3>2, <3>3 DEF Settled
    <3> QED BY <1>9, <3>1, <3>4, ExecuteShape
  <2> QED BY <1>1, <2>1, <2>2
<1>10. CASE CancelSignal \/ TemporalCancel \/ UNCHANGED vars
  BY <1>1, <1>10 DEF CancelSignal, TemporalCancel, vars, stepVars, progressVars
<1> QED
  BY <1>2, <1>3, <1>4, <1>5, <1>6, <1>7, <1>8, <1>9, <1>10 DEF Next, Run, Closed

-----------------------------------------------------------------------------
(* The theorems *)

\* The invariant holds initially.
LEMMA InitInvariant == Init => IInv
<1> SUFFICES ASSUME Init PROVE IInv
  OBVIOUS
<1>1. TypeOK
  BY InitTypes
<1>2. Stages
  BY DEF Init, Stages, NoUsage
<1>3. Waves
  BY DEF Init, Waves
<1>4. AllSucceededSoFar
  BY DEF Init, AllSucceededSoFar
<1>5. CancelledActivities
  BY DEF Init, CancelledActivities, Unused
<1>6. SucceededMeansAllDone /\ CancelledMeansAsked
  BY DEF Init, SucceededMeansAllDone, CancelledMeansAsked
<1>7. ResultsAgree
  BY FS_EmptySet DEF Init, ResultsAgree
<1>8. Joined /\ UnitsHappened /\ UnitsComplete /\ NoEarlyBranches /\ HalfMerged
  BY DEF Init, Joined, UnitsHappened, UnitsComplete, NoEarlyBranches, HalfMerged
<1> QED BY <1>1, <1>2, <1>3, <1>4, <1>5, <1>6, <1>7, <1>8 DEF IInv

\* The inductive invariant holds throughout every execution.
THEOREM Invariance == Spec => []IInv
<1>1. IInv /\ [Next]_vars => IInv'
  BY TypeStep, StagesStep, WavesStep, AllSucceededStep,
     CancelledActivitiesStep, AllDoneStep, AskedStep, ResultsStep, JoinedStep,
     UnitsStep, UnitsCompleteStep, NoEarlyBranchesStep, HalfMergedStep DEF IInv
<1> QED BY <1>1, InitInvariant, PTL DEF Spec

\* A job that reports success ran every step of its pipeline, whatever the
\* shape of the DAG (the loop in workflow.rs stops only when nothing is ready).
THEOREM SuccessIsComplete == Spec => []SucceededMeansAllDone
<1>1. IInv => SucceededMeansAllDone
  BY DEF IInv
<1> QED BY <1>1, Invariance, PTL

\* No step starts before every step it depends on has an output.
THEOREM DependenciesRespected == Spec => []DependenciesFirst
<1>1. IInv => DependenciesFirst
  BY DEF IInv, Waves, DependenciesFirst
<1> QED BY <1>1, Invariance, PTL

\* A job is never reported cancelled that nobody cancelled.
THEOREM CancelledOnlyIfAsked == Spec => []CancelledMeansAsked
<1>1. IInv => CancelledMeansAsked
  BY DEF IInv
<1> QED BY <1>1, Invariance, PTL

\* Each step is billed at most once, and exactly the completed steps succeed.
THEOREM BilledOnce == Spec => []ResultsAgree
<1>1. IInv => ResultsAgree
  BY DEF IInv
<1> QED BY <1>1, Invariance, PTL

\* Every accepted job reports its final outcome and all its step results before
\* its execution closes, cancelled or not.
THEOREM UsageIsFinal == Spec => []UsageFinal
<1>1. IInv => UsageFinal
  BY DEF IInv, TypeOK, Stages, UsageFinal, NoUsage, L!Terminal
<1> QED BY <1>1, Invariance, PTL

\* What the usage event bills happened: every unit on it is a branch that
\* answered with an output, in every order of answers, failures and cancellations.
THEOREM BilledWorkIsReal == Spec => []BilledWorkHappened
<1>1. IInv => BilledWorkHappened
  BY DEF IInv, Stages, UnitsHappened, BilledWorkHappened, NoUsage
<1> QED BY <1>1, Invariance, PTL

\* Every other member of a set comes after the one FirstOf picks.
LEMMA FirstIsBefore ==
  ASSUME NEW S \in SUBSET Step, NEW s \in S, s # FirstOf(S)
  PROVE  Before(FirstOf(S), s)
<1>1. PICK j \in 1..Len(Order) : Order[j] = s
  BY OrderAssumption DEF OrderAssumption
<1>2. \E i \in 1..Len(Order) :
         /\ Order[i] \in S
         /\ \A k \in 1..Len(Order) : Order[k] \in S => i <= k
  BY <1>1, LeastPosition
<1> DEFINE f == CHOOSE i \in 1..Len(Order) :
                  /\ Order[i] \in S
                  /\ \A k \in 1..Len(Order) : Order[k] \in S => i <= k
<1>3. /\ f \in 1..Len(Order)
      /\ \A k \in 1..Len(Order) : Order[k] \in S => f <= k
  BY <1>2
<1>4. Order[f] = FirstOf(S)
  BY DEF FirstOf
<1>5. f <= j /\ f # j
  BY <1>1, <1>3, <1>4
<1> HIDE DEF f
<1>6. f < j
  BY <1>3, <1>5, OrderAssumption DEF OrderAssumption
<1> QED BY <1>1, <1>3, <1>4, <1>6 DEF Before

\* Every pipeline's finished work is billed, in every order of answers, failures and
\* cancellations, except behind the failed or cancelled step at which the merge stopped;
\* a job that only the signal cancelled bills all it started (workflow.rs:184, 109).
THEOREM FinishedWorkIsBilled == Spec => []FinishedWorkBilled
<1>1. ASSUME IInv PROVE FinishedWorkBilled
  <2> SUFFICES ASSUME usage # NoUsage PROVE FinishedWorkBilled
    BY DEF FinishedWorkBilled
  <2>1. pc \in {"usage", "closed"} /\ usage.steps = results
    BY <1>1 DEF IInv, Stages, TypeOK
  <2>2. results \in Seq(StepResult) /\ wave \subseteq Step /\ done \subseteq Step
    BY <1>1 DEF IInv, TypeOK
  <2>3. done \subseteq Billed
    <3> SUFFICES ASSUME NEW s \in done PROVE s \in Billed
      OBVIOUS
    <3>1. PICK i \in DOMAIN results : results[i].status = "succeeded" /\ results[i].step = s
      BY <1>1 DEF IInv, ResultsAgree
    <3>2. results[i].units = 1..total[s]
      BY <1>1, <3>1 DEF IInv, UnitsComplete
    <3> QED BY <2>1, <2>2, <3>1, <3>2 DEF Billed
  <2>4. ASSUME NEW s \in done PROVE s \in Finished
    <3>1. PICK i \in DOMAIN results : results[i].status = "succeeded" /\ results[i].step = s
      BY <1>1, <2>4 DEF IInv, ResultsAgree
    <3>2. results[i].units = 1..total[s]
      BY <1>1, <3>1 DEF IInv, UnitsComplete
    <3>3. \A k \in 1..total[s] : branch[s][k].st = "ok"
      BY <1>1, <3>1, <3>2 DEF IInv, UnitsHappened
    <3>4. phase[s] = "running" /\ s \in Step
      BY <1>1, <2>2, <2>4 DEF IInv, Joined
    <3>5. Settled(s)
      BY <3>3, <3>4 DEF Settled
    <3>6. Outcome(s) = "ok"
      BY <3>3, <3>4 DEF Outcome
    <3> QED BY <3>4, <3>5, <3>6 DEF Finished
  <2>5. \A s \in Step : phase[s] # "idle" => s \in done \cup wave
    BY <1>1 DEF IInv, Waves
  <2>6. wave # {} => /\ FirstOf(wave) \in wave
                     /\ Outcome(FirstOf(wave)) =
                          IF status = "failed" THEN "failed" ELSE "cancelled"
    BY <1>1, <2>1, <2>2, FirstOfMember DEF IInv, HalfMerged
  <2>7. ASSUME NEW s \in Finished \ Billed
        PROVE  \E r \in wave : Outcome(r) # "ok" /\ Before(r, s)
    <3>1. s \in wave /\ Outcome(s) = "ok"
      BY <2>3, <2>5, <2>7 DEF Finished
    <3>2. Outcome(FirstOf(wave)) # "ok" /\ FirstOf(wave) \in wave
      BY <2>6, <3>1
    <3>3. s # FirstOf(wave)
      BY <3>1, <3>2
    <3>4. Before(FirstOf(wave), s)
      BY <2>2, <3>1, <3>3, FirstIsBefore
    <3> QED BY <3>2, <3>4
  <2>8. ASSUME status = "cancelled", ~tcancel PROVE wave = {}
    <3> SUFFICES ASSUME wave # {} PROVE FALSE
      OBVIOUS
    <3> DEFINE F == FirstOf(wave)
    <3>1. F \in Step /\ Outcome(F) = "cancelled"
      BY <2>2, <2>6, <2>8
    <3>2. 1..total[F] \subseteq Branch
      BY <1>1, <3>1, BoundAssumption DEF BoundAssumption, Branch, IInv, TypeOK
    <3> HIDE DEF F
    <3>3. phase[F] = "expand_cancelled" \/ \E k \in 1..total[F] : branch[F][k].st = "cancelled"
      BY <3>1 DEF Outcome
    <3> QED BY <1>1, <2>8, <3>1, <3>2, <3>3 DEF IInv, CancelledActivities
  <2> QED BY <2>3, <2>4, <2>5, <2>7, <2>8 DEF FinishedWorkBilled
<1> QED BY <1>1, Invariance, PTL

\* One step of the workflow is one step of the job's life, or none.
LEMMA LifecycleStep == IInv /\ [Next]_vars => [L!Next]_(L!vars)
<1> SUFFICES ASSUME IInv, [Next]_vars PROVE [L!Next]_(L!vars)
  OBVIOUS
<1> USE DEF IInv, Stages, L!vars
<1>1. CASE RejectPipeline
  BY <1>1 DEF RejectPipeline, L!Next, L!Reject, L!CloseOf
<1>2. CASE Begin
  BY <1>2 DEF Begin, L!Next, L!Begin
<1>3. CASE MergeFailed
  BY <1>3 DEF MergeFailed, L!Next, L!Finish, L!Terminal
<1>4. CASE MergeCancelled
  BY <1>4 DEF MergeCancelled, FinishCancelled, L!Next, L!Finish, L!Terminal
<1>5. CASE CancelAtLoop
  BY <1>5 DEF CancelAtLoop, FinishCancelled, L!Next, L!Finish, L!Terminal
<1>6. CASE Succeed
  BY <1>6 DEF Succeed, L!Next, L!Finish, L!Terminal
<1>7. CASE UsageRecorded
  BY <1>7 DEF UsageRecorded, L!Next, L!Close, progressVars
<1>8. CASE JobStartedRecorded \/ ScheduleWave \/ JoinWave \/ MergeOk \/ MergeEnd
  BY <1>8 DEF JobStartedRecorded, ScheduleWave, RunSteps, FanOutBranches, JoinWave, MergeOk, MergeEnd,
              progressVars
<1>9. ASSUME NEW s \in Step, Expand(s) PROVE UNCHANGED L!vars
  BY <1>9 DEF Expand, ExpandOk, FanOutBranches, ExpandFail, ExpandCancelled, progressVars
<1>10. ASSUME NEW s \in Step, NEW b \in Branch, Execute(s, b)
       PROVE  UNCHANGED L!vars
  BY <1>10 DEF Execute, StepOk, StepFail, StepCancelled, StepRetry, Answer,
               progressVars
<1>11. CASE CancelSignal \/ TemporalCancel \/ UNCHANGED vars
  BY <1>11 DEF CancelSignal, TemporalCancel, vars, progressVars
<1> QED
  BY <1>1, <1>2, <1>3, <1>4, <1>5, <1>6, <1>7, <1>8, <1>9, <1>10, <1>11
     DEF Next, Run, Closed

\* PipelineWorkflow implements the life of a job that the gateway and the job
\* row rely on: terminal statuses are final and the close state agrees.
THEOREM ImplementsJobLifecycle == Spec => ImplementsLifecycle
<1>1. Init => L!Init
  BY DEF Init, L!Init
<1> QED
  BY <1>1, LifecycleStep, Invariance, PTL DEF Spec, ImplementsLifecycle, L!Spec

\* For every pipeline, steps start after their dependencies and are billed once.
THEOREM StepsInOrder == Spec => []StepsInOrderOnce
BY DependenciesRespected, BilledOnce, PTL DEF StepsInOrderOnce

=============================================================================

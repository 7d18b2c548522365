---------------------------- MODULE JobRowProofs ----------------------------
(***************************************************************************)
(* Proofs about JobRow, for any number of polling clients, steps and         *)
(* attempts of record_job_started.                                           *)
(***************************************************************************)
EXTENDS JobRow, TLAPS

\* The two rows the code starts from are rows.
LEMMA RowTypes == NoRow \in Row /\ Queued \in Row
<1>1. {"none", "queued"} \subseteq RowStatus
  BY DEF RowStatus, L!JobStatus
<1>2. FALSE \in BOOLEAN
  OBVIOUS
<1> QED BY <1>1, <1>2 DEF NoRow, Queued, Row

\* Every action keeps the types.
LEMMA TypeStep == TypeOK /\ [Next]_vars => TypeOK'
<1> SUFFICES ASSUME TypeOK, [Next]_vars
             PROVE  TypeOK'
  OBVIOUS
<1> USE RowAssumption DEF RowAssumption, TypeOK, L!JobStatus, L!Terminal,
        L!CloseState, RowStatus, Row, Get
<1>1. CASE StartRequest
  BY <1>1 DEF StartRequest, wfVars, actVars
<1>2. CASE RecordRequest
  <2>1. row' = Queued \/ row' = row
    BY <1>2 DEF RecordRequest, TryInsertJob, InsertJob
  <2>2. row' \in Row
    BY <2>1, RowTypes
  <2> QED BY <1>2, <2>2 DEF RecordRequest, wfVars, actVars
<1>3. CASE RecordChild
  <2>1. row' = Queued \/ row' = row
    BY <1>3 DEF RecordChild, TryInsertJob, InsertJob
  <2>2. row' \in Row
    BY <2>1, RowTypes
  <2> QED BY <1>3, <2>2 DEF RecordChild, wfVars, actVars
<1>4. CASE StartChild
  BY <1>4 DEF StartChild, wfVars, actVars
<1>5. CASE AbandonChild
  BY <1>5 DEF AbandonChild, wfVars, actVars
<1>6. CASE RejectJob
  BY <1>6 DEF RejectJob, L!Reject, L!CloseOf, wfVars, actVars
<1>7. CASE BeginJob
  BY <1>7 DEF BeginJob, L!Begin, wfVars, actVars
<1>8. CASE StartedRecorded
  BY <1>8 DEF StartedRecorded, UpdateJobRow, StartPatch, Update, wfVars, actVars
<1>9. CASE StartedFails
  BY <1>9 DEF StartedFails, wfVars, actVars
<1>10. ASSUME NEW s \in Step, RunStep(s) PROVE TypeOK'
  BY <1>10 DEF RunStep, wfVars, actVars
<1>11. ASSUME NEW t \in L!Terminal, FinishJob(t) PROVE TypeOK'
  BY <1>11 DEF FinishJob, L!Finish, wfVars, actVars
<1>12. CASE UsagePatched
  BY <1>12 DEF UsagePatched, UpdateJobRow, Update, wfVars, actVars
<1>13. CASE UsageGivesUp
  BY <1>13 DEF UsageGivesUp, wfVars, actVars
<1>14. CASE CloseJob
  BY <1>14 DEF CloseJob, L!Close, L!CloseOf, wfVars, actVars
<1>15. CASE StrayServed
  BY <1>15 DEF StrayServed, UpdateJobRow, StartPatch, Update, wfVars, actVars
<1>16. CASE Forget
  BY <1>16 DEF Forget, wfVars, actVars
<1>17. ASSUME NEW r \in Reader, Describe(r) PROVE TypeOK'
  BY <1>17 DEF Describe, Update, MapExecutionStatus, Known, wfVars, actVars
<1>18. ASSUME NEW r \in Reader, QueryAnswered(r) PROVE TypeOK'
  BY <1>18 DEF QueryAnswered, Update, CombineStatus, wfVars, actVars
<1>19. ASSUME NEW r \in Reader, QueryFails(r) PROVE TypeOK'
  BY <1>19 DEF QueryFails, wfVars, actVars
<1>20. ASSUME NEW r \in Reader, WriteThrough(r) PROVE TypeOK'
  BY <1>20 DEF WriteThrough, UpdateJobRow, IdleGet, NoRow, wfVars, actVars
<1>21. ASSUME NEW r \in Reader, WriteThroughFails(r) PROVE TypeOK'
  BY <1>21 DEF WriteThroughFails, IdleGet, NoRow, wfVars, actVars
<1>22. CASE Signal
  BY <1>22 DEF Signal, Known, Running, wfVars, actVars
<1>23. CASE RequestCancel
  BY <1>23 DEF RequestCancel, Running, wfVars, actVars
<1>24. CASE CancelError
  <2>1. asked' \in BOOLEAN
    BY <1>24, Running \in BOOLEAN, Zenon DEF CancelError, Running
  <2> QED BY <1>24, <2>1 DEF CancelError, actVars
<1>25. CASE NotCancellable
  BY <1>25 DEF NotCancellable, wfVars, actVars
<1>26. CASE CancelAgain
  BY <1>26 DEF CancelAgain, wfVars, actVars
<1>27. CASE UNCHANGED vars
  BY <1>27 DEF vars, wfVars, actVars
<1> QED
  BY <1>1, <1>2, <1>3, <1>4, <1>5, <1>6, <1>7, <1>8, <1>9, <1>10, <1>11,
     <1>12, <1>13, <1>14, <1>15, <1>16, <1>17, <1>18, <1>19, <1>20,
     <1>21, <1>22, <1>23, <1>24, <1>25, <1>26, <1>27
     DEF Next, Submission, Job, Query, Reply, Cancel

\* A decided outcome is final and the execution closes with it.
LEMMA OutcomesStep == TypeOK /\ Outcomes /\ [Next]_vars => Outcomes'
<1> SUFFICES ASSUME TypeOK, Outcomes, [Next]_vars
             PROVE  Outcomes'
  OBVIOUS
<1> USE DEF Outcomes, L!JobStatus, L!Terminal, L!CloseState
<1>1. CASE StartRequest
  BY <1>1 DEF StartRequest, wfVars, actVars
<1>2. CASE RecordRequest
  BY <1>2 DEF RecordRequest, TryInsertJob, InsertJob, Queued, wfVars, actVars
<1>3. CASE RecordChild
  BY <1>3 DEF RecordChild, TryInsertJob, InsertJob, Queued, wfVars, actVars
<1>4. CASE StartChild
  BY <1>4 DEF StartChild, wfVars, actVars
<1>5. CASE AbandonChild
  BY <1>5 DEF AbandonChild, wfVars, actVars
<1>6. CASE RejectJob
  BY <1>6 DEF RejectJob, L!Reject, L!CloseOf, wfVars, actVars
<1>7. CASE BeginJob
  BY <1>7 DEF BeginJob, L!Begin, wfVars, actVars
<1>8. CASE StartedRecorded
  BY <1>8 DEF StartedRecorded, UpdateJobRow, StartPatch, Update, wfVars, actVars
<1>9. CASE StartedFails
  BY <1>9 DEF StartedFails, wfVars, actVars
<1>10. ASSUME NEW s \in Step, RunStep(s) PROVE Outcomes'
  BY <1>10 DEF RunStep, wfVars, actVars
<1>11. ASSUME NEW t \in L!Terminal, FinishJob(t) PROVE Outcomes'
  BY <1>11 DEF FinishJob, L!Finish, wfVars, actVars
<1>12. CASE UsagePatched
  BY <1>12 DEF UsagePatched, UpdateJobRow, Update, wfVars, actVars
<1>13. CASE UsageGivesUp
  BY <1>13 DEF UsageGivesUp, wfVars, actVars
<1>14. CASE CloseJob
  BY <1>14 DEF CloseJob, L!Close, L!CloseOf, wfVars, actVars
<1>15. CASE StrayServed
  BY <1>15 DEF StrayServed, UpdateJobRow, StartPatch, Update, wfVars, actVars
<1>16. CASE Forget
  BY <1>16 DEF Forget, wfVars, actVars
<1>17. ASSUME NEW r \in Reader, Describe(r) PROVE Outcomes'
  BY <1>17 DEF Describe, Update, MapExecutionStatus, Known, wfVars, actVars
<1>18. ASSUME NEW r \in Reader, QueryAnswered(r) PROVE Outcomes'
  BY <1>18 DEF QueryAnswered, Update, CombineStatus, wfVars, actVars
<1>19. ASSUME NEW r \in Reader, QueryFails(r) PROVE Outcomes'
  BY <1>19 DEF QueryFails, wfVars, actVars
<1>20. ASSUME NEW r \in Reader, WriteThrough(r) PROVE Outcomes'
  BY <1>20 DEF WriteThrough, UpdateJobRow, IdleGet, NoRow, wfVars, actVars
<1>21. ASSUME NEW r \in Reader, WriteThroughFails(r) PROVE Outcomes'
  BY <1>21 DEF WriteThroughFails, IdleGet, NoRow, wfVars, actVars
<1>22. CASE Signal
  BY <1>22 DEF Signal, Known, Running, wfVars, actVars
<1>23. CASE RequestCancel
  BY <1>23 DEF RequestCancel, Running, wfVars, actVars
<1>24. CASE CancelError
  BY <1>24 DEF CancelError, Known, Running, wfVars, actVars
<1>25. CASE NotCancellable
  BY <1>25 DEF NotCancellable, wfVars, actVars
<1>26. CASE CancelAgain
  BY <1>26 DEF CancelAgain, wfVars, actVars
<1>27. CASE UNCHANGED vars
  BY <1>27 DEF vars, wfVars, actVars
<1> QED
  BY <1>1, <1>2, <1>3, <1>4, <1>5, <1>6, <1>7, <1>8, <1>9, <1>10, <1>11,
     <1>12, <1>13, <1>14, <1>15, <1>16, <1>17, <1>18, <1>19, <1>20,
     <1>21, <1>22, <1>23, <1>24, <1>25, <1>26, <1>27
     DEF Next, Submission, Job, Query, Reply, Cancel

\* No snapshot holds an outcome the job does not have: the describe call only
\* sees a closed execution, and outcomes do not change.
LEMMA SnapshotsStep == TypeOK /\ Outcomes /\ Snapshots /\ [Next]_vars => Snapshots'
<1> SUFFICES ASSUME TypeOK, Outcomes, Snapshots, [Next]_vars
             PROVE  Snapshots'
  OBVIOUS
<1> USE DEF Snapshots, Outcomes, L!JobStatus, L!Terminal, L!CloseState
<1>1. CASE StartRequest
  BY <1>1 DEF StartRequest, wfVars, actVars
<1>2. CASE RecordRequest
  BY <1>2 DEF RecordRequest, TryInsertJob, InsertJob, Queued, wfVars, actVars
<1>3. CASE RecordChild
  BY <1>3 DEF RecordChild, TryInsertJob, InsertJob, Queued, wfVars, actVars
<1>4. CASE StartChild
  BY <1>4 DEF StartChild, wfVars, actVars
<1>5. CASE AbandonChild
  BY <1>5 DEF AbandonChild, wfVars, actVars
<1>6. CASE RejectJob
  BY <1>6 DEF RejectJob, L!Reject, L!CloseOf, wfVars, actVars
<1>7. CASE BeginJob
  BY <1>7 DEF BeginJob, L!Begin, wfVars, actVars
<1>8. CASE StartedRecorded
  BY <1>8 DEF StartedRecorded, UpdateJobRow, StartPatch, Update, wfVars, actVars
<1>9. CASE StartedFails
  BY <1>9 DEF StartedFails, wfVars, actVars
<1>10. ASSUME NEW s \in Step, RunStep(s) PROVE Snapshots'
  BY <1>10 DEF RunStep, wfVars, actVars
<1>11. ASSUME NEW t \in L!Terminal, FinishJob(t) PROVE Snapshots'
  BY <1>11 DEF FinishJob, L!Finish, wfVars, actVars
<1>12. CASE UsagePatched
  BY <1>12 DEF UsagePatched, UpdateJobRow, Update, wfVars, actVars
<1>13. CASE UsageGivesUp
  BY <1>13 DEF UsageGivesUp, wfVars, actVars
<1>14. CASE CloseJob
  BY <1>14 DEF CloseJob, L!Close, L!CloseOf, wfVars, actVars
<1>15. CASE StrayServed
  BY <1>15 DEF StrayServed, UpdateJobRow, StartPatch, Update, wfVars, actVars
<1>16. CASE Forget
  BY <1>16 DEF Forget, wfVars, actVars
<1>17. ASSUME NEW r \in Reader, Describe(r) PROVE Snapshots'
  <2>1. \A q \in Reader : reader'[q].upd = IF q = r
           THEN Update(MapExecutionStatus(close), NoStep, FALSE)
           ELSE reader[q].upd
    BY <1>17 DEF Describe, TypeOK
  <2>2. MapExecutionStatus(close) \in L!Terminal => MapExecutionStatus(close) = status
    BY DEF MapExecutionStatus, L!CloseOf
  <2>3. status' = status
    BY <1>17 DEF Describe, wfVars
  <2> QED BY <2>1, <2>2, <2>3 DEF Update
<1>18. ASSUME NEW r \in Reader, QueryAnswered(r) PROVE Snapshots'
  <2>1. \A q \in Reader : reader'[q].upd = IF q = r
           THEN Update(CombineStatus(reader[r].upd.st, status), wfStep,
                       status = "failed")
           ELSE reader[q].upd
    BY <1>18 DEF QueryAnswered, TypeOK
  <2>2. LET st == CombineStatus(reader[r].upd.st, status)
        IN  st \in L!Terminal => st = status
    BY DEF CombineStatus
  <2>3. status' = status
    BY <1>18 DEF QueryAnswered, wfVars
  <2>4. ASSUME NEW q \in Reader
        PROVE  /\ reader'[q].upd.st \in L!Terminal => reader'[q].upd.st = status
               /\ reader'[q].upd.err => status = "failed"
    <3>1. CASE q = r
      <4>1. reader'[q].upd = [st |-> CombineStatus(reader[r].upd.st, status),
                              step |-> wfStep, err |-> (status = "failed")]
        BY <2>1, <3>1 DEF Update
      <4>2. reader'[q].upd.st = CombineStatus(reader[r].upd.st, status)
        BY <4>1
      <4>3. CASE status # "failed"
        <5>1. (status = "failed") = FALSE
          BY <4>3
        <5>2. reader'[q].upd = [st |-> CombineStatus(reader[r].upd.st, status),
                                step |-> wfStep, err |-> FALSE]
          BY <4>1, <5>1, Zenon
        <5> QED BY <4>2, <2>2, <5>2
      <4> QED BY <4>2, <4>3, <2>2
    <3>2. CASE q # r
      BY <2>1, <3>2
    <3> QED BY <3>1, <3>2
  <2> QED BY <2>3, <2>4
<1>19. ASSUME NEW r \in Reader, QueryFails(r) PROVE Snapshots'
  BY <1>19 DEF QueryFails, wfVars, actVars
<1>20. ASSUME NEW r \in Reader, WriteThrough(r) PROVE Snapshots'
  BY <1>20 DEF WriteThrough, UpdateJobRow, IdleGet, NoRow, wfVars, actVars
<1>21. ASSUME NEW r \in Reader, WriteThroughFails(r) PROVE Snapshots'
  BY <1>21 DEF WriteThroughFails, IdleGet, NoRow, wfVars, actVars
<1>22. CASE Signal
  BY <1>22 DEF Signal, Known, Running, wfVars, actVars
<1>23. CASE RequestCancel
  BY <1>23 DEF RequestCancel, Running, wfVars, actVars
<1>24. CASE CancelError
  BY <1>24 DEF CancelError, Known, Running, wfVars, actVars
<1>25. CASE NotCancellable
  BY <1>25 DEF NotCancellable, wfVars, actVars
<1>26. CASE CancelAgain
  BY <1>26 DEF CancelAgain, wfVars, actVars
<1>27. CASE UNCHANGED vars
  BY <1>27 DEF vars, wfVars, actVars
<1> QED
  BY <1>1, <1>2, <1>3, <1>4, <1>5, <1>6, <1>7, <1>8, <1>9, <1>10, <1>11,
     <1>12, <1>13, <1>14, <1>15, <1>16, <1>17, <1>18, <1>19, <1>20,
     <1>21, <1>22, <1>23, <1>24, <1>25, <1>26, <1>27
     DEF Next, Submission, Job, Query, Reply, Cancel

\* Every write to the row, early or late, keeps it behind the workflow.
LEMMA RowStep == TypeOK /\ Outcomes /\ Snapshots /\ RowNeverAhead /\ [Next]_vars => RowNeverAhead'
<1> SUFFICES ASSUME TypeOK, Outcomes, Snapshots, RowNeverAhead, [Next]_vars
             PROVE  RowNeverAhead'
  OBVIOUS
<1> USE DEF RowNeverAhead, Snapshots, Outcomes, L!JobStatus, L!Terminal,
        L!CloseState
<1>1. CASE StartRequest
  BY <1>1 DEF StartRequest, wfVars, actVars
<1>2. CASE RecordRequest
  BY <1>2 DEF RecordRequest, TryInsertJob, InsertJob, Queued, wfVars, actVars
<1>3. CASE RecordChild
  BY <1>3 DEF RecordChild, TryInsertJob, InsertJob, Queued, wfVars, actVars
<1>4. CASE StartChild
  BY <1>4 DEF StartChild, wfVars, actVars
<1>5. CASE AbandonChild
  BY <1>5 DEF AbandonChild, wfVars, actVars
<1>6. CASE RejectJob
  BY <1>6 DEF RejectJob, L!Reject, L!CloseOf, wfVars, actVars
<1>7. CASE BeginJob
  BY <1>7 DEF BeginJob, L!Begin, wfVars, actVars
<1>8. CASE StartedRecorded
  BY <1>8 DEF StartedRecorded, UpdateJobRow, StartPatch, Update, wfVars, actVars
<1>9. CASE StartedFails
  BY <1>9 DEF StartedFails, wfVars, actVars
<1>10. ASSUME NEW s \in Step, RunStep(s) PROVE RowNeverAhead'
  BY <1>10 DEF RunStep, wfVars, actVars
<1>11. ASSUME NEW t \in L!Terminal, FinishJob(t) PROVE RowNeverAhead'
  BY <1>11 DEF FinishJob, L!Finish, wfVars, actVars
<1>12. CASE UsagePatched
  BY <1>12 DEF UsagePatched, UpdateJobRow, Update, wfVars, actVars
<1>13. CASE UsageGivesUp
  BY <1>13 DEF UsageGivesUp, wfVars, actVars
<1>14. CASE CloseJob
  BY <1>14 DEF CloseJob, L!Close, L!CloseOf, wfVars, actVars
<1>15. CASE StrayServed
  <2>1. status' = status /\ asked' = asked
    BY <1>15 DEF StrayServed, wfVars
  <2>2. CASE row' = row
    BY <2>1, <2>2
  <2>3. CASE UpdateJobRow(StartPatch)
    BY <2>1, <2>3 DEF UpdateJobRow, StartPatch, Update
  <2> QED BY <1>15, <2>2, <2>3 DEF StrayServed
<1>16. CASE Forget
  BY <1>16 DEF Forget, wfVars, actVars
<1>17. ASSUME NEW r \in Reader, Describe(r) PROVE RowNeverAhead'
  BY <1>17 DEF Describe, Update, MapExecutionStatus, Known, wfVars, actVars
<1>18. ASSUME NEW r \in Reader, QueryAnswered(r) PROVE RowNeverAhead'
  BY <1>18 DEF QueryAnswered, Update, CombineStatus, wfVars, actVars
<1>19. ASSUME NEW r \in Reader, QueryFails(r) PROVE RowNeverAhead'
  BY <1>19 DEF QueryFails, wfVars, actVars
<1>20. ASSUME NEW r \in Reader, WriteThrough(r) PROVE RowNeverAhead'
  BY <1>20 DEF WriteThrough, UpdateJobRow, IdleGet, NoRow, wfVars, actVars
<1>21. ASSUME NEW r \in Reader, WriteThroughFails(r) PROVE RowNeverAhead'
  BY <1>21 DEF WriteThroughFails, IdleGet, NoRow, wfVars, actVars
<1>22. CASE Signal
  BY <1>22 DEF Signal, Known, Running, wfVars, actVars
<1>23. CASE RequestCancel
  BY <1>23 DEF RequestCancel, Running, wfVars, actVars
<1>24. CASE CancelError
  BY <1>24 DEF CancelError, Known, Running, wfVars, actVars
<1>25. CASE NotCancellable
  BY <1>25 DEF NotCancellable, wfVars, actVars
<1>26. CASE CancelAgain
  BY <1>26 DEF CancelAgain, wfVars, actVars
<1>27. CASE UNCHANGED vars
  BY <1>27 DEF vars, wfVars, actVars
<1> QED
  BY <1>1, <1>2, <1>3, <1>4, <1>5, <1>6, <1>7, <1>8, <1>9, <1>10, <1>11,
     <1>12, <1>13, <1>14, <1>15, <1>16, <1>17, <1>18, <1>19, <1>20,
     <1>21, <1>22, <1>23, <1>24, <1>25, <1>26, <1>27
     DEF Next, Submission, Job, Query, Reply, Cancel

\* Every write to the row that leaves it succeeded clears its step.
LEMMA NoStepStep == TypeOK /\ SucceededHasNoStep /\ [Next]_vars => SucceededHasNoStep'
<1> SUFFICES ASSUME TypeOK, SucceededHasNoStep, [Next]_vars
             PROVE  SucceededHasNoStep'
  OBVIOUS
<1> USE DEF SucceededHasNoStep, TypeOK, Row, RowStatus, Get
<1>1. CASE StartRequest
  BY <1>1 DEF StartRequest, wfVars, actVars
<1>2. CASE RecordRequest
  BY <1>2 DEF RecordRequest, TryInsertJob, InsertJob, Queued, wfVars, actVars
<1>3. CASE RecordChild
  BY <1>3 DEF RecordChild, TryInsertJob, InsertJob, Queued, wfVars, actVars
<1>4. CASE StartChild
  BY <1>4 DEF StartChild, wfVars, actVars
<1>5. CASE AbandonChild
  BY <1>5 DEF AbandonChild, wfVars, actVars
<1>6. CASE RejectJob
  BY <1>6 DEF RejectJob, L!Reject, L!CloseOf, wfVars, actVars
<1>7. CASE BeginJob
  BY <1>7 DEF BeginJob, L!Begin, wfVars, actVars
<1>8. CASE StartedRecorded
  BY <1>8 DEF StartedRecorded, UpdateJobRow, StartPatch, Update, wfVars, actVars
<1>9. CASE StartedFails
  BY <1>9 DEF StartedFails, wfVars, actVars
<1>10. ASSUME NEW s \in Step, RunStep(s) PROVE SucceededHasNoStep'
  BY <1>10 DEF RunStep, wfVars, actVars
<1>11. ASSUME NEW t \in L!Terminal, FinishJob(t) PROVE SucceededHasNoStep'
  BY <1>11 DEF FinishJob, L!Finish, wfVars, actVars
<1>12. CASE UsagePatched
  BY <1>12 DEF UsagePatched, UpdateJobRow, Update, wfVars, actVars
<1>13. CASE UsageGivesUp
  BY <1>13 DEF UsageGivesUp, wfVars, actVars
<1>14. CASE CloseJob
  BY <1>14 DEF CloseJob, L!Close, L!CloseOf, wfVars, actVars
<1>15. CASE StrayServed
  BY <1>15 DEF StrayServed, UpdateJobRow, StartPatch, Update, wfVars, actVars
<1>16. CASE Forget
  BY <1>16 DEF Forget, wfVars, actVars
<1>17. ASSUME NEW r \in Reader, Describe(r) PROVE SucceededHasNoStep'
  BY <1>17 DEF Describe, Update, MapExecutionStatus, Known, wfVars, actVars
<1>18. ASSUME NEW r \in Reader, QueryAnswered(r) PROVE SucceededHasNoStep'
  BY <1>18 DEF QueryAnswered, Update, CombineStatus, wfVars, actVars
<1>19. ASSUME NEW r \in Reader, QueryFails(r) PROVE SucceededHasNoStep'
  BY <1>19 DEF QueryFails, wfVars, actVars
<1>20. ASSUME NEW r \in Reader, WriteThrough(r) PROVE SucceededHasNoStep'
  BY <1>20 DEF WriteThrough, UpdateJobRow, IdleGet, NoRow, wfVars, actVars
<1>21. ASSUME NEW r \in Reader, WriteThroughFails(r) PROVE SucceededHasNoStep'
  BY <1>21 DEF WriteThroughFails, IdleGet, NoRow, wfVars, actVars
<1>22. CASE Signal
  BY <1>22 DEF Signal, Known, Running, wfVars, actVars
<1>23. CASE RequestCancel
  BY <1>23 DEF RequestCancel, Running, wfVars, actVars
<1>24. CASE CancelError
  BY <1>24 DEF CancelError, Known, Running, wfVars, actVars
<1>25. CASE NotCancellable
  BY <1>25 DEF NotCancellable, wfVars, actVars
<1>26. CASE CancelAgain
  BY <1>26 DEF CancelAgain, wfVars, actVars
<1>27. CASE UNCHANGED vars
  BY <1>27 DEF vars, wfVars, actVars
<1> QED
  BY <1>1, <1>2, <1>3, <1>4, <1>5, <1>6, <1>7, <1>8, <1>9, <1>10, <1>11,
     <1>12, <1>13, <1>14, <1>15, <1>16, <1>17, <1>18, <1>19, <1>20,
     <1>21, <1>22, <1>23, <1>24, <1>25, <1>26, <1>27
     DEF Next, Submission, Job, Query, Reply, Cancel

\* A request-driven job has a row only after its workflow was started.
LEMMA SubmittedStep == TypeOK /\ Submitted /\ [Next]_vars => Submitted'
<1> SUFFICES ASSUME TypeOK, Submitted, [Next]_vars
             PROVE  Submitted'
  OBVIOUS
<1> USE DEF Submitted, L!JobStatus, L!Terminal, L!CloseState
<1>1. CASE StartRequest
  BY <1>1 DEF StartRequest, wfVars, actVars
<1>2. CASE RecordRequest
  <2>1. submit' = "done" /\ exists' = exists /\ close' = close
    BY <1>2 DEF RecordRequest, wfVars
  <2>2. exists # "no" /\ origin' = origin
    BY <1>2 DEF RecordRequest
  <2> QED BY <2>1, <2>2
<1>3. CASE RecordChild
  BY <1>3 DEF RecordChild, TryInsertJob, InsertJob, Queued, wfVars, actVars
<1>4. CASE StartChild
  BY <1>4 DEF StartChild, wfVars, actVars
<1>5. CASE AbandonChild
  BY <1>5 DEF AbandonChild, wfVars, actVars
<1>6. CASE RejectJob
  BY <1>6 DEF RejectJob, L!Reject, L!CloseOf, wfVars, actVars
<1>7. CASE BeginJob
  BY <1>7 DEF BeginJob, L!Begin, wfVars, actVars
<1>8. CASE StartedRecorded
  BY <1>8 DEF StartedRecorded, UpdateJobRow, StartPatch, Update, wfVars, actVars
<1>9. CASE StartedFails
  BY <1>9 DEF StartedFails, wfVars, actVars
<1>10. ASSUME NEW s \in Step, RunStep(s) PROVE Submitted'
  BY <1>10 DEF RunStep, wfVars, actVars
<1>11. ASSUME NEW t \in L!Terminal, FinishJob(t) PROVE Submitted'
  BY <1>11 DEF FinishJob, L!Finish, wfVars, actVars
<1>12. CASE UsagePatched
  BY <1>12 DEF UsagePatched, UpdateJobRow, Update, wfVars, actVars
<1>13. CASE UsageGivesUp
  BY <1>13 DEF UsageGivesUp, wfVars, actVars
<1>14. CASE CloseJob
  BY <1>14 DEF CloseJob, L!Close, L!CloseOf, wfVars, actVars
<1>15. CASE StrayServed
  BY <1>15 DEF StrayServed, UpdateJobRow, StartPatch, Update, wfVars, actVars
<1>16. CASE Forget
  BY <1>16 DEF Forget, wfVars, actVars
<1>17. ASSUME NEW r \in Reader, Describe(r) PROVE Submitted'
  BY <1>17 DEF Describe, Update, MapExecutionStatus, Known, wfVars, actVars
<1>18. ASSUME NEW r \in Reader, QueryAnswered(r) PROVE Submitted'
  BY <1>18 DEF QueryAnswered, Update, CombineStatus, wfVars, actVars
<1>19. ASSUME NEW r \in Reader, QueryFails(r) PROVE Submitted'
  BY <1>19 DEF QueryFails, wfVars, actVars
<1>20. ASSUME NEW r \in Reader, WriteThrough(r) PROVE Submitted'
  <2>1. row.st = "none" => row' = row
    BY <1>20 DEF WriteThrough, UpdateJobRow
  <2>2. UNCHANGED <<origin, submit, exists, close>>
    BY <1>20 DEF WriteThrough, wfVars
  <2> QED BY <2>1, <2>2
<1>21. ASSUME NEW r \in Reader, WriteThroughFails(r) PROVE Submitted'
  BY <1>21 DEF WriteThroughFails, IdleGet, NoRow, wfVars, actVars
<1>22. CASE Signal
  BY <1>22 DEF Signal, Known, Running, wfVars, actVars
<1>23. CASE RequestCancel
  BY <1>23 DEF RequestCancel, Running, wfVars, actVars
<1>24. CASE CancelError
  BY <1>24 DEF CancelError, Known, Running, wfVars, actVars
<1>25. CASE NotCancellable
  BY <1>25 DEF NotCancellable, wfVars, actVars
<1>26. CASE CancelAgain
  BY <1>26 DEF CancelAgain, wfVars, actVars
<1>27. CASE UNCHANGED vars
  BY <1>27 DEF vars, wfVars, actVars
<1> QED
  BY <1>1, <1>2, <1>3, <1>4, <1>5, <1>6, <1>7, <1>8, <1>9, <1>10, <1>11,
     <1>12, <1>13, <1>14, <1>15, <1>16, <1>17, <1>18, <1>19, <1>20,
     <1>21, <1>22, <1>23, <1>24, <1>25, <1>26, <1>27
     DEF Next, Submission, Job, Query, Reply, Cancel

\* Temporal refuses the signal or the cancellation of a started job only when
\* it has closed.
LEMMA RefusalsStep == TypeOK /\ Submitted /\ Refusals /\ [Next]_vars => Refusals'
<1> SUFFICES ASSUME TypeOK, Submitted, Refusals, [Next]_vars
             PROVE  Refusals'
  OBVIOUS
<1> USE DEF Refusals, Submitted, L!JobStatus, L!Terminal, L!CloseState
<1>1. CASE StartRequest
  BY <1>1 DEF StartRequest, wfVars, actVars
<1>2. CASE RecordRequest
  BY <1>2 DEF RecordRequest, TryInsertJob, InsertJob, Queued, wfVars, actVars
<1>3. CASE RecordChild
  BY <1>3 DEF RecordChild, TryInsertJob, InsertJob, Queued, wfVars, actVars
<1>4. CASE StartChild
  BY <1>4 DEF StartChild, wfVars, actVars
<1>5. CASE AbandonChild
  BY <1>5 DEF AbandonChild, wfVars, actVars
<1>6. CASE RejectJob
  BY <1>6 DEF RejectJob, L!Reject, L!CloseOf, wfVars, actVars
<1>7. CASE BeginJob
  BY <1>7 DEF BeginJob, L!Begin, wfVars, actVars
<1>8. CASE StartedRecorded
  BY <1>8 DEF StartedRecorded, UpdateJobRow, StartPatch, Update, wfVars, actVars
<1>9. CASE StartedFails
  BY <1>9 DEF StartedFails, wfVars, actVars
<1>10. ASSUME NEW s \in Step, RunStep(s) PROVE Refusals'
  BY <1>10 DEF RunStep, wfVars, actVars
<1>11. ASSUME NEW t \in L!Terminal, FinishJob(t) PROVE Refusals'
  BY <1>11 DEF FinishJob, L!Finish, wfVars, actVars
<1>12. CASE UsagePatched
  BY <1>12 DEF UsagePatched, UpdateJobRow, Update, wfVars, actVars
<1>13. CASE UsageGivesUp
  BY <1>13 DEF UsageGivesUp, wfVars, actVars
<1>14. CASE CloseJob
  BY <1>14 DEF CloseJob, L!Close, L!CloseOf, wfVars, actVars
<1>15. CASE StrayServed
  BY <1>15 DEF StrayServed, UpdateJobRow, StartPatch, Update, wfVars, actVars
<1>16. CASE Forget
  BY <1>16 DEF Forget, wfVars, actVars
<1>17. ASSUME NEW r \in Reader, Describe(r) PROVE Refusals'
  BY <1>17 DEF Describe, Update, MapExecutionStatus, Known, wfVars, actVars
<1>18. ASSUME NEW r \in Reader, QueryAnswered(r) PROVE Refusals'
  BY <1>18 DEF QueryAnswered, Update, CombineStatus, wfVars, actVars
<1>19. ASSUME NEW r \in Reader, QueryFails(r) PROVE Refusals'
  BY <1>19 DEF QueryFails, wfVars, actVars
<1>20. ASSUME NEW r \in Reader, WriteThrough(r) PROVE Refusals'
  BY <1>20 DEF WriteThrough, UpdateJobRow, IdleGet, NoRow, wfVars, actVars
<1>21. ASSUME NEW r \in Reader, WriteThroughFails(r) PROVE Refusals'
  BY <1>21 DEF WriteThroughFails, IdleGet, NoRow, wfVars, actVars
<1>22. CASE Signal
  <2>1. CASE Running
    BY <1>22, <2>1 DEF Signal, Running
  <2>2. CASE ~Running /\ origin = "request"
    <3>1. submit = "done"
      BY <1>22, <2>2 DEF Signal, Known
    <3>2. exists # "no"
      BY <2>2, <3>1
    <3>3. close # "open"
      BY <2>2, <3>2 DEF Running, TypeOK
    <3>4. canceller' = "refused" /\ close' = close
      BY <1>22, <2>2 DEF Signal
    <3> QED BY <3>3, <3>4
  <2>3. CASE ~Running /\ origin # "request"
    <3>1. canceller' = "refused" /\ origin' = origin
      BY <1>22, <2>3 DEF Signal
    <3> QED BY <2>3, <3>1
  <2> QED BY <2>1, <2>2, <2>3
<1>23. CASE RequestCancel
  <2>1. CASE Running
    BY <1>23, <2>1 DEF RequestCancel
  <2>2. CASE ~Running
    BY <1>23, <2>2 DEF RequestCancel, wfVars, Running, TypeOK
  <2> QED BY <2>1, <2>2
<1>24. CASE CancelError
  BY <1>24 DEF CancelError, Known, Running, wfVars, actVars
<1>25. CASE NotCancellable
  BY <1>25 DEF NotCancellable, wfVars, actVars
<1>26. CASE CancelAgain
  BY <1>26 DEF CancelAgain, wfVars, actVars
<1>27. CASE UNCHANGED vars
  BY <1>27 DEF vars, wfVars, actVars
<1> QED
  BY <1>1, <1>2, <1>3, <1>4, <1>5, <1>6, <1>7, <1>8, <1>9, <1>10, <1>11,
     <1>12, <1>13, <1>14, <1>15, <1>16, <1>17, <1>18, <1>19, <1>20,
     <1>21, <1>22, <1>23, <1>24, <1>25, <1>26, <1>27
     DEF Next, Submission, Job, Query, Reply, Cancel

\* The initial states satisfy every part of the invariant.
LEMMA InitInvariant == Init => IInv
<1> SUFFICES ASSUME Init PROVE IInv
  OBVIOUS
<1> USE DEF L!JobStatus, L!Terminal, L!CloseState
<1>1. TypeOK
  <2>1. IdleGet \in Get
    BY RowTypes DEF IdleGet, Get
  <2>2. reader \in [Reader -> Get]
    BY <2>1 DEF Init
  <2>3. started \in [attempts : 0..MaxStartAttempts, ended : BOOLEAN]
    BY RowAssumption DEF RowAssumption, Init
  <2>4. asked \in BOOLEAN /\ row \in Row
    BY RowTypes DEF Init
  <2> QED BY <2>2, <2>3, <2>4 DEF Init, TypeOK
<1>2. Outcomes /\ Submitted /\ Refusals
  BY DEF Init, Outcomes, Submitted, Refusals, NoRow
<1>3. Snapshots /\ RowNeverAhead /\ SucceededHasNoStep
  BY DEF Init, Snapshots, RowNeverAhead, SucceededHasNoStep, NoRow, IdleGet
<1> QED BY <1>1, <1>2, <1>3 DEF IInv

\* IInv is an inductive invariant of the row and everybody who writes it.
THEOREM Invariance == Spec => []IInv
<1>1. IInv /\ [Next]_vars => IInv'
  BY TypeStep, OutcomesStep, SnapshotsStep, RowStep, NoStepStep, SubmittedStep,
     RefusalsStep DEF IInv
<1> QED BY InitInvariant, <1>1, PTL DEF Spec

\* Type correctness of the row, the workflow's view and the requests under way.
THEOREM TypeCorrect == Spec => []TypeOK
<1>1. IInv => TypeOK
  BY DEF IInv
<1> QED BY Invariance, <1>1, PTL

\* update_job_row's own invariant survives every interleaving of its callers.
THEOREM NoStepAfterSuccess == Spec => []SucceededHasNoStep
<1>1. IInv => SucceededHasNoStep
  BY DEF IInv
<1> QED BY Invariance, <1>1, PTL

\* The cached row never claims an outcome, an error or a cancellation that the
\* workflow does not have.
THEOREM CacheNeverAhead == Spec => []RowNeverAhead
<1>1. IInv => RowNeverAhead
  BY DEF IInv
<1> QED BY Invariance, <1>1, PTL

\* GET /jobs/{id} never answers an outcome that is not the job's.
THEOREM ClientsToldTheTruth == Spec => []AnswersTrue
<1>1. IInv => AnswersTrue
  BY DEF IInv, Snapshots, AnswersTrue
<1> QED BY Invariance, <1>1, PTL

\* A request-driven job that cannot be cancelled "because it finished" did.
THEOREM RefusalMeansOver == Spec => []RequestRefusedIsOver
<1>1. IInv => RequestRefusedIsOver
  BY DEF IInv, Refusals, RequestRefusedIsOver, Running
<1> QED BY Invariance, <1>1, PTL

\* Neither a status nor a refusal tells a client that a job is over that is not.
THEOREM NoFalseEnd == Spec => []ToldTheTruth
BY ClientsToldTheTruth, RefusalMeansOver, PTL DEF ToldTheTruth

=============================================================================

-------------------------- MODULE ArchiveJobProofs --------------------------
(***************************************************************************)
(* Proofs about ArchiveJob, for archives, waves and runs of any size.        *)
(***************************************************************************)
EXTENDS ArchiveJob, FiniteSetTheorems, TLAPS

\* Every set of files is finite.
LEMMA FilesFinite ==
  ASSUME NEW S \in SUBSET File
  PROVE  IsFiniteSet(S) /\ Cardinality(S) \in Nat
<1>1. IsFiniteSet(File)
  BY FS_Interval, ArchiveAssumption DEF File, ArchiveAssumption
<1>2. IsFiniteSet(S)
  BY <1>1, FS_Subset
<1> QED BY <1>2, FS_CardinalityType

\* Two disjoint sets of files count as much as their union.
LEMMA Counted ==
  ASSUME NEW S \in SUBSET File, NEW T \in SUBSET File, S \cap T = {}
  PROVE  Cardinality(S \cup T) = Cardinality(S) + Cardinality(T)
<1>1. IsFiniteSet(S) /\ IsFiniteSet(T) /\ Cardinality(S) \in Nat /\ Cardinality(T) \in Nat
  BY FilesFinite
<1>2. Cardinality({}) = 0
  BY FS_EmptySet
<1>3. Cardinality(S \cup T)
        = Cardinality(S) + Cardinality(T) - Cardinality(S \cap T)
  BY <1>1, FS_Union, Zenon
<1>4. Cardinality(S \cap T) = 0
  BY <1>2
<1> QED BY <1>1, <1>3, <1>4

\* The page read by prepare_archive_files is the stretch of the manifest that
\* starts at the cursor and has as many entries as the activity reports.
LEMMA PageIsNext ==
  ASSUME TypeOK
  PROVE  /\ Cardinality(Page) \in 0..Wave
         /\ next + Cardinality(Page) <= MaxFiles
         /\ Page = {f \in File : next < f /\ f <= next + Cardinality(Page)}
<1> DEFINE last == IF listed <= next + Wave THEN listed ELSE next + Wave
<1>1. next \in Nat /\ Wave \in Nat /\ MaxFiles \in Nat /\ listed \in 0..MaxFiles
      /\ next \in 0..MaxFiles
  BY ArchiveAssumption DEF TypeOK, ArchiveAssumption
<1>2. Page = (next + 1)..last
  BY <1>1 DEF Page, File
<1>3. Cardinality(Page) = IF next + 1 > last THEN 0 ELSE last - (next + 1) + 1
  BY <1>1, <1>2, FS_Interval
<1>4. Cardinality(Page) \in 0..Wave /\ next + Cardinality(Page) <= MaxFiles
  BY <1>1, <1>3
<1>5. Page = {f \in File : next < f /\ f <= next + Cardinality(Page)}
  BY <1>1, <1>2, <1>3 DEF File
<1> QED BY <1>4, <1>5

\* Every action keeps the types.
LEMMA TypeStep == TypeOK /\ Shape /\ [Next]_vars => TypeOK'
<1> SUFFICES ASSUME TypeOK, Shape, [Next]_vars
             PROVE  TypeOK'
  OBVIOUS
<1> USE ArchiveAssumption DEF ArchiveAssumption
<1>1. CASE FinishRecorded
  BY <1>1 DEF TypeOK, FinishRecorded, L!CloseOf, L!JobStatus, L!Terminal, L!CloseState,
     cancelVars, expandVars, cursor, counters
<1>2. CASE Begin
  BY <1>2 DEF TypeOK, Begin, L!JobStatus, L!Terminal, L!CloseState,
     cancelVars, expandVars, cursor, counters
<1>3. CASE StartedRecorded
  BY <1>3 DEF TypeOK, StartedRecorded, L!JobStatus, L!Terminal, L!CloseState,
     cancelVars, expandVars, cursor, counters
<1>4. ASSUME NEW n \in 0..MaxFiles, NEW k \in 0..MaxUnreadable, ExpandOk(n, k)
      PROVE  TypeOK'
  BY <1>4 DEF TypeOK, ExpandOk, L!JobStatus, L!Terminal, L!CloseState,
     cancelVars, expandVars, cursor, counters
<1>5. CASE ExpandRetry
  BY <1>5 DEF TypeOK, Shape, ExpandRetry, cancelVars, cursor, counters
<1>6. CASE ExpandFails
  BY <1>6 DEF TypeOK, ExpandFails, Fail, L!JobStatus, L!Terminal, L!CloseState,
     cancelVars, expandVars, cursor, counters
<1>7. CASE ExpandCancelled
  BY <1>7 DEF TypeOK, ExpandCancelled, Fail, L!JobStatus, L!Terminal, L!CloseState,
     cancelVars, expandVars, cursor, counters
<1>8. CASE CancelAtLoop
  BY <1>8 DEF TypeOK, CancelAtLoop, FinishCancelled, L!JobStatus, L!Terminal, L!CloseState,
     cancelVars, expandVars, cursor, counters
<1>9. CASE ContinueAsNew
  <2>1. carried' \in BOOLEAN /\ cancelRequested' \in BOOLEAN /\ tcancel' \in BOOLEAN
    BY <1>9 DEF TypeOK, ContinueAsNew
  <2> QED BY <1>9, <2>1 DEF TypeOK, ContinueAsNew, expandVars, cursor, counters
<1>10. CASE Resume
  <2>1. carried' \in BOOLEAN /\ cancelRequested' \in BOOLEAN /\ tcancel' \in BOOLEAN
    BY <1>10 DEF TypeOK, Resume
  <2> QED BY <1>10, <2>1 DEF TypeOK, Resume, expandVars, cursor, counters
<1>11. CASE StartWave
  BY <1>11 DEF TypeOK, StartWave, L!JobStatus, L!Terminal, L!CloseState,
     cancelVars, expandVars, cursor, counters
<1>12. ASSUME NEW skip \in SUBSET Page, NEW refuse \in SUBSET (Page \ skip), PrepareOk(skip, refuse)
      PROVE  TypeOK'
  <2>1. /\ Cardinality(skip) \in Nat
        /\ Cardinality(refuse) \in Nat
        /\ Cardinality(Page \ (skip \cup refuse)) \in Nat
    BY FilesFinite DEF Page
  <2>2. consumed' \in 0..Wave
    BY <1>12, PageIsNext DEF PrepareOk
  <2>3. fate' \in [File -> Fate]
    BY <1>12 DEF TypeOK, PrepareOk, Fate
  <2> QED BY <1>12, <2>1, <2>2, <2>3 DEF TypeOK, PrepareOk, expandVars, cancelVars
<1>13. CASE PrepareEmpty
  BY <1>13 DEF TypeOK, PrepareEmpty, Fail, L!JobStatus, L!Terminal, L!CloseState,
     cancelVars, expandVars, cursor, counters
<1>14. CASE PrepareFails
  BY <1>14 DEF TypeOK, PrepareFails, Fail, L!JobStatus, L!Terminal, L!CloseState,
     cancelVars, expandVars, cursor, counters
<1>15. CASE PrepareCancelled
  BY <1>15 DEF TypeOK, PrepareCancelled, Fail, L!JobStatus, L!Terminal, L!CloseState,
     cancelVars, expandVars, cursor, counters
<1>16. ASSUME NEW f \in File, NEW end \in {"succeeded", "failed"}, FileEnds(f, end)
      PROVE  TypeOK'
  BY <1>16 DEF TypeOK, FileEnds, Fate, cancelVars, expandVars, cursor, counters
<1>17. CASE JoinWave
  <2>1. /\ Cardinality(Ended("succeeded")) \in Nat
        /\ Cardinality(Ended("failed")) \in Nat
    BY FilesFinite DEF Ended
  <2> QED BY <1>17, <2>1 DEF TypeOK, Shape, JoinWave, expandVars, cancelVars
<1>18. CASE EndFailed
  BY <1>18 DEF TypeOK, EndFailed, Fail, L!JobStatus, L!Terminal, L!CloseState,
     cancelVars, expandVars, cursor, counters
<1>19. CASE EndSucceeded
  BY <1>19 DEF TypeOK, EndSucceeded, OutcomeError, L!JobStatus, L!Terminal, L!CloseState,
     cancelVars, expandVars, cursor, counters
<1>20. CASE StaleManifest
  BY <1>20 DEF TypeOK, StaleManifest, L!JobStatus, L!Terminal, L!CloseState,
     cancelVars, expandVars, cursor, counters
<1>21. CASE CancelSignal
  BY <1>21 DEF TypeOK, CancelSignal, L!JobStatus, L!Terminal, L!CloseState,
     cancelVars, expandVars, cursor, counters
<1>22. CASE TemporalCancel
  BY <1>22 DEF TypeOK, TemporalCancel, L!JobStatus, L!Terminal, L!CloseState,
     cancelVars, expandVars, cursor, counters
<1>23. CASE UNCHANGED vars
  BY <1>23 DEF TypeOK, vars, cancelVars, expandVars, cursor, counters
<1> QED BY <1>1, <1>2, <1>3, <1>4, <1>5, <1>6, <1>7, <1>8, <1>9, <1>10, <1>11,
            <1>12, <1>13, <1>14, <1>15, <1>16, <1>17, <1>18, <1>19, <1>20,
            <1>21, <1>22, <1>23 DEF Next, Work

\* Every action keeps the program counter and the rest of the state together.
LEMMA ShapeStep == TypeOK /\ Shape /\ [Next]_vars => Shape'
<1> SUFFICES ASSUME TypeOK, Shape, [Next]_vars
             PROVE  Shape'
  OBVIOUS
<1> USE ArchiveAssumption DEF ArchiveAssumption
<1>1. CASE FinishRecorded
  BY <1>1 DEF TypeOK, Shape, FinishRecorded, L!CloseOf, L!Terminal,
     cancelVars, expandVars, cursor, counters
<1>2. CASE Begin
  BY <1>2 DEF TypeOK, Shape, Begin, L!Terminal,
     cancelVars, expandVars, cursor, counters
<1>3. CASE StartedRecorded
  BY <1>3 DEF TypeOK, Shape, StartedRecorded, L!Terminal,
     cancelVars, expandVars, cursor, counters
<1>4. ASSUME NEW n \in 0..MaxFiles, NEW k \in 0..MaxUnreadable, ExpandOk(n, k)
      PROVE  Shape'
  BY <1>4 DEF TypeOK, Shape, ExpandOk, L!Terminal,
     cancelVars, expandVars, cursor, counters
<1>5. CASE ExpandRetry
  BY <1>5 DEF TypeOK, Shape, ExpandRetry, L!Terminal,
     cancelVars, expandVars, cursor, counters
<1>6. CASE ExpandFails
  BY <1>6 DEF TypeOK, Shape, ExpandFails, Fail, L!Terminal,
     cancelVars, expandVars, cursor, counters
<1>7. CASE ExpandCancelled
  BY <1>7 DEF TypeOK, Shape, ExpandCancelled, Fail, L!Terminal,
     cancelVars, expandVars, cursor, counters
<1>8. CASE CancelAtLoop
  BY <1>8 DEF TypeOK, Shape, CancelAtLoop, FinishCancelled, L!Terminal,
     cancelVars, expandVars, cursor, counters
<1>9. CASE ContinueAsNew
  BY <1>9 DEF TypeOK, Shape, ContinueAsNew, L!Terminal,
     cancelVars, expandVars, cursor, counters
<1>10. CASE Resume
  BY <1>10 DEF TypeOK, Shape, Resume, L!Terminal,
     cancelVars, expandVars, cursor, counters
<1>11. CASE StartWave
  BY <1>11 DEF TypeOK, Shape, StartWave, L!Terminal,
     cancelVars, expandVars, cursor, counters
<1>12. ASSUME NEW skip \in SUBSET Page, NEW refuse \in SUBSET (Page \ skip), PrepareOk(skip, refuse)
      PROVE  Shape'
  <2>1. next + consumed' <= MaxFiles
    BY <1>12, PageIsNext DEF PrepareOk
  <2> QED BY <1>12, <2>1 DEF Shape, PrepareOk, expandVars, cancelVars
<1>13. CASE PrepareEmpty
  BY <1>13 DEF TypeOK, Shape, PrepareEmpty, Fail, L!Terminal,
     cancelVars, expandVars, cursor, counters
<1>14. CASE PrepareFails
  BY <1>14 DEF TypeOK, Shape, PrepareFails, Fail, L!Terminal,
     cancelVars, expandVars, cursor, counters
<1>15. CASE PrepareCancelled
  BY <1>15 DEF TypeOK, Shape, PrepareCancelled, Fail, L!Terminal,
     cancelVars, expandVars, cursor, counters
<1>16. ASSUME NEW f \in File, NEW end \in {"succeeded", "failed"}, FileEnds(f, end)
      PROVE  Shape'
  BY <1>16 DEF TypeOK, Shape, FileEnds, L!Terminal,
     cancelVars, expandVars, cursor, counters
<1>17. CASE JoinWave
  BY <1>17 DEF TypeOK, Shape, JoinWave, L!Terminal,
     cancelVars, expandVars, cursor, counters
<1>18. CASE EndFailed
  BY <1>18 DEF TypeOK, Shape, EndFailed, Fail, L!Terminal,
     cancelVars, expandVars, cursor, counters
<1>19. CASE EndSucceeded
  BY <1>19 DEF TypeOK, Shape, EndSucceeded, OutcomeError, L!Terminal,
     cancelVars, expandVars, cursor, counters
<1>20. CASE StaleManifest
  BY <1>20 DEF TypeOK, Shape, StaleManifest, L!Terminal,
     cancelVars, expandVars, cursor, counters
<1>21. CASE CancelSignal
  BY <1>21 DEF TypeOK, Shape, CancelSignal, L!Terminal,
     cancelVars, expandVars, cursor, counters
<1>22. CASE TemporalCancel
  BY <1>22 DEF TypeOK, Shape, TemporalCancel, L!Terminal,
     cancelVars, expandVars, cursor, counters
<1>23. CASE UNCHANGED vars
  BY <1>23 DEF Shape, vars, cancelVars, expandVars, cursor, counters
<1> QED BY <1>1, <1>2, <1>3, <1>4, <1>5, <1>6, <1>7, <1>8, <1>9, <1>10, <1>11,
            <1>12, <1>13, <1>14, <1>15, <1>16, <1>17, <1>18, <1>19, <1>20,
            <1>21, <1>22, <1>23 DEF Next, Work

\* A job that succeeded looked at its whole archive, and nothing moves after.
LEMMA DecidedStep == TypeOK /\ Shape /\ Decided /\ [Next]_vars => Decided'
<1> SUFFICES ASSUME TypeOK, Shape, Decided, [Next]_vars
             PROVE  Decided'
  OBVIOUS
<1>1. CASE FinishRecorded
  BY <1>1 DEF TypeOK, Shape, Decided, FinishRecorded, L!CloseOf, L!Terminal,
     cancelVars, expandVars, cursor, counters
<1>2. CASE Begin
  BY <1>2 DEF TypeOK, Shape, Decided, Begin, L!Terminal,
     cancelVars, expandVars, cursor, counters
<1>3. CASE StartedRecorded
  BY <1>3 DEF TypeOK, Shape, Decided, StartedRecorded, L!Terminal,
     cancelVars, expandVars, cursor, counters
<1>4. ASSUME NEW n \in 0..MaxFiles, NEW k \in 0..MaxUnreadable, ExpandOk(n, k)
      PROVE  Decided'
  BY <1>4 DEF TypeOK, Shape, Decided, ExpandOk, L!Terminal,
     cancelVars, expandVars, cursor, counters
<1>5. CASE ExpandRetry
  BY <1>5 DEF TypeOK, Shape, Decided, ExpandRetry, L!Terminal,
     cancelVars, expandVars, cursor, counters
<1>6. CASE ExpandFails
  BY <1>6 DEF TypeOK, Shape, Decided, ExpandFails, Fail, L!Terminal,
     cancelVars, expandVars, cursor, counters
<1>7. CASE ExpandCancelled
  BY <1>7 DEF TypeOK, Shape, Decided, ExpandCancelled, Fail, L!Terminal,
     cancelVars, expandVars, cursor, counters
<1>8. CASE CancelAtLoop
  BY <1>8 DEF TypeOK, Shape, Decided, CancelAtLoop, FinishCancelled, L!Terminal,
     cancelVars, expandVars, cursor, counters
<1>9. CASE ContinueAsNew
  BY <1>9 DEF TypeOK, Shape, Decided, ContinueAsNew, L!Terminal,
     cancelVars, expandVars, cursor, counters
<1>10. CASE Resume
  BY <1>10 DEF TypeOK, Shape, Decided, Resume, L!Terminal,
     cancelVars, expandVars, cursor, counters
<1>11. CASE StartWave
  BY <1>11 DEF TypeOK, Shape, Decided, StartWave, L!Terminal,
     cancelVars, expandVars, cursor, counters
<1>12. ASSUME NEW skip \in SUBSET Page, NEW refuse \in SUBSET (Page \ skip), PrepareOk(skip, refuse)
      PROVE  Decided'
  BY <1>12 DEF TypeOK, Shape, Decided, PrepareOk, L!Terminal,
     cancelVars, expandVars, cursor, counters
<1>13. CASE PrepareEmpty
  BY <1>13 DEF TypeOK, Shape, Decided, PrepareEmpty, Fail, L!Terminal,
     cancelVars, expandVars, cursor, counters
<1>14. CASE PrepareFails
  BY <1>14 DEF TypeOK, Shape, Decided, PrepareFails, Fail, L!Terminal,
     cancelVars, expandVars, cursor, counters
<1>15. CASE PrepareCancelled
  BY <1>15 DEF TypeOK, Shape, Decided, PrepareCancelled, Fail, L!Terminal,
     cancelVars, expandVars, cursor, counters
<1>16. ASSUME NEW f \in File, NEW end \in {"succeeded", "failed"}, FileEnds(f, end)
      PROVE  Decided'
  BY <1>16 DEF TypeOK, Shape, Decided, FileEnds, L!Terminal,
     cancelVars, expandVars, cursor, counters
<1>17. CASE JoinWave
  BY <1>17 DEF TypeOK, Shape, Decided, JoinWave, L!Terminal,
     cancelVars, expandVars, cursor, counters
<1>18. CASE EndFailed
  BY <1>18 DEF TypeOK, Shape, Decided, EndFailed, Fail, L!Terminal,
     cancelVars, expandVars, cursor, counters
<1>19. CASE EndSucceeded
  BY <1>19 DEF TypeOK, Shape, Decided, EndSucceeded, OutcomeError, L!Terminal,
     cancelVars, expandVars, cursor, counters
<1>20. CASE StaleManifest
  BY <1>20 DEF TypeOK, Shape, Decided, StaleManifest, L!Terminal,
     cancelVars, expandVars, cursor, counters
<1>21. CASE CancelSignal
  BY <1>21 DEF TypeOK, Shape, Decided, CancelSignal, L!Terminal,
     cancelVars, expandVars, cursor, counters
<1>22. CASE TemporalCancel
  BY <1>22 DEF TypeOK, Shape, Decided, TemporalCancel, L!Terminal,
     cancelVars, expandVars, cursor, counters
<1>23. CASE UNCHANGED vars
  BY <1>23 DEF Decided, vars, cancelVars, expandVars, cursor, counters
<1> QED BY <1>1, <1>2, <1>3, <1>4, <1>5, <1>6, <1>7, <1>8, <1>9, <1>10, <1>11,
            <1>12, <1>13, <1>14, <1>15, <1>16, <1>17, <1>18, <1>19, <1>20,
            <1>21, <1>22, <1>23 DEF Next, Work

\* What the cursor, the files and the counters say of each other.
Files == CursorExact /\ CountsExact /\ OneWaveAtATime

filesVars == <<next, consumed, fate, unreadable, counters>>

\* Most actions touch none of it.
LEMMA Untouched == Files /\ UNCHANGED filesVars => Files'
BY DEF Files, CursorExact, CountsExact, OneWaveAtATime, Seen, Merged, Became,
       filesVars, counters

\* expand(): nothing is routed yet; every entry skipped is counted, whether or
\* not it came back as a sample.
LEMMA ExpandFiles ==
  ASSUME TypeOK, Shape, Files,
         NEW n \in 0..MaxFiles, NEW k \in 0..MaxUnreadable, ExpandOk(n, k)
  PROVE  Files'
<1> USE ArchiveAssumption DEF ArchiveAssumption
<1>1. unreadable = 0 /\ unreadable' = k /\ next' = next /\ consumed' = consumed
      /\ fate' = fate
  BY DEF Shape, ExpandOk
<1>2. filesSkipped' = filesSkipped + k
  BY DEF ExpandOk, TypeOK
<1>3. Cardinality(Became(Seen, {"skipped"})) \in Nat
  BY FilesFinite DEF Became, Seen
<1>4. CursorExact' /\ OneWaveAtATime'
  BY <1>1 DEF Files, CursorExact, OneWaveAtATime, Seen, Merged
<1>5. (Became(Seen, {"skipped"}))' = Became(Seen, {"skipped"})
  BY <1>1 DEF Became, Seen
<1>6. filesSkipped' = unreadable' + Cardinality(Became(Seen, {"skipped"}))'
  BY <1>1, <1>2, <1>3, <1>5 DEF Files, CountsExact
<1>7. CountsExact'
  BY <1>1, <1>6 DEF Files, CountsExact, Became, Seen, Merged, ExpandOk
<1> QED BY <1>4, <1>7 DEF Files

\* A routed wave: the page is new, and each of its files is counted once.
LEMMA PrepareFiles ==
  ASSUME TypeOK, Shape, Files,
         NEW skip \in SUBSET Page, NEW refuse \in SUBSET (Page \ skip),
         PrepareOk(skip, refuse)
  PROVE  Files'
<1> DEFINE jobs == Page \ (skip \cup refuse)
<1>1. /\ Page = {f \in File : next < f /\ f <= next + consumed'}
      /\ consumed' \in Nat /\ consumed' <= Wave
      /\ next' = next /\ next \in Nat /\ consumed = 0
      /\ MaxFiles \in Nat /\ Wave \in Nat
  BY PageIsNext, ArchiveAssumption DEF PrepareOk, TypeOK, Shape, ArchiveAssumption
<1>2. /\ fate \in [File -> Fate]
      /\ fate' = [f \in File |-> IF f \notin Page THEN fate[f]
                                 ELSE IF f \in skip THEN "skipped"
                                 ELSE IF f \in refuse THEN "refused"
                                 ELSE "running"]
  BY DEF PrepareOk, TypeOK
<1>3. Seen = Merged /\ Merged' = Merged /\ Seen' = Seen \cup Page
      /\ Seen \cap Page = {} /\ Page \subseteq File /\ Seen \subseteq File
  BY <1>1 DEF Seen, Merged, File
<1>4. \A f \in Seen : fate'[f] = fate[f] /\ fate[f] \notin {"none", "running"}
  BY <1>2, <1>3 DEF Files, CursorExact, OneWaveAtATime
<1>5. CursorExact'
  <2>1. \A f \in File : f \in Page => fate'[f] # "none" /\ f \in Seen'
    BY <1>2, <1>3
  <2>2. \A f \in File : f \notin Page => fate'[f] = fate[f] /\ (f \in Seen' <=> f \in Seen)
    BY <1>2, <1>3
  <2>3. \A f \in File : fate[f] = "none" <=> f \notin Seen
    BY DEF Files, CursorExact
  <2>4. \A f \in File : fate'[f] = "none" <=> f \notin Seen'
    BY <2>1, <2>2, <2>3
  <2> QED BY <2>4 DEF CursorExact, File
<1>6. OneWaveAtATime'
  <2>1. \A f \in Merged' : fate'[f] # "running"
    BY <1>3, <1>4
  <2>2. {f \in File : fate'[f] = "running"} = jobs
    <3>1. \A f \in File : f \notin Page => fate[f] # "running"
      BY <1>3 DEF Files, CursorExact, OneWaveAtATime
    <3> QED BY <1>2, <1>3, <3>1
  <2>3. Cardinality(jobs) <= Cardinality(Page)
    BY <1>3, FilesFinite, FS_Subset
  <2>4. Cardinality(jobs) \in Nat /\ Cardinality(Page) = consumed'
    BY <1>3, FilesFinite DEF PrepareOk
  <2>5. Cardinality(jobs) <= Wave
    BY <1>1, <2>3, <2>4
  <2> QED BY <2>1, <2>2, <2>5 DEF OneWaveAtATime, File, Merged
<1>7. CountsExact'
  <2> DEFINE S(F) == Became(Seen, F)
  <2>1. (Became(Merged, {"succeeded"}))' = Became(Merged, {"succeeded"})
        /\ (Became(Merged, {"failed"}))' = Became(Merged, {"failed"})
    BY <1>3, <1>4 DEF Became
  <2>2. (Became(Seen, {"refused"}))' = S({"refused"}) \cup refuse
    BY <1>2, <1>3, <1>4 DEF Became
  <2>3. (Became(Seen, {"skipped"}))' = S({"skipped"}) \cup skip
    BY <1>2, <1>3, <1>4 DEF Became
  <2>4. (Became(Seen, {"running", "succeeded", "failed"}))'
          = S({"running", "succeeded", "failed"}) \cup jobs
    BY <1>2, <1>3, <1>4 DEF Became
  <2>5. \A F : S(F) \in SUBSET Seen /\ S(F) \in SUBSET File
    BY <1>3 DEF Became
  <2>6. /\ Cardinality(S({"refused"}) \cup refuse)
             = Cardinality(S({"refused"})) + Cardinality(refuse)
        /\ Cardinality(S({"skipped"}) \cup skip)
             = Cardinality(S({"skipped"})) + Cardinality(skip)
        /\ Cardinality(S({"running", "succeeded", "failed"}) \cup jobs)
             = Cardinality(S({"running", "succeeded", "failed"})) + Cardinality(jobs)
    <3>1. \A F : \A T \in SUBSET Page : S(F) \cap T = {} /\ T \in SUBSET File
      BY <1>3, <2>5
    <3>2. \A F : \A T \in SUBSET Page :
            Cardinality(S(F) \cup T) = Cardinality(S(F)) + Cardinality(T)
      BY <2>5, <3>1, Counted
    <3>3. refuse \in SUBSET Page /\ skip \in SUBSET Page /\ jobs \in SUBSET Page
      OBVIOUS
    <3> HIDE DEF S, jobs
    <3> QED BY <3>2, <3>3
  <2>7. /\ \A F : Cardinality(S(F)) \in Nat
        /\ Cardinality(refuse) \in Nat /\ Cardinality(skip) \in Nat
        /\ Cardinality(jobs) \in Nat
        /\ Cardinality(Became(Merged, {"failed"})) \in Nat
    <3>1. Became(Merged, {"failed"}) \in SUBSET File
      BY DEF Became, Merged
    <3> QED BY <1>3, <2>5, <3>1, FilesFinite
  <2>8. /\ filesSucceeded' = filesSucceeded
        /\ unreadable' = unreadable /\ unreadable \in Nat
        /\ filesSkipped' = filesSkipped + Cardinality(skip)
        /\ filesFailed' = filesFailed + Cardinality(refuse)
        /\ filesStarted' = filesStarted + Cardinality(jobs)
    BY ArchiveAssumption DEF PrepareOk, expandVars, TypeOK, ArchiveAssumption
  <2>9. /\ filesSucceeded = Cardinality(Became(Merged, {"succeeded"}))
        /\ filesFailed = Cardinality(Became(Merged, {"failed"}))
                         + Cardinality(S({"refused"}))
        /\ filesSkipped = unreadable + Cardinality(S({"skipped"}))
        /\ filesStarted = Cardinality(S({"running", "succeeded", "failed"}))
    BY DEF Files, CountsExact
  <2> HIDE DEF S, jobs
  <2>10. filesFailed' = Cardinality(Became(Merged, {"failed"}))
                        + Cardinality(S({"refused"}) \cup refuse)
    BY <2>6, <2>7, <2>8, <2>9
  <2>11. filesSkipped' = unreadable' + Cardinality(S({"skipped"}) \cup skip)
    BY <2>6, <2>7, <2>8, <2>9
  <2>12. filesStarted' = Cardinality(S({"running", "succeeded", "failed"}) \cup jobs)
    BY <2>6, <2>7, <2>8, <2>9
  <2> QED BY <2>1, <2>2, <2>3, <2>4, <2>8, <2>9, <2>10, <2>11, <2>12 DEF CountsExact
<1> QED BY <1>5, <1>6, <1>7 DEF Files

\* A file's job ends: it is in the wave under way, so no counter is about its
\* outcome yet, and it stays a file whose job was started.
LEMMA FileEndsFiles ==
  ASSUME TypeOK, Shape, Files,
         NEW f \in File, NEW end \in {"succeeded", "failed"}, FileEnds(f, end)
  PROVE  Files'
<1>1. /\ fate \in [File -> Fate] /\ fate[f] = "running"
      /\ fate' = [fate EXCEPT ![f] = end]
      /\ next' = next /\ consumed' = consumed /\ unreadable' = unreadable
      /\ UNCHANGED counters
  BY DEF TypeOK, FileEnds, cursor, expandVars
<1>2. Seen' = Seen /\ Merged' = Merged
  BY <1>1 DEF Seen, Merged
<1>3. f \in Seen /\ f \notin Merged
  BY <1>1 DEF Files, CursorExact, OneWaveAtATime
<1>4. \A g \in File : g # f => fate'[g] = fate[g]
  BY <1>1
<1>5. fate'[f] = end
  BY <1>1
<1>6. CursorExact'
  <2>1. \A g \in File : fate'[g] = "none" <=> g \notin Seen
    BY <1>3, <1>4, <1>5 DEF Files, CursorExact
  <2> QED BY <1>2, <2>1 DEF CursorExact, File
<1>7. OneWaveAtATime'
  <2> DEFINE R == {g \in File : fate[g] = "running"}
  <2>1. \A g \in Merged : fate'[g] # "running"
    BY <1>3, <1>4 DEF Files, OneWaveAtATime, Merged
  <2>2. {g \in File : fate'[g] = "running"} \in SUBSET R
    BY <1>4, <1>5
  <2>3. Cardinality({g \in File : fate'[g] = "running"}) <= Cardinality(R)
    BY <2>2, FilesFinite, FS_Subset
  <2>4. Cardinality(R) \in Nat /\ Cardinality({g \in File : fate'[g] = "running"}) \in Nat
    BY FilesFinite
  <2>5. Cardinality(R) <= Wave
    BY DEF Files, OneWaveAtATime
  <2>6. Cardinality({g \in File : fate'[g] = "running"}) <= Wave
    BY <2>3, <2>4, <2>5, ArchiveAssumption DEF ArchiveAssumption
  <2> QED BY <1>2, <2>1, <2>6 DEF OneWaveAtATime, File
<1>8. CountsExact'
  <2>1. (Became(Merged, {"succeeded"}))' = Became(Merged, {"succeeded"})
        /\ (Became(Merged, {"failed"}))' = Became(Merged, {"failed"})
    BY <1>2, <1>3, <1>4 DEF Became, Merged
  <2>2. (Became(Seen, {"refused"}))' = Became(Seen, {"refused"})
        /\ (Became(Seen, {"skipped"}))' = Became(Seen, {"skipped"})
    BY <1>1, <1>2, <1>4, <1>5 DEF Became, Seen
  <2>3. (Became(Seen, {"running", "succeeded", "failed"}))'
          = Became(Seen, {"running", "succeeded", "failed"})
    BY <1>1, <1>2, <1>4, <1>5 DEF Became, Seen
  <2> QED BY <1>1, <2>1, <2>2, <2>3 DEF Files, CountsExact, counters
<1> QED BY <1>6, <1>7, <1>8 DEF Files

\* The wave is over: its files move behind the cursor with their outcomes
\* counted.
LEMMA JoinFiles ==
  ASSUME TypeOK, Shape, Files, JoinWave
  PROVE  Files'
<1>1. /\ next \in Nat /\ consumed \in Nat /\ next' = next + consumed
      /\ consumed' = 0 /\ fate' = fate /\ unreadable' = unreadable
      /\ filesStarted' = filesStarted /\ filesSkipped' = filesSkipped
      /\ MaxFiles \in Nat
  BY ArchiveAssumption DEF TypeOK, JoinWave, expandVars, ArchiveAssumption
<1>2. Seen' = Seen /\ Merged' = Seen
  BY <1>1 DEF Seen, Merged, File
<1> DEFINE W == {f \in File : next < f /\ f <= next + consumed}
<1>3. Seen = Merged \cup W /\ Merged \cap W = {} /\ Seen \subseteq File
  BY <1>1 DEF Seen, Merged, File
<1>4. \A e : Ended(e) = {f \in W : fate[f] = e}
  BY DEF Ended
<1>5. CursorExact'
  BY <1>1, <1>2 DEF Files, CursorExact
<1>6. OneWaveAtATime'
  <2>1. \A f \in Seen : fate[f] # "running"
    BY <1>3, <1>4 DEF Files, OneWaveAtATime, JoinWave
  <2> QED BY <1>1, <1>2, <2>1 DEF Files, OneWaveAtATime
<1>7. \A e : /\ Became(Seen, {e}) = Became(Merged, {e}) \cup Ended(e)
             /\ Cardinality(Became(Seen, {e}))
                  = Cardinality(Became(Merged, {e})) + Cardinality(Ended(e))
  <2> TAKE e
  <2>1. Became(Seen, {e}) = Became(Merged, {e}) \cup Ended(e)
    BY <1>3, <1>4 DEF Became
  <2>2. Became(Merged, {e}) \cap Ended(e) = {}
    BY <1>3, <1>4 DEF Became
  <2>3. Became(Merged, {e}) \in SUBSET File /\ Ended(e) \in SUBSET File
    BY <1>3, <1>4 DEF Became
  <2> QED BY <2>1, <2>2, <2>3, Counted
<1>8. \A e : /\ Cardinality(Became(Merged, {e})) \in Nat
             /\ Cardinality(Ended(e)) \in Nat
             /\ Cardinality(Became(Seen, {e})) \in Nat
  <2> TAKE e
  <2>1. Became(Merged, {e}) \in SUBSET File /\ Ended(e) \in SUBSET File
        /\ Became(Seen, {e}) \in SUBSET File
    BY <1>3, <1>4 DEF Became
  <2> QED BY <2>1, FilesFinite
<1>9. \A F : (Became(Merged, F))' = Became(Seen, F)
             /\ (Became(Seen, F))' = Became(Seen, F)
  BY <1>1, <1>2 DEF Became
<1>10. filesSucceeded' = Cardinality(Became(Seen, {"succeeded"}))
  <2>1. filesSucceeded = Cardinality(Became(Merged, {"succeeded"}))
    BY DEF Files, CountsExact
  <2>2. filesSucceeded' = filesSucceeded + Cardinality(Ended("succeeded"))
    BY DEF JoinWave
  <2> QED BY <1>7, <2>1, <2>2
<1>11. filesFailed' = Cardinality(Became(Seen, {"failed"}))
                      + Cardinality(Became(Seen, {"refused"}))
  <2>1. filesFailed = Cardinality(Became(Merged, {"failed"}))
                      + Cardinality(Became(Seen, {"refused"}))
    BY DEF Files, CountsExact
  <2>2. filesFailed' = filesFailed + Cardinality(Ended("failed"))
    BY DEF JoinWave
  <2>3. Cardinality(Became(Seen, {"failed"}))
          = Cardinality(Became(Merged, {"failed"})) + Cardinality(Ended("failed"))
    BY <1>7
  <2> QED BY <1>8, <2>1, <2>2, <2>3
<1>12. CountsExact'
  <2>1. filesSkipped = unreadable + Cardinality(Became(Seen, {"skipped"}))
        /\ filesStarted = Cardinality(Became(Seen, {"running", "succeeded", "failed"}))
    BY DEF Files, CountsExact
  <2> QED BY <1>1, <1>9, <1>10, <1>11, <2>1 DEF CountsExact
<1> QED BY <1>5, <1>6, <1>12 DEF Files

\* Every action keeps the cursor, the files and the counters together.
LEMMA FilesStep == TypeOK /\ Shape /\ Files /\ [Next]_vars => Files'
<1> SUFFICES ASSUME TypeOK, Shape, Files, [Next]_vars
             PROVE  Files'
  OBVIOUS
<1>1. CASE FinishRecorded
  BY <1>1, Untouched DEF FinishRecorded, filesVars, expandVars, cursor
<1>2. CASE Begin
  BY <1>2, Untouched DEF Begin, filesVars, expandVars, cursor
<1>3. CASE StartedRecorded
  BY <1>3, Untouched DEF StartedRecorded, filesVars, expandVars, cursor
<1>4. ASSUME NEW n \in 0..MaxFiles, NEW k \in 0..MaxUnreadable, ExpandOk(n, k)
      PROVE  Files'
  BY <1>4, ExpandFiles
<1>5. CASE ExpandRetry
  BY <1>5, Untouched DEF ExpandRetry, filesVars, expandVars, cursor
<1>6. CASE ExpandFails
  BY <1>6, Untouched DEF ExpandFails, filesVars, expandVars, cursor
<1>7. CASE ExpandCancelled
  BY <1>7, Untouched DEF ExpandCancelled, filesVars, expandVars, cursor
<1>8. CASE CancelAtLoop
  BY <1>8, Untouched DEF CancelAtLoop, filesVars, expandVars, cursor
<1>9. CASE ContinueAsNew
  BY <1>9, Untouched DEF ContinueAsNew, filesVars, expandVars, cursor
<1>10. CASE Resume
  BY <1>10, Untouched DEF Resume, filesVars, expandVars, cursor
<1>11. CASE StartWave
  BY <1>11, Untouched DEF StartWave, filesVars, expandVars, cursor
<1>12. ASSUME NEW skip \in SUBSET Page, NEW refuse \in SUBSET (Page \ skip), PrepareOk(skip, refuse)
      PROVE  Files'
  BY <1>12, PrepareFiles
<1>13. CASE PrepareEmpty
  BY <1>13, Untouched DEF PrepareEmpty, filesVars, expandVars, cursor
<1>14. CASE PrepareFails
  BY <1>14, Untouched DEF PrepareFails, filesVars, expandVars, cursor
<1>15. CASE PrepareCancelled
  BY <1>15, Untouched DEF PrepareCancelled, filesVars, expandVars, cursor
<1>16. ASSUME NEW f \in File, NEW end \in {"succeeded", "failed"}, FileEnds(f, end)
      PROVE  Files'
  BY <1>16, FileEndsFiles
<1>17. CASE JoinWave
  BY <1>17, JoinFiles
<1>18. CASE EndFailed
  BY <1>18, Untouched DEF EndFailed, filesVars, expandVars, cursor
<1>19. CASE EndSucceeded
  BY <1>19, Untouched DEF EndSucceeded, filesVars, expandVars, cursor
<1>20. CASE StaleManifest
  BY <1>20, Untouched DEF StaleManifest, filesVars, expandVars, cursor
<1>21. CASE CancelSignal
  BY <1>21, Untouched DEF CancelSignal, filesVars, expandVars, cursor
<1>22. CASE TemporalCancel
  BY <1>22, Untouched DEF TemporalCancel, filesVars, expandVars, cursor
<1>23. CASE UNCHANGED vars
  BY <1>23, Untouched DEF vars, filesVars, expandVars, cursor
<1> QED BY <1>1, <1>2, <1>3, <1>4, <1>5, <1>6, <1>7, <1>8, <1>9, <1>10, <1>11,
            <1>12, <1>13, <1>14, <1>15, <1>16, <1>17, <1>18, <1>19, <1>20,
            <1>21, <1>22, <1>23 DEF Next, Work

LEMMA InitInv == Init => IInv
<1> SUFFICES ASSUME Init PROVE IInv
  OBVIOUS
<1> USE ArchiveAssumption DEF ArchiveAssumption
<1>1. TypeOK
  <2>1. fate \in [File -> Fate]
    BY DEF Init, Fate
  <2>2. status \in L!JobStatus /\ close \in L!CloseState
    BY DEF Init, L!JobStatus, L!CloseState
  <2>3. cancelRequested \in BOOLEAN /\ carried \in BOOLEAN /\ tcancel \in BOOLEAN
    BY DEF Init
  <2> QED BY <2>1, <2>2, <2>3 DEF Init, TypeOK
<1>2. Shape /\ Decided
  BY DEF Init, Shape, Decided
<1>3. \A S : Became(Seen, S) = {} /\ Became(Merged, S) = {}
  BY DEF Init, Became, Seen, Merged, File
<1>4. Cardinality({}) = 0
  BY FS_EmptySet
<1>5. CountsExact
  <2>1. \A S : Cardinality(Became(Seen, S)) = 0 /\ Cardinality(Became(Merged, S)) = 0
    BY <1>3, <1>4
  <2> QED BY <2>1 DEF Init, CountsExact
<1>6. CursorExact
  BY DEF Init, CursorExact, Seen, File
<1>7. {f \in File : fate[f] = "running"} = {}
  BY DEF Init
<1>8. OneWaveAtATime
  <2>1. Cardinality({f \in File : fate[f] = "running"}) <= Wave
    BY <1>4, <1>7
  <2>2. \A f \in Merged : fate[f] # "running"
    BY <1>7 DEF Merged
  <2> QED BY <2>1, <2>2 DEF OneWaveAtATime
<1> QED BY <1>1, <1>2, <1>5, <1>6, <1>8 DEF IInv

\* The inductive invariant holds in every reachable state: run() of any run of
\* the archive job, whatever the archive holds and whenever it is cancelled.
THEOREM Invariance == Spec => []IInv
<1>1. IInv /\ [Next]_vars => IInv'
  BY TypeStep, ShapeStep, DecidedStep, FilesStep DEF IInv, Files
<1> QED BY <1>1, InitInv, PTL DEF Spec

\* progress.archive is exact for archives of any size, in any number of waves
\* and runs (CountsExact).
THEOREM CountsAreExact == Spec => []CountsExact
BY Invariance, PTL DEF IInv

\* A continued run starts from the first file that was not routed
\* (CursorExact).
THEOREM CursorIsExact == Spec => []CursorExact
BY Invariance, PTL DEF IInv

\* At most one wave of files runs, whatever the wave size (OneWaveAtATime).
THEOREM WavesDoNotOverlap == Spec => []OneWaveAtATime
BY Invariance, PTL DEF IInv

\* An archive job that reports success ingested every file it routed, and at
\* least one (SucceededMeansIngested).
THEOREM SuccessIsTrue == Spec => []SucceededMeansIngested
<1>1. IInv => SucceededMeansIngested
  <2> SUFFICES ASSUME IInv, status = "succeeded"
               PROVE  /\ \A f \in File : f <= total => fate[f] \in {"succeeded", "skipped"}
                      /\ \E f \in File : fate[f] = "succeeded"
    BY DEF SucceededMeansIngested
  <2>1. /\ next \in Nat /\ total \in Nat /\ consumed = 0 /\ MaxFiles \in Nat
        /\ next >= total /\ filesFailed = 0 /\ filesSucceeded > 0
        /\ fate \in [File -> Fate]
    BY ArchiveAssumption DEF IInv, TypeOK, Shape, Decided, ArchiveAssumption
  <2>2. Merged = Seen
    BY <2>1 DEF Merged, Seen, File
  <2>3. Became(Merged, {"failed"}) \in SUBSET File
        /\ Became(Seen, {"refused"}) \in SUBSET File
        /\ Became(Merged, {"succeeded"}) \in SUBSET File
    BY DEF Became, Merged, Seen
  <2>4. Cardinality(Became(Merged, {"failed"})) = 0
        /\ Cardinality(Became(Seen, {"refused"})) = 0
    <3>1. Cardinality(Became(Merged, {"failed"})) \in Nat
          /\ Cardinality(Became(Seen, {"refused"})) \in Nat
      BY <2>3, FilesFinite
    <3>2. filesFailed = Cardinality(Became(Merged, {"failed"}))
                        + Cardinality(Became(Seen, {"refused"}))
      BY DEF IInv, CountsExact
    <3> QED BY <2>1, <3>1, <3>2
  <2>5. Became(Merged, {"failed"}) = {} /\ Became(Seen, {"refused"}) = {}
    BY <2>3, <2>4, FilesFinite, FS_EmptySet
  <2>6. Became(Merged, {"succeeded"}) # {}
    <3>1. filesSucceeded = Cardinality(Became(Merged, {"succeeded"}))
      BY DEF IInv, CountsExact
    <3> QED BY <2>1, <3>1, FS_EmptySet
  <2>7. \A f \in Merged : fate[f] \notin {"none", "running", "failed", "refused"}
    BY <2>2, <2>5 DEF IInv, CursorExact, OneWaveAtATime, Became, Merged
  <2>8. \A f \in File : f <= total => f \in Merged
    BY <2>1 DEF Merged, File
  <2>9. \A f \in File : f <= total => fate[f] \in {"succeeded", "skipped"}
    BY <2>1, <2>7, <2>8 DEF Fate
  <2>10. \E f \in File : fate[f] = "succeeded"
    BY <2>6 DEF Became, Merged
  <2> QED BY <2>9, <2>10
<1> QED BY <1>1, Invariance, PTL

\* No file is handed to a pipeline twice and no outcome is rewritten
\* (EachFileOnce).
THEOREM FilesHandedOnce == Spec => EachFileOnce
<1>1. IInv /\ [Next]_vars =>
        [\A f \in File : fate[f] \notin {"none", "running"} => fate'[f] = fate[f]]_vars
  <2> SUFFICES ASSUME IInv, Next
               PROVE  \A f \in File : fate[f] \notin {"none", "running"}
                                      => fate'[f] = fate[f]
    OBVIOUS
  <2>1. ASSUME NEW skip \in SUBSET Page, NEW refuse \in SUBSET (Page \ skip),
               PrepareOk(skip, refuse)
        PROVE  \A f \in File : fate[f] \notin {"none", "running"} => fate'[f] = fate[f]
    <3>1. \A f \in Page : f \notin Seen
      BY <2>1, ArchiveAssumption DEF IInv, TypeOK, Shape, PrepareOk, Page, Seen, File,
         ArchiveAssumption
    <3>2. \A f \in Page : fate[f] = "none"
      BY <3>1 DEF IInv, CursorExact, Page
    <3> QED BY <2>1, <3>2 DEF PrepareOk
  <2>2. ASSUME NEW g \in File, NEW end \in {"succeeded", "failed"}, FileEnds(g, end)
        PROVE  \A f \in File : fate[f] \notin {"none", "running"} => fate'[f] = fate[f]
    BY <2>2 DEF IInv, TypeOK, FileEnds
  <2>3. CASE fate' = fate
    BY <2>3
  <2> QED BY <2>1, <2>2, <2>3 DEF Next, Work, FinishRecorded, Begin, StartedRecorded,
             ExpandOk, ExpandRetry, ExpandFails, ExpandCancelled, CancelAtLoop,
             ContinueAsNew, Resume, StartWave, PrepareEmpty, PrepareFails,
             PrepareCancelled, JoinWave, EndFailed, EndSucceeded, StaleManifest,
             CancelSignal, TemporalCancel
<1> QED BY <1>1, Invariance, PTL DEF Spec, EachFileOnce

\* An archive job is a job: what the gateway relies on for PipelineJob holds of
\* it too, and continuing as new does not show (ImplementsLifecycle).
THEOREM ImplementsJobLifecycle == Spec => ImplementsLifecycle
<1>1. Init => L!Init
  BY DEF Init, L!Init
<1>2. IInv /\ [Next]_vars => [L!Next]_(L!vars)
  <2> SUFFICES ASSUME IInv, [Next]_vars
               PROVE  [L!Next]_(L!vars)
    OBVIOUS
  <2> USE DEF L!vars
  <2>1. CASE Begin
    BY <2>1 DEF IInv, Shape, Begin, L!Next, L!Begin
  <2>2. CASE FinishRecorded
    BY <2>2 DEF IInv, Shape, FinishRecorded, L!Next, L!Close, L!Terminal
  <2>3. ASSUME NEW why, pc \in {"expand", "prepare", "loop"}, Fail(why), close' = close
        PROVE  [L!Next]_(L!vars)
    BY <2>3 DEF IInv, Shape, Fail, L!Next, L!Finish, L!Terminal
  <2>4. CASE CancelAtLoop
    BY <2>4 DEF IInv, Shape, CancelAtLoop, FinishCancelled, L!Next, L!Finish, L!Terminal
  <2>5. CASE EndSucceeded
    BY <2>5 DEF IInv, Shape, EndSucceeded, L!Next, L!Finish, L!Terminal
  <2>6. CASE ExpandFails \/ ExpandCancelled \/ PrepareEmpty \/ PrepareFails
             \/ PrepareCancelled \/ EndFailed
    BY <2>3, <2>6 DEF ExpandFails, ExpandCancelled, PrepareEmpty, PrepareFails,
       PrepareCancelled, EndFailed
  <2>7. CASE \/ StartedRecorded \/ ExpandRetry \/ ContinueAsNew \/ Resume \/ StartWave
             \/ JoinWave \/ StaleManifest \/ CancelSignal \/ TemporalCancel
             \/ \E n \in 0..MaxFiles, k \in 0..MaxUnreadable : ExpandOk(n, k)
             \/ \E f \in File : \E end \in {"succeeded", "failed"} : FileEnds(f, end)
             \/ \E skip \in SUBSET Page : \E refuse \in SUBSET (Page \ skip) :
                  PrepareOk(skip, refuse)
    <3>1. UNCHANGED <<status, close>>
      BY <2>7 DEF StartedRecorded, ExpandRetry, ContinueAsNew, Resume, StartWave, JoinWave,
         StaleManifest, CancelSignal, TemporalCancel, ExpandOk, FileEnds, PrepareOk
    <3> QED BY <3>1
  <2>8. CASE UNCHANGED vars
    BY <2>8 DEF vars
  <2> QED BY <2>1, <2>2, <2>4, <2>5, <2>6, <2>7, <2>8 DEF Next, Work
<1> QED BY <1>1, <1>2, Invariance, PTL DEF Spec, ImplementsLifecycle, L!Spec

\* For every archive, the cursor and the counts are exact in every run of the job.
THEOREM ProgressIsExact == Spec => []ProgressExact
BY CursorIsExact, CountsAreExact, PTL DEF ProgressExact

=============================================================================

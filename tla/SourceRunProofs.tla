--------------------------- MODULE SourceRunProofs ---------------------------
(***************************************************************************)
(* Proofs about SourceRun, for any number of locations, items, attempts,   *)
(* publications and failures.                                              *)
(***************************************************************************)
EXTENDS SourceRun, FiniteSetTheorems, TLAPS

----------------------------------------------------------------------------
(* The inductive invariant. *)

\* What each point of a run implies.
Stages ==
    /\ run.pc \in {"idle", "load", "checks", "fetch"} => run.fetched = {} /\ run.save = {}
    /\ run.pc \in {"idle", "load", "checks", "fetch", "stage"} => \A i \in 1 .. Items : run.jobs[i] = "none"
    /\ run.pc \in {"idle", "load", "checks", "fetch", "stage", "children"} => run.outcome = "failed"
    /\ run.pc = "children" =>
         /\ \A i \in 1 .. Items : run.jobs[i] # "none"
         /\ (\A i \in 1 .. Items : run.jobs[i] = "ok") => run.fetched \subseteq ingested
    /\ run.pc \in {"load", "checks", "fetch", "stage", "children"} => run.try <= ResolveAttempts
    /\ run.pc \in {"record", "save"} => run.try <= RecordAttempts
    /\ run.pc = "stage" => run.staged < Items
    /\ run.pc = "save" => run.save # {}

\* A state is the empty one or marks one body that upstream has published.
Mark(b) == [etag |-> IF b[1] \in Tagged THEN {b} ELSE {}, lm |-> b[2], hash |-> {b}]
Published == {b \in Bodies : b[2] <= upstream[b[1]]}
Marked == {NoState} \cup {Mark(b) : b \in Published}

\* A state may be kept when what it marks was ingested.
Keepable == {st \in Marked : st.hash \subseteq ingested}

\* Every state that is stored, compared with, or on its way may be kept; the one a run has
\* learned may be once its children have ingested what it fetched.
StatesKept ==
    /\ source.state \in Keepable
    /\ run.pc \in {"checks", "fetch"} => run.row.state \in Keepable
    /\ \A r \in late : r.kind = "state" => r.state \in Keepable
    /\ run.save \subseteq Marked
    /\ run.pc \in {"record", "save"} => run.save \subseteq Keepable
    /\ run.pc \in {"stage", "children"} => \A s \in run.save : s.hash \subseteq run.fetched

\* The records that are true to what happened.
Faithful == {r \in RunRecord :
    /\ r.outcome = "ingested" => r.ok = r.jobs /\ r.jobs = Items /\ r.fetched \subseteq ingested
    /\ r.outcome = "failed" => r.jobs = 0 \/ r.ok < r.jobs}

RecordsFaithful ==
    /\ source.last \subseteq Faithful
    /\ \A r \in late : r.kind = "run" => r.record \in Faithful
    /\ run.pc \in {"record", "save"} => RecordOf \in Faithful

\* The children are those of one attempt, and the first attempt's rows are of staged items.
OneAttempt ==
    /\ run.pc \in {"load", "checks", "fetch", "stage"} => started = {}
    /\ \A p, q \in started : p[1] = q[1]
    /\ run.try = 1 =>
         /\ run.pc \in {"load", "checks", "fetch"} => rows = {}
         /\ run.pc = "stage" => rows \subseteq {1} \X (1 .. run.staged)
         /\ run.pc = "children" => rows \subseteq started

\* A run that ended unchanged compared its location with a file that was ingested, or with a
\* foreign date.
Compared ==
    run.outcome = "unchanged" =>
        run.fetched \subseteq ingested \/ Foreign(run.row.url, run.row.state)

IInv == TypeOK /\ Stages /\ StatesKept /\ RecordsFaithful /\ Compared /\ OneAttempt

----------------------------------------------------------------------------
(* Types. *)

LEMMA EmptyStateType == NoState \in IncrementalState
BY SourceRunAssumption DEF SourceRunAssumption, NoState, IncrementalState, Versions

LEMMA IdleType == Idle \in RunState
<1>1. (CHOOSE u \in Urls : TRUE) \in Urls
  BY SourceRunAssumption DEF SourceRunAssumption
<1>2. [i \in 1 .. Items |-> "none"] \in [1 .. Items -> {"none", "running", "ok", "failed"}]
  OBVIOUS
<1>3. 1 \in 1 .. ResolveAttempts + RecordAttempts /\ 0 \in 0 .. Items
  BY SourceRunAssumption DEF SourceRunAssumption
<1> QED BY <1>1, <1>2, <1>3, EmptyStateType DEF Idle, RunState, Outcomes

\* What a fetch learns is a state, whatever the server sends.
LEMMA LearnedType ==
    ASSUME upstream \in [Urls -> Versions], NEW u \in Urls
    PROVE  Body(u) \in Bodies /\ Learned(u) \in IncrementalState
BY DEF Body, Bodies, Learned, IncrementalState

\* The counts of a recorded run are those of a set of items.
LEMMA Counts ==
    ASSUME NEW S \in SUBSET (1 .. Items)
    PROVE  /\ IsFiniteSet(S) /\ Cardinality(S) \in 0 .. Items
           /\ Cardinality(1 .. Items) = Items
           /\ Cardinality(S) = 0 <=> S = {}
<1>1. IsFiniteSet(1 .. Items) /\ Cardinality(1 .. Items) = Items
  BY FS_Interval, SourceRunAssumption DEF SourceRunAssumption
<1>2. IsFiniteSet(S) /\ Cardinality(S) <= Cardinality(1 .. Items)
  BY <1>1, FS_Subset
<1>3. Cardinality(S) \in Nat
  BY <1>2, FS_CardinalityType
<1>4. Cardinality(S) = 0 <=> S = {}
  BY <1>2, FS_EmptySet
<1> QED BY <1>1, <1>2, <1>3, <1>4, SourceRunAssumption DEF SourceRunAssumption

LEMMA RecordType ==
    ASSUME run \in RunState
    PROVE  RecordOf \in RunRecord
<1>1. Cardinality({i \in 1 .. Items : run.jobs[i] # "none"}) \in 0 .. Items
  BY Counts
<1>2. Cardinality({i \in 1 .. Items : run.jobs[i] = "ok"}) \in 0 .. Items
  BY Counts
<1> QED BY <1>1, <1>2 DEF RecordOf, RunRecord, RunState

LEMMA RequestTypes ==
    ASSUME run \in RunState
    PROVE  /\ RunRequest \in Requests
           /\ run.save # {} => StateRequest \in Requests
BY RecordType DEF RunRequest, StateRequest, Requests, RunState

LEMMA ServeType ==
    ASSUME source \in SourceRow, NEW r \in Requests
    PROVE  Serve(source, r) \in SourceRow
BY DEF Serve, SourceRow, Requests

\* The attempts of both activities are numbered from 1.
LEMMA TryRange ==
    /\ 1 \in 1 .. ResolveAttempts + RecordAttempts
    /\ \A t \in 1 .. ResolveAttempts + RecordAttempts :
         t < ResolveAttempts \/ t < RecordAttempts => t + 1 \in 1 .. ResolveAttempts + RecordAttempts
BY SourceRunAssumption DEF SourceRunAssumption

\* A failure is paid for.
LEMMA BudgetSpent ==
    ASSUME TypeOK, CanFail, Spend
    PROVE  budget' \in [faults : 0 .. MaxFaults, edits : 0 .. MaxEdits]
BY SourceRunAssumption DEF TypeOK, CanFail, Spend, SourceRunAssumption

\* Every action keeps the types.
LEMMA TypeStep == TypeOK /\ Stages /\ [Next]_vars => TypeOK'
<1> SUFFICES ASSUME TypeOK, Stages, [Next]_vars
             PROVE  TypeOK'
  OBVIOUS
<1> USE DEF TypeOK
<1>1. CASE Tick
  BY <1>1, IdleType DEF Tick, RunState
<1>2. CASE LoadSource
  BY <1>2, TryRange DEF LoadSource, RunState, SourceRow
<1>3. CASE ChecksPass
  BY <1>3 DEF ChecksPass, RunState
<1>4. CASE Fetch
  <2>1. run.row.url \in Urls /\ Body(run.row.url) \in Bodies
        /\ Learned(run.row.url) \in IncrementalState
    BY LearnedType DEF RunState
  <2>2. 0 \in 0 .. Items
    BY SourceRunAssumption DEF SourceRunAssumption
  <2>3. run' \in RunState
    BY <1>4, <2>1, <2>2, TryRange DEF Fetch, RunState, Outcomes
  <2> QED BY <1>4, <2>3 DEF Fetch
<1>5. CASE StageItem
  <2>1. run.staged + 1 \in 1 .. Items /\ run.staged + 1 \in 0 .. Items
        /\ run.try \in 1 .. ResolveAttempts
    BY <1>5, SourceRunAssumption DEF StageItem, RunState, Stages, SourceRunAssumption
  <2>2. run' \in RunState
    <3>1. [j \in 1 .. Items |-> "running"] \in [1 .. Items -> {"none", "running", "ok", "failed"}]
      OBVIOUS
    <3>2. [run EXCEPT !.staged = run.staged + 1] \in RunState
      BY <2>1 DEF RunState
    <3>3. [run EXCEPT !.staged = run.staged + 1, !.pc = "children",
                      !.jobs = [j \in 1 .. Items |-> "running"]] \in RunState
      BY <2>1, <3>1 DEF RunState
    <3> QED BY <1>5, <3>2, <3>3 DEF StageItem
  <2> QED BY <1>5, <2>1, <2>2 DEF StageItem
<1>6. ASSUME NEW i \in 1 .. Items, ChildEnds(i)
      PROVE  TypeOK'
  <2>1. run' \in RunState
    <3>1. ASSUME NEW s \in {"ok", "failed"}
          PROVE  [run EXCEPT !.jobs[i] = s] \in RunState
      <4>1. [run.jobs EXCEPT ![i] = s] \in [1 .. Items -> {"none", "running", "ok", "failed"}]
        BY DEF RunState
      <4> QED BY <4>1 DEF RunState
    <3> QED BY <1>6, <3>1 DEF ChildEnds
  <2>2. run.fetched \subseteq Bodies
    BY DEF RunState
  <2> QED BY <1>6, <2>1, <2>2, BudgetSpent DEF ChildEnds
<1>7. CASE Join
  BY <1>7, TryRange DEF Join, RunState, Outcomes
<1>8. CASE PostRun
  <2>1. source' \in SourceRow
    BY <1>8, RequestTypes, ServeType DEF PostRun
  <2>2. run' \in RunState
    BY <1>8, IdleType DEF PostRun, RunState
  <2> QED BY <1>8, <2>1, <2>2 DEF PostRun
<1>9. CASE SaveState
  <2>1. source' \in SourceRow
    BY <1>9, RequestTypes, ServeType DEF SaveState, Stages
  <2> QED BY <1>9, <2>1, IdleType DEF SaveState
<1>10. CASE Refused
  <2>1. run' \in RunState
    BY <1>10, TryRange DEF Refused, RunState, Outcomes
  <2> QED BY <1>10, <2>1, BudgetSpent DEF Refused
<1>11. CASE ResolveAgain
  <2>1. run' \in RunState
    <3>1. run.try < ResolveAttempts => run.try + 1 \in 1 .. ResolveAttempts + RecordAttempts
      BY TryRange DEF RunState
    <3>2. CASE run.try < ResolveAttempts
      BY <1>11, <3>1, <3>2, IdleType DEF ResolveAgain, RunState
    <3>3. CASE ~(run.try < ResolveAttempts)
      BY <1>11, <3>3, TryRange DEF ResolveAgain, RunState, Outcomes
    <3> QED BY <3>2, <3>3
  <2> QED BY <1>11, <2>1, BudgetSpent DEF ResolveAgain
<1>12. CASE RecordAgain
  <2>1. late' \subseteq Requests
    BY <1>12, RequestTypes DEF RecordAgain, Stages
  <2>2. run.try < RecordAttempts => run.try + 1 \in 1 .. ResolveAttempts + RecordAttempts
    BY TryRange DEF RunState
  <2>3. run' \in RunState
    BY <1>12, <2>2, IdleType DEF RecordAgain, RunState
  <2> QED BY <1>12, <2>1, <2>3, BudgetSpent DEF RecordAgain
<1>13. CASE ServeLate
  BY <1>13, ServeType DEF ServeLate
<1>14. ASSUME NEW u \in Urls, Publish(u)
      PROVE  TypeOK'
  BY <1>14 DEF Publish
<1>15. ASSUME NEW u \in Urls, Repoint(u)
      PROVE  TypeOK'
  <2>1. budget' \in [faults : 0 .. MaxFaults, edits : 0 .. MaxEdits]
    BY <1>15, SourceRunAssumption DEF Repoint, SourceRunAssumption
  <2> QED BY <1>15, <2>1 DEF Repoint, SourceRow
<1>16. CASE DeleteSource
  BY <1>16, EmptyStateType DEF DeleteSource, SourceRow
<1>17. CASE ArchiveSource
  BY <1>17 DEF ArchiveSource, SourceRow
<1>18. CASE UNCHANGED vars
  BY <1>18 DEF vars
<1> QED BY <1>1, <1>2, <1>3, <1>4, <1>5, <1>6, <1>7, <1>8, <1>9, <1>10, <1>11, <1>12, <1>13, <1>14, <1>15, <1>16, <1>17, <1>18 DEF Next, Work

\* Staging an item changes the rows and, with the last item, starts the children.
LEMMA StagedRun ==
    ASSUME TypeOK, StageItem
    PROVE  /\ run'.try = run.try /\ run'.fetched = run.fetched /\ run'.save = run.save
           /\ run'.outcome = run.outcome /\ run'.row = run.row /\ run'.staged = run.staged + 1
           /\ IF run.staged + 1 < Items
              THEN run'.pc = "stage" /\ run'.jobs = run.jobs /\ started' = started
              ELSE /\ run'.pc = "children" /\ run'.jobs = [j \in 1 .. Items |-> "running"]
                   /\ started' = started \cup {<<run.try, j>> : j \in 1 .. Items}
<1>1. CASE run.staged + 1 < Items
  <2>1. run' = [run EXCEPT !.staged = run.staged + 1] /\ started' = started
    BY <1>1 DEF StageItem
  <2>2. /\ run'.try = run.try /\ run'.fetched = run.fetched /\ run'.save = run.save
        /\ run'.outcome = run.outcome /\ run'.row = run.row /\ run'.staged = run.staged + 1
        /\ run'.pc = run.pc /\ run'.jobs = run.jobs
    BY <2>1 DEF TypeOK, RunState
  <2> QED BY <1>1, <2>1, <2>2 DEF StageItem
<1>2. CASE ~(run.staged + 1 < Items)
  <2>1. /\ run' = [run EXCEPT !.staged = run.staged + 1, !.pc = "children",
                              !.jobs = [j \in 1 .. Items |-> "running"]]
        /\ started' = started \cup {<<run.try, j>> : j \in 1 .. Items}
    BY <1>2 DEF StageItem
  <2> QED BY <1>2, <2>1 DEF TypeOK, RunState
<1> QED BY <1>1, <1>2

\* The end of a child changes its job alone.
LEMMA ChildRun ==
    ASSUME TypeOK, NEW i \in 1 .. Items, ChildEnds(i)
    PROVE  /\ run'.pc = "children" /\ run'.try = run.try /\ run'.fetched = run.fetched
           /\ run'.save = run.save /\ run'.outcome = run.outcome /\ run'.row = run.row
           /\ run'.jobs[i] \in {"ok", "failed"}
           /\ \A j \in 1 .. Items : j # i => run'.jobs[j] = run.jobs[j]
<1>1. PICK s \in {"ok", "failed"} : run' = [run EXCEPT !.jobs[i] = s]
  BY DEF ChildEnds
<1>2. run'.jobs = [run.jobs EXCEPT ![i] = s]
  BY <1>1 DEF TypeOK, RunState
<1>3. run.jobs \in [1 .. Items -> {"none", "running", "ok", "failed"}]
  BY DEF TypeOK, RunState
<1>4. /\ run'.pc = run.pc /\ run'.try = run.try /\ run'.fetched = run.fetched
      /\ run'.save = run.save /\ run'.outcome = run.outcome /\ run'.row = run.row
  BY <1>1 DEF TypeOK, RunState
<1> QED BY <1>2, <1>3, <1>4 DEF ChildEnds

\* What each point of a run implies.
LEMMA StagesStep == TypeOK /\ Stages /\ [Next]_vars => Stages'
<1> SUFFICES ASSUME TypeOK, Stages, [Next]_vars
             PROVE  Stages'
  OBVIOUS
<1> USE SourceRunAssumption DEF SourceRunAssumption, TypeOK, Stages, RunState
<1>1. CASE Tick
  BY <1>1 DEF Tick, Idle
<1>2. CASE LoadSource
  BY <1>2 DEF LoadSource
<1>3. CASE ChecksPass
  BY <1>3 DEF ChecksPass
<1>4. CASE Fetch
  BY <1>4 DEF Fetch, RunState
<1>5. CASE StageItem
  <2>1. 1 \in 1 .. Items /\ run.staged \in 0 .. Items
    BY DEF RunState
  <2> QED BY <1>5, <2>1, StagedRun DEF StageItem
<1>6. ASSUME NEW i \in 1 .. Items, ChildEnds(i)
      PROVE  Stages'
  <2>1. (\A j \in 1 .. Items : run'.jobs[j] = "ok") => run'.fetched \subseteq ingested'
    BY <1>6, ChildRun DEF ChildEnds
  <2>2. \A j \in 1 .. Items : run'.jobs[j] # "none"
    <3>1. \A j \in 1 .. Items : run.jobs[j] # "none"
      BY <1>6 DEF ChildEnds
    <3> HIDE DEF TypeOK, Stages, RunState
    <3> QED BY <1>6, <3>1, ChildRun
  <2> QED BY <1>6, <2>1, <2>2, ChildRun DEF ChildEnds
<1>7. CASE Join
  BY <1>7 DEF Join
<1>8. CASE PostRun
  BY <1>8 DEF PostRun, Idle
<1>9. CASE SaveState
  BY <1>9 DEF SaveState, Idle
<1>10. CASE Refused
  BY <1>10 DEF Refused, Spend, CanFail
<1>11. CASE ResolveAgain
  BY <1>11 DEF ResolveAgain, Spend, CanFail, Idle
<1>12. CASE RecordAgain
  BY <1>12 DEF RecordAgain, Spend, CanFail, Idle
<1>13. CASE ServeLate
  BY <1>13 DEF ServeLate
<1>14. ASSUME NEW u \in Urls, Publish(u)
      PROVE  Stages'
  BY <1>14 DEF Publish
<1>15. ASSUME NEW u \in Urls, Repoint(u)
      PROVE  Stages'
  BY <1>15 DEF Repoint
<1>16. CASE DeleteSource
  BY <1>16 DEF DeleteSource
<1>17. CASE ArchiveSource
  BY <1>17 DEF ArchiveSource
<1>18. CASE UNCHANGED vars
  BY <1>18 DEF vars
<1> QED BY <1>1, <1>2, <1>3, <1>4, <1>5, <1>6, <1>7, <1>8, <1>9, <1>10, <1>11, <1>12, <1>13, <1>14, <1>15, <1>16, <1>17, <1>18 DEF Next, Work

\* History and publications only grow.
LEMMA Grows ==
    ASSUME TypeOK, [Next]_vars
    PROVE  /\ ingested \subseteq ingested'
           /\ \A u \in Urls : upstream[u] <= upstream'[u]
<1>1. ingested \subseteq ingested'
  BY DEF Next, Work, vars, Tick, LoadSource, ChecksPass, Fetch, StageItem, ChildEnds, Join, PostRun,
     SaveState, Refused, ResolveAgain, RecordAgain, ServeLate, Publish, Repoint, DeleteSource, ArchiveSource
<1>2. \A u \in Urls : upstream[u] <= upstream'[u]
  <2>1. \A u \in Urls : upstream[u] \in Int
    BY DEF TypeOK, Versions
  <2>2. CASE upstream' = upstream
    BY <2>1, <2>2
  <2>3. ASSUME NEW u \in Urls, Publish(u)
        PROVE  \A w \in Urls : upstream[w] <= upstream'[w]
    BY <2>1, <2>3 DEF Publish, TypeOK, Versions
  <2> QED BY <2>2, <2>3 DEF Next, Work, vars, Tick, LoadSource, ChecksPass, Fetch, StageItem, ChildEnds, Join,
       PostRun, SaveState, Refused, ResolveAgain, RecordAgain, ServeLate, Repoint, DeleteSource, ArchiveSource
<1> QED BY <1>1, <1>2

\* What may be kept may be kept for ever.
LEMMA KeepableGrows ==
    ASSUME TypeOK, TypeOK', [Next]_vars
    PROVE  Marked \subseteq Marked' /\ Keepable \subseteq Keepable'
<1>1. Published \subseteq Published'
  <2> SUFFICES ASSUME NEW b \in Published PROVE b \in Published'
    OBVIOUS
  <2>1. b \in Bodies /\ b[1] \in Urls /\ b[2] \in Int /\ b[2] <= upstream[b[1]]
    BY DEF Published, Bodies, Versions
  <2>2. upstream[b[1]] \in Int /\ upstream'[b[1]] \in Int
    BY <2>1 DEF TypeOK, Versions
  <2>3. b[2] <= upstream'[b[1]]
    BY <2>1, <2>2, Grows
  <2> QED BY <2>1, <2>3 DEF Published
<1>2. Marked \subseteq Marked'
  BY <1>1 DEF Marked
<1>3. ingested \subseteq ingested'
  BY Grows
<1> QED BY <1>2, <1>3 DEF Keepable

\* What a fetch learns marks the body it fetched.
LEMMA LearnedMarks ==
    ASSUME TypeOK, NEW u \in Urls
    PROVE  Learned(u) \in Marked /\ Learned(u).hash = {Body(u)}
<1>1. Body(u) \in Bodies /\ Body(u)[1] = u /\ Body(u)[2] = upstream[u] /\ upstream[u] \in Int
  BY LearnedType DEF TypeOK, Body, Versions
<1>2. Body(u) \in Published
  BY <1>1 DEF Published
<1>3. Learned(u) = Mark(Body(u))
  BY <1>1 DEF Learned, Mark
<1> QED BY <1>2, <1>3 DEF Marked, Learned

LEMMA EmptyKeepable == NoState \in Keepable
BY DEF Keepable, Marked, NoState

\* A request leaves a state that may be kept.
LEMMA ServeKeeps ==
    ASSUME TypeOK, source.state \in Keepable, NEW r \in Requests, r.kind = "state" => r.state \in Keepable
    PROVE  Serve(source, r).state \in Keepable /\ Serve(source, r).url = source.url
BY DEF Serve, TypeOK, SourceRow, Requests

\* The incremental state never runs ahead of the index, wherever it is kept.
LEMMA StatesStep == TypeOK /\ TypeOK' /\ Stages /\ StatesKept /\ [Next]_vars => StatesKept'
<1> SUFFICES ASSUME TypeOK, TypeOK', Stages, StatesKept, [Next]_vars
             PROVE  StatesKept'
  OBVIOUS
<1> USE DEF TypeOK, StatesKept
<1>1. CASE Tick
  <2>1. run'.pc = "load" /\ run'.save = {}
    BY <1>1 DEF Tick, Idle
  <2>2. source' = source /\ late' = late
    BY <1>1 DEF Tick
  <2> QED BY <2>1, <2>2, KeepableGrows
<1>2. CASE LoadSource
  <2>1. source' = source /\ late' = late
    BY <1>2 DEF LoadSource
  <2>2. run.save = {}
    BY <1>2 DEF LoadSource, Stages
  <2>3. \/ /\ run'.pc = "checks" /\ run'.save = run.save
           /\ run'.row.state = source.state /\ run'.row.url = source.url
        \/ run'.pc = "record" /\ run'.save = run.save
    BY <1>2 DEF LoadSource, RunState
  <2> QED BY <2>1, <2>2, <2>3, KeepableGrows
<1>3. CASE ChecksPass
  BY <1>3, KeepableGrows DEF ChecksPass, RunState
<1>4. CASE Fetch
  <2>1. run.row.url \in Urls /\ source' = source
    BY <1>4 DEF Fetch, RunState
  <2>2. Learned(run.row.url) \in Marked' /\ Learned(run.row.url).hash = {Body(run.row.url)}
    BY <2>1, LearnedMarks, KeepableGrows
  <2>3. \/ run'.pc = "record" /\ run'.save = {}
        \/ /\ run'.pc = "stage" /\ run'.save = {Learned(run.row.url)}
           /\ run'.fetched = {Body(run.row.url)}
    BY <1>4 DEF Fetch, RunState, Stages
  <2> QED BY <1>4, <2>1, <2>2, <2>3, KeepableGrows DEF Fetch
<1>5. CASE StageItem
  BY <1>5, KeepableGrows, StagedRun DEF StageItem
<1>6. ASSUME NEW i \in 1 .. Items, ChildEnds(i)
      PROVE  StatesKept'
  BY <1>6, KeepableGrows, ChildRun DEF ChildEnds
<1>7. CASE Join
  <2>1. CASE \A i \in 1 .. Items : run.jobs[i] = "ok"
    <3>1. run'.pc = "record" /\ run'.save = run.save
      BY <1>7, <2>1 DEF Join, RunState
    <3>2. run.save \subseteq Keepable
      BY <1>7, <2>1 DEF Join, Stages, Keepable
    <3> QED BY <1>7, <3>1, <3>2, KeepableGrows DEF Join
  <2>2. CASE ~(\A i \in 1 .. Items : run.jobs[i] = "ok")
    <3>1. run'.pc = "record" /\ run'.save = {}
      BY <1>7, <2>2 DEF Join, RunState
    <3> QED BY <1>7, <3>1, KeepableGrows DEF Join
  <2> QED BY <2>1, <2>2
<1>8. CASE PostRun
  <2>1. RunRequest \in Requests /\ RunRequest.kind = "run"
    BY RequestTypes DEF RunRequest
  <2>2. source'.state \in Keepable /\ source'.url = source.url
    BY <1>8, <2>1, ServeKeeps DEF PostRun
  <2>3. \/ run'.pc = "save" /\ run'.save = run.save
        \/ run'.pc = "idle" /\ run'.save = {}
    BY <1>8 DEF PostRun, RunState, Idle
  <2> QED BY <1>8, <2>2, <2>3, KeepableGrows DEF PostRun
<1>9. CASE SaveState
  <2>1. StateRequest \in Requests /\ StateRequest.state \in Keepable
    BY <1>9, RequestTypes DEF SaveState, Stages, StateRequest
  <2>2. source'.state \in Keepable
    BY <1>9, <2>1, ServeKeeps DEF SaveState
  <2>3. run'.pc = "idle" /\ run'.save = {}
    BY <1>9 DEF SaveState, Idle
  <2> QED BY <1>9, <2>2, <2>3, KeepableGrows DEF SaveState
<1>10. CASE Refused
  <2>1. run'.pc = "record" /\ run'.save = {}
    BY <1>10 DEF Refused, RunState, Stages
  <2> QED BY <1>10, <2>1, KeepableGrows DEF Refused
<1>11. CASE ResolveAgain
  <2>1. \/ run'.pc = "load" /\ run'.save = {}
        \/ run'.pc = "record" /\ run'.save = {}
    BY <1>11, IdleType DEF ResolveAgain, RunState, Idle
  <2> QED BY <1>11, <2>1, KeepableGrows DEF ResolveAgain
<1>12. CASE RecordAgain
  <2>1. RunRequest.kind = "run"
    BY DEF RunRequest
  <2>2. run.pc = "save" => StateRequest.state \in Keepable
    BY <1>12 DEF Stages, StateRequest
  <2>3. \A r \in late' : r.kind = "state" => r.state \in Keepable
    BY <1>12, <2>1, <2>2 DEF RecordAgain
  <2>4. \/ run'.pc = "record" /\ run'.save = run.save
        \/ run'.pc = "idle" /\ run'.save = {}
    BY <1>12 DEF RecordAgain, RunState, Idle
  <2> QED BY <1>12, <2>3, <2>4, KeepableGrows DEF RecordAgain
<1>13. CASE ServeLate
  <2>1. PICK r \in late : source' = Serve(source, r) /\ late' = late \ {r}
    BY <1>13 DEF ServeLate
  <2>2. source'.state \in Keepable /\ source'.url = source.url
    BY <2>1, ServeKeeps
  <2> QED BY <1>13, <2>1, <2>2, KeepableGrows DEF ServeLate
<1>14. ASSUME NEW u \in Urls, Publish(u)
      PROVE  StatesKept'
  BY <1>14, KeepableGrows DEF Publish, RunState
<1>15. ASSUME NEW u \in Urls, Repoint(u)
      PROVE  StatesKept'
  <2>1. source'.state = source.state
    BY <1>15 DEF Repoint, SourceRow
  <2> QED BY <1>15, <2>1, KeepableGrows DEF Repoint
<1>16. CASE DeleteSource
  <2>1. source'.state = NoState /\ source'.url = source.url
    BY <1>16 DEF DeleteSource, SourceRow
  <2> QED BY <1>16, <2>1, EmptyKeepable, KeepableGrows DEF DeleteSource
<1>17. CASE ArchiveSource
  <2>1. source'.state = source.state /\ source'.url = source.url
    BY <1>17 DEF ArchiveSource, SourceRow
  <2> QED BY <1>17, <2>1, KeepableGrows DEF ArchiveSource
<1>18. CASE UNCHANGED vars
  BY <1>18, KeepableGrows DEF vars
<1> QED BY <1>1, <1>2, <1>3, <1>4, <1>5, <1>6, <1>7, <1>8, <1>9, <1>10, <1>11, <1>12, <1>13, <1>14, <1>15, <1>16, <1>17, <1>18 DEF Next, Work

\* What a connector passes over was ingested, or is hidden by a foreign date.
LEMMA SkippedIsIngested ==
    ASSUME TypeOK, NEW u \in Urls, NEW st \in Keepable, Unchanged(u, st)
    PROVE  Body(u) \in ingested \/ Foreign(u, st)
<1>1. CASE st = NoState
  BY <1>1 DEF Unchanged, NotModified, NoState
<1>2. ASSUME NEW b \in Published, st = Mark(b)
      PROVE  Body(u) \in ingested \/ Foreign(u, st)
  <2>1. b \in ingested /\ st.lm = b[2] /\ st.hash = {b}
        /\ st.etag = IF b[1] \in Tagged THEN {b} ELSE {}
    BY <1>2 DEF Mark, Keepable
  <2>2. b \in Bodies /\ b = <<b[1], b[2]>> /\ b[1] \in Urls /\ b[2] \in Int
        /\ b[2] <= upstream[b[1]]
    BY DEF Published, Bodies, Versions
  <2>3. upstream[u] \in Int
    BY DEF TypeOK, Versions
  <2>4. CASE Body(u) = b
    BY <2>1, <2>4
  <2>5. CASE u \in Tagged /\ st.etag # {} /\ NotModified(u, st)
    BY <2>1, <2>5 DEF NotModified
  <2>6. CASE b[1] = u /\ (u \notin Tagged \/ st.etag = {}) /\ NotModified(u, st)
    <3>1. upstream[u] <= b[2] /\ b[2] <= upstream[u]
      BY <2>1, <2>2, <2>6 DEF NotModified
    <3>2. b = Body(u)
      BY <2>2, <2>3, <2>6, <3>1 DEF Body
    <3> QED BY <2>1, <3>2
  <2>7. CASE b[1] # u /\ (u \notin Tagged \/ st.etag = {})
    BY <2>1, <2>7 DEF Foreign
  <2> QED BY <2>1, <2>4, <2>5, <2>6, <2>7 DEF Unchanged
<1> QED BY <1>1, <1>2 DEF Keepable, Marked

\* The counts of a run none, all, or some of whose jobs were ingested.
LEMMA RunCounts ==
    ASSUME NEW jobs
    PROVE  LET have == {i \in 1 .. Items : jobs[i] # "none"}
               ok == {i \in 1 .. Items : jobs[i] = "ok"}
           IN  /\ (\A i \in 1 .. Items : jobs[i] = "none") => Cardinality(have) = 0
               /\ (\A i \in 1 .. Items : jobs[i] = "ok") =>
                    Cardinality(have) = Items /\ Cardinality(ok) = Items
               /\ (\A i \in 1 .. Items : jobs[i] # "none") /\ (\E i \in 1 .. Items : jobs[i] # "ok") =>
                    Cardinality(ok) < Cardinality(have)
<1> DEFINE have == {i \in 1 .. Items : jobs[i] # "none"}
           ok == {i \in 1 .. Items : jobs[i] = "ok"}
<1>1. have \in SUBSET (1 .. Items) /\ ok \in SUBSET (1 .. Items)
  OBVIOUS
<1>2. (\A i \in 1 .. Items : jobs[i] = "none") => have = {}
  OBVIOUS
<1>3. (\A i \in 1 .. Items : jobs[i] = "ok") => have = 1 .. Items /\ ok = 1 .. Items
  OBVIOUS
<1>4. (\A i \in 1 .. Items : jobs[i] # "none") => have = 1 .. Items
  OBVIOUS
<1>5. (\E i \in 1 .. Items : jobs[i] # "ok") => ok # 1 .. Items
  OBVIOUS
<1>6. Cardinality(have) = 0 <=> have = {}
  BY <1>1, Counts
<1>7. Cardinality(1 .. Items) = Items /\ IsFiniteSet(1 .. Items)
  BY Counts
<1>8. ok # 1 .. Items => Cardinality(ok) < Items
  <2>1. Cardinality(ok) <= Items /\ (Cardinality(ok) = Items => ok = 1 .. Items)
    BY <1>1, <1>7, FS_Subset
  <2>2. Cardinality(ok) \in Int /\ Items \in Int
    BY <1>1, Counts, SourceRunAssumption DEF SourceRunAssumption
  <2> QED BY <2>1, <2>2
<1> HIDE DEF have, ok
<1>9. /\ (\A i \in 1 .. Items : jobs[i] = "none") => Cardinality(have) = 0
      /\ (\A i \in 1 .. Items : jobs[i] = "ok") =>
           Cardinality(have) = Items /\ Cardinality(ok) = Items
      /\ (\A i \in 1 .. Items : jobs[i] # "none") /\ (\E i \in 1 .. Items : jobs[i] # "ok") =>
           Cardinality(ok) < Cardinality(have)
  BY <1>2, <1>3, <1>4, <1>5, <1>6, <1>7, <1>8
<1> QED BY <1>9 DEF have, ok

\* The four ways a run comes to be recorded.
LEMMA TrueRecord ==
    ASSUME run' \in RunState,
           \/ run'.outcome = "failed" /\ \A i \in 1 .. Items : run'.jobs[i] = "none"
           \/ /\ run'.outcome = "failed" /\ \A i \in 1 .. Items : run'.jobs[i] # "none"
              /\ \E i \in 1 .. Items : run'.jobs[i] # "ok"
           \/ /\ run'.outcome = "ingested" /\ \A i \in 1 .. Items : run'.jobs[i] = "ok"
              /\ run'.fetched \subseteq ingested'
           \/ run'.outcome = "unchanged"
    PROVE  RecordOf' \in Faithful'
<1> DEFINE have == Cardinality({i \in 1 .. Items : run'.jobs[i] # "none"})
           ok == Cardinality({i \in 1 .. Items : run'.jobs[i] = "ok"})
<1>1. have \in 0 .. Items /\ ok \in 0 .. Items
  BY Counts
<1>2. /\ (\A i \in 1 .. Items : run'.jobs[i] = "none") => have = 0
      /\ (\A i \in 1 .. Items : run'.jobs[i] = "ok") => have = Items /\ ok = Items
      /\ (\A i \in 1 .. Items : run'.jobs[i] # "none") /\ (\E i \in 1 .. Items : run'.jobs[i] # "ok") =>
           ok < have
  BY RunCounts
<1>3. RecordOf' = [outcome |-> run'.outcome, fetched |-> run'.fetched, jobs |-> have, ok |-> ok]
  BY DEF RecordOf
<1>4. run'.outcome \in Outcomes /\ run'.fetched \in SUBSET Bodies
  BY DEF RunState
<1> HIDE DEF have, ok
<1>5. RecordOf' \in RunRecord
  BY <1>1, <1>3, <1>4 DEF RunRecord
<1>6. /\ RecordOf'.outcome = run'.outcome /\ RecordOf'.fetched = run'.fetched
      /\ RecordOf'.jobs = have /\ RecordOf'.ok = ok
  BY <1>3
<1>7. /\ run'.outcome = "ingested" => ok = have /\ have = Items /\ run'.fetched \subseteq ingested'
      /\ run'.outcome = "failed" => have = 0 \/ ok < have
  BY <1>2
<1> QED BY <1>5, <1>6, <1>7 DEF Faithful

\* A record that is true stays true.
LEMMA FaithfulGrows ==
    ASSUME TypeOK, [Next]_vars
    PROVE  Faithful \subseteq Faithful'
BY Grows DEF Faithful

\* A request leaves a true record.
LEMMA ServeFaithful ==
    ASSUME TypeOK, source.last \subseteq Faithful, NEW r \in Requests,
           r.kind = "run" => r.record \in Faithful
    PROVE  Serve(source, r).last \subseteq Faithful
BY DEF Serve, TypeOK, SourceRow, Requests

\* What is recorded of a run stays true of it, on the row and on its way there.
LEMMA RecordsStep == TypeOK /\ TypeOK' /\ Stages /\ StatesKept /\ RecordsFaithful /\ [Next]_vars => RecordsFaithful'
<1> SUFFICES ASSUME TypeOK, TypeOK', Stages, StatesKept, RecordsFaithful, [Next]_vars
             PROVE  RecordsFaithful'
  OBVIOUS
<1> USE DEF TypeOK, RecordsFaithful
<1>1. CASE Tick
  <2>1. run'.pc = "load"
    BY <1>1 DEF Tick, Idle
  <2> QED BY <1>1, <2>1, FaithfulGrows DEF Tick
<1>2. CASE LoadSource
  <2>1. run'.pc = "record" => run'.outcome = "failed" /\ \A i \in 1 .. Items : run'.jobs[i] = "none"
    BY <1>2 DEF LoadSource, RunState, Stages
  <2>2. run'.pc # "save"
    BY <1>2 DEF LoadSource, RunState
  <2>3. run'.pc = "record" => RecordOf' \in Faithful'
    BY <2>1, TrueRecord
  <2> QED BY <1>2, <2>2, <2>3, FaithfulGrows DEF LoadSource
<1>3. CASE ChecksPass
  <2>1. run'.pc = "fetch"
    BY <1>3 DEF ChecksPass, RunState
  <2> QED BY <1>3, <2>1, FaithfulGrows DEF ChecksPass
<1>4. CASE Fetch
  <2>1. CASE Unchanged(run.row.url, run.row.state)
    <3>1. run'.pc = "record" /\ run'.outcome = "unchanged"
      BY <1>4, <2>1 DEF Fetch, RunState
    <3>2. RecordOf' \in Faithful'
      BY <3>1, TrueRecord
    <3> QED BY <1>4, <3>1, <3>2, FaithfulGrows DEF Fetch
  <2>2. CASE ~Unchanged(run.row.url, run.row.state)
    <3>1. run'.pc = "stage"
      BY <1>4, <2>2 DEF Fetch, RunState
    <3> QED BY <1>4, <3>1, FaithfulGrows DEF Fetch
  <2> QED BY <2>1, <2>2
<1>5. CASE StageItem
  BY <1>5, FaithfulGrows, StagedRun DEF StageItem
<1>6. ASSUME NEW i \in 1 .. Items, ChildEnds(i)
      PROVE  RecordsFaithful'
  BY <1>6, FaithfulGrows, ChildRun DEF ChildEnds
<1>7. CASE Join
  <2>1. run'.pc = "record" /\ run'.jobs = run.jobs /\ run'.fetched = run.fetched
    BY <1>7 DEF Join, RunState
  <2>2. \A i \in 1 .. Items : run.jobs[i] # "none"
    BY <1>7 DEF Join, Stages
  <2>3. CASE \A i \in 1 .. Items : run.jobs[i] = "ok"
    <3>1. run'.outcome = "ingested" /\ run'.fetched \subseteq ingested'
      BY <1>7, <2>1, <2>3 DEF Join, Stages, RunState
    <3>2. RecordOf' \in Faithful'
      BY <2>1, <2>3, <3>1, TrueRecord
    <3> QED BY <1>7, <3>2, FaithfulGrows DEF Join
  <2>4. CASE ~(\A i \in 1 .. Items : run.jobs[i] = "ok")
    <3>1. run'.outcome = "failed"
      BY <1>7, <2>4 DEF Join, Stages, RunState
    <3>2. RecordOf' \in Faithful'
      BY <2>1, <2>2, <2>4, <3>1, TrueRecord
    <3> QED BY <1>7, <3>2, FaithfulGrows DEF Join
  <2> QED BY <2>3, <2>4
<1>8. CASE PostRun
  <2>1. RunRequest \in Requests /\ RunRequest.kind = "run" /\ RunRequest.record \in Faithful
    BY <1>8, RequestTypes DEF RunRequest, PostRun
  <2>2. source'.last \subseteq Faithful
    BY <1>8, <2>1, ServeFaithful DEF PostRun
  <2>3. \/ run'.pc = "save" /\ RecordOf' = RecordOf
        \/ run'.pc = "idle"
    BY <1>8 DEF PostRun, RunState, Idle, RecordOf
  <2> QED BY <1>8, <2>2, <2>3, FaithfulGrows DEF PostRun
<1>9. CASE SaveState
  <2>1. StateRequest \in Requests /\ StateRequest.kind = "state"
    BY <1>9, RequestTypes DEF StateRequest, SaveState, Stages
  <2>2. source'.last \subseteq Faithful
    BY <1>9, <2>1, ServeFaithful DEF SaveState
  <2>3. run'.pc = "idle"
    BY <1>9 DEF SaveState, Idle
  <2> QED BY <1>9, <2>2, <2>3, FaithfulGrows DEF SaveState
<1>10. CASE Refused
  <2>1. run'.pc = "record" => run'.outcome = "failed" /\ \A i \in 1 .. Items : run'.jobs[i] = "none"
    BY <1>10 DEF Refused, RunState, Stages
  <2>2. run'.pc # "save"
    BY <1>10 DEF Refused, RunState
  <2>3. run'.pc = "record" => RecordOf' \in Faithful'
    BY <2>1, TrueRecord
  <2> QED BY <1>10, <2>2, <2>3, FaithfulGrows DEF Refused
<1>11. CASE ResolveAgain
  <2>1. run'.pc = "record" => run'.outcome = "failed" /\ \A i \in 1 .. Items : run'.jobs[i] = "none"
    BY <1>11 DEF ResolveAgain, RunState, Stages, Idle
  <2>2. run'.pc # "save"
    BY <1>11 DEF ResolveAgain, RunState, Idle
  <2>3. run'.pc = "record" => RecordOf' \in Faithful'
    BY <2>1, TrueRecord
  <2> QED BY <1>11, <2>2, <2>3, FaithfulGrows DEF ResolveAgain
<1>12. CASE RecordAgain
  <2>1. RunRequest.record \in Faithful /\ StateRequest.kind = "state"
    BY <1>12 DEF RunRequest, StateRequest, RecordAgain
  <2>2. \A r \in late' : r.kind = "run" => r.record \in Faithful
    BY <1>12, <2>1 DEF RecordAgain
  <2>3. \/ run'.pc = "record" /\ RecordOf' = RecordOf
        \/ run'.pc = "idle"
    BY <1>12 DEF RecordAgain, RunState, Idle, RecordOf
  <2> QED BY <1>12, <2>2, <2>3, FaithfulGrows DEF RecordAgain
<1>13. CASE ServeLate
  <2>1. PICK r \in late : source' = Serve(source, r) /\ late' = late \ {r}
    BY <1>13 DEF ServeLate
  <2>2. source'.last \subseteq Faithful
    BY <2>1, ServeFaithful
  <2> QED BY <1>13, <2>1, <2>2, FaithfulGrows DEF ServeLate, RecordOf
<1>14. ASSUME NEW u \in Urls, Publish(u)
      PROVE  RecordsFaithful'
  BY <1>14, FaithfulGrows DEF Publish, RecordOf
<1>15. ASSUME NEW u \in Urls, Repoint(u)
      PROVE  RecordsFaithful'
  <2>1. source'.last = source.last
    BY <1>15 DEF Repoint, SourceRow
  <2> QED BY <1>15, <2>1, FaithfulGrows DEF Repoint, RecordOf
<1>16. CASE DeleteSource
  <2>1. source'.last = {}
    BY <1>16 DEF DeleteSource, SourceRow
  <2> QED BY <1>16, <2>1, FaithfulGrows DEF DeleteSource, RecordOf
<1>17. CASE ArchiveSource
  <2>1. source'.last = source.last
    BY <1>17 DEF ArchiveSource, SourceRow
  <2> QED BY <1>17, <2>1, FaithfulGrows DEF ArchiveSource, RecordOf
<1>18. CASE UNCHANGED vars
  BY <1>18, FaithfulGrows DEF vars, RecordOf
<1> QED BY <1>1, <1>2, <1>3, <1>4, <1>5, <1>6, <1>7, <1>8, <1>9, <1>10, <1>11, <1>12, <1>13, <1>14, <1>15, <1>16, <1>17, <1>18 DEF Next, Work

\* A run that ended unchanged stays one that compared its file.
LEMMA ComparedStep == TypeOK /\ Stages /\ StatesKept /\ Compared /\ [Next]_vars => Compared'
<1> SUFFICES ASSUME TypeOK, Stages, StatesKept, Compared, [Next]_vars
             PROVE  Compared'
  OBVIOUS
<1> USE DEF TypeOK, Compared
<1>1. CASE Tick
  <2>1. run'.outcome # "unchanged"
    BY <1>1 DEF Tick, RunState, Idle
  <2> QED BY <2>1
<1>2. CASE LoadSource
  <2>1. run'.outcome # "unchanged"
    BY <1>2 DEF LoadSource, RunState, Stages
  <2> QED BY <2>1
<1>3. CASE ChecksPass
  <2>1. run'.outcome # "unchanged"
    BY <1>3 DEF ChecksPass, RunState, Stages
  <2> QED BY <2>1
<1>4. CASE Fetch
  <2>1. CASE Unchanged(run.row.url, run.row.state)
    <3>1. run.row.url \in Urls /\ run.row.state \in Keepable
      BY <1>4 DEF Fetch, StatesKept, RunState
    <3>2. Body(run.row.url) \in ingested \/ Foreign(run.row.url, run.row.state)
      BY <2>1, <3>1, SkippedIsIngested
    <3>3. /\ run'.fetched = {Body(run.row.url)} /\ run'.row = run.row /\ ingested' = ingested
      BY <1>4, <2>1 DEF Fetch, RunState
    <3> QED BY <3>2, <3>3 DEF Foreign
  <2>2. CASE ~Unchanged(run.row.url, run.row.state)
    <3>1. run'.outcome # "unchanged"
      BY <1>4, <2>2 DEF Fetch, RunState, Stages
    <3> QED BY <3>1
  <2> QED BY <2>1, <2>2
<1>5. CASE StageItem
  <2>1. run'.outcome # "unchanged"
    BY <1>5, StagedRun DEF StageItem, Stages
  <2> QED BY <2>1
<1>6. ASSUME NEW i \in 1 .. Items, ChildEnds(i)
      PROVE  Compared'
  <2>1. run'.outcome # "unchanged"
    BY <1>6, ChildRun DEF ChildEnds, Stages
  <2> QED BY <2>1
<1>7. CASE Join
  <2>1. run'.outcome # "unchanged"
    BY <1>7 DEF Join, RunState, Stages
  <2> QED BY <2>1
<1>8. CASE PostRun
  <2>1. \/ run'.outcome = run.outcome /\ run'.fetched = run.fetched /\ run'.row = run.row
        \/ run'.outcome # "unchanged"
    BY <1>8 DEF PostRun, RunState, Idle
  <2>2. ingested' = ingested
    BY <1>8 DEF PostRun
  <2> QED BY <2>1, <2>2 DEF Foreign
<1>9. CASE SaveState
  <2>1. run'.outcome # "unchanged"
    BY <1>9 DEF SaveState, RunState, Idle
  <2> QED BY <2>1
<1>10. CASE Refused
  <2>1. run'.outcome # "unchanged"
    BY <1>10 DEF Refused, RunState
  <2> QED BY <2>1
<1>11. CASE ResolveAgain
  <2>1. run'.outcome # "unchanged"
    BY <1>11 DEF ResolveAgain, RunState, Idle
  <2> QED BY <2>1
<1>12. CASE RecordAgain
  <2>1. \/ run'.outcome = run.outcome /\ run'.fetched = run.fetched /\ run'.row = run.row
        \/ run'.outcome # "unchanged"
    BY <1>12 DEF RecordAgain, RunState, Idle
  <2>2. ingested' = ingested
    BY <1>12 DEF RecordAgain
  <2> QED BY <2>1, <2>2 DEF Foreign
<1>13. CASE ServeLate
  BY <1>13 DEF ServeLate, Foreign
<1>14. ASSUME NEW u \in Urls, Publish(u)
      PROVE  Compared'
  BY <1>14 DEF Publish, Foreign
<1>15. ASSUME NEW u \in Urls, Repoint(u)
      PROVE  Compared'
  BY <1>15 DEF Repoint, Foreign
<1>16. CASE DeleteSource
  BY <1>16 DEF DeleteSource, Foreign
<1>17. CASE ArchiveSource
  BY <1>17 DEF ArchiveSource, Foreign
<1>18. CASE UNCHANGED vars
  BY <1>18 DEF vars, Foreign
<1> QED BY <1>1, <1>2, <1>3, <1>4, <1>5, <1>6, <1>7, <1>8, <1>9, <1>10, <1>11, <1>12, <1>13, <1>14, <1>15, <1>16, <1>17, <1>18 DEF Next, Work

\* Rows and children are of the attempt that is being staged.
LEMMA OneAttemptStep == TypeOK /\ Stages /\ OneAttempt /\ [Next]_vars => OneAttempt'
<1> SUFFICES ASSUME TypeOK, Stages, OneAttempt, [Next]_vars
             PROVE  OneAttempt'
  OBVIOUS
<1> USE DEF TypeOK, OneAttempt
<1>1. CASE Tick
  <2>1. run'.pc = "load"
    BY <1>1 DEF Tick, Idle
  <2> QED BY <1>1, <2>1 DEF Tick
<1>2. CASE LoadSource
  <2>1. \/ run'.pc = "checks" /\ run'.try = run.try
        \/ run'.pc = "record"
    BY <1>2 DEF LoadSource, RunState
  <2> QED BY <1>2, <2>1 DEF LoadSource
<1>3. CASE ChecksPass
  <2>1. run'.pc = "fetch" /\ run'.try = run.try
    BY <1>3 DEF ChecksPass, RunState
  <2> QED BY <1>3, <2>1 DEF ChecksPass
<1>4. CASE Fetch
  <2>1. \/ run'.pc = "stage" /\ run'.try = run.try
        \/ run'.pc = "record"
    BY <1>4 DEF Fetch, RunState
  <2> QED BY <1>4, <2>1 DEF Fetch
<1>5. CASE StageItem
  <2>1. run.pc = "stage" /\ started = {} /\ rows' \subseteq rows \cup {<<run.try, run.staged + 1>>}
    BY <1>5 DEF StageItem
  <2>2. run.staged \in 0 .. Items /\ run.staged < Items /\ Items \in Nat
    BY <2>1, SourceRunAssumption DEF Stages, RunState, SourceRunAssumption
  <2>3. run.try = 1 => rows' \subseteq {1} \X (1 .. run.staged + 1)
    <3>1. run.try = 1 => rows \subseteq {1} \X (1 .. run.staged)
      BY <2>1
    <3>2. 1 .. run.staged \subseteq 1 .. run.staged + 1 /\ run.staged + 1 \in 1 .. run.staged + 1
      BY <2>2
    <3> HIDE DEF TypeOK, OneAttempt
    <3> QED BY <2>1, <3>1, <3>2
  <2>4. CASE run.staged + 1 < Items
    <3>1. run'.pc = "stage" /\ run'.staged = run.staged + 1 /\ started' = {} /\ run'.try = run.try
      BY <1>5, <2>1, <2>4, StagedRun
    <3> QED BY <2>3, <3>1
  <2>5. CASE ~(run.staged + 1 < Items)
    <3>1. run'.pc = "children" /\ run'.try = run.try /\ started' = {<<run.try, j>> : j \in 1 .. Items}
      BY <1>5, <2>1, <2>5, StagedRun
    <3>2. run.staged + 1 = Items
      BY <2>2, <2>5
    <3>3. run'.try = 1 => rows' \subseteq started'
      BY <2>3, <3>1, <3>2
    <3>4. \A p, q \in started' : p[1] = q[1]
      BY <3>1
    <3> QED BY <3>1, <3>3, <3>4
  <2> QED BY <2>4, <2>5
<1>6. ASSUME NEW i \in 1 .. Items, ChildEnds(i)
      PROVE  OneAttempt'
  BY <1>6, ChildRun DEF ChildEnds
<1>7. CASE Join
  <2>1. run'.pc = "record"
    BY <1>7 DEF Join, RunState
  <2> QED BY <1>7, <2>1 DEF Join
<1>8. CASE PostRun
  <2>1. run'.pc \in {"save", "idle"}
    BY <1>8 DEF PostRun, RunState, Idle
  <2> QED BY <1>8, <2>1 DEF PostRun
<1>9. CASE SaveState
  <2>1. run'.pc = "idle"
    BY <1>9 DEF SaveState, Idle
  <2> QED BY <1>9, <2>1 DEF SaveState
<1>10. CASE Refused
  <2>1. run'.pc = "record"
    BY <1>10 DEF Refused, RunState
  <2> QED BY <1>10, <2>1 DEF Refused
<1>11. CASE ResolveAgain
  <2>1. \/ run'.pc = "load" /\ run'.try # 1
        \/ run'.pc = "record"
    BY <1>11 DEF ResolveAgain, RunState, Idle
  <2> QED BY <1>11, <2>1 DEF ResolveAgain
<1>12. CASE RecordAgain
  <2>1. run'.pc \in {"record", "idle"}
    BY <1>12 DEF RecordAgain, RunState, Idle
  <2> QED BY <1>12, <2>1 DEF RecordAgain
<1>13. CASE ServeLate
  BY <1>13 DEF ServeLate
<1>14. ASSUME NEW u \in Urls, Publish(u)
      PROVE  OneAttempt'
  BY <1>14 DEF Publish
<1>15. ASSUME NEW u \in Urls, Repoint(u)
      PROVE  OneAttempt'
  BY <1>15 DEF Repoint
<1>16. CASE DeleteSource
  BY <1>16 DEF DeleteSource
<1>17. CASE ArchiveSource
  BY <1>17 DEF ArchiveSource
<1>18. CASE UNCHANGED vars
  BY <1>18 DEF vars
<1> QED BY <1>1, <1>2, <1>3, <1>4, <1>5, <1>6, <1>7, <1>8, <1>9, <1>10, <1>11, <1>12, <1>13, <1>14, <1>15, <1>16, <1>17, <1>18 DEF Next, Work

LEMMA InitIInv == Init => IInv
<1> SUFFICES ASSUME Init PROVE IInv
  OBVIOUS
<1>1. run = Idle /\ rows = {} /\ started = {} /\ late = {} /\ ingested = {}
      /\ source.state = NoState /\ source.last = {}
  BY DEF Init
<1>2. TypeOK
  <2>1. upstream \in [Urls -> Versions]
    BY SourceRunAssumption DEF Init, Versions, SourceRunAssumption
  <2>2. source \in SourceRow
    BY EmptyStateType DEF Init, SourceRow
  <2>3. budget \in [faults : 0 .. MaxFaults, edits : 0 .. MaxEdits]
    BY SourceRunAssumption DEF Init, SourceRunAssumption
  <2> QED BY <1>1, <2>1, <2>2, <2>3, IdleType DEF TypeOK
<1>3. Idle.pc = "idle" /\ Idle.save = {} /\ Idle.fetched = {} /\ Idle.outcome = "failed"
      /\ \A i \in 1 .. Items : Idle.jobs[i] = "none"
  BY DEF Idle
<1>4. Stages
  BY <1>1, <1>3 DEF Stages
<1>5. StatesKept
  BY <1>1, <1>3, EmptyKeepable DEF StatesKept
<1>6. RecordsFaithful
  BY <1>1, <1>3 DEF RecordsFaithful
<1>7. Compared
  BY <1>1, <1>3 DEF Compared
<1>8. OneAttempt
  BY <1>1, <1>3 DEF OneAttempt
<1> QED BY <1>2, <1>4, <1>5, <1>6, <1>7, <1>8 DEF IInv

\* The inductive invariant holds of every state a source and its runs reach.
THEOREM Invariance == Spec => []IInv
<1>1. IInv /\ [Next]_vars => IInv'
  BY TypeStep, StagesStep, StatesStep, RecordsStep, ComparedStep,
     OneAttemptStep DEF IInv
<1> QED BY <1>1, InitIInv, PTL DEF Spec

----------------------------------------------------------------------------
(* The properties. *)

\* Rows, runs, requests and counters stay in their types.
THEOREM TypeCorrect == Spec => []TypeOK
BY Invariance, PTL DEF IInv

\* A state that may be kept is that of an ingested body.
LEMMA KeptIsIngested ==
    ASSUME source.state \in Keepable
    PROVE  StateIngested
<1>1. CASE source.state = NoState
  BY <1>1 DEF StateIngested
<1>2. ASSUME NEW b \in Published, source.state = Mark(b)
      PROVE  StateIngested
  BY <1>2 DEF StateIngested, Mark, Keepable
<1> QED BY <1>1, <1>2 DEF Keepable, Marked

\* The incremental state saved for a source never runs ahead of the index, whatever children
\* fail, however often a record is repeated and however late a request of a timed-out attempt
\* is served, for every server and every edit of the location (source_workflow.rs saves the
\* state only when every child succeeded).
THEOREM StateNeverAhead == Spec => []StateIngested
<1>1. IInv => StateIngested
  BY KeptIsIngested DEF IInv, StatesKept
<1> QED BY <1>1, Invariance, PTL

\* Nothing is passed over that was never ingested, for any mix of servers with and without
\* ETags and any number of edits of the location: the saved state is that of an ingested file,
\* and a run that ends unchanged found an ingested file, unless all it had to compare was the
\* date of a file at another location (the url connector's conditional fetch).
THEOREM NothingPassedOver == Spec => []OnlyIngestedIsSkipped
<1>1. IInv => OnlyIngestedIsSkipped
  BY KeptIsIngested DEF IInv, StatesKept, Compared, OnlyIngestedIsSkipped
<1> QED BY <1>1, Invariance, PTL

\* The recorded row of a run is true of its jobs, also when it is posted twice or late
\* (record_source_run and the source_runs row).
THEOREM RunRowsTrue == Spec => []RunRowTrue
<1>1. IInv => RunRowTrue
  BY DEF IInv, RecordsFaithful, Faithful, RunRowTrue
<1> QED BY <1>1, Invariance, PTL

\* A set without two members has at most one.
LEMMA AtMostOne ==
    ASSUME NEW T, \A t, w \in T : t = w
    PROVE  Cardinality(T) <= 1
<1>1. CASE T = {}
  <2>1. Cardinality(T) = 0
    BY <1>1, FS_EmptySet, Zenon
  <2> QED BY <2>1
<1>2. CASE T # {}
  <2>1. PICK t \in T : TRUE
    BY <1>2
  <2>2. T = {t}
    BY <2>1
  <2>3. Cardinality(T) = 1
    BY <2>2, FS_Singleton, Zenon
  <2> QED BY <2>3
<1> QED BY <1>1, <1>2

\* However many resolve attempts are lost, one child runs per item, and a run that was
\* resolved at the first attempt leaves no job row without a child (resolve_source gives
\* every attempt job ids of its own).
THEOREM OneChildPerItem == Spec => []EachItemRunsOnce
<1>1. IInv => EachItemRunsOnce
  <2> SUFFICES ASSUME IInv PROVE EachItemRunsOnce
    OBVIOUS
  <2>1. ASSUME NEW i \in 1 .. Items
        PROVE  Cardinality({t \in 1 .. ResolveAttempts : <<t, i>> \in started}) <= 1
    <3>1. ASSUME NEW t, NEW w, <<t, i>> \in started, <<w, i>> \in started
          PROVE  t = w
      <4>1. <<t, i>>[1] = <<w, i>>[1]
        BY <3>1 DEF IInv, OneAttempt
      <4> QED BY <4>1
    <3> QED BY <3>1, AtMostOne
  <2>2. run.pc = "children" /\ run.try = 1 => rows \subseteq started
    BY DEF IInv, OneAttempt
  <2> QED BY <2>1, <2>2 DEF EachItemRunsOnce
<1> QED BY <1>1, Invariance, PTL
=============================================================================

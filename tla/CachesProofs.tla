----------------------------- MODULE CachesProofs -----------------------------
(***************************************************************************)
(* Proofs about the three caches, for any number of requests, accounts,    *)
(* replicas and readers, any durations and any bounds.                     *)
(***************************************************************************)
EXTENDS Caches, TLAPS

\* A step of the three is a step of each, or leaves it alone.
LEMMA OneRuns ==
    ASSUME [Next]_vars
    PROVE  [Credits!Next]_(Credits!vars) /\ [Ai!Next]_(Ai!vars) /\ [Lists!Next]_(Lists!vars)
BY DEF Next, vars, credits, ai, lists, Credits!vars, Ai!vars, Lists!vars

\* A question that has its answer.
LEMMA Told ==
    ASSUME NEW of, NEW at, NEW said, NEW says
    PROVE  [[of |-> of, at |-> at, says |-> said] EXCEPT !.says = says] = [of |-> of, at |-> at, says |-> says]
OBVIOUS

----------------------------------------------------------------------------
(* The pipeline list. *)

\* A list is no older than the answers known when its loading began; the one in the cache was
\* stored after the last answered write, which would have dropped it.
Reading == [pc: {"idle", "load", "store", "served"}, asked: Nat, list: Nat, began: Nat, ended: Nat]

SoundReader(q) ==
    /\ q.pc \in {"load", "store"} => q.asked = q.began
    /\ q.pc = "store" => q.began <= q.list
    /\ q.pc = "served" /\ q.list < q.asked => q.began < q.asked /\ q.ended >= q.asked

ListsInv ==
    /\ table \in Nat /\ acked \in Nat /\ acked <= table
    /\ writer \in [Writers -> SUBSET Nat]
    /\ \A w \in Writers : \A v \in writer[w] : v <= table /\ writer[w] = {v}
    /\ \A e \in cache : e.began \in Nat /\ e.list \in Nat /\ e.ended = acked /\ e.began <= e.list
    /\ reader \in [Readers -> Reading]
    /\ \A r \in Readers : SoundReader(reader[r]) /\ (reader[r].pc = "load" => reader[r].began <= acked)

LEMMA ListsInit == Lists!Init => ListsInv
BY DEF Lists!Init, ListsInv, SoundReader, Reading, Lists!Idle

\* A reader moves alone.
LEMMA ReaderMoved ==
    ASSUME ListsInv, NEW r \in Readers, NEW q \in Reading, SoundReader(q), q.pc = "load" => q.began <= acked,
           reader' = [reader EXCEPT ![r] = q], table' = table, acked' = acked, writer' = writer,
           \A e \in cache' : e.began \in Nat /\ e.list \in Nat /\ e.ended = acked /\ e.began <= e.list
    PROVE  ListsInv'
<1>1. reader' \in [Readers -> Reading]
  BY DEF ListsInv
<1>2. \A d \in Readers : reader'[d] = IF d = r THEN q ELSE reader[d]
  BY DEF ListsInv
<1>3. \A d \in Readers : SoundReader(reader'[d]) /\ (reader'[d].pc = "load" => reader'[d].began <= acked)
  BY <1>2 DEF ListsInv
<1> QED BY <1>1, <1>3 DEF ListsInv, SoundReader

LEMMA ListsStep == ListsInv /\ [Lists!Next]_(Lists!vars) => ListsInv'
<1> SUFFICES ASSUME ListsInv, [Lists!Next]_(Lists!vars)
             PROVE  ListsInv'
  OBVIOUS
<1> USE DEF ListsInv
<1>1. CASE Lists!Tick
  BY <1>1 DEF Lists!Tick
<1>2. CASE Lists!WriteElsewhere
  BY <1>2 DEF Lists!WriteElsewhere
<1>3. ASSUME NEW w \in Writers, Lists!Commit(w)
      PROVE  ListsInv'
  <2>1. writer' = [writer EXCEPT ![w] = {table + 1}] /\ table' = table + 1
    BY <1>3 DEF Lists!Commit
  <2> QED BY <1>3, <2>1 DEF Lists!Commit
<1>4. ASSUME NEW w \in Writers, Lists!Invalidate(w)
      PROVE  ListsInv'
  <2>1. acked' \in Nat /\ acked <= acked' /\ acked' <= table
    <3>1. CASE \E v \in writer[w] : v > acked
      <4>1. PICK v \in writer[w] : v > acked
        BY <3>1
      <4>2. writer[w] = {v} /\ v \in Nat /\ v <= table
        OBVIOUS
      <4>3. (CHOOSE u \in writer[w] : TRUE) = v
        BY <4>2
      <4> QED BY <1>4, <3>1, <4>1, <4>2, <4>3 DEF Lists!Invalidate
    <3>2. CASE ~\E v \in writer[w] : v > acked
      BY <1>4, <3>2 DEF Lists!Invalidate
    <3> QED BY <3>1, <3>2
  <2>2. cache' = {} /\ table' = table /\ reader' = reader /\ writer' = [writer EXCEPT ![w] = {}]
    BY <1>4 DEF Lists!Invalidate
  <2>3. \A r \in Readers : reader[r].began \in Nat
    BY DEF Reading
  <2> QED BY <2>1, <2>2, <2>3
<1>5. ASSUME NEW r \in Readers, Lists!Read(r)
      PROVE  ListsInv'
  <2>1. \E q \in Reading :
           reader' = [reader EXCEPT ![r] = q] /\ SoundReader(q) /\ (q.pc = "load" => q.began <= acked)
    <3>1. ASSUME NEW e \in Lists!Fresh,
                 reader' = [reader EXCEPT ![r] = [pc |-> "served", asked |-> acked, list |-> e.list,
                                                  began |-> e.began, ended |-> e.ended]]
          PROVE  \E q \in Reading : reader' = [reader EXCEPT ![r] = q] /\ SoundReader(q) /\ q.pc # "load"
      <4> DEFINE q == [pc |-> "served", asked |-> acked, list |-> e.list, began |-> e.began, ended |-> e.ended]
      <4>1. e \in cache
        BY DEF Lists!Fresh
      <4>2. q \in Reading /\ SoundReader(q) /\ q.pc # "load"
        BY <4>1 DEF Reading, SoundReader
      <4> QED BY <3>1, <4>2
    <3>2. CASE reader' = [reader EXCEPT ![r] = [Lists!Idle EXCEPT !.pc = "load", !.asked = acked, !.began = acked]]
      <4> DEFINE q == [Lists!Idle EXCEPT !.pc = "load", !.asked = acked, !.began = acked]
      <4>1. q \in Reading /\ SoundReader(q) /\ q.began = acked
        BY DEF Reading, SoundReader, Lists!Idle
      <4>2. reader' = [reader EXCEPT ![r] = q] /\ acked <= acked
        BY <3>2
      <4> HIDE DEF q
      <4> QED BY <4>1, <4>2
    <3> QED BY <1>5, <3>1, <3>2 DEF Lists!Read
  <2>2. table' = table /\ acked' = acked /\ writer' = writer /\ cache' = cache
    BY <1>5 DEF Lists!Read
  <2>3. PICK q \in Reading :
           reader' = [reader EXCEPT ![r] = q] /\ SoundReader(q) /\ (q.pc = "load" => q.began <= acked)
    BY <2>1
  <2>4. \A e \in cache' : e.began \in Nat /\ e.list \in Nat /\ e.ended = acked /\ e.began <= e.list
    BY <2>2
  <2> HIDE DEF ListsInv
  <2> QED BY <2>2, <2>3, <2>4, ReaderMoved
<1>6. ASSUME NEW r \in Readers, Lists!ListAll(r)
      PROVE  ListsInv'
  <2>1. \E q \in Reading :
           reader' = [reader EXCEPT ![r] = q] /\ SoundReader(q) /\ (q.pc = "load" => q.began <= acked)
    <3>1. CASE reader' = [reader EXCEPT ![r].pc = "store", ![r].list = table]
      <4> DEFINE q == [reader[r] EXCEPT !.pc = "store", !.list = table]
      <4>1. reader[r] \in Reading /\ reader[r].began <= acked /\ reader[r].asked = reader[r].began
        BY <1>6 DEF Lists!ListAll, SoundReader
      <4>4. q \in Reading
        BY <4>1 DEF Reading
      <4>5. q.pc = "store" /\ q.list = table /\ q.began = reader[r].began /\ q.asked = reader[r].asked
        BY <4>1 DEF Reading
      <4>6. reader[r].began \in Nat /\ reader[r].began <= table
        BY <4>1 DEF Reading
      <4>2. SoundReader(q) /\ q.pc # "load"
        <5> HIDE DEF q, ListsInv
        <5> QED BY <4>1, <4>5, <4>6 DEF SoundReader
      <4>3. reader' = [reader EXCEPT ![r] = q]
        BY <3>1
      <4> QED BY <4>2, <4>3, <4>4
    <3>2. CASE reader' = [reader EXCEPT ![r] = Lists!Idle]
      <4>1. Lists!Idle \in Reading /\ SoundReader(Lists!Idle) /\ Lists!Idle.pc # "load"
        BY DEF Reading, SoundReader, Lists!Idle
      <4> QED BY <3>2, <4>1
    <3> QED BY <1>6, <3>1, <3>2 DEF Lists!ListAll
  <2>2. table' = table /\ acked' = acked /\ writer' = writer /\ cache' = cache
    BY <1>6 DEF Lists!ListAll
  <2>3. PICK q \in Reading :
           reader' = [reader EXCEPT ![r] = q] /\ SoundReader(q) /\ (q.pc = "load" => q.began <= acked)
    BY <2>1
  <2>4. \A e \in cache' : e.began \in Nat /\ e.list \in Nat /\ e.ended = acked /\ e.began <= e.list
    BY <2>2
  <2> HIDE DEF ListsInv
  <2> QED BY <2>2, <2>3, <2>4, ReaderMoved
<1>7. ASSUME NEW r \in Readers, Lists!Store(r)
      PROVE  ListsInv'
  <2> DEFINE q == [reader[r] EXCEPT !.pc = "served", !.ended = acked]
  <2>1. reader[r] \in Reading /\ reader[r].pc = "store" /\ SoundReader(reader[r])
    BY <1>7 DEF Lists!Store
  <2>5. q \in Reading
    BY <2>1 DEF Reading
  <2>6. q.pc = "served" /\ q.list = reader[r].list /\ q.began = reader[r].began /\ q.asked = reader[r].asked
    BY <2>1 DEF Reading
  <2>3. reader' = [reader EXCEPT ![r] = q]
    BY <1>7 DEF Lists!Store
  <2>4. reader[r].began \in Nat /\ reader[r].list \in Nat /\ reader[r].began <= reader[r].list
    BY <2>1 DEF Reading, SoundReader
  <2>7. cache' = {[at |-> nowL, list |-> reader[r].list, began |-> reader[r].began, ended |-> acked]}
        /\ table' = table /\ acked' = acked /\ writer' = writer
    BY <1>7 DEF Lists!Store
  <2>8. \A e \in cache' : e.began \in Nat /\ e.list \in Nat /\ e.ended = acked /\ e.began <= e.list
    BY <2>4, <2>7
  <2> HIDE DEF q, ListsInv
  <2>2. SoundReader(q) /\ q.pc # "load"
    BY <2>1, <2>4, <2>6 DEF SoundReader
  <2> QED BY <2>2, <2>3, <2>5, <2>7, <2>8, ReaderMoved
<1>8. ASSUME NEW r \in Readers, Lists!Resolved(r)
      PROVE  ListsInv'
  <2>1. Lists!Idle \in Reading /\ SoundReader(Lists!Idle) /\ Lists!Idle.pc # "load"
    BY DEF Reading, SoundReader, Lists!Idle
  <2> QED BY <1>8, <2>1 DEF Lists!Resolved
<1>9. CASE UNCHANGED Lists!vars
  BY <1>9 DEF Lists!vars
<1> QED BY <1>1, <1>2, <1>3, <1>4, <1>5, <1>6, <1>7, <1>8, <1>9 DEF Lists!Next

----------------------------------------------------------------------------
(* The AI target. *)

Entry == [fetched_at: Nat, key: Ai!Keys]
StepState == [pc: Ai!PCs, rep: SUBSET Replicas, at: Nat, rejected: SUBSET Ai!Keys, says: SUBSET Ai!Keys,
              via: {"", "cache", "lab", "stale"}, attempt: Nat]

\* The Lab's history is up to date: the account's key is its key now.
KeyHistory ==
    /\ nowA \in Nat /\ key \in Ai!Keys /\ minted \in Ai!Keys /\ keyWas \in [Ai!Keys -> Int]
    /\ keyWas[key] = nowA /\ \A k \in Ai!Keys : keyWas[k] <= nowA

\* A cached key was the account's when, or after, its entry is dated.
TargetsDated ==
    /\ targets \in [Replicas -> SUBSET Entry]
    /\ \A r \in Replicas : \A e \in targets[r] : keyWas[e.key] >= e.fetched_at

\* What the Lab answered a step, and what a retried step was told by it, was true after the
\* step asked.
SoundStep(t, was, n) ==
    /\ t.at <= n
    /\ t.pc \in {"idle", "asked"} => t.says = {}
    /\ t.pc = "fetching" => \A k \in t.says : was[k] >= t.at /\ t.says = {k}
    /\ t.pc = "answered" /\ t.attempt > 1 /\ t.via # "stale" => \A k \in t.says : was[k] >= t.at

StepsSound ==
    /\ step \in [Steps -> StepState]
    /\ \A s \in Steps : SoundStep(step[s], keyWas, nowA)

AiInv == KeyHistory /\ TargetsDated /\ StepsSound

LEMMA FirstKeys == 0 \in Ai!Keys /\ 1 \in Ai!Keys
BY KeysAssumption DEF Ai!Keys

LEMMA NewStepSound ==
    ASSUME NEW n \in Nat, NEW was, NEW now \in Nat
    PROVE  Ai!NewStep(n) \in StepState /\ SoundStep(Ai!NewStep(n), was, now)
BY DEF Ai!NewStep, StepState, SoundStep, Ai!PCs

LEMMA AiInit == Ai!Init => AiInv
<1> SUFFICES ASSUME Ai!Init PROVE AiInv
  OBVIOUS
<1>1. KeyHistory
  BY FirstKeys, TargetsAssumption DEF Ai!Init, KeyHistory
<1>2. TargetsDated
  BY DEF Ai!Init, TargetsDated
<1>3. StepsSound
  <2>1. step = [s \in Steps |-> Ai!NewStep(1)] /\ nowA = 0
    BY DEF Ai!Init
  <2>2. Ai!NewStep(1) \in StepState /\ SoundStep(Ai!NewStep(1), keyWas, 0)
    BY NewStepSound
  <2> QED BY <2>1, <2>2 DEF StepsSound
<1> QED BY <1>1, <1>2, <1>3 DEF AiInv

LEMMA BecomeKeyHistory ==
    ASSUME KeyHistory, NEW k \in Ai!Keys, Ai!BecomeKey(k), nowA' = nowA, minted' \in Ai!Keys
    PROVE  KeyHistory' /\ nowA <= nowA' /\ \A j \in Ai!Keys : keyWas[j] <= keyWas'[j]
BY DEF KeyHistory, Ai!BecomeKey

\* History only grows.
LEMMA KeyHistoryStep ==
    ASSUME KeyHistory, [Ai!Next]_(Ai!vars)
    PROVE  KeyHistory' /\ nowA <= nowA' /\ \A k \in Ai!Keys : keyWas[k] <= keyWas'[k]
<1>1. CASE UNCHANGED <<nowA, key, minted, keyWas>>
  BY <1>1 DEF KeyHistory
<1>2. CASE Ai!Tick
  BY <1>2 DEF Ai!Tick, KeyHistory
<1>3. CASE Ai!Rotate
  <2>1. minted + 1 \in Ai!Keys
    BY <1>3, KeysAssumption DEF Ai!Rotate, KeyHistory, Ai!Keys
  <2> QED BY <1>3, <2>1, BecomeKeyHistory DEF Ai!Rotate
<1>4. CASE Ai!RemoveGateway
  BY <1>4, FirstKeys, BecomeKeyHistory DEF Ai!RemoveGateway, KeyHistory
<1>5. CASE Ai!Revoke
  BY <1>1, <1>5 DEF Ai!Revoke
<1>6. ASSUME NEW s \in Steps, Ai!LabServes(s)
      PROVE  KeyHistory' /\ nowA <= nowA' /\ \A k \in Ai!Keys : keyWas[k] <= keyWas'[k]
  <2>1. CASE UNCHANGED <<key, minted, dead, keyWas>>
    BY <1>1, <1>6, <2>1 DEF Ai!LabServes
  <2>2. CASE minted < MaxKeys /\ minted' = minted + 1 /\ Ai!BecomeKey(minted')
    <3>1. minted + 1 \in Ai!Keys
      BY <2>2, KeysAssumption DEF KeyHistory, Ai!Keys
    <3> QED BY <1>6, <2>2, <3>1, BecomeKeyHistory DEF Ai!LabServes
  <2> QED BY <1>6, <2>1, <2>2 DEF Ai!LabServes
<1>7. ASSUME NEW s \in Steps,
             \/ \E r \in Replicas : Ai!Attach(s, r) \/ Ai!Report(s, r)
             \/ Ai!Lookup(s) \/ Ai!Receive(s) \/ Ai!FetchErr(s)
             \/ Ai!Attached(s) \/ Ai!PluginEnds(s) \/ Ai!Retry(s)
      PROVE  UNCHANGED <<nowA, key, minted, keyWas>>
  BY <1>7 DEF Ai!Attach, Ai!Report, Ai!Lookup, Ai!Receive, Ai!FetchErr, Ai!Attached, Ai!PluginEnds,
     Ai!Retry, Ai!world
<1> QED BY <1>1, <1>2, <1>3, <1>4, <1>5, <1>6, <1>7 DEF Ai!Next, Ai!vars

LEMMA SoundGrows ==
    ASSUME NEW t \in StepState, NEW was \in [Ai!Keys -> Int], NEW was2 \in [Ai!Keys -> Int],
           NEW n \in Nat, NEW n2 \in Nat, n <= n2, \A k \in Ai!Keys : was[k] <= was2[k],
           SoundStep(t, was, n)
    PROVE  SoundStep(t, was2, n2)
<1>1. t.at \in Nat /\ t.says \in SUBSET Ai!Keys
  BY DEF StepState
<1>2. \A k \in t.says : was[k] \in Int /\ was2[k] \in Int /\ was[k] <= was2[k]
  BY <1>1
<1> QED BY <1>1, <1>2 DEF SoundStep

\* A step moves alone.
LEMMA StepMoved ==
    ASSUME KeyHistory, StepsSound, KeyHistory', nowA <= nowA', \A k \in Ai!Keys : keyWas[k] <= keyWas'[k],
           NEW s \in Steps, NEW q \in StepState, step' = [step EXCEPT ![s] = q],
           SoundStep(q, keyWas', nowA')
    PROVE  StepsSound'
<1>1. step' \in [Steps -> StepState]
  BY DEF StepsSound
<1>2. ASSUME NEW d \in Steps
      PROVE  SoundStep(step'[d], keyWas', nowA')
  <2>1. CASE d = s
    BY <2>1 DEF StepsSound
  <2>2. CASE d # s
    <3>1. step'[d] = step[d] /\ step[d] \in StepState /\ SoundStep(step[d], keyWas, nowA)
      BY <2>2 DEF StepsSound
    <3> QED BY <3>1, SoundGrows DEF KeyHistory
  <2> QED BY <2>1, <2>2
<1> QED BY <1>1, <1>2 DEF StepsSound, SoundStep

LEMMA StepsStill ==
    ASSUME KeyHistory, StepsSound, KeyHistory', nowA <= nowA', \A k \in Ai!Keys : keyWas[k] <= keyWas'[k],
           step' = step
    PROVE  StepsSound'
<1>1. ASSUME NEW d \in Steps
      PROVE  SoundStep(step'[d], keyWas', nowA')
  BY SoundGrows DEF KeyHistory, StepsSound
<1> QED BY <1>1 DEF StepsSound, SoundStep

LEMMA TargetsStill ==
    ASSUME KeyHistory, TargetsDated, KeyHistory', \A k \in Ai!Keys : keyWas[k] <= keyWas'[k],
           targets' \in [Replicas -> SUBSET Entry], \A r \in Replicas : targets'[r] \subseteq targets[r]
    PROVE  TargetsDated'
<1>1. ASSUME NEW r \in Replicas, NEW e \in targets'[r]
      PROVE  keyWas'[e.key] >= e.fetched_at
  <2>1. e \in targets[r] /\ e.key \in Ai!Keys /\ e.fetched_at \in Nat
    BY DEF TargetsDated, Entry
  <2>2. keyWas[e.key] >= e.fetched_at /\ keyWas[e.key] \in Int /\ keyWas'[e.key] \in Int
    BY <2>1 DEF TargetsDated, KeyHistory
  <2>3. keyWas[e.key] <= keyWas'[e.key]
    BY <2>1
  <2> QED BY <2>1, <2>2, <2>3
<1> QED BY <1>1 DEF TargetsDated

\* What each action makes of its step: q is the step's new record.
AiStill == UNCHANGED <<nowA, key, minted, keyWas>>

LEMMA StepIs ==
    ASSUME StepsSound, NEW s \in Steps
    PROVE  /\ step[s] \in StepState /\ SoundStep(step[s], keyWas, nowA)
           /\ step[s].pc \in Ai!PCs /\ step[s].rep \subseteq Replicas /\ step[s].at \in Nat
           /\ step[s].rejected \subseteq Ai!Keys /\ step[s].says \subseteq Ai!Keys /\ step[s].attempt \in Nat
BY DEF StepsSound, StepState

LEMMA AskDoes ==
    ASSUME AiInv, NEW s \in Steps, NEW r \in Replicas, Ai!Attach(s, r) \/ Ai!Report(s, r)
    PROVE  /\ AiStill /\ targets' = targets /\ step[s].pc \in {"idle", "report"}
           /\ \E q \in StepState : /\ step' = [step EXCEPT ![s] = q]
                                   /\ q.pc = "asked" /\ q.at = nowA /\ q.says = {}
<1>1. AiStill /\ targets' = targets /\ step[s].pc \in {"idle", "report"}
  BY DEF Ai!Attach, Ai!Report, Ai!world, AiStill
<1>2. nowA \in Nat
  BY DEF AiInv, KeyHistory
<1>3. CASE Ai!Attach(s, r)
  <2> DEFINE q == [step[s] EXCEPT !.pc = "asked", !.rep = {r}, !.at = nowA]
  <2>1. step' = [step EXCEPT ![s] = q]
    BY <1>3 DEF Ai!Attach, Ai!Set
  <2>2. q \in StepState /\ q.pc = "asked" /\ q.at = nowA /\ q.says = step[s].says
    BY <1>2, StepIs DEF AiInv, StepState, Ai!PCs
  <2>3. step[s].says = {}
    BY <1>3, StepIs DEF AiInv, SoundStep, Ai!Attach
  <2> QED BY <1>1, <2>1, <2>2, <2>3
<1>4. CASE Ai!Report(s, r)
  <2> DEFINE q == [step[s] EXCEPT !.pc = "asked", !.rep = {r}, !.at = nowA, !.rejected = step[s].says, !.says = {}]
  <2>1. step' = [step EXCEPT ![s] = q]
    BY <1>4 DEF Ai!Report, Ai!Set
  <2>2. q \in StepState /\ q.pc = "asked" /\ q.at = nowA /\ q.says = {}
    BY <1>2, StepIs DEF AiInv, StepState, Ai!PCs
  <2> QED BY <1>1, <2>1, <2>2
<1> QED BY <1>3, <1>4

LEMMA LookupDoes ==
    ASSUME AiInv, NEW s \in Steps, Ai!Lookup(s)
    PROVE  /\ AiStill /\ step[s].pc = "asked" /\ targets' \in [Replicas -> SUBSET Entry]
           /\ \A r \in Replicas : targets'[r] \subseteq targets[r]
           /\ \E q \in StepState :
                /\ step' = [step EXCEPT ![s] = q] /\ q.at = step[s].at
                /\ \/ q.pc = "fetching" /\ q.says = {}
                   \/ /\ q.pc = "answered" /\ ~(q.attempt > 1)
                      /\ \E r \in Replicas : \E e \in targets[r] :
                           q.says = {e.key} /\ step[s].at - e.fetched_at < KeyFresh
<1>1. AiStill /\ step[s].pc = "asked"
  BY DEF Ai!Lookup, Ai!world, AiStill
<1>2. step[s].says = {}
  BY <1>1, StepIs DEF AiInv, SoundStep
<1>3. targets \in [Replicas -> SUBSET Entry]
  BY DEF AiInv, TargetsDated
<1>4. PICK r \in step[s].rep :
        \/ /\ ~Ai!Refresh(s) /\ targets' = targets
           /\ \E e \in targets[r] : /\ step[s].at - e.fetched_at < KeyFresh
                                    /\ Ai!Set(s, [step[s] EXCEPT !.pc = "answered", !.says = {e.key}, !.via = "cache"])
        \/ /\ targets' = [targets EXCEPT ![r] = {e \in @ : e.key \notin step[s].rejected}]
           /\ Ai!Set(s, [step[s] EXCEPT !.pc = "fetching"])
  BY Zenon DEF Ai!Lookup
<1>5. r \in Replicas
  BY StepIs DEF AiInv
<1>6. CASE \E e \in targets[r] : /\ step[s].at - e.fetched_at < KeyFresh /\ ~Ai!Refresh(s) /\ targets' = targets
                                 /\ Ai!Set(s, [step[s] EXCEPT !.pc = "answered", !.says = {e.key}, !.via = "cache"])
  <2>1. PICK e \in targets[r] : /\ step[s].at - e.fetched_at < KeyFresh /\ ~Ai!Refresh(s) /\ targets' = targets
                                /\ Ai!Set(s, [step[s] EXCEPT !.pc = "answered", !.says = {e.key}, !.via = "cache"])
    BY <1>6
  <2>2. e.key \in Ai!Keys
    BY <1>3, <1>5 DEF Entry
  <2> DEFINE q == [step[s] EXCEPT !.pc = "answered", !.says = {e.key}, !.via = "cache"]
  <2>3. q \in StepState /\ q.pc = "answered" /\ q.at = step[s].at /\ q.says = {e.key} /\ q.attempt = step[s].attempt
    BY <2>2, StepIs DEF AiInv, StepState, Ai!PCs
  <2>4. step' = [step EXCEPT ![s] = q] /\ ~(q.attempt > 1)
    BY <2>1, <2>3 DEF Ai!Set, Ai!Refresh
  <2> HIDE DEF q
  <2> QED BY <1>1, <1>3, <1>5, <2>1, <2>3, <2>4
<1>7. CASE /\ targets' = [targets EXCEPT ![r] = {e \in @ : e.key \notin step[s].rejected}]
           /\ Ai!Set(s, [step[s] EXCEPT !.pc = "fetching"])
  <2> DEFINE q == [step[s] EXCEPT !.pc = "fetching"]
  <2>1. q \in StepState /\ q.pc = "fetching" /\ q.at = step[s].at /\ q.says = {}
    BY <1>2, StepIs DEF AiInv, StepState, Ai!PCs
  <2>2. step' = [step EXCEPT ![s] = q]
    BY <1>7 DEF Ai!Set
  <2>3. targets' \in [Replicas -> SUBSET Entry] /\ \A d \in Replicas : targets'[d] \subseteq targets[d]
    BY <1>3, <1>5, <1>7
  <2> HIDE DEF q
  <2> QED BY <1>1, <2>1, <2>2, <2>3
<1> QED BY <1>4, <1>6, <1>7

LEMMA LabServesDoes ==
    ASSUME AiInv, KeyHistory', NEW s \in Steps, Ai!LabServes(s)
    PROVE  /\ nowA' = nowA /\ targets' = targets /\ step[s].pc = "fetching"
           /\ \E q \in StepState : /\ step' = [step EXCEPT ![s] = q] /\ q.pc = "fetching"
                                   /\ q.at = step[s].at /\ q.says = {key'}
<1> DEFINE q == [step[s] EXCEPT !.says = {key'}]
<1>1. nowA' = nowA /\ targets' = targets /\ step[s].pc = "fetching" /\ step' = [step EXCEPT ![s] = q]
  BY DEF Ai!LabServes, Ai!Set
<1>2. key' \in Ai!Keys
  BY DEF KeyHistory
<1>3. q \in StepState /\ q.pc = "fetching" /\ q.at = step[s].at /\ q.says = {key'}
  BY <1>1, <1>2, StepIs DEF AiInv, StepState
<1> HIDE DEF q
<1> QED BY <1>1, <1>3

LEMMA ReceiveDoes ==
    ASSUME AiInv, NEW s \in Steps, Ai!Receive(s)
    PROVE  /\ AiStill /\ step[s].pc = "fetching" /\ step[s].says # {}
           /\ targets' = [r \in Replicas |-> IF r \in step[s].rep
                 THEN {[fetched_at |-> step[s].at, key |-> k] : k \in step[s].says \ {0}} ELSE targets[r]]
           /\ \E q \in StepState : /\ step' = [step EXCEPT ![s] = q] /\ q.pc = "answered"
                                   /\ q.at = step[s].at /\ q.says = step[s].says
<1> DEFINE q == [step[s] EXCEPT !.pc = "answered", !.via = "lab"]
<1>1. /\ AiStill /\ step[s].pc = "fetching" /\ step[s].says # {}
      /\ targets' = [r \in Replicas |-> IF r \in step[s].rep
            THEN {[fetched_at |-> step[s].at, key |-> k] : k \in step[s].says \ {0}} ELSE targets[r]]
      /\ step' = [step EXCEPT ![s] = q]
  BY DEF Ai!Receive, Ai!Set, Ai!world, AiStill
<1>2. q \in StepState /\ q.pc = "answered" /\ q.at = step[s].at /\ q.says = step[s].says
  BY StepIs DEF AiInv, StepState, Ai!PCs
<1> HIDE DEF q
<1> QED BY <1>1, <1>2

LEMMA FetchErrDoes ==
    ASSUME AiInv, NEW s \in Steps, Ai!FetchErr(s)
    PROVE  /\ AiStill /\ step[s].pc = "fetching" /\ targets' = targets
           /\ \E q \in StepState :
                /\ step' = [step EXCEPT ![s] = q]
                /\ \/ q.pc = "failed" /\ q.at = 0
                   \/ /\ q.pc = "answered" /\ q.via = "stale" /\ q.at = step[s].at
                      /\ \E r \in Replicas : \E e \in targets[r] :
                           q.says = {e.key} /\ step[s].at - e.fetched_at < KeyStale
<1>1. AiStill /\ step[s].pc = "fetching" /\ targets' = targets
  BY DEF Ai!FetchErr, Ai!world, AiStill
<1>2. targets \in [Replicas -> SUBSET Entry]
  BY DEF AiInv, TargetsDated
<1>3. PICK r \in step[s].rep :
        \/ \E e \in targets[r] : /\ step[s].at - e.fetched_at < KeyStale
                                 /\ Ai!Set(s, [step[s] EXCEPT !.pc = "answered", !.says = {e.key}, !.via = "stale"])
        \/ Ai!Set(s, [Ai!NewStep(step[s].attempt) EXCEPT !.pc = "failed"])
  BY Zenon DEF Ai!FetchErr
<1>4. r \in Replicas
  BY StepIs DEF AiInv
<1>5. ASSUME NEW e \in targets[r], step[s].at - e.fetched_at < KeyStale,
             Ai!Set(s, [step[s] EXCEPT !.pc = "answered", !.says = {e.key}, !.via = "stale"])
      PROVE  \E q \in StepState :
                /\ step' = [step EXCEPT ![s] = q] /\ q.pc = "answered" /\ q.via = "stale" /\ q.at = step[s].at
                /\ q.says = {e.key}
  <2>2. e.key \in Ai!Keys
    BY <1>2, <1>4 DEF Entry
  <2> DEFINE q == [step[s] EXCEPT !.pc = "answered", !.says = {e.key}, !.via = "stale"]
  <2>3. q \in StepState /\ q.pc = "answered" /\ q.at = step[s].at /\ q.says = {e.key} /\ q.via = "stale"
    BY <2>2, StepIs DEF AiInv, StepState, Ai!PCs
  <2>4. step' = [step EXCEPT ![s] = q]
    BY <1>5 DEF Ai!Set
  <2> HIDE DEF q
  <2> QED BY <2>3, <2>4
<1>6. CASE Ai!Set(s, [Ai!NewStep(step[s].attempt) EXCEPT !.pc = "failed"])
  <2> DEFINE q == [Ai!NewStep(step[s].attempt) EXCEPT !.pc = "failed"]
  <2>1. q \in StepState /\ q.pc = "failed" /\ q.at = 0
    BY StepIs DEF AiInv, StepState, Ai!NewStep, Ai!PCs
  <2>2. step' = [step EXCEPT ![s] = q]
    BY <1>6 DEF Ai!Set
  <2> HIDE DEF q
  <2> QED BY <1>1, <2>1, <2>2
<1>7. CASE \E e \in targets[r] : /\ step[s].at - e.fetched_at < KeyStale
                                 /\ Ai!Set(s, [step[s] EXCEPT !.pc = "answered", !.says = {e.key}, !.via = "stale"])
  BY <1>1, <1>4, <1>5, <1>7
<1> QED BY <1>3, <1>6, <1>7

\* The step goes on without a question.
LEMMA EndDoes ==
    ASSUME AiInv, NEW s \in Steps, Ai!Attached(s) \/ Ai!PluginEnds(s) \/ Ai!Retry(s)
    PROVE  /\ AiStill /\ targets' = targets
           /\ \E q \in StepState : /\ step' = [step EXCEPT ![s] = q]
                                   /\ q.pc \in {"idle", "running", "report"} /\ SoundStep(q, keyWas, nowA)
<1>1. AiStill /\ targets' = targets
  BY DEF Ai!Attached, Ai!PluginEnds, Ai!Retry, Ai!world, AiStill
<1>2. nowA \in Nat
  BY DEF AiInv, KeyHistory
<1>3. ASSUME NEW n \in Nat
      PROVE  /\ Ai!NewStep(n) \in StepState /\ Ai!NewStep(n).pc = "idle"
             /\ SoundStep(Ai!NewStep(n), keyWas, nowA)
  BY <1>2, NewStepSound DEF Ai!NewStep
<1>4. CASE \E n \in Nat : step' = [step EXCEPT ![s] = Ai!NewStep(n)]
  BY <1>1, <1>3, <1>4
<1>5. CASE step' = [step EXCEPT ![s] = [Ai!NewStep(step[s].attempt) EXCEPT !.pc = "running", !.says = step[s].says]]
  <2> DEFINE q == [Ai!NewStep(step[s].attempt) EXCEPT !.pc = "running", !.says = step[s].says]
  <2>1. q \in StepState /\ q.pc = "running" /\ q.at = 0
    BY StepIs DEF AiInv, StepState, Ai!NewStep, Ai!PCs
  <2> HIDE DEF q
  <2>2. SoundStep(q, keyWas, nowA)
    BY <1>2, <2>1 DEF SoundStep
  <2> QED BY <1>1, <1>5, <2>1, <2>2 DEF q
<1>6. CASE step' = [step EXCEPT ![s] = [step[s] EXCEPT !.pc = "report"]]
  <2> DEFINE q == [step[s] EXCEPT !.pc = "report"]
  <2>1. q \in StepState /\ q.pc = "report" /\ q.at = step[s].at /\ step[s].at <= nowA
    BY StepIs DEF AiInv, StepState, Ai!PCs, SoundStep
  <2> HIDE DEF q
  <2>2. SoundStep(q, keyWas, nowA)
    BY <2>1 DEF SoundStep
  <2> QED BY <1>1, <1>6, <2>1, <2>2 DEF q
<1>7. CASE Ai!Attached(s)
  BY <1>4, <1>5, <1>7 DEF Ai!Attached, Ai!Set
<1>8. CASE Ai!PluginEnds(s)
  BY <1>4, <1>6, <1>8 DEF Ai!PluginEnds, Ai!Set
<1>9. CASE Ai!Retry(s)
  <2>1. (IF step[s].attempt < MaxAttempts THEN step[s].attempt + 1 ELSE 1) \in Nat
    BY StepIs DEF AiInv
  <2> QED BY <1>4, <1>9, <2>1 DEF Ai!Retry, Ai!Set
<1> QED BY <1>7, <1>8, <1>9

\* An answer from a cached entry is younger than the window.
LEMMA EntryRecent ==
    ASSUME AiInv, NEW r \in Replicas, NEW e \in targets[r], NEW t \in Nat, t - e.fetched_at < KeyStale
    PROVE  e.key \in Ai!Keys /\ keyWas[e.key] \in Int /\ keyWas[e.key] > t - KeyStale
<1>1. e.key \in Ai!Keys /\ e.fetched_at \in Nat /\ keyWas[e.key] >= e.fetched_at
  BY DEF AiInv, TargetsDated, Entry
<1>2. keyWas[e.key] \in Int
  BY <1>1 DEF AiInv, KeyHistory
<1> QED BY <1>1, <1>2, TargetsAssumption

LEMMA AiStep ==
    ASSUME AiInv, [Ai!Next]_(Ai!vars)
    PROVE  AiInv'
<1> USE DEF AiInv
<1>0. KeyHistory' /\ nowA <= nowA' /\ \A k \in Ai!Keys : keyWas[k] <= keyWas'[k]
  BY KeyHistoryStep
<1>1. CASE UNCHANGED <<targets, step>>
  <2>1. TargetsDated'
    BY <1>0, <1>1, TargetsStill DEF TargetsDated
  <2> QED BY <1>0, <1>1, <2>1, StepsStill
<1>2. ASSUME targets' \in [Replicas -> SUBSET Entry], \A r \in Replicas : targets'[r] \subseteq targets[r],
             NEW s \in Steps,
             \E q \in StepState : step' = [step EXCEPT ![s] = q] /\ SoundStep(q, keyWas', nowA')
      PROVE  AiInv'
  <2>1. TargetsDated'
    BY <1>0, <1>2, TargetsStill
  <2>2. StepsSound'
    BY <1>0, <1>2, StepMoved
  <2> QED BY <1>0, <2>1, <2>2
<1>3. targets \in [Replicas -> SUBSET Entry] /\ nowA \in Nat
  BY DEF TargetsDated, KeyHistory
<1>4. ASSUME NEW s \in Steps, NEW r \in Replicas, Ai!Attach(s, r) \/ Ai!Report(s, r)
      PROVE  AiInv'
  <2>1. PICK q \in StepState : /\ step' = [step EXCEPT ![s] = q]
                               /\ q.pc = "asked" /\ q.at = nowA /\ q.says = {}
    BY <1>4, AskDoes
  <2>2. AiStill /\ targets' = targets
    BY <1>4, AskDoes
  <2>3. SoundStep(q, keyWas', nowA')
    BY <2>1, <2>2, <1>3 DEF SoundStep, AiStill
  <2> QED BY <1>2, <1>3, <2>1, <2>2, <2>3
<1>5. ASSUME NEW s \in Steps, Ai!Lookup(s)
      PROVE  AiInv'
  <2>1. PICK q \in StepState :
             /\ step' = [step EXCEPT ![s] = q] /\ q.at = step[s].at
             /\ (q.pc = "fetching" /\ q.says = {}) \/ (q.pc = "answered" /\ ~(q.attempt > 1))
    BY <1>5, LookupDoes
  <2>2. AiStill /\ targets' \in [Replicas -> SUBSET Entry] /\ \A r \in Replicas : targets'[r] \subseteq targets[r]
    BY <1>5, LookupDoes
  <2>3. step[s].at <= nowA
    BY StepIs DEF SoundStep
  <2>4. SoundStep(q, keyWas', nowA')
    BY <2>1, <2>2, <2>3 DEF SoundStep, AiStill
  <2> QED BY <1>2, <2>1, <2>2, <2>4
<1>6. ASSUME NEW s \in Steps, Ai!LabServes(s)
      PROVE  AiInv'
  <2>1. PICK q \in StepState : /\ step' = [step EXCEPT ![s] = q] /\ q.pc = "fetching"
                               /\ q.at = step[s].at /\ q.says = {key'}
    BY <1>0, <1>6, LabServesDoes
  <2>2. nowA' = nowA /\ targets' = targets
    BY <1>0, <1>6, LabServesDoes
  <2>3. step[s].at <= nowA /\ keyWas'[key'] = nowA' /\ step[s].at \in Nat
    BY <1>0, StepIs DEF SoundStep, KeyHistory
  <2>4. SoundStep(q, keyWas', nowA')
    BY <1>3, <2>1, <2>2, <2>3 DEF SoundStep
  <2> QED BY <1>2, <1>3, <2>1, <2>2, <2>4
<1>7. ASSUME NEW s \in Steps, Ai!Receive(s)
      PROVE  AiInv'
  <2>1. PICK q \in StepState : /\ step' = [step EXCEPT ![s] = q] /\ q.pc = "answered"
                               /\ q.at = step[s].at /\ q.says = step[s].says
    BY <1>7, ReceiveDoes
  <2>2. /\ AiStill /\ step[s].pc = "fetching"
        /\ targets' = [r \in Replicas |-> IF r \in step[s].rep
              THEN {[fetched_at |-> step[s].at, key |-> k] : k \in step[s].says \ {0}} ELSE targets[r]]
    BY <1>7, ReceiveDoes
  <2>3. step[s].at <= nowA /\ step[s].at \in Nat /\ step[s].says \subseteq Ai!Keys
        /\ \A k \in step[s].says : keyWas[k] >= step[s].at
    BY <2>2, StepIs DEF SoundStep
  <2>4. SoundStep(q, keyWas', nowA')
    BY <2>1, <2>2, <2>3 DEF SoundStep, AiStill
  <2>5. StepsSound'
    BY <1>0, <2>1, <2>4, StepMoved
  <2>6. ASSUME NEW r \in Replicas
        PROVE  targets'[r] \in SUBSET Entry /\ \A e \in targets'[r] : keyWas'[e.key] >= e.fetched_at
    <3>1. CASE r \in step[s].rep
      <4>1. targets'[r] = {[fetched_at |-> step[s].at, key |-> k] : k \in step[s].says \ {0}}
        BY <2>2, <3>1
      <4> QED BY <2>2, <2>3, <4>1 DEF Entry, AiStill
    <3>2. CASE r \notin step[s].rep
      <4>1. targets'[r] = targets[r]
        BY <2>2, <3>2
      <4> QED BY <2>2, <4>1 DEF TargetsDated, AiStill
    <3> QED BY <3>1, <3>2
  <2>7. TargetsDated'
    BY <2>2, <2>6 DEF TargetsDated
  <2> QED BY <1>0, <2>5, <2>7
<1>8. ASSUME NEW s \in Steps, Ai!FetchErr(s)
      PROVE  AiInv'
  <2>1. PICK q \in StepState :
             /\ step' = [step EXCEPT ![s] = q]
             /\ (q.pc = "failed" /\ q.at = 0) \/ (q.pc = "answered" /\ q.via = "stale" /\ q.at = step[s].at)
    BY <1>8, FetchErrDoes
  <2>2. AiStill /\ targets' = targets
    BY <1>8, FetchErrDoes
  <2>3. step[s].at <= nowA
    BY StepIs DEF SoundStep
  <2>4. SoundStep(q, keyWas', nowA')
    BY <1>3, <2>1, <2>2, <2>3 DEF SoundStep, AiStill
  <2> QED BY <1>2, <1>3, <2>1, <2>2, <2>4
<1>9. ASSUME NEW s \in Steps, Ai!Attached(s) \/ Ai!PluginEnds(s) \/ Ai!Retry(s)
      PROVE  AiInv'
  <2>1. PICK q \in StepState : step' = [step EXCEPT ![s] = q] /\ SoundStep(q, keyWas, nowA)
    BY <1>9, EndDoes
  <2>2. AiStill /\ targets' = targets
    BY <1>9, EndDoes
  <2>3. SoundStep(q, keyWas', nowA')
    BY <2>1, <2>2 DEF AiStill
  <2> QED BY <1>2, <1>3, <2>1, <2>2, <2>3
<1>10. CASE Ai!Tick \/ Ai!Rotate \/ Ai!RemoveGateway \/ Ai!Revoke \/ UNCHANGED Ai!vars
  BY <1>1, <1>10 DEF Ai!Tick, Ai!Rotate, Ai!RemoveGateway, Ai!Revoke, Ai!vars
<1> QED BY <1>4, <1>5, <1>6, <1>7, <1>8, <1>9, <1>10 DEF Ai!Next

\* The refinement: a step's question, as RecentAnswer sees it.
AiQuestion(t) == IF t.pc \in {"asked", "fetching", "answered"}
                 THEN {[of |-> "account", at |-> t.at, says |-> IF t.pc = "answered" THEN t.says ELSE {}]}
                 ELSE {}

AiAsk == [s \in Steps |-> Ai!Asked(s)]

LEMMA AiAskIs == \A s \in Steps : AiAsk[s] = AiQuestion(step[s])
BY DEF AiAsk, AiQuestion, Ai!Asked

LEMMA AiAskMoved ==
    ASSUME StepsSound, NEW s \in Steps, NEW q, step' = [step EXCEPT ![s] = q]
    PROVE  AiAsk' = [AiAsk EXCEPT ![s] = AiQuestion(q)]
<1>1. ASSUME NEW d \in Steps
      PROVE  Ai!Asked(d)' = IF d = s THEN AiQuestion(q) ELSE Ai!Asked(d)
  <2>1. step'[d] = IF d = s THEN q ELSE step[d]
    BY DEF StepsSound
  <2> QED BY <2>1 DEF Ai!Asked, AiQuestion
<1> QED BY <1>1, Zenon DEF AiAsk

LEMMA AiAsks ==
    ASSUME NEW s \in Steps, AiAsk[s] = {}, UNCHANGED <<nowA, key, keyWas>>,
           AiAsk' = [AiAsk EXCEPT ![s] = {[of |-> "account", at |-> nowA, says |-> {}]}]
    PROVE  Ai!Recent!Next
<1>1. Ai!Recent!Ask(s, "account")
  BY DEF AiAsk, Ai!Recent!Ask
<1> QED BY <1>1 DEF Ai!Recent!Next

LEMMA AiAnswers ==
    ASSUME NEW s \in Steps, NEW t, NEW k \in Ai!Keys, keyWas[k] > t - KeyStale,
           UNCHANGED <<nowA, key, keyWas>>, AiAsk[s] = {[of |-> "account", at |-> t, says |-> {}]},
           AiAsk' = [AiAsk EXCEPT ![s] = {[of |-> "account", at |-> t, says |-> {k}]}]
    PROVE  Ai!Recent!Next
<1> DEFINE q == [of |-> "account", at |-> t, says |-> {}]
<1>1. q \in AiAsk[s] /\ q.says = {} /\ q.of = "account" /\ q.at = t
  OBVIOUS
<1>3. [q EXCEPT !.says = {k}] = [of |-> "account", at |-> t, says |-> {k}]
  BY Told
<1>2. Ai!Recent!Answer(s, k)
  BY <1>1, <1>3 DEF AiAsk, Ai!Recent!Answer
<1> QED BY <1>2 DEF Ai!Recent!Next

LEMMA AiCloses ==
    ASSUME NEW s \in Steps, AiAsk[s] # {}, UNCHANGED <<nowA, key, keyWas>>,
           AiAsk' = [AiAsk EXCEPT ![s] = {}]
    PROVE  Ai!Recent!Next
<1>1. Ai!Recent!Close(s)
  BY DEF AiAsk, Ai!Recent!Close
<1> QED BY <1>1 DEF Ai!Recent!Next

LEMMA AiStutters ==
    ASSUME UNCHANGED <<nowA, key, keyWas>>, AiAsk' = AiAsk
    PROVE  UNCHANGED Ai!Recent!recent
BY DEF AiAsk, Ai!Recent!recent

LEMMA AiChanges ==
    ASSUME KeyHistory, NEW k \in Ai!Keys, key' = k, keyWas' = [keyWas EXCEPT ![k] = nowA], nowA' = nowA,
           AiAsk' = AiAsk
    PROVE  Ai!Recent!Next
<1>1. Ai!Recent!Change("account", k)
  BY DEF AiAsk, Ai!Recent!Change
<1> QED BY <1>1 DEF Ai!Recent!Next

LEMMA AiTicks ==
    ASSUME KeyHistory, nowA' = nowA + 1, key' = key, keyWas' = [keyWas EXCEPT ![key] = nowA'], AiAsk' = AiAsk
    PROVE  Ai!Recent!Next
<1>1. Ai!Recent!Tick
  BY DEF AiAsk, Ai!Recent!Tick
<1> QED BY <1>1 DEF Ai!Recent!Next

LEMMA AiInitRefines == Ai!Init => Ai!Recent!Init
<1> SUFFICES ASSUME Ai!Init PROVE Ai!Recent!Init
  OBVIOUS
<1>1. nowA = 0 /\ key \in Ai!Keys
  BY FirstKeys DEF Ai!Init
<1>2. \A s \in Steps : Ai!Asked(s) = {}
  BY DEF Ai!Init, Ai!Asked, Ai!NewStep
<1>3. [s \in Steps |-> Ai!Asked(s)] = [s \in Steps |-> {}]
  BY <1>2, Zenon
<1>4. keyWas = [k \in Ai!Keys |-> IF k = key THEN 0 ELSE -KeyStale]
  BY DEF Ai!Init
<1>5. [a \in {"account"} |-> keyWas] = [a \in {"account"} |-> [k \in Ai!Keys |->
          IF k = [b \in {"account"} |-> key][a] THEN 0 ELSE Ai!Recent!Never]]
  BY <1>4 DEF Ai!Recent!Never
<1> QED BY <1>1, <1>3, <1>5 DEF Ai!Recent!Init

LEMMA AiRefines ==
    ASSUME AiInv, [Ai!Next]_(Ai!vars)
    PROVE  [Ai!Recent!Next]_(Ai!Recent!recent)
<1>0. KeyHistory /\ StepsSound /\ KeyHistory'
  BY KeyHistoryStep DEF AiInv
<1>a. ASSUME NEW s \in Steps
      PROVE  step[s].at \in Nat /\ AiAsk[s] = AiQuestion(step[s])
  BY <1>0, StepIs, AiAskIs
<1>s. ASSUME step' = step
      PROVE  AiAsk' = AiAsk
  BY <1>s DEF AiAsk, Ai!Asked
<1>1. CASE Ai!Tick
  BY <1>0, <1>1, <1>s, AiTicks DEF Ai!Tick
<1>2. CASE Ai!Rotate
  BY <1>0, <1>2, <1>s, AiChanges DEF Ai!Rotate, Ai!BecomeKey, KeyHistory
<1>3. CASE Ai!RemoveGateway
  BY <1>0, <1>3, <1>s, AiChanges DEF Ai!RemoveGateway, Ai!BecomeKey, KeyHistory
<1>4. CASE Ai!Revoke \/ UNCHANGED Ai!vars
  BY <1>4, <1>s, AiStutters DEF Ai!Revoke, Ai!vars
<1>5. ASSUME NEW s \in Steps, NEW r \in Replicas, Ai!Attach(s, r) \/ Ai!Report(s, r)
      PROVE  Ai!Recent!Next
  <2>1. PICK q \in StepState : /\ step' = [step EXCEPT ![s] = q]
                               /\ q.pc = "asked" /\ q.at = nowA /\ q.says = {}
    BY <1>5, AskDoes
  <2>2. AiStill /\ step[s].pc \in {"idle", "report"}
    BY <1>5, AskDoes
  <2>3. AiAsk[s] = {}
    BY <1>a, <2>2 DEF AiQuestion
  <2>4. AiQuestion(q) = {[of |-> "account", at |-> nowA, says |-> {}]}
    BY <2>1 DEF AiQuestion
  <2>5. AiAsk' = [AiAsk EXCEPT ![s] = {[of |-> "account", at |-> nowA, says |-> {}]}]
    BY <1>0, <2>1, <2>4, AiAskMoved
  <2> QED BY <2>2, <2>3, <2>5, AiAsks DEF AiStill
<1>6. ASSUME NEW s \in Steps, NEW q \in StepState, step' = [step EXCEPT ![s] = q], AiStill,
             step[s].pc \in {"asked", "fetching"}, q.pc = "answered", q.at = step[s].at,
             NEW k \in Ai!Keys, q.says = {k}, keyWas[k] > step[s].at - KeyStale
      PROVE  Ai!Recent!Next
  <2>1. AiAsk[s] = {[of |-> "account", at |-> step[s].at, says |-> {}]}
    BY <1>a, <1>6 DEF AiQuestion
  <2>2. AiQuestion(q) = {[of |-> "account", at |-> step[s].at, says |-> {k}]}
    BY <1>6 DEF AiQuestion
  <2>3. AiAsk' = [AiAsk EXCEPT ![s] = {[of |-> "account", at |-> step[s].at, says |-> {k}]}]
    BY <1>0, <1>6, <2>2, AiAskMoved
  <2> QED BY <1>6, <2>1, <2>3, AiAnswers DEF AiStill
<1>7. ASSUME NEW s \in Steps, NEW q \in StepState, step' = [step EXCEPT ![s] = q],
             step[s].pc \in {"asked", "fetching"}, q.pc = "fetching", q.at = step[s].at
      PROVE  AiAsk' = AiAsk
  <2>1. AiQuestion(q) = AiAsk[s]
    BY <1>a, <1>7 DEF AiQuestion
  <2>2. AiAsk' = [AiAsk EXCEPT ![s] = AiAsk[s]]
    BY <1>0, <1>7, <2>1, AiAskMoved
  <2> QED BY <2>2 DEF AiAsk
<1>8. ASSUME NEW s \in Steps, NEW q \in StepState, step' = [step EXCEPT ![s] = q], AiStill,
             q.pc \notin {"asked", "fetching", "answered"}
      PROVE  [Ai!Recent!Next]_(Ai!Recent!recent)
  <2>1. AiAsk' = [AiAsk EXCEPT ![s] = {}]
    BY <1>0, <1>8, AiAskMoved DEF AiQuestion
  <2>2. CASE AiAsk[s] = {}
    <3>1. AiAsk' = AiAsk
      BY <2>1, <2>2 DEF AiAsk
    <3> QED BY <1>8, <3>1, AiStutters DEF AiStill
  <2>3. CASE AiAsk[s] # {}
    BY <1>8, <2>1, <2>3, AiCloses DEF AiStill
  <2> QED BY <2>2, <2>3
<1>9. ASSUME NEW s \in Steps, Ai!Lookup(s)
      PROVE  [Ai!Recent!Next]_(Ai!Recent!recent)
  <2>1. PICK q \in StepState :
            /\ step' = [step EXCEPT ![s] = q] /\ q.at = step[s].at
            /\ \/ q.pc = "fetching" /\ q.says = {}
               \/ /\ q.pc = "answered"
                  /\ \E r \in Replicas : \E e \in targets[r] :
                       q.says = {e.key} /\ step[s].at - e.fetched_at < KeyFresh
    BY <1>9, LookupDoes
  <2>2. AiStill /\ step[s].pc = "asked"
    BY <1>9, LookupDoes
  <2>3. CASE q.pc = "fetching"
    <3>1. AiAsk' = AiAsk
      BY <1>7, <2>1, <2>2, <2>3
    <3> QED BY <2>2, <3>1, AiStutters DEF AiStill
  <2>4. ASSUME q.pc = "answered", NEW r \in Replicas, NEW e \in targets[r],
               q.says = {e.key}, step[s].at - e.fetched_at < KeyFresh
        PROVE  Ai!Recent!Next
    <3>1. e.fetched_at \in Nat
      BY DEF AiInv, TargetsDated, Entry
    <3>2. step[s].at - e.fetched_at < KeyStale
      BY <1>a, <2>4, <3>1, TargetsAssumption
    <3>3. e.key \in Ai!Keys /\ keyWas[e.key] > step[s].at - KeyStale
      BY <1>a, <3>2, EntryRecent
    <3> QED BY <1>6, <2>1, <2>2, <2>4, <3>3
  <2> QED BY <2>1, <2>3, <2>4
<1>10. ASSUME NEW s \in Steps, Ai!LabServes(s)
       PROVE  [Ai!Recent!Next]_(Ai!Recent!recent)
  <2>1. PICK q \in StepState : /\ step' = [step EXCEPT ![s] = q] /\ q.pc = "fetching"
                               /\ q.at = step[s].at /\ q.says = {key'}
    BY <1>0, <1>10, LabServesDoes
  <2>2. nowA' = nowA /\ step[s].pc = "fetching"
    BY <1>0, <1>10, LabServesDoes
  <2>3. AiAsk' = AiAsk
    BY <1>7, <2>1, <2>2
  <2>4. CASE UNCHANGED <<key, minted, dead, keyWas>>
    BY <2>2, <2>3, <2>4, AiStutters
  <2>5. CASE minted' = minted + 1 /\ Ai!BecomeKey(minted')
    <3>1. key' \in Ai!Keys /\ keyWas' = [keyWas EXCEPT ![key'] = nowA]
      BY <1>0, <2>5 DEF KeyHistory, Ai!BecomeKey
    <3> QED BY <1>0, <2>2, <2>3, <3>1, AiChanges
  <2> QED BY <1>10, <2>4, <2>5 DEF Ai!LabServes
<1>11. ASSUME NEW s \in Steps, Ai!Receive(s)
       PROVE  Ai!Recent!Next
  <2>1. PICK q \in StepState : /\ step' = [step EXCEPT ![s] = q] /\ q.pc = "answered"
                               /\ q.at = step[s].at /\ q.says = step[s].says
    BY <1>11, ReceiveDoes
  <2>2. AiStill /\ step[s].pc = "fetching" /\ step[s].says # {}
    BY <1>11, ReceiveDoes
  <2>3. PICK k \in step[s].says : TRUE
    BY <2>2
  <2>4. k \in Ai!Keys /\ keyWas[k] >= step[s].at /\ step[s].says = {k}
    BY <1>0, <2>2, <2>3, StepIs DEF SoundStep
  <2>5. keyWas[k] \in Int
    BY <1>0, <2>4 DEF KeyHistory
  <2>6. keyWas[k] > step[s].at - KeyStale
    BY <1>a, <2>4, <2>5, TargetsAssumption
  <2> QED BY <1>6, <2>1, <2>2, <2>4, <2>6
<1>12. ASSUME NEW s \in Steps, Ai!FetchErr(s)
       PROVE  [Ai!Recent!Next]_(Ai!Recent!recent)
  <2>1. PICK q \in StepState :
            /\ step' = [step EXCEPT ![s] = q]
            /\ \/ q.pc = "failed"
               \/ /\ q.pc = "answered" /\ q.at = step[s].at
                  /\ \E r \in Replicas : \E e \in targets[r] :
                       q.says = {e.key} /\ step[s].at - e.fetched_at < KeyStale
    BY <1>12, FetchErrDoes
  <2>2. AiStill /\ step[s].pc = "fetching"
    BY <1>12, FetchErrDoes
  <2>3. CASE q.pc = "failed"
    BY <1>8, <2>1, <2>2, <2>3
  <2>4. ASSUME q.pc = "answered", q.at = step[s].at, NEW r \in Replicas, NEW e \in targets[r],
               q.says = {e.key}, step[s].at - e.fetched_at < KeyStale
        PROVE  Ai!Recent!Next
    <3>1. e.key \in Ai!Keys /\ keyWas[e.key] > step[s].at - KeyStale
      BY <1>a, <2>4, EntryRecent
    <3> QED BY <1>6, <2>1, <2>2, <2>4, <3>1
  <2> QED BY <2>1, <2>3, <2>4
<1>13. ASSUME NEW s \in Steps, Ai!Attached(s) \/ Ai!PluginEnds(s) \/ Ai!Retry(s)
       PROVE  [Ai!Recent!Next]_(Ai!Recent!recent)
  <2>1. PICK q \in StepState : step' = [step EXCEPT ![s] = q] /\ q.pc \in {"idle", "running", "report"}
    BY <1>13, EndDoes
  <2>2. AiStill
    BY <1>13, EndDoes
  <2> QED BY <1>8, <2>1, <2>2
<1> QED BY <1>1, <1>2, <1>3, <1>4, <1>5, <1>9, <1>10, <1>11, <1>12, <1>13 DEF Ai!Next


\* Keys that were reported are behind the account's: the Lab never goes back to one.
GoneKeys ==
    /\ key <= minted /\ raced \subseteq Steps /\ gone \in [Replicas -> SUBSET Ai!Keys]
    /\ \A r \in Replicas : \A k \in gone[r] : k <= minted /\ k # key /\ k # 0

\* Every key in a cache, in an answer or in a report was minted.
KeysMinted ==
    /\ \A r \in Replicas : \A e \in targets[r] : e.key <= minted
    /\ \A s \in Steps : \A k \in step[s].says \cup step[s].rejected : k <= minted

\* No entry and no answer on its way through a replica holds a key gone there.
NotBack ==
    /\ \A r \in Replicas : \A e \in targets[r] : e.key \notin gone[r]
    /\ \A s \in Steps : step[s].pc = "fetching" => \A r \in step[s].rep : \A k \in step[s].says : k \notin gone[r]

\* Two fetches of a replica race when one of them reports; a report that does not race keeps
\* the key it dropped out of the cache.
Alone ==
    /\ \A s \in Steps : step[s].pc \in {"asked", "fetching"} => \E r \in Replicas : step[s].rep = {r}
    /\ \A s, d \in Steps : (s # d /\ step[s].pc = "fetching" /\ step[d].pc = "fetching"
                             /\ step[s].rep = step[d].rep /\ step[s].rejected # {}) => s \in raced
    /\ \A s \in Steps : step[s].pc = "fetching" /\ s \notin raced =>
         \A r \in step[s].rep : \A e \in targets[r] : e.key \notin step[s].rejected

AiGone == GoneKeys /\ KeysMinted /\ NotBack /\ Alone

LEMMA GoneInit == Ai!Init => AiGone
<1> SUFFICES ASSUME Ai!Init PROVE AiGone
  OBVIOUS
<1>1. /\ step = [s \in Steps |-> Ai!NewStep(1)] /\ targets = [r \in Replicas |-> {}]
      /\ gone = [r \in Replicas |-> {}] /\ raced = {} /\ key \in {0, 1} /\ minted = 1
  BY DEF Ai!Init
<1>2. \A s \in Steps : step[s].pc = "idle" /\ step[s].says = {} /\ step[s].rejected = {}
  BY <1>1 DEF Ai!NewStep
<1>3. GoneKeys /\ KeysMinted
  BY <1>1, <1>2 DEF GoneKeys, KeysMinted
<1>4. NotBack
  BY <1>1, <1>2 DEF NotBack
<1>5. Alone
  BY <1>2, Zenon DEF Alone
<1> QED BY <1>3, <1>4, <1>5 DEF AiGone

\* A step that does not start a fetch, and takes nothing into the caches, keeps all this.
LEMMA GoneMoved ==
    ASSUME AiGone, StepsSound, NEW s \in Steps, NEW q \in StepState, step' = [step EXCEPT ![s] = q],
           q.pc # "fetching", q.pc = "asked" => \E r \in Replicas : q.rep = {r},
           \A k \in q.says \cup q.rejected : k <= minted, UNCHANGED <<key, minted, gone>>,
           \A r \in Replicas : targets'[r] \subseteq targets[r], raced' = raced \/ raced' = raced \ {s}
    PROVE  AiGone'
<1>1. \A d \in Steps : step'[d] = IF d = s THEN q ELSE step[d]
  BY DEF StepsSound
<1>2. GoneKeys'
  BY DEF AiGone, GoneKeys
<1>3. KeysMinted'
  BY <1>1 DEF AiGone, KeysMinted
<1>4. NotBack'
  BY <1>1 DEF AiGone, NotBack
<1>5. Alone'
  <2>1. ASSUME NEW d \in Steps, step'[d].pc \in {"asked", "fetching"}
        PROVE  \E r \in Replicas : step'[d].rep = {r}
    BY <1>1, <2>1 DEF AiGone, Alone
  <2>2. ASSUME NEW d \in Steps, step'[d].pc = "fetching"
        PROVE  step'[d] = step[d] /\ d # s /\ (d \in raced' <=> d \in raced)
    BY <1>1, <2>2
  <2>3. ASSUME NEW c \in Steps, NEW d \in Steps, c # d, step'[c].pc = "fetching", step'[d].pc = "fetching",
               step'[c].rep = step'[d].rep, step'[c].rejected # {}
        PROVE  c \in raced'
    BY <2>2, <2>3 DEF AiGone, Alone
  <2>4. ASSUME NEW d \in Steps, step'[d].pc = "fetching", d \notin raced',
               NEW r \in step'[d].rep, NEW e \in targets'[r]
        PROVE  e.key \notin step'[d].rejected
    <3>1. step'[d] = step[d] /\ d \notin raced /\ step[d].pc = "fetching"
      BY <2>2, <2>4
    <3>2. \E v \in Replicas : step[d].rep = {v}
      BY <2>4, <3>1 DEF AiGone, Alone
    <3>3. r \in step[d].rep /\ r \in Replicas /\ e \in targets[r]
      BY <2>4, <3>1, <3>2
    <3>4. \A u \in step[d].rep : \A x \in targets[u] : x.key \notin step[d].rejected
      BY <3>1 DEF AiGone, Alone
    <3> QED BY <3>1, <3>3, <3>4
  <2> QED BY <2>1, <2>3, <2>4 DEF Alone
<1> QED BY <1>2, <1>3, <1>4, <1>5 DEF AiGone

\* The Lab has another key than before: no key that is gone, since it is new, or none.
LEMMA GoneRotated ==
    ASSUME AiInv, AiGone, KeyHistory',
           \/ key' = key /\ minted' = minted
           \/ key' = 0 /\ minted' = minted
           \/ minted' = minted + 1 /\ key' = minted',
           UNCHANGED <<targets, step, raced, gone>>
    PROVE  AiGone'
<1>1. minted \in Nat /\ minted' \in Nat /\ key \in Nat /\ key' \in Ai!Keys /\ minted <= minted'
  BY DEF AiInv, KeyHistory, Ai!Keys
<1>2. \A r \in Replicas : \A k \in gone[r] : k \in Nat
  BY DEF AiGone, GoneKeys, Ai!Keys
<1>3. GoneKeys'
  BY <1>1, <1>2 DEF AiGone, GoneKeys
<1>4. KeysMinted'
  <2>1. ASSUME NEW r \in Replicas, NEW e \in targets[r]
        PROVE  e.key \in Nat /\ e.key <= minted
    BY DEF AiInv, TargetsDated, Entry, Ai!Keys, AiGone, KeysMinted
  <2>2. ASSUME NEW s \in Steps, NEW k \in step[s].says \cup step[s].rejected
        PROVE  k \in Nat /\ k <= minted
    <3>1. k \in Ai!Keys
      BY StepIs DEF AiInv
    <3> QED BY <3>1 DEF Ai!Keys, AiGone, KeysMinted
  <2> QED BY <1>1, <2>1, <2>2 DEF KeysMinted
<1>5. NotBack' /\ Alone'
  BY DEF AiGone, NotBack, Alone
<1> QED BY <1>3, <1>4, <1>5 DEF AiGone

LEMMA GoneAsk ==
    ASSUME AiInv, AiGone, NEW s \in Steps, NEW r \in Replicas, Ai!Attach(s, r) \/ Ai!Report(s, r)
    PROVE  AiGone'
<1>1. UNCHANGED <<key, minted, targets, raced, gone>>
  BY DEF Ai!Attach, Ai!Report, Ai!world, Ai!history
<1>2. nowA \in Nat
  BY DEF AiInv, KeyHistory
<1>3. \A k \in step[s].says \cup step[s].rejected : k <= minted
  BY DEF AiGone, KeysMinted
<1>4. CASE Ai!Attach(s, r)
  <2> DEFINE q == [step[s] EXCEPT !.pc = "asked", !.rep = {r}, !.at = nowA]
  <2>1. step' = [step EXCEPT ![s] = q]
    BY <1>4 DEF Ai!Attach, Ai!Set
  <2>2. /\ q \in StepState /\ q.pc = "asked" /\ q.rep = {r} /\ q.says = step[s].says
        /\ q.rejected = step[s].rejected
    BY <1>2, StepIs DEF AiInv, StepState, Ai!PCs
  <2> HIDE DEF q
  <2> QED BY <1>1, <1>3, <2>1, <2>2, GoneMoved DEF AiInv
<1>5. CASE Ai!Report(s, r)
  <2> DEFINE q == [step[s] EXCEPT !.pc = "asked", !.rep = {r}, !.at = nowA, !.rejected = step[s].says, !.says = {}]
  <2>1. step' = [step EXCEPT ![s] = q]
    BY <1>5 DEF Ai!Report, Ai!Set
  <2>2. q \in StepState /\ q.pc = "asked" /\ q.rep = {r} /\ q.says = {} /\ q.rejected = step[s].says
    BY <1>2, StepIs DEF AiInv, StepState, Ai!PCs
  <2> HIDE DEF q
  <2> QED BY <1>1, <1>3, <2>1, <2>2, GoneMoved DEF AiInv
<1> QED BY <1>4, <1>5

LEMMA GoneLookup ==
    ASSUME AiInv, AiGone, NEW s \in Steps, Ai!Lookup(s)
    PROVE  AiGone'
<1>1. UNCHANGED <<key, minted, gone>> /\ step[s].pc = "asked"
  BY DEF Ai!Lookup, Ai!world
<1>2. PICK v \in Replicas : step[s].rep = {v}
  BY <1>1 DEF AiGone, Alone
<1>3. step[s].says = {}
  BY <1>1, StepIs DEF AiInv, SoundStep
<1>4. targets \in [Replicas -> SUBSET Entry]
  BY DEF AiInv, TargetsDated
<1>5. \/ /\ targets' = targets /\ raced' = raced
         /\ \E e \in targets[v] : Ai!Set(s, [step[s] EXCEPT !.pc = "answered", !.says = {e.key}, !.via = "cache"])
      \/ /\ targets' = [targets EXCEPT ![v] = {e \in @ : e.key \notin step[s].rejected}]
         /\ Ai!Set(s, [step[s] EXCEPT !.pc = "fetching"])
         /\ raced' = raced \cup Ai!Racing(s, v)
  <2>1. PICK r \in step[s].rep :
      \/ /\ targets' = targets /\ raced' = raced
         /\ \E e \in targets[r] : Ai!Set(s, [step[s] EXCEPT !.pc = "answered", !.says = {e.key}, !.via = "cache"])
      \/ /\ targets' = [targets EXCEPT ![r] = {e \in @ : e.key \notin step[s].rejected}]
         /\ Ai!Set(s, [step[s] EXCEPT !.pc = "fetching"])
         /\ raced' = raced \cup Ai!Racing(s, r)
    BY Zenon DEF Ai!Lookup
  <2>2. r = v
    BY <1>2, <2>1
  <2> QED BY <2>1, <2>2
<1>6. ASSUME targets' = targets, raced' = raced, NEW e \in targets[v],
             Ai!Set(s, [step[s] EXCEPT !.pc = "answered", !.says = {e.key}, !.via = "cache"])
      PROVE  AiGone'
  <2> DEFINE q == [step[s] EXCEPT !.pc = "answered", !.says = {e.key}, !.via = "cache"]
  <2>1. step' = [step EXCEPT ![s] = q]
    BY <1>6 DEF Ai!Set
  <2>2. e.key \in Ai!Keys /\ e.key <= minted
    BY <1>4, <1>6 DEF Entry, AiGone, KeysMinted
  <2>3. q \in StepState /\ q.pc = "answered" /\ q.says = {e.key} /\ q.rejected = step[s].rejected
    BY <2>2, StepIs DEF AiInv, StepState, Ai!PCs
  <2>4. \A k \in step[s].rejected : k <= minted
    BY DEF AiGone, KeysMinted
  <2> HIDE DEF q
  <2> QED BY <1>1, <1>6, <2>1, <2>2, <2>3, <2>4, GoneMoved DEF AiInv
<1>7. ASSUME targets' = [targets EXCEPT ![v] = {e \in @ : e.key \notin step[s].rejected}],
             Ai!Set(s, [step[s] EXCEPT !.pc = "fetching"]), raced' = raced \cup Ai!Racing(s, v)
      PROVE  AiGone'
  <2> DEFINE q == [step[s] EXCEPT !.pc = "fetching"]
  <2>1. step' = [step EXCEPT ![s] = q]
    BY <1>7 DEF Ai!Set
  <2>2. q.pc = "fetching" /\ q.says = {} /\ q.rejected = step[s].rejected /\ q.rep = {v}
    BY <1>2, <1>3, StepIs DEF AiInv, StepState
  <2> HIDE DEF q
  <2>3. \A d \in Steps : step'[d] = IF d = s THEN q ELSE step[d]
    BY <2>1 DEF AiInv, StepsSound
  <2>4. \A r \in Replicas : targets'[r] = IF r = v THEN {e \in targets[v] : e.key \notin step[s].rejected} ELSE targets[r]
    BY <1>4, <1>7
  <2>5. raced \subseteq raced' /\ raced' \subseteq Steps
    BY <1>7 DEF Ai!Racing, Ai!Through, AiGone, GoneKeys
  <2>6. ASSUME NEW d \in Steps, d # s, step[d].pc = "fetching", step[d].rep = {v}
        PROVE  /\ step[d].rejected # {} => d \in raced'
               /\ step[s].rejected # {} => s \in raced'
    <3>1. d \in Ai!Through(v)
      BY <2>6 DEF Ai!Through
    <3> QED BY <1>7, <3>1 DEF Ai!Racing, Ai!Reporting
  <2>7. GoneKeys'
    BY <1>1, <2>5 DEF AiGone, GoneKeys
  <2>8. KeysMinted'
    BY <1>1, <2>2, <2>3, <2>4 DEF AiGone, KeysMinted
  <2>9. NotBack'
    BY <1>1, <2>2, <2>3, <2>4 DEF AiGone, NotBack
  <2>10. Alone'
    <3>1. ASSUME NEW d \in Steps, step'[d].pc \in {"asked", "fetching"}
          PROVE  \E r \in Replicas : step'[d].rep = {r}
      BY <2>2, <2>3, <3>1 DEF AiGone, Alone
    <3>2. ASSUME NEW c \in Steps, NEW d \in Steps, c # d, step'[c].pc = "fetching", step'[d].pc = "fetching",
                 step'[c].rep = step'[d].rep, step'[c].rejected # {}
          PROVE  c \in raced'
      <4>1. CASE c = s
        BY <2>2, <2>3, <2>6, <3>2, <4>1
      <4>2. CASE d = s
        BY <2>2, <2>3, <2>6, <3>2, <4>2
      <4>3. CASE c # s /\ d # s
        BY <2>3, <2>5, <3>2, <4>3 DEF AiGone, Alone
      <4> QED BY <4>1, <4>2, <4>3
    <3>3. ASSUME NEW d \in Steps, step'[d].pc = "fetching", d \notin raced',
                 NEW r \in step'[d].rep, NEW e \in targets'[r]
          PROVE  e.key \notin step'[d].rejected
      <4>1. CASE d = s
        BY <2>2, <2>3, <2>4, <3>3, <4>1
      <4>2. CASE d # s
        <5>1. step'[d] = step[d] /\ d \notin raced /\ step[d].pc = "fetching"
          BY <2>3, <2>5, <3>3, <4>2
        <5>0. \E u \in Replicas : step[d].rep = {u}
          BY <5>1 DEF AiGone, Alone
        <5>2. r \in step[d].rep /\ r \in Replicas /\ e \in targets[r]
          BY <2>4, <3>3, <5>1, <5>0
        <5>3. \A u \in step[d].rep : \A x \in targets[u] : x.key \notin step[d].rejected
          BY <5>1 DEF AiGone, Alone
        <5> QED BY <5>1, <5>2, <5>3
      <4> QED BY <4>1, <4>2
    <3> QED BY <3>1, <3>2, <3>3 DEF Alone
  <2> QED BY <2>7, <2>8, <2>9, <2>10 DEF AiGone
<1> QED BY <1>5, <1>6, <1>7

LEMMA GoneServed ==
    ASSUME AiInv, AiGone, KeyHistory', NEW s \in Steps, Ai!LabServes(s)
    PROVE  AiGone'
<1> DEFINE q == [step[s] EXCEPT !.says = {key'}]
<1>1. /\ targets' = targets /\ raced' = raced /\ step[s].pc = "fetching" /\ step' = [step EXCEPT ![s] = q]
      /\ gone' = [r \in Replicas |-> IF r \in step[s].rep /\ s \notin raced
                                       THEN gone[r] \cup (step[s].rejected \ {0, key'}) ELSE gone[r]]
  BY DEF Ai!LabServes, Ai!Set
<1>2. key' \in Ai!Keys /\ minted \in Nat /\ minted' \in Nat /\ key \in Nat
  BY DEF AiInv, KeyHistory, Ai!Keys
<1>3. /\ q.pc = "fetching" /\ q.says = {key'} /\ q.rejected = step[s].rejected /\ q.rep = step[s].rep
  BY <1>1, StepIs DEF AiInv, StepState
<1> HIDE DEF q
<1>4. \A d \in Steps : step'[d] = IF d = s THEN q ELSE step[d]
  BY <1>1 DEF AiInv, StepsSound
<1>5. \/ key' = key /\ minted' = minted
      \/ key' = minted' /\ minted' = minted + 1
  BY DEF Ai!LabServes, Ai!BecomeKey
<1>6. minted <= minted' /\ key' <= minted' /\ key' \in Nat
  BY <1>2, <1>5 DEF AiGone, GoneKeys
<1>7. PICK v \in Replicas : step[s].rep = {v}
  BY <1>1 DEF AiGone, Alone
<1>8. \A r \in Replicas : \A k \in gone'[r] :
         k \in gone[r] \/ (r = v /\ s \notin raced /\ k \in step[s].rejected /\ k # 0 /\ k # key')
  BY <1>1, <1>7
<1>9. \A k \in step[s].rejected : k \in Nat /\ k <= minted
  <2>1. ASSUME NEW k \in step[s].rejected
        PROVE  k \in Nat /\ k <= minted
    BY StepIs DEF AiInv, Ai!Keys, AiGone, KeysMinted
  <2> QED BY <2>1
<1>10. ASSUME NEW r \in Replicas, NEW k \in gone[r]
       PROVE  k \in Nat /\ k <= minted /\ k # key /\ k # 0 /\ k <= minted' /\ k # key'
  <2>1. k \in Nat /\ k <= minted /\ k # key /\ k # 0
    BY DEF AiGone, GoneKeys, Ai!Keys
  <2> QED BY <1>2, <1>5, <1>6, <2>1
<1>11. GoneKeys'
  <2>1. gone' \in [Replicas -> SUBSET Ai!Keys]
    <3>1. step[s].rejected \subseteq Ai!Keys
      BY StepIs DEF AiInv
    <3> QED BY <1>1, <3>1 DEF AiGone, GoneKeys
  <2>2. ASSUME NEW r \in Replicas, NEW k \in gone'[r]
        PROVE  k <= minted' /\ k # key' /\ k # 0
    BY <1>2, <1>6, <1>8, <1>9, <1>10, <2>2
  <2> QED BY <1>1, <1>6, <2>1, <2>2 DEF AiGone, GoneKeys
<1>12. KeysMinted'
  <2>1. ASSUME NEW r \in Replicas, NEW e \in targets'[r]
        PROVE  e.key <= minted'
    <3>1. e.key \in Nat /\ e.key <= minted
      BY <1>1, <2>1 DEF AiInv, TargetsDated, Entry, Ai!Keys, AiGone, KeysMinted
    <3> QED BY <1>2, <1>6, <3>1
  <2>2. ASSUME NEW d \in Steps, NEW k \in step'[d].says \cup step'[d].rejected
        PROVE  k <= minted'
    <3>1. CASE d = s
      BY <1>2, <1>3, <1>4, <1>6, <1>9, <2>2, <3>1
    <3>2. CASE d # s
      <4>1. k \in step[d].says \cup step[d].rejected
        BY <1>4, <2>2, <3>2
      <4>2. k \in Nat /\ k <= minted
        BY <4>1, StepIs DEF AiInv, Ai!Keys, AiGone, KeysMinted
      <4> QED BY <1>2, <1>6, <4>2
    <3> QED BY <3>1, <3>2
  <2> QED BY <2>1, <2>2 DEF KeysMinted
<1>13. NotBack'
  <2>1. ASSUME NEW r \in Replicas, NEW e \in targets'[r]
        PROVE  e.key \notin gone'[r]
    <3>1. e \in targets[r] /\ e.key \notin gone[r]
      BY <1>1, <2>1 DEF AiGone, NotBack
    <3>2. r = v /\ s \notin raced => e.key \notin step[s].rejected
      BY <1>1, <1>7, <3>1 DEF AiGone, Alone
    <3> QED BY <1>8, <3>1, <3>2
  <2>2. ASSUME NEW d \in Steps, step'[d].pc = "fetching", NEW r \in step'[d].rep, NEW k \in step'[d].says
        PROVE  k \notin gone'[r]
    <3>1. CASE d = s
      <4>1. r \in Replicas /\ k = key'
        BY <1>3, <1>4, <1>7, <2>2, <3>1
      <4> QED BY <1>8, <1>10, <4>1
    <3>2. CASE d # s
      <4>1. step'[d] = step[d] /\ \E u \in Replicas : step[d].rep = {u}
        BY <1>4, <2>2, <3>2 DEF AiGone, Alone
      <4>2. r \in Replicas /\ k \notin gone[r]
        BY <2>2, <4>1 DEF AiGone, NotBack
      <4>3. r = v /\ step[s].rejected # {} => s \in raced
        BY <1>1, <1>7, <2>2, <3>2, <4>1 DEF AiGone, Alone
      <4> QED BY <1>8, <4>2, <4>3
    <3> QED BY <3>1, <3>2
  <2> QED BY <2>1, <2>2 DEF NotBack
<1>14. Alone'
  <2>1. \A d \in Steps : step'[d].pc = step[d].pc /\ step'[d].rep = step[d].rep /\ step'[d].rejected = step[d].rejected
    BY <1>1, <1>3, <1>4
  <2> QED BY <1>1, <2>1 DEF AiGone, Alone
<1> QED BY <1>11, <1>12, <1>13, <1>14 DEF AiGone

LEMMA GoneReceived ==
    ASSUME AiInv, AiGone, NEW s \in Steps, Ai!Receive(s)
    PROVE  AiGone'
<1> DEFINE q == [step[s] EXCEPT !.pc = "answered", !.via = "lab"]
<1>1. /\ step[s].pc = "fetching" /\ step' = [step EXCEPT ![s] = q] /\ UNCHANGED <<key, minted, gone>>
      /\ raced' = raced \ {s}
      /\ targets' = [r \in Replicas |-> IF r \in step[s].rep
            THEN {[fetched_at |-> step[s].at, key |-> k] : k \in step[s].says \ {0}} ELSE targets[r]]
  BY DEF Ai!Receive, Ai!Set, Ai!world
<1>2. q.pc = "answered" /\ q.says = step[s].says /\ q.rejected = step[s].rejected /\ q.rep = step[s].rep
  BY StepIs DEF AiInv, StepState
<1> HIDE DEF q
<1>3. \A d \in Steps : step'[d] = IF d = s THEN q ELSE step[d]
  BY <1>1 DEF AiInv, StepsSound
<1>4. PICK v \in Replicas : step[s].rep = {v}
  BY <1>1 DEF AiGone, Alone
<1>5. \A r \in Replicas : \A e \in targets'[r] : (r = v /\ e.key \in step[s].says) \/ (r # v /\ e \in targets[r])
  BY <1>1, <1>4
<1>6. GoneKeys'
  BY <1>1 DEF AiGone, GoneKeys
<1>7. KeysMinted'
  BY <1>1, <1>2, <1>3, <1>5 DEF AiGone, KeysMinted
<1>8. NotBack'
  BY <1>1, <1>2, <1>3, <1>4, <1>5 DEF AiGone, NotBack
<1>9. Alone'
  <2>1. ASSUME NEW d \in Steps, step'[d].pc \in {"asked", "fetching"}
        PROVE  \E r \in Replicas : step'[d].rep = {r}
    BY <1>2, <1>3, <2>1 DEF AiGone, Alone
  <2>2. ASSUME NEW d \in Steps, step'[d].pc = "fetching"
        PROVE  step'[d] = step[d] /\ d # s /\ (d \in raced' <=> d \in raced)
    BY <1>1, <1>2, <1>3, <2>2
  <2>3. ASSUME NEW c \in Steps, NEW d \in Steps, c # d, step'[c].pc = "fetching", step'[d].pc = "fetching",
               step'[c].rep = step'[d].rep, step'[c].rejected # {}
        PROVE  c \in raced'
    BY <2>2, <2>3 DEF AiGone, Alone
  <2>4. ASSUME NEW d \in Steps, step'[d].pc = "fetching", d \notin raced',
               NEW r \in step'[d].rep, NEW e \in targets'[r]
        PROVE  e.key \notin step'[d].rejected
    <3>1. step'[d] = step[d] /\ d # s /\ d \notin raced /\ step[d].pc = "fetching"
      BY <2>2, <2>4
    <3>2. PICK u \in Replicas : step[d].rep = {u}
      BY <3>1 DEF AiGone, Alone
    <3>3. CASE u = v
      BY <1>1, <1>4, <2>4, <3>1, <3>2, <3>3 DEF AiGone, Alone
    <3>4. CASE u # v
      <4>1. r = u /\ e \in targets[r]
        BY <1>5, <2>4, <3>1, <3>2, <3>4
      <4> QED BY <3>1, <3>2, <4>1 DEF AiGone, Alone
    <3> QED BY <3>3, <3>4
  <2> QED BY <2>1, <2>3, <2>4 DEF Alone
<1> QED BY <1>6, <1>7, <1>8, <1>9 DEF AiGone

LEMMA GoneFailed ==
    ASSUME AiInv, AiGone, NEW s \in Steps, Ai!FetchErr(s)
    PROVE  AiGone'
<1>1. UNCHANGED <<key, minted, targets, gone>> /\ raced' = raced \ {s} /\ step[s].pc = "fetching"
  BY DEF Ai!FetchErr, Ai!world
<1>2. targets \in [Replicas -> SUBSET Entry]
  BY DEF AiInv, TargetsDated
<1>3. PICK r \in step[s].rep :
        \/ \E e \in targets[r] : Ai!Set(s, [step[s] EXCEPT !.pc = "answered", !.says = {e.key}, !.via = "stale"])
        \/ Ai!Set(s, [Ai!NewStep(step[s].attempt) EXCEPT !.pc = "failed"])
  BY Zenon DEF Ai!FetchErr
<1>4. r \in Replicas
  BY StepIs DEF AiInv
<1>5. ASSUME NEW e \in targets[r], Ai!Set(s, [step[s] EXCEPT !.pc = "answered", !.says = {e.key}, !.via = "stale"])
      PROVE  AiGone'
  <2> DEFINE q == [step[s] EXCEPT !.pc = "answered", !.says = {e.key}, !.via = "stale"]
  <2>1. step' = [step EXCEPT ![s] = q]
    BY <1>5 DEF Ai!Set
  <2>2. e.key \in Ai!Keys /\ e.key <= minted
    BY <1>2, <1>4, <1>5 DEF Entry, AiGone, KeysMinted
  <2>3. q \in StepState /\ q.pc = "answered" /\ q.says = {e.key} /\ q.rejected = step[s].rejected
    BY <2>2, StepIs DEF AiInv, StepState, Ai!PCs
  <2>4. \A k \in step[s].rejected : k <= minted
    BY DEF AiGone, KeysMinted
  <2> HIDE DEF q
  <2> QED BY <1>1, <2>1, <2>2, <2>3, <2>4, GoneMoved DEF AiInv
<1>6. CASE Ai!Set(s, [Ai!NewStep(step[s].attempt) EXCEPT !.pc = "failed"])
  <2> DEFINE q == [Ai!NewStep(step[s].attempt) EXCEPT !.pc = "failed"]
  <2>1. q \in StepState /\ q.pc = "failed" /\ q.says = {} /\ q.rejected = {}
    BY StepIs DEF AiInv, StepState, Ai!NewStep, Ai!PCs
  <2>2. step' = [step EXCEPT ![s] = q]
    BY <1>6 DEF Ai!Set
  <2> HIDE DEF q
  <2> QED BY <1>1, <2>1, <2>2, GoneMoved DEF AiInv
<1> QED BY <1>3, <1>5, <1>6

LEMMA GoneEnds ==
    ASSUME AiInv, AiGone, NEW s \in Steps, Ai!Attached(s) \/ Ai!PluginEnds(s) \/ Ai!Retry(s)
    PROVE  AiGone'
<1>1. UNCHANGED <<key, minted, targets, raced, gone>>
  BY DEF Ai!Attached, Ai!PluginEnds, Ai!Retry, Ai!world, Ai!history
<1>2. \A k \in step[s].says \cup step[s].rejected : k <= minted
  BY DEF AiGone, KeysMinted
<1>3. ASSUME NEW q \in StepState, step' = [step EXCEPT ![s] = q], q.pc \notin {"asked", "fetching"},
             q.says \cup q.rejected \subseteq step[s].says \cup step[s].rejected
      PROVE  AiGone'
  BY <1>1, <1>2, <1>3, GoneMoved DEF AiInv
<1>4. ASSUME NEW n \in Nat, step' = [step EXCEPT ![s] = Ai!NewStep(n)]
      PROVE  AiGone'
  <2> DEFINE q == Ai!NewStep(n)
  <2>1. q \in StepState /\ q.pc = "idle" /\ q.says = {} /\ q.rejected = {}
    BY DEF StepState, Ai!NewStep, Ai!PCs
  <2>2. step' = [step EXCEPT ![s] = q]
    BY <1>4
  <2> HIDE DEF q
  <2> QED BY <1>3, <2>1, <2>2
<1>5. ASSUME step' = [step EXCEPT ![s] = [Ai!NewStep(step[s].attempt) EXCEPT !.pc = "running", !.says = step[s].says]]
      PROVE  AiGone'
  <2> DEFINE q == [Ai!NewStep(step[s].attempt) EXCEPT !.pc = "running", !.says = step[s].says]
  <2>1. q \in StepState /\ q.pc = "running" /\ q.says = step[s].says /\ q.rejected = {}
    BY StepIs DEF AiInv, StepState, Ai!NewStep, Ai!PCs
  <2>2. step' = [step EXCEPT ![s] = q]
    BY <1>5
  <2> HIDE DEF q
  <2> QED BY <1>3, <2>1, <2>2
<1>6. ASSUME step' = [step EXCEPT ![s] = [step[s] EXCEPT !.pc = "report"]]
      PROVE  AiGone'
  <2> DEFINE q == [step[s] EXCEPT !.pc = "report"]
  <2>1. q \in StepState /\ q.pc = "report" /\ q.says = step[s].says /\ q.rejected = step[s].rejected
    BY StepIs DEF AiInv, StepState, Ai!PCs
  <2>2. step' = [step EXCEPT ![s] = q]
    BY <1>6
  <2> HIDE DEF q
  <2> QED BY <1>3, <2>1, <2>2
<1>7. step[s].attempt \in Nat /\ (IF step[s].attempt < MaxAttempts THEN step[s].attempt + 1 ELSE 1) \in Nat
  BY StepIs DEF AiInv
<1>8. CASE Ai!Attached(s)
  BY <1>4, <1>5, <1>8 DEF Ai!Attached, Ai!Set
<1>9. CASE Ai!PluginEnds(s)
  BY <1>4, <1>6, <1>9 DEF Ai!PluginEnds, Ai!Set
<1>10. CASE Ai!Retry(s)
  BY <1>4, <1>7, <1>10 DEF Ai!Retry, Ai!Set
<1> QED BY <1>8, <1>9, <1>10

LEMMA GoneStep ==
    ASSUME AiInv, AiGone, [Ai!Next]_(Ai!vars)
    PROVE  AiGone'
<1>0. KeyHistory'
  BY KeyHistoryStep DEF AiInv
<1>1. CASE \/ Ai!Tick \/ Ai!Revoke \/ UNCHANGED Ai!vars
  <2>1. UNCHANGED <<key, minted, targets, step, raced, gone>>
    BY <1>1 DEF Ai!Tick, Ai!Revoke, Ai!vars, Ai!history
  <2> QED BY <1>0, <2>1, GoneRotated
<1>2. CASE Ai!Rotate \/ Ai!RemoveGateway
  <2>1. UNCHANGED <<targets, step, raced, gone>>
    BY <1>2 DEF Ai!Rotate, Ai!RemoveGateway, Ai!history
  <2>2. (key' = 0 /\ minted' = minted) \/ (minted' = minted + 1 /\ key' = minted')
    BY <1>2 DEF Ai!Rotate, Ai!RemoveGateway, Ai!BecomeKey
  <2> QED BY <1>0, <2>1, <2>2, GoneRotated
<1> QED BY <1>0, <1>1, <1>2, GoneAsk, GoneLookup, GoneServed, GoneReceived, GoneFailed, GoneEnds DEF Ai!Next
----------------------------------------------------------------------------
(* The Lab credit check. *)

Balance == [fetched_at: Nat, lookup: BOOLEAN]
CallState == [pc: Credits!PCs, of: Accounts \cup {""}, at: Nat, says: SUBSET BOOLEAN]

\* The Lab's history is up to date: what holds of an account now holds at this moment.
BalanceHistory ==
    /\ nowC \in Nat /\ canSpend \in [LabAccounts -> BOOLEAN] /\ balanceWas \in [LabAccounts -> [BOOLEAN -> Int]]
    /\ \A a \in LabAccounts : /\ balanceWas[a][canSpend[a]] = nowC
                              /\ \A b \in BOOLEAN : balanceWas[a][b] <= nowC

\* A cached balance was true when, or after, its entry is dated.
BalancesDated ==
    /\ accounts \in [LabAccounts -> SUBSET Balance]
    /\ \A a \in LabAccounts : \A e \in accounts[a] : balanceWas[a][e.lookup] >= e.fetched_at

\* A call past its lookup is about a Lab account; what the Lab answered it was true after it
\* read the clock.
SoundCall(t, was, n) ==
    /\ t.at <= n
    /\ t.pc \in {"read", "fetching", "ok", "err"} => t.of \in LabAccounts
    /\ t.pc \in {"asked", "read"} => t.says = {}
    /\ t.pc = "ok" => t.says # {}
    /\ t.pc \in {"fetching", "ok"} => \A v \in t.says : was[t.of][v] >= t.at /\ t.says = {v}

CallsSound ==
    /\ call \in [Calls -> CallState]
    /\ \A c \in Calls : SoundCall(call[c], balanceWas, nowC)

CreditsInv == BalanceHistory /\ BalancesDated /\ CallsSound

LEMMA IdleSound ==
    ASSUME NEW was, NEW now \in Nat
    PROVE  Credits!Idle \in CallState /\ Credits!Idle.pc = "idle" /\ SoundCall(Credits!Idle, was, now)
BY DEF Credits!Idle, CallState, SoundCall, Credits!PCs

LEMMA CreditsInit == Credits!Init => CreditsInv
<1> SUFFICES ASSUME Credits!Init PROVE CreditsInv
  OBVIOUS
<1>1. BalanceHistory
  <2>1. nowC = 0 /\ canSpend \in [LabAccounts -> BOOLEAN] /\
        balanceWas = [a \in LabAccounts |-> [b \in BOOLEAN |-> IF b = canSpend[a] THEN 0 ELSE -STALE_FOR]]
    BY DEF Credits!Init
  <2>2. -STALE_FOR \in Int /\ -STALE_FOR <= 0
    BY CreditsAssumption
  <2>3. ASSUME NEW a \in LabAccounts
        PROVE  /\ balanceWas[a] \in [BOOLEAN -> Int] /\ balanceWas[a][canSpend[a]] = 0
               /\ \A b \in BOOLEAN : balanceWas[a][b] <= 0
    <3>1. balanceWas[a] = [b \in BOOLEAN |-> IF b = canSpend[a] THEN 0 ELSE -STALE_FOR] /\ canSpend[a] \in BOOLEAN
      BY <2>1
    <3> QED BY <2>2, <3>1
  <2> QED BY <2>1, <2>3 DEF BalanceHistory
<1>2. BalancesDated
  BY DEF Credits!Init, BalancesDated
<1>3. CallsSound
  BY IdleSound DEF Credits!Init, CallsSound
<1> QED BY <1>1, <1>2, <1>3 DEF CreditsInv

\* History only grows.
LEMMA BalanceHistoryStep ==
    ASSUME BalanceHistory, [Credits!Next]_(Credits!vars)
    PROVE  /\ BalanceHistory' /\ nowC <= nowC'
           /\ \A a \in LabAccounts : \A b \in BOOLEAN : balanceWas[a][b] <= balanceWas'[a][b]
<1>1. CASE UNCHANGED <<nowC, canSpend, balanceWas>>
  BY <1>1 DEF BalanceHistory
<1>2. CASE Credits!Tick
  <2>1. nowC' = nowC + 1 /\ canSpend' = canSpend
        /\ balanceWas' = [a \in LabAccounts |-> [balanceWas[a] EXCEPT ![canSpend[a]] = nowC']]
    BY <1>2 DEF Credits!Tick
  <2>2. nowC \in Nat /\ canSpend \in [LabAccounts -> BOOLEAN]
    BY DEF BalanceHistory
  <2>3. ASSUME NEW a \in LabAccounts
        PROVE  /\ balanceWas'[a] \in [BOOLEAN -> Int] /\ balanceWas'[a][canSpend[a]] = nowC'
               /\ \A b \in BOOLEAN : balanceWas'[a][b] <= nowC' /\ balanceWas[a][b] <= balanceWas'[a][b]
    <3>1. balanceWas'[a] = [balanceWas[a] EXCEPT ![canSpend[a]] = nowC'] /\ balanceWas[a] \in [BOOLEAN -> Int]
      BY <2>1 DEF BalanceHistory
    <3>2. \A b \in BOOLEAN : balanceWas[a][b] <= nowC /\ balanceWas[a][b] \in Int
      BY <3>1 DEF BalanceHistory
    <3> QED BY <2>1, <2>2, <3>1, <3>2
  <2> QED BY <2>1, <2>2, <2>3 DEF BalanceHistory
<1>3. ASSUME NEW d \in LabAccounts, Credits!Spend(d)
      PROVE  /\ BalanceHistory' /\ nowC <= nowC'
             /\ \A a \in LabAccounts : \A b \in BOOLEAN : balanceWas[a][b] <= balanceWas'[a][b]
  <2>1. nowC' = nowC /\ canSpend' = [canSpend EXCEPT ![d] = ~canSpend[d]]
        /\ balanceWas' = [balanceWas EXCEPT ![d] = [balanceWas[d] EXCEPT ![~canSpend[d]] = nowC]]
    BY <1>3 DEF Credits!Spend
  <2>2. nowC \in Nat /\ canSpend \in [LabAccounts -> BOOLEAN]
    BY DEF BalanceHistory
  <2>3. ASSUME NEW a \in LabAccounts
        PROVE  /\ balanceWas'[a] \in [BOOLEAN -> Int] /\ balanceWas'[a][canSpend'[a]] = nowC
               /\ \A b \in BOOLEAN : balanceWas'[a][b] <= nowC /\ balanceWas[a][b] <= balanceWas'[a][b]
    <3>0. balanceWas[a] \in [BOOLEAN -> Int] /\ balanceWas[a][canSpend[a]] = nowC
          /\ \A b \in BOOLEAN : balanceWas[a][b] <= nowC /\ balanceWas[a][b] \in Int
      BY DEF BalanceHistory
    <3>1. CASE a = d
      <4>1. balanceWas'[a] = [balanceWas[a] EXCEPT ![~canSpend[a]] = nowC] /\ canSpend'[a] = ~canSpend[a]
        BY <2>1, <2>2, <3>1 DEF BalanceHistory
      <4>2. (~canSpend[a]) \in BOOLEAN
        BY <2>2
      <4> QED BY <2>2, <3>0, <4>1, <4>2
    <3>2. CASE a # d
      BY <2>1, <2>2, <3>0, <3>2 DEF BalanceHistory
    <3> QED BY <3>1, <3>2
  <2>4. canSpend' \in [LabAccounts -> BOOLEAN] /\ balanceWas' \in [LabAccounts -> [BOOLEAN -> Int]]
    BY <2>1, <2>2, <2>3 DEF BalanceHistory
  <2> QED BY <2>1, <2>2, <2>3, <2>4 DEF BalanceHistory
<1>4. ASSUME NEW c \in Calls,
             \/ \E a \in Accounts : Credits!Check(c, a)
             \/ Credits!Lookup(c) \/ Credits!Decide(c) \/ Credits!LabAnswers(c) \/ Credits!FetchOk(c)
             \/ Credits!FetchErr(c) \/ Credits!Store(c) \/ Credits!Fallback(c) \/ Credits!Return(c)
      PROVE  UNCHANGED <<nowC, canSpend, balanceWas>>
  BY <1>4 DEF Credits!Check, Credits!Lookup, Credits!Decide, Credits!LabAnswers, Credits!FetchOk,
     Credits!FetchErr, Credits!Store, Credits!Fallback, Credits!Return
<1> QED BY <1>1, <1>2, <1>3, <1>4 DEF Credits!Next, Credits!vars, Credits!ConfirmIdentity

LEMMA SoundCallGrows ==
    ASSUME NEW t \in CallState, NEW was \in [LabAccounts -> [BOOLEAN -> Int]],
           NEW was2 \in [LabAccounts -> [BOOLEAN -> Int]], NEW n \in Nat, NEW n2 \in Nat, n <= n2,
           \A a \in LabAccounts : \A b \in BOOLEAN : was[a][b] <= was2[a][b], SoundCall(t, was, n)
    PROVE  SoundCall(t, was2, n2)
<1>1. t.at \in Nat /\ t.says \in SUBSET BOOLEAN
  BY DEF CallState
<1>2. ASSUME t.pc \in {"fetching", "ok"}, NEW v \in t.says
      PROVE  was2[t.of][v] >= t.at /\ t.says = {v}
  <2>1. t.of \in LabAccounts /\ was[t.of][v] >= t.at /\ t.says = {v}
    BY <1>2 DEF SoundCall
  <2>2. was[t.of][v] \in Int /\ was2[t.of][v] \in Int /\ was[t.of][v] <= was2[t.of][v]
    BY <1>1, <2>1
  <2> QED BY <1>1, <2>1, <2>2
<1> QED BY <1>1, <1>2 DEF SoundCall

\* A call moves alone.
LEMMA CallMoved ==
    ASSUME BalanceHistory, CallsSound, BalanceHistory', nowC <= nowC',
           \A a \in LabAccounts : \A b \in BOOLEAN : balanceWas[a][b] <= balanceWas'[a][b],
           NEW c \in Calls, NEW q \in CallState, call' = [call EXCEPT ![c] = q],
           SoundCall(q, balanceWas', nowC')
    PROVE  CallsSound'
<1>1. call' \in [Calls -> CallState]
  BY DEF CallsSound
<1>2. ASSUME NEW d \in Calls
      PROVE  SoundCall(call'[d], balanceWas', nowC')
  <2>1. CASE d = c
    BY <2>1 DEF CallsSound
  <2>2. CASE d # c
    <3>1. call'[d] = call[d] /\ call[d] \in CallState /\ SoundCall(call[d], balanceWas, nowC)
      BY <2>2 DEF CallsSound
    <3> QED BY <3>1, SoundCallGrows DEF BalanceHistory
  <2> QED BY <2>1, <2>2
<1> QED BY <1>1, <1>2 DEF CallsSound, SoundCall

LEMMA CallsStill ==
    ASSUME BalanceHistory, CallsSound, BalanceHistory', nowC <= nowC',
           \A a \in LabAccounts : \A b \in BOOLEAN : balanceWas[a][b] <= balanceWas'[a][b], call' = call
    PROVE  CallsSound'
<1>1. ASSUME NEW d \in Calls
      PROVE  SoundCall(call'[d], balanceWas', nowC')
  BY SoundCallGrows DEF BalanceHistory, CallsSound
<1> QED BY <1>1 DEF CallsSound, SoundCall

LEMMA BalancesStill ==
    ASSUME BalanceHistory, BalancesDated, BalanceHistory', accounts' = accounts,
           \A a \in LabAccounts : \A b \in BOOLEAN : balanceWas[a][b] <= balanceWas'[a][b]
    PROVE  BalancesDated'
<1>1. ASSUME NEW a \in LabAccounts, NEW e \in accounts[a]
      PROVE  balanceWas'[a][e.lookup] >= e.fetched_at
  <2>1. e.lookup \in BOOLEAN /\ e.fetched_at \in Nat /\ balanceWas[a][e.lookup] >= e.fetched_at
    BY DEF BalancesDated, Balance
  <2>2. balanceWas[a][e.lookup] \in Int /\ balanceWas'[a][e.lookup] \in Int
        /\ balanceWas[a][e.lookup] <= balanceWas'[a][e.lookup]
    BY <2>1 DEF BalanceHistory
  <2> QED BY <2>1, <2>2
<1> QED BY <1>1 DEF BalancesDated

LEMMA CallIs ==
    ASSUME CallsSound, NEW c \in Calls
    PROVE  /\ call[c] \in CallState /\ SoundCall(call[c], balanceWas, nowC)
           /\ call[c].at \in Nat /\ call[c].says \subseteq BOOLEAN /\ call[c].of \in Accounts \cup {""}
BY DEF CallsSound, CallState

\* What each action makes of its call: q is the call's new record.
CreditsStill == UNCHANGED <<nowC, canSpend, balanceWas>>

LEMMA CheckDoes ==
    ASSUME CreditsInv, NEW c \in Calls, NEW a \in Accounts, Credits!Check(c, a)
    PROVE  /\ CreditsStill /\ accounts' = accounts /\ call[c].pc = "idle"
           /\ \E q \in CallState : /\ call' = [call EXCEPT ![c] = q]
                                   /\ q.pc = "asked" /\ q.of = a /\ q.at = nowC /\ q.says = {}
<1> DEFINE q == [[Credits!Idle EXCEPT !.of = a, !.at = nowC] EXCEPT !.pc = "asked"]
<1>1. CreditsStill /\ accounts' = accounts /\ call[c].pc = "idle" /\ call' = [call EXCEPT ![c] = q]
  BY DEF Credits!Check, Credits!Goto, CreditsStill
<1>2. nowC \in Nat
  BY DEF CreditsInv, BalanceHistory
<1>3. q \in CallState /\ q.pc = "asked" /\ q.of = a /\ q.at = nowC /\ q.says = {}
  BY <1>2 DEF Credits!Idle, CallState, Credits!PCs
<1> HIDE DEF q
<1> QED BY <1>1, <1>3

LEMMA LookupAccountDoes ==
    ASSUME CreditsInv, NEW c \in Calls, Credits!Lookup(c)
    PROVE  /\ CreditsStill /\ accounts' = accounts /\ call[c].pc = "asked"
           /\ \E q \in CallState :
                /\ call' = [call EXCEPT ![c] = q] /\ q.of = call[c].of /\ q.at = call[c].at
                /\ \/ call[c].of \notin LabAccounts /\ q.pc = "answered"
                   \/ call[c].of \in LabAccounts /\ q.pc \in {"refused", "read"} /\ q.says = {}
                   \/ /\ call[c].of \in LabAccounts /\ q.pc = "answered"
                      /\ \E e \in accounts[call[c].of] : q.says = {e.lookup} /\ call[c].at - e.fetched_at < FRESH_FOR
<1>1. CreditsStill /\ accounts' = accounts /\ call[c].pc = "asked"
  BY DEF Credits!Lookup, CreditsStill
<1>2. CallsSound /\ call[c].says = {}
  BY <1>1, CallIs DEF CreditsInv, SoundCall
<1>3. CASE call[c].of \notin LabAccounts /\ Credits!Goto(c, "answered", [call[c] EXCEPT !.says = {TRUE}])
  <2> DEFINE q == [[call[c] EXCEPT !.says = {TRUE}] EXCEPT !.pc = "answered"]
  <2>1. q \in CallState /\ q.pc = "answered" /\ q.of = call[c].of /\ q.at = call[c].at
    BY <1>2, CallIs DEF CallState, Credits!PCs
  <2>2. call' = [call EXCEPT ![c] = q]
    BY <1>3 DEF Credits!Goto
  <2> HIDE DEF q
  <2> QED BY <1>1, <1>3, <2>1, <2>2
<1>4. ASSUME call[c].of \in LabAccounts, NEW p \in {"refused", "read"}, Credits!Goto(c, p, call[c])
      PROVE  \E q \in CallState : /\ call' = [call EXCEPT ![c] = q] /\ q.of = call[c].of /\ q.at = call[c].at
                                  /\ q.pc \in {"refused", "read"} /\ q.says = {}
  <2> DEFINE q == [call[c] EXCEPT !.pc = p]
  <2>1. q \in CallState /\ q.pc = p /\ q.of = call[c].of /\ q.at = call[c].at /\ q.says = {}
    BY <1>2, <1>4, CallIs DEF CallState, Credits!PCs
  <2>2. call' = [call EXCEPT ![c] = q]
    BY <1>4 DEF Credits!Goto
  <2> HIDE DEF q
  <2> QED BY <2>1, <2>2
<1>5. ASSUME call[c].of \in LabAccounts, NEW e \in accounts[call[c].of], call[c].at - e.fetched_at < FRESH_FOR,
             Credits!Goto(c, "answered", [call[c] EXCEPT !.says = {e.lookup}])
      PROVE  \E q \in CallState : /\ call' = [call EXCEPT ![c] = q] /\ q.of = call[c].of /\ q.at = call[c].at
                                  /\ q.pc = "answered" /\ q.says = {e.lookup}
  <2> DEFINE q == [[call[c] EXCEPT !.says = {e.lookup}] EXCEPT !.pc = "answered"]
  <2>1. {e.lookup} \in SUBSET BOOLEAN
    BY <1>5 DEF CreditsInv, BalancesDated, Balance
  <2>2. q \in CallState /\ q.pc = "answered" /\ q.of = call[c].of /\ q.at = call[c].at /\ q.says = {e.lookup}
    BY <1>2, <2>1, CallIs DEF CallState, Credits!PCs
  <2>3. call' = [call EXCEPT ![c] = q]
    BY <1>5 DEF Credits!Goto
  <2> HIDE DEF q
  <2> QED BY <2>2, <2>3
<1>6. \/ call[c].of \notin LabAccounts /\ Credits!Goto(c, "answered", [call[c] EXCEPT !.says = {TRUE}])
      \/ call[c].of \in LabAccounts /\ \E p \in {"refused", "read"} : Credits!Goto(c, p, call[c])
      \/ call[c].of \in LabAccounts /\ \E e \in accounts[call[c].of] :
           call[c].at - e.fetched_at < FRESH_FOR /\ Credits!Goto(c, "answered", [call[c] EXCEPT !.says = {e.lookup}])
  BY Zenon DEF Credits!Lookup, Credits!Fresh
<1>7. CASE call[c].of \in LabAccounts /\ \E p \in {"refused", "read"} : Credits!Goto(c, p, call[c])
  BY <1>1, <1>4, <1>7
<1>8. CASE call[c].of \in LabAccounts /\ \E e \in accounts[call[c].of] :
           call[c].at - e.fetched_at < FRESH_FOR /\ Credits!Goto(c, "answered", [call[c] EXCEPT !.says = {e.lookup}])
  BY <1>1, <1>5, <1>8
<1> QED BY <1>3, <1>6, <1>7, <1>8

\* The waiting for the Lab: the question stays open.
LEMMA WaitDoes ==
    ASSUME CreditsInv, NEW c \in Calls,
           Credits!Decide(c) \/ Credits!LabAnswers(c) \/ Credits!FetchOk(c) \/ Credits!FetchErr(c)
    PROVE  /\ CreditsStill /\ accounts' = accounts
           /\ call[c].pc \in {"read", "fetching"} /\ call[c].of \in LabAccounts
           /\ \E q \in CallState :
                /\ call' = [call EXCEPT ![c] = q] /\ q.of = call[c].of /\ q.at = call[c].at
                /\ q.pc \in {"fetching", "ok", "err"} /\ SoundCall(q, balanceWas, nowC)
<1>1. CreditsStill /\ accounts' = accounts /\ call[c].pc \in {"read", "fetching"}
  BY DEF Credits!Decide, Credits!LabAnswers, Credits!FetchOk, Credits!FetchErr, CreditsStill
<1>2. /\ CallsSound /\ call[c].of \in LabAccounts /\ SoundCall(call[c], balanceWas, nowC)
      /\ call[c].at \in Nat /\ call[c].says \subseteq BOOLEAN /\ call[c].at <= nowC
  BY <1>1, CallIs DEF CreditsInv, SoundCall
<1>3. CASE Credits!Decide(c)
  <2> DEFINE p == IF Credits!BackingOff(call[c].at) THEN "err" ELSE "fetching"
             q == [call[c] EXCEPT !.pc = p]
  <2>1. p \in {"err", "fetching"} /\ call[c].says = {}
    BY <1>2, <1>3 DEF Credits!Decide, SoundCall
  <2>2. call' = [call EXCEPT ![c] = q]
    BY <1>3 DEF Credits!Decide, Credits!Goto
  <2> HIDE DEF p
  <2>3. q \in CallState /\ q.pc = p /\ q.of = call[c].of /\ q.at = call[c].at /\ q.says = {}
    BY <1>2, <2>1, CallIs DEF CallState, Credits!PCs
  <2> HIDE DEF q
  <2>4. SoundCall(q, balanceWas, nowC)
    BY <1>2, <2>1, <2>3 DEF SoundCall
  <2> QED BY <1>1, <1>2, <2>1, <2>2, <2>3, <2>4
<1>4. CASE Credits!LabAnswers(c)
  <2> DEFINE v == {canSpend[call[c].of]}
             q == [[call[c] EXCEPT !.says = v] EXCEPT !.pc = "fetching"]
  <2>1. v \in SUBSET BOOLEAN /\ balanceWas[call[c].of][canSpend[call[c].of]] = nowC /\ nowC \in Nat
    BY <1>2 DEF CreditsInv, BalanceHistory
  <2>2. call' = [call EXCEPT ![c] = q]
    BY <1>4 DEF Credits!LabAnswers, Credits!Goto
  <2>3. q \in CallState /\ q.pc = "fetching" /\ q.of = call[c].of /\ q.at = call[c].at /\ q.says = v
    BY <1>2, <2>1, CallIs DEF CallState, Credits!PCs
  <2> HIDE DEF q
  <2>4. SoundCall(q, balanceWas, nowC)
    BY <1>2, <2>1, <2>3 DEF SoundCall
  <2> QED BY <1>1, <1>2, <2>2, <2>3, <2>4
<1>5. CASE Credits!FetchOk(c)
  <2> DEFINE q == [call[c] EXCEPT !.pc = "ok"]
  <2>1. call[c].pc = "fetching" /\ call[c].says # {} /\ call' = [call EXCEPT ![c] = q]
    BY <1>5 DEF Credits!FetchOk, Credits!Goto
  <2>2. q \in CallState /\ q.pc = "ok" /\ q.of = call[c].of /\ q.at = call[c].at /\ q.says = call[c].says
    BY <1>2, CallIs DEF CallState, Credits!PCs
  <2> HIDE DEF q
  <2>3. SoundCall(q, balanceWas, nowC)
    BY <1>2, <2>1, <2>2 DEF SoundCall
  <2> QED BY <1>1, <1>2, <2>1, <2>2, <2>3
<1>6. CASE Credits!FetchErr(c)
  <2> DEFINE q == [[call[c] EXCEPT !.says = {}] EXCEPT !.pc = "err"]
  <2>1. call' = [call EXCEPT ![c] = q]
    BY <1>6 DEF Credits!FetchErr, Credits!Goto
  <2>2. q \in CallState /\ q.pc = "err" /\ q.of = call[c].of /\ q.at = call[c].at
    BY <1>2, CallIs DEF CallState, Credits!PCs
  <2> HIDE DEF q
  <2>3. SoundCall(q, balanceWas, nowC)
    BY <1>2, <2>2 DEF SoundCall
  <2> QED BY <1>1, <1>2, <2>1, <2>2, <2>3
<1> QED BY <1>3, <1>4, <1>5, <1>6

LEMMA StoreDoes ==
    ASSUME CreditsInv, NEW c \in Calls, Credits!Store(c)
    PROVE  /\ CreditsStill /\ call[c].pc = "ok" /\ call[c].of \in LabAccounts
           /\ accounts' = [accounts EXCEPT ![call[c].of] =
                             {[fetched_at |-> call[c].at, lookup |-> v] : v \in call[c].says}]
           /\ \E v \in BOOLEAN : call[c].says = {v} /\ balanceWas[call[c].of][v] >= call[c].at
           /\ \E q \in CallState : /\ call' = [call EXCEPT ![c] = q] /\ q.pc = "answered"
                                   /\ q.of = call[c].of /\ q.at = call[c].at /\ q.says = call[c].says
<1> DEFINE q == [call[c] EXCEPT !.pc = "answered"]
<1>1. /\ CreditsStill /\ call[c].pc = "ok" /\ call' = [call EXCEPT ![c] = q]
      /\ accounts' = [accounts EXCEPT ![call[c].of] =
                        {[fetched_at |-> call[c].at, lookup |-> v] : v \in call[c].says}]
  BY DEF Credits!Store, Credits!Goto, CreditsStill
<1>2. q \in CallState /\ q.pc = "answered" /\ q.of = call[c].of /\ q.at = call[c].at /\ q.says = call[c].says
  BY CallIs DEF CreditsInv, CallState, Credits!PCs
<1>3. call[c].of \in LabAccounts /\ call[c].says # {} /\ call[c].says \subseteq BOOLEAN
      /\ \A v \in call[c].says : balanceWas[call[c].of][v] >= call[c].at /\ call[c].says = {v}
  BY <1>1, CallIs DEF CreditsInv, SoundCall
<1> HIDE DEF q
<1>4. \E v \in BOOLEAN : call[c].says = {v} /\ balanceWas[call[c].of][v] >= call[c].at
  BY <1>3
<1> QED BY <1>1, <1>2, <1>3, <1>4

LEMMA FallbackDoes ==
    ASSUME CreditsInv, NEW c \in Calls, Credits!Fallback(c)
    PROVE  /\ CreditsStill /\ accounts' = accounts /\ call[c].pc = "err" /\ call[c].of \in LabAccounts
           /\ \E q \in CallState :
                /\ call' = [call EXCEPT ![c] = q] /\ q.of = call[c].of /\ q.at = call[c].at
                /\ \/ q.pc = "refused"
                   \/ /\ q.pc = "answered"
                      /\ \E e \in accounts[call[c].of] : q.says = {e.lookup} /\ call[c].at - e.fetched_at < STALE_FOR
<1>1. CreditsStill /\ accounts' = accounts /\ call[c].pc = "err"
  BY DEF Credits!Fallback, CreditsStill
<1>2. CallsSound /\ call[c].of \in LabAccounts
  BY <1>1, CallIs DEF CreditsInv, SoundCall
<1>3. \/ Credits!Goto(c, "refused", call[c])
      \/ \E e \in accounts[call[c].of] : /\ call[c].at - e.fetched_at < STALE_FOR
                                         /\ Credits!Goto(c, "answered", [call[c] EXCEPT !.says = {e.lookup}])
  BY Zenon DEF Credits!Fallback
<1>4. CASE Credits!Goto(c, "refused", call[c])
  <2> DEFINE q == [call[c] EXCEPT !.pc = "refused"]
  <2>1. q \in CallState /\ q.pc = "refused" /\ q.of = call[c].of /\ q.at = call[c].at
    BY <1>2, CallIs DEF CallState, Credits!PCs
  <2>2. call' = [call EXCEPT ![c] = q]
    BY <1>4 DEF Credits!Goto
  <2> HIDE DEF q
  <2> QED BY <1>1, <1>2, <2>1, <2>2
<1>5. ASSUME NEW e \in accounts[call[c].of], call[c].at - e.fetched_at < STALE_FOR,
             Credits!Goto(c, "answered", [call[c] EXCEPT !.says = {e.lookup}])
      PROVE  \E q \in CallState : /\ call' = [call EXCEPT ![c] = q] /\ q.of = call[c].of /\ q.at = call[c].at
                                  /\ q.pc = "answered" /\ q.says = {e.lookup}
  <2> DEFINE q == [[call[c] EXCEPT !.says = {e.lookup}] EXCEPT !.pc = "answered"]
  <2>1. {e.lookup} \in SUBSET BOOLEAN
    BY <1>2 DEF CreditsInv, BalancesDated, Balance
  <2>2. q \in CallState /\ q.pc = "answered" /\ q.of = call[c].of /\ q.at = call[c].at /\ q.says = {e.lookup}
    BY <1>2, <2>1, CallIs DEF CallState, Credits!PCs
  <2>3. call' = [call EXCEPT ![c] = q]
    BY <1>5 DEF Credits!Goto
  <2> HIDE DEF q
  <2> QED BY <2>2, <2>3
<1>6. CASE \E e \in accounts[call[c].of] : /\ call[c].at - e.fetched_at < STALE_FOR
                                           /\ Credits!Goto(c, "answered", [call[c] EXCEPT !.says = {e.lookup}])
  BY <1>1, <1>2, <1>5, <1>6
<1> QED BY <1>3, <1>4, <1>6

LEMMA CreditsStep ==
    ASSUME CreditsInv, [Credits!Next]_(Credits!vars)
    PROVE  CreditsInv'
<1> USE DEF CreditsInv
<1>0. /\ BalanceHistory' /\ nowC <= nowC'
      /\ \A a \in LabAccounts : \A b \in BOOLEAN : balanceWas[a][b] <= balanceWas'[a][b]
  BY BalanceHistoryStep
<1>1. ASSUME accounts' = accounts, call' = call
      PROVE  CreditsInv'
  BY <1>0, <1>1, BalancesStill, CallsStill
<1>2. ASSUME accounts' = accounts, CreditsStill, NEW c \in Calls,
             \E q \in CallState : call' = [call EXCEPT ![c] = q] /\ SoundCall(q, balanceWas, nowC)
      PROVE  CreditsInv'
  <2>1. BalancesDated'
    BY <1>0, <1>2, BalancesStill
  <2>2. PICK q \in CallState : call' = [call EXCEPT ![c] = q] /\ SoundCall(q, balanceWas, nowC)
    BY <1>2
  <2>3. SoundCall(q, balanceWas', nowC')
    BY <1>2, <2>2 DEF CreditsStill
  <2>4. CallsSound'
    BY <1>0, <2>2, <2>3, CallMoved
  <2> QED BY <1>0, <2>1, <2>4
<1>3. nowC \in Nat
  BY DEF BalanceHistory
<1>4. ASSUME NEW c \in Calls, NEW a \in Accounts, Credits!Check(c, a)
      PROVE  CreditsInv'
  <2>1. CreditsStill /\ accounts' = accounts
    BY <1>4, CheckDoes
  <2>2. PICK q \in CallState : call' = [call EXCEPT ![c] = q] /\ q.pc = "asked" /\ q.at = nowC /\ q.says = {}
    BY <1>4, CheckDoes
  <2>3. SoundCall(q, balanceWas, nowC)
    BY <1>3, <2>2 DEF SoundCall
  <2> QED BY <1>2, <2>1, <2>2, <2>3
<1>5. ASSUME NEW c \in Calls, Credits!Lookup(c)
      PROVE  CreditsInv'
  <2>1. CreditsStill /\ accounts' = accounts
    BY <1>5, LookupAccountDoes
  <2>2. PICK q \in CallState :
             /\ call' = [call EXCEPT ![c] = q] /\ q.of = call[c].of /\ q.at = call[c].at
             /\ \/ q.pc \in {"refused", "answered"}
                \/ q.pc = "read" /\ q.says = {} /\ call[c].of \in LabAccounts
    BY <1>5, LookupAccountDoes
  <2>3. call[c].at <= nowC
    BY CallIs DEF SoundCall
  <2>4. SoundCall(q, balanceWas, nowC)
    BY <2>2, <2>3 DEF SoundCall
  <2> QED BY <1>2, <2>1, <2>2, <2>4
<1>6. ASSUME NEW c \in Calls,
             Credits!Decide(c) \/ Credits!LabAnswers(c) \/ Credits!FetchOk(c) \/ Credits!FetchErr(c)
      PROVE  CreditsInv'
  <2>1. CreditsStill /\ accounts' = accounts
    BY <1>6, WaitDoes
  <2>2. \E q \in CallState : call' = [call EXCEPT ![c] = q] /\ SoundCall(q, balanceWas, nowC)
    BY <1>6, WaitDoes
  <2> QED BY <1>2, <2>1, <2>2
<1>7. ASSUME NEW c \in Calls, Credits!Store(c)
      PROVE  CreditsInv'
  <2>1. /\ CreditsStill /\ call[c].of \in LabAccounts
        /\ accounts' = [accounts EXCEPT ![call[c].of] =
                          {[fetched_at |-> call[c].at, lookup |-> v] : v \in call[c].says}]
    BY <1>7, StoreDoes
  <2>2. PICK v \in BOOLEAN : call[c].says = {v} /\ balanceWas[call[c].of][v] >= call[c].at
    BY <1>7, StoreDoes
  <2>3. PICK q \in CallState : call' = [call EXCEPT ![c] = q] /\ q.pc = "answered" /\ q.at = call[c].at
    BY <1>7, StoreDoes
  <2>4. call[c].at <= nowC /\ call[c].at \in Nat
    BY CallIs DEF SoundCall
  <2>5. SoundCall(q, balanceWas', nowC')
    BY <2>1, <2>3, <2>4 DEF SoundCall, CreditsStill
  <2>6. CallsSound'
    BY <1>0, <2>3, <2>5, CallMoved
  <2>7. accounts' = [accounts EXCEPT ![call[c].of] = {[fetched_at |-> call[c].at, lookup |-> v]}]
    BY <2>1, <2>2
  <2>8. [fetched_at |-> call[c].at, lookup |-> v] \in Balance
    BY <2>4 DEF Balance
  <2>9. ASSUME NEW a \in LabAccounts
        PROVE  accounts'[a] \in SUBSET Balance /\ \A e \in accounts'[a] : balanceWas'[a][e.lookup] >= e.fetched_at
    <3>1. CASE a = call[c].of
      <4>1. accounts'[a] = {[fetched_at |-> call[c].at, lookup |-> v]}
        BY <2>7, <3>1 DEF BalancesDated
      <4> QED BY <2>1, <2>2, <2>8, <3>1, <4>1 DEF CreditsStill
    <3>2. CASE a # call[c].of
      <4>1. accounts'[a] = accounts[a]
        BY <2>7, <3>2 DEF BalancesDated
      <4> QED BY <2>1, <4>1 DEF BalancesDated, CreditsStill
    <3> QED BY <3>1, <3>2
  <2>10. BalancesDated'
    BY <2>7, <2>9 DEF BalancesDated
  <2> QED BY <1>0, <2>6, <2>10
<1>8. ASSUME NEW c \in Calls, Credits!Fallback(c)
      PROVE  CreditsInv'
  <2>1. CreditsStill /\ accounts' = accounts
    BY <1>8, FallbackDoes
  <2>2. PICK q \in CallState : call' = [call EXCEPT ![c] = q] /\ q.pc \in {"refused", "answered"} /\ q.at = call[c].at
    BY <1>8, FallbackDoes
  <2>3. call[c].at <= nowC
    BY CallIs DEF SoundCall
  <2>4. SoundCall(q, balanceWas, nowC)
    BY <2>2, <2>3 DEF SoundCall
  <2> QED BY <1>2, <2>1, <2>2, <2>4
<1>9. ASSUME NEW c \in Calls, Credits!Return(c)
      PROVE  CreditsInv'
  <2>1. CreditsStill /\ accounts' = accounts /\ call' = [call EXCEPT ![c] = Credits!Idle]
    BY <1>9 DEF Credits!Return, CreditsStill
  <2> QED BY <1>2, <1>3, <2>1, IdleSound
<1>10. CASE Credits!Tick \/ (\E a \in LabAccounts : Credits!Spend(a)) \/ Credits!ConfirmIdentity \/ UNCHANGED Credits!vars
  BY <1>1, <1>10 DEF Credits!Tick, Credits!Spend, Credits!ConfirmIdentity, Credits!vars
<1> QED BY <1>4, <1>5, <1>6, <1>7, <1>8, <1>9, <1>10 DEF Credits!Next

\* The refinement: a call's question, as RecentAnswer sees it.
CreditQuestion(t) == IF t.pc = "idle" \/ t.of \notin LabAccounts THEN {}
                     ELSE {[of |-> t.of, at |-> t.at, says |-> IF t.pc = "answered" THEN t.says ELSE {}]}

CreditAsk == [c \in Calls |-> Credits!Asked(c)]

LEMMA BalanceRecent ==
    ASSUME CreditsInv, NEW a \in LabAccounts, NEW e \in accounts[a], NEW t \in Nat, t - e.fetched_at < STALE_FOR
    PROVE  e.lookup \in BOOLEAN /\ balanceWas[a][e.lookup] > t - STALE_FOR
<1>1. e.lookup \in BOOLEAN /\ e.fetched_at \in Nat /\ balanceWas[a][e.lookup] >= e.fetched_at
  BY DEF CreditsInv, BalancesDated, Balance
<1>2. balanceWas[a][e.lookup] \in Int
  BY <1>1 DEF CreditsInv, BalanceHistory
<1> QED BY <1>1, <1>2, CreditsAssumption

LEMMA CreditAskMoved ==
    ASSUME CallsSound, NEW c \in Calls, NEW q, call' = [call EXCEPT ![c] = q]
    PROVE  CreditAsk' = [CreditAsk EXCEPT ![c] = CreditQuestion(q)]
<1>1. ASSUME NEW d \in Calls
      PROVE  Credits!Asked(d)' = IF d = c THEN CreditQuestion(q) ELSE Credits!Asked(d)
  <2>1. call'[d] = IF d = c THEN q ELSE call[d]
    BY DEF CallsSound
  <2> QED BY <2>1 DEF Credits!Asked, CreditQuestion
<1> QED BY <1>1, Zenon DEF CreditAsk

LEMMA CreditAsks ==
    ASSUME NEW c \in Calls, NEW a \in LabAccounts, CreditAsk[c] = {}, CreditsStill,
           CreditAsk' = [CreditAsk EXCEPT ![c] = {[of |-> a, at |-> nowC, says |-> {}]}]
    PROVE  Credits!Recent!Next
<1>1. Credits!Recent!Ask(c, a)
  BY DEF CreditAsk, Credits!Recent!Ask, CreditsStill
<1> QED BY <1>1 DEF Credits!Recent!Next

LEMMA CreditAnswers ==
    ASSUME NEW c \in Calls, NEW a, NEW t, NEW v \in BOOLEAN, balanceWas[a][v] > t - STALE_FOR,
           CreditsStill, CreditAsk[c] = {[of |-> a, at |-> t, says |-> {}]},
           CreditAsk' = [CreditAsk EXCEPT ![c] = {[of |-> a, at |-> t, says |-> {v}]}]
    PROVE  Credits!Recent!Next
<1> DEFINE q == [of |-> a, at |-> t, says |-> {}]
<1>1. q \in CreditAsk[c] /\ q.says = {} /\ q.of = a /\ q.at = t
  OBVIOUS
<1>2. [q EXCEPT !.says = {v}] = [of |-> a, at |-> t, says |-> {v}]
  BY Told
<1>3. Credits!Recent!Answer(c, v)
  BY <1>1, <1>2 DEF CreditAsk, Credits!Recent!Answer, CreditsStill
<1> QED BY <1>3 DEF Credits!Recent!Next

LEMMA CreditCloses ==
    ASSUME NEW c \in Calls, CreditsStill, CreditAsk' = [CreditAsk EXCEPT ![c] = {}]
    PROVE  [Credits!Recent!Next]_(Credits!Recent!recent)
<1>1. CASE CreditAsk[c] = {}
  <2>1. CreditAsk' = CreditAsk
    BY <1>1 DEF CreditAsk
  <2> QED BY <2>1 DEF CreditAsk, CreditsStill, Credits!Recent!recent
<1>2. CASE CreditAsk[c] # {}
  <2>1. Credits!Recent!Close(c)
    BY <1>2 DEF CreditAsk, Credits!Recent!Close, CreditsStill
  <2> QED BY <2>1 DEF Credits!Recent!Next
<1> QED BY <1>1, <1>2

LEMMA CreditStutters ==
    ASSUME CreditsStill, CreditAsk' = CreditAsk
    PROVE  UNCHANGED Credits!Recent!recent
BY DEF CreditAsk, CreditsStill, Credits!Recent!recent

LEMMA CreditsInitRefines == Credits!Init => Credits!Recent!Init
<1> SUFFICES ASSUME Credits!Init PROVE Credits!Recent!Init
  OBVIOUS
<1>1. \A c \in Calls : Credits!Asked(c) = {}
  BY DEF Credits!Init, Credits!Asked, Credits!Idle
<1>2. [c \in Calls |-> Credits!Asked(c)] = [c \in Calls |-> {}]
  BY <1>1, Zenon
<1> QED BY <1>2 DEF Credits!Init, Credits!Recent!Init, Credits!Recent!Never

LEMMA CreditsRefines ==
    ASSUME CreditsInv, [Credits!Next]_(Credits!vars)
    PROVE  [Credits!Recent!Next]_(Credits!Recent!recent)
<1>0. CallsSound /\ nowC \in Nat
  BY DEF CreditsInv, BalanceHistory
<1>a. ASSUME NEW c \in Calls
      PROVE  call[c].at \in Nat /\ CreditAsk[c] = CreditQuestion(call[c])
  BY <1>0, CallIs DEF CreditAsk, Credits!Asked, CreditQuestion
<1>s. ASSUME call' = call
      PROVE  CreditAsk' = CreditAsk
  BY <1>s DEF CreditAsk, Credits!Asked
<1>1. CASE Credits!Tick
  <2>1. CreditAsk' = CreditAsk
    BY <1>1, <1>s DEF Credits!Tick
  <2>2. Credits!Recent!Tick
    BY <1>1, <2>1 DEF Credits!Tick, Credits!Recent!Tick, CreditAsk
  <2> QED BY <2>2 DEF Credits!Recent!Next
<1>2. ASSUME NEW a \in LabAccounts, Credits!Spend(a)
      PROVE  Credits!Recent!Next
  <2>1. CreditAsk' = CreditAsk
    BY <1>2, <1>s DEF Credits!Spend
  <2>2. Credits!Recent!Change(a, ~canSpend[a])
    BY <1>2, <2>1 DEF Credits!Spend, Credits!Recent!Change, CreditAsk
  <2>3. (~canSpend[a]) \in BOOLEAN
    OBVIOUS
  <2> QED BY <2>2, <2>3, Zenon DEF Credits!Recent!Next
<1>3. CASE Credits!ConfirmIdentity \/ UNCHANGED Credits!vars
  BY <1>3, <1>s, CreditStutters DEF Credits!ConfirmIdentity, Credits!vars, CreditsStill
<1>4. ASSUME NEW c \in Calls, NEW q \in CallState, call' = [call EXCEPT ![c] = q], CreditsStill,
             call[c].pc \notin {"idle", "answered"}, call[c].of \in LabAccounts,
             q.of = call[c].of, q.at = call[c].at, q.pc = "answered",
             NEW v \in BOOLEAN, q.says = {v}, balanceWas[call[c].of][v] > call[c].at - STALE_FOR
      PROVE  Credits!Recent!Next
  <2>1. CreditAsk[c] = {[of |-> call[c].of, at |-> call[c].at, says |-> {}]}
    BY <1>a, <1>4 DEF CreditQuestion
  <2>2. CreditQuestion(q) = {[of |-> call[c].of, at |-> call[c].at, says |-> {v}]}
    BY <1>4 DEF CreditQuestion
  <2>3. CreditAsk' = [CreditAsk EXCEPT ![c] = {[of |-> call[c].of, at |-> call[c].at, says |-> {v}]}]
    BY <1>0, <1>4, <2>2, CreditAskMoved
  <2> QED BY <1>4, <2>1, <2>3, CreditAnswers
<1>5. ASSUME NEW c \in Calls, NEW q \in CallState, call' = [call EXCEPT ![c] = q], CreditsStill,
             call[c].pc \notin {"idle", "answered"}, q.of = call[c].of, q.at = call[c].at,
             q.pc \notin {"idle", "answered"} \/ call[c].of \notin LabAccounts
      PROVE  UNCHANGED Credits!Recent!recent
  <2>1. CreditQuestion(q) = CreditAsk[c]
    BY <1>a, <1>5 DEF CreditQuestion
  <2>2. CreditAsk' = [CreditAsk EXCEPT ![c] = CreditAsk[c]]
    BY <1>0, <1>5, <2>1, CreditAskMoved
  <2>3. CreditAsk' = CreditAsk
    BY <2>2 DEF CreditAsk
  <2> QED BY <1>5, <2>3, CreditStutters
<1>6. ASSUME NEW c \in Calls, NEW a \in Accounts, Credits!Check(c, a)
      PROVE  [Credits!Recent!Next]_(Credits!Recent!recent)
  <2>1. CreditsStill /\ call[c].pc = "idle"
    BY <1>6, CheckDoes
  <2>2. PICK q \in CallState : call' = [call EXCEPT ![c] = q] /\ q.pc = "asked" /\ q.of = a /\ q.at = nowC /\ q.says = {}
    BY <1>6, CheckDoes
  <2>3. CreditAsk[c] = {}
    BY <1>a, <2>1 DEF CreditQuestion
  <2>4. CASE a \in LabAccounts
    <3>1. CreditQuestion(q) = {[of |-> a, at |-> nowC, says |-> {}]}
      BY <2>2, <2>4 DEF CreditQuestion
    <3>2. CreditAsk' = [CreditAsk EXCEPT ![c] = {[of |-> a, at |-> nowC, says |-> {}]}]
      BY <1>0, <2>2, <3>1, CreditAskMoved
    <3> QED BY <2>1, <2>3, <2>4, <3>2, CreditAsks
  <2>5. CASE a \notin LabAccounts
    <3>1. CreditQuestion(q) = {}
      BY <2>2, <2>5 DEF CreditQuestion
    <3>2. CreditAsk' = [CreditAsk EXCEPT ![c] = {}]
      BY <1>0, <2>2, <3>1, CreditAskMoved
    <3> QED BY <2>1, <3>2, CreditCloses
  <2> QED BY <2>4, <2>5
<1>7. ASSUME NEW c \in Calls, Credits!Lookup(c)
      PROVE  [Credits!Recent!Next]_(Credits!Recent!recent)
  <2>1. CreditsStill /\ call[c].pc = "asked"
    BY <1>7, LookupAccountDoes
  <2>2. PICK q \in CallState :
             /\ call' = [call EXCEPT ![c] = q] /\ q.of = call[c].of /\ q.at = call[c].at
             /\ \/ call[c].of \notin LabAccounts /\ q.pc = "answered"
                \/ call[c].of \in LabAccounts /\ q.pc \in {"refused", "read"} /\ q.says = {}
                \/ /\ call[c].of \in LabAccounts /\ q.pc = "answered"
                   /\ \E e \in accounts[call[c].of] : q.says = {e.lookup} /\ call[c].at - e.fetched_at < FRESH_FOR
    BY <1>7, LookupAccountDoes
  <2>3. CASE q.pc \in {"refused", "read"} \/ call[c].of \notin LabAccounts
    BY <1>5, <2>1, <2>2, <2>3
  <2>4. ASSUME call[c].of \in LabAccounts, q.pc = "answered", NEW e \in accounts[call[c].of],
               q.says = {e.lookup}, call[c].at - e.fetched_at < FRESH_FOR
        PROVE  Credits!Recent!Next
    <3>1. e.fetched_at \in Nat
      BY <2>4 DEF CreditsInv, BalancesDated, Balance
    <3>2. call[c].at - e.fetched_at < STALE_FOR
      BY <1>a, <2>4, <3>1, CreditsAssumption
    <3>3. e.lookup \in BOOLEAN /\ balanceWas[call[c].of][e.lookup] > call[c].at - STALE_FOR
      BY <1>a, <2>4, <3>2, BalanceRecent
    <3> QED BY <1>4, <2>1, <2>2, <2>4, <3>3
  <2> QED BY <2>2, <2>3, <2>4
<1>8. ASSUME NEW c \in Calls,
             Credits!Decide(c) \/ Credits!LabAnswers(c) \/ Credits!FetchOk(c) \/ Credits!FetchErr(c)
      PROVE  UNCHANGED Credits!Recent!recent
  <2>1. CreditsStill /\ call[c].pc \in {"read", "fetching"}
    BY <1>8, WaitDoes
  <2>2. PICK q \in CallState : /\ call' = [call EXCEPT ![c] = q] /\ q.of = call[c].of /\ q.at = call[c].at
                               /\ q.pc \in {"fetching", "ok", "err"}
    BY <1>8, WaitDoes
  <2> QED BY <1>5, <2>1, <2>2
<1>9. ASSUME NEW c \in Calls, Credits!Store(c)
      PROVE  Credits!Recent!Next
  <2>1. CreditsStill /\ call[c].pc = "ok" /\ call[c].of \in LabAccounts
    BY <1>9, StoreDoes
  <2>2. PICK v \in BOOLEAN : call[c].says = {v} /\ balanceWas[call[c].of][v] >= call[c].at
    BY <1>9, StoreDoes
  <2>3. PICK q \in CallState : /\ call' = [call EXCEPT ![c] = q] /\ q.pc = "answered"
                               /\ q.of = call[c].of /\ q.at = call[c].at /\ q.says = call[c].says
    BY <1>9, StoreDoes
  <2>4. balanceWas[call[c].of][v] \in Int
    BY <2>1 DEF CreditsInv, BalanceHistory
  <2>5. balanceWas[call[c].of][v] > call[c].at - STALE_FOR
    BY <1>a, <2>2, <2>4, CreditsAssumption
  <2> QED BY <1>4, <2>1, <2>2, <2>3, <2>5
<1>10. ASSUME NEW c \in Calls, Credits!Fallback(c)
       PROVE  [Credits!Recent!Next]_(Credits!Recent!recent)
  <2>1. CreditsStill /\ call[c].pc = "err" /\ call[c].of \in LabAccounts
    BY <1>10, FallbackDoes
  <2>2. PICK q \in CallState :
             /\ call' = [call EXCEPT ![c] = q] /\ q.of = call[c].of /\ q.at = call[c].at
             /\ \/ q.pc = "refused"
                \/ /\ q.pc = "answered"
                   /\ \E e \in accounts[call[c].of] : q.says = {e.lookup} /\ call[c].at - e.fetched_at < STALE_FOR
    BY <1>10, FallbackDoes
  <2>3. CASE q.pc = "refused"
    BY <1>5, <2>1, <2>2, <2>3
  <2>4. ASSUME q.pc = "answered", NEW e \in accounts[call[c].of],
               q.says = {e.lookup}, call[c].at - e.fetched_at < STALE_FOR
        PROVE  Credits!Recent!Next
    <3>1. e.lookup \in BOOLEAN /\ balanceWas[call[c].of][e.lookup] > call[c].at - STALE_FOR
      BY <1>a, <2>1, <2>4, BalanceRecent
    <3> QED BY <1>4, <2>1, <2>2, <2>4, <3>1
  <2> QED BY <2>2, <2>3, <2>4
<1>11. ASSUME NEW c \in Calls, Credits!Return(c)
       PROVE  [Credits!Recent!Next]_(Credits!Recent!recent)
  <2>1. CreditsStill /\ call' = [call EXCEPT ![c] = Credits!Idle]
    BY <1>11 DEF Credits!Return, CreditsStill
  <2>2. CreditQuestion(Credits!Idle) = {}
    BY DEF CreditQuestion, Credits!Idle
  <2>3. CreditAsk' = [CreditAsk EXCEPT ![c] = {}]
    BY <1>0, <2>1, <2>2, CreditAskMoved
  <2> QED BY <2>1, <2>3, CreditCloses
<1> QED BY <1>1, <1>2, <1>3, <1>6, <1>7, <1>8, <1>9, <1>10, <1>11 DEF Credits!Next

----------------------------------------------------------------------------
(* The theorems. *)

CachesInv == CreditsInv /\ AiInv /\ AiGone /\ ListsInv

\* The inductive invariant: every entry of a cache is dated no later than the last moment at
\* which it was true, however the lookups, the fetches and the writes interleave, and a key the
\* Lab was told of comes back to the replica that told it only with a fetch that raced.
THEOREM Invariance == Spec => []CachesInv
<1>1. Init => CachesInv
  BY CreditsInit, AiInit, GoneInit, ListsInit DEF Init, CachesInv
<1>2. CachesInv /\ [Next]_vars => CachesInv'
  <2> SUFFICES ASSUME CachesInv, [Next]_vars
               PROVE  CachesInv'
    OBVIOUS
  <2>1. [Credits!Next]_(Credits!vars) /\ [Ai!Next]_(Ai!vars) /\ [Lists!Next]_(Lists!vars)
    BY OneRuns
  <2> QED BY <2>1, CreditsStep, AiStep, GoneStep, ListsStep DEF CachesInv
<1> QED BY <1>1, <1>2, PTL DEF Spec

\* A retried step whose request reached the Lab runs on a key that was the account's after
\* the attempt began: attach_ai_target's refresh goes past the fresh entry of any replica.  And
\* a replica that told the Lab of a rejected key, while no other fetch of it was on its way,
\* never again has that key to serve, however the Lab's answers come or fail.
THEOREM RetriesSeeRotations == Spec => []RetrySeesRotation
<1>1. CachesInv => RetrySeesRotation
  BY DEF CachesInv, AiInv, StepsSound, SoundStep, AiGone, NotBack, RetrySeesRotation, Ai!RetrySeesRotation
<1> QED BY <1>1, Invariance, PTL

\* A list that misses a write which was answered before it was asked for was being loaded
\* while that write was answered: PipelineCache::invalidate drops every list older than its
\* write, and only a load that overlapped it can bring one back.
THEOREM OldListsOverlap == Spec => []OldListOnlyByOverlap
<1>1. CachesInv => OldListOnlyByOverlap
  BY DEF CachesInv, ListsInv, SoundReader, OldListOnlyByOverlap, Lists!OldListOnlyByOverlap
<1> QED BY <1>1, Invariance, PTL

\* AccountCreditCache implements RecentAnswer: each step of a check is a step of a question
\* answered with a balance that was true less than STALE_FOR before it was asked, or nothing.
THEOREM CreditsAreRecent == Spec => CreditsRecent
<1>1. Init => Credits!Recent!Init
  BY CreditsInitRefines DEF Init
<1>2. CachesInv /\ [Next]_vars => [Credits!Recent!Next]_(Credits!Recent!recent)
  <2> SUFFICES ASSUME CachesInv, [Next]_vars
               PROVE  [Credits!Recent!Next]_(Credits!Recent!recent)
    OBVIOUS
  <2>1. CreditsInv /\ [Credits!Next]_(Credits!vars)
    BY OneRuns DEF CachesInv
  <2> QED BY <2>1, CreditsRefines
<1> QED BY <1>1, <1>2, Invariance, PTL DEF Spec, CreditsRecent, Credits!Recent!Spec

\* AiTargetCache implements RecentAnswer: whatever the replicas hold and whichever fetch ends
\* first, a step is given a key that was the account's less than STALE_FOR before it asked.
THEOREM TargetsAreRecent == Spec => AiRecent
<1>1. Init => Ai!Recent!Init
  BY AiInitRefines DEF Init
<1>2. CachesInv /\ [Next]_vars => [Ai!Recent!Next]_(Ai!Recent!recent)
  <2> SUFFICES ASSUME CachesInv, [Next]_vars
               PROVE  [Ai!Recent!Next]_(Ai!Recent!recent)
    OBVIOUS
  <2>1. AiInv /\ [Ai!Next]_(Ai!vars)
    BY OneRuns DEF CachesInv
  <2> QED BY <2>1, AiRefines
<1> QED BY <1>1, <1>2, Invariance, PTL DEF Spec, AiRecent, Ai!Recent!Spec

\* Both caches that may answer from a stale entry (AccountCreditCache, AiTargetCache) keep the
\* promise of RecentAnswer, for any durations with FRESH_FOR <= STALE_FOR.
THEOREM Implementation == Spec => AnswersRecent
BY CreditsAreRecent, TargetsAreRecent, PTL DEF AnswersRecent
=============================================================================

------------------------------- MODULE AiTarget -------------------------------
(***************************************************************************)
(* The Gateway key of an AI step: a worker asks a control plane replica    *)
(* for the team's target (worker/src/ai_target.rs, activity.rs), the       *)
(* replica asks the Lab through its own AiTargetCache (lab/src/ai.rs), and *)
(* a step whose key the Gateway refused reports the key before Temporal    *)
(* retries it.  Replicas share nothing; the requests of one replica fill   *)
(* its cache in any order.  One Lab account; key 0 is "no Gateway".        *)
(***************************************************************************)
EXTENDS Integers

CONSTANTS Steps,       \* AI steps of the account that may run at a time
          Replicas,    \* control plane processes
          FRESH_FOR,   \* min(cache_ttl, MAX_FRESH_FOR)
          STALE_FOR,
          MaxAttempts, \* attempts Temporal gives a step
          MaxKeys, MaxNow  \* bounds: keys the Lab mints, and the clock

VARIABLES now,      \* the clock of the caches
          key,      \* the Lab: the account's key now, 0 when it has no Gateway
          minted,   \* the Lab: keys minted so far
          dead,     \* the Gateway refuses the Lab's own current key
          lastWas,  \* history: when each key was last the account's
          targets,  \* per replica {} or {[fetched_at, key]}
          step,     \* [pc, rep, at, rejected, says, via, attempt]
          raced,    \* history: reports whose fetch overlapped another fetch of their replica
          gone      \* history: per replica, keys the Lab was told of by a report that was not raced

vars == <<now, key, minted, dead, lastWas, targets, step, raced, gone>>
world == <<now, key, minted, dead, lastWas>>
history == <<raced, gone>>

Keys == 0..MaxKeys
PCs == {"idle", "asked", "fetching", "answered", "running", "failed", "report"}
NewStep(n) == [pc |-> "idle", rep |-> {}, at |-> 0, rejected |-> {}, says |-> {}, via |-> "", attempt |-> n]

TypeOK == /\ now \in 0..MaxNow /\ key \in Keys /\ minted \in Keys /\ dead \in BOOLEAN
          /\ lastWas \in [Keys -> Int]
          /\ targets \in [Replicas -> SUBSET [fetched_at : 0..MaxNow, key : Keys \ {0}]]
          /\ step \in [Steps -> [pc : PCs, rep : SUBSET Replicas, at : 0..MaxNow, rejected : SUBSET Keys,
                                 says : SUBSET Keys, via : {"", "cache", "lab", "stale"}, attempt : 1..MaxAttempts]]
          /\ raced \subseteq Steps /\ gone \in [Replicas -> SUBSET Keys]

Init == /\ now = 0 /\ key \in {0, 1} /\ minted = 1 /\ dead = FALSE
        /\ lastWas = [k \in Keys |-> IF k = key THEN 0 ELSE -STALE_FOR]
        /\ targets = [r \in Replicas |-> {}]
        /\ step = [s \in Steps |-> NewStep(1)]
        /\ raced = {} /\ gone = [r \in Replicas |-> {}]

-----------------------------------------------------------------------------
(* The Lab and the Gateway. *)

Tick == /\ now < MaxNow
        /\ now' = now + 1
        /\ lastWas' = [lastWas EXCEPT ![key] = now']
        /\ UNCHANGED <<key, minted, dead, targets, step, history>>

BecomeKey(k) == key' = k /\ dead' = FALSE /\ lastWas' = [lastWas EXCEPT ![k] = now]

\* The team rotates its key; the old one is refused from then on.
Rotate == /\ minted < MaxKeys
          /\ minted' = minted + 1 /\ BecomeKey(minted')
          /\ UNCHANGED <<now, targets, step, history>>

RemoveGateway == key # 0 /\ BecomeKey(0) /\ UNCHANGED <<now, minted, targets, step, history>>

\* The Gateway stops accepting the key the Lab still hands out.
Revoke == key # 0 /\ ~dead /\ dead' = TRUE /\ UNCHANGED <<now, key, minted, lastWas, targets, step, history>>

-----------------------------------------------------------------------------
(* One request of a step to replica r: AiTargetCache::get. *)

Set(s, r) == step' = [step EXCEPT ![s] = r]

\* attach_ai_target, and report_rejected_key after a refusal.
Attach(s, r) == /\ step[s].pc = "idle"
                /\ Set(s, [step[s] EXCEPT !.pc = "asked", !.rep = {r}, !.at = now])
                /\ UNCHANGED <<world, targets, history>>

Report(s, r) == /\ step[s].pc = "report"
                /\ Set(s, [step[s] EXCEPT !.pc = "asked", !.rep = {r}, !.at = now,
                                          !.rejected = step[s].says, !.says = {}])
                /\ UNCHANGED <<world, targets, history>>

Reporting(s) == step[s].rejected # {}

\* Mutant of Refresh: a retry is served like a first attempt.
NoRefresh(s) == FALSE

\* attach_ai_target asks for a refresh on every attempt but the first.
Refresh(s) == step[s].attempt > 1

\* The steps that wait for a fetch of replica r, and the reports that race when s joins them.
Through(r) == {d \in Steps : step[d].pc = "fetching" /\ r \in step[d].rep}
Racing(s, r) == IF Through(r) = {} THEN {} ELSE {d \in Through(r) \cup {s} : Reporting(d)}

\* A fresh entry answers, unless a refresh is asked for or a key is reported; the entry
\* that holds a reported key is dropped.
Lookup(s) ==
  LET t == step[s]
      fresh(r) == {e \in targets[r] : t.at - e.fetched_at < FRESH_FOR}
  IN /\ t.pc = "asked"
     /\ \E r \in t.rep :
          \/ /\ ~Reporting(s) /\ ~Refresh(s)
             /\ \E e \in fresh(r) : Set(s, [t EXCEPT !.pc = "answered", !.says = {e.key}, !.via = "cache"])
             /\ UNCHANGED <<targets, raced>>
          \/ /\ Reporting(s) \/ Refresh(s) \/ fresh(r) = {}
             /\ targets' = [targets EXCEPT ![r] = {e \in @ : e.key \notin t.rejected}]
             /\ Set(s, [t EXCEPT !.pc = "fetching"])
             /\ raced' = raced \cup Racing(s, r)
     /\ UNCHANGED <<world, gone>>

\* The Lab answers, after minting a new key when the reported one is its current one;
\* the answer is on its way.
LabServes(s) ==
  /\ step[s].pc = "fetching" /\ step[s].says = {}
  /\ IF key \in step[s].rejected /\ minted < MaxKeys
     THEN minted' = minted + 1 /\ BecomeKey(minted')
     ELSE UNCHANGED <<key, minted, dead, lastWas>>
  /\ Set(s, [step[s] EXCEPT !.says = {key'}])
  /\ gone' = [r \in Replicas |-> IF r \in step[s].rep /\ s \notin raced
                                THEN gone[r] \cup (step[s].rejected \ {0, key'}) ELSE gone[r]]
  /\ UNCHANGED <<now, targets, raced>>

\* The target is stored over whatever is there, dated before the fetch; a 404 drops it.
Receive(s) ==
  LET t == step[s]
  IN /\ t.pc = "fetching" /\ t.says # {}
     /\ targets' = [r \in Replicas |-> IF r \in t.rep
                       THEN {[fetched_at |-> t.at, key |-> k] : k \in t.says \ {0}} ELSE targets[r]]
     /\ Set(s, [t EXCEPT !.pc = "answered", !.via = "lab"])
     /\ raced' = raced \ {s} /\ UNCHANGED <<world, gone>>

\* The fetch fails: a cached target that is not too old, or 503.
FetchErr(s) ==
  LET t == step[s]
      usable(r) == {e \in targets[r] : t.at - e.fetched_at < STALE_FOR}
  IN /\ t.pc = "fetching"
     /\ \E r \in t.rep :
          \/ \E e \in usable(r) : Set(s, [t EXCEPT !.pc = "answered", !.says = {e.key}, !.via = "stale"])
          \/ usable(r) = {} /\ Set(s, [NewStep(t.attempt) EXCEPT !.pc = "failed"])
     /\ raced' = raced \ {s} /\ UNCHANGED <<world, targets, gone>>

-----------------------------------------------------------------------------
(* The step. *)

\* No Gateway is final; a target is attached and the plugin runs.
Attached(s) == /\ step[s].pc = "answered" /\ ~Reporting(s)
               /\ Set(s, IF 0 \in step[s].says THEN NewStep(1)
                         ELSE [NewStep(step[s].attempt) EXCEPT !.pc = "running", !.says = step[s].says])
               /\ UNCHANGED <<world, targets, history>>

\* gateway_failure: a 401 marks the key rejected and fails the attempt.  A step that is
\* over makes way for the next one of the account.
PluginEnds(s) == /\ step[s].pc = "running"
                 /\ Set(s, IF key \in step[s].says /\ ~dead THEN NewStep(1)
                           ELSE [step[s] EXCEPT !.pc = "report"])
                 /\ UNCHANGED <<world, targets, history>>

\* Temporal retries, whatever the report was answered; the last attempt is final.
Retry(s) == /\ step[s].pc = "failed" \/ (step[s].pc = "answered" /\ Reporting(s))
            /\ Set(s, NewStep(IF step[s].attempt < MaxAttempts THEN step[s].attempt + 1 ELSE 1))
            /\ UNCHANGED <<world, targets, history>>

Next == \/ Tick \/ Rotate \/ RemoveGateway \/ Revoke
        \/ \E s \in Steps : \/ \E r \in Replicas : Attach(s, r) \/ Report(s, r)
                            \/ Lookup(s) \/ LabServes(s) \/ Receive(s) \/ FetchErr(s)
                            \/ Attached(s) \/ PluginEnds(s) \/ Retry(s)

Spec == Init /\ [][Next]_vars

-----------------------------------------------------------------------------
(* A retried step whose request reached the Lab runs on a key that was the *)
(* account's after the attempt began: a rotation that one replica has seen *)
(* never fails a step twice through the fresh entry of another             *)
(* (attach_ai_target's refresh).  And once the Lab was told of a rejected  *)
(* key, the replica that told it holds that key no more, so it can serve   *)
(* it neither fresh nor stale, even when the Lab's answer was lost ("never *)
(* the rejected key", AiTargetCache::get); a report that overlaps another  *)
(* fetch of the replica is no proof of that, the other may bring it back.  *)
RetrySeesRotation ==
  /\ \A s \in Steps : step[s].pc = "answered" /\ step[s].attempt > 1 /\ step[s].via # "stale"
                         => \A k \in step[s].says : lastWas[k] >= step[s].at
  /\ \A r \in Replicas : \A e \in targets[r] : e.key \notin gone[r]

(* A request of a step is a question to RecentAnswer.                      *)
Asked(s) == IF step[s].pc \in {"asked", "fetching", "answered"}
            THEN {[of |-> "account", at |-> step[s].at,
                   says |-> IF step[s].pc = "answered" THEN step[s].says ELSE {}]}
            ELSE {}

Recent == INSTANCE RecentAnswer
            WITH Calls <- Steps, Subjects <- {"account"}, Values <- Keys, Window <- STALE_FOR,
                 truth <- [a \in {"account"} |-> key], lastTrue <- [a \in {"account"} |-> lastWas],
                 ask <- [s \in Steps |-> Asked(s)]
=============================================================================

-------------------------------- MODULE Caches --------------------------------
(***************************************************************************)
(* The three in-memory caches side by side, for any durations, clients and *)
(* bounds.  They share nothing, so one runs at a time: "which" says which, *)
(* the other two stay in their initial states.                             *)
(***************************************************************************)
EXTENDS Integers

CONSTANTS Calls, Accounts, LabAccounts, GatewayCalls,                      \* LabCredits
          FRESH_FOR, STALE_FOR, FAILURE_BACKOFF, MaxNowC,
          Steps, Replicas, KeyFresh, KeyStale, MaxAttempts, MaxKeys, MaxNowA,  \* AiTarget
          Readers, Writers, TTL, MaxVersion, MaxNowL                       \* PipelineCache

\* An entry may be reused without asking no longer than it may be fallen back on: credits.rs
\* has 30 s and 300 s, ai.rs caps cache_ttl at 300 s, which is its STALE_FOR.
ASSUME AccountsAssumption == LabAccounts \subseteq Accounts
ASSUME CreditsAssumption == FRESH_FOR \in Nat /\ STALE_FOR \in Nat \ {0} /\ FRESH_FOR <= STALE_FOR
ASSUME TargetsAssumption == KeyFresh \in Nat /\ KeyStale \in Nat \ {0} /\ KeyFresh <= KeyStale
ASSUME KeysAssumption == MaxKeys \in Nat /\ MaxKeys >= 1

VARIABLES which,                                                            \* the one that runs
          canSpend, balanceWas, identity, accounts, last_failure, call, nowC, \* LabCredits
          key, minted, dead, keyWas, targets, step, raced, gone, nowA,        \* AiTarget
          table, acked, cache, writer, reader, nowL                          \* PipelineCache

credits == <<canSpend, balanceWas, identity, accounts, last_failure, call, nowC>>
ai == <<key, minted, dead, keyWas, targets, step, raced, gone, nowA>>
lists == <<table, acked, cache, writer, reader, nowL>>
vars == <<which, credits, ai, lists>>

\* A gateway's requests and the workers' requests, of several accounts.
Credits == INSTANCE LabCredits WITH MaxNow <- MaxNowC, now <- nowC, lastWas <- balanceWas

\* The steps of one team, through the control plane.
Ai == INSTANCE AiTarget
        WITH FRESH_FOR <- KeyFresh, STALE_FOR <- KeyStale, MaxNow <- MaxNowA, now <- nowA, lastWas <- keyWas

Lists == INSTANCE PipelineCache WITH MaxNow <- MaxNowL, now <- nowL

Init == /\ which \in {"credits", "ai", "lists"}
        /\ Credits!Init /\ Ai!Init /\ Lists!Init
        /\ which # "credits" => \A a \in LabAccounts : canSpend[a]
        /\ which # "ai" => key = 1

Next == \/ which = "credits" /\ Credits!Next /\ UNCHANGED <<which, ai, lists>>
        \/ which = "ai" /\ Ai!Next /\ UNCHANGED <<which, credits, lists>>
        \/ which = "lists" /\ Lists!Next /\ UNCHANGED <<which, credits, ai>>

Spec == Init /\ [][Next]_vars

(* The credit cache implements RecentAnswer: whatever order the lookups    *)
(* end in, a submission is decided on a balance that was true less than    *)
(* STALE_FOR before it was asked for.                                      *)
CreditsRecent == Credits!Recent!Spec

(* The AI target cache implements RecentAnswer: a step gets a key that was *)
(* the account's less than STALE_FOR before.                               *)
AiRecent == Ai!Recent!Spec

(* Both caches that may answer from a stale entry answer what was true     *)
(* recently: each implements RecentAnswer, whatever order fetches end in.  *)
AnswersRecent == CreditsRecent /\ AiRecent

(* A retried step that reaches the Lab runs on a key that was the          *)
(* account's after its attempt began, and a replica whose report reached   *)
(* the Lab alone never serves the rejected key again (AiTargetCache::get). *)
RetrySeesRotation == Ai!RetrySeesRotation

(* A list that misses an answered write was being loaded while that write  *)
(* was answered (PipelineCache::get_or_load against invalidate).           *)
OldListOnlyByOverlap == Lists!OldListOnlyByOverlap
=============================================================================

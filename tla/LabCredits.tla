------------------------------ MODULE LabCredits ------------------------------
(***************************************************************************)
(* The credit check: AccountCreditCache (crates/lab/src/credits.rs), one   *)
(* per process and shared by every request, asked by the gateway before a *)
(* submission and by the workers through the control plane before a       *)
(* scheduled run.  A lookup is not atomic: it reads the clock and the     *)
(* cache, waits for the Lab, and then writes what it got, so the lookups  *)
(* of one account fill the cache and reset the shared failure backoff in  *)
(* any order.  An account is reduced to whether it can spend.             *)
(***************************************************************************)
EXTENDS Integers

CONSTANTS Calls,         \* requests under way
          Accounts,      \* tenants, some of which are no Lab accounts
          LabAccounts,   \* the canonical account ids among them
          GatewayCalls,  \* the requests of a gateway; the others go to the control plane
          FRESH_FOR, STALE_FOR, FAILURE_BACKOFF,
          MaxNow         \* bound on the clock

VARIABLES now,           \* the process's monotonic clock
          canSpend,      \* the Lab: whether an account is active with a positive balance
          lastWas,       \* history: when an account last could, and last could not, spend
          identity,      \* the gateway's LabClient.identity
          accounts,      \* the cache: per account {} or {[fetched_at, lookup]}
          last_failure,  \* {} or {when an account fetch last failed}
          call           \* the calls: [pc, of, at, says]

vars == <<now, canSpend, lastWas, identity, accounts, last_failure, call>>

PCs == {"idle", "asked", "read", "fetching", "ok", "err", "answered", "refused"}
Idle == [pc |-> "idle", of |-> "", at |-> 0, says |-> {}]

TypeOK == /\ now \in 0..MaxNow
          /\ canSpend \in [LabAccounts -> BOOLEAN]
          /\ lastWas \in [LabAccounts -> [BOOLEAN -> Int]]
          /\ identity \in {"unknown", "confirmed", "wrong product"}
          /\ \A a \in LabAccounts : accounts[a] \in SUBSET [fetched_at : 0..MaxNow, lookup : BOOLEAN]
          /\ last_failure \in SUBSET (0..MaxNow)
          /\ call \in [Calls -> [pc : PCs, of : Accounts \cup {""}, at : 0..MaxNow, says : SUBSET BOOLEAN]]

Init == /\ now = 0
        /\ canSpend \in [LabAccounts -> BOOLEAN]
        /\ lastWas = [a \in LabAccounts |-> [b \in BOOLEAN |-> IF b = canSpend[a] THEN 0 ELSE -STALE_FOR]]
        /\ identity = "unknown"
        /\ accounts = [a \in LabAccounts |-> {}]
        /\ last_failure = {}
        /\ call = [c \in Calls |-> Idle]

-----------------------------------------------------------------------------
(* The world. *)

Tick == /\ now < MaxNow
        /\ now' = now + 1
        /\ lastWas' = [a \in LabAccounts |-> [lastWas[a] EXCEPT ![canSpend[a]] = now']]
        /\ UNCHANGED <<canSpend, identity, accounts, last_failure, call>>

\* The balance crosses zero, or the account is (de)activated.
Spend(a) == /\ canSpend' = [canSpend EXCEPT ![a] = ~@]
            /\ lastWas' = [lastWas EXCEPT ![a][~canSpend[a]] = now]
            /\ UNCHANGED <<now, identity, accounts, last_failure, call>>

\* resolve_identity asks until the Lab answers; another product's credentials end it.
ConfirmIdentity == /\ identity = "unknown"
                   /\ identity' \in {"confirmed", "wrong product"}
                   /\ UNCHANGED <<now, canSpend, lastWas, accounts, last_failure, call>>

-----------------------------------------------------------------------------
(* A check. *)

Goto(c, pc, r) == call' = [call EXCEPT ![c] = [r EXCEPT !.pc = pc]]

\* check: a tenant that is no Lab account passes unasked; a gateway that the Lab has
\* not confirmed refuses; a fresh cached lookup answers; anything else goes on.
Fresh(t, a) == {e \in accounts[a] : t - e.fetched_at < FRESH_FOR}

\* The clock is read before the cache, and the age of everything is measured by it.
Check(c, a) == /\ call[c].pc = "idle"
               /\ Goto(c, "asked", [Idle EXCEPT !.of = a, !.at = now])
               /\ UNCHANGED <<now, canSpend, lastWas, identity, accounts, last_failure>>

\* A gateway refuses until the Lab has confirmed its instance.
Unconfirmed(c) == c \in GatewayCalls /\ identity # "confirmed"

Lookup(c) ==
  LET r == call[c]
  IN /\ r.pc = "asked"
     /\ \/ r.of \notin LabAccounts /\ Goto(c, "answered", [r EXCEPT !.says = {TRUE}])
        \/ /\ r.of \in LabAccounts /\ Unconfirmed(c)
           /\ Goto(c, "refused", r)
        \/ /\ r.of \in LabAccounts /\ ~Unconfirmed(c)
           /\ \/ \E e \in Fresh(r.at, r.of) : Goto(c, "answered", [r EXCEPT !.says = {e.lookup}])
              \/ Fresh(r.at, r.of) = {} /\ Goto(c, "read", r)
     /\ UNCHANGED <<now, canSpend, lastWas, identity, accounts, last_failure>>

\* The Lab is not asked while the last failure, of any account, is recent.
BackingOff(t) == \E f \in last_failure : t - f < FAILURE_BACKOFF

Decide(c) == /\ call[c].pc = "read"
             /\ Goto(c, IF BackingOff(call[c].at) THEN "err" ELSE "fetching", call[c])
             /\ UNCHANGED <<now, canSpend, lastWas, identity, accounts, last_failure>>

\* The Lab looks the account up; the answer is on its way.
LabAnswers(c) == /\ call[c].pc = "fetching" /\ call[c].says = {}
                 /\ Goto(c, "fetching", [call[c] EXCEPT !.says = {canSpend[call[c].of]}])
                 /\ UNCHANGED <<now, canSpend, lastWas, identity, accounts, last_failure>>

\* fetch_account returns: the backoff is reset, or starts at the moment of the failure.
FetchOk(c) == /\ call[c].pc = "fetching" /\ call[c].says # {}
              /\ last_failure' = {}
              /\ Goto(c, "ok", call[c])
              /\ UNCHANGED <<now, canSpend, lastWas, identity, accounts>>

FetchErr(c) == /\ call[c].pc = "fetching"
               /\ last_failure' = {now}
               /\ Goto(c, "err", [call[c] EXCEPT !.says = {}])
               /\ UNCHANGED <<now, canSpend, lastWas, identity, accounts>>

\* Mutant of Store: the entry is dated when it is written, not when it was asked for.
StoreDatedNow(c) ==
  /\ call[c].pc = "ok"
  /\ accounts' = [accounts EXCEPT ![call[c].of] =
                    {[fetched_at |-> now, lookup |-> v] : v \in call[c].says}]
  /\ Goto(c, "answered", call[c])
  /\ UNCHANGED <<now, canSpend, lastWas, identity, last_failure>>

\* The cached entry is replaced, whichever is newer, and dated before the fetch.
Store(c) == /\ call[c].pc = "ok"
            /\ accounts' = [accounts EXCEPT ![call[c].of] =
                              {[fetched_at |-> call[c].at, lookup |-> v] : v \in call[c].says}]
            /\ Goto(c, "answered", call[c])
            /\ UNCHANGED <<now, canSpend, lastWas, identity, last_failure>>

\* A failed fetch falls back on an entry that is not too old, or fails closed.
Fallback(c) ==
  LET usable == {e \in accounts[call[c].of] : call[c].at - e.fetched_at < STALE_FOR}
  IN /\ call[c].pc = "err"
     /\ \/ \E e \in usable : Goto(c, "answered", [call[c] EXCEPT !.says = {e.lookup}])
        \/ usable = {} /\ Goto(c, "refused", call[c])
     /\ UNCHANGED <<now, canSpend, lastWas, identity, accounts, last_failure>>

Return(c) == /\ call[c].pc \in {"answered", "refused"}
             /\ call' = [call EXCEPT ![c] = Idle]
             /\ UNCHANGED <<now, canSpend, lastWas, identity, accounts, last_failure>>

Next == \/ Tick
        \/ \E a \in LabAccounts : Spend(a)
        \/ ConfirmIdentity
        \/ \E c \in Calls : \/ \E a \in Accounts : Check(c, a)
                            \/ Lookup(c) \/ Decide(c) \/ LabAnswers(c) \/ FetchOk(c) \/ FetchErr(c)
                            \/ Store(c) \/ Fallback(c) \/ Return(c)

Spec == Init /\ [][Next]_vars

-----------------------------------------------------------------------------
(* A check is a question to RecentAnswer from the moment it read the clock *)
(* until it returns; what travels from the Lab is not its answer yet.      *)
Asked(c) == IF call[c].pc = "idle" \/ call[c].of \notin LabAccounts THEN {}
            ELSE {[of |-> call[c].of, at |-> call[c].at,
                   says |-> IF call[c].pc = "answered" THEN call[c].says ELSE {}]}

Recent == INSTANCE RecentAnswer
            WITH Subjects <- LabAccounts, Values <- BOOLEAN, Window <- STALE_FOR,
                 truth <- canSpend, lastTrue <- lastWas, ask <- [c \in Calls |-> Asked(c)]
=============================================================================

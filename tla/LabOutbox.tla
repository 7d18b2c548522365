----------------------------- MODULE LabOutbox ------------------------------
(***************************************************************************)
(* The outbox of Lab billing events (control-plane/src/lab_events.rs) and    *)
(* the senders that drain it (lab_sender.rs), one per control-plane replica. *)
(* A sender leases rows, converts pre-v2 ones, posts a batch and then marks  *)
(* or backs off its rows, each a transaction of its own; it may stop between *)
(* any two.  Old workers post pre-v2 bodies, old replicas store them as they *)
(* are, and a usage retry posts an event again.                              *)
(*                                                                           *)
(* Clock time is reduced to what it is compared with: a row is due or not,   *)
(* and older than STALE_AFTER or not; a claim's LEASE has run out or not.    *)
(* next_attempt is one column that every claim, reload, backoff and          *)
(* conversion overwrites, so the lease a sender counts on may be gone from   *)
(* the row before it runs out.                                               *)
(***************************************************************************)
EXTENDS Naturals, FiniteSets

CONSTANTS Event,      \* deterministic event ids
          Legacy,     \* the events whose worker posts a pre-v2 body
          OldReplica, \* whether a replica that cannot convert is still running
          Sender      \* senders, one per replica

ASSUME OutboxAssumption == /\ Legacy \subseteq Event
                           /\ OldReplica \in BOOLEAN

VARIABLES table,    \* per event: "absent", "pending" or "delivered"
          due,      \* pending rows with next_attempt <= now()
          preV2,    \* rows whose body has the pre-v2 shape
          stale,    \* rows with created_at < now() - STALE_AFTER
          pc,       \* per sender: where deliver_once is
          batch,    \* per sender: the ids it holds
          oldBody,  \* per sender: the ids it read a pre-v2 body for
          leased,   \* per sender: the ids whose next_attempt is its running lease
          lapsed,   \* senders whose claim is more than LEASE old
          accepted, \* per sender: the ids the Lab's answer listed
          posted,   \* events a control plane answered 202 for
          dropped,  \* events drop_stale gave up, with an error log
          cut,      \* rows in hand whose lease a lapsed sender overwrote (history)
          lab       \* per event: what the Lab made of it

rowVars    == <<table, due, preV2, stale>>
senderVars == <<pc, batch, oldBody, leased, lapsed, accepted>>
vars == <<rowVars, senderVars, posted, dropped, cut, lab>>

TypeOK ==
  /\ table \in [Event -> {"absent", "pending", "delivered"}]
  /\ due \in SUBSET Event
  /\ preV2 \in SUBSET Event
  /\ stale \in SUBSET Event
  /\ pc \in [Sender -> {"idle", "claimed", "ready", "answered", "marked"}]
  /\ batch \in [Sender -> SUBSET Event]
  /\ oldBody \in [Sender -> SUBSET Event]
  /\ leased \in [Sender -> SUBSET Event]
  /\ lapsed \in SUBSET Sender
  /\ accepted \in [Sender -> SUBSET Event]
  /\ posted \in SUBSET Event
  /\ dropped \in SUBSET Event
  /\ cut \in SUBSET Event
  /\ lab \in [Event -> {"unknown", "billed", "rejected"}]

Init ==
  /\ table = [e \in Event |-> "absent"]
  /\ due = {} /\ preV2 = {} /\ stale = {}
  /\ pc = [s \in Sender |-> "idle"]
  /\ batch = [s \in Sender |-> {}]
  /\ oldBody = [s \in Sender |-> {}]
  /\ leased = [s \in Sender |-> {}]
  /\ lapsed = {}
  /\ accepted = [s \in Sender |-> {}]
  /\ posted = {} /\ dropped = {} /\ cut = {}
  /\ lab = [e \in Event |-> "unknown"]

Pending == {e \in Event : table[e] = "pending"}

\* CONVERT_PRE_V2 (migration 0005): the undelivered pre-v2 rows get the v2 shape
\* and are due at once, with a fresh age.
Convertible == preV2 \cap Pending

\* needs_pre_v2_conversion: some body of the batch E has the old shape.
NeedsPreV2Conversion(E, old) == E \cap old # {}

-----------------------------------------------------------------------------
(* POST /internal/lab-events *)

New(E) == {e \in E : table[e] = "absent"}

\* ON CONFLICT DO NOTHING: the new rows are due at once, the rest are left alone,
\* and the poster gets its 202 either way.
InsertRows(E) ==
  /\ E # {}
  /\ table' = [e \in Event |-> IF e \in New(E) THEN "pending" ELSE table[e]]
  /\ posted' = posted \cup E
  /\ UNCHANGED <<senderVars, dropped, cut, lab>>

\* insert_many.  When something was inserted and a posted body is pre-v2, the whole
\* undelivered outbox is converted in the same transaction, and every converted
\* row is due again with a fresh age, leased or not.
InsertMany(E) ==
  /\ InsertRows(E)
  /\ LET converted == IF New(E) # {} /\ NeedsPreV2Conversion(E, Legacy)
                      THEN Convertible ELSE {}
     IN  /\ due' = due \cup New(E) \cup converted
         /\ preV2' = preV2 \ (New(E) \cup converted)
         /\ stale' = stale \ (New(E) \cup converted)

\* The same insert on a replica that is not upgraded: no conversion.
InsertOldReplica(E) ==
  /\ OldReplica
  /\ InsertRows(E)
  /\ due' = due \cup New(E)
  /\ preV2' = (preV2 \ New(E)) \cup (New(E) \cap Legacy)
  /\ stale' = stale \ New(E)

-----------------------------------------------------------------------------
(* deliver_once *)

\* The rows a claim takes: every due one (at most BATCH_SIZE of them).
Claimed == Pending \cap due

\* The sender holds the rows R, with the bodies it has just read.
Hold(s, R, old) ==
  /\ batch' = [batch EXCEPT ![s] = R]
  /\ oldBody' = [oldBody EXCEPT ![s] = old]

\* next_attempt = now() + LEASE on the rows R, whoever wrote it before.
Lease(s, R) ==
  leased' = [t \in Sender |-> IF t = s THEN R ELSE leased[t] \ R]

\* Mutant of ClaimDue: the rows are read and not leased.
ClaimWithoutLease(s) ==
  /\ pc[s] = "idle" /\ Claimed # {}
  /\ Hold(s, Claimed, Claimed \cap preV2)
  /\ pc' = [pc EXCEPT ![s] = IF Claimed \cap preV2 = {} THEN "ready" ELSE "claimed"]
  /\ UNCHANGED <<rowVars, leased, lapsed, accepted, posted, dropped, cut, lab>>

\* Mutant of ClaimDue: the rows are marked when they are taken.
ClaimDelivers(s) ==
  /\ pc[s] = "idle" /\ Claimed # {}
  /\ Hold(s, Claimed, {})
  /\ table' = [e \in Event |-> IF e \in Claimed THEN "delivered" ELSE table[e]]
  /\ due' = due \ Pending
  /\ pc' = [pc EXCEPT ![s] = "ready"]
  /\ UNCHANGED <<preV2, stale, leased, lapsed, accepted, posted, dropped, cut, lab>>

\* claim_due: lease every due row and read its body.
ClaimDue(s) ==
  /\ pc[s] = "idle" /\ Claimed # {}
  /\ Hold(s, Claimed, Claimed \cap preV2)
  /\ Lease(s, Claimed)
  /\ due' = due \ Pending
  /\ pc' = [pc EXCEPT ![s] = IF NeedsPreV2Conversion(Claimed, preV2)
                             THEN "claimed" ELSE "ready"]
  /\ UNCHANGED <<table, preV2, stale, lapsed, accepted, posted, dropped, cut, lab>>

\* What a sender holds within its lease.
Held(s) == IF s \in lapsed THEN {} ELSE batch[s]

\* The running leases a sender overwrites when it writes next_attempt on the rows R
\* after its own has run out.
Overwritten(s, R) ==
  IF s \in lapsed THEN {e \in R : \E t \in Sender \ {s} : e \in Held(t)} ELSE {}

\* convert_pre_v2_and_reload: convert the undelivered outbox, lease this batch's
\* undelivered rows again, for a new LEASE, and read their bodies, in one
\* transaction; also when another sender has claimed them meanwhile.
ConvertPreV2AndReload(s) ==
  /\ pc[s] = "claimed"
  /\ LET rows == batch[s] \cap Pending
     IN  /\ due' = (due \cup Convertible) \ rows
         /\ Hold(s, rows, {})
         /\ Lease(s, rows)
         /\ cut' = cut \cup Overwritten(s, rows)
         /\ pc' = [pc EXCEPT ![s] = IF rows = {} THEN "idle" ELSE "ready"]
  /\ lapsed' = lapsed \ {s}
  /\ stale' = stale \ Convertible
  /\ preV2' = preV2 \ Convertible
  /\ UNCHANGED <<table, accepted, posted, dropped, lab>>

\* The POST reaches the Lab, which takes some of the events: a v2 one it has not
\* seen is billed, a pre-v2 one is refused for good.
LabTakes(s, A) ==
  lab' = [e \in Event |-> IF e \in A /\ lab[e] = "unknown"
                          THEN IF e \in oldBody[s] THEN "rejected" ELSE "billed"
                          ELSE lab[e]]

\* ... and answers 200 with the ids it accepted.
Answered(s, A) ==
  /\ pc[s] = "ready" /\ A \subseteq batch[s]
  /\ LabTakes(s, A)
  /\ accepted' = [accepted EXCEPT ![s] = A]
  /\ pc' = [pc EXCEPT ![s] = "answered"]
  /\ UNCHANGED <<rowVars, batch, oldBody, leased, lapsed, posted, dropped, cut>>

\* ... or its answer is lost, another status, malformed, or it was never reached.
AnswerLost(s, A) ==
  /\ pc[s] = "ready" /\ A \subseteq batch[s]
  /\ LabTakes(s, A)
  /\ accepted' = [accepted EXCEPT ![s] = {}]
  /\ pc' = [pc EXCEPT ![s] = "marked"]
  /\ UNCHANGED <<rowVars, batch, oldBody, leased, lapsed, posted, dropped, cut>>

\* Mutant of MarkDelivered: the whole batch is marked.
MarkBatch(s) ==
  /\ pc[s] = "answered"
  /\ table' = [e \in Event |-> IF e \in batch[s] \cap Pending
                              THEN "delivered" ELSE table[e]]
  /\ pc' = [pc EXCEPT ![s] = "marked"]
  /\ UNCHANGED <<due, preV2, stale, batch, oldBody, leased, lapsed, accepted>>
  /\ UNCHANGED <<posted, dropped, cut, lab>>

\* mark_delivered, on the accepted ids.
MarkDelivered(s) ==
  /\ pc[s] = "answered"
  /\ table' = [e \in Event |-> IF e \in accepted[s] \cap Pending
                              THEN "delivered" ELSE table[e]]
  /\ pc' = [pc EXCEPT ![s] = "marked"]
  /\ UNCHANGED <<due, preV2, stale, batch, oldBody, leased, lapsed, accepted>>
  /\ UNCHANGED <<posted, dropped, cut, lab>>

\* mark_delivered fails: the rows stay leased and are sent again.
MarkFails(s) ==
  /\ pc[s] = "answered"
  /\ pc' = [pc EXCEPT ![s] = "marked"]
  /\ UNCHANGED <<rowVars, batch, oldBody, leased, lapsed, accepted>>
  /\ UNCHANGED <<posted, dropped, cut, lab>>

\* The attempt is over and wrote next_attempt on the rows R: the sender holds nothing,
\* and its leases are left to run out.
Release(s, R) ==
  /\ pc' = [pc EXCEPT ![s] = "idle"]
  /\ Hold(s, {}, {})
  /\ leased' = [t \in Sender |-> IF t = s THEN {} ELSE leased[t] \ R]
  /\ lapsed' = lapsed \ {s}
  /\ accepted' = [accepted EXCEPT ![s] = {}]
  /\ cut' = {e \in cut \cup Overwritten(s, R) : \E t \in Sender \ {s} : e \in batch[t]}

\* reschedule, on the rest: the backoff replaces whatever next_attempt says, also
\* the lease of a sender that has claimed the row since; or the update fails, and
\* next_attempt stays.
Reschedule(s) ==
  /\ pc[s] = "marked"
  /\ \E backedOff \in {(batch[s] \ accepted[s]) \cap Pending, {}} :
       /\ due' = due \ backedOff
       /\ Release(s, backedOff)
  /\ UNCHANGED <<table, preV2, stale, posted, dropped, lab>>

\* The replica stops, or the conversion fails: what is left is next_attempt.
Stop(s) ==
  /\ pc[s] # "idle"
  /\ Release(s, {})
  /\ UNCHANGED <<rowVars, posted, dropped, lab>>

-----------------------------------------------------------------------------
(* Time and housekeeping *)

\* More than LEASE has passed since the sender's claim, or its reload.
LeaseEnds(s) ==
  /\ pc[s] # "idle" /\ s \notin lapsed
  /\ lapsed' = lapsed \cup {s}
  /\ leased' = [leased EXCEPT ![s] = {}]
  /\ UNCHANGED <<rowVars, pc, batch, oldBody, accepted>>
  /\ UNCHANGED <<posted, dropped, cut, lab>>

\* next_attempt has come, a backoff's or that of a lease that has run out.
ComesDue(e) ==
  /\ table[e] = "pending" /\ e \notin due
  /\ \A s \in Sender : e \notin leased[s]
  /\ due' = due \cup {e}
  /\ UNCHANGED <<table, preV2, stale, senderVars, posted, dropped, cut, lab>>

\* A row has been waiting for STALE_AFTER.
Ages(e) ==
  /\ table[e] = "pending" /\ e \notin stale
  /\ stale' = stale \cup {e}
  /\ UNCHANGED <<table, due, preV2, senderVars, posted, dropped, cut, lab>>

\* Mutant of PurgeDelivered: undelivered rows are purged as well.
PurgeAny(e) ==
  /\ table[e] # "absent"
  /\ table' = [table EXCEPT ![e] = "absent"]
  /\ due' = due \ {e} /\ preV2' = preV2 \ {e} /\ stale' = stale \ {e}
  /\ UNCHANGED <<senderVars, posted, dropped, cut, lab>>

\* purge_delivered, after RETENTION: seven days, when every lease has run out.
PurgeDelivered(e) ==
  /\ table[e] = "delivered"
  /\ \A s \in Sender : e \in batch[s] => s \in lapsed
  /\ table' = [table EXCEPT ![e] = "absent"]
  /\ due' = due \ {e} /\ preV2' = preV2 \ {e} /\ stale' = stale \ {e}
  /\ UNCHANGED <<senderVars, posted, dropped, cut, lab>>

\* drop_stale.
DropStale ==
  /\ Pending \cap stale # {}
  /\ table' = [e \in Event |-> IF e \in Pending \cap stale
                              THEN "absent" ELSE table[e]]
  /\ dropped' = dropped \cup (Pending \cap stale)
  /\ due' = due \ (Pending \cap stale)
  /\ preV2' = preV2 \ (Pending \cap stale)
  /\ stale' = stale \ Pending
  /\ UNCHANGED <<senderVars, posted, cut, lab>>

-----------------------------------------------------------------------------
Deliver(s) == \/ ConvertPreV2AndReload(s)
              \/ \E A \in SUBSET batch[s] : Answered(s, A) \/ AnswerLost(s, A)
              \/ MarkDelivered(s) \/ MarkFails(s) \/ Reschedule(s)

Next ==
  \/ \E E \in SUBSET Event : InsertMany(E) \/ InsertOldReplica(E)
  \/ \E e \in Event : ComesDue(e) \/ Ages(e) \/ PurgeDelivered(e)
  \/ \E s \in Sender : ClaimDue(s) \/ Deliver(s) \/ Stop(s) \/ LeaseEnds(s)
  \/ DropStale

Spec == Init /\ [][Next]_vars

\* Leases and backoffs end, senders go on, and the Lab does not refuse, lose or
\* outlast a sender on an event for ever.  Nobody has to stop or drop anything.
Fairness ==
  /\ \A e \in Event : WF_vars(ComesDue(e))
  /\ \A s \in Sender : /\ WF_vars(ClaimDue(s)) /\ WF_vars(Deliver(s))
                       /\ WF_vars(LeaseEnds(s))
  /\ \A s \in Sender, e \in Event :
       /\ SF_vars(e \in batch[s] /\ ConvertPreV2AndReload(s))
       /\ SF_vars(\E A \in SUBSET batch[s] : e \in A /\ Answered(s, A))

FairSpec == Spec /\ Fairness

-----------------------------------------------------------------------------
(* Properties *)

\* A row is marked delivered only when the Lab has billed the event, whatever part
\* of a batch the Lab took and however two senders overlap.
DeliveredIsBilled == \A e \in Event : table[e] = "delivered" => lab[e] = "billed"

\* No pre-v2 body reaches the Lab, which would take the event and never bill it:
\* the bodies a sender posts are the ones it read after the conversion.
PreV2NeverSent == \A e \in Event : lab[e] # "rejected"

\* No event is done with unbilled: neither by a mark the Lab's answer does not
\* justify, nor by a body the Lab takes without billing it.
NeverDoneUnbilled == DeliveredIsBilled /\ PreV2NeverSent

\* An event the control plane answered 202 for is in the outbox, billed, or on
\* the list drop_stale logged; no purge, conversion or crash loses it.
AcceptedNotLost ==
  \A e \in posted : \/ table[e] # "absent" \/ lab[e] = "billed" \/ e \in dropped

\* The rows two senders both hold ready to send, each within its own lease, that
\* drop_stale has not deleted for a retry to insert anew.
SentTwice == {e \in Event \ dropped : \E s, t \in Sender :
                /\ s # t /\ pc[s] = "ready" /\ pc[t] = "ready"
                /\ {s, t} \cap lapsed = {}
                /\ e \in batch[s] \cap batch[t]}

\* claim_due keeps two replicas from sending one v2 row, through retries, stops,
\* conversions of other rows, backoffs and purges, unless a sender past its own
\* lease overwrote the lease of one that still holds the row.
ExclusiveWhileOnTime == SentTwice \subseteq Legacy \cup cut

\* What lab_events.rs:5 says of claim_due, "so several control-plane replicas never
\* deliver the same row", of v2 rows and of senders within their leases.
ExclusiveDelivery == SentTwice \subseteq Legacy

-----------------------------------------------------------------------------
(* The inductive invariant behind the safety properties *)

\* Past the conversion, a sender holds no pre-v2 body.
BodiesConverted == \A s \in Sender : pc[s] # "claimed" => oldBody[s] = {}

\* What an answer of the Lab lists is billed.
AcksAreBilled == \A s \in Sender : \A e \in accepted[s] : lab[e] = "billed"

\* A sender that is between attempts holds nothing.
IdleHoldsNothing == \A s \in Sender : pc[s] = "idle" => batch[s] = {}

\* A v2 row held on time by a sender is in the table, not due, has the next_attempt
\* that sender wrote, and is in nobody else's hands on time.
LeasesHold ==
  /\ preV2 \subseteq Legacy
  /\ \A s \in Sender : \A e \in Held(s) \ (Legacy \cup dropped \cup cut) :
       /\ table[e] # "absent" /\ e \notin due /\ e \in leased[s]
       /\ \A t \in Sender \ {s} : e \notin Held(t)

IInv == /\ TypeOK
        /\ IdleHoldsNothing
        /\ LeasesHold
        /\ BodiesConverted
        /\ AcksAreBilled
        /\ PreV2NeverSent
        /\ DeliveredIsBilled
        /\ AcceptedNotLost

-----------------------------------------------------------------------------
(* Liveness *)

\* Every posted event is eventually billed, or dropped after 24 h: a sender that
\* stops at any point, a lost answer or a failed mark only delays it.
EventuallyBilled ==
  \A e \in Event : (e \in posted) ~> (lab[e] = "billed" \/ e \in dropped)

=============================================================================

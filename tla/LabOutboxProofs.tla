--------------------------- MODULE LabOutboxProofs --------------------------
(***************************************************************************)
(* Proofs about LabOutbox, for any number of events and senders, whether or  *)
(* not old replicas are still running.                                       *)
(***************************************************************************)
EXTENDS LabOutbox, TLAPS

\* Every action keeps the types.
LEMMA TypeStep == TypeOK /\ [Next]_vars => TypeOK'
<1> SUFFICES ASSUME TypeOK, [Next]_vars
             PROVE  TypeOK'
  OBVIOUS
<1> USE DEF TypeOK, Pending
<1>1. ASSUME NEW E \in SUBSET Event, InsertMany(E)
      PROVE TypeOK'
  BY <1>1 DEF InsertMany, Convertible, NeedsPreV2Conversion, InsertRows, New,
     rowVars, senderVars
<1>2. ASSUME NEW E \in SUBSET Event, InsertOldReplica(E)
      PROVE TypeOK'
  BY <1>2 DEF InsertOldReplica, InsertRows, New, rowVars, senderVars
<1>3. ASSUME NEW e \in Event, ComesDue(e)
      PROVE TypeOK'
  BY <1>3 DEF ComesDue, rowVars, senderVars
<1>4. ASSUME NEW e \in Event, Ages(e)
      PROVE TypeOK'
  BY <1>4 DEF Ages, rowVars, senderVars
<1>5. ASSUME NEW e \in Event, PurgeDelivered(e)
      PROVE TypeOK'
  BY <1>5 DEF PurgeDelivered, rowVars, senderVars
<1>6. ASSUME NEW s \in Sender, ClaimDue(s)
      PROVE TypeOK'
  BY <1>6 DEF ClaimDue, NeedsPreV2Conversion, Claimed, Hold, Lease, rowVars,
     senderVars
<1>7. ASSUME NEW s \in Sender, ConvertPreV2AndReload(s)
      PROVE TypeOK'
  BY <1>7 DEF ConvertPreV2AndReload, Convertible, Hold, Lease, Overwritten,
     Held, rowVars, senderVars
<1>8. ASSUME NEW s \in Sender, NEW A \in SUBSET batch[s],
      Answered(s, A)
      PROVE TypeOK'
  BY <1>8 DEF Answered, LabTakes, rowVars, senderVars
<1>9. ASSUME NEW s \in Sender, NEW A \in SUBSET batch[s],
      AnswerLost(s, A)
      PROVE TypeOK'
  BY <1>9 DEF AnswerLost, LabTakes, rowVars, senderVars
<1>10. ASSUME NEW s \in Sender, MarkDelivered(s)
      PROVE TypeOK'
  BY <1>10 DEF MarkDelivered, rowVars, senderVars
<1>11. ASSUME NEW s \in Sender, MarkFails(s)
      PROVE TypeOK'
  BY <1>11 DEF MarkFails, rowVars, senderVars
<1>12. ASSUME NEW s \in Sender, Reschedule(s)
      PROVE TypeOK'
  BY <1>12 DEF Reschedule, Release, Hold, Overwritten, Held, rowVars, senderVars
<1>13. ASSUME NEW s \in Sender, Stop(s)
      PROVE TypeOK'
  BY <1>13 DEF Stop, Release, Hold, Overwritten, Held, rowVars, senderVars
<1>14. ASSUME NEW s \in Sender, LeaseEnds(s)
      PROVE TypeOK'
  BY <1>14 DEF LeaseEnds, rowVars, senderVars
<1>15. CASE DropStale
  BY <1>15 DEF DropStale, rowVars, senderVars
<1>16. CASE UNCHANGED vars
  BY <1>16 DEF vars, rowVars, senderVars
<1> QED
  BY <1>1, <1>2, <1>3, <1>4, <1>5, <1>6, <1>7, <1>8, <1>9, <1>10, <1>11,
     <1>12, <1>13, <1>14, <1>15, <1>16
     DEF Next, Deliver

\* A sender past the conversion holds no pre-v2 body.
LEMMA BodiesStep == TypeOK /\ BodiesConverted /\ [Next]_vars => BodiesConverted'
<1> SUFFICES ASSUME TypeOK, BodiesConverted, [Next]_vars
             PROVE  BodiesConverted'
  OBVIOUS
<1> USE DEF BodiesConverted, TypeOK
<1>1. ASSUME NEW E \in SUBSET Event, InsertMany(E)
      PROVE BodiesConverted'
  BY <1>1 DEF InsertMany, Convertible, NeedsPreV2Conversion, InsertRows, New,
     rowVars, senderVars
<1>2. ASSUME NEW E \in SUBSET Event, InsertOldReplica(E)
      PROVE BodiesConverted'
  BY <1>2 DEF InsertOldReplica, InsertRows, New, rowVars, senderVars
<1>3. ASSUME NEW e \in Event, ComesDue(e)
      PROVE BodiesConverted'
  BY <1>3 DEF ComesDue, rowVars, senderVars
<1>4. ASSUME NEW e \in Event, Ages(e)
      PROVE BodiesConverted'
  BY <1>4 DEF Ages, rowVars, senderVars
<1>5. ASSUME NEW e \in Event, PurgeDelivered(e)
      PROVE BodiesConverted'
  BY <1>5 DEF PurgeDelivered, rowVars, senderVars
<1>6. ASSUME NEW s \in Sender, ClaimDue(s)
      PROVE BodiesConverted'
  BY <1>6 DEF ClaimDue, NeedsPreV2Conversion, Claimed, Hold, Lease, rowVars,
     senderVars
<1>7. ASSUME NEW s \in Sender, ConvertPreV2AndReload(s)
      PROVE BodiesConverted'
  BY <1>7 DEF ConvertPreV2AndReload, Convertible, Hold, Lease, Overwritten,
     Held, rowVars, senderVars
<1>8. ASSUME NEW s \in Sender, NEW A \in SUBSET batch[s],
      Answered(s, A)
      PROVE BodiesConverted'
  BY <1>8 DEF Answered, LabTakes, rowVars, senderVars
<1>9. ASSUME NEW s \in Sender, NEW A \in SUBSET batch[s],
      AnswerLost(s, A)
      PROVE BodiesConverted'
  BY <1>9 DEF AnswerLost, LabTakes, rowVars, senderVars
<1>10. ASSUME NEW s \in Sender, MarkDelivered(s)
      PROVE BodiesConverted'
  BY <1>10 DEF MarkDelivered, rowVars, senderVars
<1>11. ASSUME NEW s \in Sender, MarkFails(s)
      PROVE BodiesConverted'
  BY <1>11 DEF MarkFails, rowVars, senderVars
<1>12. ASSUME NEW s \in Sender, Reschedule(s)
      PROVE BodiesConverted'
  BY <1>12 DEF Reschedule, Release, Hold, Overwritten, Held, rowVars, senderVars
<1>13. ASSUME NEW s \in Sender, Stop(s)
      PROVE BodiesConverted'
  BY <1>13 DEF Stop, Release, Hold, Overwritten, Held, rowVars, senderVars
<1>14. ASSUME NEW s \in Sender, LeaseEnds(s)
      PROVE BodiesConverted'
  BY <1>14 DEF LeaseEnds, rowVars, senderVars
<1>15. CASE DropStale
  BY <1>15 DEF DropStale, rowVars, senderVars
<1>16. CASE UNCHANGED vars
  BY <1>16 DEF vars, rowVars, senderVars
<1> QED
  BY <1>1, <1>2, <1>3, <1>4, <1>5, <1>6, <1>7, <1>8, <1>9, <1>10, <1>11,
     <1>12, <1>13, <1>14, <1>15, <1>16
     DEF Next, Deliver

\* What the Lab is sent is v2, so nothing is refused for good.
LEMMA SentStep == TypeOK /\ BodiesConverted /\ PreV2NeverSent /\ [Next]_vars => PreV2NeverSent'
<1> SUFFICES ASSUME TypeOK, BodiesConverted, PreV2NeverSent, [Next]_vars
             PROVE  PreV2NeverSent'
  OBVIOUS
<1> USE DEF PreV2NeverSent, BodiesConverted, TypeOK
<1>1. ASSUME NEW E \in SUBSET Event, InsertMany(E)
      PROVE PreV2NeverSent'
  BY <1>1 DEF InsertMany, Convertible, NeedsPreV2Conversion, InsertRows, New,
     rowVars, senderVars
<1>2. ASSUME NEW E \in SUBSET Event, InsertOldReplica(E)
      PROVE PreV2NeverSent'
  BY <1>2 DEF InsertOldReplica, InsertRows, New, rowVars, senderVars
<1>3. ASSUME NEW e \in Event, ComesDue(e)
      PROVE PreV2NeverSent'
  BY <1>3 DEF ComesDue, rowVars, senderVars
<1>4. ASSUME NEW e \in Event, Ages(e)
      PROVE PreV2NeverSent'
  BY <1>4 DEF Ages, rowVars, senderVars
<1>5. ASSUME NEW e \in Event, PurgeDelivered(e)
      PROVE PreV2NeverSent'
  BY <1>5 DEF PurgeDelivered, rowVars, senderVars
<1>6. ASSUME NEW s \in Sender, ClaimDue(s)
      PROVE PreV2NeverSent'
  BY <1>6 DEF ClaimDue, NeedsPreV2Conversion, Claimed, Hold, Lease, rowVars,
     senderVars
<1>7. ASSUME NEW s \in Sender, ConvertPreV2AndReload(s)
      PROVE PreV2NeverSent'
  BY <1>7 DEF ConvertPreV2AndReload, Convertible, Hold, Lease, Overwritten,
     Held, rowVars, senderVars
<1>8. ASSUME NEW s \in Sender, NEW A \in SUBSET batch[s],
      Answered(s, A)
      PROVE PreV2NeverSent'
  BY <1>8 DEF Answered, LabTakes, rowVars, senderVars
<1>9. ASSUME NEW s \in Sender, NEW A \in SUBSET batch[s],
      AnswerLost(s, A)
      PROVE PreV2NeverSent'
  BY <1>9 DEF AnswerLost, LabTakes, rowVars, senderVars
<1>10. ASSUME NEW s \in Sender, MarkDelivered(s)
      PROVE PreV2NeverSent'
  BY <1>10 DEF MarkDelivered, rowVars, senderVars
<1>11. ASSUME NEW s \in Sender, MarkFails(s)
      PROVE PreV2NeverSent'
  BY <1>11 DEF MarkFails, rowVars, senderVars
<1>12. ASSUME NEW s \in Sender, Reschedule(s)
      PROVE PreV2NeverSent'
  BY <1>12 DEF Reschedule, Release, Hold, Overwritten, Held, rowVars, senderVars
<1>13. ASSUME NEW s \in Sender, Stop(s)
      PROVE PreV2NeverSent'
  BY <1>13 DEF Stop, Release, Hold, Overwritten, Held, rowVars, senderVars
<1>14. ASSUME NEW s \in Sender, LeaseEnds(s)
      PROVE PreV2NeverSent'
  BY <1>14 DEF LeaseEnds, rowVars, senderVars
<1>15. CASE DropStale
  BY <1>15 DEF DropStale, rowVars, senderVars
<1>16. CASE UNCHANGED vars
  BY <1>16 DEF vars, rowVars, senderVars
<1> QED
  BY <1>1, <1>2, <1>3, <1>4, <1>5, <1>6, <1>7, <1>8, <1>9, <1>10, <1>11,
     <1>12, <1>13, <1>14, <1>15, <1>16
     DEF Next, Deliver

\* An acknowledged event is billed, and stays so.
LEMMA AcksStep == TypeOK /\ BodiesConverted /\ PreV2NeverSent /\ AcksAreBilled /\ [Next]_vars => AcksAreBilled'
<1> SUFFICES ASSUME TypeOK, BodiesConverted, PreV2NeverSent, AcksAreBilled, [Next]_vars
             PROVE  AcksAreBilled'
  OBVIOUS
<1> USE DEF AcksAreBilled, BodiesConverted, PreV2NeverSent, TypeOK
<1>1. ASSUME NEW E \in SUBSET Event, InsertMany(E)
      PROVE AcksAreBilled'
  BY <1>1 DEF InsertMany, Convertible, NeedsPreV2Conversion, InsertRows, New,
     rowVars, senderVars
<1>2. ASSUME NEW E \in SUBSET Event, InsertOldReplica(E)
      PROVE AcksAreBilled'
  BY <1>2 DEF InsertOldReplica, InsertRows, New, rowVars, senderVars
<1>3. ASSUME NEW e \in Event, ComesDue(e)
      PROVE AcksAreBilled'
  BY <1>3 DEF ComesDue, rowVars, senderVars
<1>4. ASSUME NEW e \in Event, Ages(e)
      PROVE AcksAreBilled'
  BY <1>4 DEF Ages, rowVars, senderVars
<1>5. ASSUME NEW e \in Event, PurgeDelivered(e)
      PROVE AcksAreBilled'
  BY <1>5 DEF PurgeDelivered, rowVars, senderVars
<1>6. ASSUME NEW s \in Sender, ClaimDue(s)
      PROVE AcksAreBilled'
  BY <1>6 DEF ClaimDue, NeedsPreV2Conversion, Claimed, Hold, Lease, rowVars,
     senderVars
<1>7. ASSUME NEW s \in Sender, ConvertPreV2AndReload(s)
      PROVE AcksAreBilled'
  BY <1>7 DEF ConvertPreV2AndReload, Convertible, Hold, Lease, Overwritten,
     Held, rowVars, senderVars
<1>8. ASSUME NEW s \in Sender, NEW A \in SUBSET batch[s],
      Answered(s, A)
      PROVE AcksAreBilled'
  BY <1>8 DEF Answered, LabTakes, rowVars, senderVars
<1>9. ASSUME NEW s \in Sender, NEW A \in SUBSET batch[s],
      AnswerLost(s, A)
      PROVE AcksAreBilled'
  BY <1>9 DEF AnswerLost, LabTakes, rowVars, senderVars
<1>10. ASSUME NEW s \in Sender, MarkDelivered(s)
      PROVE AcksAreBilled'
  BY <1>10 DEF MarkDelivered, rowVars, senderVars
<1>11. ASSUME NEW s \in Sender, MarkFails(s)
      PROVE AcksAreBilled'
  BY <1>11 DEF MarkFails, rowVars, senderVars
<1>12. ASSUME NEW s \in Sender, Reschedule(s)
      PROVE AcksAreBilled'
  BY <1>12 DEF Reschedule, Release, Hold, Overwritten, Held, rowVars, senderVars
<1>13. ASSUME NEW s \in Sender, Stop(s)
      PROVE AcksAreBilled'
  BY <1>13 DEF Stop, Release, Hold, Overwritten, Held, rowVars, senderVars
<1>14. ASSUME NEW s \in Sender, LeaseEnds(s)
      PROVE AcksAreBilled'
  BY <1>14 DEF LeaseEnds, rowVars, senderVars
<1>15. CASE DropStale
  BY <1>15 DEF DropStale, rowVars, senderVars
<1>16. CASE UNCHANGED vars
  BY <1>16 DEF vars, rowVars, senderVars
<1> QED
  BY <1>1, <1>2, <1>3, <1>4, <1>5, <1>6, <1>7, <1>8, <1>9, <1>10, <1>11,
     <1>12, <1>13, <1>14, <1>15, <1>16
     DEF Next, Deliver

\* Rows are marked delivered for acknowledged ids only.
LEMMA BilledStep == TypeOK /\ BodiesConverted /\ PreV2NeverSent /\ AcksAreBilled /\ DeliveredIsBilled /\ [Next]_vars => DeliveredIsBilled'
<1> SUFFICES ASSUME TypeOK, BodiesConverted, PreV2NeverSent, AcksAreBilled, DeliveredIsBilled, [Next]_vars
             PROVE  DeliveredIsBilled'
  OBVIOUS
<1> USE DEF DeliveredIsBilled, AcksAreBilled, BodiesConverted,
        PreV2NeverSent, TypeOK, Pending
<1>1. ASSUME NEW E \in SUBSET Event, InsertMany(E)
      PROVE DeliveredIsBilled'
  BY <1>1 DEF InsertMany, Convertible, NeedsPreV2Conversion, InsertRows, New,
     rowVars, senderVars
<1>2. ASSUME NEW E \in SUBSET Event, InsertOldReplica(E)
      PROVE DeliveredIsBilled'
  BY <1>2 DEF InsertOldReplica, InsertRows, New, rowVars, senderVars
<1>3. ASSUME NEW e \in Event, ComesDue(e)
      PROVE DeliveredIsBilled'
  BY <1>3 DEF ComesDue, rowVars, senderVars
<1>4. ASSUME NEW e \in Event, Ages(e)
      PROVE DeliveredIsBilled'
  BY <1>4 DEF Ages, rowVars, senderVars
<1>5. ASSUME NEW e \in Event, PurgeDelivered(e)
      PROVE DeliveredIsBilled'
  BY <1>5 DEF PurgeDelivered, rowVars, senderVars
<1>6. ASSUME NEW s \in Sender, ClaimDue(s)
      PROVE DeliveredIsBilled'
  BY <1>6 DEF ClaimDue, NeedsPreV2Conversion, Claimed, Hold, Lease, rowVars,
     senderVars
<1>7. ASSUME NEW s \in Sender, ConvertPreV2AndReload(s)
      PROVE DeliveredIsBilled'
  BY <1>7 DEF ConvertPreV2AndReload, Convertible, Hold, Lease, Overwritten,
     Held, rowVars, senderVars
<1>8. ASSUME NEW s \in Sender, NEW A \in SUBSET batch[s],
      Answered(s, A)
      PROVE DeliveredIsBilled'
  BY <1>8 DEF Answered, LabTakes, rowVars, senderVars
<1>9. ASSUME NEW s \in Sender, NEW A \in SUBSET batch[s],
      AnswerLost(s, A)
      PROVE DeliveredIsBilled'
  BY <1>9 DEF AnswerLost, LabTakes, rowVars, senderVars
<1>10. ASSUME NEW s \in Sender, MarkDelivered(s)
      PROVE DeliveredIsBilled'
  BY <1>10 DEF MarkDelivered, rowVars, senderVars
<1>11. ASSUME NEW s \in Sender, MarkFails(s)
      PROVE DeliveredIsBilled'
  BY <1>11 DEF MarkFails, rowVars, senderVars
<1>12. ASSUME NEW s \in Sender, Reschedule(s)
      PROVE DeliveredIsBilled'
  BY <1>12 DEF Reschedule, Release, Hold, Overwritten, Held, rowVars, senderVars
<1>13. ASSUME NEW s \in Sender, Stop(s)
      PROVE DeliveredIsBilled'
  BY <1>13 DEF Stop, Release, Hold, Overwritten, Held, rowVars, senderVars
<1>14. ASSUME NEW s \in Sender, LeaseEnds(s)
      PROVE DeliveredIsBilled'
  BY <1>14 DEF LeaseEnds, rowVars, senderVars
<1>15. CASE DropStale
  BY <1>15 DEF DropStale, rowVars, senderVars
<1>16. CASE UNCHANGED vars
  BY <1>16 DEF vars, rowVars, senderVars
<1> QED
  BY <1>1, <1>2, <1>3, <1>4, <1>5, <1>6, <1>7, <1>8, <1>9, <1>10, <1>11,
     <1>12, <1>13, <1>14, <1>15, <1>16
     DEF Next, Deliver

\* A row leaves the outbox delivered, hence billed, or dropped and logged.
LEMMA NotLostStep == TypeOK /\ DeliveredIsBilled /\ AcceptedNotLost /\ [Next]_vars => AcceptedNotLost'
<1> SUFFICES ASSUME TypeOK, DeliveredIsBilled, AcceptedNotLost, [Next]_vars
             PROVE  AcceptedNotLost'
  OBVIOUS
<1> USE DEF AcceptedNotLost, DeliveredIsBilled, TypeOK, Pending
<1>1. ASSUME NEW E \in SUBSET Event, InsertMany(E)
      PROVE AcceptedNotLost'
  BY <1>1 DEF InsertMany, Convertible, NeedsPreV2Conversion, InsertRows, New,
     rowVars, senderVars
<1>2. ASSUME NEW E \in SUBSET Event, InsertOldReplica(E)
      PROVE AcceptedNotLost'
  BY <1>2 DEF InsertOldReplica, InsertRows, New, rowVars, senderVars
<1>3. ASSUME NEW e \in Event, ComesDue(e)
      PROVE AcceptedNotLost'
  BY <1>3 DEF ComesDue, rowVars, senderVars
<1>4. ASSUME NEW e \in Event, Ages(e)
      PROVE AcceptedNotLost'
  BY <1>4 DEF Ages, rowVars, senderVars
<1>5. ASSUME NEW e \in Event, PurgeDelivered(e)
      PROVE AcceptedNotLost'
  BY <1>5 DEF PurgeDelivered, rowVars, senderVars
<1>6. ASSUME NEW s \in Sender, ClaimDue(s)
      PROVE AcceptedNotLost'
  BY <1>6 DEF ClaimDue, NeedsPreV2Conversion, Claimed, Hold, Lease, rowVars,
     senderVars
<1>7. ASSUME NEW s \in Sender, ConvertPreV2AndReload(s)
      PROVE AcceptedNotLost'
  BY <1>7 DEF ConvertPreV2AndReload, Convertible, Hold, Lease, Overwritten,
     Held, rowVars, senderVars
<1>8. ASSUME NEW s \in Sender, NEW A \in SUBSET batch[s],
      Answered(s, A)
      PROVE AcceptedNotLost'
  BY <1>8 DEF Answered, LabTakes, rowVars, senderVars
<1>9. ASSUME NEW s \in Sender, NEW A \in SUBSET batch[s],
      AnswerLost(s, A)
      PROVE AcceptedNotLost'
  BY <1>9 DEF AnswerLost, LabTakes, rowVars, senderVars
<1>10. ASSUME NEW s \in Sender, MarkDelivered(s)
      PROVE AcceptedNotLost'
  BY <1>10 DEF MarkDelivered, rowVars, senderVars
<1>11. ASSUME NEW s \in Sender, MarkFails(s)
      PROVE AcceptedNotLost'
  BY <1>11 DEF MarkFails, rowVars, senderVars
<1>12. ASSUME NEW s \in Sender, Reschedule(s)
      PROVE AcceptedNotLost'
  BY <1>12 DEF Reschedule, Release, Hold, Overwritten, Held, rowVars, senderVars
<1>13. ASSUME NEW s \in Sender, Stop(s)
      PROVE AcceptedNotLost'
  BY <1>13 DEF Stop, Release, Hold, Overwritten, Held, rowVars, senderVars
<1>14. ASSUME NEW s \in Sender, LeaseEnds(s)
      PROVE AcceptedNotLost'
  BY <1>14 DEF LeaseEnds, rowVars, senderVars
<1>15. CASE DropStale
  BY <1>15 DEF DropStale, rowVars, senderVars
<1>16. CASE UNCHANGED vars
  BY <1>16 DEF vars, rowVars, senderVars
<1> QED
  BY <1>1, <1>2, <1>3, <1>4, <1>5, <1>6, <1>7, <1>8, <1>9, <1>10, <1>11,
     <1>12, <1>13, <1>14, <1>15, <1>16
     DEF Next, Deliver

\* A sender lets go of its rows when its attempt ends.
LEMMA IdleStep == TypeOK /\ IdleHoldsNothing /\ [Next]_vars => IdleHoldsNothing'
<1> SUFFICES ASSUME TypeOK, IdleHoldsNothing, [Next]_vars
             PROVE  IdleHoldsNothing'
  OBVIOUS
<1> USE DEF IdleHoldsNothing, TypeOK
<1>1. ASSUME NEW E \in SUBSET Event, InsertMany(E)
      PROVE IdleHoldsNothing'
  BY <1>1 DEF InsertMany, Convertible, NeedsPreV2Conversion, InsertRows, New,
     rowVars, senderVars
<1>2. ASSUME NEW E \in SUBSET Event, InsertOldReplica(E)
      PROVE IdleHoldsNothing'
  BY <1>2 DEF InsertOldReplica, InsertRows, New, rowVars, senderVars
<1>3. ASSUME NEW e \in Event, ComesDue(e)
      PROVE IdleHoldsNothing'
  BY <1>3 DEF ComesDue, rowVars, senderVars
<1>4. ASSUME NEW e \in Event, Ages(e)
      PROVE IdleHoldsNothing'
  BY <1>4 DEF Ages, rowVars, senderVars
<1>5. ASSUME NEW e \in Event, PurgeDelivered(e)
      PROVE IdleHoldsNothing'
  BY <1>5 DEF PurgeDelivered, rowVars, senderVars
<1>6. ASSUME NEW s \in Sender, ClaimDue(s)
      PROVE IdleHoldsNothing'
  BY <1>6 DEF ClaimDue, NeedsPreV2Conversion, Claimed, Hold, Lease, rowVars,
     senderVars
<1>7. ASSUME NEW s \in Sender, ConvertPreV2AndReload(s)
      PROVE IdleHoldsNothing'
  BY <1>7 DEF ConvertPreV2AndReload, Convertible, Hold, Lease, Overwritten,
     Held, rowVars, senderVars
<1>8. ASSUME NEW s \in Sender, NEW A \in SUBSET batch[s],
      Answered(s, A)
      PROVE IdleHoldsNothing'
  BY <1>8 DEF Answered, LabTakes, rowVars, senderVars
<1>9. ASSUME NEW s \in Sender, NEW A \in SUBSET batch[s],
      AnswerLost(s, A)
      PROVE IdleHoldsNothing'
  BY <1>9 DEF AnswerLost, LabTakes, rowVars, senderVars
<1>10. ASSUME NEW s \in Sender, MarkDelivered(s)
      PROVE IdleHoldsNothing'
  BY <1>10 DEF MarkDelivered, rowVars, senderVars
<1>11. ASSUME NEW s \in Sender, MarkFails(s)
      PROVE IdleHoldsNothing'
  BY <1>11 DEF MarkFails, rowVars, senderVars
<1>12. ASSUME NEW s \in Sender, Reschedule(s)
      PROVE IdleHoldsNothing'
  BY <1>12 DEF Reschedule, Release, Hold, Overwritten, Held, rowVars, senderVars
<1>13. ASSUME NEW s \in Sender, Stop(s)
      PROVE IdleHoldsNothing'
  BY <1>13 DEF Stop, Release, Hold, Overwritten, Held, rowVars, senderVars
<1>14. ASSUME NEW s \in Sender, LeaseEnds(s)
      PROVE IdleHoldsNothing'
  BY <1>14 DEF LeaseEnds, rowVars, senderVars
<1>15. CASE DropStale
  BY <1>15 DEF DropStale, rowVars, senderVars
<1>16. CASE UNCHANGED vars
  BY <1>16 DEF vars, rowVars, senderVars
<1> QED
  BY <1>1, <1>2, <1>3, <1>4, <1>5, <1>6, <1>7, <1>8, <1>9, <1>10, <1>11,
     <1>12, <1>13, <1>14, <1>15, <1>16
     DEF Next, Deliver

\* A v2 row held on time stays so until its sender lets go, its lease runs out
\* or is overwritten by a lapsed sender, or the row is dropped.
LEMMA LeasesStep == TypeOK /\ IdleHoldsNothing /\ LeasesHold /\ [Next]_vars => LeasesHold'
<1> SUFFICES ASSUME TypeOK, IdleHoldsNothing, LeasesHold, [Next]_vars
             PROVE  LeasesHold'
  OBVIOUS
<1> USE DEF LeasesHold, Held, IdleHoldsNothing, TypeOK, Pending
<1>1. ASSUME NEW E \in SUBSET Event, InsertMany(E)
      PROVE LeasesHold'
  BY <1>1 DEF InsertMany, Convertible, NeedsPreV2Conversion, InsertRows, New,
     rowVars, senderVars
<1>2. ASSUME NEW E \in SUBSET Event, InsertOldReplica(E)
      PROVE LeasesHold'
  BY <1>2 DEF InsertOldReplica, InsertRows, New, rowVars, senderVars
<1>3. ASSUME NEW e \in Event, ComesDue(e)
      PROVE LeasesHold'
  BY <1>3 DEF ComesDue, rowVars, senderVars
<1>4. ASSUME NEW e \in Event, Ages(e)
      PROVE LeasesHold'
  BY <1>4 DEF Ages, rowVars, senderVars
<1>5. ASSUME NEW e \in Event, PurgeDelivered(e)
      PROVE LeasesHold'
  BY <1>5 DEF PurgeDelivered, rowVars, senderVars
<1>6. ASSUME NEW s \in Sender, ClaimDue(s)
      PROVE LeasesHold'
  BY <1>6 DEF ClaimDue, NeedsPreV2Conversion, Claimed, Hold, Lease, rowVars,
     senderVars
<1>7. ASSUME NEW s \in Sender, ConvertPreV2AndReload(s)
      PROVE LeasesHold'
  BY <1>7 DEF ConvertPreV2AndReload, Convertible, Hold, Lease, Overwritten,
     Held, rowVars, senderVars
<1>8. ASSUME NEW s \in Sender, NEW A \in SUBSET batch[s],
      Answered(s, A)
      PROVE LeasesHold'
  BY <1>8 DEF Answered, LabTakes, rowVars, senderVars
<1>9. ASSUME NEW s \in Sender, NEW A \in SUBSET batch[s],
      AnswerLost(s, A)
      PROVE LeasesHold'
  BY <1>9 DEF AnswerLost, LabTakes, rowVars, senderVars
<1>10. ASSUME NEW s \in Sender, MarkDelivered(s)
      PROVE LeasesHold'
  BY <1>10 DEF MarkDelivered, rowVars, senderVars
<1>11. ASSUME NEW s \in Sender, MarkFails(s)
      PROVE LeasesHold'
  BY <1>11 DEF MarkFails, rowVars, senderVars
<1>12. ASSUME NEW s \in Sender, Reschedule(s)
      PROVE LeasesHold'
  BY <1>12 DEF Reschedule, Release, Hold, Overwritten, Held, rowVars, senderVars
<1>13. ASSUME NEW s \in Sender, Stop(s)
      PROVE LeasesHold'
  BY <1>13 DEF Stop, Release, Hold, Overwritten, Held, rowVars, senderVars
<1>14. ASSUME NEW s \in Sender, LeaseEnds(s)
      PROVE LeasesHold'
  BY <1>14 DEF LeaseEnds, rowVars, senderVars
<1>15. CASE DropStale
  BY <1>15 DEF DropStale, rowVars, senderVars
<1>16. CASE UNCHANGED vars
  BY <1>16 DEF vars, rowVars, senderVars
<1> QED
  BY <1>1, <1>2, <1>3, <1>4, <1>5, <1>6, <1>7, <1>8, <1>9, <1>10, <1>11,
     <1>12, <1>13, <1>14, <1>15, <1>16
     DEF Next, Deliver

\* The empty outbox satisfies every part of the invariant.
LEMMA InitInvariant == Init => IInv
BY OutboxAssumption DEF Init, IInv, TypeOK, LeasesHold, Held, IdleHoldsNothing, BodiesConverted,
   AcksAreBilled, PreV2NeverSent, DeliveredIsBilled, AcceptedNotLost

\* IInv is an inductive invariant of the outbox and its senders.
THEOREM Invariance == Spec => []IInv
<1>1. IInv /\ [Next]_vars => IInv'
  BY TypeStep, IdleStep, LeasesStep, BodiesStep, SentStep, AcksStep,
     BilledStep, NotLostStep
     DEF IInv
<1> QED BY InitInvariant, <1>1, PTL DEF Spec

\* A row is never marked delivered unless the Lab has billed its event.
THEOREM DeliveredMeansBilled == Spec => []DeliveredIsBilled
<1>1. IInv => DeliveredIsBilled
  BY DEF IInv
<1> QED BY Invariance, <1>1, PTL

\* No pre-v2 body is ever sent: no event's id is consumed without being billed.
THEOREM NoEventConsumedUnbilled == Spec => []PreV2NeverSent
<1>1. IInv => PreV2NeverSent
  BY DEF IInv
<1> QED BY Invariance, <1>1, PTL

\* A v2 row is in the hands of one sender at a time that is within its lease,
\* until
\* a sender past its own overwrites the lease, or the row is dropped: whatever
\* stops, fails, is retried, converted or purged.
THEOREM LeasesExclude == Spec => []ExclusiveWhileOnTime
<1>1. IInv => ExclusiveWhileOnTime
  BY DEF IInv, TypeOK, LeasesHold, Held, ExclusiveWhileOnTime, SentTwice
<1> QED BY Invariance, <1>1, PTL

\* An event answered 202 is in the outbox, billed, or dropped with a log line.
THEOREM NoSilentLoss == Spec => []AcceptedNotLost
<1>1. IInv => AcceptedNotLost
  BY DEF IInv
<1> QED BY Invariance, <1>1, PTL

\* Whatever replicas run, no event is marked done or consumed by the Lab
\* unbilled.
THEOREM NoEventLeftUnbilled == Spec => []NeverDoneUnbilled
BY DeliveredMeansBilled, NoEventConsumedUnbilled, PTL DEF NeverDoneUnbilled

=============================================================================

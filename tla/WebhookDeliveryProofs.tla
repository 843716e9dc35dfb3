------------------------ MODULE WebhookDeliveryProofs ------------------------
(***************************************************************************)
(* Proofs about the delivery loop, for any events, schedule and batch      *)
(* size.  Most of the theorems assume what run_server does, one loop:      *)
(* OneLoop.  That is where the clones of a batch get their worth from, no  *)
(* UPDATE of the outbox having a status in its WHERE clause.               *)
(***************************************************************************)
EXTENDS WebhookDelivery, TLAPS

OneLoop == \A d, e \in Deliverers : d = e

\* A clone is the row it was read from: the loop is the only one to update a
\* row that is due, and it does so once per clone.
Current(row) ==
  /\ row.id \in EventIds
  /\ events[row.id] = row
  /\ row.status = "pending"
  /\ row.next_attempt_at <= now

Delivering(d) == pc[d] \in {"post", "accepted", "refused"}

ClonesAreRows ==
  \A d \in Deliverers :
    /\ \A row \in todo[d] : Current(row)
    /\ Delivering(d) => Current(cur[d]) /\ cur[d] \notin todo[d]

\* What the row of an event, its pause and its attempts have to do with each other.
RowsCount ==
  \A e \in EventIds :
    /\ events[e].id = e
    /\ events[e].status = "absent" => events[e].attempts = 0
    /\ events[e].status = "pending" => events[e].attempts < MaxTries
    /\ events[e].status = "pending" /\ events[e].attempts > 0 =>
         /\ failedAt[e] \in Nat
         /\ events[e].next_attempt_at = failedAt[e] + BackoffSchedule[events[e].attempts]

\* What the answer to the last POST was is known until it is recorded.
AnswersKnown ==
  \A d \in Deliverers :
    /\ pc[d] = "accepted" => cur[d].id \in received
    /\ pc[d] = "refused" => cur[d].attempts < tries[cur[d].id]

DeliveryInv ==
  /\ DeliveryTypeOK
  /\ RowsCount
  /\ ClonesAreRows
  /\ AnswersKnown
  /\ DeliveredWasReceived
  /\ FailedAfterAllTries

-----------------------------------------------------------------------------
\* The schedule and the rows.

\* The schedule gives a pause after every attempt but the last.
LEMMA ScheduleFacts ==
  /\ Len(BackoffSchedule) \in Nat /\ MaxTries \in Nat /\ MaxTries = Len(BackoffSchedule) + 1
  /\ \A n \in Nat : n > 0 /\ n < MaxTries =>
        NextBackoff(n) = BackoffSchedule[n] /\ NextBackoff(n) \in Nat /\ NextBackoff(n) # None
  /\ NextBackoff(MaxTries) = None
<1>1. Len(BackoffSchedule) \in Nat /\ MaxTries = Len(BackoffSchedule) + 1
  BY DeliveryAssumption DEF MaxTries
<1>2. \A n \in Nat : n > 0 /\ n < MaxTries => BackoffSchedule[n] \in Nat
  BY <1>1, DeliveryAssumption
<1> QED BY <1>1, <1>2, DeliveryAssumption DEF NextBackoff

\* What mark_failed writes, with the pause that follows this failure.
LEMMA AfterFailureRow ==
  ASSUME NEW row \in Row, row.attempts < MaxTries, now \in Nat,
         NEW after, after = AfterFailure(row, NextBackoff(row.attempts + 1))
  PROVE  /\ after \in Row
         /\ after.id = row.id
         /\ after.attempts = row.attempts + 1
         /\ \/ /\ after.status = "failed" /\ after.next_attempt_at = None
               /\ after.attempts = MaxTries
            \/ /\ after.status = "pending" /\ after.attempts < MaxTries
               /\ after.next_attempt_at = now + BackoffSchedule[after.attempts]
               /\ after.next_attempt_at \in Nat
<1> DEFINE next == NextBackoff(row.attempts + 1)
<1>1. /\ row.attempts \in Nat /\ row.attempts + 1 \in 0..MaxTries
      /\ MaxTries \in Nat
  BY ScheduleFacts DEF Row
<1>2. /\ after.id = row.id
      /\ after.attempts = row.attempts + 1
      /\ after.status = IF next = None THEN "failed" ELSE "pending"
      /\ after.next_attempt_at = IF next = None THEN None ELSE now + next
      /\ after = [id |-> row.id, status |-> after.status, attempts |-> after.attempts,
                  next_attempt_at |-> after.next_attempt_at]
  BY DEF AfterFailure, Row
<1>3. CASE row.attempts + 1 < MaxTries
  <2>1. next = BackoffSchedule[row.attempts + 1] /\ next \in Nat /\ next # None
    BY <1>1, <1>3, ScheduleFacts
  <2> HIDE DEF next
  <2>2. now + next \in Nat
    BY <2>1
  <2> QED BY <1>1, <1>2, <1>3, <2>1, <2>2 DEF Row
<1>4. CASE row.attempts + 1 = MaxTries
  <2>1. next = None
    BY <1>1, <1>4, ScheduleFacts
  <2> HIDE DEF next
  <2> QED BY <1>1, <1>2, <1>4, <2>1 DEF Row
<1> QED BY <1>1, <1>3, <1>4

\* While a loop delivers an event, the event's row is the clone it holds.
LEMMA DeliveringHolds ==
  ASSUME DeliveryInv, NEW d \in Deliverers, Delivering(d)
  PROVE  /\ cur[d] \in Row /\ cur[d].id \in EventIds
         /\ events[cur[d].id] = cur[d]
         /\ cur[d].status = "pending"
         /\ cur[d].attempts < MaxTries
         /\ cur[d].next_attempt_at \in Nat /\ cur[d].next_attempt_at <= now
         /\ cur[d] \notin todo[d]
<1>1. Current(cur[d]) /\ cur[d] \notin todo[d]
  BY DEF DeliveryInv, ClonesAreRows
<1>2. cur[d].id \in EventIds /\ events[cur[d].id] = cur[d] /\ cur[d].status = "pending"
  BY <1>1 DEF Current
<1>3. cur[d] \in Row
  BY <1>2 DEF DeliveryInv, DeliveryTypeOK
<1> QED BY <1>1, <1>2, <1>3 DEF DeliveryInv, DeliveryTypeOK, RowsCount, Current, Row

-----------------------------------------------------------------------------
\* One lemma per step.

\* An event is enqueued under an id no row has.
LEMMA EnqueueDelivers ==
  ASSUME DeliveryInv, NEW e \in EventIds, Enqueue(e)
  PROVE  DeliveryInv'
<1> USE DEF DeliveryInv
<1> DEFINE row == [events[e] EXCEPT !.status = "pending", !.next_attempt_at = now]
<1>1. /\ events[e] \in Row /\ events[e].status = "absent" /\ now \in Nat
      /\ events' = [events EXCEPT ![e] = row]
      /\ UNCHANGED <<pc, todo, cur, now, received, tries, failedAt>>
  BY DEF Enqueue, DeliveryTypeOK, loopVars, historyVars
<1>2. /\ row \in Row /\ row.id = events[e].id /\ row.status = "pending"
      /\ row.attempts = events[e].attempts /\ row.next_attempt_at = now
  BY <1>1 DEF Row
<1> HIDE DEF row
<1>3. events'[e] = row /\ \A f \in EventIds : f # e => events'[f] = events[f]
  BY <1>1 DEF DeliveryTypeOK
<1>4. DeliveryTypeOK'
  BY <1>1, <1>2, <1>3, DeliveryAssumption DEF DeliveryTypeOK
<1>5. RowsCount'
  BY <1>1, <1>2, <1>3, ScheduleFacts DEF RowsCount
<1>6. ClonesAreRows'
  BY <1>1, <1>3 DEF ClonesAreRows, Current, Delivering
<1>7. AnswersKnown'
  BY <1>1 DEF AnswersKnown
<1>8. DeliveredWasReceived' /\ FailedAfterAllTries'
  BY <1>1, <1>2, <1>3 DEF DeliveredWasReceived, FailedAfterAllTries
<1> QED BY <1>4, <1>5, <1>6, <1>7, <1>8

\* Time passes to the next moment a row is due.
LEMMA TickDelivers ==
  ASSUME DeliveryInv, Tick
  PROVE  DeliveryInv'
<1> USE DEF DeliveryInv
<1>1. UNCHANGED <<events, pc, todo, cur, received, tries, failedAt>>
  BY DEF Tick, loopVars, historyVars
<1>2. now \in Nat /\ now' \in Nat /\ now <= now'
  <2>1. PICK t \in DueTimes : t > now /\ now' = t
    BY DEF Tick
  <2>2. t \in Nat
    BY <2>1 DEF DueTimes, DeliveryTypeOK, Row
  <2> QED BY <2>1, <2>2 DEF DeliveryTypeOK
<1>3. \A row : Current(row) => Current(row)'
  <2> SUFFICES ASSUME NEW row, Current(row) PROVE Current(row)'
    OBVIOUS
  <2>1. row.next_attempt_at \in Nat
    BY DEF Current, DeliveryTypeOK, Row
  <2> QED BY <1>1, <1>2, <2>1 DEF Current
<1>4. ClonesAreRows'
  BY <1>1, <1>3 DEF ClonesAreRows, Delivering
<1>5. DeliveryTypeOK' /\ RowsCount' /\ AnswersKnown' /\ DeliveredWasReceived'
      /\ FailedAfterAllTries'
  BY <1>1, <1>2 DEF DeliveryTypeOK, RowsCount, AnswersKnown, DeliveredWasReceived,
     FailedAfterAllTries
<1> QED BY <1>4, <1>5

\* Reading the due rows and taking the next of the batch.
LEMMA BatchDelivers ==
  ASSUME DeliveryInv, NEW d \in Deliverers, FetchDue(d) \/ Take(d) \/ EndBatch(d)
  PROVE  DeliveryInv'
<1> USE DEF DeliveryInv
<1>1. UNCHANGED <<events, now, received, tries, failedAt>>
  BY DEF FetchDue, Take, EndBatch, historyVars
<1>2. /\ pc \in [Deliverers -> {"idle", "batch", "post", "accepted", "refused"}]
      /\ todo \in [Deliverers -> SUBSET Row] /\ cur \in [Deliverers -> Row \union {None}]
  BY DEF DeliveryTypeOK
<1>3. RowsCount' /\ DeliveredWasReceived' /\ FailedAfterAllTries'
  BY <1>1 DEF RowsCount, DeliveredWasReceived, FailedAfterAllTries
<1>4. \A row : Current(row) => Current(row)'
  BY <1>1 DEF Current
<1>5. CASE FetchDue(d)
  <2>1. PICK batch \in SUBSET Due : todo' = [todo EXCEPT ![d] = batch]
    BY <1>5 DEF FetchDue
  <2>2. pc' = [pc EXCEPT ![d] = "batch"] /\ cur' = cur
    BY <1>5 DEF FetchDue
  <2>3. \A row \in batch : row \in Row /\ Current(row)
    BY DEF Due, Current, DeliveryTypeOK, RowsCount
  <2>4. DeliveryTypeOK'
    BY <1>1, <2>1, <2>2, <2>3 DEF DeliveryTypeOK
  <2>5. ClonesAreRows'
    BY <1>2, <1>4, <2>1, <2>2, <2>3 DEF ClonesAreRows, Delivering
  <2>6. AnswersKnown'
    BY <1>1, <1>2, <2>2 DEF AnswersKnown
  <2> QED BY <1>3, <2>4, <2>5, <2>6
<1>6. CASE Take(d)
  <2>1. PICK row \in todo[d] : /\ cur' = [cur EXCEPT ![d] = row]
                               /\ todo' = [todo EXCEPT ![d] = @ \ {row}]
    BY <1>6 DEF Take
  <2>2. pc[d] = "batch" /\ pc' = [pc EXCEPT ![d] = "post"]
    BY <1>6 DEF Take
  <2>3. row \in Row /\ Current(row)
    BY <1>2 DEF ClonesAreRows
  <2>4. DeliveryTypeOK'
    BY <1>1, <2>1, <2>2, <2>3 DEF DeliveryTypeOK
  <2>5. ClonesAreRows'
    BY <1>2, <1>4, <2>1, <2>2, <2>3 DEF ClonesAreRows, Delivering
  <2>6. AnswersKnown'
    BY <1>1, <1>2, <2>1, <2>2 DEF AnswersKnown
  <2> QED BY <1>3, <2>4, <2>5, <2>6
<1>7. CASE EndBatch(d)
  <2>1. pc' = [pc EXCEPT ![d] = "idle"] /\ UNCHANGED <<todo, cur>>
    BY <1>7 DEF EndBatch
  <2>2. DeliveryTypeOK'
    BY <1>1, <2>1 DEF DeliveryTypeOK
  <2>3. ClonesAreRows' /\ AnswersKnown'
    BY <1>1, <1>2, <1>4, <2>1 DEF ClonesAreRows, Delivering, AnswersKnown
  <2> QED BY <1>3, <2>2, <2>3
<1> QED BY <1>5, <1>6, <1>7

\* What Post does, with its two answers written out.
LEMMA PostEffect ==
  ASSUME NEW d \in Deliverers, Post(d)
  PROVE  LET e == cur[d].id IN
         \E accepted, answered \in BOOLEAN :
           /\ pc[d] = "post"
           /\ received' = IF accepted THEN received \union {e} ELSE received
           /\ tries' = IF (accepted /\ answered) \/ tries[e] = MaxTries THEN tries
                       ELSE [tries EXCEPT ![e] = tries[e] + 1]
           /\ pc' = [pc EXCEPT ![d] = IF accepted /\ answered THEN "accepted" ELSE "refused"]
           /\ UNCHANGED <<events, todo, cur, now, failedAt>>
BY DEF Post, Delivered

\* The merchant answers, or does not.
LEMMA PostDelivers ==
  ASSUME OneLoop, DeliveryInv, NEW d \in Deliverers, Post(d)
  PROVE  DeliveryInv'
<1> USE DEF DeliveryInv
<1> DEFINE e == cur[d].id
<1>1. PICK accepted, answered \in BOOLEAN :
        /\ pc[d] = "post"
        /\ received' = IF accepted THEN received \union {e} ELSE received
        /\ tries' = IF (accepted /\ answered) \/ tries[e] = MaxTries THEN tries
                    ELSE [tries EXCEPT ![e] = tries[e] + 1]
        /\ pc' = [pc EXCEPT ![d] = IF accepted /\ answered THEN "accepted" ELSE "refused"]
        /\ UNCHANGED <<events, todo, cur, now, failedAt>>
  BY PostEffect
<1>2. /\ e \in EventIds /\ events[e] = cur[d] /\ cur[d].attempts < MaxTries
      /\ cur[d].attempts \in Nat
  BY <1>1, DeliveringHolds DEF Delivering, Row, MaxTries
<1>3. tries[e] \in 0..MaxTries /\ cur[d].attempts <= tries[e] /\ MaxTries \in Nat
  BY <1>2, ScheduleFacts DEF DeliveryTypeOK, FailedAfterAllTries
<1>4. /\ tries'[e] \in 0..MaxTries /\ tries[e] <= tries'[e]
      /\ ~ (accepted /\ answered) => cur[d].attempts < tries'[e]
      /\ \A f \in EventIds : f # e => tries'[f] = tries[f]
      /\ tries' \in [EventIds -> 0..MaxTries]
  BY <1>1, <1>2, <1>3 DEF DeliveryTypeOK
<1>5. received \subseteq received' /\ (accepted => e \in received') /\ received' \subseteq EventIds
  BY <1>1, <1>2 DEF DeliveryTypeOK
<1>6. /\ pc'[d] = IF accepted /\ answered THEN "accepted" ELSE "refused"
      /\ \A c \in Deliverers : c # d => pc'[c] = pc[c]
  BY <1>1 DEF DeliveryTypeOK
<1>7. DeliveryTypeOK'
  BY <1>1, <1>4, <1>5 DEF DeliveryTypeOK
<1>8. RowsCount'
  BY <1>1 DEF RowsCount
<1>9. ClonesAreRows'
  BY <1>1, <1>6 DEF ClonesAreRows, Current, Delivering
<1>10. AnswersKnown'
  BY <1>1, <1>4, <1>5, <1>6 DEF AnswersKnown, OneLoop
<1>11. DeliveredWasReceived'
  BY <1>1, <1>5 DEF DeliveredWasReceived
<1>12. FailedAfterAllTries'
  <2> SUFFICES ASSUME NEW f \in EventIds
               PROVE  /\ events[f].status = "failed" => tries'[f] = MaxTries
                      /\ events[f].attempts <= tries'[f]
    BY <1>1 DEF FailedAfterAllTries
  <2>1. CASE f = e
    BY <1>1, <1>2, <1>3, <1>4, <2>1, DeliveringHolds DEF Delivering
  <2>2. CASE f # e
    BY <1>4, <2>2 DEF FailedAfterAllTries
  <2> QED BY <2>1, <2>2
<1> QED BY <1>7, <1>8, <1>9, <1>10, <1>11, <1>12

\* The row of the event in hand is written; no clone left in the batch is of
\* that event.
LEMMA UpdateKeepsClones ==
  ASSUME OneLoop, DeliveryInv, NEW d \in Deliverers, Delivering(d),
         \A f \in EventIds : f # cur[d].id => events'[f] = events[f],
         NextInBatch(d), UNCHANGED now
  PROVE  ClonesAreRows'
<1>1. /\ pc \in [Deliverers -> {"idle", "batch", "post", "accepted", "refused"}]
      /\ cur \in [Deliverers -> Row \union {None}]
  BY DEF DeliveryInv, DeliveryTypeOK
<1>2. pc'[d] = "batch" /\ todo' = todo
  BY <1>1 DEF NextInBatch
<1>3. events[cur[d].id] = cur[d] /\ cur[d] \notin todo[d]
  BY DeliveringHolds
<1>4. \A row \in todo[d] : Current(row)'
  <2> SUFFICES ASSUME NEW row \in todo[d] PROVE Current(row)'
    OBVIOUS
  <2>1. Current(row)
    BY DEF DeliveryInv, ClonesAreRows
  <2>2. row.id # cur[d].id
    BY <1>3, <2>1 DEF Current
  <2> QED BY <2>1, <2>2 DEF Current
<1> QED BY <1>2, <1>4 DEF ClonesAreRows, Delivering, OneLoop

\* A delivery is recorded on the row the clone was read from.
LEMMA MarkDeliveredDelivers ==
  ASSUME OneLoop, DeliveryInv, NEW d \in Deliverers, MarkDelivered(d)
  PROVE  DeliveryInv'
<1> USE DEF DeliveryInv
<1> DEFINE e == cur[d].id
           row == [cur[d] EXCEPT !.status = "delivered", !.next_attempt_at = None]
<1>1. pc[d] = "accepted" /\ Delivering(d)
  BY DEF MarkDelivered, Delivering
<1>2. /\ e \in EventIds /\ cur[d] \in Row /\ events[e] = cur[d]
  BY <1>1, DeliveringHolds
<1>3. /\ events' = [events EXCEPT ![e] = row]
      /\ UNCHANGED <<todo, now, received, tries, failedAt>>
      /\ pc' = [pc EXCEPT ![d] = "batch"] /\ cur' = [cur EXCEPT ![d] = None]
      /\ NextInBatch(d)
  BY <1>2 DEF MarkDelivered, NextInBatch, historyVars, DeliveryTypeOK
<1>4. /\ row \in Row /\ row.id = cur[d].id /\ row.status = "delivered"
      /\ row.attempts = cur[d].attempts /\ row.next_attempt_at = None
  BY <1>2 DEF Row
<1> HIDE DEF row
<1>5. events'[e] = row /\ \A f \in EventIds : f # e => events'[f] = events[f]
  BY <1>2, <1>3 DEF DeliveryTypeOK
<1>6. DeliveryTypeOK'
  BY <1>2, <1>3, <1>4, <1>5 DEF DeliveryTypeOK
<1>7. RowsCount'
  BY <1>2, <1>3, <1>4, <1>5 DEF RowsCount
<1>8. ClonesAreRows'
  BY <1>1, <1>3, <1>5, UpdateKeepsClones
<1>9. AnswersKnown'
  BY <1>3 DEF AnswersKnown, DeliveryTypeOK, OneLoop
<1>10. DeliveredWasReceived'
  BY <1>1, <1>3, <1>4, <1>5 DEF DeliveredWasReceived, AnswersKnown
<1>11. FailedAfterAllTries'
  BY <1>2, <1>3, <1>4, <1>5 DEF FailedAfterAllTries
<1> QED BY <1>6, <1>7, <1>8, <1>9, <1>10, <1>11

\* What mark_failed does: the clone it counts from is the row it writes.
LEMMA MarkFailedEffect ==
  ASSUME DeliveryInv, NEW d \in Deliverers, MarkFailed(d)
  PROVE  LET e == cur[d].id IN
         /\ pc[d] = "refused" /\ Delivering(d)
         /\ e \in EventIds /\ cur[d] \in Row /\ events[e] = cur[d]
         /\ events' = [events EXCEPT ![e] = AfterFailure(cur[d], NextBackoff(cur[d].attempts + 1))]
         /\ failedAt' = [failedAt EXCEPT ![e] = now]
         /\ UNCHANGED <<todo, now, received, tries>>
         /\ pc' = [pc EXCEPT ![d] = "batch"] /\ cur' = [cur EXCEPT ![d] = None]
         /\ NextInBatch(d)
<1> DEFINE e == cur[d].id
<1>1. pc[d] = "refused" /\ Delivering(d)
  BY DEF MarkFailed, Delivering
<1>2. e \in EventIds /\ cur[d] \in Row /\ events[e] = cur[d]
  BY <1>1, DeliveringHolds
<1>3. /\ events' = [events EXCEPT ![e] = AfterFailure(events[e], NextBackoff(cur[d].attempts + 1))]
      /\ failedAt' = [failedAt EXCEPT ![e] = now]
      /\ UNCHANGED <<now, received, tries>>
      /\ NextInBatch(d)
  BY <1>2 DEF MarkFailed, DeliveryInv, DeliveryTypeOK
<1> QED BY <1>1, <1>2, <1>3 DEF NextInBatch

\* A failure is recorded: the row counts it and waits, or is given up.
LEMMA MarkFailedDelivers ==
  ASSUME OneLoop, DeliveryInv, NEW d \in Deliverers, MarkFailed(d)
  PROVE  DeliveryInv'
<1> USE DEF DeliveryInv
<1> DEFINE e == cur[d].id
           after == AfterFailure(cur[d], NextBackoff(cur[d].attempts + 1))
<1>1. /\ pc[d] = "refused" /\ Delivering(d)
      /\ e \in EventIds /\ cur[d] \in Row /\ events[e] = cur[d]
      /\ events' = [events EXCEPT ![e] = after]
      /\ failedAt' = [failedAt EXCEPT ![e] = now]
      /\ UNCHANGED <<todo, now, received, tries>>
      /\ pc' = [pc EXCEPT ![d] = "batch"] /\ cur' = [cur EXCEPT ![d] = None]
      /\ NextInBatch(d)
  BY MarkFailedEffect
<1>2. now \in Nat /\ cur[d].attempts < MaxTries
  BY <1>1, DeliveringHolds DEF DeliveryTypeOK
<1>3. /\ after \in Row
      /\ after.id = cur[d].id
      /\ after.attempts = cur[d].attempts + 1
      /\ \/ /\ after.status = "failed" /\ after.next_attempt_at = None
            /\ after.attempts = MaxTries
         \/ /\ after.status = "pending" /\ after.attempts < MaxTries
            /\ after.next_attempt_at = now + BackoffSchedule[after.attempts]
            /\ after.next_attempt_at \in Nat
  BY <1>1, <1>2, AfterFailureRow
<1> HIDE DEF after
<1>4. /\ events'[e] = after /\ failedAt'[e] = now
      /\ \A f \in EventIds : f # e => events'[f] = events[f] /\ failedAt'[f] = failedAt[f]
  BY <1>1 DEF DeliveryTypeOK
<1>5. cur[d].attempts \in Nat /\ tries[e] \in 0..MaxTries /\ MaxTries \in Nat
      /\ cur[d].attempts < tries[e]
  BY <1>1, ScheduleFacts DEF Row, DeliveryTypeOK, AnswersKnown
<1>6. DeliveryTypeOK'
  BY <1>1, <1>2, <1>3, <1>4, DeliveryAssumption DEF DeliveryTypeOK
<1>7. RowsCount'
  BY <1>1, <1>2, <1>3, <1>4 DEF RowsCount
<1>8. ClonesAreRows'
  BY <1>1, <1>4, UpdateKeepsClones
<1>9. AnswersKnown'
  BY <1>1 DEF AnswersKnown, DeliveryTypeOK, OneLoop
<1>10. DeliveredWasReceived'
  BY <1>1, <1>3, <1>4 DEF DeliveredWasReceived
<1>11. FailedAfterAllTries'
  BY <1>1, <1>3, <1>4, <1>5 DEF FailedAfterAllTries
<1> QED BY <1>6, <1>7, <1>8, <1>9, <1>10, <1>11

\* A lost update or a crash leaves the row to be fetched again.
LEMMA OutageDelivers ==
  ASSUME DeliveryInv, NEW d \in Deliverers, Outage(d)
  PROVE  DeliveryInv'
<1> USE DEF DeliveryInv
<1>1. /\ UNCHANGED <<events, now, received, tries, failedAt>>
      /\ cur' = [cur EXCEPT ![d] = None]
      /\ \E location \in {"idle", "batch"} : pc' = [pc EXCEPT ![d] = location]
      /\ todo' = todo \/ todo' = [todo EXCEPT ![d] = {}]
  BY DEF Outage, MarkLost, Crash, NextInBatch, historyVars
<1>2. DeliveryTypeOK'
  BY <1>1 DEF DeliveryTypeOK
<1>3. RowsCount' /\ DeliveredWasReceived' /\ FailedAfterAllTries'
  BY <1>1 DEF RowsCount, DeliveredWasReceived, FailedAfterAllTries
<1>4. /\ pc'[d] \in {"idle", "batch"} /\ todo'[d] \in {todo[d], {}}
      /\ \A c \in Deliverers : c # d => pc'[c] = pc[c] /\ cur'[c] = cur[c] /\ todo'[c] = todo[c]
  BY <1>1 DEF DeliveryTypeOK
<1>5. \A row : Current(row) => Current(row)'
  BY <1>1 DEF Current
<1>6. ClonesAreRows'
  BY <1>4, <1>5 DEF ClonesAreRows, Delivering
<1>7. AnswersKnown'
  BY <1>1, <1>4 DEF AnswersKnown
<1> QED BY <1>2, <1>3, <1>6, <1>7

\* Every step keeps the invariant of the loop.
LEMMA NextDelivers ==
  ASSUME OneLoop, DeliveryInv, [Next]_vars
  PROVE  DeliveryInv'
<1>1. CASE \E e \in EventIds : Enqueue(e)
  BY <1>1, EnqueueDelivers
<1>2. CASE Tick
  BY <1>2, TickDelivers
<1>3. ASSUME NEW d \in Deliverers, Advance(d) \/ Outage(d)
      PROVE  DeliveryInv'
  <2>1. CASE FetchDue(d) \/ Take(d) \/ EndBatch(d)
    BY <2>1, BatchDelivers
  <2>2. CASE Post(d)
    BY <2>2, PostDelivers
  <2>3. CASE MarkDelivered(d)
    BY <2>3, MarkDeliveredDelivers
  <2>4. CASE MarkFailed(d)
    BY <2>4, MarkFailedDelivers
  <2>5. CASE Outage(d)
    BY <2>5, OutageDelivers
  <2> QED BY <1>3, <2>1, <2>2, <2>3, <2>4, <2>5 DEF Advance
<1>4. CASE UNCHANGED vars
  <2>1. UNCHANGED <<events, pc, todo, cur, now, received, tries, failedAt>>
    BY <1>4 DEF vars, loopVars, historyVars
  <2>2. DeliveryTypeOK' /\ RowsCount' /\ AnswersKnown' /\ DeliveredWasReceived'
        /\ FailedAfterAllTries'
    BY <2>1 DEF DeliveryInv, DeliveryTypeOK, RowsCount, AnswersKnown, DeliveredWasReceived,
       FailedAfterAllTries
  <2>3. ClonesAreRows'
    BY <2>1 DEF DeliveryInv, ClonesAreRows, Current, Delivering
  <2> QED BY <2>2, <2>3 DEF DeliveryInv
<1> QED BY <1>1, <1>2, <1>3, <1>4 DEF Next, SteadyNext

\* There is no event and no batch at the start.
LEMMA InitDelivers == Init => DeliveryInv
<1> SUFFICES ASSUME Init PROVE DeliveryInv
  OBVIOUS
<1>1. \A e \in EventIds : events[e] = [id |-> e, status |-> "absent", attempts |-> 0,
                                       next_attempt_at |-> None]
  BY DEF Init
<1>2. \A e \in EventIds : /\ events[e].id = e /\ events[e].status = "absent"
                          /\ events[e].attempts = 0 /\ events[e].next_attempt_at = None
  BY DEF Init
<1>3. MaxTries \in Nat /\ 0 \in 0..MaxTries
  BY ScheduleFacts
<1>4. events \in [EventIds -> Row]
  BY <1>1, <1>3 DEF Init, Row
<1>5. DeliveryTypeOK
  BY <1>2, <1>3, <1>4 DEF Init, DeliveryTypeOK
<1>6. RowsCount /\ ClonesAreRows /\ AnswersKnown /\ DeliveredWasReceived /\ FailedAfterAllTries
  BY <1>2, <1>3 DEF Init, RowsCount, ClonesAreRows, Delivering, AnswersKnown,
     DeliveredWasReceived, FailedAfterAllTries
<1> QED BY <1>5, <1>6 DEF DeliveryInv

-----------------------------------------------------------------------------
\* With one loop the clones of a batch are the rows, whatever was lost.
THEOREM DeliveryInvariant ==
  ASSUME OneLoop
  PROVE  Spec => []DeliveryInv
<1>1. DeliveryInv /\ [Next]_vars => DeliveryInv'
  BY NextDelivers
<1> QED BY <1>1, InitDelivers, PTL DEF Spec

\* The outbox and the loop keep their types: in particular a row has a next
\* attempt exactly while it is pending, and no more attempts than the schedule.
THEOREM DeliveryTypeCorrect ==
  ASSUME OneLoop
  PROVE  Spec => []DeliveryTypeOK
<1>1. DeliveryInv => DeliveryTypeOK
  BY DEF DeliveryInv
<1> QED BY <1>1, DeliveryInvariant, PTL

\* An event is given up only when every attempt has been made and has failed.
THEOREM GivenUpAfterAllTries ==
  ASSUME OneLoop
  PROVE  Spec => []FailedAfterAllTries
<1>1. DeliveryInv => FailedAfterAllTries
  BY DEF DeliveryInv
<1> QED BY <1>1, DeliveryInvariant, PTL

\* No POST is made for an event that is over, nor before the pause that
\* follows the failure recorded last.
THEOREM NoPostBeforeItIsDue ==
  ASSUME OneLoop
  PROVE  Spec => []PostsAreDue
<1>1. DeliveryInv => PostsAreDue
  <2> SUFFICES ASSUME DeliveryInv, NEW d \in Deliverers, pc[d] = "post"
               PROVE  LET e == cur[d].id IN
                      /\ events[e].status = "pending"
                      /\ events[e].attempts > 0 =>
                            now >= failedAt[e] + BackoffSchedule[events[e].attempts]
    BY DEF PostsAreDue
  <2>1. /\ cur[d].id \in EventIds /\ events[cur[d].id] = cur[d]
        /\ cur[d].status = "pending"
        /\ cur[d].next_attempt_at \in Nat /\ cur[d].next_attempt_at <= now
    BY DeliveringHolds DEF Delivering
  <2>2. now \in Nat
    BY DEF DeliveryInv, DeliveryTypeOK
  <2> QED BY <2>1, <2>2 DEF DeliveryInv, RowsCount
<1> QED BY <1>1, DeliveryInvariant, PTL

-----------------------------------------------------------------------------
\* The refinement of WebhookOutbox, and what is over stays over.

\* What WebhookOutbox calls status.
StatusOf == [e \in EventIds |-> events[e].status]

\* The empty table is WebhookOutbox's initial state.
LEMMA InitRefines == Init => Outbox!OutboxInit
BY DEF Init, Outbox!OutboxInit

\* The two ways an event ends are steps from `pending`.
LEMMA BecomeSteps ==
  ASSUME DeliveryInv, NEW e \in EventIds, NEW row, events' = [events EXCEPT ![e] = row],
         UNCHANGED <<received, tries>>
  PROVE  StatusOf' = [StatusOf EXCEPT ![e] = row.status] /\ StatusOf[e] = events[e].status
BY DEF StatusOf, DeliveryInv, DeliveryTypeOK

\* An enqueued event becomes pending in WebhookOutbox.
LEMMA EnqueueRefines ==
  ASSUME DeliveryInv, NEW e \in EventIds, Enqueue(e)
  PROVE  Outbox!Enqueued(e)
<1> DEFINE row == [events[e] EXCEPT !.status = "pending", !.next_attempt_at = now]
<1>1. /\ events[e].status = "absent"
      /\ events' = [events EXCEPT ![e] = row]
      /\ UNCHANGED <<received, tries>>
  BY DEF Enqueue, historyVars, DeliveryInv, DeliveryTypeOK
<1>2. row.status = "pending"
  BY DEF DeliveryInv, DeliveryTypeOK, Row
<1> HIDE DEF row
<1>3. StatusOf' = [StatusOf EXCEPT ![e] = "pending"] /\ StatusOf[e] = "absent"
  BY <1>1, <1>2, BecomeSteps
<1> QED BY <1>1, <1>3 DEF Outbox!Enqueued, Outbox!Become, StatusOf

\* A recorded delivery is one in WebhookOutbox.
LEMMA MarkDeliveredRefines ==
  ASSUME DeliveryInv, NEW d \in Deliverers, MarkDelivered(d)
  PROVE  \E e \in EventIds : Outbox!Deliver(e)
<1>1. pc[d] = "accepted" /\ Delivering(d)
  BY DEF MarkDelivered, Delivering
<1>2. PICK e \in EventIds : e = cur[d].id /\ events[e] = cur[d] /\ cur[d] \in Row
                            /\ cur[d].status = "pending"
  BY <1>1, DeliveringHolds
<1> DEFINE row == [cur[d] EXCEPT !.status = "delivered", !.next_attempt_at = None]
<1>3. /\ events' = [events EXCEPT ![e] = row]
      /\ UNCHANGED <<received, tries>>
  BY <1>2 DEF MarkDelivered, historyVars, DeliveryInv, DeliveryTypeOK
<1>4. row.status = "delivered"
  BY <1>2 DEF Row
<1> HIDE DEF row
<1>5. StatusOf' = [StatusOf EXCEPT ![e] = "delivered"] /\ StatusOf[e] = "pending"
  <2>1. StatusOf' = [StatusOf EXCEPT ![e] = row.status] /\ StatusOf[e] = events[e].status
    BY <1>3, BecomeSteps
  <2> QED BY <1>2, <1>4, <2>1
<1>6. e \in received
  BY <1>1, <1>2 DEF DeliveryInv, AnswersKnown
<1> QED BY <1>3, <1>5, <1>6 DEF Outbox!Deliver, Outbox!Become, StatusOf

\* mark_failed gives up only when the last attempt has failed; before that
\* the promise does not see it.
LEMMA MarkFailedRefines ==
  ASSUME DeliveryInv, NEW d \in Deliverers, MarkFailed(d)
  PROVE  (\E e \in EventIds : Outbox!GiveUp(e)) \/ UNCHANGED <<StatusOf, received, tries>>
<1>1. /\ pc[d] = "refused" /\ Delivering(d)
      /\ cur[d].id \in EventIds /\ cur[d] \in Row /\ events[cur[d].id] = cur[d]
      /\ UNCHANGED <<received, tries>>
  BY MarkFailedEffect
<1>2. PICK e \in EventIds : e = cur[d].id
  BY <1>1
<1> DEFINE after == AfterFailure(cur[d], NextBackoff(cur[d].attempts + 1))
<1>3. events' = [events EXCEPT ![e] = after]
  BY <1>2, MarkFailedEffect
<1>4. now \in Nat /\ cur[d].attempts < MaxTries /\ cur[d].status = "pending"
  BY <1>1, DeliveringHolds DEF DeliveryInv, DeliveryTypeOK
<1>5. /\ after.attempts = cur[d].attempts + 1
      /\ \/ after.status = "failed" /\ after.attempts = MaxTries
         \/ after.status = "pending"
  BY <1>1, <1>4, AfterFailureRow
<1> HIDE DEF after
<1>6. StatusOf' = [StatusOf EXCEPT ![e] = after.status] /\ StatusOf[e] = "pending"
  BY <1>1, <1>2, <1>3, <1>4, BecomeSteps
<1>7. CASE after.status = "pending"
  BY <1>1, <1>6, <1>7 DEF StatusOf
<1>8. CASE after.status = "failed" /\ after.attempts = MaxTries
  <2>1. tries[e] = MaxTries
    BY <1>1, <1>2, <1>4, <1>5, <1>8, ScheduleFacts
       DEF DeliveryInv, DeliveryTypeOK, AnswersKnown, Row
  <2>2. Outbox!GiveUp(e)
    BY <1>1, <1>6, <1>8, <2>1 DEF Outbox!GiveUp, Outbox!Become, StatusOf
  <2> QED BY <2>2
<1> QED BY <1>5, <1>7, <1>8

\* A POST is an attempt in WebhookOutbox, unless one past the end of the tries
\* that fails: that is seen by nobody.
LEMMA PostRefines ==
  ASSUME DeliveryInv, NEW d \in Deliverers, Post(d)
  PROVE  (\E e \in EventIds : Outbox!Attempt(e)) \/ UNCHANGED <<StatusOf, received, tries>>
<1>1. PICK accepted, answered \in BOOLEAN :
        LET e == cur[d].id IN
        /\ pc[d] = "post"
        /\ received' = IF accepted THEN received \union {e} ELSE received
        /\ tries' = IF (accepted /\ answered) \/ tries[e] = MaxTries THEN tries
                    ELSE [tries EXCEPT ![e] = tries[e] + 1]
        /\ events' = events
  BY PostEffect
<1>2. PICK e \in EventIds : e = cur[d].id /\ events[e].status = "pending"
  BY <1>1, DeliveringHolds DEF Delivering
<1>3. StatusOf[e] = "pending" /\ StatusOf' = StatusOf
  BY <1>1, <1>2 DEF StatusOf
<1>4. received' \in {received, received \union {e}}
  BY <1>1, <1>2
<1>5. tries[e] \in 0..MaxTries /\ MaxTries \in Nat
  BY ScheduleFacts DEF DeliveryInv, DeliveryTypeOK
<1>6. CASE accepted /\ (answered \/ tries[e] = MaxTries)
  BY <1>1, <1>2, <1>3, <1>4, <1>6 DEF Outbox!Attempt, StatusOf
<1>7. CASE tries[e] # MaxTries /\ ~ (accepted /\ answered)
  <2>1. tries[e] < MaxTries /\ tries' = [tries EXCEPT ![e] = tries[e] + 1]
    BY <1>1, <1>2, <1>5, <1>7
  <2>2. Outbox!Attempt(e)
    BY <1>3, <1>4, <2>1 DEF Outbox!Attempt, StatusOf
  <2> QED BY <2>2
<1>8. CASE ~ accepted /\ tries[e] = MaxTries
  BY <1>1, <1>2, <1>3, <1>8
<1> QED BY <1>6, <1>7, <1>8

\* The single loop, its clones and its lost updates keep the promise of
\* WebhookOutbox: over means accepted or spent, and nothing after that.
THEOREM LoopImplementsOutbox ==
  ASSUME OneLoop
  PROVE  Spec => ImplementsOutbox
<1>1. DeliveryInv /\ [Next]_vars => [Outbox!OutboxNext]_Outbox!outboxVars
  <2> SUFFICES ASSUME DeliveryInv, [Next]_vars
               PROVE  Outbox!OutboxNext \/ UNCHANGED <<StatusOf, received, tries>>
    BY DEF Outbox!outboxVars, StatusOf
  <2>1. ASSUME NEW e \in EventIds, Enqueue(e)
        PROVE  Outbox!OutboxNext
    BY <2>1, EnqueueRefines DEF Outbox!OutboxNext
  <2>2. ASSUME NEW d \in Deliverers, Advance(d) \/ Outage(d)
        PROVE  Outbox!OutboxNext \/ UNCHANGED <<StatusOf, received, tries>>
    <3>1. CASE Post(d)
      BY <3>1, PostRefines DEF Outbox!OutboxNext
    <3>2. CASE MarkDelivered(d)
      BY <3>2, MarkDeliveredRefines DEF Outbox!OutboxNext
    <3>3. CASE MarkFailed(d)
      BY <3>3, MarkFailedRefines DEF Outbox!OutboxNext
    <3>4. CASE FetchDue(d) \/ Take(d) \/ EndBatch(d) \/ Outage(d)
      BY <3>4 DEF FetchDue, Take, EndBatch, Outage, MarkLost, Crash, historyVars, StatusOf
    <3> QED BY <2>2, <3>1, <3>2, <3>3, <3>4 DEF Advance
  <2>3. CASE Tick \/ UNCHANGED vars
    BY <2>3 DEF Tick, vars, historyVars, StatusOf
  <2> QED BY <2>1, <2>2, <2>3 DEF Next, SteadyNext
<1> QED BY <1>1, InitRefines, DeliveryInvariant, PTL
        DEF Spec, ImplementsOutbox, Outbox!OutboxSpec

\* A row that is delivered or failed is never written again.
THEOREM OverIsOver ==
  ASSUME OneLoop
  PROVE  Spec => FinalIsFinal
<1> DEFINE Kept == \A e \in EventIds :
                     events[e].status \in {"delivered", "failed"} => events'[e] = events[e]
<1>1. DeliveryInv /\ [Next]_vars => [Kept]_vars
  <2> SUFFICES ASSUME DeliveryInv, Next, NEW e \in EventIds,
                      events[e].status \in {"delivered", "failed"}
               PROVE  events'[e] = events[e]
    OBVIOUS
  <2>1. ASSUME NEW f \in EventIds, Enqueue(f)
        PROVE  events'[e] = events[e]
    BY <2>1 DEF Enqueue, DeliveryInv, DeliveryTypeOK
  <2>2. ASSUME NEW d \in Deliverers, Advance(d) \/ Outage(d)
        PROVE  events'[e] = events[e]
    <3>1. CASE MarkDelivered(d) \/ MarkFailed(d)
      <4>1. Delivering(d)
        BY <3>1 DEF MarkDelivered, MarkFailed, Delivering
      <4>2. events[cur[d].id].status = "pending"
        BY <4>1, DeliveringHolds
      <4> QED BY <3>1, <4>2 DEF MarkDelivered, MarkFailed, DeliveryInv, DeliveryTypeOK
    <3>2. CASE ~ (MarkDelivered(d) \/ MarkFailed(d))
      BY <2>2, <3>2 DEF Advance, Outage, FetchDue, Take, EndBatch, Post, MarkLost, Crash
    <3> QED BY <3>1, <3>2
  <2>3. CASE Tick
    BY <2>3 DEF Tick
  <2> QED BY <2>1, <2>2, <2>3 DEF Next, SteadyNext
<1> QED BY <1>1, DeliveryInvariant, PTL DEF Spec, FinalIsFinal

-----------------------------------------------------------------------------
\* With any number of loops, even if two hold clones of one row.

\* Several loops may count more attempts than the schedule has.
LooseRow == [id : EventIds, status : {"absent", "pending", "delivered", "failed"},
             attempts : Nat, next_attempt_at : Nat \union {None}]

LooseInv ==
  /\ events \in [EventIds -> LooseRow]
  /\ pc \in [Deliverers -> {"idle", "batch", "post", "accepted", "refused"}]
  /\ todo \in [Deliverers -> SUBSET LooseRow]
  /\ cur \in [Deliverers -> LooseRow \union {None}]
  /\ now \in Nat
  /\ \A d \in Deliverers : Delivering(d) => cur[d] \in LooseRow
  /\ \A d \in Deliverers : pc[d] = "accepted" => cur[d].id \in received
  /\ DeliveredWasReceived

\* mark_failed with a clone that may be out of date.
LEMMA LooseAfterFailure ==
  ASSUME NEW row \in LooseRow, NEW clone \in LooseRow, now \in Nat,
         NEW after, after = AfterFailure(row, NextBackoff(clone.attempts + 1))
  PROVE  after \in LooseRow /\ after.status \in {"pending", "failed"}
<1> DEFINE next == NextBackoff(clone.attempts + 1)
<1>1. clone.attempts + 1 \in Nat /\ clone.attempts + 1 > 0
  BY DEF LooseRow
<1>2. next \in Nat \union {None}
  <2>1. CASE clone.attempts + 1 < MaxTries
    BY <1>1, <2>1, ScheduleFacts
  <2>2. CASE ~ (clone.attempts + 1 < MaxTries)
    BY <1>1, <2>2, ScheduleFacts DEF NextBackoff
  <2> QED BY <2>1, <2>2
<1>3. next # None => now + next \in Nat
  BY <1>2
<1>4. after = [row EXCEPT !.status = IF next = None THEN "failed" ELSE "pending",
                          !.attempts = @ + 1,
                          !.next_attempt_at = IF next = None THEN None ELSE now + next]
  BY DEF AfterFailure
<1> HIDE DEF next
<1>5. PICK status \in {"pending", "failed"}, due \in Nat \union {None} :
        after = [row EXCEPT !.status = status, !.attempts = @ + 1, !.next_attempt_at = due]
  BY <1>3, <1>4
<1>6. after = [id |-> row.id, status |-> status, attempts |-> row.attempts + 1,
               next_attempt_at |-> due]
  BY <1>5 DEF LooseRow
<1>7. row.id \in EventIds /\ row.attempts + 1 \in Nat
  BY DEF LooseRow
<1> QED BY <1>6, <1>7 DEF LooseRow

\* Every step of any number of loops keeps the loose invariant.
LEMMA NextLoose ==
  ASSUME LooseInv, [Next]_vars
  PROVE  LooseInv'
<1> USE DEF LooseInv
<1>1. ASSUME NEW e \in EventIds, Enqueue(e)
      PROVE  LooseInv'
  <2> DEFINE row == [events[e] EXCEPT !.status = "pending", !.next_attempt_at = now]
  <2>1. /\ events' = [events EXCEPT ![e] = row]
        /\ UNCHANGED <<pc, todo, cur, now, received>>
    BY <1>1 DEF Enqueue, loopVars, historyVars
  <2>2. row \in LooseRow /\ row.status = "pending"
    <3>1. events[e] \in LooseRow /\ now \in Nat
      OBVIOUS
    <3> QED BY <3>1 DEF LooseRow
  <2> HIDE DEF row
  <2> QED BY <2>1, <2>2 DEF DeliveredWasReceived, Delivering
<1>2. CASE Tick
  <2>1. UNCHANGED <<events, pc, todo, cur, received>>
    BY <1>2 DEF Tick, loopVars, historyVars
  <2>2. now' \in Nat
    <3>1. PICK t \in DueTimes : now' = t
      BY <1>2 DEF Tick
    <3> QED BY <3>1 DEF DueTimes, LooseRow
  <2> QED BY <2>1, <2>2 DEF DeliveredWasReceived, Delivering
<1>3. ASSUME NEW d \in Deliverers, FetchDue(d)
      PROVE  LooseInv'
  <2>1. PICK batch \in SUBSET Due : todo' = [todo EXCEPT ![d] = batch]
    BY <1>3 DEF FetchDue
  <2>2. pc' = [pc EXCEPT ![d] = "batch"] /\ UNCHANGED <<events, cur, now, received>>
    BY <1>3 DEF FetchDue, historyVars
  <2>3. batch \subseteq LooseRow
    BY DEF Due
  <2> QED BY <2>1, <2>2, <2>3 DEF DeliveredWasReceived, Delivering
<1>4. ASSUME NEW d \in Deliverers, Take(d)
      PROVE  LooseInv'
  <2>1. PICK row \in todo[d] : /\ cur' = [cur EXCEPT ![d] = row]
                               /\ todo' = [todo EXCEPT ![d] = @ \ {row}]
    BY <1>4 DEF Take
  <2>2. pc' = [pc EXCEPT ![d] = "post"] /\ UNCHANGED <<events, now, received>>
    BY <1>4 DEF Take, historyVars
  <2>3. row \in LooseRow
    OBVIOUS
  <2> QED BY <2>1, <2>2, <2>3 DEF DeliveredWasReceived, Delivering
<1>5. ASSUME NEW d \in Deliverers, Post(d)
      PROVE  LooseInv'
  <2>1. PICK accepted, answered \in BOOLEAN :
          /\ pc[d] = "post"
          /\ received' = IF accepted THEN received \union {cur[d].id} ELSE received
          /\ pc' = [pc EXCEPT ![d] = IF accepted /\ answered THEN "accepted" ELSE "refused"]
    BY <1>5, PostEffect
  <2>2. UNCHANGED <<events, todo, cur, now>>
    BY <1>5 DEF Post
  <2> QED BY <2>1, <2>2 DEF DeliveredWasReceived, Delivering
<1>6. ASSUME NEW d \in Deliverers, MarkDelivered(d)
      PROVE  LooseInv'
  <2> DEFINE e == cur[d].id
             row == [events[e] EXCEPT !.status = "delivered", !.next_attempt_at = None]
  <2>1. pc[d] = "accepted" /\ cur[d] \in LooseRow /\ e \in EventIds /\ e \in received
    BY <1>6 DEF MarkDelivered, Delivering, LooseRow
  <2>2. /\ events' = [events EXCEPT ![e] = row]
        /\ pc' = [pc EXCEPT ![d] = "batch"] /\ cur' = [cur EXCEPT ![d] = None]
        /\ UNCHANGED <<todo, now, received>>
    BY <1>6, <2>1 DEF MarkDelivered, NextInBatch, historyVars
  <2>3. row \in LooseRow
    BY <2>1 DEF LooseRow
  <2> HIDE DEF row
  <2> QED BY <2>1, <2>2, <2>3 DEF DeliveredWasReceived, Delivering
<1>7. ASSUME NEW d \in Deliverers, MarkFailed(d)
      PROVE  LooseInv'
  <2> DEFINE e == cur[d].id
             row == AfterFailure(events[e], NextBackoff(cur[d].attempts + 1))
  <2>1. pc[d] = "refused" /\ cur[d] \in LooseRow /\ e \in EventIds
    BY <1>7 DEF MarkFailed, Delivering, LooseRow
  <2>2. /\ events' = [events EXCEPT ![e] = row]
        /\ pc' = [pc EXCEPT ![d] = "batch"] /\ cur' = [cur EXCEPT ![d] = None]
        /\ UNCHANGED <<todo, now, received>>
    BY <1>7, <2>1 DEF MarkFailed, NextInBatch
  <2>3. row \in LooseRow /\ row.status \in {"pending", "failed"}
    BY <2>1, LooseAfterFailure
  <2> HIDE DEF row
  <2> QED BY <2>1, <2>2, <2>3 DEF DeliveredWasReceived, Delivering
<1>8. ASSUME NEW d \in Deliverers, EndBatch(d) \/ Outage(d)
      PROVE  LooseInv'
  <2>1. /\ UNCHANGED <<events, now, received>>
        /\ cur' = cur \/ cur' = [cur EXCEPT ![d] = None]
        /\ \E location \in {"idle", "batch"} : pc' = [pc EXCEPT ![d] = location]
        /\ todo' = todo \/ todo' = [todo EXCEPT ![d] = {}]
    BY <1>8 DEF EndBatch, Outage, MarkLost, Crash, NextInBatch, historyVars
  <2> QED BY <2>1 DEF DeliveredWasReceived, Delivering
<1>9. CASE UNCHANGED vars
  BY <1>9 DEF vars, loopVars, historyVars, DeliveredWasReceived, Delivering
<1> QED BY <1>1, <1>2, <1>3, <1>4, <1>5, <1>6, <1>7, <1>8, <1>9
        DEF Next, SteadyNext, Advance

\* An event shown as delivered was accepted by the merchant, although the row
\* is written one await after the answer and without a look at its status:
\* with any number of loops.
THEOREM DeliveredMeansReceived == Spec => []DeliveredWasReceived
<1>1. Init => LooseInv
  <2> SUFFICES ASSUME Init PROVE LooseInv
    OBVIOUS
  <2>1. events \in [EventIds -> LooseRow]
    BY DEF Init, LooseRow
  <2>2. \A e \in EventIds : events[e].status = "absent"
    BY DEF Init
  <2> QED BY <2>1, <2>2 DEF Init, LooseInv, Delivering, DeliveredWasReceived
<1>2. LooseInv /\ [Next]_vars => LooseInv'
  BY NextLoose
<1>3. LooseInv => DeliveredWasReceived
  BY DEF LooseInv
<1> QED BY <1>1, <1>2, <1>3, PTL DEF Spec
=============================================================================

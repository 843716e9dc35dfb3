----------------------- MODULE PaymentTransitionsProofs -----------------------
(***************************************************************************)
(* Proofs about the four transition calls of PaymentService, for any       *)
(* number of callers and payments and either repository: what the check in *)
(* memory promised is old by the time of the update, and only the status   *)
(* in the update's WHERE clause decides.                                   *)
(***************************************************************************)
EXTENDS PaymentTransitions, TLAPS

\* A call that has started has arguments; mark_detected alone has a hash.
CallsMade ==
  \A c \in Callers :
    /\ answer[c] # "none" => pc[c] = "answered"
    /\ pc[c] # "idle" => /\ call[c] \in Call
                         /\ call[c].target = "detected" <=> call[c].hash # None

\* A row holds a hash exactly when its status says it was matched.
HashIffCredited ==
  \A id \in Stored :
     payments[id].stellar_tx_hash # None <=> payments[id].status \in CreditedStatuses

\* What was read is a status the payment has been in.  Once the check has
\* passed the target is one move away from it, and when the update has missed
\* the payment is in another status.
ReadsAreOld ==
  \A c \in Callers :
    /\ answer[c] \in {"done", "conflict"} => call[c].id \in Stored
    /\ pc[c] \in {"check", "update", "explain"} \/ answer[c] = "conflict" =>
         /\ call[c].id \in Stored
         /\ Reached(payments[call[c].id].status, read[c].status)
    /\ pc[c] \in {"update", "explain"} => CanTransitionTo(read[c].status, call[c].target)
    /\ pc[c] = "explain" => payments[call[c].id].status # read[c].status

TransitionsInv ==
  /\ TransitionsTypeOK
  /\ CallsMade
  /\ HashIffCredited
  /\ ReadsAreOld
  /\ SuccessLasts
  /\ OneWinner
  /\ ConflictHasACause

-----------------------------------------------------------------------------
\* The operators of the repository.

\* A new row is well typed and pending, without a hash.
LEMMA NewPaymentType ==
  ASSUME NEW id \in PaymentIds, NEW draft \in Draft, NEW t \in Nat
  PROVE  /\ NewPayment(id, draft, t) \in Payment
         /\ NewPayment(id, draft, t).status = "pending"
         /\ NewPayment(id, draft, t).stellar_tx_hash = None
BY DEF NewPayment, Draft, Payment, PaymentStatuses

\* A legal move leads to a status the payment had not been in, and forgets none.
LEMMA ReachedOnMove ==
  ASSUME NEW from, NEW next, from \in ValidFromStates(next), NEW s, Reached(from, s)
  PROVE  Reached(next, s) /\ s # next /\ Reached(next, next)
BY DEF Reached, ValidFromStates, CanTransitionTo

\* What a call that succeeds does to its row; the others keep theirs.
LEMMA UpdateEffect ==
  ASSUME TransitionsInv, NEW c \in Callers, Update(c)
  PROVE  LET id == call[c].id
             target == call[c].target
         IN
         /\ id \in Stored /\ id \in PaymentIds /\ Stored' = Stored
         /\ call[c] \in Call /\ pc[c] = "update"
         /\ payments[id].status \in ValidFromStates(target)
         /\ \A other \in Stored : other # id => payments'[other] = payments[other]
         /\ payments' \in [PaymentIds -> Payment \union {NoPayment}]
         /\ payments'[id].status = target
         /\ payments'[id].stellar_tx_hash
              = IF target = "detected" THEN call[c].hash ELSE payments[id].stellar_tx_hash
         /\ target = "detected" => payments[id].stellar_tx_hash = None /\ call[c].hash # None
         /\ target # "detected" => call[c].hash = None
<1> DEFINE id == call[c].id
           target == call[c].target
           row == Updated(payments[id], target, call[c].hash)
<1>1. /\ pc[c] = "update" /\ id \in Stored /\ id \in PaymentIds
      /\ payments[id].status \in ValidFromStates(target)
      /\ payments' = [payments EXCEPT ![id] = row]
  BY DEF Update, UpdateStatus, MayUpdate, Stored, TransitionsInv, TransitionsTypeOK,
     RepositoryTypeOK
<1>2. /\ call[c] \in Call /\ target \in Targets
      /\ call[c].hash \in TxHashes \union {None}
      /\ target = "detected" <=> call[c].hash # None
  BY <1>1 DEF TransitionsInv, CallsMade, Call
<1>3. payments[id] \in Payment /\ payments[id] # NoPayment
  BY <1>1 DEF Stored, TransitionsInv, TransitionsTypeOK, RepositoryTypeOK
<1>4. /\ row \in Payment /\ row.status = target
      /\ row.stellar_tx_hash = IF call[c].hash = None THEN payments[id].stellar_tx_hash
                               ELSE call[c].hash
  <2>1. target \in PaymentStatuses
    BY <1>2 DEF Targets, PaymentStatuses
  <2> QED BY <1>2, <1>3, <2>1 DEF Updated, Payment
<1>5. row # NoPayment
  BY <1>4, RepositoryAssumption
<1>6. target = "detected" => payments[id].stellar_tx_hash = None
  BY <1>1 DEF ValidFromStates, CanTransitionTo, TransitionsInv, HashIffCredited, CreditedStatuses
<1> HIDE DEF row
<1>7. payments \in [PaymentIds -> Payment \union {NoPayment}]
  BY DEF TransitionsInv, TransitionsTypeOK, RepositoryTypeOK
<1>8. /\ payments'[id] = row /\ Stored' = Stored
      /\ \A other \in Stored : other # id => payments'[other] = payments[other]
      /\ payments' \in [PaymentIds -> Payment \union {NoPayment}]
  BY <1>1, <1>3, <1>4, <1>5, <1>7 DEF Stored
<1> QED BY <1>1, <1>2, <1>4, <1>6, <1>8

-----------------------------------------------------------------------------
\* The call that makes its move keeps the invariant.
LEMMA UpdateKeeps ==
  ASSUME TransitionsInv, NEW c \in Callers, Update(c)
  PROVE  TransitionsInv'
<1> USE DEF TransitionsInv
<1> DEFINE id == call[c].id
           target == call[c].target
<1>1. /\ id \in Stored /\ id \in PaymentIds /\ Stored' = Stored
      /\ call[c] \in Call /\ pc[c] = "update"
      /\ payments[id].status \in ValidFromStates(target)
      /\ \A other \in Stored : other # id => payments'[other] = payments[other]
      /\ payments' \in [PaymentIds -> Payment \union {NoPayment}]
      /\ payments'[id].status = target
      /\ payments'[id].stellar_tx_hash
           = IF target = "detected" THEN call[c].hash ELSE payments[id].stellar_tx_hash
      /\ target = "detected" => payments[id].stellar_tx_hash = None /\ call[c].hash # None
      /\ target # "detected" => call[c].hash = None
  BY UpdateEffect
<1>2. PICK how \in {"done", "error"} :
        /\ pc' = [pc EXCEPT ![c] = "answered"]
        /\ answer' = [answer EXCEPT ![c] = how]
        /\ UNCHANGED <<call, read, idempotency_keys>>
  BY DEF Update, End, UpdateStatus
<1>3. TransitionsTypeOK'
  BY <1>1, <1>2 DEF TransitionsTypeOK, RepositoryTypeOK, Answers
<1>4. /\ pc'[c] = "answered" /\ answer'[c] = how
      /\ \A d \in Callers : d # c => pc'[d] = pc[d] /\ answer'[d] = answer[d]
  BY <1>2 DEF TransitionsTypeOK
<1>5. CallsMade'
  <2>1. pc[c] # "idle"
    BY <1>1
  <2> QED BY <1>2, <1>4, <2>1 DEF CallsMade
<1>6. HashIffCredited'
  <2>1. payments'[id].stellar_tx_hash # None <=> target \in CreditedStatuses
    <3>1. CASE target = "detected"
      BY <1>1, <3>1 DEF CreditedStatuses
    <3>2. CASE target \in {"confirmed", "failed", "expired"}
      BY <1>1, <3>2 DEF HashIffCredited, CreditedStatuses, ValidFromStates, CanTransitionTo
    <3> QED BY <1>1, <3>1, <3>2 DEF Call, Targets
  <2> QED BY <1>1, <2>1 DEF HashIffCredited
<1>7. \A d \in Callers : \A s : call[d].id \in Stored /\ Reached(payments[call[d].id].status, s)
         => /\ Reached(payments'[call[d].id].status, s)
            /\ payments[call[d].id].status # s => payments'[call[d].id].status # s
  BY <1>1, ReachedOnMove
<1>8. ReadsAreOld'
  BY <1>1, <1>2, <1>4, <1>7 DEF ReadsAreOld
<1>9. ASSUME NEW d \in Callers, d # c, answer[d] = "done", call[d].id = id
      PROVE  target \in {"confirmed", "failed"} /\ call[d].target = "detected"
  <2>1. Reached(payments[id].status, call[d].target) /\ call[d].target \in Targets
    BY <1>9 DEF SuccessLasts, CallsMade, Call
  <2> QED BY <1>1, <2>1 DEF Reached, ValidFromStates, CanTransitionTo, Targets
<1>10. SuccessLasts'
  <2> SUFFICES ASSUME NEW d \in Callers, answer'[d] = "done"
               PROVE  /\ Reached(payments'[call[d].id].status, call[d].target)
                      /\ call[d].hash # None =>
                            payments'[call[d].id].stellar_tx_hash = call[d].hash
    BY <1>2 DEF SuccessLasts
  <2>1. CASE d = c
    BY <1>1, <2>1 DEF Reached
  <2>2. CASE d # c
    <3>1. /\ answer[d] = "done" /\ call[d].id \in Stored
          /\ Reached(payments[call[d].id].status, call[d].target)
          /\ call[d].hash # None => payments[call[d].id].stellar_tx_hash = call[d].hash
      BY <1>4, <2>2 DEF SuccessLasts, ReadsAreOld
    <3>2. call[d].id = id => payments'[id].stellar_tx_hash = payments[id].stellar_tx_hash
      BY <1>1, <1>9, <2>2, <3>1
    <3> QED BY <1>1, <1>7, <3>1, <3>2
  <2> QED BY <2>1, <2>2
<1>11. OneWinner'
  <2> SUFFICES ASSUME NEW a \in Callers, NEW b \in Callers, a # b,
                      answer'[a] = "done", answer'[b] = "done", call[a].id = call[b].id
               PROVE  /\ call[a].target # call[b].target
                      /\ {call[a].target, call[b].target} # {"confirmed", "failed"}
                      /\ "expired" \notin {call[a].target, call[b].target}
    BY <1>2 DEF OneWinner
  <2>1. CASE a # c /\ b # c
    BY <1>4, <2>1 DEF OneWinner
  <2>2. CASE a = c
    BY <1>4, <1>9, <2>2
  <2>3. CASE b = c
    BY <1>4, <1>9, <2>3
  <2> QED BY <2>1, <2>2, <2>3
<1>12. ConflictHasACause'
  <2> SUFFICES ASSUME NEW d \in Callers, answer'[d] = "conflict"
               PROVE  \/ payments'[call[d].id].status # read[d].status
                      \/ \E other \in Stored \ {call[d].id} :
                            /\ call[d].hash # None
                            /\ payments'[other].stellar_tx_hash = call[d].hash
    BY <1>1, <1>2 DEF ConflictHasACause
  <2>1. /\ answer[d] = "conflict" /\ call[d].id \in Stored
        /\ Reached(payments[call[d].id].status, read[d].status)
    BY <1>4 DEF ReadsAreOld
  <2>2. CASE payments[call[d].id].status # read[d].status
    BY <1>7, <2>1, <2>2
  <2>3. CASE \E other \in Stored \ {call[d].id} :
                /\ call[d].hash # None
                /\ payments[other].stellar_tx_hash = call[d].hash
    BY <1>1, <2>3
  <2> QED BY <2>1, <2>2, <2>3 DEF ConflictHasACause
<1> QED BY <1>3, <1>5, <1>6, <1>8, <1>10, <1>11, <1>12

-----------------------------------------------------------------------------
\* The steps that leave the tables alone.

\* Why a caller may be told of a conflict.
Cause(c) ==
  \/ payments[call[c].id].status # read[c].status
  \/ \E other \in Stored \ {call[c].id} :
        call[c].hash # None /\ payments[other].stellar_tx_hash = call[c].hash

\* A call that ends without having moved anything keeps the invariant: a
\* conflict has its cause at that moment.
LEMMA EndKeeps ==
  ASSUME TransitionsInv, NEW c \in Callers, NEW how \in Answers \ {"none", "done"},
         pc[c] # "idle", End(c, how), UNCHANGED <<payments, idempotency_keys>>,
         how = "conflict" => /\ call[c].id \in Stored
                             /\ Reached(payments[call[c].id].status, read[c].status)
                             /\ Cause(c)
  PROVE  TransitionsInv'
<1> USE DEF TransitionsInv
<1>1. /\ pc'[c] = "answered" /\ answer'[c] = how
      /\ \A d \in Callers : d # c => pc'[d] = pc[d] /\ answer'[d] = answer[d]
      /\ UNCHANGED <<payments, idempotency_keys, call, read>>
      /\ Stored' = Stored
  BY DEF End, TransitionsTypeOK, Stored
<1>2. TransitionsTypeOK'
  BY DEF End, TransitionsTypeOK, RepositoryTypeOK
<1>3. CallsMade'
  BY <1>1 DEF CallsMade
<1>4. HashIffCredited'
  BY <1>1 DEF HashIffCredited
<1>5. ReadsAreOld'
  BY <1>1 DEF ReadsAreOld
<1>6. SuccessLasts'
  BY <1>1 DEF SuccessLasts
<1>7. OneWinner'
  BY <1>1 DEF OneWinner
<1>8. ConflictHasACause'
  BY <1>1 DEF ConflictHasACause, Cause
<1> QED BY <1>2, <1>3, <1>4, <1>5, <1>6, <1>7, <1>8

\* A new call keeps the invariant: a caller makes one, so its answer is none.
LEMMA CallTransitionKeeps ==
  ASSUME TransitionsInv, NEW c \in Callers, CallTransition(c)
  PROVE  TransitionsInv'
<1> USE DEF TransitionsInv
<1>1. PICK id \in PaymentIds, target \in Targets, hash \in TxHashes \union {None} :
        /\ target = "detected" <=> hash # None
        /\ call' = [call EXCEPT ![c] = [id |-> id, target |-> target, hash |-> hash]]
  BY DEF CallTransition
<1>2. /\ call'[c] \in Call /\ call' \in [Callers -> Call \union {NoCall}]
      /\ call'[c].target = "detected" <=> call'[c].hash # None
      /\ \A d \in Callers : d # c => call'[d] = call[d]
  BY <1>1 DEF TransitionsTypeOK, Call
<1>3. /\ pc[c] = "idle" /\ answer[c] = "none" /\ pc'[c] = "find"
      /\ pc' \in [Callers -> {"idle", "find", "check", "update", "explain", "answered"}]
      /\ \A d \in Callers : d # c => pc'[d] = pc[d]
      /\ UNCHANGED <<payments, idempotency_keys, read, answer>>
      /\ Stored' = Stored
  BY DEF CallTransition, TransitionsTypeOK, CallsMade, Stored
<1>4. TransitionsTypeOK'
  BY <1>2, <1>3 DEF TransitionsTypeOK, RepositoryTypeOK
<1>5. CallsMade'
  BY <1>2, <1>3 DEF CallsMade
<1>6. HashIffCredited'
  BY <1>3 DEF HashIffCredited
<1>7. ReadsAreOld'
  BY <1>2, <1>3 DEF ReadsAreOld
<1>8. SuccessLasts'
  BY <1>2, <1>3 DEF SuccessLasts
<1>9. OneWinner'
  BY <1>2, <1>3 DEF OneWinner
<1>10. ConflictHasACause'
  BY <1>2, <1>3 DEF ConflictHasACause
<1> QED BY <1>4, <1>5, <1>6, <1>7, <1>8, <1>9, <1>10

\* Reading the row, passing the check and missing with the update keep the
\* invariant: each goes one stage on with what it has learnt.
LEMMA MoveOnKeeps ==
  ASSUME TransitionsInv, NEW c \in Callers,
         NEW stage \in {"check", "update", "explain"},
         pc[c] \in {"find", "check", "update"},
         pc' = [pc EXCEPT ![c] = stage],
         UNCHANGED <<payments, idempotency_keys, call, answer>>,
         read' \in [Callers -> Payment \union {NoPayment}],
         \A d \in Callers : d # c => read'[d] = read[d],
         call[c].id \in Stored,
         Reached(payments[call[c].id].status, read'[c].status),
         stage # "check" => CanTransitionTo(read'[c].status, call[c].target),
         stage = "explain" => payments[call[c].id].status # read'[c].status
  PROVE  TransitionsInv'
<1> USE DEF TransitionsInv
<1>1. /\ pc'[c] = stage /\ answer[c] = "none"
      /\ \A d \in Callers : d # c => pc'[d] = pc[d]
      /\ Stored' = Stored
  BY DEF TransitionsTypeOK, CallsMade, Stored
<1>2. TransitionsTypeOK'
  BY DEF TransitionsTypeOK, RepositoryTypeOK
<1>3. CallsMade'
  BY <1>1 DEF CallsMade
<1>4. HashIffCredited'
  BY <1>1 DEF HashIffCredited
<1>5. ReadsAreOld'
  BY <1>1 DEF ReadsAreOld
<1>6. SuccessLasts'
  BY <1>1 DEF SuccessLasts
<1>7. OneWinner'
  BY <1>1 DEF OneWinner
<1>8. ConflictHasACause'
  BY <1>1 DEF ConflictHasACause
<1> QED BY <1>2, <1>3, <1>4, <1>5, <1>6, <1>7, <1>8

\* A call that is under way, its row being there: what it holds.
LEMMA StoredRow ==
  ASSUME TransitionsInv, NEW id \in Stored
  PROVE  id \in PaymentIds /\ payments[id] \in Payment
                           /\ Reached(payments[id].status, payments[id].status)
BY DEF TransitionsInv, TransitionsTypeOK, RepositoryTypeOK, Stored, Reached, Payment,
   PaymentStatuses

\* A step of a caller other than the move itself keeps the invariant.
LEMMA QuietKeeps ==
  ASSUME TransitionsInv, NEW c \in Callers,
         \/ Find(c) \/ Check(c) \/ UpdateRefused(c) \/ UpdateMisses(c) \/ Explain(c)
         \/ DatabaseFails(c)
  PROVE  TransitionsInv'
<1>1. CASE DatabaseFails(c)
  BY <1>1, EndKeeps DEF DatabaseFails, Answers
<1>2. CASE Find(c)
  <2>1. CASE call[c].id \notin Stored
    BY <1>2, <2>1, EndKeeps DEF Find, Answers
  <2>2. CASE call[c].id \in Stored
    <3>1. /\ pc[c] = "find" /\ pc' = [pc EXCEPT ![c] = "check"]
          /\ read' = [read EXCEPT ![c] = payments[call[c].id]]
          /\ UNCHANGED <<payments, idempotency_keys, call, answer>>
      BY <1>2, <2>2 DEF Find
    <3>2. /\ read' \in [Callers -> Payment \union {NoPayment}]
          /\ \A d \in Callers : d # c => read'[d] = read[d]
          /\ read'[c] = payments[call[c].id]
      BY <2>2, <3>1, StoredRow DEF TransitionsInv, TransitionsTypeOK
    <3>3. Reached(payments[call[c].id].status, read'[c].status)
      BY <2>2, <3>2, StoredRow
    <3> QED BY <2>2, <3>1, <3>2, <3>3, MoveOnKeeps
  <2> QED BY <2>1, <2>2
<1>3. CASE Check(c)
  <2>1. CASE ~ CanTransitionTo(read[c].status, call[c].target)
    BY <1>3, <2>1, EndKeeps DEF Check, Answers
  <2>2. CASE CanTransitionTo(read[c].status, call[c].target)
    <3>1. /\ pc[c] = "check" /\ pc' = [pc EXCEPT ![c] = "update"]
          /\ UNCHANGED <<payments, idempotency_keys, call, answer, read>>
      BY <1>3, <2>2 DEF Check
    <3>2. /\ call[c].id \in Stored
          /\ Reached(payments[call[c].id].status, read[c].status)
      BY <3>1 DEF TransitionsInv, ReadsAreOld
    <3> QED BY <2>2, <3>1, <3>2, MoveOnKeeps DEF TransitionsInv, TransitionsTypeOK
  <2> QED BY <2>1, <2>2
<1>4. CASE UpdateMisses(c)
  <2>1. /\ pc[c] = "update" /\ pc' = [pc EXCEPT ![c] = "explain"] /\ ~ Selected(c)
        /\ UNCHANGED <<payments, idempotency_keys, call, answer, read>>
    BY <1>4 DEF UpdateMisses
  <2>2. /\ call[c].id \in Stored /\ call[c] \in Call
        /\ Reached(payments[call[c].id].status, read[c].status)
        /\ CanTransitionTo(read[c].status, call[c].target)
    BY <2>1 DEF TransitionsInv, ReadsAreOld, CallsMade
  <2>3. payments[call[c].id].status # read[c].status
    <3>1. read[c].status \in PaymentStatuses
      BY <2>2, StoredRow DEF Reached, Payment, PaymentStatuses
    <3> QED BY <2>1, <2>2, <3>1 DEF Selected, ValidFromStates
  <2> QED BY <2>1, <2>2, <2>3, MoveOnKeeps DEF TransitionsInv, TransitionsTypeOK
<1>5. CASE Explain(c)
  <2>1. /\ pc[c] = "explain" /\ call[c].id \in Stored
        /\ Reached(payments[call[c].id].status, read[c].status) /\ Cause(c)
    BY <1>5 DEF Explain, TransitionsInv, ReadsAreOld, Cause
  <2> QED BY <1>5, <2>1, EndKeeps DEF Explain, Answers
<1>6. CASE UpdateRefused(c)
  <2>1. /\ pc[c] = "update" /\ call[c].id \in Stored
        /\ Reached(payments[call[c].id].status, read[c].status)
    BY <1>6 DEF UpdateRefused, TransitionsInv, ReadsAreOld
  <2>2. Cause(c)
    BY <1>6 DEF UpdateRefused, Selected, MayUpdate, HashFree, Cause
  <2> QED BY <1>6, <2>1, <2>2, EndKeeps DEF UpdateRefused, Answers
<1> QED BY <1>1, <1>2, <1>3, <1>4, <1>5, <1>6

-----------------------------------------------------------------------------
\* The specification.

\* Payments that are new and calls that have not started satisfy the invariant.
LEMMA InitKeeps == Init => TransitionsInv
<1> SUFFICES ASSUME Init
             PROVE  TransitionsInv
  OBVIOUS
<1>1. ASSUME NEW id \in PaymentIds
      PROVE  \/ payments[id] = NoPayment
             \/ /\ payments[id] \in Payment /\ payments[id].status = "pending"
                /\ payments[id].stellar_tx_hash = None
  <2>1. CASE payments[id] # NoPayment
    <3>1. PICK other \in PaymentIds, draft \in Drafts :
            payments[id] = NewPayment(other, draft, 0)
      BY <1>1, <2>1 DEF Init
    <3>2. draft \in Draft
      BY TransitionsAssumption
    <3> QED BY <3>1, <3>2, NewPaymentType
  <2> QED BY <2>1
<1>2. TransitionsTypeOK
  BY <1>1 DEF Init, TransitionsTypeOK, RepositoryTypeOK, Answers
<1>3. HashIffCredited
  BY <1>1 DEF HashIffCredited, Stored, CreditedStatuses
<1>4. \A c \in Callers : pc[c] = "idle" /\ answer[c] = "none"
  BY DEF Init
<1> QED BY <1>2, <1>3, <1>4 DEF TransitionsInv, CallsMade, ReadsAreOld, SuccessLasts,
      OneWinner, ConflictHasACause

\* Every step keeps the invariant.
LEMMA NextKeeps == TransitionsInv /\ [Next]_vars => TransitionsInv'
<1> SUFFICES ASSUME TransitionsInv, [Next]_vars
             PROVE  TransitionsInv'
  OBVIOUS
<1>1. ASSUME NEW c \in Callers, CallTransition(c)
      PROVE  TransitionsInv'
  BY <1>1, CallTransitionKeeps
<1>2. ASSUME NEW c \in Callers, Update(c)
      PROVE  TransitionsInv'
  BY <1>2, UpdateKeeps
<1>3. ASSUME NEW c \in Callers,
             \/ Find(c) \/ Check(c) \/ UpdateRefused(c) \/ UpdateMisses(c) \/ Explain(c)
             \/ DatabaseFails(c)
      PROVE  TransitionsInv'
  BY <1>3, QuietKeeps
<1>4. CASE UNCHANGED vars
  BY <1>4 DEF vars, callVars, TransitionsInv, TransitionsTypeOK, RepositoryTypeOK, CallsMade,
     HashIffCredited, ReadsAreOld, SuccessLasts, OneWinner, ConflictHasACause, Stored
<1> QED BY <1>1, <1>2, <1>3, <1>4 DEF Next

\* The inductive invariant of the transition calls, for any number of callers.
THEOREM TransitionsInvariant == Spec => []TransitionsInv
BY InitKeeps, NextKeeps, PTL DEF Spec

\* The tables and what every call holds between its awaits stay well typed.
THEOREM TransitionsTypeCorrect == Spec => []TransitionsTypeOK
<1>1. TransitionsInv => TransitionsTypeOK
  BY DEF TransitionsInv
<1> QED BY <1>1, TransitionsInvariant, PTL

\* Of any number of callers that passed the check of can_transition_to on the
\* same payment, update_status lets one through each way out of a status.
THEOREM OneCallerWins == Spec => []OneWinner
<1>1. TransitionsInv => OneWinner
  BY DEF TransitionsInv
<1> QED BY <1>1, TransitionsInvariant, PTL

\* No caller with an older reading undoes a success, nor its hash.
THEOREM SuccessIsKept == Spec => []SuccessLasts
<1>1. TransitionsInv => SuccessLasts
  BY DEF TransitionsInv
<1> QED BY <1>1, TransitionsInvariant, PTL

\* The second query of update_status, although it reads a later state, never
\* reports a conflict that had no cause.
THEOREM ConflictsAreReal == Spec => []ConflictHasACause
<1>1. TransitionsInv => ConflictHasACause
  BY DEF TransitionsInv
<1> QED BY <1>1, TransitionsInvariant, PTL

\* Rows only take the moves of can_transition_to and keep the hash they have.
THEOREM RowsMoveLegally == Spec => OnlyLegalMoves
<1> DEFINE Legal ==
      \A id \in Stored :
        /\ payments'[id].status # payments[id].status
             => CanTransitionTo(payments[id].status, payments'[id].status)
        /\ payments[id].stellar_tx_hash # None
             => payments'[id].stellar_tx_hash = payments[id].stellar_tx_hash
<1>1. TransitionsInv /\ [Next]_vars => [Legal]_vars
  <2> SUFFICES ASSUME TransitionsInv, Next
               PROVE  Legal
    OBVIOUS
  <2>1. ASSUME NEW c \in Callers, Update(c)
        PROVE  Legal
    BY <2>1, UpdateEffect DEF ValidFromStates
  <2>2. ASSUME NEW c \in Callers, \/ CallTransition(c) \/ Find(c) \/ Check(c)
                                  \/ UpdateRefused(c) \/ UpdateMisses(c) \/ Explain(c)
                                  \/ DatabaseFails(c)
        PROVE  Legal
    <3>1. payments' = payments
      BY <2>2 DEF CallTransition, Find, Check, UpdateRefused, UpdateMisses, Explain,
         DatabaseFails
    <3> QED BY <3>1
  <2> QED BY <2>1, <2>2 DEF Next
<1> QED BY <1>1, TransitionsInvariant, PTL DEF Spec, OnlyLegalMoves
=============================================================================

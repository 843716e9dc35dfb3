-------------------------- MODULE ReconciliationProofs --------------------------
(***************************************************************************)
(* Proofs about the reconciliation workers, for any number of workers,     *)
(* payments, merchants, transactions and clock ticks, and either           *)
(* repository unless a theorem says otherwise.                             *)
(*                                                                         *)
(* LocalInv, first, makes the types inductive.  SettlementInv, the second  *)
(* part, makes what the workers write, record and announce true: a worker  *)
(* acts on a clone that may be out of date, on an answer of Horizon it got *)
(* an await ago, and announces a status after another worker may have      *)
(* moved the payment on; the invariant says what all of that is still      *)
(* worth at the moment it is used.                                         *)
(***************************************************************************)
EXTENDS ReconciliationProperties, TLAPS

-----------------------------------------------------------------------------
\* The strengthening of the type invariant: what a worker's location says
\* about its locals.

\* A row is stored under its own id.
RowsKeyed == \A id \in Stored : payments[id].id = id

\* A pass lists open payments only.
ClonesOpen == \A w \in Workers : \A p \in todo[w] : p.status \in OpenStatuses

\* A worker in the middle of a payment has one ...
BusyHasPayment == \A w \in Workers : pc[w] \notin {"idle", "pass"} => cur[w] \in Payment

\* ... has a hash when it is about to write it ...
DetectHasHash == \A w \in Workers : pc[w] = "detect" => found[w] \in TxHashes

\* ... and has written a status before it announces it.
EmitHasMoved ==
  \A w \in Workers :
     pc[w] \in {"record", "emit"} => cur[w].status \in CreditedStatuses \union {"expired"}

LocalInv ==
  /\ ReconciliationTypeOK
  /\ RowsKeyed
  /\ ClonesOpen
  /\ BusyHasPayment
  /\ DetectHasHash
  /\ EmitHasMoved

-----------------------------------------------------------------------------
\* The operators of the repository.

\* A new row is well typed and stored as pending without a transaction.
LEMMA NewPaymentType ==
  ASSUME NEW id \in PaymentIds, NEW draft \in Draft, NEW t \in Nat
  PROVE  /\ NewPayment(id, draft, t) \in Payment
         /\ NewPayment(id, draft, t).id = id
         /\ NewPayment(id, draft, t).status = "pending"
         /\ NewPayment(id, draft, t).stellar_tx_hash = None
BY DEF NewPayment, Draft, Payment, PaymentStatuses

\* What update_status writes: only the status and, if one is given, the hash.
LEMMA UpdatedRow ==
  ASSUME NEW row \in Payment, NEW next \in PaymentStatuses,
         NEW hash \in TxHashes \union {None}
  PROVE  /\ Updated(row, next, hash) \in Payment
         /\ Updated(row, next, hash).id = row.id
         /\ Updated(row, next, hash).reference = row.reference
         /\ Updated(row, next, hash).memo = row.memo
         /\ Updated(row, next, hash).amount = row.amount
         /\ Updated(row, next, hash).created_at = row.created_at
         /\ Updated(row, next, hash).status = next
         /\ Updated(row, next, hash).stellar_tx_hash
              = IF hash = None THEN row.stellar_tx_hash ELSE hash
BY DEF Updated, Payment

\* Every status a worker writes has an event type.
LEMMA EventTypeType ==
  ASSUME NEW s \in CreditedStatuses \union {"expired"}
  PROVE  EventType(s) \in EventTypes
BY DEF CreditedStatuses, EventType, EventTypes

\* What a successful update_status of a worker does.
LEMMA MoveEffect ==
  ASSUME LocalInv, NEW w \in Workers, NEW next \in PaymentStatuses,
         NEW hash \in TxHashes \union {None}, NEW location, Move(w, next, hash, location)
  PROVE  /\ cur[w].id \in PaymentIds
         /\ cur[w].id \in Stored
         /\ payments[cur[w].id] \in Payment
         /\ payments[cur[w].id].id = cur[w].id
         /\ payments[cur[w].id].status \in ValidFromStates(next)
         /\ HashFree(cur[w].id, hash)
         /\ Updated(payments[cur[w].id], next, hash) \in Payment
         /\ payments' = [payments EXCEPT ![cur[w].id] = Updated(payments[cur[w].id], next, hash)]
         /\ cur' = [cur EXCEPT ![w] = Updated(payments[cur[w].id], next, hash)]
         /\ pc' = [pc EXCEPT ![w] = location]
         /\ Stored' = Stored
         /\ UNCHANGED <<idempotency_keys, ledger, todo, found, outbox, recorded, now>>
<1> DEFINE id == cur[w].id
           row == Updated(payments[id], next, hash)
<1>1. /\ id \in Stored
      /\ payments[id].status \in ValidFromStates(next)
      /\ HashFree(id, hash)
  BY DEF Move, UpdateStatus, MayUpdate
<1>2. id \in PaymentIds /\ payments[id] \in Payment /\ payments[id].id = id
  BY <1>1 DEF Stored, LocalInv, ReconciliationTypeOK, RepositoryTypeOK, RowsKeyed
<1>3. row \in Payment
  BY <1>2, UpdatedRow
<1>4. /\ payments' = [payments EXCEPT ![id] = row]
      /\ cur' = [cur EXCEPT ![w] = row]
      /\ pc' = [pc EXCEPT ![w] = location]
      /\ UNCHANGED <<idempotency_keys, ledger, todo, found, outbox, recorded, now>>
  BY DEF Move, UpdateStatus, GoTo, effectVars
<1>5. Stored' = Stored
  BY <1>1, <1>3, <1>4, RepositoryAssumption
     DEF Stored, LocalInv, ReconciliationTypeOK, RepositoryTypeOK
<1> QED BY <1>1, <1>2, <1>3, <1>4, <1>5

\* update_status by a worker keeps every local fact.
LEMMA MoveLocal ==
  ASSUME LocalInv, NEW w \in Workers,
         NEW next \in CreditedStatuses \union {"expired"},
         NEW hash \in TxHashes \union {None},
         NEW location \in {"emit", "record"},
         Move(w, next, hash, location)
  PROVE  LocalInv'
<1> DEFINE id == cur[w].id
           row == Updated(payments[id], next, hash)
<1> USE DEF LocalInv
<1>1. next \in PaymentStatuses
  BY DEF CreditedStatuses, PaymentStatuses
<1>2. /\ id \in Stored
      /\ payments[id] \in Payment
      /\ payments[id].id = id
      /\ payments' = [payments EXCEPT ![id] = row]
      /\ cur' = [cur EXCEPT ![w] = row]
      /\ pc' = [pc EXCEPT ![w] = location]
      /\ Stored' = Stored
      /\ UNCHANGED <<idempotency_keys, ledger, todo, found, outbox, recorded, now>>
  BY <1>1, MoveEffect
<1>3. row \in Payment /\ row.id = id /\ row.status = next
  BY <1>1, <1>2, UpdatedRow
<1> HIDE DEF row
<1>4. ReconciliationTypeOK'
  BY <1>2, <1>3 DEF ReconciliationTypeOK, RepositoryTypeOK, LedgerTypeOK, Locations
<1>5. RowsKeyed'
  BY <1>2, <1>3 DEF ReconciliationTypeOK, RepositoryTypeOK, RowsKeyed, Stored
<1>6. ClonesOpen'
  BY <1>2 DEF ClonesOpen
<1>7. BusyHasPayment' /\ DetectHasHash' /\ EmitHasMoved'
  BY <1>2, <1>3 DEF ReconciliationTypeOK, BusyHasPayment, DetectHasHash, EmitHasMoved
<1> QED BY <1>4, <1>5, <1>6, <1>7

\* Ending a payment or a pass clears the locals, so nothing remains to say.
LEMMA LeaveLocal ==
  ASSUME LocalInv, NEW w \in Workers,
         NextInPass(w) \/ LeavePass(w),
         UNCHANGED <<tableVars, ledger, recorded, now>>,
         outbox' \in Seq(Event)
  PROVE  LocalInv'
<1> USE DEF LocalInv
<1>1. \E location \in {"idle", "pass"} :
        /\ pc' = [pc EXCEPT ![w] = location]
        /\ cur' = [cur EXCEPT ![w] = NoPayment]
        /\ found' = [found EXCEPT ![w] = None]
        /\ todo' = todo \/ todo' = [todo EXCEPT ![w] = {}]
  BY DEF NextInPass, LeavePass, GoTo
<1>2. ReconciliationTypeOK'
  BY <1>1 DEF ReconciliationTypeOK, RepositoryTypeOK, LedgerTypeOK, Locations, tableVars
<1>3. RowsKeyed'
  BY DEF RowsKeyed, Stored, tableVars
<1>4. ClonesOpen'
  BY <1>1 DEF ClonesOpen, ReconciliationTypeOK
<1>5. BusyHasPayment' /\ DetectHasHash' /\ EmitHasMoved'
  BY <1>1 DEF BusyHasPayment, DetectHasHash, EmitHasMoved, ReconciliationTypeOK
<1> QED BY <1>2, <1>3, <1>4, <1>5

\* A clock that shows another time disturbs no local.
LEMMA ClockLocal ==
  ASSUME LocalInv, now' \in Nat,
         UNCHANGED <<payments, idempotency_keys, ledger, pc, todo, cur, found, outbox, recorded>>
  PROVE  LocalInv'
<1> USE DEF LocalInv
<1>1. ReconciliationTypeOK'
  BY DEF ReconciliationTypeOK, RepositoryTypeOK, LedgerTypeOK
<1>2. RowsKeyed' /\ ClonesOpen' /\ BusyHasPayment' /\ DetectHasHash' /\ EmitHasMoved'
  BY DEF RowsKeyed, Stored, ClonesOpen, BusyHasPayment, DetectHasHash, EmitHasMoved
<1> QED BY <1>1, <1>2

\* The environment does not touch the locals.
LEMMA EnvironmentLocal ==
  ASSUME LocalInv, Environment
  PROVE  LocalInv'
<1> USE DEF LocalInv
<1>1. CASE CreatePayment
  <2>1. PICK id \in PaymentIds, draft \in Drafts :
               CreateWithIdempotencyKey(id, draft, None, now)
    BY <1>1 DEF CreatePayment
  <2> DEFINE row == NewPayment(id, draft, now)
  <2>2. now \in Nat /\ draft \in Draft
    BY ReconciliationAssumption DEF ReconciliationTypeOK
  <2>3. row \in Payment /\ row.id = id
    BY <2>2, NewPaymentType
  <2>4. payments' = [payments EXCEPT ![id] = row] /\ idempotency_keys' = idempotency_keys
    BY <2>1 DEF CreateWithIdempotencyKey
  <2>5. UNCHANGED <<ledger, pc, todo, cur, found, outbox, recorded, now>>
    BY <1>1 DEF CreatePayment, workerVars, effectVars
  <2> HIDE DEF row
  <2>6. ReconciliationTypeOK'
    BY <2>3, <2>4, <2>5 DEF ReconciliationTypeOK, RepositoryTypeOK, LedgerTypeOK
  <2>7. RowsKeyed'
    BY <2>3, <2>4 DEF ReconciliationTypeOK, RepositoryTypeOK, RowsKeyed, Stored
  <2>8. ClonesOpen' /\ BusyHasPayment' /\ DetectHasHash' /\ EmitHasMoved'
    BY <2>5 DEF ClonesOpen, BusyHasPayment, DetectHasHash, EmitHasMoved
  <2> QED BY <2>6, <2>7, <2>8
<1>2. CASE PayOnLedger
  <2>1. UNCHANGED <<payments, idempotency_keys, pc, todo, cur, found, outbox, recorded, now>>
    BY <1>2 DEF PayOnLedger, tableVars, workerVars, effectVars
  <2>2. now \in Nat
    BY ReconciliationAssumption DEF ReconciliationTypeOK
  <2>3. LedgerTypeOK'
    <3>1. PICK hash \in TxHashes, memo \in Memos, amount \in Amounts, ok \in BOOLEAN :
                 SubmitPayment(hash, memo, amount, ok, now)
      BY <1>2 DEF PayOnLedger
    <3> DEFINE record == [transaction_hash |-> hash, memo |-> memo, amount |-> amount,
                          successful |-> ok, created_at |-> now]
    <3>2. record \in LedgerRecord
      BY <2>2 DEF LedgerRecord
    <3>3. ledger' = Append(ledger, record)
      BY <3>1 DEF SubmitPayment
    <3> HIDE DEF record
    <3> QED BY <3>2, <3>3 DEF LedgerTypeOK, ReconciliationTypeOK
  <2>4. ReconciliationTypeOK'
    BY <2>1, <2>3 DEF ReconciliationTypeOK, RepositoryTypeOK
  <2>5. RowsKeyed' /\ ClonesOpen' /\ BusyHasPayment' /\ DetectHasHash' /\ EmitHasMoved'
    BY <2>1 DEF RowsKeyed, Stored, ClonesOpen, BusyHasPayment, DetectHasHash, EmitHasMoved
  <2> QED BY <2>4, <2>5
<1>3. CASE Tick
  <2>1. UNCHANGED <<payments, idempotency_keys, ledger, pc, todo, cur, found, outbox, recorded>>
    BY <1>3 DEF Tick, tableVars, workerVars, effectVars
  <2>2. now' \in Nat
    BY <1>3 DEF Tick, ReconciliationTypeOK
  <2> QED BY <2>1, <2>2, ClockLocal
<1> QED BY <1>1, <1>2, <1>3 DEF Environment

\* A worker that reads, and writes only its own locals.
LEMMA ReadingLocal ==
  ASSUME LocalInv, NEW w \in Workers,
         \/ StartPass(w) \/ TakePayment(w) \/ FindHit(w) \/ FindOlder(w)
         \/ GetTransaction(w) \/ RecordPayment(w)
  PROVE  LocalInv'
<1> USE DEF LocalInv
<1>1. UNCHANGED <<payments, idempotency_keys, ledger, outbox, now>>
  BY DEF StartPass, TakePayment, FindHit, FindOlder, Hit, GetTransaction, RecordPayment, RecordOnChain,
         tableVars, effectVars
<1>2. RowsKeyed'
  BY <1>1 DEF RowsKeyed, Stored
<1>3. CASE StartPass(w)
  <2>1. /\ pc' = [pc EXCEPT ![w] = "pass"]
        /\ todo' = [todo EXCEPT ![w] = PendingForReconciliation]
        /\ UNCHANGED <<cur, found, recorded>>
    BY <1>3 DEF StartPass, GoTo, effectVars
  <2>2. /\ PendingForReconciliation \in SUBSET Payment
        /\ \A p \in PendingForReconciliation : p.status \in OpenStatuses
    BY DEF PendingForReconciliation, Stored, ReconciliationTypeOK, RepositoryTypeOK
  <2>3. ReconciliationTypeOK'
    BY <1>1, <2>1, <2>2 DEF ReconciliationTypeOK, RepositoryTypeOK, LedgerTypeOK, Locations
  <2>4. ClonesOpen' /\ BusyHasPayment' /\ DetectHasHash' /\ EmitHasMoved'
    BY <2>1, <2>2 DEF ReconciliationTypeOK, ClonesOpen, BusyHasPayment, DetectHasHash, EmitHasMoved
  <2> QED BY <1>2, <2>3, <2>4
<1>4. CASE TakePayment(w)
  <2>1. PICK p \in todo[w] :
          /\ todo' = [todo EXCEPT ![w] = @ \ {p}]
          /\ cur' = [cur EXCEPT ![w] = p]
          /\ GoTo(w, CASE p.status = "detected"                -> "fetch"
                       [] p.status = "pending" /\ IsStale(p)   -> "expire"
                       [] p.status = "pending" /\ ~ IsStale(p) -> "lookup")
    BY <1>4 DEF TakePayment
  <2>2. p \in Payment /\ p.status \in {"pending", "detected"}
    BY DEF ReconciliationTypeOK, ClonesOpen, OpenStatuses
  <2>3. \E location \in {"fetch", "expire", "lookup"} : pc' = [pc EXCEPT ![w] = location]
    BY <2>1, <2>2 DEF GoTo
  <2>4. UNCHANGED <<found, recorded>>
    BY <1>4 DEF TakePayment, effectVars
  <2>5. ReconciliationTypeOK'
    BY <1>1, <2>1, <2>2, <2>3, <2>4
       DEF ReconciliationTypeOK, RepositoryTypeOK, LedgerTypeOK, Locations
  <2>6. ClonesOpen' /\ BusyHasPayment' /\ DetectHasHash' /\ EmitHasMoved'
    BY <2>1, <2>2, <2>3, <2>4
       DEF ReconciliationTypeOK, ClonesOpen, BusyHasPayment, DetectHasHash, EmitHasMoved
  <2> QED BY <1>2, <2>5, <2>6
<1>5. CASE FindHit(w) \/ FindOlder(w)
  <2>1. PICK i \in DOMAIN ledger : found' = [found EXCEPT ![w] = ledger[i].transaction_hash]
    BY <1>5 DEF FindHit, FindOlder, Hit, Matches
  <2>2. ledger[i].transaction_hash \in TxHashes
    <3>1. ledger[i] \in LedgerRecord
      BY DEF ReconciliationTypeOK, LedgerTypeOK
    <3> QED BY <3>1 DEF LedgerRecord
  <2>3. pc[w] = "lookup" /\ pc' = [pc EXCEPT ![w] = "detect"] /\ UNCHANGED <<todo, cur, recorded>>
    BY <1>5 DEF FindHit, FindOlder, Hit, GoTo, effectVars
  <2>4. ReconciliationTypeOK'
    BY <1>1, <2>1, <2>2, <2>3
       DEF ReconciliationTypeOK, RepositoryTypeOK, LedgerTypeOK, Locations
  <2>5. ClonesOpen' /\ BusyHasPayment' /\ DetectHasHash' /\ EmitHasMoved'
    BY <2>1, <2>2, <2>3
       DEF ReconciliationTypeOK, ClonesOpen, BusyHasPayment, DetectHasHash, EmitHasMoved
  <2> QED BY <1>2, <2>4, <2>5
<1>6. CASE GetTransaction(w)
  <2>1. \E location \in {"confirm", "fail"} : pc' = [pc EXCEPT ![w] = location]
    BY <1>6 DEF GetTransaction, GoTo, Verdict
  <2>2. pc[w] = "fetch" /\ UNCHANGED <<todo, cur, found, recorded>>
    BY <1>6 DEF GetTransaction, effectVars
  <2>3. ReconciliationTypeOK'
    BY <1>1, <2>1, <2>2 DEF ReconciliationTypeOK, RepositoryTypeOK, LedgerTypeOK, Locations
  <2>4. ClonesOpen' /\ BusyHasPayment' /\ DetectHasHash' /\ EmitHasMoved'
    BY <2>1, <2>2
       DEF ReconciliationTypeOK, ClonesOpen, BusyHasPayment, DetectHasHash, EmitHasMoved
  <2> QED BY <1>2, <2>3, <2>4
<1>7. CASE RecordPayment(w)
  <2>1. pc[w] = "record" /\ pc' = [pc EXCEPT ![w] = "emit"] /\ UNCHANGED <<todo, cur, found>>
    BY <1>7 DEF RecordPayment, RecordOnChain, GoTo
  <2>2. recorded' \in [PaymentIds -> Nat]
    BY <1>7 DEF RecordPayment, RecordOnChain, ReconciliationTypeOK
  <2>3. ReconciliationTypeOK'
    BY <1>1, <2>1, <2>2 DEF ReconciliationTypeOK, RepositoryTypeOK, LedgerTypeOK, Locations
  <2>4. ClonesOpen' /\ BusyHasPayment' /\ DetectHasHash' /\ EmitHasMoved'
    BY <2>1 DEF ReconciliationTypeOK, ClonesOpen, BusyHasPayment, DetectHasHash, EmitHasMoved
  <2> QED BY <1>2, <2>3, <2>4
<1> QED BY <1>3, <1>4, <1>5, <1>6, <1>7

\* Every step keeps the locals consistent.
LEMMA NextLocal ==
  ASSUME LocalInv, [Next]_vars
  PROVE  LocalInv'
<1>1. CASE Environment
  BY <1>1, EnvironmentLocal
<1>2. ASSUME NEW w \in Workers, Advance(w) \/ Outage(w)
      PROVE  LocalInv'
  <2>1. CASE \/ StartPass(w) \/ TakePayment(w) \/ FindHit(w) \/ FindOlder(w)
             \/ GetTransaction(w) \/ RecordPayment(w)
    BY <2>1, ReadingLocal
  <2>2. CASE \/ EndPass(w) \/ FindMiss(w) \/ EmitFails(w) \/ UpdateRefused(w)
             \/ FindNothing(w) \/ RequestFails(w) \/ Crash(w)
    <3>1. NextInPass(w) \/ LeavePass(w)
      BY <2>2 DEF EndPass, FindMiss, EmitFails, UpdateRefused, FindNothing, RequestFails, Crash
    <3>2. UNCHANGED <<tableVars, ledger, recorded, now, outbox>>
      BY <2>2 DEF EndPass, FindMiss, EmitFails, UpdateRefused, FindNothing, RequestFails, Crash,
                  effectVars
    <3>3. outbox' \in Seq(Event)
      BY <3>2 DEF LocalInv, ReconciliationTypeOK
    <3> QED BY <3>1, <3>2, <3>3, LeaveLocal
  <2>3. CASE Emit(w)
    <3>1. NextInPass(w) /\ UNCHANGED <<tableVars, ledger, recorded, now>>
      BY <2>3 DEF Emit
    <3>2. cur[w] \in Payment /\ cur[w].status \in CreditedStatuses \union {"expired"}
      BY <2>3 DEF Emit, LocalInv, BusyHasPayment, EmitHasMoved
    <3>3. [payment_id |-> cur[w].id, event_type |-> EventType(cur[w].status)] \in Event
      BY <3>2, EventTypeType DEF Event, Payment
    <3>4. outbox' \in Seq(Event)
      BY <2>3, <3>3 DEF Emit, LocalInv, ReconciliationTypeOK
    <3> QED BY <3>1, <3>4, LeaveLocal
  <2>4. CASE MarkExpired(w)
    BY <2>4, MoveLocal DEF MarkExpired
  <2>5. CASE MarkDetected(w)
    <3>1. found[w] \in TxHashes /\ Move(w, "detected", found[w], "emit")
      BY <2>5 DEF MarkDetected, LocalInv, DetectHasHash
    <3> QED BY <3>1, MoveLocal DEF CreditedStatuses
  <2>6. CASE MarkConfirmed(w)
    BY <2>6, MoveLocal DEF MarkConfirmed, CreditedStatuses
  <2>7. CASE MarkFailed(w)
    BY <2>7, MoveLocal DEF MarkFailed, CreditedStatuses
  <2> QED BY <1>2, <2>1, <2>2, <2>3, <2>4, <2>5, <2>6, <2>7 DEF Advance, Outage
<1>3. CASE UNCHANGED vars
  BY <1>3 DEF vars, tableVars, workerVars, effectVars, LocalInv, ReconciliationTypeOK,
     RepositoryTypeOK, LedgerTypeOK, RowsKeyed, Stored, ClonesOpen, BusyHasPayment,
     DetectHasHash, EmitHasMoved
<1> QED BY <1>1, <1>2, <1>3 DEF Next, SteadyNext

\* Empty tables and idle workers satisfy the invariant.
LEMMA InitLocal == Init => LocalInv
<1> SUFFICES ASSUME Init PROVE LocalInv
  OBVIOUS
<1>1. ReconciliationTypeOK
  BY ReconciliationAssumption
     DEF Init, RepositoryInit, LedgerInit, ReconciliationTypeOK, RepositoryTypeOK,
         LedgerTypeOK, Locations
<1>2. RowsKeyed /\ ClonesOpen /\ BusyHasPayment /\ DetectHasHash /\ EmitHasMoved
  BY DEF Init, RepositoryInit, RowsKeyed, Stored, ClonesOpen, BusyHasPayment,
         DetectHasHash, EmitHasMoved
<1> QED BY <1>1, <1>2 DEF LocalInv

\* What a worker's location says about its locals is always true.
THEOREM LocalInvariant == Spec => []LocalInv
BY InitLocal, NextLocal, PTL DEF Spec

\* The tables, the locals of every worker and the outbox keep their types.
THEOREM TypeCorrect == Spec => []ReconciliationTypeOK
<1>1. LocalInv => ReconciliationTypeOK
  BY DEF LocalInv
<1> QED BY <1>1, LocalInvariant, PTL

-----------------------------------------------------------------------------
\* Invariants of the payments table.

\* The updates the workers make: targets and hashes.
WorkerUpdate(next, hash) ==
  \/ next = "detected" /\ hash \in TxHashes
  \/ next \in {"confirmed", "failed", "expired"} /\ hash = None

\* Every step leaves the table alone, inserts a row or updates one.
LEMMA TableSteps ==
  ASSUME LocalInv, [Next]_vars
  PROVE  \/ UNCHANGED payments
         \/ \E id \in PaymentIds, draft \in Drafts :
               CreateWithIdempotencyKey(id, draft, None, now)
         \/ \E w \in Workers, next \in PaymentStatuses, hash \in TxHashes \union {None} :
               \E location \in {"emit", "record"} :
                  WorkerUpdate(next, hash) /\ Move(w, next, hash, location)
<1>1. CASE Environment
  BY <1>1 DEF Environment, CreatePayment, PayOnLedger, Tick, tableVars
<1>2. ASSUME NEW w \in Workers, Advance(w) \/ Outage(w)
      PROVE  \/ UNCHANGED payments
             \/ \E next \in PaymentStatuses, hash \in TxHashes \union {None} :
                   \E location \in {"emit", "record"} :
                      WorkerUpdate(next, hash) /\ Move(w, next, hash, location)
  <2>1. CASE MarkExpired(w)
    BY <2>1 DEF MarkExpired, WorkerUpdate, PaymentStatuses
  <2>2. CASE MarkDetected(w)
    <3>1. found[w] \in TxHashes /\ Move(w, "detected", found[w], "emit")
      BY <2>2 DEF MarkDetected, LocalInv, DetectHasHash
    <3> QED BY <3>1 DEF WorkerUpdate, PaymentStatuses
  <2>3. CASE MarkConfirmed(w)
    BY <2>3 DEF MarkConfirmed, WorkerUpdate, PaymentStatuses
  <2>4. CASE MarkFailed(w)
    BY <2>4 DEF MarkFailed, WorkerUpdate, PaymentStatuses
  <2>5. CASE ~ (MarkExpired(w) \/ MarkDetected(w) \/ MarkConfirmed(w) \/ MarkFailed(w))
    BY <1>2, <2>5 DEF Advance, Outage, StartPass, TakePayment, EndPass, FindHit, FindOlder,
       Hit, FindMiss, FindNothing, GetTransaction, RecordPayment, RecordOnChain, Emit, EmitFails,
       UpdateRefused, RequestFails, Crash, tableVars
  <2> QED BY <2>1, <2>2, <2>3, <2>4, <2>5
<1>3. CASE UNCHANGED vars
  BY <1>3 DEF vars, tableVars
<1> QED BY <1>1, <1>2, <1>3 DEF Next, SteadyNext

\* A row holds a hash exactly when its status says it was matched.
LEMMA NextHashIffCredited ==
  ASSUME LocalInv, HashIffCredited, [Next]_vars
  PROVE  HashIffCredited'
<1>1. CASE UNCHANGED payments
  BY <1>1 DEF HashIffCredited, Stored
<1>2. ASSUME NEW id \in PaymentIds, NEW draft \in Drafts,
             CreateWithIdempotencyKey(id, draft, None, now)
      PROVE  HashIffCredited'
  <2>1. draft \in Draft /\ now \in Nat
    BY ReconciliationAssumption DEF LocalInv, ReconciliationTypeOK
  <2> DEFINE row == NewPayment(id, draft, now)
  <2>2. row.status = "pending" /\ row.stellar_tx_hash = None
    BY <2>1, NewPaymentType
  <2>3. payments' = [payments EXCEPT ![id] = row]
    BY <1>2 DEF CreateWithIdempotencyKey
  <2> HIDE DEF row
  <2> QED BY <2>2, <2>3 DEF HashIffCredited, Stored, CreditedStatuses,
             LocalInv, ReconciliationTypeOK, RepositoryTypeOK
<1>3. ASSUME NEW w \in Workers, NEW next \in PaymentStatuses,
             NEW hash \in TxHashes \union {None}, NEW location \in {"emit", "record"},
             WorkerUpdate(next, hash), Move(w, next, hash, location)
      PROVE  HashIffCredited'
  <2> DEFINE id == cur[w].id
             row == Updated(payments[id], next, hash)
  <2>1. /\ id \in Stored /\ payments[id] \in Payment
        /\ payments[id].status \in ValidFromStates(next)
        /\ payments' = [payments EXCEPT ![id] = row]
        /\ Stored' = Stored
    BY <1>3, MoveEffect
  <2>2. /\ row.status = next
        /\ row.stellar_tx_hash = IF hash = None THEN payments[id].stellar_tx_hash ELSE hash
    BY <2>1, UpdatedRow
  <2>3. row.stellar_tx_hash # None <=> next \in CreditedStatuses
    <3>1. CASE next = "detected" /\ hash \in TxHashes
      BY <3>1, <2>2, RepositoryAssumption DEF CreditedStatuses
    <3>2. CASE next \in {"confirmed", "failed"} /\ hash = None
      <4>1. payments[id].status = "detected"
        BY <3>2, <2>1 DEF ValidFromStates, CanTransitionTo, PaymentStatuses
      <4> QED BY <4>1, <3>2, <2>1, <2>2 DEF HashIffCredited, CreditedStatuses
    <3>3. CASE next = "expired" /\ hash = None
      <4>1. payments[id].status = "pending"
        BY <3>3, <2>1 DEF ValidFromStates, CanTransitionTo, PaymentStatuses
      <4> QED BY <4>1, <3>3, <2>1, <2>2 DEF HashIffCredited, CreditedStatuses
    <3> QED BY <1>3, <3>1, <3>2, <3>3 DEF WorkerUpdate
  <2> HIDE DEF row
  <2> QED BY <2>1, <2>2, <2>3 DEF HashIffCredited, Stored, LocalInv,
             ReconciliationTypeOK, RepositoryTypeOK
<1> QED BY <1>1, <1>2, <1>3, TableSteps

\* A payment holds a Stellar hash exactly while it is, or was, detected.
THEOREM HashExactlyWhenCredited == Spec => []HashIffCredited
<1>1. Init => HashIffCredited
  BY DEF Init, RepositoryInit, HashIffCredited, Stored
<1>2. LocalInv /\ HashIffCredited /\ [Next]_vars => HashIffCredited'
  BY NextHashIffCredited
<1> QED BY <1>1, <1>2, LocalInvariant, PTL DEF Spec

\* Over Postgres a transaction settles at most one payment, for any number of
\* workers, however stale their clones.
THEOREM NoDoubleCredit ==
  ASSUME Backend = "postgres"
  PROVE  Spec => []TxCreditedOnce
<1>1. Init => TxCreditedOnce
  BY DEF Init, RepositoryInit, TxCreditedOnce, Stored
<1>2. ASSUME LocalInv, TxCreditedOnce, [Next]_vars
      PROVE  TxCreditedOnce'
  <2>1. CASE UNCHANGED payments
    BY <1>2, <2>1 DEF TxCreditedOnce, Stored
  <2>2. ASSUME NEW id \in PaymentIds, NEW draft \in Drafts,
               CreateWithIdempotencyKey(id, draft, None, now)
        PROVE  TxCreditedOnce'
    <3>1. draft \in Draft /\ now \in Nat
      BY <1>2, ReconciliationAssumption DEF LocalInv, ReconciliationTypeOK
    <3> DEFINE row == NewPayment(id, draft, now)
    <3>2. row.stellar_tx_hash = None
      BY <3>1, NewPaymentType
    <3>3. payments' = [payments EXCEPT ![id] = row]
      BY <2>2 DEF CreateWithIdempotencyKey
    <3> HIDE DEF row
    <3> QED BY <1>2, <3>2, <3>3 DEF TxCreditedOnce, Stored, LocalInv,
               ReconciliationTypeOK, RepositoryTypeOK
  <2>3. ASSUME NEW w \in Workers, NEW next \in PaymentStatuses,
               NEW hash \in TxHashes \union {None}, NEW location \in {"emit", "record"},
               WorkerUpdate(next, hash), Move(w, next, hash, location)
        PROVE  TxCreditedOnce'
    <3> DEFINE id == cur[w].id
               row == Updated(payments[id], next, hash)
    <3>1. /\ id \in Stored /\ payments[id] \in Payment /\ HashFree(id, hash)
          /\ payments' = [payments EXCEPT ![id] = row]
          /\ Stored' = Stored
      BY <1>2, <2>3, MoveEffect
    <3>2. row.stellar_tx_hash = IF hash = None THEN payments[id].stellar_tx_hash ELSE hash
      BY <3>1, UpdatedRow
    <3> HIDE DEF row
    <3>3. hash = None \/ \A other \in Stored \ {id} : payments[other].stellar_tx_hash # hash
      BY <3>1 DEF HashFree
    <3> QED BY <1>2, <3>1, <3>2, <3>3 DEF TxCreditedOnce, Stored, LocalInv,
               ReconciliationTypeOK, RepositoryTypeOK
  <2> QED BY <1>2, <2>1, <2>2, <2>3, TableSteps
<1> QED BY <1>1, <1>2, LocalInvariant, PTL DEF Spec

-----------------------------------------------------------------------------
\* What a clone of an earlier row of the table says of the row there now: the
\* columns given at creation are the same, the status is one the row has been
\* in, and a hash the clone has is the row's.
Snapshot(p) ==
  /\ p.id \in Stored
  /\ p.memo = payments[p.id].memo
  /\ p.amount = payments[p.id].amount
  /\ p.created_at = payments[p.id].created_at
  /\ Reached(payments[p.id].status, p.status)
  /\ p.stellar_tx_hash # None <=> p.status \in CreditedStatuses
  /\ p.stellar_tx_hash # None => p.stellar_tx_hash = payments[p.id].stellar_tx_hash

HeldAreSnapshots ==
  \A w \in Workers :
    /\ \A p \in todo[w] : Snapshot(p)
    /\ cur[w] # NoPayment => Snapshot(cur[w])

\* A ledger transaction pays p: its memo, its amount, and not before it existed.
Paid(hash, p) ==
  \E i \in DOMAIN ledger :
     /\ ledger[i].transaction_hash = hash
     /\ ledger[i].memo = p.memo
     /\ ledger[i].amount = p.amount
     /\ ledger[i].created_at >= p.created_at

\* What a worker found out before the await is still so at the update ...
ReasonsHold ==
  \A w \in Workers :
    /\ pc[w] = "expire" => now >= cur[w].created_at + ExpiryWindow
    /\ pc[w] = "detect" => Paid(found[w], cur[w])
    /\ pc[w] \in {"fetch", "confirm", "fail"} => cur[w].status = "detected"
    /\ pc[w] = "confirm" => Successful(cur[w].stellar_tx_hash)
    /\ pc[w] = "fail" => ~ Successful(cur[w].stellar_tx_hash)

\* A worker that has written a status and not yet announced it.
Announcing(w) == pc[w] \in {"record", "emit"}

\* ... and nobody else announces, has announced or has recorded it.
AnnouncedByOne ==
  \A w \in Workers :
     Announcing(w) =>
       /\ \A v \in Workers :
             Announcing(v) /\ cur[v].id = cur[w].id /\ cur[v].status = cur[w].status => v = w
       /\ \A i \in DOMAIN outbox :
             ~ (/\ outbox[i].payment_id = cur[w].id
                /\ outbox[i].event_type = EventType(cur[w].status))
       /\ pc[w] = "record" => cur[w].status = "confirmed" /\ recorded[cur[w].id] = 0

SettlementInv ==
  /\ LocalInv
  /\ HashIffCredited
  /\ HeldAreSnapshots
  /\ ReasonsHold
  /\ AnnouncedByOne
  /\ CreditBacked
  /\ OutcomeIsTheLedgers
  /\ ExpiredOnlyWhenStale
  /\ AnnouncedOnceAndTruly
  /\ RecordedOnce

-----------------------------------------------------------------------------
\* Moves, rows and clones.

\* A legal move leads to a status the payment had not been in, and forgets none.
LEMMA ReachedOnMove ==
  ASSUME NEW from, NEW next, from \in ValidFromStates(next), NEW s, Reached(from, s)
  PROVE  Reached(next, s) /\ s # next /\ Reached(next, next)
BY DEF Reached, ValidFromStates, CanTransitionTo

\* A row is a clone of itself.
LEMMA RowIsSnapshot ==
  ASSUME LocalInv, HashIffCredited, NEW id \in Stored
  PROVE  payments[id] \in Payment /\ payments[id].id = id /\ Snapshot(payments[id])
<1>1. payments[id] \in Payment /\ payments[id].id = id
  BY DEF LocalInv, ReconciliationTypeOK, RepositoryTypeOK, RowsKeyed, Stored
<1>2. payments[id].stellar_tx_hash # None <=> payments[id].status \in CreditedStatuses
  BY DEF HashIffCredited
<1> QED BY <1>1, <1>2 DEF Snapshot, Reached

\* A new row disturbs no clone and no row: its id was free.
LEMMA CreateKeeps ==
  ASSUME LocalInv, NEW id \in PaymentIds, NEW draft \in Drafts,
         CreateWithIdempotencyKey(id, draft, None, now)
  PROVE  /\ id \notin Stored
         /\ Stored' = Stored \union {id}
         /\ \A other \in Stored : payments'[other] = payments[other]
         /\ payments'[id].status = "pending"
         /\ payments'[id].stellar_tx_hash = None
<1>1. draft \in Draft /\ now \in Nat
  BY ReconciliationAssumption DEF LocalInv, ReconciliationTypeOK
<1> DEFINE row == NewPayment(id, draft, now)
<1>2. row \in Payment /\ row.status = "pending" /\ row.stellar_tx_hash = None
  BY <1>1, NewPaymentType
<1>3. row # NoPayment
  BY <1>2, RepositoryAssumption
<1>4. id \notin Stored /\ payments' = [payments EXCEPT ![id] = row]
  BY DEF CreateWithIdempotencyKey
<1> HIDE DEF row
<1> QED BY <1>2, <1>3, <1>4 DEF Stored, LocalInv, ReconciliationTypeOK, RepositoryTypeOK

\* What an update by a worker does to the row, column by column.
LEMMA MoveRow ==
  ASSUME LocalInv, HashIffCredited, NEW w \in Workers, NEW next \in PaymentStatuses,
         NEW hash \in TxHashes \union {None}, NEW location \in {"emit", "record"},
         WorkerUpdate(next, hash), Move(w, next, hash, location)
  PROVE  LET id == cur[w].id IN
         /\ id \in Stored
         /\ Stored' = Stored
         /\ payments[id].status \in ValidFromStates(next)
         /\ \A other \in Stored : other # id => payments'[other] = payments[other]
         /\ payments'[id] \in Payment
         /\ payments'[id].id = id
         /\ payments'[id].memo = payments[id].memo
         /\ payments'[id].amount = payments[id].amount
         /\ payments'[id].created_at = payments[id].created_at
         /\ payments'[id].status = next
         /\ payments'[id].stellar_tx_hash
              = IF next = "detected" THEN hash ELSE payments[id].stellar_tx_hash
         /\ next = "detected" => payments[id].stellar_tx_hash = None /\ hash # None
         /\ cur' = [cur EXCEPT ![w] = payments'[id]]
<1> DEFINE id == cur[w].id
           row == Updated(payments[id], next, hash)
<1>1. /\ id \in Stored /\ id \in PaymentIds
      /\ payments[id] \in Payment /\ payments[id].id = id
      /\ payments[id].status \in ValidFromStates(next)
      /\ payments' = [payments EXCEPT ![id] = row]
      /\ cur' = [cur EXCEPT ![w] = row]
      /\ Stored' = Stored
  BY MoveEffect
<1>2. /\ row \in Payment /\ row.id = id /\ row.status = next
      /\ row.memo = payments[id].memo
      /\ row.amount = payments[id].amount
      /\ row.created_at = payments[id].created_at
      /\ row.stellar_tx_hash = IF hash = None THEN payments[id].stellar_tx_hash ELSE hash
  BY <1>1, UpdatedRow
<1>3. (next = "detected" <=> hash # None)
  BY RepositoryAssumption DEF WorkerUpdate
<1>4. next = "detected" => payments[id].stellar_tx_hash = None
  <2> SUFFICES ASSUME next = "detected" PROVE payments[id].stellar_tx_hash = None
    OBVIOUS
  <2>1. payments[id].status = "pending"
    BY <1>1 DEF ValidFromStates, CanTransitionTo
  <2> QED BY <1>1, <2>1 DEF HashIffCredited, CreditedStatuses
<1> HIDE DEF row
<1>5. payments'[id] = row /\ \A other \in Stored : other # id => payments'[other] = payments[other]
  BY <1>1 DEF LocalInv, ReconciliationTypeOK, RepositoryTypeOK, Stored
<1> QED BY <1>1, <1>2, <1>3, <1>4, <1>5

\* Clones stay what they are when a worker moves a payment ...
LEMMA SnapshotMove ==
  ASSUME LocalInv, HashIffCredited, NEW w \in Workers, NEW next \in PaymentStatuses,
         NEW hash \in TxHashes \union {None}, NEW location \in {"emit", "record"},
         WorkerUpdate(next, hash), Move(w, next, hash, location),
         NEW p, Snapshot(p)
  PROVE  Snapshot(p)'
<1> DEFINE id == cur[w].id
<1>1. /\ id \in Stored /\ Stored' = Stored
      /\ payments[id].status \in ValidFromStates(next)
      /\ \A other \in Stored : other # id => payments'[other] = payments[other]
      /\ payments'[id].memo = payments[id].memo
      /\ payments'[id].amount = payments[id].amount
      /\ payments'[id].created_at = payments[id].created_at
      /\ payments'[id].status = next
      /\ payments'[id].stellar_tx_hash
           = IF next = "detected" THEN hash ELSE payments[id].stellar_tx_hash
      /\ next = "detected" => payments[id].stellar_tx_hash = None /\ hash # None
  BY MoveRow
<1>2. CASE p.id # id
  BY <1>1, <1>2 DEF Snapshot
<1>3. CASE p.id = id
  <2>1. Reached(next, p.status)
    BY <1>1, <1>3, ReachedOnMove DEF Snapshot
  <2>2. p.stellar_tx_hash # None => p.stellar_tx_hash = payments'[id].stellar_tx_hash
    BY <1>1, <1>3 DEF Snapshot
  <2> QED BY <1>1, <1>3, <2>1, <2>2 DEF Snapshot
<1> QED BY <1>2, <1>3

\* ... and when a payment is created.
LEMMA SnapshotCreate ==
  ASSUME LocalInv, NEW id \in PaymentIds, NEW draft \in Drafts,
         CreateWithIdempotencyKey(id, draft, None, now), NEW p, Snapshot(p)
  PROVE  Snapshot(p)'
<1>1. Stored' = Stored \union {id} /\ \A other \in Stored : payments'[other] = payments[other]
  BY CreateKeeps
<1> QED BY <1>1 DEF Snapshot

-----------------------------------------------------------------------------
\* Steps of the world around the workers.

\* A payment request leaves everything true: its row is pending and unpaid.
LEMMA CreateSettles ==
  ASSUME SettlementInv, CreatePayment, LocalInv', HashIffCredited'
  PROVE  SettlementInv'
<1>1. PICK id \in PaymentIds, draft \in Drafts :
             CreateWithIdempotencyKey(id, draft, None, now)
  BY DEF CreatePayment
<1>2. UNCHANGED <<ledger, pc, todo, cur, found, outbox, recorded, now>>
  BY DEF CreatePayment, workerVars, effectVars
<1>3. /\ id \notin Stored /\ Stored' = Stored \union {id}
      /\ \A other \in Stored : payments'[other] = payments[other]
      /\ payments'[id].status = "pending"
      /\ payments'[id].stellar_tx_hash = None
  BY <1>1, CreateKeeps DEF SettlementInv
<1>4. HeldAreSnapshots'
  BY <1>1, <1>2, SnapshotCreate DEF SettlementInv, HeldAreSnapshots
<1>5. ReasonsHold'
  BY <1>2 DEF SettlementInv, ReasonsHold, Paid, Successful
<1>6. AnnouncedByOne'
  BY <1>2 DEF SettlementInv, AnnouncedByOne, Announcing
<1>7. CreditBacked' /\ ExpiredOnlyWhenStale'
  BY <1>2, <1>3 DEF SettlementInv, CreditBacked, ExpiredOnlyWhenStale
<1>8. OutcomeIsTheLedgers'
  BY <1>2, <1>3 DEF SettlementInv, OutcomeIsTheLedgers, Successful
<1>9. AnnouncedOnceAndTruly'
  BY <1>2, <1>3 DEF SettlementInv, AnnouncedOnceAndTruly
<1>10. RecordedOnce'
  BY <1>2, <1>3 DEF SettlementInv, RecordedOnce
<1> QED BY <1>4, <1>5, <1>6, <1>7, <1>8, <1>9, <1>10 DEF SettlementInv

\* The ledger only grows, and never by a transaction it already has: what was
\* found on it is still there, and a verdict on it stands.
LEMMA LedgerGrows ==
  ASSUME SettlementInv, PayOnLedger
  PROVE  /\ \A hash, p : Paid(hash, p) => Paid(hash, p)'
         /\ \A hash : (\E i \in DOMAIN ledger : ledger[i].transaction_hash = hash)
                        => (Successful(hash)' <=> Successful(hash))
<1>1. PICK hash \in TxHashes, memo \in Memos, amount \in Amounts, ok \in BOOLEAN :
             SubmitPayment(hash, memo, amount, ok, now)
  BY DEF PayOnLedger
<1> DEFINE record == [transaction_hash |-> hash, memo |-> memo, amount |-> amount,
                      successful |-> ok, created_at |-> now]
<1>2. record.transaction_hash = hash /\ record \in LedgerRecord
  BY DEF LedgerRecord, SettlementInv, LocalInv, ReconciliationTypeOK
<1>3. /\ ledger' = Append(ledger, record)
      /\ \A i \in DOMAIN ledger : ledger[i].transaction_hash # hash
  BY <1>1 DEF SubmitPayment
<1>4. ledger \in Seq(LedgerRecord)
  BY DEF SettlementInv, LocalInv, ReconciliationTypeOK, LedgerTypeOK
<1> HIDE DEF record
<1>5. /\ DOMAIN ledger' = DOMAIN ledger \union {Len(ledger) + 1}
      /\ \A i \in DOMAIN ledger : ledger'[i] = ledger[i]
      /\ ledger'[Len(ledger) + 1] = record
  BY <1>2, <1>3, <1>4
<1> QED BY <1>2, <1>3, <1>5 DEF Paid, Successful

\* A payer's transaction changes no verdict that was already given.
LEMMA PaySettles ==
  ASSUME SettlementInv, PayOnLedger, LocalInv', HashIffCredited'
  PROVE  SettlementInv'
<1>1. UNCHANGED <<payments, pc, todo, cur, found, outbox, recorded, now>>
  BY DEF PayOnLedger, tableVars, workerVars, effectVars
<1>2. Stored' = Stored
  BY <1>1 DEF Stored
<1>3. \A id \in Stored : payments[id].stellar_tx_hash # None =>
         /\ \E i \in DOMAIN ledger : ledger[i].transaction_hash = payments[id].stellar_tx_hash
         /\ Paid(payments[id].stellar_tx_hash, payments[id])
  BY DEF SettlementInv, CreditBacked, Paid
<1>4. \A id \in Stored : payments[id].stellar_tx_hash # None =>
         Successful(payments[id].stellar_tx_hash)' <=> Successful(payments[id].stellar_tx_hash)
  BY <1>3, LedgerGrows, <1>1 DEF Successful
<1>5. HeldAreSnapshots'
  BY <1>1, <1>2 DEF SettlementInv, HeldAreSnapshots, Snapshot
<1>6. ReasonsHold'
  <2> SUFFICES ASSUME NEW w \in Workers
               PROVE  /\ pc[w] = "expire" => now >= cur[w].created_at + ExpiryWindow
                      /\ pc[w] = "detect" => Paid(found[w], cur[w])'
                      /\ pc[w] \in {"fetch", "confirm", "fail"} => cur[w].status = "detected"
                      /\ pc[w] = "confirm" => Successful(cur[w].stellar_tx_hash)'
                      /\ pc[w] = "fail" => ~ Successful(cur[w].stellar_tx_hash)'
    BY <1>1 DEF ReasonsHold
  <2>1. pc[w] = "detect" => Paid(found[w], cur[w])'
    BY <1>1, LedgerGrows DEF SettlementInv, ReasonsHold, Paid
  <2>2. pc[w] \in {"confirm", "fail"} =>
           Successful(cur[w].stellar_tx_hash)' <=> Successful(cur[w].stellar_tx_hash)
    <3> SUFFICES ASSUME pc[w] \in {"confirm", "fail"}
                 PROVE  Successful(cur[w].stellar_tx_hash)' <=> Successful(cur[w].stellar_tx_hash)
      OBVIOUS
    <3>1. cur[w] \in Payment /\ cur[w].status = "detected"
      BY DEF SettlementInv, LocalInv, BusyHasPayment, ReasonsHold
    <3>2. Snapshot(cur[w])
      BY <3>1, RepositoryAssumption DEF SettlementInv, HeldAreSnapshots
    <3>3. /\ cur[w].id \in Stored
          /\ payments[cur[w].id].stellar_tx_hash # None
          /\ payments[cur[w].id].stellar_tx_hash = cur[w].stellar_tx_hash
      BY <3>1, <3>2 DEF Snapshot, CreditedStatuses
    <3> QED BY <1>1, <1>4, <3>3
  <2> QED BY <2>1, <2>2 DEF SettlementInv, ReasonsHold
<1>7. AnnouncedByOne'
  BY <1>1 DEF SettlementInv, AnnouncedByOne, Announcing
<1>8. CreditBacked'
  BY <1>1, <1>2, <1>3, LedgerGrows DEF CreditBacked, Paid
<1>9. OutcomeIsTheLedgers'
  <2>1. \A id \in Stored : payments[id].status \in {"confirmed", "failed"} =>
           payments[id].stellar_tx_hash # None
    BY DEF SettlementInv, HashIffCredited, CreditedStatuses
  <2> QED BY <1>1, <1>2, <1>4, <2>1 DEF SettlementInv, OutcomeIsTheLedgers
<1>10. ExpiredOnlyWhenStale' /\ AnnouncedOnceAndTruly' /\ RecordedOnce'
  BY <1>1, <1>2 DEF SettlementInv, ExpiredOnlyWhenStale, AnnouncedOnceAndTruly, RecordedOnce
<1> QED BY <1>5, <1>6, <1>7, <1>8, <1>9, <1>10 DEF SettlementInv

\* Time passing makes nothing less stale, however far the clock goes.
LEMMA ClockSettles ==
  ASSUME SettlementInv, now' \in Nat, now' >= now,
         UNCHANGED <<payments, idempotency_keys, ledger, pc, todo, cur, found, outbox, recorded>>
  PROVE  SettlementInv'
<1>1. LocalInv' /\ HashIffCredited'
  BY ClockLocal DEF SettlementInv, HashIffCredited, Stored
<1>2. now \in Nat /\ ExpiryWindow \in Nat
  BY ReconciliationAssumption DEF SettlementInv, LocalInv, ReconciliationTypeOK
<1>3. Stored' = Stored
  BY DEF Stored
<1>4. HeldAreSnapshots' /\ AnnouncedByOne' /\ CreditBacked' /\ AnnouncedOnceAndTruly'
      /\ RecordedOnce' /\ OutcomeIsTheLedgers'
  BY <1>3 DEF SettlementInv, HeldAreSnapshots, Snapshot, AnnouncedByOne, Announcing,
     CreditBacked, AnnouncedOnceAndTruly, RecordedOnce, OutcomeIsTheLedgers, Successful
<1>5. ReasonsHold'
  <2>1. \A w \in Workers : pc[w] = "expire" => cur[w].created_at \in Nat
    BY DEF SettlementInv, LocalInv, BusyHasPayment, Payment
  <2> QED BY <1>2, <2>1 DEF SettlementInv, ReasonsHold, Paid, Successful
<1>6. ExpiredOnlyWhenStale'
  <2>1. \A id \in Stored : payments[id].created_at \in Nat
    BY DEF SettlementInv, LocalInv, ReconciliationTypeOK, RepositoryTypeOK, Stored, Payment
  <2> QED BY <1>2, <1>3, <2>1 DEF SettlementInv, ExpiredOnlyWhenStale
<1> QED BY <1>1, <1>4, <1>5, <1>6 DEF SettlementInv

-----------------------------------------------------------------------------
\* Steps of the workers.

\* Different statuses have different events.
LEMMA EventTypeInjective ==
  ASSUME NEW s \in CreditedStatuses \union {"expired"},
         NEW t \in CreditedStatuses \union {"expired"}, EventType(s) = EventType(t)
  PROVE  s = t
BY DEF CreditedStatuses, EventType

\* A worker in the middle of a payment holds a clone of its row.
LEMMA BusyHolds ==
  ASSUME SettlementInv, NEW w \in Workers, pc[w] \notin {"idle", "pass"}
  PROVE  /\ cur[w] \in Payment /\ Snapshot(cur[w])
         /\ cur[w].id \in Stored /\ cur[w].id \in PaymentIds
<1>1. cur[w] \in Payment
  BY DEF SettlementInv, LocalInv, BusyHasPayment
<1>2. Snapshot(cur[w])
  BY <1>1, RepositoryAssumption DEF SettlementInv, HeldAreSnapshots
<1> QED BY <1>1, <1>2 DEF Snapshot, Stored

\* The reason an update needs to be true of the row it is made on.
Justified(next, hash, row) ==
  /\ next = "expired" => now >= row.created_at + ExpiryWindow
  /\ next = "detected" => Paid(hash, row)
  /\ next = "confirmed" => Successful(row.stellar_tx_hash)
  /\ next = "failed" => ~ Successful(row.stellar_tx_hash)

\* An update made for a good reason leaves everything true; the worker is the
\* only one with that status to announce.
LEMMA MoveSettles ==
  ASSUME SettlementInv, NEW w \in Workers, NEW next \in CreditedStatuses \union {"expired"},
         NEW hash \in TxHashes \union {None}, NEW location \in {"emit", "record"},
         WorkerUpdate(next, hash), Move(w, next, hash, location),
         Justified(next, hash, payments[cur[w].id]),
         location = "record" => next = "confirmed",
         LocalInv', HashIffCredited'
  PROVE  SettlementInv'
<1> DEFINE id == cur[w].id
<1>1. next \in PaymentStatuses /\ LocalInv /\ HashIffCredited
  BY DEF CreditedStatuses, PaymentStatuses, SettlementInv
<1>2. /\ id \in Stored /\ Stored' = Stored
      /\ payments[id].status \in ValidFromStates(next)
      /\ \A other \in Stored : other # id => payments'[other] = payments[other]
      /\ payments'[id] \in Payment
      /\ payments'[id].id = id
      /\ payments'[id].memo = payments[id].memo
      /\ payments'[id].amount = payments[id].amount
      /\ payments'[id].created_at = payments[id].created_at
      /\ payments'[id].status = next
      /\ payments'[id].stellar_tx_hash
           = IF next = "detected" THEN hash ELSE payments[id].stellar_tx_hash
      /\ cur' = [cur EXCEPT ![w] = payments'[id]]
  BY <1>1, MoveRow
<1>3. /\ pc' = [pc EXCEPT ![w] = location]
      /\ UNCHANGED <<ledger, todo, found, outbox, recorded, now>>
  BY DEF Move, GoTo, effectVars
<1>4. pc \in [Workers -> Locations] /\ cur \in [Workers -> Payment \union {NoPayment}]
  BY <1>1 DEF LocalInv, ReconciliationTypeOK
<1>5. /\ pc'[w] = location /\ cur'[w] = payments'[id]
      /\ \A v \in Workers : v # w => pc'[v] = pc[v] /\ cur'[v] = cur[v]
  BY <1>2, <1>3, <1>4
<1>6. HeldAreSnapshots'
  <2>1. \A p : Snapshot(p) => Snapshot(p)'
    BY <1>1, SnapshotMove
  <2>2. Snapshot(cur[w])'
    <3>1. payments'[id].stellar_tx_hash # None <=> payments'[id].status \in CreditedStatuses
      BY <1>2 DEF HashIffCredited
    <3> QED BY <1>2, <1>5, <3>1 DEF Snapshot, Reached
  <2> QED BY <1>3, <1>5, <2>1, <2>2 DEF SettlementInv, HeldAreSnapshots
<1>7. ReasonsHold'
  BY <1>3, <1>5 DEF SettlementInv, ReasonsHold, Paid, Successful
<1>8. \A v \in Workers : Announcing(v) /\ cur[v].id = id => cur[v].status # next
  <2> SUFFICES ASSUME NEW v \in Workers, Announcing(v), cur[v].id = id
               PROVE  cur[v].status # next
    OBVIOUS
  <2>1. Reached(payments[id].status, cur[v].status)
    BY BusyHolds DEF Announcing, Snapshot
  <2> QED BY <1>2, <2>1, ReachedOnMove
<1>9. \A i \in DOMAIN outbox : ~ (/\ outbox[i].payment_id = id
                                  /\ outbox[i].event_type = EventType(next))
  <2> SUFFICES ASSUME NEW i \in DOMAIN outbox, outbox[i].payment_id = id
               PROVE  outbox[i].event_type # EventType(next)
    OBVIOUS
  <2>1. PICK reached \in CreditedStatuses \union {"expired"} :
               /\ Reached(payments[id].status, reached)
               /\ outbox[i].event_type = EventType(reached)
    BY DEF SettlementInv, AnnouncedOnceAndTruly
  <2>2. reached # next
    BY <1>2, <2>1, ReachedOnMove
  <2> QED BY <2>1, <2>2, EventTypeInjective
<1>10. next = "confirmed" => recorded[id] = 0
  <2>1. id \in PaymentIds /\ recorded[id] \in Nat
    BY <1>2 DEF Stored, SettlementInv, LocalInv, ReconciliationTypeOK
  <2>2. next = "confirmed" => payments[id].status = "detected"
    BY <1>2 DEF ValidFromStates, CanTransitionTo
  <2> QED BY <2>1, <2>2 DEF SettlementInv, RecordedOnce
<1>11. AnnouncedByOne'
  <2> SUFFICES ASSUME NEW x \in Workers, Announcing(x)'
               PROVE  /\ \A v \in Workers :
                            Announcing(v)' /\ cur'[v].id = cur'[x].id
                                           /\ cur'[v].status = cur'[x].status => v = x
                      /\ \A i \in DOMAIN outbox :
                            ~ (/\ outbox[i].payment_id = cur'[x].id
                               /\ outbox[i].event_type = EventType(cur'[x].status))
                      /\ pc'[x] = "record" => /\ cur'[x].status = "confirmed"
                                              /\ recorded[cur'[x].id] = 0
    BY <1>3 DEF AnnouncedByOne
  <2>1. cur'[w].id = id /\ cur'[w].status = next
    BY <1>2, <1>5
  <2>2. CASE x = w
    BY <1>5, <1>8, <1>9, <1>10, <2>1, <2>2 DEF Announcing
  <2>3. CASE x # w
    BY <1>5, <1>8, <2>1, <2>3 DEF Announcing, SettlementInv, AnnouncedByOne
  <2> QED BY <2>2, <2>3
<1>12. CreditBacked'
  BY <1>2, <1>3 DEF SettlementInv, CreditBacked, Justified, Paid
<1>13. OutcomeIsTheLedgers'
  BY <1>2, <1>3 DEF SettlementInv, OutcomeIsTheLedgers, Justified, Successful
<1>14. ExpiredOnlyWhenStale'
  BY <1>2, <1>3 DEF SettlementInv, ExpiredOnlyWhenStale, Justified
<1>15. AnnouncedOnceAndTruly'
  <2>1. \A reached : Reached(payments[id].status, reached) => Reached(next, reached)
    BY <1>2, ReachedOnMove
  <2> QED BY <1>2, <1>3, <2>1 DEF SettlementInv, AnnouncedOnceAndTruly
<1>16. RecordedOnce'
  <2>1. payments[id].status # "confirmed"
    BY <1>2 DEF ValidFromStates, CanTransitionTo
  <2> QED BY <1>2, <1>3, <2>1 DEF SettlementInv, RecordedOnce
<1> QED BY <1>6, <1>7, <1>11, <1>12, <1>13, <1>14, <1>15, <1>16 DEF SettlementInv

\* The statements about the table alone, and about the outbox and the audit
\* trail: a step of a worker that touches none of these keeps them.
LEMMA TableKept ==
  ASSUME SettlementInv, UNCHANGED <<payments, ledger, now>>
  PROVE  CreditBacked' /\ OutcomeIsTheLedgers' /\ ExpiredOnlyWhenStale'
BY DEF SettlementInv, CreditBacked, OutcomeIsTheLedgers, ExpiredOnlyWhenStale, Successful, Stored

\* A step that changes neither rows, outbox nor audit trail keeps what is said of them.
LEMMA EffectsKept ==
  ASSUME SettlementInv, UNCHANGED <<payments, outbox, recorded>>
  PROVE  AnnouncedOnceAndTruly' /\ RecordedOnce'
BY DEF SettlementInv, AnnouncedOnceAndTruly, RecordedOnce, Stored

\* A worker that lets go of its payment has nothing left to be wrong about.
LEMMA LeaveSettles ==
  ASSUME SettlementInv, NEW w \in Workers, NextInPass(w) \/ LeavePass(w),
         UNCHANGED <<tableVars, ledger, effectVars, now>>, LocalInv', HashIffCredited'
  PROVE  SettlementInv'
<1>1. \E location \in {"idle", "pass"} :
        /\ pc' = [pc EXCEPT ![w] = location]
        /\ cur' = [cur EXCEPT ![w] = NoPayment]
        /\ found' = [found EXCEPT ![w] = None]
        /\ todo' = todo \/ todo' = [todo EXCEPT ![w] = {}]
  BY DEF NextInPass, LeavePass, GoTo
<1>2. UNCHANGED <<payments, ledger, outbox, recorded, now>>
  BY DEF tableVars, effectVars
<1>3. /\ pc'[w] \in {"idle", "pass"} /\ cur'[w] = NoPayment /\ todo'[w] \in {todo[w], {}}
      /\ \A v \in Workers : v # w => /\ pc'[v] = pc[v] /\ cur'[v] = cur[v]
                                     /\ found'[v] = found[v] /\ todo'[v] = todo[v]
  BY <1>1 DEF SettlementInv, LocalInv, ReconciliationTypeOK
<1>4. HeldAreSnapshots'
  BY <1>2, <1>3 DEF SettlementInv, HeldAreSnapshots, Snapshot, Stored
<1>5. ReasonsHold'
  BY <1>2, <1>3 DEF SettlementInv, ReasonsHold, Paid, Successful
<1>6. AnnouncedByOne'
  BY <1>2, <1>3 DEF SettlementInv, AnnouncedByOne, Announcing
<1> QED BY <1>2, <1>4, <1>5, <1>6, TableKept, EffectsKept DEF SettlementInv

\* The event a worker adds is the one only it holds.
LEMMA EmitSettles ==
  ASSUME SettlementInv, NEW w \in Workers, Emit(w), LocalInv', HashIffCredited'
  PROVE  SettlementInv'
<1> DEFINE event == [payment_id |-> cur[w].id, event_type |-> EventType(cur[w].status)]
<1>1. /\ pc[w] = "emit"
      /\ pc' = [pc EXCEPT ![w] = "pass"]
      /\ cur' = [cur EXCEPT ![w] = NoPayment]
      /\ found' = [found EXCEPT ![w] = None]
      /\ outbox' = Append(outbox, event)
      /\ UNCHANGED <<payments, ledger, todo, recorded, now>>
  BY DEF Emit, NextInPass, GoTo, tableVars
<1>2. /\ pc'[w] = "pass" /\ cur'[w] = NoPayment
      /\ \A v \in Workers : v # w => /\ pc'[v] = pc[v] /\ cur'[v] = cur[v]
                                     /\ found'[v] = found[v]
  BY <1>1 DEF SettlementInv, LocalInv, ReconciliationTypeOK
<1>3. /\ cur[w] \in Payment /\ Snapshot(cur[w]) /\ cur[w].id \in Stored
      /\ cur[w].status \in CreditedStatuses \union {"expired"}
  BY <1>1, BusyHolds DEF SettlementInv, LocalInv, EmitHasMoved
<1>4. /\ outbox \in Seq(Event) /\ event \in Event
      /\ event.payment_id = cur[w].id /\ event.event_type = EventType(cur[w].status)
  BY <1>3, EventTypeType DEF SettlementInv, LocalInv, ReconciliationTypeOK, Event, Payment
<1>5. \A i \in DOMAIN outbox : ~ (/\ outbox[i].payment_id = cur[w].id
                                  /\ outbox[i].event_type = EventType(cur[w].status))
  BY <1>1 DEF SettlementInv, AnnouncedByOne, Announcing
<1> HIDE DEF event
<1>6. /\ DOMAIN outbox' = DOMAIN outbox \union {Len(outbox) + 1}
      /\ Len(outbox) + 1 \notin DOMAIN outbox
      /\ \A i \in DOMAIN outbox : outbox'[i] = outbox[i]
      /\ outbox'[Len(outbox) + 1] = event
  BY <1>1, <1>4
<1>7. HeldAreSnapshots'
  BY <1>1, <1>2 DEF SettlementInv, HeldAreSnapshots, Snapshot, Stored
<1>8. ReasonsHold'
  BY <1>1, <1>2 DEF SettlementInv, ReasonsHold, Paid, Successful
<1>9. AnnouncedByOne'
  <2> SUFFICES ASSUME NEW x \in Workers, x # w, Announcing(x)
               PROVE  /\ \A v \in Workers : v # w =>
                            (Announcing(v) /\ cur[v].id = cur[x].id
                                           /\ cur[v].status = cur[x].status => v = x)
                      /\ \A i \in DOMAIN outbox' :
                            ~ (/\ outbox'[i].payment_id = cur[x].id
                               /\ outbox'[i].event_type = EventType(cur[x].status))
                      /\ pc[x] = "record" => cur[x].status = "confirmed" /\ recorded[cur[x].id] = 0
    BY <1>1, <1>2 DEF AnnouncedByOne, Announcing
  <2>1. ~ (event.payment_id = cur[x].id /\ event.event_type = EventType(cur[x].status))
    <3>1. cur[x].status \in CreditedStatuses \union {"expired"}
      BY DEF SettlementInv, LocalInv, EmitHasMoved, Announcing
    <3>2. ~ (cur[x].id = cur[w].id /\ cur[x].status = cur[w].status)
      BY <1>1 DEF SettlementInv, AnnouncedByOne, Announcing
    <3> QED BY <1>3, <1>4, <3>1, <3>2, EventTypeInjective
  <2> QED BY <1>6, <2>1 DEF SettlementInv, AnnouncedByOne
<1>10. AnnouncedOnceAndTruly'
  <2>1. \A i, j \in DOMAIN outbox' : outbox'[i] = outbox'[j] => i = j
    BY <1>4, <1>5, <1>6 DEF SettlementInv, AnnouncedOnceAndTruly
  <2>2. \A i \in DOMAIN outbox' :
           LET id == outbox'[i].payment_id IN
           id \in Stored /\ \E reached \in CreditedStatuses \union {"expired"} :
                              /\ Reached(payments[id].status, reached)
                              /\ outbox'[i].event_type = EventType(reached)
    BY <1>3, <1>4, <1>6 DEF SettlementInv, AnnouncedOnceAndTruly, Snapshot
  <2> QED BY <1>1, <2>1, <2>2 DEF AnnouncedOnceAndTruly, Stored
<1>11. RecordedOnce'
  BY <1>1 DEF SettlementInv, RecordedOnce, Stored
<1> QED BY <1>1, <1>7, <1>8, <1>9, <1>10, <1>11, TableKept DEF SettlementInv

\* The entry a worker makes in the audit trail is the first.
LEMMA RecordSettles ==
  ASSUME SettlementInv, NEW w \in Workers, RecordPayment(w), LocalInv', HashIffCredited'
  PROVE  SettlementInv'
<1>1. /\ pc[w] = "record" /\ pc' = [pc EXCEPT ![w] = "emit"]
      /\ recorded' = [recorded EXCEPT ![cur[w].id] = @ + 1] \/ UNCHANGED recorded
      /\ UNCHANGED <<payments, ledger, todo, cur, found, outbox, now>>
  BY DEF RecordPayment, RecordOnChain, GoTo, tableVars
<1>2. pc'[w] = "emit" /\ \A v \in Workers : v # w => pc'[v] = pc[v]
  BY <1>1 DEF SettlementInv, LocalInv, ReconciliationTypeOK
<1>3. /\ cur[w].id \in Stored /\ cur[w].id \in PaymentIds
      /\ Reached(payments[cur[w].id].status, cur[w].status)
  BY <1>1, BusyHolds DEF Snapshot
<1>4. /\ cur[w].status = "confirmed" /\ recorded[cur[w].id] = 0
      /\ payments[cur[w].id].status = "confirmed"
  BY <1>1, <1>3 DEF SettlementInv, AnnouncedByOne, Announcing, Reached
<1>5. \A id \in PaymentIds :
         recorded'[id] = recorded[id] \/ (id = cur[w].id /\ recorded'[id] = 1)
  BY <1>1, <1>4 DEF SettlementInv, LocalInv, ReconciliationTypeOK
<1>6. HeldAreSnapshots'
  BY <1>1 DEF SettlementInv, HeldAreSnapshots, Snapshot, Stored
<1>7. ReasonsHold'
  BY <1>1, <1>2 DEF SettlementInv, ReasonsHold, Paid, Successful
<1>8. AnnouncedByOne'
  <2> SUFFICES ASSUME NEW x \in Workers, Announcing(x)'
               PROVE  /\ \A v \in Workers : Announcing(v)' /\ cur[v].id = cur[x].id
                                              /\ cur[v].status = cur[x].status => v = x
                      /\ \A i \in DOMAIN outbox :
                            ~ (/\ outbox[i].payment_id = cur[x].id
                               /\ outbox[i].event_type = EventType(cur[x].status))
                      /\ pc'[x] = "record" => /\ cur[x].status = "confirmed"
                                              /\ recorded'[cur[x].id] = 0
    BY <1>1 DEF AnnouncedByOne
  <2>1. \A v \in Workers : Announcing(v)' <=> Announcing(v)
    BY <1>1, <1>2 DEF Announcing
  <2>2. pc'[x] = "record" => cur[x].status = "confirmed" /\ recorded'[cur[x].id] = 0
    <3> SUFFICES ASSUME pc'[x] = "record"
                 PROVE  cur[x].status = "confirmed" /\ recorded'[cur[x].id] = 0
      OBVIOUS
    <3>1. x # w /\ pc[x] = "record" /\ cur[x].status = "confirmed" /\ recorded[cur[x].id] = 0
      BY <1>2 DEF SettlementInv, AnnouncedByOne, Announcing
    <3>2. cur[x].id # cur[w].id
      BY <1>1, <1>4, <3>1 DEF SettlementInv, AnnouncedByOne, Announcing
    <3>3. cur[x].id \in PaymentIds
      BY <3>1, BusyHolds
    <3> QED BY <1>5, <3>1, <3>2, <3>3
  <2> QED BY <2>1, <2>2 DEF SettlementInv, AnnouncedByOne
<1>9. RecordedOnce'
  BY <1>1, <1>3, <1>4, <1>5 DEF SettlementInv, RecordedOnce, Stored
<1>10. AnnouncedOnceAndTruly'
  BY <1>1 DEF SettlementInv, AnnouncedOnceAndTruly, Stored
<1> QED BY <1>1, <1>6, <1>7, <1>8, <1>9, <1>10, TableKept DEF SettlementInv

\* What a worker reads is true when it is read.
LEMMA ReadSettles ==
  ASSUME SettlementInv, NEW w \in Workers,
         \/ StartPass(w) \/ TakePayment(w) \/ FindHit(w) \/ FindOlder(w)
         \/ GetTransaction(w),
         LocalInv', HashIffCredited'
  PROVE  SettlementInv'
<1>1. UNCHANGED <<payments, ledger, outbox, recorded, now>>
  BY DEF StartPass, TakePayment, FindHit, FindOlder, Hit, GetTransaction, tableVars, effectVars
<1>2. /\ pc \in [Workers -> Locations] /\ todo \in [Workers -> SUBSET Payment]
      /\ cur \in [Workers -> Payment \union {NoPayment}]
      /\ found \in [Workers -> TxHashes \union {None}]
  BY DEF SettlementInv, LocalInv, ReconciliationTypeOK
<1>3. \A p : Snapshot(p)' <=> Snapshot(p)
  BY <1>1 DEF Snapshot, Stored
<1>4. HeldAreSnapshots' /\ ReasonsHold' /\ AnnouncedByOne'
  <2>1. CASE StartPass(w)
    <3>1. /\ pc[w] = "idle" /\ pc' = [pc EXCEPT ![w] = "pass"]
          /\ todo' = [todo EXCEPT ![w] = PendingForReconciliation] /\ UNCHANGED <<cur, found>>
      BY <2>1 DEF StartPass, GoTo
    <3>2. \A p \in PendingForReconciliation : Snapshot(p)
      BY RowIsSnapshot DEF PendingForReconciliation, SettlementInv
    <3>3. HeldAreSnapshots'
      BY <1>2, <1>3, <3>1, <3>2 DEF SettlementInv, HeldAreSnapshots
    <3>4. ReasonsHold' /\ AnnouncedByOne'
      BY <1>1, <1>2, <3>1
         DEF SettlementInv, ReasonsHold, Paid, Successful, AnnouncedByOne, Announcing
    <3> QED BY <3>3, <3>4
  <2>2. CASE TakePayment(w)
    <3>1. PICK p \in todo[w] :
            /\ todo' = [todo EXCEPT ![w] = @ \ {p}]
            /\ cur' = [cur EXCEPT ![w] = p]
            /\ GoTo(w, CASE p.status = "detected"                -> "fetch"
                         [] p.status = "pending" /\ IsStale(p)   -> "expire"
                         [] p.status = "pending" /\ ~ IsStale(p) -> "lookup")
      BY <2>2 DEF TakePayment
    <3>2. p \in Payment /\ p.status \in {"pending", "detected"} /\ Snapshot(p)
      BY <1>2 DEF SettlementInv, LocalInv, ClonesOpen, OpenStatuses, HeldAreSnapshots
    <3>3. PICK location \in {"fetch", "expire", "lookup"} :
            /\ pc' = [pc EXCEPT ![w] = location]
            /\ location = "fetch" => p.status = "detected"
            /\ location = "expire" => IsStale(p)
      BY <3>1, <3>2 DEF GoTo
    <3>4. IsStale(p) => now >= p.created_at + ExpiryWindow
      BY <3>2, ReconciliationAssumption
         DEF IsStale, Payment, SettlementInv, LocalInv, ReconciliationTypeOK
    <3>5. found' = found
      BY <2>2 DEF TakePayment
    <3>6. HeldAreSnapshots'
      BY <1>2, <1>3, <3>1, <3>2 DEF SettlementInv, HeldAreSnapshots
    <3>7. ReasonsHold'
      BY <1>1, <1>2, <3>1, <3>3, <3>4, <3>5
         DEF SettlementInv, ReasonsHold, Paid, Successful
    <3>8. AnnouncedByOne'
      BY <1>1, <1>2, <3>1, <3>3 DEF SettlementInv, AnnouncedByOne, Announcing
    <3> QED BY <3>6, <3>7, <3>8
  <2>3. CASE FindHit(w) \/ FindOlder(w)
    <3>1. PICK i \in Matches(cur[w].memo, cur[w].created_at) :
            /\ AmountsMatch(cur[w], ledger[i])
            /\ found' = [found EXCEPT ![w] = ledger[i].transaction_hash]
      BY <2>3 DEF FindHit, FindOlder, Hit, IsFound
    <3>2. Paid(ledger[i].transaction_hash, cur[w])
      BY <3>1 DEF Paid, Matches, AmountsMatch
    <3>3. pc[w] = "lookup" /\ pc' = [pc EXCEPT ![w] = "detect"] /\ UNCHANGED <<todo, cur>>
      BY <2>3 DEF FindHit, FindOlder, Hit, GoTo
    <3>4. HeldAreSnapshots'
      BY <1>3, <3>3 DEF SettlementInv, HeldAreSnapshots
    <3>5. ReasonsHold'
      BY <1>1, <1>2, <3>1, <3>2, <3>3 DEF SettlementInv, ReasonsHold, Paid, Successful
    <3>6. AnnouncedByOne'
      BY <1>1, <1>2, <3>3 DEF SettlementInv, AnnouncedByOne, Announcing
    <3> QED BY <3>4, <3>5, <3>6
  <2>4. CASE GetTransaction(w)
    <3>1. /\ pc[w] = "fetch" /\ pc' = [pc EXCEPT ![w] = Verdict(cur[w].stellar_tx_hash)]
          /\ UNCHANGED <<todo, cur, found>>
      BY <2>4 DEF GetTransaction, GoTo
    <3>2. HeldAreSnapshots'
      BY <1>3, <3>1 DEF SettlementInv, HeldAreSnapshots
    <3>3. ReasonsHold'
      BY <1>1, <1>2, <3>1 DEF SettlementInv, ReasonsHold, Paid, Successful, Verdict
    <3>4. AnnouncedByOne'
      BY <1>1, <1>2, <3>1 DEF SettlementInv, AnnouncedByOne, Announcing, Verdict
    <3> QED BY <3>2, <3>3, <3>4
  <2> QED BY <2>1, <2>2, <2>3, <2>4
<1> QED BY <1>1, <1>4, TableKept, EffectsKept DEF SettlementInv

\* The four updates are made for good reasons, however long ago their
\* callers looked.
LEMMA UpdatesJustified ==
  ASSUME SettlementInv, NEW w \in Workers
  PROVE  LET row == payments[cur[w].id] IN
         /\ pc[w] = "expire"  => Justified("expired", None, row)
         /\ pc[w] = "detect"  => Justified("detected", found[w], row)
         /\ pc[w] = "confirm" => Justified("confirmed", None, row)
         /\ pc[w] = "fail"    => Justified("failed", None, row)
<1>1. CASE pc[w] \in {"expire", "detect", "confirm", "fail"}
  <2>1. Snapshot(cur[w])
    BY <1>1, BusyHolds
  <2>2. pc[w] \in {"confirm", "fail"} =>
           payments[cur[w].id].stellar_tx_hash = cur[w].stellar_tx_hash
    BY <2>1 DEF Snapshot, SettlementInv, ReasonsHold, CreditedStatuses
  <2>3. pc[w] = "detect" => Paid(found[w], payments[cur[w].id])
    BY <2>1 DEF Snapshot, SettlementInv, ReasonsHold, Paid
  <2> QED BY <2>1, <2>2, <2>3 DEF Snapshot, SettlementInv, ReasonsHold, Justified
<1> QED BY <1>1

\* Every step, of any worker or of the world, keeps it all true.
LEMMA NextSettles ==
  ASSUME SettlementInv, [Next]_vars
  PROVE  SettlementInv'
<1>1. LocalInv' /\ HashIffCredited'
  BY NextLocal, NextHashIffCredited DEF SettlementInv
<1>2. CASE Environment
  <2>1. CASE CreatePayment \/ PayOnLedger
    BY <1>1, <2>1, CreateSettles, PaySettles
  <2>2. CASE Tick
    <3>1. UNCHANGED <<payments, idempotency_keys, ledger, pc, todo, cur, found, outbox, recorded>>
      BY <2>2 DEF Tick, tableVars, workerVars, effectVars
    <3>2. now' \in Nat /\ now' >= now
      BY <2>2 DEF Tick, SettlementInv, LocalInv, ReconciliationTypeOK
    <3> QED BY <3>1, <3>2, ClockSettles
  <2> QED BY <1>2, <2>1, <2>2 DEF Environment
<1>3. ASSUME NEW w \in Workers, Advance(w) \/ Outage(w)
      PROVE  SettlementInv'
  <2>1. CASE \/ StartPass(w) \/ TakePayment(w) \/ FindHit(w) \/ FindOlder(w)
             \/ GetTransaction(w)
    BY <1>1, <2>1, ReadSettles
  <2>2. CASE \/ EndPass(w) \/ FindMiss(w) \/ EmitFails(w) \/ UpdateRefused(w)
             \/ FindNothing(w) \/ RequestFails(w) \/ Crash(w)
    <3>1. NextInPass(w) \/ LeavePass(w)
      BY <2>2 DEF EndPass, FindMiss, EmitFails, UpdateRefused, FindNothing, RequestFails, Crash
    <3>2. UNCHANGED <<tableVars, ledger, effectVars, now>>
      BY <2>2 DEF EndPass, FindMiss, EmitFails, UpdateRefused, FindNothing, RequestFails, Crash
    <3> QED BY <1>1, <3>1, <3>2, LeaveSettles
  <2>3. CASE Emit(w)
    BY <1>1, <2>3, EmitSettles
  <2>4. CASE RecordPayment(w)
    BY <1>1, <2>4, RecordSettles
  <2>5. CASE MarkExpired(w)
    <3>1. pc[w] = "expire" /\ Move(w, "expired", None, "emit")
      BY <2>5 DEF MarkExpired
    <3>2. Justified("expired", None, payments[cur[w].id])
      BY <3>1, UpdatesJustified
    <3> QED BY <1>1, <3>1, <3>2, MoveSettles DEF WorkerUpdate
  <2>6. CASE MarkDetected(w)
    <3>1. pc[w] = "detect" /\ Move(w, "detected", found[w], "emit") /\ found[w] \in TxHashes
      BY <2>6 DEF MarkDetected, SettlementInv, LocalInv, DetectHasHash
    <3>2. Justified("detected", found[w], payments[cur[w].id])
      BY <3>1, UpdatesJustified
    <3> QED BY <1>1, <3>1, <3>2, MoveSettles DEF WorkerUpdate, CreditedStatuses
  <2>7. CASE MarkConfirmed(w)
    <3>1. pc[w] = "confirm" /\ Move(w, "confirmed", None, "record")
      BY <2>7 DEF MarkConfirmed
    <3>2. Justified("confirmed", None, payments[cur[w].id])
      BY <3>1, UpdatesJustified
    <3> QED BY <1>1, <3>1, <3>2, MoveSettles DEF WorkerUpdate, CreditedStatuses
  <2>8. CASE MarkFailed(w)
    <3>1. pc[w] = "fail" /\ Move(w, "failed", None, "emit")
      BY <2>8 DEF MarkFailed
    <3>2. Justified("failed", None, payments[cur[w].id])
      BY <3>1, UpdatesJustified
    <3> QED BY <1>1, <3>1, <3>2, MoveSettles DEF WorkerUpdate, CreditedStatuses
  <2> QED BY <1>3, <2>1, <2>2, <2>3, <2>4, <2>5, <2>6, <2>7, <2>8 DEF Advance, Outage
<1>4. CASE UNCHANGED vars
  <2>1. UNCHANGED <<payments, ledger, pc, todo, cur, found, outbox, recorded, now>>
    BY <1>4 DEF vars, tableVars, workerVars, effectVars
  <2>2. HeldAreSnapshots' /\ ReasonsHold' /\ AnnouncedByOne'
    BY <2>1 DEF SettlementInv, HeldAreSnapshots, Snapshot, Stored, ReasonsHold, Paid,
       Successful, AnnouncedByOne, Announcing
  <2> QED BY <1>1, <2>1, <2>2, TableKept, EffectsKept DEF SettlementInv
<1> QED BY <1>2, <1>3, <1>4 DEF Next, SteadyNext

\* Nothing is stored, held or announced at the start.
LEMMA InitSettles == Init => SettlementInv
<1> SUFFICES ASSUME Init PROVE SettlementInv
  OBVIOUS
<1>1. LocalInv
  BY InitLocal
<1>2. Stored = {} /\ outbox = <<>> /\ recorded = [id \in PaymentIds |-> 0]
  BY DEF Init, RepositoryInit, Stored
<1>3. \A w \in Workers : pc[w] = "idle" /\ todo[w] = {} /\ cur[w] = NoPayment
  BY DEF Init
<1>4. HashIffCredited /\ CreditBacked /\ OutcomeIsTheLedgers /\ ExpiredOnlyWhenStale
      /\ AnnouncedOnceAndTruly /\ RecordedOnce
  BY <1>2 DEF HashIffCredited, CreditBacked, OutcomeIsTheLedgers, ExpiredOnlyWhenStale,
     AnnouncedOnceAndTruly, RecordedOnce
<1>5. HeldAreSnapshots /\ ReasonsHold /\ AnnouncedByOne
  BY <1>3 DEF HeldAreSnapshots, ReasonsHold, AnnouncedByOne, Announcing
<1> QED BY <1>1, <1>4, <1>5 DEF SettlementInv

\* Clones, answers and announcements under way stay worth what they were.
THEOREM SettlementInvariant == Spec => []SettlementInv
BY InitSettles, NextSettles, PTL DEF Spec

\* A credited transaction is on the ledger with the payment's memo and amount,
\* and is not older, whatever happened between find_payment and the update.
THEOREM CreditIsBacked == Spec => []CreditBacked
<1>1. SettlementInv => CreditBacked
  BY DEF SettlementInv
<1> QED BY <1>1, SettlementInvariant, PTL

\* `confirmed` and `failed` are what the ledger says of the credited
\* transaction.
THEOREM OutcomeIsTrue == Spec => []OutcomeIsTheLedgers
<1>1. SettlementInv => OutcomeIsTheLedgers
  BY DEF SettlementInv
<1> QED BY <1>1, SettlementInvariant, PTL

\* No payment expires before its window has passed, from however old a clone.
THEOREM NothingExpiresEarly == Spec => []ExpiredOnlyWhenStale
<1>1. SettlementInv => ExpiredOnlyWhenStale
  BY DEF SettlementInv
<1> QED BY <1>1, SettlementInvariant, PTL

\* However many workers see a payment, each status is announced once at most,
\* and none that the payment did not reach.
THEOREM AnnouncementsAreTrue == Spec => []AnnouncedOnceAndTruly
<1>1. SettlementInv => AnnouncedOnceAndTruly
  BY DEF SettlementInv
<1> QED BY <1>1, SettlementInvariant, PTL

\* A payment has one entry in the audit trail at most, and only if confirmed.
THEOREM RecordIsUnique == Spec => []RecordedOnce
<1>1. SettlementInv => RecordedOnce
  BY DEF SettlementInv
<1> QED BY <1>1, SettlementInvariant, PTL

-----------------------------------------------------------------------------
\* With one worker, announcements come in the order of the moves.

\* Nobody else moves the payment a worker is about to announce.
AnnouncedIsCurrent ==
  \A w \in Workers : Announcing(w) => payments[cur[w].id].status = cur[w].status

\* A worker comes to announce a payment by moving it, and in no other way.
LEMMA AnnouncingSteps ==
  ASSUME LocalInv, [Next]_vars, NEW w \in Workers, Announcing(w)', ~ UNCHANGED <<pc[w], cur[w]>>
  PROVE  \/ Announcing(w) /\ cur'[w] = cur[w]
         \/ \E next \in PaymentStatuses, hash \in TxHashes \union {None} :
               \E location \in {"emit", "record"} :
                  WorkerUpdate(next, hash) /\ Move(w, next, hash, location)
<1>1. /\ pc \in [Workers -> Locations]
      /\ cur \in [Workers -> Payment \union {NoPayment}]
  BY DEF LocalInv, ReconciliationTypeOK
<1>2. ~ (Environment \/ UNCHANGED vars)
  BY DEF Environment, CreatePayment, PayOnLedger, Tick, vars, workerVars
<1>3. PICK v \in Workers : Advance(v) \/ Outage(v)
  BY <1>2 DEF Next, SteadyNext
<1>4. CASE MarkExpired(v) \/ MarkDetected(v) \/ MarkConfirmed(v) \/ MarkFailed(v)
  <2>1. \E next \in PaymentStatuses, hash \in TxHashes \union {None} :
           \E location \in {"emit", "record"} :
              WorkerUpdate(next, hash) /\ Move(v, next, hash, location)
    BY <1>4 DEF MarkExpired, MarkDetected, MarkConfirmed, MarkFailed, WorkerUpdate,
       PaymentStatuses, LocalInv, DetectHasHash
  <2>2. v = w
    BY <1>1, <2>1 DEF Move, GoTo
  <2> QED BY <2>1, <2>2
<1>5. CASE RecordPayment(v)
  BY <1>1, <1>5 DEF RecordPayment, GoTo, Announcing
<1>6. CASE NextInPass(v) \/ LeavePass(v)
  BY <1>1, <1>6 DEF NextInPass, LeavePass, GoTo, Announcing
<1>7. CASE StartPass(v) \/ FindHit(v) \/ FindOlder(v) \/ GetTransaction(v)
  BY <1>1, <1>7 DEF StartPass, FindHit, FindOlder, Hit, GetTransaction, Verdict, GoTo, Announcing
<1>8. CASE TakePayment(v)
  <2>1. PICK p \in todo[v] :
          /\ cur' = [cur EXCEPT ![v] = p]
          /\ GoTo(v, CASE p.status = "detected"                -> "fetch"
                       [] p.status = "pending" /\ IsStale(p)   -> "expire"
                       [] p.status = "pending" /\ ~ IsStale(p) -> "lookup")
    BY <1>8 DEF TakePayment
  <2>2. p.status \in {"pending", "detected"}
    BY DEF LocalInv, ClonesOpen, OpenStatuses
  <2> QED BY <1>1, <2>1, <2>2 DEF GoTo, Announcing
<1> QED BY <1>3, <1>4, <1>5, <1>6, <1>7, <1>8 DEF Advance, Outage, EndPass, FindMiss,
       Emit, EmitFails, UpdateRefused, FindNothing, RequestFails, Crash

\* Every step of the only worker keeps the payment it announces where it put it.
LEMMA NextCurrent ==
  ASSUME \A v, w \in Workers : v = w,
         SettlementInv, AnnouncedIsCurrent, [Next]_vars
  PROVE  AnnouncedIsCurrent'
<1> SUFFICES ASSUME NEW w \in Workers, Announcing(w)'
             PROVE  payments'[cur'[w].id].status = cur'[w].status
  BY DEF AnnouncedIsCurrent
<1>1. LocalInv /\ HashIffCredited
  BY DEF SettlementInv
<1>2. cur \in [Workers -> Payment \union {NoPayment}]
  BY <1>1 DEF LocalInv, ReconciliationTypeOK
<1>3. ASSUME NEW v \in Workers, NEW next \in PaymentStatuses,
             NEW hash \in TxHashes \union {None}, NEW location \in {"emit", "record"},
             WorkerUpdate(next, hash), Move(v, next, hash, location)
      PROVE  payments'[cur'[w].id].status = cur'[w].status
  <2>1. /\ payments'[cur[v].id].id = cur[v].id
        /\ cur' = [cur EXCEPT ![v] = payments'[cur[v].id]]
    BY <1>1, <1>3, MoveRow
  <2>2. v = w
    OBVIOUS
  <2> QED BY <1>2, <2>1, <2>2
<1>4. CASE Announcing(w) /\ cur'[w] = cur[w]
  <2>1. cur[w].id \in Stored /\ payments[cur[w].id].status = cur[w].status
    BY <1>4, BusyHolds DEF Announcing, AnnouncedIsCurrent
  <2>2. CASE UNCHANGED payments
    BY <1>4, <2>1, <2>2
  <2>3. ASSUME NEW id \in PaymentIds, NEW draft \in Drafts,
               CreateWithIdempotencyKey(id, draft, None, now)
        PROVE  payments'[cur[w].id] = payments[cur[w].id]
    BY <1>1, <2>1, <2>3, CreateKeeps
  <2> QED BY <1>1, <1>3, <1>4, <2>1, <2>2, <2>3, TableSteps
<1>5. CASE UNCHANGED <<pc[w], cur[w]>>
  BY <1>4, <1>5 DEF Announcing
<1> QED BY <1>1, <1>3, <1>4, <1>5, AnnouncingSteps

\* The outbox changes when a worker announces, and the payment stays as it is.
LEMMA OutboxSteps ==
  ASSUME LocalInv, [Next]_vars
  PROVE  \/ UNCHANGED outbox
         \/ \E w \in Workers : Emit(w) /\ UNCHANGED payments
<1>1. CASE Environment \/ UNCHANGED vars
  BY <1>1 DEF Environment, CreatePayment, PayOnLedger, Tick, vars, effectVars
<1>2. ASSUME NEW w \in Workers, Advance(w) \/ Outage(w), ~ Emit(w)
      PROVE  UNCHANGED outbox
  BY <1>2 DEF Advance, Outage, StartPass, TakePayment, EndPass, FindHit, FindOlder,
     Hit, FindMiss, FindNothing, MarkExpired, MarkDetected, MarkConfirmed, MarkFailed, Move,
     GetTransaction, RecordPayment, EmitFails, UpdateRefused, RequestFails, Crash, effectVars
<1>3. \A w \in Workers : Emit(w) => UNCHANGED payments
  BY DEF Emit, tableVars
<1> QED BY <1>1, <1>2, <1>3 DEF Next, SteadyNext

\* Every step keeps the order: a payment that is detected has no later event yet.
LEMMA NextInOrder ==
  ASSUME SettlementInv, AnnouncedIsCurrent, AnnouncedInOrder, [Next]_vars
  PROVE  AnnouncedInOrder'
<1>1. CASE UNCHANGED outbox
  BY <1>1 DEF AnnouncedInOrder
<1>2. ASSUME NEW w \in Workers, Emit(w)
      PROVE  AnnouncedInOrder'
  <2> DEFINE event == [payment_id |-> cur[w].id, event_type |-> EventType(cur[w].status)]
  <2>1. pc[w] = "emit" /\ outbox' = Append(outbox, event)
    BY <1>2 DEF Emit
  <2>2. /\ cur[w] \in Payment
        /\ cur[w].status \in CreditedStatuses \union {"expired"}
        /\ payments[cur[w].id].status = cur[w].status
    BY <2>1, BusyHolds
       DEF SettlementInv, LocalInv, EmitHasMoved, AnnouncedIsCurrent, Announcing
  <2>3. /\ outbox \in Seq(Event) /\ event \in Event
        /\ event.payment_id = cur[w].id /\ event.event_type = EventType(cur[w].status)
    BY <2>2, EventTypeType DEF SettlementInv, LocalInv, ReconciliationTypeOK, Event, Payment
  <2> HIDE DEF event
  <2>4. event.event_type = "payment.detected" =>
           \A i \in DOMAIN outbox : outbox[i].payment_id # cur[w].id
    <3> SUFFICES ASSUME event.event_type = "payment.detected", NEW i \in DOMAIN outbox,
                        outbox[i].payment_id = cur[w].id
                 PROVE  FALSE
      OBVIOUS
    <3>1. cur[w].status = "detected"
      BY <2>2, <2>3 DEF EventType, CreditedStatuses
    <3>2. PICK reached \in CreditedStatuses \union {"expired"} :
                 /\ Reached("detected", reached)
                 /\ outbox[i].event_type = EventType(reached)
      BY <2>2, <3>1 DEF SettlementInv, AnnouncedOnceAndTruly
    <3>3. reached = "detected"
      BY <3>2 DEF Reached, CreditedStatuses
    <3> QED BY <2>1, <3>1, <3>2, <3>3 DEF SettlementInv, AnnouncedByOne, Announcing
  <2>5. /\ DOMAIN outbox = 1..Len(outbox) /\ Len(outbox) \in Nat
        /\ DOMAIN outbox' = 1..(Len(outbox) + 1)
        /\ \A i \in DOMAIN outbox : outbox'[i] = outbox[i]
        /\ outbox'[Len(outbox) + 1] = event
    BY <2>1, <2>3
  <2> QED BY <2>3, <2>4, <2>5 DEF AnnouncedInOrder
<1> QED BY <1>1, <1>2, OutboxSteps DEF SettlementInv

\* The single worker that run_server starts announces in order: `detected`
\* is never enqueued after the outcome.
THEOREM AnnouncementsInOrder ==
  ASSUME \A v, w \in Workers : v = w
  PROVE  Spec => []AnnouncedInOrder
<1>1. Init => AnnouncedIsCurrent /\ AnnouncedInOrder
  BY DEF Init, AnnouncedIsCurrent, Announcing, AnnouncedInOrder
<1>2. SettlementInv /\ AnnouncedIsCurrent /\ AnnouncedInOrder /\ [Next]_vars
        => AnnouncedIsCurrent' /\ AnnouncedInOrder'
  BY NextCurrent, NextInOrder
<1> QED BY <1>1, <1>2, SettlementInvariant, PTL DEF Spec

-----------------------------------------------------------------------------
\* The table and the outbox implement PaymentLifecycle.

\* What PaymentLifecycle calls status and credit.
StatusOf == [id \in PaymentIds |-> IF payments[id] = NoPayment THEN "absent"
                                   ELSE payments[id].status]
CreditOf == [id \in PaymentIds |-> IF payments[id] = NoPayment THEN None
                                   ELSE payments[id].stellar_tx_hash]

\* The instance has its own copies of the operators of PaymentStatus.
LEMMA LifecycleOperators ==
  /\ Lifecycle!CreditedStatuses = CreditedStatuses
  /\ \A s, t : Lifecycle!Reached(s, t) <=> Reached(s, t)
  /\ \A s : Lifecycle!EventType(s) = EventType(s)
BY DEF Lifecycle!CreditedStatuses, CreditedStatuses, Lifecycle!Reached, Reached,
       Lifecycle!EventType, EventType

\* The empty tables are PaymentLifecycle's initial state.
LEMMA InitRefines == Init => Lifecycle!LifecycleInit
BY DEF Init, RepositoryInit, Lifecycle!LifecycleInit

\* A payment request is a Create.
LEMMA CreateRefines ==
  ASSUME SettlementInv, NEW id \in PaymentIds, NEW draft \in Drafts,
         CreateWithIdempotencyKey(id, draft, None, now), UNCHANGED outbox
  PROVE  Lifecycle!Create(id)
<1> DEFINE row == NewPayment(id, draft, now)
<1>1. draft \in Draft /\ now \in Nat
  BY ReconciliationAssumption DEF SettlementInv, LocalInv, ReconciliationTypeOK
<1>2. /\ row \in Payment /\ row # NoPayment
      /\ row.status = "pending" /\ row.stellar_tx_hash = None
  BY <1>1, NewPaymentType, RepositoryAssumption
<1>3. payments[id] = NoPayment /\ payments' = [payments EXCEPT ![id] = row]
  BY DEF CreateWithIdempotencyKey, Stored
<1>4. payments \in [PaymentIds -> Payment \union {NoPayment}]
  BY DEF SettlementInv, LocalInv, ReconciliationTypeOK, RepositoryTypeOK
<1> HIDE DEF row
<1>5. StatusOf' = [StatusOf EXCEPT ![id] = "pending"] /\ CreditOf' = CreditOf
  BY <1>2, <1>3, <1>4 DEF StatusOf, CreditOf
<1>6. StatusOf[id] = "absent"
  BY <1>3 DEF StatusOf
<1> QED BY <1>5, <1>6 DEF Lifecycle!Create, StatusOf, CreditOf

\* An update by a worker is a Detect, a Settle or an Expire.
LEMMA MoveRefines ==
  ASSUME Backend = "postgres", SettlementInv, NEW w \in Workers, NEW next \in PaymentStatuses,
         NEW hash \in TxHashes \union {None}, NEW location \in {"emit", "record"},
         WorkerUpdate(next, hash), Move(w, next, hash, location)
  PROVE  \E id \in PaymentIds :
            \/ hash \in TxHashes /\ Lifecycle!Detect(id, hash)
            \/ \E outcome \in {"confirmed", "failed"} : Lifecycle!Settle(id, outcome)
            \/ Lifecycle!Expire(id)
<1>1. LocalInv /\ HashIffCredited
  BY DEF SettlementInv
<1>2. PICK id \in PaymentIds :
        /\ id = cur[w].id /\ id \in Stored
        /\ payments[id] \in Payment
        /\ payments[id].status \in ValidFromStates(next)
        /\ HashFree(id, hash)
        /\ Updated(payments[id], next, hash) \in Payment
        /\ payments' = [payments EXCEPT ![id] = Updated(payments[id], next, hash)]
        /\ outbox' = outbox
  <2>1. cur[w].id \in PaymentIds
    BY <1>1, MoveEffect
  <2>2. PICK id \in PaymentIds : id = cur[w].id
    BY <2>1
  <2> QED BY <1>1, <2>2, MoveEffect
<1> DEFINE row == Updated(payments[id], next, hash)
<1> SUFFICES \/ hash \in TxHashes /\ Lifecycle!Detect(id, hash)
             \/ \E outcome \in {"confirmed", "failed"} : Lifecycle!Settle(id, outcome)
             \/ Lifecycle!Expire(id)
  OBVIOUS
<1>3. /\ row.status = next
      /\ row.stellar_tx_hash = IF hash = None THEN payments[id].stellar_tx_hash ELSE hash
  BY <1>2, UpdatedRow
<1>4. payments \in [PaymentIds -> Payment \union {NoPayment}]
  BY <1>1 DEF LocalInv, ReconciliationTypeOK, RepositoryTypeOK
<1>5. /\ payments' = [payments EXCEPT ![id] = row]
      /\ row # NoPayment /\ payments[id] # NoPayment
  BY <1>2, RepositoryAssumption DEF Stored
<1> HIDE DEF row
<1>6. StatusOf' = [StatusOf EXCEPT ![id] = next] /\ StatusOf[id] = payments[id].status
  BY <1>2, <1>3, <1>4, <1>5 DEF StatusOf
<1>7. CreditOf' = [CreditOf EXCEPT ![id] = row.stellar_tx_hash]
      /\ CreditOf[id] = payments[id].stellar_tx_hash
  BY <1>2, <1>3, <1>4, <1>5 DEF CreditOf
<1>8. CASE next = "detected" /\ hash \in TxHashes
  <2>1. hash # None
    BY <1>8, RepositoryAssumption
  <2>2. payments[id].status = "pending"
    BY <1>2, <1>8 DEF ValidFromStates, CanTransitionTo
  <2>3. payments[id].stellar_tx_hash = None
    BY <1>1, <1>2, <2>2 DEF HashIffCredited, CreditedStatuses
  <2>4. \A other \in PaymentIds : CreditOf[other] # hash
    BY <1>2, <2>1, <2>3 DEF HashFree, CreditOf, Stored
  <2>5. CreditOf' = [CreditOf EXCEPT ![id] = hash]
    BY <1>3, <1>7, <2>1
  <2>6. StatusOf' = [StatusOf EXCEPT ![id] = "detected"] /\ StatusOf[id] = "pending"
    BY <1>6, <1>8, <2>2
  <2>7. Lifecycle!Detect(id, hash)
    BY <1>2, <2>4, <2>5, <2>6 DEF Lifecycle!Detect, StatusOf, CreditOf
  <2> QED BY <1>8, <2>7
<1>9. CASE next \in {"confirmed", "failed", "expired"} /\ hash = None
  <2>1. CreditOf' = CreditOf
    BY <1>3, <1>7, <1>9 DEF CreditOf
  <2>2. CASE next \in {"confirmed", "failed"}
    <3>1. payments[id].status = "detected"
      BY <1>2, <2>2 DEF ValidFromStates, CanTransitionTo
    <3>2. Lifecycle!Settle(id, next)
      BY <1>2, <1>6, <2>1, <3>1 DEF Lifecycle!Settle, StatusOf, CreditOf
    <3> QED BY <2>2, <3>2
  <2>3. CASE next = "expired"
    <3>1. payments[id].status = "pending"
      BY <1>2, <2>3 DEF ValidFromStates, CanTransitionTo
    <3>2. Lifecycle!Expire(id)
      BY <1>2, <1>6, <2>1, <2>3, <3>1 DEF Lifecycle!Expire, StatusOf, CreditOf
    <3> QED BY <3>2
  <2> QED BY <1>9, <2>2, <2>3
<1> QED BY <1>8, <1>9 DEF WorkerUpdate

\* emit is an Announce of a status the payment has reached and nobody announced.
LEMMA EmitRefines ==
  ASSUME SettlementInv, NEW w \in Workers, Emit(w)
  PROVE  \E id \in PaymentIds, reached \in CreditedStatuses \union {"expired"} :
            Lifecycle!Announce(id, reached)
<1> DEFINE id == cur[w].id
           reached == cur[w].status
           event == [payment_id |-> id, event_type |-> EventType(reached)]
<1>1. /\ pc[w] = "emit" /\ outbox' = Append(outbox, event)
      /\ UNCHANGED payments
  BY DEF Emit, tableVars
<1>2. /\ id \in PaymentIds /\ id \in Stored /\ Reached(payments[id].status, reached)
      /\ reached \in CreditedStatuses \union {"expired"}
  BY <1>1, BusyHolds DEF Snapshot, SettlementInv, LocalInv, EmitHasMoved
<1>3. \A i \in DOMAIN outbox : outbox[i] # event
  BY <1>1 DEF SettlementInv, AnnouncedByOne, Announcing
<1>4. StatusOf[id] = payments[id].status /\ payments[id].status # "absent"
  BY <1>2 DEF StatusOf, Stored, SettlementInv, LocalInv, ReconciliationTypeOK,
     RepositoryTypeOK, Payment, PaymentStatuses
<1>5. StatusOf' = StatusOf /\ CreditOf' = CreditOf
  BY <1>1 DEF StatusOf, CreditOf
<1>6. Lifecycle!Announce(id, reached)
  BY <1>1, <1>2, <1>3, <1>4, <1>5, LifecycleOperators
     DEF Lifecycle!Announce, Lifecycle!Announcement, StatusOf, CreditOf
<1> QED BY <1>2, <1>6

\* Whatever the workers hold and the process loses, the table and the outbox
\* do only what PaymentLifecycle allows, over Postgres.
THEOREM WorkersImplementLifecycle ==
  ASSUME Backend = "postgres"
  PROVE  Spec => ImplementsLifecycle
<1>1. SettlementInv /\ [Next]_vars => [Lifecycle!LifecycleNext]_Lifecycle!lifecycleVars
  <2> SUFFICES ASSUME SettlementInv, [Next]_vars
               PROVE  Lifecycle!LifecycleNext \/ UNCHANGED Lifecycle!lifecycleVars
    OBVIOUS
  <2>1. LocalInv
    BY DEF SettlementInv
  <2>2. CASE UNCHANGED <<payments, outbox>>
    BY <2>2 DEF Lifecycle!lifecycleVars
  <2>3. ASSUME NEW id \in PaymentIds, NEW draft \in Drafts,
               CreateWithIdempotencyKey(id, draft, None, now), UNCHANGED outbox
        PROVE  Lifecycle!LifecycleNext
    BY <2>3, CreateRefines DEF Lifecycle!LifecycleNext
  <2>4. ASSUME NEW w \in Workers, NEW next \in PaymentStatuses,
               NEW hash \in TxHashes \union {None}, NEW location \in {"emit", "record"},
               WorkerUpdate(next, hash), Move(w, next, hash, location)
        PROVE  Lifecycle!LifecycleNext
    BY <2>4, MoveRefines DEF Lifecycle!LifecycleNext
  <2>5. ASSUME NEW w \in Workers, Emit(w)
        PROVE  Lifecycle!LifecycleNext
    BY <2>5, EmitRefines, LifecycleOperators DEF Lifecycle!LifecycleNext
  <2>6. CASE UNCHANGED payments
    BY <2>1, <2>2, <2>5, <2>6, OutboxSteps
  <2>7. CASE UNCHANGED outbox
    BY <2>1, <2>3, <2>4, <2>6, <2>7, TableSteps
  <2> QED BY <2>1, <2>6, <2>7, OutboxSteps
<1> QED BY <1>1, InitRefines, SettlementInvariant, PTL
        DEF Spec, ImplementsLifecycle, Lifecycle!LifecycleSpec
=============================================================================

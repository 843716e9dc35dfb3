--------------------------- MODULE StellarPayProofs ---------------------------
(***************************************************************************)
(* Proofs about the two loops together, over one database, one clock and   *)
(* one life: for any number of workers and delivery loops, any payments,   *)
(* transactions and schedule, and wherever the process dies.               *)
(*                                                                         *)
(* The worker's invariants are those of the component: it only has to be   *)
(* seen that they survive what is new here, a clock that jumps and a death *)
(* that takes every loop down at once.                                     *)
(***************************************************************************)
EXTENDS StellarPay, ReconciliationProofs

\* A transaction is on the ledger once.
LedgerUnique ==
  \A i, j \in DOMAIN ledger :
     ledger[i].transaction_hash = ledger[j].transaction_hash => i = j

\* A row of webhook_events, however often its attempts were counted.
EventRow == [id : 1..MaxEvents, status : {"absent", "pending", "delivered", "failed"},
             attempts : Nat, next_attempt_at : Nat \union {None}]

IsEvent(n) == n \in 1..MaxEvents /\ events[n].status # "absent"

Delivering(d) == dpc[d] \in {"post", "accepted", "refused"}

\* The rows and the clones of them, and that the loops only ever handle, and
\* the merchant only ever sees, rows that emit has inserted.
RowsInserted ==
  /\ events \in [1..MaxEvents -> EventRow]
  /\ \A n \in 1..MaxEvents : events[n].id = n
  /\ dpc \in [Deliverers -> {"idle", "batch", "post", "accepted", "refused"}]
  /\ dtodo \in [Deliverers -> SUBSET EventRow]
  /\ dcur \in [Deliverers -> EventRow \union {None}]
  /\ \A d \in Deliverers :
       /\ \A row \in dtodo[d] : IsEvent(row.id)
       /\ Delivering(d) => dcur[d] \in EventRow /\ IsEvent(dcur[d].id)
  /\ \A n \in received : IsEvent(n)

\* The statuses that are announced.
Reachable == CreditedStatuses \union {"expired"}

\* In webhook_events, lost, or in the hands of a worker.
Accounted(id, reached) ==
  \/ \E n \in DOMAIN outbox : Announces(outbox[n], id, reached)
  \/ \E event \in lost : Announces(event, id, reached)
  \/ \E w \in Workers : HasEvent(w) /\ Announces(InHand(w), id, reached)

AllAccounted ==
  \A id \in Stored : \A reached \in Reachable :
     Reached(payments[id].status, reached) => Accounted(id, reached)

\* The rows of webhook_events are as many as emit has inserted.
RowsCounted == \A n \in 1..MaxEvents : n <= Len(outbox) <=> IsEvent(n)

SystemInv ==
  /\ SettlementInv
  /\ LedgerUnique
  /\ RowsInserted
  /\ AllAccounted
  /\ RowsCounted

-----------------------------------------------------------------------------
\* The reconciliation worker inside the system.

\* What the worker or the world does here is a step of the component.
LEMMA ReconcileSteps ==
  /\ Reconcile => Next
  /\ \A w \in Workers : EmitEvent(w) \/ LoseEvent(w) => Next
  /\ \A w \in Workers : FindOlder(w) \/ FindNothing(w) \/ RequestFails(w) \/ Crash(w) => Next
  /\ Tick => Next
<1>1. Reconcile => Next
  BY DEF Reconcile, Next, SteadyNext, Environment, Advance
<1>2. \A w \in Workers : EmitEvent(w) \/ LoseEvent(w) => Next
  BY DEF EmitEvent, LoseEvent, Next, SteadyNext, Advance
<1>3. \A w \in Workers : FindOlder(w) \/ FindNothing(w) \/ RequestFails(w) \/ Crash(w) => Next
  BY DEF Next, Outage
<1>4. Tick => Next
  BY DEF Next, SteadyNext, Environment
<1> QED BY <1>1, <1>2, <1>3, <1>4

\* The clock jumps forward, to a moment a row names.
LEMMA JumpForward ==
  ASSUME SettlementInv, RowsInserted, Delivery!Tick
  PROVE  now' \in Nat /\ now' >= now
<1>1. PICK t \in Delivery!DueTimes : t > now /\ now' = t
  BY DEF Delivery!Tick
<1>2. PICK n \in 1..MaxEvents : t = events[n].next_attempt_at /\ t # None
  BY <1>1 DEF Delivery!DueTimes
<1>3. t \in Nat
  BY <1>2 DEF RowsInserted, EventRow
<1> QED BY <1>1, <1>3 DEF SettlementInv, LocalInv, ReconciliationTypeOK

\* All workers stop at once, and have nothing left to be wrong about.
LEMMA DeathSettles ==
  ASSUME SettlementInv, ProcessDies
  PROVE  SettlementInv'
<1>1. /\ pc' = [w \in Workers |-> "idle"]
      /\ todo' = [w \in Workers |-> {}]
      /\ cur' = [w \in Workers |-> NoPayment]
      /\ found' = [w \in Workers |-> None]
      /\ UNCHANGED <<payments, idempotency_keys, ledger, outbox, recorded, now>>
  BY DEF ProcessDies, tableVars, effectVars
<1>2. Stored' = Stored
  BY <1>1 DEF Stored
<1>3. LocalInv'
  <2>1. ReconciliationTypeOK'
    BY <1>1 DEF SettlementInv, LocalInv, ReconciliationTypeOK, RepositoryTypeOK, LedgerTypeOK,
       Locations
  <2>2. RowsKeyed' /\ ClonesOpen' /\ BusyHasPayment' /\ DetectHasHash' /\ EmitHasMoved'
    BY <1>1, <1>2 DEF SettlementInv, LocalInv, RowsKeyed, ClonesOpen, BusyHasPayment,
       DetectHasHash, EmitHasMoved
  <2> QED BY <2>1, <2>2 DEF LocalInv
<1>4. HashIffCredited'
  BY <1>1, <1>2 DEF SettlementInv, HashIffCredited
<1>5. HeldAreSnapshots' /\ ReasonsHold' /\ AnnouncedByOne'
  BY <1>1 DEF HeldAreSnapshots, ReasonsHold, AnnouncedByOne, Announcing
<1> QED BY <1>1, <1>3, <1>4, <1>5, TableKept, EffectsKept DEF SettlementInv

\* So the component's invariant is one of the system.
LEMMA SystemSettles ==
  ASSUME SettlementInv, RowsInserted, [SystemNext]_systemVars
  PROVE  SettlementInv'
<1>1. CASE [Next]_vars
  BY <1>1, NextSettles
<1>2. CASE PassTime
  <2>1. CASE Tick
    BY <1>1, <2>1, ReconcileSteps
  <2>2. CASE Delivery!Tick /\ UNCHANGED <<tableVars, ledger, workerVars, effectVars, lost>>
    BY <2>2, JumpForward, ClockSettles DEF tableVars, workerVars, effectVars
  <2> QED BY <1>2, <2>1, <2>2 DEF PassTime
<1>3. CASE CallFails
  <2>1. Next \/ UNCHANGED vars
    BY <1>3, ReconcileSteps DEF CallFails
  <2> QED BY <1>1, <2>1
<1>4. CASE ProcessDies
  BY <1>4, DeathSettles
<1>5. CASE Reconcile \/ Deliver \/ \E w \in Workers : EmitEvent(w) \/ LoseEvent(w)
  <2>1. Next \/ UNCHANGED vars
    BY <1>5, ReconcileSteps DEF Deliver
  <2> QED BY <1>1, <2>1
<1>6. CASE UNCHANGED systemVars
  BY <1>1, <1>6 DEF systemVars
<1> QED BY <1>2, <1>3, <1>4, <1>5, <1>6 DEF SystemNext, SteadySystem

\* Nobody but a payer writes to the ledger, and under a hash it does not have.
LEMMA LedgerStaysUnique ==
  ASSUME SettlementInv, LedgerUnique, [SystemNext]_systemVars
  PROVE  LedgerUnique'
<1>1. CASE UNCHANGED ledger
  BY <1>1 DEF LedgerUnique
<1>2. CASE PayOnLedger
  <2>1. PICK hash \in TxHashes, memo \in Memos, amount \in Amounts, ok \in BOOLEAN :
               SubmitPayment(hash, memo, amount, ok, now)
    BY <1>2 DEF PayOnLedger
  <2> DEFINE record == [transaction_hash |-> hash, memo |-> memo, amount |-> amount,
                        successful |-> ok, created_at |-> now]
  <2>2. record.transaction_hash = hash /\ record \in LedgerRecord
    BY DEF LedgerRecord, SettlementInv, LocalInv, ReconciliationTypeOK
  <2>3. /\ ledger' = Append(ledger, record)
        /\ \A i \in DOMAIN ledger : ledger[i].transaction_hash # hash
    BY <2>1 DEF SubmitPayment
  <2>4. ledger \in Seq(LedgerRecord)
    BY DEF SettlementInv, LocalInv, ReconciliationTypeOK, LedgerTypeOK
  <2> HIDE DEF record
  <2>5. /\ DOMAIN ledger' = DOMAIN ledger \union {Len(ledger) + 1}
        /\ \A i \in DOMAIN ledger : ledger'[i] = ledger[i]
        /\ ledger'[Len(ledger) + 1] = record
    BY <2>2, <2>3, <2>4
  <2> QED BY <2>2, <2>3, <2>5 DEF LedgerUnique
<1>3. ASSUME ~ PayOnLedger PROVE UNCHANGED ledger
  <2>1. CASE Reconcile
    BY <1>3, <2>1 DEF Reconcile, CreatePayment, StartPass, TakePayment, EndPass, FindHit, Hit, FindMiss,
       MarkExpired, MarkDetected, Move, GetTransaction, MarkConfirmed, MarkFailed, RecordPayment,
       UpdateRefused
  <2>2. CASE \E w \in Workers : EmitEvent(w) \/ LoseEvent(w)
    BY <2>2 DEF EmitEvent, LoseEvent, Emit, EmitFails
  <2>3. CASE Deliver \/ PassTime \/ UNCHANGED systemVars
    BY <2>3 DEF Deliver, PassTime, Tick, systemVars, vars
  <2>4. CASE CallFails \/ ProcessDies
    BY <2>4 DEF CallFails, ProcessDies, FindOlder, Hit, FindNothing, RequestFails, Crash, vars
  <2> QED BY <2>1, <2>2, <2>3, <2>4 DEF SystemNext, SteadySystem
<1> QED BY <1>1, <1>2, <1>3

-----------------------------------------------------------------------------
\* The delivery loops inside the system.

\* A step that touches neither rows, loops nor merchant keeps what is said of them.
LEMMA RowsUntouched ==
  ASSUME RowsInserted, UNCHANGED <<events, dpc, dtodo, dcur, received>>
  PROVE  RowsInserted'
BY DEF RowsInserted, IsEvent, Delivering

\* What writing a row does, if the row stays an event: nothing that was one
\* stops being one.
LEMMA WriteKeepsRows ==
  ASSUME RowsInserted, NEW n \in 1..MaxEvents, NEW row \in EventRow,
         row.id = n, row.status # "absent", events' = [events EXCEPT ![n] = row]
  PROVE  /\ events' \in [1..MaxEvents -> EventRow]
         /\ \A m \in 1..MaxEvents : events'[m].id = m
         /\ \A m : IsEvent(m) => IsEvent(m)'
         /\ \A m \in 1..MaxEvents : m # n => events'[m] = events[m]
         /\ events'[n] = row
BY DEF RowsInserted, IsEvent

\* enqueue_event inserts the row of the event the worker has just announced.
LEMMA EnqueueKeepsRows ==
  ASSUME RowsInserted, now \in Nat, NEW n \in Nat, Delivery!Enqueue(n)
  PROVE  /\ RowsInserted'
         /\ \A m \in 1..MaxEvents : IsEvent(m)' <=> IsEvent(m) \/ m = n
<1>1. UNCHANGED <<dpc, dtodo, dcur, received>>
  BY DEF Delivery!Enqueue, Delivery!loopVars, Delivery!historyVars
<1>2. CASE n \notin 1..MaxEvents
  <2>1. events' = events
    BY <1>2 DEF Delivery!Enqueue, RowsInserted
  <2> QED BY <1>1, <1>2, <2>1, RowsUntouched DEF IsEvent
<1>3. CASE n \in 1..MaxEvents
  <2> DEFINE row == [events[n] EXCEPT !.status = "pending", !.next_attempt_at = now]
  <2>1. events[n] \in EventRow /\ events[n].id = n
    BY <1>3 DEF RowsInserted
  <2>2. events' = [events EXCEPT ![n] = row]
    BY <1>3, <2>1 DEF Delivery!Enqueue, RowsInserted
  <2>3. row \in EventRow /\ row.id = n /\ row.status = "pending"
    BY <2>1 DEF EventRow
  <2> HIDE DEF row
  <2>4. /\ events' \in [1..MaxEvents -> EventRow]
        /\ \A m \in 1..MaxEvents : events'[m].id = m
        /\ \A m : IsEvent(m) => IsEvent(m)'
        /\ \A m \in 1..MaxEvents : m # n => events'[m] = events[m]
        /\ events'[n] = row
    BY <1>3, <2>2, <2>3, WriteKeepsRows
  <2>5. RowsInserted'
    BY <1>1, <2>4 DEF RowsInserted, Delivering
  <2> QED BY <1>3, <2>3, <2>4, <2>5 DEF IsEvent
<1> QED BY <1>2, <1>3

\* The pause the schedule gives after a number of attempts, if it gives one.
LEMMA PauseType ==
  ASSUME NEW attempts \in Nat, attempts > 0
  PROVE  Delivery!NextBackoff(attempts) \in Nat \union {None}
<1>1. BackoffSchedule \in Seq(Nat \ {0})
  BY SystemAssumption
<1>2. CASE attempts <= Len(BackoffSchedule)
  <2>1. BackoffSchedule[attempts] \in Nat
    BY <1>1, <1>2
  <2> QED BY <1>2, <2>1 DEF Delivery!NextBackoff
<1>3. CASE ~ (attempts <= Len(BackoffSchedule))
  BY <1>3 DEF Delivery!NextBackoff
<1> QED BY <1>2, <1>3

\* mark_failed, with whatever clone: an event stays an event.
LEMMA FailureRow ==
  ASSUME NEW row \in EventRow, now \in Nat, NEW next \in Nat \union {None}
  PROVE  /\ Delivery!AfterFailure(row, next) \in EventRow
         /\ Delivery!AfterFailure(row, next).id = row.id
         /\ Delivery!AfterFailure(row, next).status # "absent"
<1> DEFINE due == IF next = None THEN None ELSE now + next
           status == IF next = None THEN "failed" ELSE "pending"
           after == Delivery!AfterFailure(row, next)
<1>1. due \in Nat \union {None} /\ status \in {"failed", "pending"}
  OBVIOUS
<1>2. after = [row EXCEPT !.status = status, !.attempts = row.attempts + 1,
                          !.next_attempt_at = due]
  BY DEF Delivery!AfterFailure, EventRow
<1> HIDE DEF due, status, after
<1>3. after = [id |-> row.id, status |-> status, attempts |-> row.attempts + 1,
               next_attempt_at |-> due]
  BY <1>2 DEF EventRow
<1>4. row.id \in 1..MaxEvents /\ row.attempts + 1 \in Nat
  BY DEF EventRow
<1> QED BY <1>1, <1>3, <1>4 DEF EventRow, after

\* A pass of a delivery loop handles inserted rows, and only those reach the
\* merchant; no row comes or goes by it.
LEMMA PassKeepsRows ==
  ASSUME RowsInserted, now \in Nat, NEW d \in Deliverers,
         Delivery!Advance(d) \/ Delivery!MarkLost(d)
  PROVE  /\ RowsInserted'
         /\ \A m \in 1..MaxEvents : IsEvent(m)' <=> IsEvent(m)
<1> USE DEF RowsInserted
<1>1. CASE Delivery!FetchDue(d)
  <2>1. PICK batch \in SUBSET Delivery!Due : dtodo' = [dtodo EXCEPT ![d] = batch]
    BY <1>1 DEF Delivery!FetchDue
  <2>2. dpc' = [dpc EXCEPT ![d] = "batch"] /\ UNCHANGED <<events, dcur, received>>
    BY <1>1 DEF Delivery!FetchDue, Delivery!historyVars
  <2>3. \A row \in batch : row \in EventRow /\ IsEvent(row.id)
    BY DEF Delivery!Due, IsEvent
  <2> QED BY <2>1, <2>2, <2>3 DEF IsEvent, Delivering
<1>2. CASE Delivery!Take(d)
  <2>1. PICK row \in dtodo[d] : /\ dcur' = [dcur EXCEPT ![d] = row]
                                /\ dtodo' = [dtodo EXCEPT ![d] = @ \ {row}]
    BY <1>2 DEF Delivery!Take
  <2>2. dpc' = [dpc EXCEPT ![d] = "post"] /\ UNCHANGED <<events, received>>
    BY <1>2 DEF Delivery!Take, Delivery!historyVars
  <2>3. row \in EventRow /\ IsEvent(row.id)
    OBVIOUS
  <2> QED BY <2>1, <2>2, <2>3 DEF IsEvent, Delivering
<1>3. CASE Delivery!Post(d)
  <2>1. /\ dpc[d] = "post"
        /\ received' \in {received, received \union {dcur[d].id}}
        /\ \E location \in {"accepted", "refused"} : dpc' = [dpc EXCEPT ![d] = location]
        /\ UNCHANGED <<events, dtodo, dcur>>
    BY <1>3 DEF Delivery!Post
  <2>2. dcur[d] \in EventRow /\ IsEvent(dcur[d].id)
    BY <2>1 DEF Delivering
  <2> QED BY <2>1, <2>2 DEF IsEvent, Delivering
<1>4. CASE Delivery!MarkDelivered(d)
  <2> DEFINE n == dcur[d].id
             row == [events[n] EXCEPT !.status = "delivered", !.next_attempt_at = None]
  <2>1. dpc[d] = "accepted" /\ IsEvent(n) /\ n \in 1..MaxEvents
    BY <1>4 DEF Delivery!MarkDelivered, Delivering, IsEvent
  <2>2. /\ events' = [events EXCEPT ![n] = row]
        /\ dpc' = [dpc EXCEPT ![d] = "batch"] /\ dcur' = [dcur EXCEPT ![d] = None]
        /\ UNCHANGED <<dtodo, received>>
    BY <1>4, <2>1 DEF Delivery!MarkDelivered, Delivery!NextInBatch, Delivery!historyVars
  <2>3. row \in EventRow /\ row.id = n /\ row.status # "absent"
    <3>1. events[n] \in EventRow /\ events[n].id = n
      BY <2>1
    <3> QED BY <3>1 DEF EventRow
  <2> HIDE DEF row
  <2>4. /\ events' \in [1..MaxEvents -> EventRow]
        /\ \A m \in 1..MaxEvents : events'[m].id = m
        /\ \A m : IsEvent(m) => IsEvent(m)'
        /\ \A m \in 1..MaxEvents : m # n => events'[m] = events[m]
    BY <2>1, <2>2, <2>3, WriteKeepsRows
  <2> QED BY <2>1, <2>2, <2>4 DEF IsEvent, Delivering
<1>5. CASE Delivery!MarkFailed(d)
  <2> DEFINE n == dcur[d].id
             row == Delivery!AfterFailure(events[n], Delivery!NextBackoff(dcur[d].attempts + 1))
  <2>1. dpc[d] = "refused" /\ dcur[d] \in EventRow /\ IsEvent(n) /\ n \in 1..MaxEvents
    BY <1>5 DEF Delivery!MarkFailed, Delivering, IsEvent
  <2>2. /\ events' = [events EXCEPT ![n] = row]
        /\ dpc' = [dpc EXCEPT ![d] = "batch"] /\ dcur' = [dcur EXCEPT ![d] = None]
        /\ UNCHANGED <<dtodo, received>>
    BY <1>5, <2>1 DEF Delivery!MarkFailed, Delivery!NextInBatch
  <2>3. row \in EventRow /\ row.id = n /\ row.status # "absent"
    <3>1. events[n] \in EventRow /\ events[n].id = n
      BY <2>1
    <3>2. dcur[d].attempts + 1 \in Nat /\ dcur[d].attempts + 1 > 0
      BY <2>1 DEF EventRow
    <3>3. Delivery!NextBackoff(dcur[d].attempts + 1) \in Nat \union {None}
      BY <3>2, PauseType
    <3> QED BY <3>1, <3>3, FailureRow
  <2> HIDE DEF row
  <2>4. /\ events' \in [1..MaxEvents -> EventRow]
        /\ \A m \in 1..MaxEvents : events'[m].id = m
        /\ \A m : IsEvent(m) => IsEvent(m)'
        /\ \A m \in 1..MaxEvents : m # n => events'[m] = events[m]
    BY <2>1, <2>2, <2>3, WriteKeepsRows
  <2> QED BY <2>1, <2>2, <2>4 DEF IsEvent, Delivering
<1>6. CASE Delivery!EndBatch(d) \/ Delivery!MarkLost(d)
  <2>1. /\ \E location \in {"idle", "batch"} : dpc' = [dpc EXCEPT ![d] = location]
        /\ dcur' = dcur \/ dcur' = [dcur EXCEPT ![d] = None]
        /\ UNCHANGED <<events, dtodo, received>>
    BY <1>6 DEF Delivery!EndBatch, Delivery!MarkLost, Delivery!NextInBatch, Delivery!historyVars
  <2> QED BY <2>1 DEF IsEvent, Delivering
<1> QED BY <1>1, <1>2, <1>3, <1>4, <1>5, <1>6 DEF Delivery!Advance

-----------------------------------------------------------------------------
\* Where the event of a transition is.

\* The two halves of what the runs check.
LEMMA AccountsSplit == EventsAccounted <=> AllAccounted /\ RowsCounted
BY DEF EventsAccounted, AllAccounted, RowsCounted, Accounted, Reachable, IsEvent

\* An event leaves a worker's hands for the outbox or among the lost, and
\* never leaves those.
HandsHeld ==
  /\ \A n \in DOMAIN outbox : n \in DOMAIN outbox' /\ outbox'[n] = outbox[n]
  /\ lost \subseteq lost'
  /\ \A w \in Workers :
       HasEvent(w) => \/ HasEvent(w)' /\ InHand(w)' = InHand(w)
                      \/ \E n \in DOMAIN outbox' : outbox'[n] = InHand(w)
                      \/ InHand(w) \in lost'

\* While that is so, what was accounted for stays so.
LEMMA StaysAccounted ==
  ASSUME HandsHeld, NEW id, NEW reached, Accounted(id, reached)
  PROVE  Accounted(id, reached)'
<1>1. CASE \E n \in DOMAIN outbox : Announces(outbox[n], id, reached)
  BY <1>1 DEF HandsHeld, Accounted
<1>2. CASE \E event \in lost : Announces(event, id, reached)
  BY <1>2 DEF HandsHeld, Accounted
<1>3. CASE \E w \in Workers : HasEvent(w) /\ Announces(InHand(w), id, reached)
  <2>1. PICK w \in Workers : HasEvent(w) /\ Announces(InHand(w), id, reached)
    BY <1>3
  <2>2. CASE HasEvent(w)' /\ InHand(w)' = InHand(w)
    BY <2>1, <2>2 DEF Accounted, Announces
  <2>3. CASE \E n \in DOMAIN outbox' : outbox'[n] = InHand(w)
    BY <2>1, <2>3 DEF Accounted, Announces
  <2>4. CASE InHand(w) \in lost'
    BY <2>1, <2>4 DEF Accounted, Announces
  <2> QED BY <2>1, <2>2, <2>3, <2>4 DEF HandsHeld
<1> QED BY <1>1, <1>2, <1>3 DEF Accounted

\* A status a move makes reachable is the one it writes.
LEMMA ReachedByMove ==
  ASSUME NEW from, NEW next, from \in ValidFromStates(next),
         NEW reached \in Reachable, Reached(next, reached), reached # next
  PROVE  Reached(from, reached)
BY DEF Reached, ValidFromStates, CanTransitionTo, Reachable, CreditedStatuses

\* A worker that moves a payment has the event of the move in hand.
LEMMA MoveAccounts ==
  ASSUME SettlementInv, AllAccounted, HandsHeld,
         NEW w \in Workers, NEW next \in PaymentStatuses,
         NEW hash \in TxHashes \union {None}, NEW location \in {"emit", "record"},
         WorkerUpdate(next, hash), Move(w, next, hash, location)
  PROVE  AllAccounted'
<1> SUFFICES ASSUME NEW id \in Stored', NEW reached \in Reachable,
                    Reached(payments'[id].status, reached)
             PROVE  Accounted(id, reached)'
  BY DEF AllAccounted
<1>1. /\ Stored' = Stored
      /\ payments[cur[w].id].status \in ValidFromStates(next)
      /\ \A other \in Stored : other # cur[w].id => payments'[other] = payments[other]
      /\ payments'[cur[w].id].id = cur[w].id
      /\ payments'[cur[w].id].status = next
      /\ cur' = [cur EXCEPT ![w] = payments'[cur[w].id]]
  BY MoveRow DEF SettlementInv
<1>2. CASE Reached(payments[id].status, reached)
  BY <1>1, <1>2, StaysAccounted DEF AllAccounted
<1>3. CASE ~ Reached(payments[id].status, reached)
  <2>1. id = cur[w].id /\ reached = next
    BY <1>1, <1>3, ReachedByMove
  <2>2. pc'[w] = location /\ cur'[w].id = id /\ cur'[w].status = next
    BY <1>1, <2>1 DEF Move, GoTo, SettlementInv, LocalInv, ReconciliationTypeOK
  <2> QED BY <2>1, <2>2 DEF Accounted, HasEvent, InHand, Announces
<1> QED BY <1>2, <1>3

\* A payment that has just been created has reached nothing, and every other
\* step of the worker that moves no payment leaves the accounts as they are.
LEMMA TableAccounts ==
  ASSUME SettlementInv, AllAccounted, HandsHeld, [Next]_vars
  PROVE  AllAccounted'
<1>1. LocalInv
  BY DEF SettlementInv
<1>2. CASE UNCHANGED payments
  BY <1>2, StaysAccounted DEF AllAccounted, Stored
<1>3. ASSUME NEW id \in PaymentIds, NEW draft \in Drafts,
             CreateWithIdempotencyKey(id, draft, None, now)
      PROVE  AllAccounted'
  <2>1. /\ Stored' = Stored \union {id}
        /\ \A other \in Stored : payments'[other] = payments[other]
        /\ payments'[id].status = "pending"
    BY <1>1, <1>3, CreateKeeps
  <2>2. \A reached \in Reachable : ~ Reached("pending", reached)
    BY DEF Reached, Reachable, CreditedStatuses
  <2> QED BY <2>1, <2>2, StaysAccounted DEF AllAccounted
<1> QED BY <1>1, <1>2, <1>3, MoveAccounts, TableSteps

\* The steps of the worker other than announcing: it holds no event, or keeps
\* the one it has.
LEMMA ReconcileHolds ==
  ASSUME SettlementInv, Reconcile
  PROVE  HandsHeld /\ UNCHANGED outbox
<1>1. pc \in [Workers -> Locations] /\ cur \in [Workers -> Payment \union {NoPayment}]
  BY DEF SettlementInv, LocalInv, ReconciliationTypeOK
<1>2. UNCHANGED <<outbox, lost>>
  BY DEF Reconcile, CreatePayment, PayOnLedger, StartPass, TakePayment, EndPass, FindHit, Hit, FindMiss,
     MarkExpired, MarkDetected, Move, GetTransaction, MarkConfirmed, MarkFailed, RecordPayment,
     UpdateRefused, effectVars
<1>3. ASSUME NEW v \in Workers, HasEvent(v)
      PROVE  HasEvent(v)' /\ InHand(v)' = InHand(v)
  <2>1. CASE CreatePayment \/ PayOnLedger
    BY <1>3, <2>1 DEF CreatePayment, PayOnLedger, workerVars, HasEvent, InHand
  <2>2. ASSUME NEW w \in Workers, RecordPayment(w)
        PROVE  HasEvent(v)' /\ InHand(v)' = InHand(v)
    BY <1>1, <1>3, <2>2 DEF RecordPayment, GoTo, HasEvent, InHand
  <2>3. ASSUME NEW w \in Workers,
               \/ StartPass(w) \/ TakePayment(w) \/ EndPass(w) \/ FindHit(w) \/ FindMiss(w)
               \/ MarkExpired(w) \/ MarkDetected(w) \/ GetTransaction(w)
               \/ MarkConfirmed(w) \/ MarkFailed(w) \/ UpdateRefused(w)
        PROVE  HasEvent(v)' /\ InHand(v)' = InHand(v)
    <3>1. pc[w] \notin {"record", "emit"}
      BY <2>3 DEF StartPass, TakePayment, EndPass, FindHit, Hit, FindMiss, MarkExpired, MarkDetected,
         GetTransaction, MarkConfirmed, MarkFailed, UpdateRefused, Updating
    <3>2. w # v
      BY <1>3, <3>1 DEF HasEvent
    <3>3. pc'[v] = pc[v] /\ cur'[v] = cur[v]
      BY <1>1, <2>3, <3>2 DEF StartPass, TakePayment, EndPass, FindHit, Hit, FindMiss, MarkExpired,
         MarkDetected, Move, GetTransaction, MarkConfirmed, MarkFailed, UpdateRefused, GoTo,
         NextInPass, LeavePass
    <3> QED BY <1>3, <3>3 DEF HasEvent, InHand
  <2> QED BY <2>1, <2>2, <2>3 DEF Reconcile
<1> QED BY <1>2, <1>3 DEF HandsHeld

\* Announcing puts the event into the outbox, or among the lost.
LEMMA AnnounceHolds ==
  ASSUME SettlementInv, NEW w \in Workers, EmitEvent(w) \/ LoseEvent(w)
  PROVE  /\ HandsHeld
         /\ EmitEvent(w) => Len(outbox') = Len(outbox) + 1
         /\ LoseEvent(w) => UNCHANGED outbox
<1>1. /\ pc \in [Workers -> Locations] /\ cur \in [Workers -> Payment \union {NoPayment}]
      /\ outbox \in Seq(Event)
  BY DEF SettlementInv, LocalInv, ReconciliationTypeOK
<1>2. /\ pc[w] = "emit" /\ pc' = [pc EXCEPT ![w] = "pass"]
      /\ cur' = [cur EXCEPT ![w] = NoPayment]
  BY DEF EmitEvent, LoseEvent, Emit, EmitFails, NextInPass, GoTo
<1>3. \A v \in Workers : v # w /\ HasEvent(v) => HasEvent(v)' /\ InHand(v)' = InHand(v)
  BY <1>1, <1>2 DEF HasEvent, InHand
<1>4. CASE EmitEvent(w)
  <2>1. outbox' = Append(outbox, InHand(w)) /\ lost' = lost
    BY <1>4 DEF EmitEvent, Emit, InHand
  <2>2. InHand(w) \in Event
    <3>1. cur[w] \in Payment /\ cur[w].status \in CreditedStatuses \union {"expired"}
      BY <1>2 DEF SettlementInv, LocalInv, BusyHasPayment, EmitHasMoved
    <3> QED BY <3>1, EventTypeType DEF InHand, Event, Payment
  <2>3. /\ \A n \in DOMAIN outbox : n \in DOMAIN outbox' /\ outbox'[n] = outbox[n]
        /\ Len(outbox) + 1 \in DOMAIN outbox' /\ outbox'[Len(outbox) + 1] = InHand(w)
        /\ Len(outbox') = Len(outbox) + 1
    BY <1>1, <2>1, <2>2
  <2>4. ~ LoseEvent(w) \/ UNCHANGED outbox
    BY DEF LoseEvent, EmitFails, effectVars
  <2> QED BY <1>3, <2>1, <2>3, <2>4 DEF HandsHeld
<1>5. CASE LoseEvent(w) /\ ~ EmitEvent(w)
  <2>1. outbox' = outbox /\ lost' = lost \union {InHand(w)}
    BY <1>5 DEF LoseEvent, EmitFails, effectVars
  <2> QED BY <1>3, <1>5, <2>1 DEF HandsHeld
<1> QED BY <1>4, <1>5

\* A worker that fails at a call has no event in hand; one whose reply is lost,
\* and all of them when the process dies, lose the one they have.
LEMMA FailureHolds ==
  ASSUME SettlementInv, CallFails \/ ProcessDies
  PROVE  HandsHeld /\ UNCHANGED outbox
<1>1. pc \in [Workers -> Locations] /\ cur \in [Workers -> Payment \union {NoPayment}]
  BY DEF SettlementInv, LocalInv, ReconciliationTypeOK
<1>2. ASSUME NEW w \in Workers, UNCHANGED lost,
             FindOlder(w) \/ FindNothing(w) \/ RequestFails(w)
      PROVE  HandsHeld /\ UNCHANGED outbox
  <2>1. /\ pc[w] \notin {"record", "emit"} /\ UNCHANGED outbox
        /\ \E location \in {"idle", "pass", "detect"} : pc' = [pc EXCEPT ![w] = location]
        /\ cur' \in {cur, [cur EXCEPT ![w] = NoPayment]}
    BY <1>2 DEF FindOlder, Hit, FindNothing, NextInPass, RequestFails, LeavePass, GoTo,
       Updating, effectVars
  <2>2. \A v \in Workers : HasEvent(v) => HasEvent(v)' /\ InHand(v)' = InHand(v)
    BY <1>1, <2>1 DEF HasEvent, InHand
  <2> QED BY <1>2, <2>1, <2>2 DEF HandsHeld
<1>3. ASSUME NEW w \in Workers, Crash(w), lost' = lost \union {InHand(w)}
      PROVE  HandsHeld /\ UNCHANGED outbox
  <2>1. /\ UNCHANGED outbox
        /\ pc' = [pc EXCEPT ![w] = "idle"] /\ cur' = [cur EXCEPT ![w] = NoPayment]
    BY <1>3 DEF Crash, LeavePass, GoTo, effectVars
  <2>2. \A v \in Workers : v # w /\ HasEvent(v) => HasEvent(v)' /\ InHand(v)' = InHand(v)
    BY <1>1, <2>1 DEF HasEvent, InHand
  <2> QED BY <1>3, <2>1, <2>2 DEF HandsHeld
<1>4. CASE \E d \in Deliverers : Delivery!MarkLost(d) /\ UNCHANGED <<vars, lost>>
  BY <1>4 DEF vars, workerVars, effectVars, HandsHeld, HasEvent, InHand
<1>5. CASE ProcessDies
  <2>1. /\ UNCHANGED outbox
        /\ lost' = lost \union {InHand(w) : w \in {v \in Workers : HasEvent(v)}}
    BY <1>5 DEF ProcessDies, effectVars
  <2> QED BY <2>1 DEF HandsHeld
<1> QED BY <1>2, <1>3, <1>4, <1>5 DEF CallFails

-----------------------------------------------------------------------------
\* The specification.

\* Every step keeps the invariant of the system.
LEMMA SystemKeeps ==
  ASSUME SystemInv, [SystemNext]_systemVars
  PROVE  SystemInv'
<1>1. SettlementInv /\ LedgerUnique /\ RowsInserted /\ AllAccounted /\ RowsCounted
  BY DEF SystemInv
<1>2. SettlementInv' /\ LedgerUnique'
  BY <1>1, SystemSettles, LedgerStaysUnique
<1>3. now \in Nat /\ Len(outbox) \in Nat
  BY <1>1 DEF SettlementInv, LocalInv, ReconciliationTypeOK
<1>4. CASE Reconcile
  <2>1. HandsHeld /\ UNCHANGED outbox /\ Next
    BY <1>1, <1>4, ReconcileHolds, ReconcileSteps
  <2>2. UNCHANGED <<events, dpc, dtodo, dcur, received>>
    BY <1>4 DEF Reconcile, deliveryVars, rowVars, loopVars, merchantVars
  <2>3. RowsInserted' /\ AllAccounted'
    BY <1>1, <2>1, <2>2, RowsUntouched, TableAccounts
  <2>4. RowsCounted'
    BY <1>1, <2>1, <2>2 DEF RowsCounted, IsEvent
  <2> QED BY <1>2, <2>3, <2>4 DEF SystemInv
<1>5. ASSUME NEW w \in Workers, EmitEvent(w)
      PROVE  SystemInv'
  <2>1. HandsHeld /\ Len(outbox') = Len(outbox) + 1 /\ Next
    BY <1>1, <1>5, AnnounceHolds, ReconcileSteps
  <2>2. Delivery!Enqueue(Len(outbox) + 1)
    BY <1>5, <2>1 DEF EmitEvent
  <2>3. /\ RowsInserted'
        /\ \A m \in 1..MaxEvents : IsEvent(m)' <=> IsEvent(m) \/ m = Len(outbox) + 1
    BY <1>1, <1>3, <2>2, EnqueueKeepsRows
  <2>4. RowsCounted'
    BY <1>1, <1>3, <2>1, <2>3, SystemAssumption DEF RowsCounted
  <2>5. AllAccounted'
    BY <1>1, <2>1, TableAccounts
  <2> QED BY <1>2, <2>3, <2>4, <2>5 DEF SystemInv
<1>6. ASSUME NEW w \in Workers, LoseEvent(w)
      PROVE  SystemInv'
  <2>1. HandsHeld /\ UNCHANGED outbox /\ Next
    BY <1>1, <1>6, AnnounceHolds, ReconcileSteps
  <2>2. UNCHANGED <<events, dpc, dtodo, dcur, received>>
    BY <1>6 DEF LoseEvent, deliveryVars, rowVars, loopVars, merchantVars
  <2>3. RowsInserted' /\ AllAccounted'
    BY <1>1, <2>1, <2>2, RowsUntouched, TableAccounts
  <2>4. RowsCounted'
    BY <1>1, <2>1, <2>2 DEF RowsCounted, IsEvent
  <2> QED BY <1>2, <2>3, <2>4 DEF SystemInv
<1>7. ASSUME NEW d \in Deliverers, Delivery!Advance(d) \/ Delivery!MarkLost(d),
             UNCHANGED <<vars, lost>>
      PROVE  SystemInv'
  <2>1. UNCHANGED <<payments, pc, cur, outbox, lost>>
    BY <1>7 DEF vars, tableVars, workerVars, effectVars
  <2>2. RowsInserted' /\ \A m \in 1..MaxEvents : IsEvent(m)' <=> IsEvent(m)
    BY <1>1, <1>3, <1>7, PassKeepsRows
  <2>3. AllAccounted'
    BY <1>1, <2>1 DEF AllAccounted, Accounted, HasEvent, InHand, Stored
  <2>4. RowsCounted'
    BY <1>1, <2>1, <2>2 DEF RowsCounted
  <2> QED BY <1>2, <2>2, <2>3, <2>4 DEF SystemInv
<1>8. CASE PassTime \/ UNCHANGED systemVars
  <2>1. UNCHANGED <<payments, pc, cur, outbox, lost, events, dpc, dtodo, dcur, received>>
    BY <1>8 DEF PassTime, Tick, Delivery!Tick, Delivery!loopVars, Delivery!historyVars,
       tableVars, workerVars, effectVars, systemVars, vars, deliveryVars, rowVars, loopVars,
       merchantVars
  <2>2. RowsInserted'
    BY <1>1, <2>1, RowsUntouched
  <2>3. AllAccounted' /\ RowsCounted'
    BY <1>1, <2>1 DEF AllAccounted, Accounted, HasEvent, InHand, Stored, RowsCounted, IsEvent
  <2> QED BY <1>2, <2>2, <2>3 DEF SystemInv
<1>9. ASSUME CallFails \/ ProcessDies,
             UNCHANGED <<payments, events, received>>, RowsInserted'
      PROVE  SystemInv'
  <2>1. HandsHeld /\ UNCHANGED outbox
    BY <1>1, <1>9, FailureHolds
  <2>2. AllAccounted'
    BY <1>1, <1>9, <2>1, StaysAccounted DEF AllAccounted, Stored
  <2>3. RowsCounted'
    BY <1>1, <1>9, <2>1 DEF RowsCounted, IsEvent
  <2> QED BY <1>2, <1>9, <2>2, <2>3 DEF SystemInv
<1>10. CASE CallFails
  <2>1. CASE \E d \in Deliverers : Delivery!MarkLost(d) /\ UNCHANGED <<vars, lost>>
    BY <1>7, <2>1
  <2>2. CASE /\ \E w \in Workers : FindOlder(w) \/ FindNothing(w) \/ RequestFails(w) \/ Crash(w)
             /\ UNCHANGED deliveryVars
    <3>1. UNCHANGED <<payments, events, dpc, dtodo, dcur, received>>
      BY <2>2 DEF FindOlder, Hit, FindNothing, RequestFails, Crash, tableVars, deliveryVars, rowVars, loopVars, merchantVars
    <3> QED BY <1>1, <1>9, <1>10, <3>1, RowsUntouched
  <2> QED BY <1>10, <2>1, <2>2 DEF CallFails
<1>11. CASE ProcessDies
  <2>1. /\ UNCHANGED <<payments, events, received>>
        /\ dpc' = [d \in Deliverers |-> "idle"]
        /\ dtodo' = [d \in Deliverers |-> {}]
        /\ dcur' = [d \in Deliverers |-> None]
    BY <1>11 DEF ProcessDies, tableVars, rowVars, merchantVars
  <2>2. RowsInserted'
    BY <1>1, <2>1 DEF RowsInserted, IsEvent, Delivering
  <2> QED BY <1>9, <1>11, <2>1, <2>2
<1> QED BY <1>4, <1>5, <1>6, <1>7, <1>8, <1>10, <1>11 DEF SystemNext, SteadySystem, Deliver

\* Both components in their initial states.
LEMMA InitSystem == SystemInit => SystemInv
<1> SUFFICES ASSUME SystemInit PROVE SystemInv
  OBVIOUS
<1>1. SettlementInv /\ ledger = <<>> /\ outbox = <<>> /\ Stored = {}
  BY InitSettles DEF SystemInit, Init, LedgerInit, RepositoryInit, Stored
<1>2. /\ events = [e \in 1..MaxEvents |-> [id |-> e, status |-> "absent", attempts |-> 0,
                                           next_attempt_at |-> None]]
      /\ dpc = [d \in Deliverers |-> "idle"]
      /\ dtodo = [d \in Deliverers |-> {}]
      /\ dcur = [d \in Deliverers |-> None]
      /\ received = {}
  BY DEF SystemInit, Delivery!Init
<1>3. RowsInserted
  <2>1. events \in [1..MaxEvents -> EventRow]
    BY <1>2 DEF EventRow
  <2> QED BY <1>2, <2>1 DEF RowsInserted, Delivering
<1>4. LedgerUnique
  BY <1>1 DEF LedgerUnique
<1>5. AllAccounted /\ RowsCounted
  BY <1>1, <1>2 DEF AllAccounted, RowsCounted, IsEvent
<1> QED BY <1>1, <1>3, <1>4, <1>5 DEF SystemInv

\* The invariant of the whole process, for any number of loops of each kind.
THEOREM SystemInvariant == SystemSpec => []SystemInv
BY InitSystem, SystemKeeps, PTL DEF SystemSpec

\* No event of a transition is lost but by a failed insert, a lost reply or
\* the death of the process while a worker has it in hand.
THEOREM NoEventVanishes == SystemSpec => []EventsAccounted
<1>1. SystemInv => EventsAccounted
  BY AccountsSplit DEF SystemInv
<1> QED BY <1>1, SystemInvariant, PTL

\* What a merchant has accepted is true of the payment, down to the ledger:
\* through the worker's clones, the outbox, the loop's clones and any crash.
THEOREM MerchantHearsTheTruth == SystemSpec => []HeardIsTrue
<1>1. ASSUME SystemInv PROVE HeardIsTrue
  <2> SUFFICES ASSUME NEW n \in received
               PROVE  /\ n <= Len(outbox)
                      /\ \E id \in Stored : \E reached \in CreditedStatuses \union {"expired"} :
                           /\ Announces(outbox[n], id, reached)
                           /\ Reached(payments[id].status, reached)
                           /\ reached = "confirmed" =>
                                \E i \in DOMAIN ledger :
                                   /\ ledger[i].transaction_hash = payments[id].stellar_tx_hash
                                   /\ ledger[i].successful
                                   /\ ledger[i].memo = payments[id].memo
                                   /\ ledger[i].amount = payments[id].amount
    BY DEF HeardIsTrue
  <2>1. n \in 1..MaxEvents /\ n <= Len(outbox) /\ n \in DOMAIN outbox
    BY <1>1
       DEF SystemInv, RowsInserted, IsEvent, RowsCounted, SettlementInv, LocalInv,
           ReconciliationTypeOK
  <2>2. PICK id \in Stored, reached \in CreditedStatuses \union {"expired"} :
          Announces(outbox[n], id, reached) /\ Reached(payments[id].status, reached)
    BY <1>1, <2>1 DEF SystemInv, SettlementInv, AnnouncedOnceAndTruly, Announces
  <2>3. ASSUME reached = "confirmed"
        PROVE  \E i \in DOMAIN ledger :
                  /\ ledger[i].transaction_hash = payments[id].stellar_tx_hash
                  /\ ledger[i].successful
                  /\ ledger[i].memo = payments[id].memo
                  /\ ledger[i].amount = payments[id].amount
    <3>1. payments[id].status = "confirmed"
      BY <2>2, <2>3 DEF Reached
    <3>2. PICK i \in DOMAIN ledger :
            ledger[i].transaction_hash = payments[id].stellar_tx_hash /\ ledger[i].successful
      BY <1>1, <3>1 DEF SystemInv, SettlementInv, OutcomeIsTheLedgers, Successful
    <3>3. PICK j \in DOMAIN ledger :
            /\ ledger[j].transaction_hash = payments[id].stellar_tx_hash
            /\ ledger[j].memo = payments[id].memo
            /\ ledger[j].amount = payments[id].amount
      <4>1. payments[id].stellar_tx_hash # None
        BY <1>1, <3>1 DEF SystemInv, SettlementInv, HashIffCredited, CreditedStatuses
      <4> QED BY <1>1, <4>1 DEF SystemInv, SettlementInv, CreditBacked
    <3>4. i = j
      BY <1>1, <3>2, <3>3 DEF SystemInv, LedgerUnique
    <3> QED BY <3>2, <3>3, <3>4
  <2> QED BY <2>1, <2>2, <2>3
<1> QED BY <1>1, SystemInvariant, PTL
=============================================================================

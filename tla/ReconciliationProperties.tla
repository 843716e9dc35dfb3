----------------------- MODULE ReconciliationProperties -----------------------
(***************************************************************************)
(* What the reconciliation worker must get right.                          *)
(***************************************************************************)
EXTENDS Reconciliation

\* One Stellar transaction settles one payment, even when merchants share a
\* memo or two workers hold the same hash (UNIQUE (stellar_tx_hash)).
TxCreditedOnce ==
  \A a, b \in Stored :
     payments[a].stellar_tx_hash = payments[b].stellar_tx_hash
       => a = b \/ payments[a].stellar_tx_hash = None

\* A payment holds a hash exactly while it is, or was, detected: the COALESCE
\* of update_status keeps it when the outcome is written without one.
HashIffCredited ==
  \A id \in Stored :
     payments[id].stellar_tx_hash # None <=> payments[id].status \in CreditedStatuses

\* The credited transaction is on the ledger, carries the payment's memo and
\* amount, and is not older than the payment, whatever was awaited between
\* find_payment and the update.
CreditBacked ==
  \A id \in Stored :
     payments[id].stellar_tx_hash # None =>
       \E i \in DOMAIN ledger :
          /\ ledger[i].transaction_hash = payments[id].stellar_tx_hash
          /\ ledger[i].memo = payments[id].memo
          /\ ledger[i].amount = payments[id].amount
          /\ ledger[i].created_at >= payments[id].created_at

\* The final status is the verdict of the ledger on the transaction that was
\* credited: its flag was looked at, and by its hash.
OutcomeIsTheLedgers ==
  \A id \in Stored :
     /\ payments[id].status = "confirmed" => Successful(payments[id].stellar_tx_hash)
     /\ payments[id].status = "failed" => ~ Successful(payments[id].stellar_tx_hash)

\* A merchant hears of a status at most once however many workers saw the
\* payment, and never of one the payment did not reach.
AnnouncedOnceAndTruly ==
  \A i \in DOMAIN outbox :
    /\ \A j \in DOMAIN outbox : outbox[i] = outbox[j] => i = j
    /\ LET id == outbox[i].payment_id IN
       id \in Stored /\ \E reached \in CreditedStatuses \union {"expired"} :
                          /\ Reached(payments[id].status, reached)
                          /\ outbox[i].event_type = EventType(reached)

\* The audit trail holds one entry at most, and only of confirmed payments.
RecordedOnce ==
  \A id \in PaymentIds :
    /\ recorded[id] <= 1
    /\ recorded[id] = 1 => id \in Stored /\ payments[id].status = "confirmed"

\* Nothing expires before its window has passed, although the age was taken
\* from a clone.
ExpiredOnlyWhenStale ==
  \A id \in Stored :
     payments[id].status = "expired" => now >= payments[id].created_at + ExpiryWindow

\* With a single worker the merchant hears of a payment in the order things
\* happened: `detected` never follows the outcome.
AnnouncedInOrder ==
  \A i, j \in DOMAIN outbox :
     (/\ outbox[i].payment_id = outbox[j].payment_id
      /\ outbox[i].event_type # "payment.detected"
      /\ outbox[j].event_type = "payment.detected")
       => j < i

\* Whatever the workers hold and the process loses, the table and the outbox
\* only show what PaymentLifecycle allows.
Lifecycle == INSTANCE PaymentLifecycle WITH
  status    <- [id \in PaymentIds |-> IF payments[id] = NoPayment THEN "absent"
                                      ELSE payments[id].status],
  credit    <- [id \in PaymentIds |-> IF payments[id] = NoPayment THEN None
                                      ELSE payments[id].stellar_tx_hash],
  announced <- outbox
ImplementsLifecycle == Lifecycle!LifecycleSpec

\* Every payment gets out of `pending`: found on the ledger or, at the latest
\* once the window has passed, expired, even if an older one keeps failing.
PendingEnds ==
  \A id \in PaymentIds :
     (id \in Stored /\ payments[id].status = "pending")
       ~> (id \in Stored /\ payments[id].status # "pending")

\* Every detected payment is settled, although an older payment whose update
\* is refused ends every pass before its turn until that one expires.
DetectedIsSettled ==
  \A id \in PaymentIds :
     (id \in Stored /\ payments[id].status = "detected")
       ~> (id \in Stored /\ payments[id].status \in {"confirmed", "failed"})

\* docs/architecture.md:81, "Each transition emits a PaymentEvent and enqueues
\* a webhook": a status that was reached and is no longer on its way out of a
\* worker is in the outbox.
EachTransitionEnqueued ==
  \A id \in Stored : \A reached \in CreditedStatuses \union {"expired"} :
     Reached(payments[id].status, reached) /\ (\A w \in Workers : pc[w] = "idle")
       => \E i \in DOMAIN outbox : outbox[i] = [payment_id |-> id,
                                                event_type |-> EventType(reached)]
=============================================================================

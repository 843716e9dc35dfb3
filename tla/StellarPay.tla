------------------------------- MODULE StellarPay -------------------------------
(***************************************************************************)
(* The process run_server starts: the reconciliation loop and the webhook  *)
(* delivery loop over one database, one clock and one life.  emit is where *)
(* they meet: the n-th row the worker inserts into webhook_events is event *)
(* n of the delivery loop.  A crash takes both loops down; what each one   *)
(* was in the middle of is gone, what is in the tables stays.              *)
(***************************************************************************)
EXTENDS ReconciliationProperties

CONSTANTS
  MaxEvents,         \* bound on the rows of webhook_events
  Deliverers, FetchBatchSize, BackoffSchedule

ASSUME SystemAssumption ==
  /\ MaxEvents \in Nat
  /\ BackoffSchedule \in Seq(Nat \ {0})

VARIABLES
  events, dpc, dtodo, dcur,     \* WebhookDelivery's table and loop
  received, tries, failedAt,    \* and its histories
  lost                          \* history: events reached and never enqueued

Delivery == INSTANCE WebhookDelivery WITH
  EventIds <- 1..MaxEvents, pc <- dpc, todo <- dtodo, cur <- dcur

rowVars      == <<events, failedAt>>
loopVars     == <<dpc, dtodo, dcur>>
merchantVars == <<received, tries>>
deliveryVars == <<rowVars, loopVars, merchantVars>>
systemVars   == <<vars, deliveryVars, lost>>

SystemInit == Init /\ Delivery!Init /\ lost = {}

-----------------------------------------------------------------------------
\* The row emit inserts, while the worker has yet to insert it.
InHand(w) == [payment_id |-> cur[w].id, event_type |-> EventType(cur[w].status)]

HasEvent(w) == pc[w] \in {"record", "emit"}

\* Mutant of EmitEvent: the event is built and not handed to the service.
EmitEvent_NotEnqueued(w) ==
  /\ Emit(w)
  /\ UNCHANGED <<deliveryVars, lost>>

\* enqueue_event
EmitEvent(w) ==
  /\ Emit(w)
  /\ Delivery!Enqueue(Len(outbox'))
  /\ UNCHANGED lost

LoseEvent(w) ==
  /\ EmitFails(w)
  /\ lost' = lost \union {InHand(w)}
  /\ UNCHANGED deliveryVars

\* Everything else the worker does, and the world around it.
Reconcile ==
  /\ \/ CreatePayment \/ PayOnLedger
     \/ \E w \in Workers :
          \/ StartPass(w)    \/ TakePayment(w)   \/ EndPass(w)
          \/ FindHit(w)      \/ FindMiss(w)
          \/ MarkExpired(w)  \/ MarkDetected(w)
          \/ GetTransaction(w)
          \/ MarkConfirmed(w) \/ MarkFailed(w)
          \/ RecordPayment(w)
          \/ UpdateRefused(w)
  /\ UNCHANGED <<deliveryVars, lost>>

\* The delivery loop, beside it.
Deliver ==
  /\ \E d \in Deliverers : Delivery!Advance(d)
  /\ UNCHANGED <<vars, lost>>

\* One clock, by the minute or straight to the next attempt.
PassTime ==
  \/ Tick /\ UNCHANGED <<deliveryVars, lost>>
  \/ Delivery!Tick /\ UNCHANGED <<tableVars, ledger, workerVars, effectVars, lost>>

\* A call of one of the loops fails.  An update whose reply is lost has been
\* made: the pass ends, and the event of the transition with it.
CallFails ==
  \/ /\ \E w \in Workers : FindOlder(w) \/ FindNothing(w) \/ RequestFails(w)
     /\ UNCHANGED <<deliveryVars, lost>>
  \/ /\ \E w \in Workers : /\ HasEvent(w) /\ Crash(w)
                           /\ lost' = lost \union {InHand(w)}
     /\ UNCHANGED deliveryVars
  \/ /\ \E d \in Deliverers : Delivery!MarkLost(d)
     /\ UNCHANGED <<vars, lost>>

\* The process dies and is started again.
ProcessDies ==
  /\ \/ \E w \in Workers : pc[w] # "idle"
     \/ \E d \in Deliverers : dpc[d] # "idle"
  /\ pc' = [w \in Workers |-> "idle"]
  /\ todo' = [w \in Workers |-> {}]
  /\ cur' = [w \in Workers |-> NoPayment]
  /\ found' = [w \in Workers |-> None]
  /\ dpc' = [d \in Deliverers |-> "idle"]
  /\ dtodo' = [d \in Deliverers |-> {}]
  /\ dcur' = [d \in Deliverers |-> None]
  /\ lost' = lost \union {InHand(w) : w \in {v \in Workers : HasEvent(v)}}
  /\ UNCHANGED <<tableVars, ledger, effectVars, now, rowVars, merchantVars>>

-----------------------------------------------------------------------------
SteadySystem ==
  \/ Reconcile \/ Deliver \/ PassTime
  \/ \E w \in Workers : EmitEvent(w) \/ LoseEvent(w)

SystemNext == SteadySystem \/ CallFails \/ ProcessDies

\* As in the two components: both loops tick for ever, time passes, the
\* outages end, and a POST may never return.
SystemSpec ==
  /\ SystemInit /\ [][SystemNext]_systemVars
  /\ WF_systemVars(PassTime)
  /\ \A w \in Workers : WF_systemVars(SteadySystem /\ Advance(w))
  /\ \A d \in Deliverers : WF_systemVars(dpc[d] # "post" /\ Deliver /\ Delivery!Advance(d))
  /\ <>[][SteadySystem]_systemVars

-----------------------------------------------------------------------------
Announces(event, id, reached) ==
  event.payment_id = id /\ event.event_type = EventType(reached)

\* What the merchant has accepted is so: the payment went through the status,
\* and a confirmation stands for a successful transaction on the ledger with
\* the payment's memo and amount, whichever loop was where when it crashed.
HeardIsTrue ==
  \A n \in received :
    /\ n <= Len(outbox)
    /\ \E id \in Stored : \E reached \in CreditedStatuses \union {"expired"} :
         /\ Announces(outbox[n], id, reached)
         /\ Reached(payments[id].status, reached)
         /\ reached = "confirmed" =>
              \E i \in DOMAIN ledger :
                 /\ ledger[i].transaction_hash = payments[id].stellar_tx_hash
                 /\ ledger[i].successful
                 /\ ledger[i].memo = payments[id].memo
                 /\ ledger[i].amount = payments[id].amount

\* The only ways to lose the event of a transition are a failed insert, an
\* update whose reply is lost, and the process dying with the event in hand:
\* any other is in webhook_events, with its row, or still with the worker.
EventsAccounted ==
  /\ \A id \in Stored : \A reached \in CreditedStatuses \union {"expired"} :
       Reached(payments[id].status, reached) =>
         \/ \E n \in DOMAIN outbox : Announces(outbox[n], id, reached)
         \/ \E event \in lost : Announces(event, id, reached)
         \/ \E w \in Workers : HasEvent(w) /\ Announces(InHand(w), id, reached)
  /\ \A n \in 1..MaxEvents : n <= Len(outbox) <=> events[n].status # "absent"

\* As long as POSTs return, every payment comes to an end that its merchant can
\* know of: it gets a final status, and each event of it that was not lost is
\* accepted or has been tried to the end of the schedule.
Final == {"confirmed", "failed", "expired"}
PaymentEnds ==
  Delivery!PostsReturn =>
    \A id \in PaymentIds :
       (id \in Stored) ~>
         /\ id \in Stored /\ payments[id].status \in Final
         /\ \/ \E event \in lost : Announces(event, id, payments[id].status)
            \/ \E n \in DOMAIN outbox : Announces(outbox[n], id, payments[id].status)
         /\ \A n \in DOMAIN outbox :
              outbox[n].payment_id = id => events[n].status \in {"delivered", "failed"}
=============================================================================

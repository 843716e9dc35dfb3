----------------------------- MODULE Reconciliation -----------------------------
(***************************************************************************)
(* The reconciliation worker (crates/reconciliation) over the payments     *)
(* table and the Stellar ledger.  run_server starts one worker; docs/      *)
(* architecture.md relies on the repository's atomic update when there are *)
(* two, so Workers is a parameter.                                         *)
(*                                                                         *)
(* A pass works on clones: list_pending_for_reconciliation fills todo[w],  *)
(* and a payment may have been moved by somebody else by the time it is    *)
(* processed.  One step is what lies between two awaits; between steps the *)
(* other workers, the API, the payers and the clock go on.  An error       *)
(* returned by any call but the recorder's and emit's ends the pass (`?`   *)
(* in run_once).  A reply lost after the database committed shows the      *)
(* worker an error too: that is the update followed by Crash.              *)
(***************************************************************************)
EXTENDS PaymentRepository, HorizonLedger

CONSTANTS
  Workers,        \* reconciliation workers
  Drafts,         \* what merchants ask for
  ExpiryWindow,   \* PAYMENT_EXPIRY_WINDOW, in ticks
  MaxTime         \* bound on the clock

ASSUME ReconciliationAssumption ==
  /\ Drafts \subseteq Draft
  /\ ExpiryWindow \in Nat /\ MaxTime \in Nat

VARIABLES
  pc,         \* w |-> where the worker is
  todo,       \* w |-> the clones its pass has yet to process
  cur,        \* w |-> the payment being processed, or NoPayment
  found,      \* w |-> the hash find_payment returned, or None
  outbox,     \* rows inserted into webhook_events, oldest first
  recorded,   \* id |-> number of on-chain records made for it
  now         \* Utc::now(), in ticks

workerVars == <<pc, todo, cur, found>>
tableVars  == <<payments, idempotency_keys>>
effectVars == <<outbox, recorded>>
vars == <<tableVars, ledger, workerVars, effectVars, now>>

Locations == {"idle", "pass", "expire", "lookup", "detect", "fetch",
              "confirm", "fail", "record", "emit"}

Event == [payment_id : PaymentIds, event_type : EventTypes]

\* The types of the tables, the ledger, the outbox and the locals of each worker.
ReconciliationTypeOK ==
  /\ RepositoryTypeOK
  /\ LedgerTypeOK
  /\ pc \in [Workers -> Locations]
  /\ todo \in [Workers -> SUBSET Payment]
  /\ cur \in [Workers -> Payment \union {NoPayment}]
  /\ found \in [Workers -> TxHashes \union {None}]
  /\ outbox \in Seq(Event)
  /\ recorded \in [PaymentIds -> Nat]
  /\ now \in Nat

Init ==
  /\ RepositoryInit
  /\ LedgerInit
  /\ pc = [w \in Workers |-> "idle"]
  /\ todo = [w \in Workers |-> {}]
  /\ cur = [w \in Workers |-> NoPayment]
  /\ found = [w \in Workers |-> None]
  /\ outbox = <<>>
  /\ recorded = [id \in PaymentIds |-> 0]
  /\ now = 0

-----------------------------------------------------------------------------
\* The world around the workers.

\* A create_payment request commits.  PaymentService models the requests;
\* the bound leaves every payment the time to expire.
CreatePayment ==
  /\ now + ExpiryWindow <= MaxTime
  /\ \E id \in PaymentIds, draft \in Drafts :
        CreateWithIdempotencyKey(id, draft, None, now)
  /\ UNCHANGED <<ledger, workerVars, effectVars, now>>

\* Somebody pays the shared account.
PayOnLedger ==
  /\ \E hash \in TxHashes, memo \in Memos, amount \in Amounts, ok \in BOOLEAN :
        SubmitPayment(hash, memo, amount, ok, now)
  /\ UNCHANGED <<tableVars, workerVars, effectVars, now>>

Tick ==
  /\ now < MaxTime
  /\ now' = now + 1
  /\ UNCHANGED <<tableVars, ledger, workerVars, effectVars>>

-----------------------------------------------------------------------------
\* The pass.

GoTo(w, location) == pc' = [pc EXCEPT ![w] = location]

\* Done with the current payment, on to the next one.
NextInPass(w) ==
  /\ GoTo(w, "pass")
  /\ cur' = [cur EXCEPT ![w] = NoPayment]
  /\ found' = [found EXCEPT ![w] = None]
  /\ UNCHANGED todo

\* The pass is over: its locals are dropped, the rest of the batch with them.
LeavePass(w) ==
  /\ GoTo(w, "idle")
  /\ todo' = [todo EXCEPT ![w] = {}]
  /\ cur' = [cur EXCEPT ![w] = NoPayment]
  /\ found' = [found EXCEPT ![w] = None]

StartPass(w) ==
  /\ pc[w] = "idle"
  /\ GoTo(w, "pass")
  /\ todo' = [todo EXCEPT ![w] = PendingForReconciliation]
  /\ UNCHANGED <<tableVars, ledger, cur, found, effectVars, now>>

EndPass(w) ==
  /\ pc[w] = "pass" /\ todo[w] = {}
  /\ LeavePass(w)
  /\ UNCHANGED <<tableVars, ledger, effectVars, now>>

\* The clone the loop of run_once comes to next.
IsNext(w, p) == p \in todo[w] /\ \A q \in todo[w] : p.created_at <= q.created_at

\* Mutant of IsStale: the age is not measured from the payment's creation.
IsStale_Always(p) == now >= ExpiryWindow

\* age >= expiry
IsStale(p) == now - p.created_at >= ExpiryWindow

\* process_pending up to its first call.  A stored payment always has a memo
\* (create_payment generates one), so the early return on None is not taken.
\* process_detected goes straight to get_transaction.
TakePayment(w) ==
  /\ pc[w] = "pass"
  /\ \E p \in todo[w] :
       /\ IsNext(w, p)
       /\ todo' = [todo EXCEPT ![w] = @ \ {p}]
       /\ cur' = [cur EXCEPT ![w] = p]
       /\ GoTo(w, CASE p.status = "detected"                -> "fetch"
                    [] p.status = "pending" /\ IsStale(p)   -> "expire"
                    [] p.status = "pending" /\ ~ IsStale(p) -> "lookup")
  /\ UNCHANGED <<tableVars, ledger, found, effectVars, now>>

-----------------------------------------------------------------------------
\* process_pending

\* Mutant of AmountsMatch: the defence in depth is missing.
AmountsMatch_Always(p, r) == TRUE

\* amounts_match
AmountsMatch(p, r) == p.amount = r.amount

\* find_payment returns record i and its amount is right.
Hit(w, i) ==
  /\ AmountsMatch(cur[w], ledger[i])
  /\ found' = [found EXCEPT ![w] = ledger[i].transaction_hash]
  /\ GoTo(w, "detect")
  /\ UNCHANGED <<tableVars, ledger, todo, cur, effectVars, now>>

FindHit(w) ==
  /\ pc[w] = "lookup"
  /\ \E i \in DOMAIN ledger :
       IsFound(i, cur[w].memo, cur[w].created_at) /\ Hit(w, i)

\* It finds nothing, or the wrong amount: the payment stays pending.
FindMiss(w) ==
  /\ pc[w] = "lookup"
  /\ \A i \in DOMAIN ledger :
       IsFound(i, cur[w].memo, cur[w].created_at) => ~ AmountsMatch(cur[w], ledger[i])
  /\ NextInPass(w)
  /\ UNCHANGED <<tableVars, ledger, effectVars, now>>

\* update_status succeeds and returns the row it wrote.
Move(w, next, hash, location) ==
  /\ UpdateStatus(cur[w].id, next, hash)
  /\ cur' = [cur EXCEPT ![w] = Updated(payments[cur[w].id], next, hash)]
  /\ GoTo(w, location)
  /\ UNCHANGED <<ledger, todo, found, effectVars, now>>

MarkExpired(w)  == pc[w] = "expire" /\ Move(w, "expired", None, "emit")
MarkDetected(w) == pc[w] = "detect" /\ Move(w, "detected", found[w], "emit")

-----------------------------------------------------------------------------
\* process_detected

\* Mutant of Verdict: the transaction's `successful` flag is not looked at.
Verdict_Trusting(hash) == "confirm"

Verdict(hash) == IF Successful(hash) THEN "confirm" ELSE "fail"

GetTransaction(w) ==
  /\ pc[w] = "fetch"
  /\ GoTo(w, Verdict(cur[w].stellar_tx_hash))
  /\ UNCHANGED <<tableVars, ledger, todo, cur, found, effectVars, now>>

MarkConfirmed(w) == pc[w] = "confirm" /\ Move(w, "confirmed", None, "record")
MarkFailed(w)    == pc[w] = "fail" /\ Move(w, "failed", None, "emit")

\* OnChainRecorder::record_payment: an entry is made, or the call fails.  The
\* NullOnChainRecorder that run_server starts accepts every payment.
RecordOnChain(id) ==
  \/ recorded' = [recorded EXCEPT ![id] = @ + 1]
  \/ UNCHANGED recorded

\* The worker goes on either way: best effort.
RecordPayment(w) ==
  /\ pc[w] = "record"
  /\ RecordOnChain(cur[w].id)
  /\ GoTo(w, "emit")
  /\ UNCHANGED <<tableVars, ledger, todo, cur, found, outbox, now>>

-----------------------------------------------------------------------------
\* emit, and the ways a pass ends early.

Emit(w) ==
  /\ pc[w] = "emit"
  /\ outbox' = Append(outbox, [payment_id |-> cur[w].id,
                               event_type |-> EventType(cur[w].status)])
  /\ NextInPass(w)
  /\ UNCHANGED <<tableVars, ledger, recorded, now>>

\* enqueue_event fails: the error is logged and the event is gone.
EmitFails(w) ==
  /\ pc[w] = "emit"
  /\ NextInPass(w)
  /\ UNCHANGED <<tableVars, ledger, effectVars, now>>

\* The update a worker is about to make: its target and its hash.
Intent(w) == CASE pc[w] = "expire"  -> <<"expired", None>>
               [] pc[w] = "detect"  -> <<"detected", found[w]>>
               [] pc[w] = "confirm" -> <<"confirmed", None>>
               [] pc[w] = "fail"    -> <<"failed", None>>

Updating == {"expire", "detect", "confirm", "fail"}

\* update_status returns Conflict: the clone was stale, or another payment
\* already holds the transaction hash.
UpdateRefused(w) ==
  /\ pc[w] \in Updating
  /\ ~ MayUpdate(cur[w].id, Intent(w)[1], Intent(w)[2])
  /\ LeavePass(w)
  /\ UNCHANGED <<tableVars, ledger, effectVars, now>>

\* Horizon answers the GET of a memo by an error document, which find_payment
\* reads as a transaction without a memo (ErrorDocument of HorizonClient): it
\* passes the newest match over and returns an older one ...
FindOlder(w) ==
  /\ pc[w] = "lookup"
  /\ \E i \in Matches(cur[w].memo, cur[w].created_at) :
       ~ IsFound(i, cur[w].memo, cur[w].created_at) /\ Hit(w, i)

\* ... or passes over every match, or returns an older one of the wrong amount.
FindNothing(w) ==
  /\ pc[w] = "lookup"
  /\ Matches(cur[w].memo, cur[w].created_at) # {}
  /\ NextInPass(w)
  /\ UNCHANGED <<tableVars, ledger, effectVars, now>>

\* The database or Horizon is unreachable, or answers what cannot be decoded.
RequestFails(w) ==
  /\ pc[w] \in Updating \union {"lookup", "fetch"}
  /\ LeavePass(w)
  /\ UNCHANGED <<tableVars, ledger, effectVars, now>>

\* The process dies, at any await, and is started again.
Crash(w) ==
  /\ pc[w] # "idle"
  /\ LeavePass(w)
  /\ UNCHANGED <<tableVars, ledger, effectVars, now>>

-----------------------------------------------------------------------------
Advance(w) ==
  \/ StartPass(w)    \/ TakePayment(w)   \/ EndPass(w)
  \/ FindHit(w)      \/ FindMiss(w)
  \/ MarkExpired(w)  \/ MarkDetected(w)
  \/ GetTransaction(w)
  \/ MarkConfirmed(w) \/ MarkFailed(w)
  \/ RecordPayment(w) \/ Emit(w) \/ EmitFails(w)
  \/ UpdateRefused(w)

Outage(w) == FindOlder(w) \/ FindNothing(w) \/ RequestFails(w) \/ Crash(w)

Environment == CreatePayment \/ PayOnLedger \/ Tick

SteadyNext == Environment \/ \E w \in Workers : Advance(w)

Next == SteadyNext \/ \E w \in Workers : Outage(w)

Spec == Init /\ [][Next]_vars

\* run_loop ticks for ever and every await returns; time passes; and from
\* some point on the database, Horizon and the process stay up (a Horizon that
\* answers by error documents is not up).
Fairness    == WF_vars(Tick) /\ \A w \in Workers : WF_vars(Advance(w))
OutagesEnd  == <>[][SteadyNext]_vars
FairSpec    == Spec /\ Fairness /\ OutagesEnd
=============================================================================

---------------------------- MODULE PaymentLifecycle ----------------------------
(***************************************************************************)
(* What the backend promises about a payment, whatever processes run it    *)
(* and however they fail: one of the two paths of the state machine,       *)
(* at most one Stellar transaction per payment and one payment per         *)
(* transaction, fixed when the payment is detected, and at most one        *)
(* webhook event for each status the payment has really reached.           *)
(***************************************************************************)
EXTENDS Sequences, PaymentStatus, PaymentDomain

CONSTANT PaymentIds

VARIABLES
  status,      \* id |-> status, "absent" before the payment exists
  credit,      \* id |-> the transaction it was matched to, or None
  announced    \* the webhook events enqueued, oldest first

lifecycleVars == <<status, credit, announced>>

Announcement(id, event) == [payment_id |-> id, event_type |-> event]

LifecycleInit ==
  /\ status = [id \in PaymentIds |-> "absent"]
  /\ credit = [id \in PaymentIds |-> None]
  /\ announced = <<>>

Create(id) ==
  /\ status[id] = "absent"
  /\ status' = [status EXCEPT ![id] = "pending"]
  /\ UNCHANGED <<credit, announced>>

Detect(id, hash) ==
  /\ status[id] = "pending"
  /\ \A other \in PaymentIds : credit[other] # hash
  /\ status' = [status EXCEPT ![id] = "detected"]
  /\ credit' = [credit EXCEPT ![id] = hash]
  /\ UNCHANGED announced

Settle(id, outcome) ==
  /\ status[id] = "detected"
  /\ status' = [status EXCEPT ![id] = outcome]
  /\ UNCHANGED <<credit, announced>>

Expire(id) ==
  /\ status[id] = "pending"
  /\ status' = [status EXCEPT ![id] = "expired"]
  /\ UNCHANGED <<credit, announced>>

\* A status may be announced late, or never, but not twice and not falsely.
Announce(id, reached) ==
  LET event == Announcement(id, EventType(reached)) IN
  /\ status[id] # "absent" /\ Reached(status[id], reached)
  /\ \A i \in DOMAIN announced : announced[i] # event
  /\ announced' = Append(announced, event)
  /\ UNCHANGED <<status, credit>>

LifecycleNext ==
  \E id \in PaymentIds :
     \/ Create(id)
     \/ \E hash \in TxHashes : Detect(id, hash)
     \/ \E outcome \in {"confirmed", "failed"} : Settle(id, outcome)
     \/ Expire(id)
     \/ \E reached \in CreditedStatuses \union {"expired"} : Announce(id, reached)

LifecycleSpec == LifecycleInit /\ [][LifecycleNext]_lifecycleVars
=============================================================================

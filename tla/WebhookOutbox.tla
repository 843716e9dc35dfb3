----------------------------- MODULE WebhookOutbox -----------------------------
(***************************************************************************)
(* What the backend promises about a webhook event: it is over when the    *)
(* merchant has accepted it or every attempt of the schedule has failed,   *)
(* and once it is over nothing is attempted any more.  An acceptance whose *)
(* answer or record was lost is attempted again: at least once.            *)
(***************************************************************************)
EXTENDS Naturals

CONSTANTS
  EventIds,
  MaxTries    \* the first attempt and its retries

VARIABLES
  status,     \* e |-> "absent", "pending", "delivered" or "failed"
  accepted,   \* events the merchant has accepted, known or not
  refusals    \* e |-> attempts known to have failed, up to MaxTries

outboxVars == <<status, accepted, refusals>>

OutboxInit ==
  /\ status = [e \in EventIds |-> "absent"]
  /\ accepted = {}
  /\ refusals = [e \in EventIds |-> 0]

Become(e, from, to) ==
  /\ status[e] = from
  /\ status' = [status EXCEPT ![e] = to]
  /\ UNCHANGED <<accepted, refusals>>

Enqueued(e) == Become(e, "absent", "pending")

\* An attempt: accepted or not, and known to have succeeded or not.
Attempt(e) ==
  /\ status[e] = "pending"
  /\ accepted' \in {accepted, accepted \union {e}}
  /\ \/ e \in accepted' /\ UNCHANGED refusals
     \/ /\ refusals[e] < MaxTries
        /\ refusals' = [refusals EXCEPT ![e] = @ + 1]
  /\ UNCHANGED status

Deliver(e) == e \in accepted /\ Become(e, "pending", "delivered")

GiveUp(e) == refusals[e] = MaxTries /\ Become(e, "pending", "failed")

OutboxNext == \E e \in EventIds :
  Enqueued(e) \/ Attempt(e) \/ Deliver(e) \/ GiveUp(e)

OutboxSpec == OutboxInit /\ [][OutboxNext]_outboxVars
=============================================================================

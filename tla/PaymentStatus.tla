------------------------------ MODULE PaymentStatus ------------------------------
(***************************************************************************)
(* The payment state machine of crates/core: the five statuses, the four   *)
(* legal moves between them, and the set of "from" states that both        *)
(* repository implementations derive from it.  No state, only operators.   *)
(***************************************************************************)

PaymentStatuses == {"pending", "detected", "confirmed", "failed", "expired"}

\* PaymentStatus::can_transition_to
CanTransitionTo(from, to) ==
  <<from, to>> \in {<<"pending", "detected">>,   <<"pending", "expired">>,
                    <<"detected", "confirmed">>, <<"detected", "failed">>}

\* Mutants of ValidFromStates: any non-terminal state will do, or any at all,
\* or the arguments of can_transition_to are swapped.
ValidFromStates_AnyOpen(target)   == {"pending", "detected"}
ValidFromStates_Unguarded(target) == PaymentStatuses
ValidFromStates_Swapped(target)   == {from \in PaymentStatuses : CanTransitionTo(target, from)}

\* valid_from_states: the statuses from which `target` may be reached.
ValidFromStates(target) ==
  {from \in PaymentStatuses : CanTransitionTo(from, target)}

\* The statuses worth a reconciliation pass.
OpenStatuses == {"pending", "detected"}

\* A payment in one of these was matched to a Stellar transaction.
CreditedStatuses == {"detected", "confirmed", "failed"}

\* The statuses a payment now in `current` has been in since it was created.
Reached(current, status) ==
  \/ current = status
  \/ status = "pending"
  \/ status = "detected" /\ current \in {"confirmed", "failed"}

\* Mutants of EventType: the bare status; two arms exchanged.
EventType_Bare(status) == status
EventType_Exchanged(status) ==
  [detected  |-> "payment.confirmed", confirmed |-> "payment.detected",
   failed    |-> "payment.failed",    expired   |-> "payment.expired"][status]

\* PaymentEvent::event_type.  The variant the worker builds is the one named
\* after the status it has just written; "payment.created" has no status.
EventTypes == {"payment.created", "payment.detected", "payment.confirmed",
               "payment.failed", "payment.expired"}
EventType(status) ==
  [detected  |-> "payment.detected",  confirmed |-> "payment.confirmed",
   failed    |-> "payment.failed",    expired   |-> "payment.expired"][status]
=============================================================================

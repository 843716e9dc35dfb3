--------------------------- MODULE PaymentTransitions ---------------------------
(***************************************************************************)
(* PaymentService::mark_detected, confirm_payment, fail_payment and        *)
(* expire_payment: callers that read a payment, check the move against     *)
(* what they read, and only then ask the repository to make it.  Between   *)
(* the read and the update other callers move the payment.                 *)
(***************************************************************************)
EXTENDS PaymentRepository

CONSTANTS
  Callers,    \* calls in flight, each used once
  Drafts      \* the bodies of the payments that already exist

ASSUME TransitionsAssumption == Drafts \subseteq Draft

VARIABLES
  pc,       \* c |-> where the call is
  call,     \* c |-> its arguments
  read,     \* c |-> the payment find_by_id returned, or NoPayment
  answer    \* c |-> how it ended

callVars == <<pc, call, read, answer>>
vars == <<payments, idempotency_keys, callVars>>

Targets == {"detected", "confirmed", "failed", "expired"}
Call    == [id : PaymentIds, target : Targets, hash : TxHashes \union {None}]
NoCall  == [id |-> None, target |-> "detected", hash |-> None]
Answers == {"none", "done", "not_found", "invalid_transition", "conflict", "error"}

\* The types of the tables and of what each call holds between its awaits.
TransitionsTypeOK ==
  /\ RepositoryTypeOK
  /\ pc \in [Callers -> {"idle", "find", "check", "update", "explain", "answered"}]
  /\ call \in [Callers -> Call \union {NoCall}]
  /\ read \in [Callers -> Payment \union {NoPayment}]
  /\ answer \in [Callers -> Answers]

\* Some of the payments exist, freshly created.
Init ==
  /\ payments \in [PaymentIds -> {NoPayment} \union
                                   {NewPayment(id, d, 0) : id \in PaymentIds, d \in Drafts}]
  /\ \A id \in Stored : payments[id].id = id
  /\ \A a, b \in Stored : payments[a].reference = payments[b].reference => a = b
  /\ idempotency_keys = [k \in Keys |-> None]
  /\ pc = [c \in Callers |-> "idle"]
  /\ call = [c \in Callers |-> NoCall]
  /\ read = [c \in Callers |-> NoPayment]
  /\ answer = [c \in Callers |-> "none"]

-----------------------------------------------------------------------------
End(c, how) ==
  /\ pc' = [pc EXCEPT ![c] = "answered"]
  /\ answer' = [answer EXCEPT ![c] = how]
  /\ UNCHANGED <<call, read>>

\* mark_detected carries a hash, the other three do not.
CallTransition(c) ==
  /\ pc[c] = "idle"
  /\ \E id \in PaymentIds, target \in Targets, hash \in TxHashes \union {None} :
       /\ target = "detected" <=> hash # None
       /\ call' = [call EXCEPT ![c] = [id |-> id, target |-> target, hash |-> hash]]
  /\ pc' = [pc EXCEPT ![c] = "find"]
  /\ UNCHANGED <<payments, idempotency_keys, read, answer>>

\* find_by_id
Find(c) ==
  /\ pc[c] = "find"
  /\ \/ /\ call[c].id \in Stored
        /\ read' = [read EXCEPT ![c] = payments[call[c].id]]
        /\ pc' = [pc EXCEPT ![c] = "check"]
        /\ UNCHANGED <<call, answer>>
     \/ call[c].id \notin Stored /\ End(c, "not_found")
  /\ UNCHANGED <<payments, idempotency_keys>>

\* The check in memory, on the payment as it was read.
Check(c) ==
  /\ pc[c] = "check"
  /\ \/ /\ CanTransitionTo(read[c].status, call[c].target)
        /\ pc' = [pc EXCEPT ![c] = "update"]
        /\ UNCHANGED <<call, read, answer>>
     \/ /\ ~ CanTransitionTo(read[c].status, call[c].target)
        /\ End(c, "invalid_transition")
  /\ UNCHANGED <<payments, idempotency_keys>>

Update(c) ==
  /\ pc[c] = "update"
  /\ UpdateStatus(call[c].id, call[c].target, call[c].hash)
  /\ \/ End(c, "done")
     \/ End(c, "error")    \* committed, and the reply is lost

\* Whether the WHERE clause of the UPDATE selects the row.
Selected(c) ==
  /\ call[c].id \in Stored
  /\ payments[call[c].id].status \in ValidFromStates(call[c].target)

\* It does, and the UNIQUE (stellar_tx_hash) refuses what is SET.
UpdateRefused(c) ==
  /\ pc[c] = "update"
  /\ Selected(c) /\ ~ MayUpdate(call[c].id, call[c].target, call[c].hash)
  /\ End(c, "conflict")
  /\ UNCHANGED <<payments, idempotency_keys>>

\* It does not: update_status has to ask why.
UpdateMisses(c) ==
  /\ pc[c] = "update"
  /\ ~ Selected(c)
  /\ pc' = [pc EXCEPT ![c] = "explain"]
  /\ UNCHANGED <<payments, idempotency_keys, call, read, answer>>

\* The second query, find_by_id: a row is a conflict.
Explain(c) ==
  /\ pc[c] = "explain"
  /\ End(c, IF call[c].id \in Stored THEN "conflict" ELSE "not_found")
  /\ UNCHANGED <<payments, idempotency_keys>>

DatabaseFails(c) ==
  /\ pc[c] \in {"find", "update", "explain"}
  /\ End(c, "error")
  /\ UNCHANGED <<payments, idempotency_keys>>

Next == \E c \in Callers :
  \/ CallTransition(c) \/ Find(c) \/ Check(c)
  \/ Update(c) \/ UpdateRefused(c) \/ UpdateMisses(c) \/ Explain(c)
  \/ DatabaseFails(c)

Spec == Init /\ [][Next]_vars

-----------------------------------------------------------------------------
\* Of the callers that passed the check on the same payment, one makes each
\* move: two successes are never for the same target nor for the two ways
\* out of one status.
OneWinner ==
  \A a, b \in Callers :
     (a # b /\ answer[a] = "done" /\ answer[b] = "done" /\ call[a].id = call[b].id)
       => /\ call[a].target # call[b].target
          /\ {call[a].target, call[b].target} # {"confirmed", "failed"}
          /\ "expired" \notin {call[a].target, call[b].target}

\* A success is never undone by a caller that had read an older status: the
\* payment went through the target, and a detected one has the hash given.
SuccessLasts ==
  \A c \in Callers :
     answer[c] = "done" =>
       /\ Reached(payments[call[c].id].status, call[c].target)
       /\ call[c].hash # None => payments[call[c].id].stellar_tx_hash = call[c].hash

\* A caller told of a conflict had a reason, although the reason is looked up
\* after the update: the payment has left the status it was read in, or another
\* payment has the hash.
ConflictHasACause ==
  \A c \in Callers :
     answer[c] = "conflict" =>
       \/ payments[call[c].id].status # read[c].status
       \/ \E other \in Stored \ {call[c].id} :
             call[c].hash # None /\ payments[other].stellar_tx_hash = call[c].hash

\* Whatever the callers interleave, a row only takes the moves of
\* can_transition_to, and a hash once written stays.
OnlyLegalMoves ==
  [][\A id \in Stored :
       /\ payments'[id].status # payments[id].status
            => CanTransitionTo(payments[id].status, payments'[id].status)
       /\ payments[id].stellar_tx_hash # None
            => payments'[id].stellar_tx_hash = payments[id].stellar_tx_hash]_vars
=============================================================================

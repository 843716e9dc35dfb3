--------------------------- MODULE PaymentRepository ---------------------------
(***************************************************************************)
(* The two tables behind the PaymentRepository trait (crates/payments) and *)
(* the atomic operations on them.  Backend selects the implementation:     *)
(* "postgres" is what run_server starts, with the UNIQUE and PRIMARY KEY   *)
(* constraints of migrations/0001 and 0002; "memory" is the                *)
(* InMemoryPaymentRepository behind one mutex, which checks the reference  *)
(* and nothing else.  Each operation is one step: a transaction or a       *)
(* single statement there, one critical section here.  An operation that   *)
(* would be refused has its guard (MayUpdate, CreateConflicts) false, and  *)
(* the caller's module says what the caller does then.                     *)
(*                                                                         *)
(* A row keeps the columns the properties tell apart.  The asset is always *)
(* XLM; `memo` stands for the pair (destination, memo) that correlates a   *)
(* payment; amounts are decimal values, equal when Decimal says so.        *)
(***************************************************************************)
EXTENDS Naturals, PaymentStatus, PaymentDomain

CONSTANTS
  PaymentIds,   \* Uuid::new_v4() values
  References,   \* merchant references
  Keys,         \* Idempotency-Key values
  NoPayment,    \* the absence of a row, and of a Payment in a local variable
  Backend       \* "postgres" or "memory"

Draft == [reference : References, amount : Amounts, memo : Memos]

Payment == [id : PaymentIds, reference : References, amount : Amounts,
            memo : Memos, status : PaymentStatuses,
            stellar_tx_hash : TxHashes \union {None}, created_at : Nat]

ASSUME RepositoryAssumption ==
  /\ None \notin TxHashes \union PaymentIds \union Keys
  /\ NoPayment \notin Payment
  /\ Backend \in {"postgres", "memory"}

VARIABLES
  payments,          \* id |-> row of `payments`, or NoPayment
  idempotency_keys   \* key |-> payment_id, or None

RepositoryTypeOK ==
  /\ payments \in [PaymentIds -> Payment \union {NoPayment}]
  /\ idempotency_keys \in [Keys -> PaymentIds \union {None}]

RepositoryInit ==
  /\ payments = [id \in PaymentIds |-> NoPayment]
  /\ idempotency_keys = [k \in Keys |-> None]

Stored == {id \in PaymentIds : payments[id] # NoPayment}

-----------------------------------------------------------------------------
\* Creating a payment.

\* Payment::new
NewPayment(id, draft, now) ==
  [id |-> id, reference |-> draft.reference, amount |-> draft.amount,
   memo |-> draft.memo, status |-> "pending", stellar_tx_hash |-> None,
   created_at |-> now]

\* Mutant of ReferenceTaken: the reference is not looked up.
ReferenceTaken_Never(reference) == FALSE

\* payments.reference is UNIQUE; the in-memory scan tests the same.
ReferenceTaken(reference) == \E id \in Stored : payments[id].reference = reference

\* Mutant of KeyTaken: idempotency_keys.key without its PRIMARY KEY.
KeyTaken_Never(key) == FALSE

\* idempotency_keys.key is a PRIMARY KEY; HashMap::insert overwrites instead.
KeyTaken(key) ==
  Backend = "postgres" /\ key # None /\ idempotency_keys[key] # None

\* create_with_idempotency_key, refused with RepositoryError::Conflict ...
CreateConflicts(draft, key) == ReferenceTaken(draft.reference) \/ KeyTaken(key)

\* ... and done: both rows in one transaction.
CreateWithIdempotencyKey(id, draft, key, now) ==
  /\ id \notin Stored
  /\ ~ CreateConflicts(draft, key)
  /\ payments' = [payments EXCEPT ![id] = NewPayment(id, draft, now)]
  /\ idempotency_keys' = IF key = None THEN idempotency_keys
                         ELSE [idempotency_keys EXCEPT ![key] = id]

\* find_by_idempotency_key: the payment the key's row joins, or NoPayment.
FindByIdempotencyKey(key) ==
  IF idempotency_keys[key] = None THEN NoPayment ELSE payments[idempotency_keys[key]]

-----------------------------------------------------------------------------
\* Moving a payment.

\* Mutant of HashFree: payments.stellar_tx_hash without its UNIQUE constraint.
HashFree_Unchecked(id, hash) == TRUE

\* payments.stellar_tx_hash is UNIQUE in Postgres; the map checks nothing.
HashFree(id, hash) ==
  \/ Backend = "memory" \/ hash = None
  \/ \A other \in Stored \ {id} : payments[other].stellar_tx_hash # hash

\* Whether update_status(id, next, hash) succeeds:
\* UPDATE ... WHERE id = $3 AND status = ANY(valid_from_states(next)).
MayUpdate(id, next, hash) ==
  /\ id \in Stored
  /\ payments[id].status \in ValidFromStates(next)
  /\ HashFree(id, hash)

\* Mutants of Updated: the hash is written even when none was supplied; the
\* two values are bound in the wrong order.
Updated_Overwrite(row, next, hash) ==
  [row EXCEPT !.status = next, !.stellar_tx_hash = hash]
Updated_Misbound(row, next, hash) ==
  [row EXCEPT !.status = hash, !.stellar_tx_hash = next]

\* SET status = $1, stellar_tx_hash = COALESCE($2, stellar_tx_hash)
Updated(row, next, hash) ==
  [row EXCEPT !.status = next, !.stellar_tx_hash = IF hash = None THEN @ ELSE hash]

\* update_status, done.
UpdateStatus(id, next, hash) ==
  /\ MayUpdate(id, next, hash)
  /\ payments' = [payments EXCEPT ![id] = Updated(@, next, hash)]
  /\ UNCHANGED idempotency_keys

\* Mutants of PendingForReconciliation: one of the two statuses is forgotten.
PendingForReconciliation_NoPending ==
  {payments[id] : id \in {i \in Stored : payments[i].status = "detected"}}
PendingForReconciliation_NoDetected ==
  {payments[id] : id \in {i \in Stored : payments[i].status = "pending"}}

\* list_pending_for_reconciliation: clones of the open rows.  ORDER BY
\* created_at is the reader's: it consumes the set oldest first.
PendingForReconciliation ==
  {payments[id] : id \in {i \in Stored : payments[i].status \in OpenStatuses}}
=============================================================================

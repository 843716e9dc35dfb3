--------------------------- MODULE CreateTransaction ---------------------------
(***************************************************************************)
(* PaymentCreation one level down, over Postgres: the statements of        *)
(* create_with_idempotency_key's transaction, the locks of the two unique  *)
(* indexes, the connection pool, and the amount from the body to the row.  *)
(*                                                                         *)
(* `payments` and `idempotency_keys` are what is committed; the rows of an *)
(* open transaction are its request's `call`, seen by nobody else.  An     *)
(* INSERT of a value that an open transaction has inserted waits until     *)
(* that one ends, and is refused if it committed.  A statement that fails  *)
(* drops the transaction, which rolls back.                                *)
(***************************************************************************)
EXTENDS PaymentCreation, FiniteSets, Amounts

CONSTANTS
  MaxConnections    \* max_connections of the pool, 10 in run_server

\* The amounts include those that rows are read back with.
ASSUME TransactionAssumption ==
  /\ MaxConnections \in Nat \ {0}
  /\ Amounts \subseteq Decimal
  /\ \A a \in Amounts : Normalize(a) \in Amounts

VARIABLE tx   \* r |-> how far its transaction is

txVars == <<vars, tx>>

Open == {r \in Requests : tx[r] # "none"}

\* A transaction is open only while its request is at the insert, and there
\* are never more of them than connections: none is left behind by a refusal,
\* an error or a crash.
TxTypeOK ==
  /\ CreationTypeOK
  /\ tx \in [Requests -> {"none", "begun", "row", "keyed"}]
  /\ \A r \in Open : pc[r] = "insert"
  /\ Cardinality(Open) <= MaxConnections

TxInit == Init /\ tx = [r \in Requests |-> "none"]

-----------------------------------------------------------------------------
\* pool.begin and pool.fetch_optional wait for a connection.
ConnectionFree == Cardinality(Open) < MaxConnections

\* Mutant of HoldsReference: an uncommitted row is not in the index.
HoldsReference_Never(q, reference) == FALSE

\* The indexes hold the rows of open transactions too.
HoldsReference(q, reference) ==
  tx[q] \in {"row", "keyed"} /\ call[q].draft.reference = reference
HoldsKey(q, key) == tx[q] = "keyed" /\ call[q].key = key

\* Mutant of Rollback: the transaction is left open.
Rollback_Missing(r) == UNCHANGED tx

\* Transaction::drop
Rollback(r) == tx' = [tx EXCEPT ![r] = "none"]

Advanced(r, from, to) ==
  /\ pc[r] = "insert" /\ tx[r] = from
  /\ tx' = [tx EXCEPT ![r] = to]
  /\ UNCHANGED vars

-----------------------------------------------------------------------------
\* validate_amount lets the body through, or not.
TxSubmit(r) ==
  /\ Submit(r)
  /\ Validate(call'[r].draft.amount)
  /\ UNCHANGED tx

TxReject(r) ==
  /\ \E amount \in Amounts : ~ Validate(amount)
  /\ Reject(r)
  /\ UNCHANGED tx

\* find_by_idempotency_key, on a connection of its own.
TxLookup(r) ==
  /\ ConnectionFree
  /\ Replay(r) \/ KeyUnknown(r)
  /\ UNCHANGED tx

\* pool.begin
Begin(r) == ConnectionFree /\ Advanced(r, "none", "begun")

Amount(r)    == call[r].draft.amount
Reference(r) == call[r].draft.reference

\* Mutant of InsertPayment: each statement commits by itself.
InsertPayment_Autocommit(r) ==
  /\ pc[r] = "insert" /\ tx[r] = "begun"
  /\ FitsNumeric(Amount(r)) /\ ~ ReferenceTaken(Reference(r))
  /\ tx' = [tx EXCEPT ![r] = "row"]
  /\ payments' = [payments EXCEPT ![call[r].id] = NewPayment(call[r].id, call[r].draft, 0)]
  /\ UNCHANGED <<idempotency_keys, requestVars>>

\* INSERT INTO payments
InsertPayment(r) ==
  /\ Advanced(r, "begun", "row")
  /\ FitsNumeric(Amount(r))
  /\ ~ \E q \in Requests \ {r} : HoldsReference(q, Reference(r))
  /\ ~ ReferenceTaken(Reference(r))

\* INSERT INTO idempotency_keys
InsertKey(r) ==
  /\ Advanced(r, "row", "keyed")
  /\ call[r].key # None
  /\ ~ \E q \in Requests \ {r} : HoldsKey(q, call[r].key)
  /\ ~ KeyTaken(call[r].key)

\* The row the transaction inserted.
InsertedRow(r) ==
  [NewPayment(call[r].id, call[r].draft, 0) EXCEPT !.amount = Normalize(ToNumeric(@))]

\* COMMIT checks nothing any more.  Its reply may be lost.
Commit(r) ==
  /\ pc[r] = "insert"
  /\ tx[r] = IF call[r].key = None THEN "row" ELSE "keyed"
  /\ tx' = [tx EXCEPT ![r] = "none"]
  /\ payments' = [payments EXCEPT ![call[r].id] = InsertedRow(r)]
  /\ idempotency_keys' = IF call[r].key = None THEN idempotency_keys
                         ELSE [idempotency_keys EXCEPT ![call[r].key] = call[r].id]
  /\ \/ Respond(r, "created", call[r].id)
     \/ Respond(r, "error", None)

\* 23505 from either INSERT.
Refused(r) ==
  /\ pc[r] = "insert"
  /\ \/ /\ tx[r] = "begun" /\ FitsNumeric(Amount(r))
        /\ ReferenceTaken(Reference(r))
     \/ tx[r] = "row" /\ KeyTaken(call[r].key)
  /\ Rollback(r)
  /\ Respond(r, "conflict", None)
  /\ UNCHANGED tableVars

\* 22003 from the first: RepositoryError::Database, a 500.
Overflows(r) ==
  /\ pc[r] = "insert" /\ tx[r] = "begun" /\ ~ FitsNumeric(Amount(r))
  /\ Rollback(r)
  /\ Respond(r, "error", None)
  /\ UNCHANGED tableVars

\* The database fails, or no connection came free in time.
TxFails(r) == DatabaseFails(r) /\ Rollback(r)

\* The process dies and its connections with it, or the client goes away.
TxCrash(r) == Crash(r) /\ Rollback(r)

-----------------------------------------------------------------------------
TxAdvance(r) ==
  \/ TxLookup(r) \/ Begin(r) \/ InsertPayment(r) \/ InsertKey(r)
  \/ Commit(r) \/ Refused(r) \/ Overflows(r)

TxNext == \E r \in Requests :
  \/ TxSubmit(r) \/ TxReject(r)
  \/ TxAdvance(r)
  \/ TxFails(r) \/ TxCrash(r)

TxSpec == TxInit /\ [][TxNext]_txVars

\* Every statement that need not wait returns.
FairTxSpec == TxSpec /\ \A r \in Requests : WF_txVars(TxAdvance(r))

-----------------------------------------------------------------------------
\* The transaction is as good as one atomic step: seen from outside, the
\* statements, locks and rollbacks do what PaymentCreation says, and the row
\* holds the amount of the body to the last digit.
Normal(draft) == [draft EXCEPT !.amount = Normalize(@)]
Atomically == INSTANCE PaymentCreation WITH
  Amounts <- {Normalize(a) : a \in Amounts},
  Drafts  <- {Normal(d) : d \in Drafts},
  call    <- [r \in Requests |-> IF call[r] = NoCall THEN NoCall
                                 ELSE [call[r] EXCEPT !.draft = Normal(@)]]
ImplementsCreation == Atomically!Spec

\* crates/payments/src/amount.rs:6, an amount round-trips through the ledger:
\* one of the ledger's own precision matches what the merchant asked for, and
\* matches the row made of it.
AmountRoundTrips ==
  \A r \in Requests :
     answer[r].code = "created" =>
       LET asked == Amount(r)
           paid  == [mantissa |-> (asked.mantissa * PowerOfTen[NumericScale])
                                 \div PowerOfTen[asked.scale],
                     scale |-> NumericScale]
       IN /\ SameAmount(asked, paid)
          /\ answer[r].payment = call[r].id => SameAmount(payments[call[r].id].amount, paid)

\* Requests do not wait for each other for ever, neither for the two indexes
\* nor for the pool, whoever crashed or was refused in between.
RequestEnds == \A r \in Requests : pc[r] \in {"lookup", "insert"} ~> pc[r] = "done"
=============================================================================

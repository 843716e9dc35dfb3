----------------------------- MODULE PaymentCreation -----------------------------
(***************************************************************************)
(* POST /v1/payments: concurrent and retried requests running              *)
(* PaymentService::create_payment and create_with_idempotency over the     *)
(* payments table.  A retry is a request of its own, with the body and the *)
(* Idempotency-Key of the one it repeats; it may overlap with it.          *)
(*                                                                         *)
(* One step is what lies between two awaits.  No time passes here, so      *)
(* every payment is created at 0.                                          *)
(***************************************************************************)
EXTENDS PaymentRepository

CONSTANTS
  Requests,   \* requests in flight, each used once
  Drafts      \* the bodies merchants send

ASSUME CreationAssumption == Drafts \subseteq Draft

VARIABLES
  pc,       \* r |-> where the request is
  call,     \* r |-> its body, its key, and the id Payment::new gave it
  answer,   \* r |-> the response: code, and the payment of a 201
  bound     \* r |-> history: the payment its key named when r arrived

requestVars == <<pc, call, answer, bound>>
tableVars   == <<payments, idempotency_keys>>
vars == <<tableVars, requestVars>>

Call     == [draft : Drafts, key : Keys \union {None}, id : PaymentIds]
NoCall   == [draft |-> None, key |-> None, id |-> None]
Codes    == {"none", "created", "invalid", "conflict", "error"}
Answer   == [code : Codes, payment : PaymentIds \union {None}]
NoAnswer == [code |-> "none", payment |-> None]

\* The types of the tables and of what create_payment holds.
CreationTypeOK ==
  /\ RepositoryTypeOK
  /\ pc \in [Requests -> {"idle", "lookup", "insert", "done"}]
  /\ call \in [Requests -> Call \union {NoCall}]
  /\ answer \in [Requests -> Answer]
  /\ bound \in [Requests -> PaymentIds \union {None}]

Init ==
  /\ RepositoryInit
  /\ pc = [r \in Requests |-> "idle"]
  /\ call = [r \in Requests |-> NoCall]
  /\ answer = [r \in Requests |-> NoAnswer]
  /\ bound = [r \in Requests |-> None]

-----------------------------------------------------------------------------
\* ApiError: 201, 400, 409 or 500.
Respond(r, code, id) ==
  /\ pc' = [pc EXCEPT ![r] = "done"]
  /\ answer' = [answer EXCEPT ![r] = [code |-> code, payment |-> id]]
  /\ UNCHANGED <<call, bound>>

\* The body is valid: Payment::new draws an id nobody has.
Submit(r) ==
  /\ pc[r] = "idle"
  /\ \E draft \in Drafts, key \in Keys \union {None}, id \in PaymentIds :
       /\ \A q \in Requests : call[q].id # id
       /\ call' = [call EXCEPT ![r] = [draft |-> draft, key |-> key, id |-> id]]
       /\ bound' = [bound EXCEPT ![r] = IF key = None THEN None ELSE idempotency_keys[key]]
       /\ pc' = [pc EXCEPT ![r] = IF key = None THEN "insert" ELSE "lookup"]
  /\ UNCHANGED <<tableVars, answer>>

\* validate_amount refuses the body before anything is read or written.
Reject(r) ==
  /\ pc[r] = "idle"
  /\ Respond(r, "invalid", None)
  /\ UNCHANGED tableVars

\* Mutant of Existing: the key is not looked up first.
Existing_Skipped(r) == NoPayment

\* find_by_idempotency_key
Existing(r) == FindByIdempotencyKey(call[r].key)

\* The key is known: the original payment is replayed, whatever the body says.
Replay(r) ==
  /\ pc[r] = "lookup"
  /\ Existing(r) # NoPayment
  /\ Respond(r, "created", Existing(r).id)
  /\ UNCHANGED tableVars

KeyUnknown(r) ==
  /\ pc[r] = "lookup"
  /\ Existing(r) = NoPayment
  /\ pc' = [pc EXCEPT ![r] = "insert"]
  /\ UNCHANGED <<tableVars, call, answer, bound>>

\* The transaction commits.  Its reply may still be lost on the way, which
\* the merchant sees as an error.
Insert(r) ==
  /\ pc[r] = "insert"
  /\ CreateWithIdempotencyKey(call[r].id, call[r].draft, call[r].key, 0)
  /\ \/ Respond(r, "created", call[r].id)
     \/ Respond(r, "error", None)

\* Any Conflict, of the reference or of the key, becomes DuplicateReference.
InsertRefused(r) ==
  /\ pc[r] = "insert"
  /\ CreateConflicts(call[r].draft, call[r].key)
  /\ Respond(r, "conflict", None)
  /\ UNCHANGED tableVars

\* The database fails before anything is committed.
DatabaseFails(r) ==
  /\ pc[r] \in {"lookup", "insert"}
  /\ Respond(r, "error", None)
  /\ UNCHANGED tableVars

\* The process dies: the request is never answered.
Crash(r) ==
  /\ pc[r] \in {"lookup", "insert"}
  /\ pc' = [pc EXCEPT ![r] = "done"]
  /\ UNCHANGED <<tableVars, call, answer, bound>>

Next == \E r \in Requests :
  \/ Submit(r) \/ Reject(r)
  \/ Replay(r) \/ KeyUnknown(r)
  \/ Insert(r) \/ InsertRefused(r)
  \/ DatabaseFails(r) \/ Crash(r)

Spec == Init /\ [][Next]_vars

-----------------------------------------------------------------------------
\* Concurrent requests never create two payments with one reference, nor bind
\* a key to a payment that is not there or that another key names.
TablesConsistent ==
  /\ \A a, b \in Stored : payments[a].reference = payments[b].reference => a = b
  /\ \A k \in Keys : idempotency_keys[k] # None => idempotency_keys[k] \in Stored
  /\ \A j, k \in Keys : idempotency_keys[j] = idempotency_keys[k] => j = k \/ idempotency_keys[k] = None

\* Two requests with one Idempotency-Key that are both answered 201 are
\* answered with the same payment, however they overlap.
SameKeySamePayment ==
  \A q, r \in Requests :
     (/\ answer[q].code = "created" /\ answer[r].code = "created"
      /\ call[q].key = call[r].key /\ call[r].key # None)
       => answer[q].payment = answer[r].payment

\* A retry that arrives after the original committed, even if its reply was
\* lost, replays the original: never a conflict and never another payment.
RetryReplays ==
  \A r \in Requests :
     bound[r] # None => \/ answer[r].code \in {"none", "invalid", "error"}
                        \/ answer[r].payment = bound[r]

\* A request answered 400 or 409, or answered with somebody else's payment,
\* has left nothing in the tables; one answered 201 is there to be read.
AnswerIsTheTables ==
  \A r \in Requests :
     /\ answer[r].code = "created" => answer[r].payment \in Stored
     /\ (\/ answer[r].code = "conflict"
         \/ answer[r].code = "created" /\ answer[r].payment # call[r].id)
        => call[r].id \notin Stored

\* docs/api.md:46, "a repeated request with the same key returns the original
\* payment instead of creating a new one or conflicting on `reference`".
RepeatNeverConflicts ==
  \A q, r \in Requests :
     (/\ answer[q].code = "created" /\ call[q].key # None
      /\ call[q].key = call[r].key /\ call[q].draft = call[r].draft)
       => answer[r].code # "conflict"

\* crates/core/src/errors.rs:13, "reference already exists": when a request is
\* answered DuplicateReference, a payment has that reference.
ConflictNamesAReference ==
  \A r \in Requests :
     answer[r].code = "conflict" => ReferenceTaken(call[r].draft.reference)
=============================================================================

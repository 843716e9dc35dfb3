-------------------------- MODULE PaymentCreationProofs --------------------------
(***************************************************************************)
(* Proofs about concurrent and retried create requests, for any number of  *)
(* requests, payments, references and keys.                                *)
(***************************************************************************)
EXTENDS PaymentCreation, TLAPS

\* A row is stored under its own id.
RowsKeyed == \A id \in Stored : payments[id].id = id

\* A request at work has a body; one that looks a key up has a key.
CallsKnown ==
  \A r \in Requests :
    /\ pc[r] \in {"lookup", "insert"} => call[r] \in Call
    /\ pc[r] = "lookup" => call[r].key \in Keys
    /\ answer[r].code = "created" =>
         call[r] \in Call /\ pc[r] = "done" /\ answer[r].payment # None
    /\ pc[r] = "idle" => bound[r] = None /\ answer[r].code = "none"

\* The tables of a request that was answered, or that came with a bound key,
\* still say what they said: a key is never bound again.
KeysStay ==
  \A r \in Requests :
    /\ answer[r].code = "created" /\ call[r].key # None
         => idempotency_keys[call[r].key] = answer[r].payment
    /\ bound[r] # None =>
         /\ call[r] \in Call /\ call[r].key \in Keys
         /\ idempotency_keys[call[r].key] = bound[r]
         /\ pc[r] \in {"lookup", "done"}
         /\ answer[r].code \in {"none", "invalid", "error"} \/ answer[r].payment = bound[r]

\* A stored payment is the own payment of one request, which has been answered
\* 201 with it or has lost that answer.
OwnRows ==
  /\ \A id \in Stored : \E r \in Requests : call[r] \in Call /\ call[r].id = id
  /\ \A q, r \in Requests :
       call[q] \in Call /\ call[r] \in Call /\ call[q].id = call[r].id => q = r
  /\ \A r \in Requests :
       /\ call[r] \in Call /\ call[r].id \in Stored =>
            /\ pc[r] = "done"
            /\ \/ answer[r].code = "error"
               \/ answer[r].code = "created" /\ answer[r].payment = call[r].id
       /\ answer[r].code = "created" => answer[r].payment \in Stored

TableInv == CreationTypeOK /\ RowsKeyed /\ CallsKnown /\ TablesConsistent

\* r's commit, whatever the row holds beside its id and its reference: no
\* property here looks at the other columns, so that what is proved holds of
\* CreateTransaction's commit too.
Commits(r) ==
  /\ pc[r] = "insert"
  /\ call[r].id \notin Stored
  /\ ~ CreateConflicts(call[r].draft, call[r].key)
  /\ \E row \in Payment :
       /\ row.id = call[r].id /\ row.reference = call[r].draft.reference
       /\ payments' = [payments EXCEPT ![call[r].id] = row]
  /\ idempotency_keys' = IF call[r].key = None THEN idempotency_keys
                         ELSE [idempotency_keys EXCEPT ![call[r].key] = call[r].id]
  /\ \/ Respond(r, "created", call[r].id)
     \/ Respond(r, "error", None)

LooseNext == \E r \in Requests :
  \/ Submit(r) \/ Reject(r)
  \/ Replay(r) \/ KeyUnknown(r)
  \/ Commits(r) \/ InsertRefused(r)
  \/ DatabaseFails(r) \/ Crash(r)

LooseSpec == Init /\ [][LooseNext]_vars

-----------------------------------------------------------------------------
\* A new row is well typed.
LEMMA NewPaymentType ==
  ASSUME NEW id \in PaymentIds, NEW draft \in Draft
  PROVE  /\ NewPayment(id, draft, 0) \in Payment
         /\ NewPayment(id, draft, 0).id = id
         /\ NewPayment(id, draft, 0).reference = draft.reference
BY DEF NewPayment, Draft, Payment, PaymentStatuses

\* Every step of the specification is one of these.
LEMMA NextIsLoose ==
  ASSUME TableInv, [Next]_vars
  PROVE  [LooseNext]_vars
<1>1. ASSUME NEW r \in Requests, Insert(r)
      PROVE  Commits(r)
  <2>1. call[r] \in Call
    BY <1>1 DEF TableInv, CallsKnown, Insert
  <2>2. call[r].id \in PaymentIds /\ call[r].draft \in Draft
    BY <2>1, CreationAssumption DEF Call
  <2> DEFINE row == NewPayment(call[r].id, call[r].draft, 0)
  <2>3. row \in Payment /\ row.id = call[r].id /\ row.reference = call[r].draft.reference
    BY <2>2, NewPaymentType
  <2>4. payments' = [payments EXCEPT ![call[r].id] = row]
    BY <1>1 DEF Insert, CreateWithIdempotencyKey
  <2> HIDE DEF row
  <2>5. \E row_1 \in Payment :
           /\ row_1.id = call[r].id /\ row_1.reference = call[r].draft.reference
           /\ payments' = [payments EXCEPT ![call[r].id] = row_1]
    BY <2>3, <2>4
  <2> QED BY <1>1, <2>5 DEF Insert, Commits, CreateWithIdempotencyKey
<1> QED BY <1>1 DEF Next, LooseNext

\* What a committed create request does to the tables.
LEMMA CommitEffect ==
  ASSUME TableInv, NEW r \in Requests, Commits(r)
  PROVE  \E row \in Payment :
           LET id  == call[r].id
               key == call[r].key
           IN /\ call[r] \in Call
              /\ row.id = id /\ id \in PaymentIds /\ id \notin Stored
              /\ row.reference = call[r].draft.reference
              /\ ~ ReferenceTaken(row.reference)
              /\ Backend = "postgres" => ~ KeyTaken(key)
              /\ payments' = [payments EXCEPT ![id] = row]
              /\ Stored' = Stored \union {id}
              /\ idempotency_keys' = IF key = None THEN idempotency_keys
                                     ELSE [idempotency_keys EXCEPT ![key] = id]
<1>1. call[r] \in Call /\ call[r].id \in PaymentIds
  BY DEF TableInv, CallsKnown, Commits, Call
<1>2. PICK row \in Payment :
        /\ row.id = call[r].id /\ row.reference = call[r].draft.reference
        /\ payments' = [payments EXCEPT ![call[r].id] = row]
  BY DEF Commits
<1>3. /\ call[r].id \notin Stored
      /\ ~ ReferenceTaken(call[r].draft.reference) /\ ~ KeyTaken(call[r].key)
      /\ idempotency_keys' = IF call[r].key = None THEN idempotency_keys
                             ELSE [idempotency_keys EXCEPT ![call[r].key] = call[r].id]
  BY DEF Commits, CreateConflicts
<1>4. Stored' = Stored \union {call[r].id}
  BY <1>1, <1>2, <1>3, RepositoryAssumption
     DEF Stored, TableInv, CreationTypeOK, RepositoryTypeOK
<1> QED BY <1>1, <1>2, <1>3, <1>4

\* Only a commit changes the tables.
LEMMA TableSteps ==
  ASSUME [LooseNext]_vars
  PROVE  UNCHANGED tableVars \/ \E r \in Requests : Commits(r)
BY DEF LooseNext, vars, tableVars, Submit, Reject, Replay, KeyUnknown, InsertRefused,
       DatabaseFails, Crash

\* Rows and keys stay consistent: the new payment has a free reference, and
\* an id that no key can have named before.
LEMMA NextTables ==
  ASSUME TableInv, [LooseNext]_vars
  PROVE  RowsKeyed' /\ TablesConsistent'
<1>1. CASE UNCHANGED tableVars
  BY <1>1 DEF TableInv, RowsKeyed, TablesConsistent, Stored, tableVars
<1>2. ASSUME NEW r \in Requests, Commits(r)
      PROVE  RowsKeyed' /\ TablesConsistent'
  <2>1. PICK row \in Payment :
          LET id  == call[r].id
              key == call[r].key
          IN /\ call[r] \in Call
             /\ row.id = id /\ id \in PaymentIds /\ id \notin Stored
             /\ row.reference = call[r].draft.reference
             /\ ~ ReferenceTaken(row.reference)
             /\ payments' = [payments EXCEPT ![id] = row]
             /\ Stored' = Stored \union {id}
             /\ idempotency_keys' = IF key = None THEN idempotency_keys
                                    ELSE [idempotency_keys EXCEPT ![key] = id]
    BY <1>2, CommitEffect
  <2> DEFINE id  == call[r].id
             key == call[r].key
  <2>2. /\ payments \in [PaymentIds -> Payment \union {NoPayment}]
        /\ idempotency_keys \in [Keys -> PaymentIds \union {None}]
        /\ Stored \subseteq PaymentIds
    BY DEF TableInv, CreationTypeOK, RepositoryTypeOK, Stored
  <2>3. /\ payments'[id] = row
        /\ \A other \in Stored : payments'[other] = payments[other] /\ other # id
    BY <2>1, <2>2
  <2>4. \A k \in Keys : \/ idempotency_keys'[k] = idempotency_keys[k]
                        \/ k = key /\ idempotency_keys'[k] = id
    BY <2>1, <2>2
  <2>5. \A k \in Keys : idempotency_keys[k] # id
    BY <2>1, <2>2, RepositoryAssumption DEF TableInv, TablesConsistent
  <2>6. RowsKeyed'
    BY <2>1, <2>3 DEF TableInv, RowsKeyed
  <2>7. \A a, b \in Stored' : payments'[a].reference = payments'[b].reference => a = b
    BY <2>1, <2>3 DEF TableInv, TablesConsistent, ReferenceTaken
  <2>8. \A k \in Keys : idempotency_keys'[k] # None => idempotency_keys'[k] \in Stored'
    BY <2>1, <2>4 DEF TableInv, TablesConsistent
  <2>9. \A j, k \in Keys : idempotency_keys'[j] = idempotency_keys'[k]
                             => j = k \/ idempotency_keys'[k] = None
    BY <2>4, <2>5 DEF TableInv, TablesConsistent
  <2> QED
    BY <2>6, <2>7, <2>8, <2>9 DEF TablesConsistent
<1> QED BY <1>1, <1>2, TableSteps

\* The tables keep their types.
LEMMA NextTableTypes ==
  ASSUME TableInv, [LooseNext]_vars
  PROVE  RepositoryTypeOK'
<1>1. CASE UNCHANGED tableVars
  BY <1>1 DEF TableInv, CreationTypeOK, RepositoryTypeOK, tableVars
<1>2. ASSUME NEW r \in Requests, Commits(r)
      PROVE  RepositoryTypeOK'
  BY <1>2, CommitEffect DEF TableInv, CreationTypeOK, RepositoryTypeOK, Call
<1> QED BY <1>1, <1>2, TableSteps

\* What a key names is a stored payment.
LEMMA ExistingIsStored ==
  ASSUME TableInv, NEW r \in Requests, pc[r] = "lookup"
  PROVE  LET key == call[r].key
         IN /\ call[r] \in Call /\ key \in Keys
            /\ Existing(r) = NoPayment <=> idempotency_keys[key] = None
            /\ Existing(r) # NoPayment =>
                 /\ Existing(r).id = idempotency_keys[key]
                 /\ Existing(r).id \in Stored /\ Existing(r).id \in PaymentIds
<1>1. call[r] \in Call /\ call[r].key \in Keys
  BY DEF TableInv, CallsKnown
<1>2. idempotency_keys[call[r].key] # None => idempotency_keys[call[r].key] \in Stored
  BY <1>1 DEF TableInv, TablesConsistent
<1> QED
  BY <1>1, <1>2 DEF Existing, FindByIdempotencyKey, Stored, TableInv, RowsKeyed

\* Every request keeps its types, and what CallsKnown says of it.
LEMMA NextCalls ==
  ASSUME TableInv, [LooseNext]_vars
  PROVE  CreationTypeOK' /\ CallsKnown'
<1> USE DEF TableInv, CreationTypeOK, CallsKnown
<1>0. RepositoryTypeOK'
  BY NextTableTypes
<1>1. CASE UNCHANGED vars
  BY <1>0, <1>1 DEF vars, requestVars
<1>2. ASSUME NEW r \in Requests, Submit(r)
      PROVE  CreationTypeOK' /\ CallsKnown'
  <2>1. PICK draft \in Drafts, key \in Keys \union {None}, id \in PaymentIds :
          /\ \A q \in Requests : call[q].id # id
          /\ call' = [call EXCEPT ![r] = [draft |-> draft, key |-> key, id |-> id]]
          /\ bound' = [bound EXCEPT ![r] = IF key = None THEN None ELSE idempotency_keys[key]]
          /\ pc' = [pc EXCEPT ![r] = IF key = None THEN "insert" ELSE "lookup"]
    BY <1>2, Zenon DEF Submit
  <2>2. [draft |-> draft, key |-> key, id |-> id] \in Call
    BY DEF Call
  <2>3. pc[r] = "idle" /\ answer' = answer
    BY <1>2 DEF Submit
  <2>4. (IF key = None THEN None ELSE idempotency_keys[key]) \in PaymentIds \union {None}
    BY DEF RepositoryTypeOK
  <2>5. CreationTypeOK'
    BY <1>0, <2>1, <2>2, <2>3, <2>4
  <2>6. CallsKnown'
    BY <2>1, <2>2, <2>3
  <2> QED BY <2>5, <2>6
<1>3. ASSUME NEW r \in Requests, NEW code \in Codes,
             NEW id \in PaymentIds \union {None}, Respond(r, code, id),
             code = "created" => pc[r] \in {"lookup", "insert"} /\ id # None
      PROVE  CreationTypeOK' /\ CallsKnown'
  <2>1. [code |-> code, payment |-> id] \in Answer
    BY DEF Answer
  <2> QED BY <1>0, <1>3, <2>1 DEF Respond
<1>4. ASSUME NEW r \in Requests, Reject(r) \/ InsertRefused(r) \/ DatabaseFails(r)
      PROVE  CreationTypeOK' /\ CallsKnown'
  BY <1>3, <1>4 DEF Reject, InsertRefused, DatabaseFails, Codes
<1>5. ASSUME NEW r \in Requests, Replay(r)
      PROVE  CreationTypeOK' /\ CallsKnown'
  BY <1>3, <1>5, ExistingIsStored, RepositoryAssumption DEF Replay, Codes
<1>6. ASSUME NEW r \in Requests, KeyUnknown(r) \/ Crash(r)
      PROVE  CreationTypeOK' /\ CallsKnown'
  BY <1>0, <1>6 DEF KeyUnknown, Crash
<1>7. ASSUME NEW r \in Requests, Commits(r)
      PROVE  CreationTypeOK' /\ CallsKnown'
  <2>1. pc[r] = "insert" /\ call[r] \in Call
    BY <1>7 DEF Commits
  <2> QED BY <1>3, <1>7, <2>1, RepositoryAssumption DEF Commits, Codes, Call
<1> QED BY <1>1, <1>2, <1>4, <1>5, <1>6, <1>7 DEF LooseNext

\* Empty tables and requests that have not come yet satisfy the invariant.
LEMMA InitTable == Init => TableInv /\ KeysStay
BY RepositoryAssumption
   DEF Init, RepositoryInit, TableInv, KeysStay, CreationTypeOK, RepositoryTypeOK,
       RowsKeyed, CallsKnown, TablesConsistent, Stored, NoCall, NoAnswer, Answer, Codes

\* The invariant every other proof here rests on.
LEMMA LooseTables == LooseSpec => []TableInv
<1>1. TableInv /\ [LooseNext]_vars => TableInv'
  BY NextTables, NextCalls DEF TableInv
<1> QED BY InitTable, <1>1, PTL DEF LooseSpec

\* Every behaviour of the specification is one of the loose one.
LEMMA SpecIsLoose == Spec => LooseSpec
<1>1. TableInv /\ [Next]_vars => TableInv' /\ [LooseNext]_vars
  BY NextIsLoose, NextTables, NextCalls DEF TableInv
<1> QED BY InitTable, <1>1, PTL DEF Spec, LooseSpec

\* The requests and the tables keep their types.
THEOREM CreationTypeCorrect == Spec => []CreationTypeOK
<1>1. TableInv => CreationTypeOK
  BY DEF TableInv
<1> QED BY SpecIsLoose, LooseTables, <1>1, PTL

\* However many create requests overlap, no two payments share a reference and
\* no key names a payment that is missing or that another key names: with
\* either implementation of the repository.
THEOREM CreationKeepsTablesConsistent == Spec => []TablesConsistent
<1>1. TableInv => TablesConsistent
  BY DEF TableInv
<1> QED BY SpecIsLoose, LooseTables, <1>1, PTL

-----------------------------------------------------------------------------
\* With the PRIMARY KEY a key, once bound, is never bound again.
LEMMA BoundKeysStay ==
  ASSUME TableInv, [LooseNext]_vars, Backend = "postgres",
         NEW k \in Keys, idempotency_keys[k] # None
  PROVE  idempotency_keys'[k] = idempotency_keys[k]
<1>1. CASE UNCHANGED tableVars
  BY <1>1 DEF tableVars
<1>2. ASSUME NEW r \in Requests, Commits(r)
      PROVE  idempotency_keys'[k] = idempotency_keys[k]
  BY <1>2, CommitEffect DEF KeyTaken, TableInv, CreationTypeOK, RepositoryTypeOK
<1> QED BY <1>1, <1>2, TableSteps

\* A key that a request found bound, or bound itself, is its payment's for good.
LEMMA NextKeys ==
  ASSUME TableInv, KeysStay, [LooseNext]_vars, Backend = "postgres"
  PROVE  KeysStay'
<1> DEFINE Bound(q) == /\ call[q] \in Call /\ call[q].key \in Keys
                       /\ idempotency_keys[call[q].key] = bound[q]
                       /\ pc[q] \in {"lookup", "done"}
                       /\ \/ answer[q].code \in {"none", "invalid", "error"}
                          \/ answer[q].payment = bound[q]
           Kept(q) == /\ answer[q].code = "created" /\ call[q].key # None
                           => idempotency_keys[call[q].key] = answer[q].payment
                      /\ bound[q] # None => Bound(q)
<1>1. \A q \in Requests : Kept(q)
  BY DEF KeysStay
<1> SUFFICES ASSUME NEW q \in Requests
             PROVE  Kept(q)'
  BY DEF KeysStay
<1>2. /\ call[q] \in Call \union {NoCall} /\ answer[q] \in Answer
      /\ bound[q] \in PaymentIds \union {None}
      /\ idempotency_keys \in [Keys -> PaymentIds \union {None}]
      /\ call \in [Requests -> Call \union {NoCall}] /\ answer \in [Requests -> Answer]
      /\ bound \in [Requests -> PaymentIds \union {None}]
      /\ pc \in [Requests -> {"idle", "lookup", "insert", "done"}]
  BY DEF TableInv, CreationTypeOK, RepositoryTypeOK
<1>3. ASSUME pc'[q] = pc[q] \/ (pc'[q] = "done" /\ pc[q] \in {"lookup", "insert"}),
             call'[q] = call[q], answer'[q] = answer[q], bound'[q] = bound[q]
      PROVE  Kept(q)'
  <2>1. answer[q].code = "created" => call[q] \in Call
    BY DEF TableInv, CallsKnown
  <2>2. call[q] \in Call /\ call[q].key # None /\ idempotency_keys[call[q].key] # None
          => idempotency_keys'[call[q].key] = idempotency_keys[call[q].key]
    BY BoundKeysStay DEF Call
  <2>3. answer[q].code = "created" => answer[q].payment # None
    BY DEF TableInv, CallsKnown
  <2>4. ASSUME answer[q].code = "created", call[q].key # None
        PROVE  idempotency_keys'[call[q].key] = answer[q].payment
    BY <1>1, <2>1, <2>2, <2>3, <2>4
  <2>5. ASSUME bound[q] # None
        PROVE  Bound(q)'
    <3>1. Bound(q) /\ call[q].key # None
      BY <1>1, <2>5, RepositoryAssumption DEF Call
    <3>2. idempotency_keys'[call[q].key] = bound[q]
      BY <2>2, <2>5, <3>1
    <3> QED BY <1>3, <3>1, <3>2
  <2> QED BY <1>3, <2>4, <2>5
<1>4. CASE UNCHANGED vars
  BY <1>3, <1>4 DEF vars, requestVars
<1>5. ASSUME NEW r \in Requests, r # q,
             Submit(r) \/ Reject(r) \/ Replay(r) \/ KeyUnknown(r) \/ Commits(r)
               \/ InsertRefused(r) \/ DatabaseFails(r) \/ Crash(r)
      PROVE  Kept(q)'
  <2>1. pc'[q] = pc[q] /\ call'[q] = call[q] /\ answer'[q] = answer[q] /\ bound'[q] = bound[q]
    BY <1>2, <1>5 DEF Submit, Reject, Replay, KeyUnknown, Commits, InsertRefused,
         DatabaseFails, Crash, Respond
  <2> QED BY <1>3, <2>1
<1>6. ASSUME Submit(q) PROVE Kept(q)'
  <2>1. PICK draft \in Drafts, key \in Keys \union {None}, id \in PaymentIds :
          /\ \A other \in Requests : call[other].id # id
          /\ call' = [call EXCEPT ![q] = [draft |-> draft, key |-> key, id |-> id]]
          /\ bound' = [bound EXCEPT ![q] = IF key = None THEN None ELSE idempotency_keys[key]]
          /\ pc' = [pc EXCEPT ![q] = IF key = None THEN "insert" ELSE "lookup"]
    BY <1>6, Zenon DEF Submit
  <2>2. UNCHANGED <<answer, idempotency_keys>> /\ answer[q].code = "none"
    BY <1>6 DEF Submit, tableVars, TableInv, CallsKnown
  <2>3. call'[q] \in Call /\ call'[q].key = key
    BY <1>2, <2>1 DEF Call
  <2>4. bound'[q] = IF key = None THEN None ELSE idempotency_keys[key]
    BY <1>2, <2>1
  <2>5. pc'[q] = IF key = None THEN "insert" ELSE "lookup"
    BY <1>2, <2>1
  <2> QED BY <2>2, <2>3, <2>4, <2>5
<1>7. ASSUME Reject(q) PROVE Kept(q)'
  <2>1. bound[q] = None
    BY <1>7 DEF Reject, TableInv, CallsKnown
  <2> QED BY <1>2, <1>7, <2>1 DEF Reject, Respond
<1>8. ASSUME Replay(q) PROVE Kept(q)'
  <2>1. /\ pc[q] = "lookup" /\ Existing(q) # NoPayment
        /\ answer' = [answer EXCEPT ![q] = [code |-> "created", payment |-> Existing(q).id]]
        /\ pc' = [pc EXCEPT ![q] = "done"]
        /\ UNCHANGED <<call, bound, idempotency_keys>>
    BY <1>8 DEF Replay, Respond, tableVars
  <2>2. Existing(q).id = idempotency_keys[call[q].key] /\ call[q] \in Call /\ call[q].key \in Keys
    BY <2>1, ExistingIsStored
  <2>3. answer'[q].code = "created" /\ answer'[q].payment = idempotency_keys'[call'[q].key]
    BY <1>2, <2>1, <2>2
  <2> QED BY <1>1, <1>2, <2>1, <2>2, <2>3
<1>9. ASSUME KeyUnknown(q) PROVE Kept(q)'
  <2>1. pc[q] = "lookup" /\ Existing(q) = NoPayment
    BY <1>9 DEF KeyUnknown
  <2>2. idempotency_keys[call[q].key] = None
    BY <2>1, ExistingIsStored
  <2>3. bound[q] = None
    BY <1>1, <2>2
  <2>4. answer[q].code # "created"
    BY <2>1 DEF TableInv, CallsKnown
  <2> QED BY <1>2, <1>9, <2>3, <2>4 DEF KeyUnknown
<1>10. ASSUME Commits(q) PROVE Kept(q)'
  <2>1. pc[q] = "insert" /\ bound' = bound /\ bound[q] = None
    BY <1>1, <1>10 DEF Commits, Respond
  <2>2. \/ answer' = [answer EXCEPT ![q] = [code |-> "created", payment |-> call[q].id]]
        \/ answer' = [answer EXCEPT ![q] = [code |-> "error", payment |-> None]]
    BY <1>10 DEF Commits, Respond
  <2>3. call' = call
    BY <1>10 DEF Commits, Respond
  <2>4. call[q].key # None => idempotency_keys'[call[q].key] = call[q].id
    BY <1>2, <1>10, CommitEffect DEF Call
  <2> QED BY <1>2, <2>1, <2>2, <2>3, <2>4
<1>11. ASSUME InsertRefused(q) PROVE Kept(q)'
  <2>1. bound[q] = None
    BY <1>1, <1>11 DEF InsertRefused
  <2> QED BY <1>2, <1>11, <2>1 DEF InsertRefused, Respond
<1>12. ASSUME DatabaseFails(q) PROVE Kept(q)'
  <2>1. bound[q] # None => Bound(q)
    BY <1>1
  <2> QED BY <1>2, <1>12, <2>1 DEF DatabaseFails, Respond, tableVars
<1>13. ASSUME Crash(q) PROVE Kept(q)'
  <2>1. /\ pc[q] \in {"lookup", "insert"} /\ pc'[q] = "done"
        /\ UNCHANGED <<call, answer, bound>>
    BY <1>2, <1>13 DEF Crash
  <2> QED BY <1>3, <2>1
<1> QED BY <1>4, <1>5, <1>6, <1>7, <1>8, <1>9, <1>10, <1>11, <1>12, <1>13 DEF LooseNext

\* So the bindings of a behaviour that starts empty stay, over Postgres.
LEMMA LooseKeys ==
  ASSUME Backend = "postgres"
  PROVE  LooseSpec => [](SameKeySamePayment /\ RetryReplays)
<1>1. TableInv /\ KeysStay /\ [LooseNext]_vars => KeysStay'
  BY NextKeys
<1>2. KeysStay => SameKeySamePayment /\ RetryReplays
  BY DEF KeysStay, SameKeySamePayment, RetryReplays
<1> QED BY InitTable, LooseTables, <1>1, <1>2, PTL DEF LooseSpec

\* Over Postgres, requests with one Idempotency-Key that are answered 201 are
\* all answered with one payment, whatever their bodies and their overlap.
THEOREM OneKeyOnePayment ==
  ASSUME Backend = "postgres"
  PROVE  Spec => []SameKeySamePayment
BY SpecIsLoose, LooseKeys, PTL

\* Over Postgres, a retry that comes after its original was committed is
\* answered with the original, or not at all.
THEOREM RetriesReplay ==
  ASSUME Backend = "postgres"
  PROVE  Spec => []RetryReplays
BY SpecIsLoose, LooseKeys, PTL

-----------------------------------------------------------------------------
\* OwnRows survives an answer that commits nothing.
LEMMA RefusedOwnRows ==
  ASSUME TableInv, OwnRows, NEW r \in Requests, UNCHANGED tableVars,
         pc[r] # "done", NEW code \in Codes, NEW id \in PaymentIds \union {None},
         Respond(r, code, id), code = "created" => id \in Stored
  PROVE  OwnRows'
<1>1. /\ Stored' = Stored /\ call' = call
      /\ pc \in [Requests -> {"idle", "lookup", "insert", "done"}]
      /\ answer \in [Requests -> Answer]
      /\ pc' = [pc EXCEPT ![r] = "done"]
      /\ answer' = [answer EXCEPT ![r] = [code |-> code, payment |-> id]]
  BY DEF Respond, Stored, tableVars, TableInv, CreationTypeOK
<1> QED BY <1>1 DEF OwnRows

\* Every step keeps each stored payment the own payment of one request.
LEMMA NextOwnRows ==
  ASSUME TableInv, OwnRows, [LooseNext]_vars
  PROVE  OwnRows'
<1>0. /\ pc \in [Requests -> {"idle", "lookup", "insert", "done"}]
      /\ call \in [Requests -> Call \union {NoCall}]
      /\ answer \in [Requests -> Answer]
      /\ Stored \subseteq PaymentIds
  BY DEF TableInv, CreationTypeOK, Stored
<1>1. CASE UNCHANGED vars
  BY <1>1 DEF OwnRows, Stored, vars, tableVars, requestVars
<1>2. ASSUME NEW r \in Requests, Submit(r) PROVE OwnRows'
  <2>1. PICK draft \in Drafts, key \in Keys \union {None}, id \in PaymentIds :
          /\ \A q \in Requests : call[q].id # id
          /\ call' = [call EXCEPT ![r] = [draft |-> draft, key |-> key, id |-> id]]
          /\ bound' = [bound EXCEPT ![r] = IF key = None THEN None ELSE idempotency_keys[key]]
          /\ pc' = [pc EXCEPT ![r] = IF key = None THEN "insert" ELSE "lookup"]
    BY <1>2, Zenon DEF Submit
  <2>2. pc[r] = "idle" /\ answer' = answer /\ Stored' = Stored
    BY <1>2 DEF Submit, tableVars, Stored
  <2>3. id \notin Stored /\ ~ (call[r] \in Call /\ call[r].id \in Stored)
    BY <2>1, <2>2 DEF OwnRows
  <2>4. /\ call'[r] \in Call /\ call'[r].id = id
        /\ \A q \in Requests \ {r} : call'[q] = call[q] /\ pc'[q] = pc[q]
    BY <1>0, <2>1 DEF Call
  <2> QED BY <2>1, <2>2, <2>3, <2>4 DEF OwnRows
<1>3. ASSUME NEW r \in Requests, Reject(r) \/ InsertRefused(r) \/ DatabaseFails(r)
      PROVE  OwnRows'
  BY <1>3, RefusedOwnRows DEF Reject, InsertRefused, DatabaseFails, Codes
<1>4. ASSUME NEW r \in Requests, Replay(r) PROVE OwnRows'
  BY <1>4, RefusedOwnRows, ExistingIsStored DEF Replay, Codes
<1>5. ASSUME NEW r \in Requests, KeyUnknown(r) \/ Crash(r) PROVE OwnRows'
  <2>1. /\ Stored' = Stored /\ UNCHANGED <<call, answer>>
        /\ pc[r] # "done" /\ \A q \in Requests \ {r} : pc'[q] = pc[q]
    BY <1>0, <1>5 DEF KeyUnknown, Crash, tableVars, Stored
  <2> QED BY <2>1 DEF OwnRows
<1>6. ASSUME NEW r \in Requests, Commits(r) PROVE OwnRows'
  <2>1. /\ call[r] \in Call /\ call[r].id \in PaymentIds
        /\ Stored' = Stored \union {call[r].id}
    BY <1>6, CommitEffect
  <2>2. /\ call' = call /\ pc' = [pc EXCEPT ![r] = "done"]
        /\ \/ answer' = [answer EXCEPT ![r] = [code |-> "created", payment |-> call[r].id]]
           \/ answer' = [answer EXCEPT ![r] = [code |-> "error", payment |-> None]]
    BY <1>6 DEF Commits, Respond
  <2>3. \A q \in Requests \ {r} : answer'[q] = answer[q] /\ pc'[q] = pc[q]
    BY <1>0, <2>2
  <2>4. /\ pc'[r] = "done"
        /\ \/ answer'[r].code = "error"
           \/ answer'[r].code = "created" /\ answer'[r].payment = call[r].id
    BY <1>0, <2>2
  <2> QED BY <2>1, <2>2, <2>3, <2>4 DEF OwnRows
<1> QED BY <1>1, <1>2, <1>3, <1>4, <1>5, <1>6 DEF LooseNext

\* So answers and tables agree in every behaviour that starts empty.
LEMMA LooseOwnRows == LooseSpec => [](OwnRows /\ AnswerIsTheTables)
<1>1. Init => OwnRows
  BY RepositoryAssumption DEF Init, RepositoryInit, OwnRows, Stored, NoCall, NoAnswer, Call
<1>2. TableInv /\ OwnRows /\ [LooseNext]_vars => OwnRows'
  BY NextOwnRows
<1>3. TableInv /\ OwnRows => AnswerIsTheTables
  <2> SUFFICES ASSUME TableInv, OwnRows, NEW r \in Requests
               PROVE  /\ answer[r].code = "created" => answer[r].payment \in Stored
                      /\ (\/ answer[r].code = "conflict"
                          \/ answer[r].code = "created" /\ answer[r].payment # call[r].id)
                         => call[r].id \notin Stored
    BY DEF AnswerIsTheTables
  <2>1. call[r] \in Call \/ call[r].id = None
    BY DEF TableInv, CreationTypeOK, NoCall
  <2>2. None \notin Stored
    BY RepositoryAssumption DEF Stored
  <2> QED BY <2>1, <2>2 DEF OwnRows
<1> QED BY LooseTables, <1>1, <1>2, <1>3, PTL DEF LooseSpec

\* A request answered 409, or 201 with another request's payment, has left no
\* row behind, and every payment answered with 201 can be read: with either
\* implementation of the repository.
THEOREM AnswersMatchTables == Spec => []AnswerIsTheTables
BY SpecIsLoose, LooseOwnRows, PTL
=============================================================================

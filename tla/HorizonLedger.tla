----------------------------- MODULE HorizonLedger -----------------------------
(***************************************************************************)
(* The Stellar ledger as the HorizonClient sees it: an append-only feed of *)
(* payments to the shared account, newest last here.  The ledger itself is *)
(* outside the repository; find_payment and get_transaction are what       *)
(* crates/stellar computes from it.  One record stands for one transaction *)
(* with one native payment operation.                                      *)
(*                                                                         *)
(* find_payment is one GET of the newest page followed by one GET per      *)
(* candidate.  The ledger never changes a record, so when every GET is     *)
(* answered with what it asked for, the answer is fixed by the page: it is *)
(* one step here, and the time between the answer and its use is the       *)
(* caller's.  The answers that error documents lead to are other choices   *)
(* from the same Matches, made by the caller's actions.                    *)
(***************************************************************************)
EXTENDS Integers, Sequences, PaymentDomain

CONSTANT
  PageLimit     \* the "limit" of the payments query, 50 in the code

ASSUME LedgerAssumption == PageLimit \in Nat \ {0}

VARIABLE ledger

LedgerRecord == [transaction_hash : TxHashes, memo : Memos, amount : Amounts,
                 successful : BOOLEAN, created_at : Nat]

LedgerTypeOK == ledger \in Seq(LedgerRecord)
LedgerInit   == ledger = <<>>

\* A payer's transaction reaches the ledger.
SubmitPayment(hash, memo, amount, successful, now) ==
  /\ \A i \in DOMAIN ledger : ledger[i].transaction_hash # hash
  /\ ledger' = Append(ledger, [transaction_hash |-> hash, memo |-> memo,
                               amount |-> amount, successful |-> successful,
                               created_at |-> now])

\* Mutant of Matches: records older than the payment are accepted.
Matches_AnyAge(memo, since) ==
  {i \in DOMAIN ledger : i > Len(ledger) - PageLimit /\ ledger[i].memo = memo}

\* The records of the page that the loop of find_payment would return:
\* not older than `since`, and carrying the memo.
Matches(memo, since) ==
  {i \in DOMAIN ledger : /\ i > Len(ledger) - PageLimit
                         /\ ledger[i].created_at >= since
                         /\ ledger[i].memo = memo}

\* find_payment's answer, Some(ledger[i]): the newest match, since the page
\* is in descending order and the loop returns at the first whose memo it
\* could read.
IsFound(i, memo, since) ==
  i \in Matches(memo, since) /\ \A j \in Matches(memo, since) : j <= i

\* get_transaction(hash).successful
Successful(hash) ==
  \E i \in DOMAIN ledger : ledger[i].transaction_hash = hash /\ ledger[i].successful
=============================================================================

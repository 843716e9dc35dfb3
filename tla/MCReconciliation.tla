--------------------------- MODULE MCReconciliation ---------------------------
EXTENDS ReconciliationProperties, TLC

CONSTANTS m1, a1

\* Two payments that share a memo and an amount: the second may be credited
\* with the first one's transaction.
SharedMemoDrafts == { [reference |-> r, amount |-> a1, memo |-> m1] : r \in References }

Symmetric == Permutations(PaymentIds) \union Permutations(TxHashes)
             \union Permutations(Workers) \union Permutations(References)

\* For the runs with liveness, where symmetry is not used: payments, their
\* references and hashes are numbers and come in order; the behaviours left
\* out are those kept with the names exchanged.
NamesInOrder ==
  /\ \A id \in Stored : /\ payments[id].reference = id
                        /\ \A other \in PaymentIds : other < id => other \in Stored
  /\ \A i \in DOMAIN ledger : ledger[i].transaction_hash = i
=============================================================================

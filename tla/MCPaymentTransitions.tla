------------------------- MODULE MCPaymentTransitions -------------------------
EXTENDS PaymentTransitions, TLC

CONSTANTS r1, r2, a1, m1

\* Two bodies that differ in their reference and nothing else.
TwoReferences == { [reference |-> r, amount |-> a1, memo |-> m1] : r \in {r1, r2} }

Symmetric == Permutations(PaymentIds) \union Permutations(Callers) \union Permutations(TxHashes)
=============================================================================

---------------------------- MODULE MCPaymentListing ----------------------------
EXTENDS PaymentListing, TLC

CONSTANTS m1, a1

OneDraftEach == {[reference |-> r, amount |-> a1, memo |-> m1] : r \in References}

\* Walks from the first page, by one or two payments at a time, and a page
\* whose offset does not fit.
SomeQueries ==
  { [page |-> p, per_page |-> n, status |-> s] :
      <<p, n>> \in {<<0, 0>>, <<1, 7>>, <<5, 2>>}, s \in {None, "pending", "expired"} }

Symmetric == Permutations(PaymentIds) \union Permutations(References)
=============================================================================

-------------------------- MODULE MCCreateTransaction --------------------------
EXTENDS CreateTransaction, TLC

CONSTANTS r1, r2, m1

\* 10.0, and what NUMERIC(3, 1) cannot hold: 100 is too large, 1.05 too fine.
TenPointNought == [mantissa |-> 100, scale |-> 1]
TooLarge       == [mantissa |-> 100, scale |-> 0]
TooFine        == [mantissa |-> 105, scale |-> 2]

\* As they are asked for, and as they are read back.
SomeAmounts == {TenPointNought, Normalize(TenPointNought), TooLarge, TooFine}

\* Two references; one of them also with amounts that are refused.
Bodies == { [reference |-> r1, amount |-> TenPointNought, memo |-> m1],
            [reference |-> r2, amount |-> TenPointNought, memo |-> m1],
            [reference |-> r1, amount |-> TooLarge, memo |-> m1],
            [reference |-> r1, amount |-> TooFine, memo |-> m1] }

\* Request 1 comes first, and the n-th draws the n-th id: the other orders and
\* draws are the same behaviours with the names exchanged.
NamesInOrder ==
  /\ \A r \in Requests : call[r] # NoCall => call[r].id = r
  /\ \A q, r \in Requests : q < r /\ pc[q] = "idle" => pc[r] = "idle"
=============================================================================

------------------------------ MODULE MCStellarPay ------------------------------
EXTENDS StellarPay

CONSTANTS r1, m1, a1

OneDraft  == {[reference |-> r1, amount |-> a1, memo |-> m1]}
OneRetry  == <<1>>
=============================================================================

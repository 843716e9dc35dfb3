---------------------------- MODULE MCHorizonClient ----------------------------
EXTENDS HorizonClient, TLC

CONSTANTS t1, t2, t3, m1, m2

\* What the Horizon feed of an account holds besides the payments the client
\* is after.
FeedKinds ==
  { [type |-> "payment", to |-> Account, asset_type |-> "native"],
    [type |-> "payment", to |-> Account, asset_type |-> "credit_alphanum4"],
    [type |-> "payment", to |-> "elsewhere", asset_type |-> "native"],
    [type |-> "path_payment_strict_send", to |-> Account, asset_type |-> "native"] }

SomeMemos == t1 :> m1 @@ t2 :> m2 @@ t3 :> None
=============================================================================

--------------------------- MODULE MCWebhookDelivery ---------------------------
EXTENDS WebhookDelivery, TLC

\* Events are numbers and are enqueued in order: with liveness there is no
\* symmetry set, and the other orders only exchange names.
NamesInOrder ==
  \A e, f \in EventIds :
     e < f /\ events[f].status # "absent" => events[e].status # "absent"
=============================================================================

SPECIFICATION Spec
CONSTANTS
  PaymentIds = {p1, p2}
  References = {r1, r2}
  m1 = m1
  a1 = a1
  Memos = {m1}
  Amounts = {a1, a2}
  TxHashes = {t1}
  Keys = {}
  None = None
  NoPayment = NoPayment
  Backend = "postgres"
  PageLimit = 2
  Workers = {w1}
  Drafts <- SharedMemoDrafts
  ExpiryWindow = 1
  MaxTime = 1
SYMMETRY Symmetric
INVARIANT
  EachTransitionEnqueued

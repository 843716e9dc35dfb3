SPECIFICATION Spec
CONSTANTS
  PaymentIds = {p1, p2, p3}
  References = {r1, r2}
  r1 = r1
  r2 = r2
  a1 = a1
  m1 = m1
  Memos = {m1}
  Amounts = {a1}
  TxHashes = {}
  Keys = {k1, k2}
  None = None
  NoPayment = NoPayment
  Backend = "postgres"
  Requests = {q1, q2, q3}
  Drafts <- TwoReferences
SYMMETRY Symmetric
CHECK_DEADLOCK FALSE
INVARIANTS
  ConflictNamesAReference

SPECIFICATION Spec
CONSTANTS
  PaymentIds = {p1, p2}
  References = {r1, r2}
  r1 = r1
  r2 = r2
  a1 = a1
  m1 = m1
  Memos = {m1}
  Amounts = {a1}
  TxHashes = {t1, t2}
  Keys = {}
  None = None
  NoPayment = NoPayment
  Backend = "postgres"
  Callers = {c1, c2, c3}
  Drafts <- TwoReferences
SYMMETRY Symmetric
CHECK_DEADLOCK FALSE
INVARIANTS
  TransitionsTypeOK
  OneWinner
  SuccessLasts
  ConflictHasACause
PROPERTY
  OnlyLegalMoves

SPECIFICATION FairSpec
CONSTANTS
  PaymentIds = {1, 2}
  References = {1, 2}
  m1 = m1
  a1 = a1
  Memos = {m1, m2}
  Amounts = {a1, a2}
  TxHashes = {1, 2}
  Keys = {}
  None = None
  NoPayment = NoPayment
  Backend = "postgres"
  PageLimit = 1
  Workers = {w1}
  Drafts <- SharedMemoDrafts
  ExpiryWindow = 1
  MaxTime = 2
CONSTRAINT NamesInOrder
INVARIANTS
  CreditBacked
  ExpiredOnlyWhenStale
  AnnouncedInOrder
PROPERTIES
  PendingEnds
  DetectedIsSettled

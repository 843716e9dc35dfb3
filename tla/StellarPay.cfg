SPECIFICATION SystemSpec
CONSTANTS
  PaymentIds = {p1}
  References = {r1}
  r1 = r1
  m1 = m1
  a1 = a1
  Memos = {m1}
  Amounts = {a1, a2}
  TxHashes = {t1}
  Keys = {}
  None = None
  NoPayment = NoPayment
  Backend = "postgres"
  PageLimit = 2
  Workers = {w1}
  Drafts <- OneDraft
  ExpiryWindow = 1
  MaxTime = 2
  MaxEvents = 2
  Deliverers = {d1}
  FetchBatchSize = 1
  BackoffSchedule <- OneRetry
INVARIANTS
  HeardIsTrue
  EventsAccounted
PROPERTY
  PaymentEnds

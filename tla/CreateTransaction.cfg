SPECIFICATION FairTxSpec
CONSTANTS
  PaymentIds = {1, 2, 3}
  References = {r1, r2}
  r1 = r1
  r2 = r2
  m1 = m1
  Memos = {m1}
  Amounts <- SomeAmounts
  TxHashes = {}
  Keys = {k1}
  None = None
  NoPayment = NoPayment
  Backend = "postgres"
  Requests = {1, 2, 3}
  Drafts <- Bodies
  MaxConnections = 2
  MaxScale = 1
  NumericPrecision = 3
  NumericScale = 1
CONSTRAINT NamesInOrder
CHECK_DEADLOCK FALSE
INVARIANTS
  TxTypeOK
  TablesConsistent
  SameKeySamePayment
  RetryReplays
  AnswerIsTheTables
  AmountRoundTrips
PROPERTIES
  ImplementsCreation
  RequestEnds

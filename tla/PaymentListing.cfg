SPECIFICATION Spec
CONSTANTS
  PaymentIds = {p1, p2, p3}
  References = {r1, r2, r3}
  m1 = m1
  a1 = a1
  Memos = {m1}
  Amounts = {a1}
  TxHashes = {}
  Keys = {}
  None = None
  NoPayment = NoPayment
  Backend = "postgres"
  Drafts <- OneDraftEach
  MaxPerPage = 2
  U32 = 8
  Queries <- SomeQueries
  Moves = {"expired"}
  MaxLag = 1
  MaxTime = 3
SYMMETRY Symmetric
CHECK_DEADLOCK FALSE
INVARIANTS
  ListingTypeOK
  WalkMissesNothing
  TotalCoversPage

SPECIFICATION Spec
CONSTANTS
  t1 = t1
  t2 = t2
  t3 = t3
  m1 = m1
  m2 = m2
  Memos = {m1, m2}
  Amounts = {}
  TxHashes = {t1, t2, t3}
  None = None
  PageLimit = 2
  Kinds <- FeedKinds
  Account = "account"
  MemoOf <- SomeMemos
  MaxFeed = 3
  MaxTime = 1
CHECK_DEADLOCK FALSE
INVARIANT
  FoundIsNative

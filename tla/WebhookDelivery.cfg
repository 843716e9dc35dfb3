SPECIFICATION FairSpec
CONSTANTS
  EventIds = {1, 2}
  Deliverers = {d1}
  FetchBatchSize = 1
  BackoffSchedule <- BACKOFF_SCHEDULE
  None = None
CONSTRAINT NamesInOrder
INVARIANTS
  DeliveryTypeOK
  DeliveredWasReceived
  FailedAfterAllTries
  PostsAreDue
PROPERTIES
  FinalIsFinal
  ImplementsOutbox
  EventEnds

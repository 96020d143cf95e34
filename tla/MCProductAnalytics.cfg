SPECIFICATION FairSpec
CONSTANTS
  Batches <- MCBatches
  Events <- MCEvents
  EventsOf <- MCEventsOf
  Free = Free
  QueueCapacity = 1
  BatchSize = 2
  MaxRetries = 1
CHECK_DEADLOCK FALSE
INVARIANTS
  NothingLost
  NeverSentAgain
PROPERTIES
  ClosingEnds
  AcceptedIsSettled

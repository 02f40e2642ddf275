SPECIFICATION FairSpec
CONSTANTS
  t1 = t1
  t2 = t2
  w1 = w1
  w2 = w2
  Transactions <- TwoTransactions
  Raced <- OneTransaction
  Publishers <- TwoPublishers
  MaxAttempts = 2
  Batch = 3
  MaxCrashes = 1
INVARIANTS OutboxInv DuplicatesExplained PaymentBeforeSubscriber
PROPERTIES EveryEventSettles
CHECK_DEADLOCK FALSE

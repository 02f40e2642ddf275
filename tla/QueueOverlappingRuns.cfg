SPECIFICATION FairSpec
CONSTANTS
  c1 = c1
  c2 = c2
  r1 = r1
  r2 = r2
  Commands <- OneCommand
  Runs <- TwoRuns
  Priorities = {2}
  MaxRetries = 2
  MaxPerPoll = 1
  Expiry = 2
  Stale = 0
  MaxTime = 4
INVARIANTS SuccessMeansExecuted
PROPERTIES OnlySharedIsRevised EventuallySettled

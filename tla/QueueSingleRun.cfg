SPECIFICATION Spec
CONSTANTS
  c1 = c1
  c2 = c2
  r1 = r1
  r2 = r2
  Commands <- TwoCommands
  Runs <- OneRun
  Priorities = {2, 3}
  MaxRetries = 2
  MaxPerPoll = 2
  Expiry = 3
  Stale = 1
  MaxTime = 5
SYMMETRY QueueSymmetry
INVARIANTS RetryBudget
PROPERTIES ResultIsFinal DeliversAsPromised

SPECIFICATION SyncSpec
CONSTANTS
  c1 = c1
  c2 = c2
  c3 = c3
  r1 = r1
  s1 = s1
  h1 = h1
  h2 = h2
  Commands <- TwoCommands
  Runs <- OneRun
  Priorities = {2, 3}
  MaxRetries = 1
  MaxPerPoll = 1
  Expiry = 1
  Stale = 0
  MaxTime = 3
  Subscriptions <- OneSub
  Handlers <- TwoHandlers
  Agents = {TRUE, FALSE}
  Period = 1
  Prune = 0
  Purge = 0
  Operations <- SyncOperations
  MaxOps = 3
SYMMETRY SyncSymmetry
INVARIANTS SyncInv LatestCommandDecides

SPECIFICATION FairSpec
CONSTANTS
  s1 = s1
  s2 = s2
  j1 = j1
  j2 = j2
  Sessions <- TwoSessions
  Jobs <- TwoJobs
  Commands = {1, 2}
  Critical = {1}
  Reversible = {2}
  Verified = {1}
  MaxRetries = 1
  MaxOps = 2
  MaxEvents = 1
INVARIANTS SessionInv RollbackInv CompletedIsConfigured
PROPERTIES EndedIsFinal ProgressEnds
CHECK_DEADLOCK FALSE

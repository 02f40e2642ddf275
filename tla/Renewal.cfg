SPECIFICATION RenewalFairSpec
CONSTANTS
  Payments = {p1, p2}
  Workers = {h1, h2}
  Validity = 2
  LastDay = 3
  FailureBound = 1
  MaxOffice = 1
INVARIANTS RenewalInv PaidTimeKept PaidTimeRuns
 
CHECK_DEADLOCK FALSE

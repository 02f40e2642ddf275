SPECIFICATION FairSpec
CONSTANTS
  v1 = v1
  v2 = v2
  h1 = h1
  h2 = h2
  Vouchers <- TwoVouchers
  Presented <- FirstVoucher
  Handlers <- TwoHandlers
  Window <- Windows
  Churn = 2
  Shelf = 2
  Grace = 0
  BatchSize = 1
  MaxTime = 4
  MaxQueued = 1
  MaxFaults = 1
  MaxEdits = 1
INVARIANTS RedeemInv
PROPERTIES WindowIsHonoured AccessEnds
CHECK_DEADLOCK FALSE

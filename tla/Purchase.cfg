SPECIFICATION FairSpec
CONSTANTS
  p1 = p1
  p2 = p2
  o1 = o1
  h1 = h1
  h2 = h2
  Purchases <- TwoPurchases
  Raced <- OnePurchase
  Orgs <- OneOrg
  OrgOf <- SameOrg
  Handlers <- TwoHandlers
  Confirmers = {"nats", "poll", "webhook"}
  PlansMayGo = TRUE
  MaxCallbacks = 1
INVARIANTS VoucherInv FinishedIsMirrored CompletedHasVoucher
PROPERTIES PaidIsCompleted
CHECK_DEADLOCK FALSE

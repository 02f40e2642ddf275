SPECIFICATION Spec
CONSTANTS
  i1 = i1
  i2 = i2
  p1 = p1
  p2 = p2
  h1 = h1
  h2 = h2
  Invoices <- TwoInvoices
  Payments <- TwoPayments
  Requests <- TwoRequests
  Subtotals = {2}
  Prices = {1, 2}
  Amounts = {1}
  Adjust <- MinusOne
  MaxMonth = 2
  MaxOps = 4
SYMMETRY Symmetry
INVARIANTS InvoiceInv PaidMatchesPayments PaidIsActivated NumbersGapless
CHECK_DEADLOCK FALSE

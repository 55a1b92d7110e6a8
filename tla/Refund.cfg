SPECIFICATION MCSpec
CONSTANTS
  Payments = {1, 2}
  Paid <- PaidTwice
  Online = {2}
  Amounts = {1, 2}
  Qty = 3
  Returns = {r1, r2}
  Refunds = {f1, f2, f3}
  Start = {"CONFIRMED"}
  Reports = {"DELIVERED", "FAILED", "RETURNED"}
  Workers = {w1, w2}
  Failures = FALSE
  None = None
SYMMETRY Symmetry
INVARIANTS BooksHoldAlone RequestedHasRequest CompletedIsBacked
PROPERTIES CompletedOnceAlone
CHECK_DEADLOCK FALSE

SPECIFICATION Spec
CONSTANTS
  Payments = {1}
  Paid <- PaidOnce
  Online = {1}
  Amounts = {1, 2}
  Qty = 1
  Returns = {r1}
  Refunds = {f1}
  Start = {"DELIVERED"}
  Reports = {"RETURNED"}
  Workers = {w1}
  Failures = FALSE
  None = None
SYMMETRY Symmetry
INVARIANTS UnitsGivenBackOnce
CHECK_DEADLOCK FALSE

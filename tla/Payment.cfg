SPECIFICATION MCSpec
CONSTANTS
  Payments = {p1, p2}
  Workers = {w1, w2, w3}
  Cod = TRUE
  Advance = TRUE
  Short = {p2}
  Moves = {"SHIPPED", "DELIVERED", "CANCELLED"}
  QueryFails = TRUE
  None = None
SYMMETRY Symmetry
INVARIANTS PaidOnceAlone AppliedAtMostOnce PaidIsRecorded
PROPERTIES SettledStaysSettled
CHECK_DEADLOCK FALSE

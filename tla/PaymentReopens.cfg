SPECIFICATION MCSpec
CONSTANTS
  Payments = {p1}
  Workers = {w1}
  Cod = TRUE
  Advance = FALSE
  Short = {}
  Moves = {"DELIVERED"}
  QueryFails = FALSE
  None = None
SYMMETRY Symmetry
PROPERTIES OnlyLiveConfirmed
CHECK_DEADLOCK FALSE

SPECIFICATION MCSpec
CONSTANTS
  a = a
  b = b
  Sizes = {a, b}
  Pricings <- FullOrReduced
  Workers = {1, 2}
  Jobs = {1}
  MaxForms = 1
  MaxMoves = 2
  MaxLines = 1
  MaxQuantity = 1
  None = None
INVARIANTS DeletedWasNeverOrdered
PROPERTIES StockMovesTogether StoredPriceConverges
CHECK_DEADLOCK FALSE

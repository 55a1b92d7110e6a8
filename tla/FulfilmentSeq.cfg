SPECIFICATION TimelySpec
CONSTANTS
  Orders = {o1, o2, o3}
  Pieces = {p1}
  Couriers = {c1}
  Workers = {w1}
  Qty <- OneEach
  MaxRows = 3
  CourierEvents = {"BOOKED", "DELIVERED", "FAILED", "RETURNED"}
  FirstShipment = {"BOOKED"}
  AdminStatuses = {}
  None = None
SYMMETRY SymmetryOrders
INVARIANTS PieceRowsAgree BooksBalance
PROPERTIES ImplementsLifecycle
CHECK_DEADLOCK FALSE

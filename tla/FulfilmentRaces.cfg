SPECIFICATION MCSpec
CONSTANTS
  oneUnit = oneUnit
  twoUnits = twoUnits
  own = c1
  only = w1
  Orders = {oneUnit, twoUnits}
  Pieces = {p1, p2}
  Couriers = {c1, c2}
  Workers = {w1, w2}
  Qty <- OneAndTwo
  MaxRows = 3
  CourierEvents = {"DELIVERED", "FAILED", "RETURNED"}
  FirstShipment = {"BOOKED"}
  AdminStatuses = {"CONFIRMED", "SHIPPED", "CANCELLED"}
  None = None
SYMMETRY PiecesAlike
INVARIANTS OrdersAddUpAlone OverrunBounded ReservedHasOpenRow
CHECK_DEADLOCK FALSE

SPECIFICATION MCCartSpec
CONSTANTS
  Users = {u}
  Visitors = {v, n}
  Legacy = {v}
  ProductSizes = {a}
  Prices = {1, 2}
  MaxCarts = 2
  MaxItems = 2
  MaxStock = 2
  MaxOps = 3
  MaxChanges = 1
  Workers = {1, 2}
  None = None
  Absent = Absent
INVARIANTS ShownIsPaidAlone
PROPERTIES CartConverges GuestCartTakenOnce
CHECK_DEADLOCK FALSE

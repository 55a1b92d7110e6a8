SPECIFICATION MCOffersSpec
CONSTANTS
  living = living
  dining = dining
  sofas = sofas
  tables = tables
  corner = corner
  couch = couch
  lamp = lamp
  Series = {living, dining}
  Categories = {sofas, tables}
  Subs = {corner}
  Products = {couch, lamp}
  Price <- MCPrice
  Tree <- MCTree
  Filing <- MCFiling
  Coupons = {k}
  Types = {"FIXED_AMOUNT", "PERCENTAGE"}
  Values = {2, 150}
  Minima = {2}
  Workers = {1, 2}
  MaxEdits = 2
  MaxAsks = 3
  None = None
  Root = Root
  Unused = Unused
  Gone = Gone
INVARIANTS HonouredAlone
PROPERTIES DeadCouponUnblocks LiveStaysAlone
CHECK_DEADLOCK FALSE

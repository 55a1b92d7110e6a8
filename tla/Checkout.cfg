SPECIFICATION MCSpec
CONSTANTS
  u = u  v = v  w = w  g = g
  home = home  desk = desk
  c1 = c1  c2 = c2  c3 = c3  c4 = c4  c5 = c5
  s1 = s1  s2 = s2  s3 = s3
  p1 = p1  p2 = p2
  None = None
  Requests = {1, 2}
  Customers = {u, v, w, g}
  Guests = {g}
  Trusted = {u, v}
  Phones = {home, desk}
  Phone <- MCPhone
  Carts = {c1, c2, c3, c4, c5}
  Owner <- MCOwner
  Sizes = {s1, s2, s3}
  Product <- MCProduct
  Lines <- MCLines
  InitialStock <- MCStock
  Discounted = {c1, c2, c3, c4}
  UsageLimit = 2
  PerUserLimit = 1
  GuestLimit = 1
  HourlyLimit = 1
  MaxAttempts = 2
  MaxOrders = 3
CHECK_DEADLOCK FALSE
INVARIANTS GuestOrdersLimited PerUserLimitOnSharedProducts
PROPERTIES OrdersAreAtomic SubmissionsAreAnswered

SPECIFICATION MCSpec
CONSTANTS
  Rows = {1, 2, 3, 4}
  Ranks = {1, 2}
  Facet <- MCFacet
  Tiers <- MCTiers
  PageSize = 2
  Enough = 2
  Full = 3
  Spare = 1
  MaxDirty = 1
  Readers = {1}
  None = None
  f = f
  g = g
  Users = {1, 2}
  Phones = {p, q}
  Mails = {m}
  p = p
  q = q
  m = m
  HourlyLimit = 2
  MaxChecks = 2
  MaxFailures = 2
  PasswordAlone = TRUE
  MaxCodes = 3
  MaxTokens = 3
  Clerks = {1, 2}
  Nobody = Nobody
  Customers = {a, b}
  a = a
  Devices = {v, w}
  Orders = {1, 2}
  MaxViews = 2
  Servers = {1}
  NoId = NoId
  Agents = {1}
  Staff = {s1, s2}
  MaxReplies = 3
  NoOne = NoOne
  Lines = {1, 2}
  Keys = {k1, k2}
  Dates = {1, 2}
  MaxShown = 1
  Goods = {good}
  Editors = {1, 2}
  Unset = Unset
INVARIANTS WalksAreExact ChosenAreSound LimitsHoldAlone SignedOutStays GuestDataAlone RepliesReopenAlone ReordersAreWhole ContentIsSoundAlone
PROPERTIES CustomersKeepTheirs
CHECK_DEADLOCK FALSE

SPECIFICATION MCSpec
CONSTANTS
  Keys = {k1, k2, k3}
  few = {k1, k2}
  Loads = {l1, l2}
  Requests = {r1, r2}
  ByteSizes = {1, 2, 3}
  MaxEntries = 2
  MaxTotal = 3
  MaxEntry = 2
  MaxWrites = 2
  Nothing = Nothing
INVARIANTS NothingStale AnswersAreFresh WithinBounds
PROPERTIES EveryoneIsAnswered
CHECK_DEADLOCK FALSE

\* Two generate requests for one period.
SPECIFICATION Spec
CONSTANTS
  h1 = h1  h2 = h2  d1 = d1  d2 = d2  m1 = m1  m2 = m2  p1 = p1  p2 = p2
  Handlers = {h1, h2}
  DealIds = {d1}
  PayoutIds = {p1, p2}
  Managers = {m1}
  DealManager <- MCOneDealManager
  Commission <- MCOneCommission
  Periods <- MCOnePeriod
  Salaries = {0, 1}
  Patches <- MCPatches
  Keep = keep
  NoPayout = nopayout
INVARIANT NeverDoubleCounted
CHECK_DEADLOCK FALSE

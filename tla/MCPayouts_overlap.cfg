\* Overlapping requests: payouts are generated and mailed, or one is settled.
SPECIFICATION OverlapSpec
CONSTANTS
  h1 = h1  h2 = h2  d1 = d1  d2 = d2  m1 = m1  m2 = m2  p1 = p1  p2 = p2
  Handlers = {h1, h2}
  DealIds = {d1, d2}
  PayoutIds = {p1, p2}
  Managers = {m1, m2}
  DealManager <- MCTwoManagers
  Commission <- MCCommission
  Periods <- MCPeriods
  Salaries = {0, 1}
  Patches <- MCPatches
  Keep = keep
  NoPayout = nopayout
SYMMETRY Symmetry
INVARIANTS TypeOK LinkedToOwnPayout SentWasQueued PaidWasApproved ToldTheTruth
CHECK_DEADLOCK FALSE

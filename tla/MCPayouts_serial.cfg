\* One generate, and one adjustment, approval or payment of a payout, at a time.
SPECIFICATION MCSerialSpec
CONSTANTS
  h1 = h1  h2 = h2  d1 = d1  d2 = d2  m1 = m1  m2 = m2  p1 = p1  p2 = p2
  Handlers = {h1, h2}
  DealIds = {d1, d2}
  PayoutIds = {p1, p2}
  Managers = {m1, m2}
  DealManager <- MCTwoManagers
  Commission <- MCCommission
  Periods <- MCPeriods
  Salaries = {0}
  Patches <- MCPatches
  Keep = keep
  NoPayout = nopayout
SYMMETRY Symmetry
INVARIANTS NeverDoubleCounted StatementAddsUp
PROPERTIES FrozenAfterApproval ImplementsLedger
CHECK_DEADLOCK FALSE

\* Overlapping requests: reservations, restorations and counts over two stock
\* rows; or the lead, warehouse, manager's rate and quote change under the
\* requests that have read them.
SPECIFICATION RacesSpec
CONSTANTS
  Handlers = {h1, h2}
  DealIds = {d1, d2}
  h1 = h1  h2 = h2  d1 = d1  d2 = d2  p1 = p1  p2 = p2
  Leads = {l1}
  Warehouses = {w1}
  Products = {p1, p2}
  Managers = {m1}
  Owner = owner
  Unassigned = unassigned
  Deleted = deleted
  Quotes = {q1}
  NoQuote = noquote
  Free = free
  Carts <- MCCarts
  Counts = {1, 2}
  Rates = {5, 7}
SYMMETRY Symmetry
INVARIANTS TypeOK LockDiscipline StockNonNegative Conservation
  QuoteLinkedOnce LeadKept RateOfOwnManager
PROPERTY SnapshotFixed
CHECK_DEADLOCK FALSE

\* Creates that lock two stock rows in either order, and status changes.
SPECIFICATION FairSpec
CONSTANTS
  Handlers = {h1, h2}
  DealIds = {d1}
  h1 = h1  h2 = h2  d1 = d1  d2 = d2  p1 = p1  p2 = p2
  Leads = {l1}
  Warehouses = {w1}
  Products = {p1, p2}
  Managers = {}
  Owner = owner
  Unassigned = unassigned
  Deleted = deleted
  Quotes = {}
  NoQuote = noquote
  Free = free
  Carts <- MCCarts
  Counts = {1}
  Rates = {5}
PROPERTY RequestsAnswered
CHECK_DEADLOCK FALSE

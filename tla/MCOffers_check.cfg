CONSTANTS
  w1 = w1 w2 = w2 e1 = e1 c1 = c1 c2 = c2 none = none
  s1 = s1 s2 = s2 s3 = s3 p1 = p1 p2 = p2 l3 = l3 A = A B = B ma = ma na = na oa = oa ob = ob
  Editors = {e1, e2}
  Products = {p1}
  Warehouses = {w1, w2}
  Categories = {k1}
  Options = {o1}
  Scripts = {t1}
  Quantities = {0, 1}
  Missing = none
  Clients = {c1, c2}
  CityOf <- MCCityOf
  Destinations = {"X", "Z"}
  Weights = {5, 6, 7}
  MaxKg = 6
  BucketSize = 5
  Estimates <- MCEstimates
  LocalDays = 3
  MaxQuotes = 4
  Sales = {s1, s2, s3}
  Facts <- MCFacts
  Goods = {p1, p2}
  Prospects = {l1, l2, l3}
  Staff = {ma, na}
  Boss = oa
  Us = A
  SlaMinutes = 1
  LastInstant = 2
  HoursPerDay = 2
  DaysPerWeek = 2
  NoRecord = none
SPECIFICATION OffersSpec
INVARIANTS CatalogHolds OffersHold ReportsHold ComparisonHolds
PROPERTIES FailsForReason QuotesAnswered
CHECK_DEADLOCK FALSE

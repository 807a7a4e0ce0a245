\* The rows that sessions may create run out.
CHECK_DEADLOCK FALSE
CONSTANTS
  chief = chief m1 = m1 c1 = c1 c2 = c2 A = A B = B oa = oa ma = ma na = na ob = ob ra = ra rb = rb
  none = none C = C
  MaxCrashes = 1
  Askers = {a1, a2}
  Accounts = {chief, m1}
  Chief = chief
  Tokens = {t1, t2}
  Links = {k1}
  Passwords = {"first", "new"}
  First = "first"
  Callers = {c1, c2}
  Tenants = {A, B}
  Users = {oa, ma, na, ob}
  Rows = {ra, rb}
  Nobody = none
  TenantOf <- MCTenantOf
  RoleOf <- MCRoleOf
  RowTenant <- MCRowTenant
  Holder <- MCHolder
  Firms = {A, B, C}
  OwnersOf <- MCOwnersOf
  Visitors = {v1}
  LastDay = 1
  NoFirm = none
SPECIFICATION PlatformSpec
INVARIANTS SessionsHold OwnerKept RowsOfOwn GuardsHold DigestHolds
PROPERTY ComesUp

------------------------------ MODULE Requests ------------------------------
(***************************************************************************)
(* The way of an HTTP request: the route that is declared first and        *)
(* matches, the three global guards of app.module.ts, and the accesses of  *)
(* its handler to the database through the tenant extension, one at a time *)
(* between those of other requests and background jobs.                    *)
(*                                                                         *)
(* A row stands for the rows of all models with one id; what the handlers  *)
(* do with the rows is the matter of the other modules.                    *)
(***************************************************************************)
EXTENDS Integers, Sequences

CONSTANTS
  Callers,               \* requests and jobs in flight
  Tenants,
  Users, TenantOf, RoleOf,
  Rows, RowTenant,
  Holder,                \* managerId of a deal or payout, userId of a notification
  Nobody

ASSUME RequestsAssumption ==
  /\ TenantOf \in [Users -> Tenants] /\ RoleOf \in [Users -> {"OWNER", "MANAGER"}]
  /\ RowTenant \in [Rows -> Tenants] /\ Holder \in [Rows -> Users]
  /\ Nobody \notin Users \cup Tenants

VARIABLES
  active,      \* User.isActive
  assigned,    \* Lead.assignedManagerId
  pc, req,     \* where each request stands; who sent it for which route
  cls,         \* the tenant in its CLS store
  at,          \* rows its handler has found
  reached,     \* history: tenants whose rows it read, changed or added to
  got,         \* history: leads, deals, payouts and notifications it read
  theirs,      \* history: leads that were its user's at some time meanwhile
  admitted     \* history: its user was active at some time meanwhile

requestVars == <<active, assigned, pc, req, cls, at, reached, got, theirs, admitted>>

-----------------------------------------------------------------------------
(* What handlers do, one access at a time.  Reads of the user's own Tenant *)
(* row are left out.                                                       *)

Get(m)      == <<"find", m>>      \* findUnique by id
Mine(m)     == <<"mine", m>>      \* the same, for a manager only his own
Own(m)      == <<"own", m>>       \* the same, for everybody only their own
List(m)     == <<"list", m>>
MyList(m)   == <<"myList", m>>
OwnList(m)  == <<"ownList", m>>
Add(m)      == <<"add", m>>
Put(m)      == <<"put", m>>       \* update or delete what was found
Hand(t)     == <<"hand", t>>      \* raw SQL with its own tenant condition
Ask(m)      == <<"ask", m>>       \* whether there is a row, which is not shown
Below(m)    == <<"below", m>>     \* unscoped children of what was found, read
SetBelow(m) == <<"setBelow", m>>  \* the same, set or revoked by hand
Shift(m)    == <<"shift", m>>     \* the same, taken or returned by a deal
Self        == <<"self", "users">>
SetSelf     == <<"setSelf", "users">>

AnyRole == {"OWNER", "MANAGER"}
Owner == {"OWNER"}
Public == {"public"}

R(verb, path, who, does) == [verb |-> verb, path |-> path, who |-> who, does |-> does]

(* @Controller gives its routes a path.  ":" is a parameter.               *)
Under(base, routes) == [i \in DOMAIN routes |-> [routes[i] EXCEPT !.path = <<base>> \o @]]

-----------------------------------------------------------------------------
(* The controllers                                                         *)

(* They use the unscoped client: see Sessions.                             *)
AuthRoutes == [i \in 1..5 |->
  R("POST", <<<<"login", "refresh", "logout", "forgot-password", "reset-password">>[i]>>, Public, <<>>)]

UsersRoutes == <<
  R("GET", <<"me">>, AnyRole, <<Self>>),
  R("PATCH", <<"me">>, AnyRole, <<SetSelf>>),
  R("POST", <<>>, Owner, <<Add("users")>>),
  R("GET", <<>>, Owner, <<List("users")>>),
  R("PATCH", <<":">>, Owner, <<Get("users"), Put("users")>>),
  R("PATCH", <<":", "block">>, Owner, <<Get("users"), Put("users"), SetBelow("tokens")>>),
  R("PATCH", <<":", "unblock">>, Owner, <<Get("users"), Put("users")>>),
  R("DELETE", <<":">>, Owner, <<Get("users"), Put("users"), SetBelow("tokens")>>)>>

CategoriesRoutes == <<
  R("GET", <<>>, AnyRole, <<List("categories")>>),
  R("POST", <<>>, Owner, <<Add("categories")>>),
  R("PATCH", <<":">>, Owner, <<Get("categories"), Put("categories")>>),
  R("DELETE", <<":">>, Owner, <<Get("categories"), Put("categories")>>)>>

(* The list is a model query or, with a search term, raw SQL.              *)
ProductsRoutes == <<
  R("GET", <<>>, AnyRole, <<Hand("products")>>),
  R("GET", <<":">>, AnyRole, <<Get("products")>>),
  R("POST", <<>>, Owner, <<Add("products")>>),
  R("PATCH", <<":">>, Owner, <<Get("products"), Put("products")>>),
  R("PATCH", <<":", "deactivate">>, Owner, <<Get("products"), Put("products")>>),
  R("PATCH", <<":", "reactivate">>, Owner, <<Get("products"), Put("products")>>)>>

WarehousesRoutes == <<
  R("GET", <<>>, AnyRole, <<List("warehouses")>>),
  R("POST", <<>>, Owner, <<Add("warehouses")>>),
  R("PATCH", <<":">>, Owner, <<Get("warehouses"), Put("warehouses")>>),
  R("PATCH", <<":", "deactivate">>, Owner, <<Get("warehouses"), Put("warehouses")>>),
  R("PATCH", <<":", "reactivate">>, Owner, <<Get("warehouses"), Put("warehouses")>>)>>

Mut_StockRoutes == <<
  R("GET", <<"warehouses", ":", "stock">>, AnyRole, <<Get("warehouses"), Below("stock")>>),
  R("GET", <<"products", ":", "stock">>, AnyRole, <<Get("products"), Below("stock")>>),
  R("PUT", <<"warehouses", ":", "stock", ":">>, AnyRole,
    <<Get("warehouses"), Get("products"), SetBelow("stock")>>)>>

(* Stock has no tenant of its own: both parents are found first.           *)
StockRoutes == <<
  R("GET", <<"warehouses", ":", "stock">>, AnyRole, <<Get("warehouses"), Below("stock")>>),
  R("GET", <<"products", ":", "stock">>, AnyRole, <<Get("products"), Below("stock")>>),
  R("PUT", <<"warehouses", ":", "stock", ":">>, Owner,
    <<Get("warehouses"), Get("products"), SetBelow("stock")>>)>>

DeliveryOptionsRoutes == <<
  R("GET", <<>>, AnyRole, <<List("delivery-options")>>),
  R("POST", <<>>, Owner, <<Add("delivery-options")>>),
  R("PATCH", <<":">>, Owner, <<Get("delivery-options"), Put("delivery-options")>>),
  R("DELETE", <<":">>, Owner, <<Get("delivery-options"), Put("delivery-options")>>)>>

ScriptsRoutes == <<
  R("GET", <<>>, AnyRole, <<List("scripts")>>),
  R("POST", <<>>, AnyRole, <<Add("scripts")>>),
  R("PATCH", <<":">>, AnyRole, <<Get("scripts"), Put("scripts")>>),
  R("PATCH", <<":", "deactivate">>, AnyRole, <<Get("scripts"), Put("scripts")>>),
  R("PATCH", <<":", "reactivate">>, AnyRole, <<Get("scripts"), Put("scripts")>>),
  R("POST", <<":", "render">>, AnyRole, <<Get("scripts")>>)>>

LeadsRoutes == <<
  R("GET", <<>>, AnyRole, <<MyList("leads")>>),
  R("GET", <<":">>, AnyRole, <<Mine("leads")>>),
  R("POST", <<>>, AnyRole, <<Add("leads")>>),
  R("PATCH", <<":">>, AnyRole, <<Mine("leads"), Put("leads")>>),
  R("PATCH", <<":", "status">>, AnyRole, <<Mine("leads"), Put("leads")>>),
  R("PATCH", <<":", "assign">>, Owner, <<Get("leads"), <<"assign", "leads">>>>),
  R("DELETE", <<":">>, AnyRole, <<Mine("leads"), Put("leads")>>)>>

DeliveryCalcRoutes == <<
  R("POST", <<"quote">>, AnyRole,
    <<List("products"), Below("stock"), List("warehouses"), List("delivery-options"), Add("quotes")>>),
  R("POST", <<"manual-quote">>, AnyRole, <<Get("warehouses"), Add("quotes")>>)>>

(* A deal's manager is looked up for his rate; then the delivery option or *)
(* the quote that the body names, and whether a deal has that quote.       *)
DealsRoutes == <<
  R("GET", <<>>, AnyRole, <<MyList("deals")>>),
  R("GET", <<":">>, AnyRole, <<Mine("deals")>>),
  R("POST", <<>>, AnyRole,
    <<Mine("leads"), Get("warehouses"), List("products"), Get("users"), Get("delivery-terms"),
      Ask("deals"), Shift("stock"), Add("deals")>>),
  R("PATCH", <<":", "status">>, AnyRole, <<Mine("deals"), Shift("stock"), Put("deals")>>)>>

PayoutsRoutes == <<
  R("GET", <<"preview">>, Owner, <<List("users"), List("deals")>>),
  R("POST", <<"generate">>, Owner, <<List("users"), List("deals"), Add("payouts"), Put("deals")>>),
  R("POST", <<"send-bulk">>, Owner, <<List("payouts"), List("deals"), Put("payouts")>>),
  R("GET", <<>>, AnyRole, <<MyList("payouts")>>),
  R("GET", <<":">>, AnyRole, <<Mine("payouts")>>),
  R("PATCH", <<":">>, Owner, <<Get("payouts"), Put("payouts")>>),
  R("PATCH", <<":", "approve">>, Owner, <<Get("payouts"), Put("payouts")>>),
  R("PATCH", <<":", "pay">>, Owner, <<Get("payouts"), Put("payouts")>>),
  R("POST", <<":", "send-email">>, Owner, <<Get("payouts"), List("deals"), Put("payouts")>>)>>

AnalyticsRoutes == [i \in 1..6 |->
  R("GET",
    <<<<"funnel", "sla", "revenue", "top-products", "managers-comparison", "purchase-distribution">>[i]>>,
    Owner,
    <<<<List("leads")>>, <<List("leads")>>, <<Hand("deals")>>, <<Hand("deals")>>,
      <<List("users"), List("deals"), List("leads")>>, <<Hand("deals")>>>>[i])]

NotificationsRoutes == <<
  R("GET", <<>>, AnyRole, <<OwnList("notifications")>>),
  R("PATCH", <<"read-all">>, AnyRole, <<OwnList("notifications")>>),
  R("PATCH", <<":", "read">>, AnyRole, <<Own("notifications"), Put("notifications")>>)>>

AppRoutes == <<R("GET", <<"health">>, Public, <<>>)>>

(* In the order of the modules in app.module.ts and of the controllers in  *)
(* catalog.module.ts.                                                      *)
Routes ==
  Under("auth", AuthRoutes) \o Under("users", UsersRoutes)
  \o Under("categories", CategoriesRoutes) \o Under("products", ProductsRoutes)
  \o Under("warehouses", WarehousesRoutes) \o StockRoutes
  \o Under("delivery-options", DeliveryOptionsRoutes) \o Under("scripts", ScriptsRoutes)
  \o Under("leads", LeadsRoutes) \o Under("delivery-calc", DeliveryCalcRoutes)
  \o Under("deals", DealsRoutes) \o Under("payouts", PayoutsRoutes)
  \o Under("analytics", AnalyticsRoutes) \o Under("notifications", NotificationsRoutes)
  \o AppRoutes

(* Path p matches the pattern of route r: a parameter takes any segment.   *)
Matches(r, verb, p) ==
  /\ r.verb = verb /\ Len(r.path) = Len(p)
  /\ \A i \in DOMAIN p : r.path[i] \in {":", p[i]}

(* The client fills in the parameters of route i; the first route that     *)
(* matches gets the request.                                               *)
Dispatch ==
  [i \in DOMAIN Routes |->
    LET p == [k \in DOMAIN Routes[i].path |->
               IF Routes[i].path[k] = ":" THEN "id" ELSE Routes[i].path[k]]
    IN  CHOOSE j \in DOMAIN Routes :
          /\ Matches(Routes[j], Routes[i].verb, p)
          /\ \A k \in 1..(j - 1) : ~Matches(Routes[k], Routes[i].verb, p)]

-----------------------------------------------------------------------------
(* The guards                                                              *)

Idle == [user |-> Nobody, wanted |-> 0, route |-> 0, does |-> <<>>, job |-> Nobody]

LeadsOf(u) == {r \in Rows : assigned[r] = u}

(* A token is good for one user; public routes skip the guards.            *)
Send(c, u, i) ==
  /\ pc[c] = "idle"
  /\ LET j == Dispatch[i] IN
       /\ req' = [req EXCEPT ![c] =
            [user |-> u, wanted |-> i, route |-> j, does |-> Routes[j].does, job |-> Nobody]]
       /\ pc' = [pc EXCEPT ![c] = IF Routes[j].who = Public THEN "handler" ELSE "authenticate"]
  /\ theirs' = [theirs EXCEPT ![c] = LeadsOf(u)]
  /\ admitted' = [admitted EXCEPT ![c] = active[u]]
  /\ UNCHANGED <<active, assigned, cls, at, reached, got>>

Respond(c) ==
  /\ pc' = [pc EXCEPT ![c] = "idle"]
  /\ req' = [req EXCEPT ![c] = Idle]
  /\ cls' = [cls EXCEPT ![c] = Nobody]
  /\ at' = [at EXCEPT ![c] = {}]
  /\ reached' = [reached EXCEPT ![c] = {}]
  /\ got' = [got EXCEPT ![c] = {}]
  /\ theirs' = [theirs EXCEPT ![c] = {}]
  /\ admitted' = [admitted EXCEPT ![c] = FALSE]
  /\ UNCHANGED <<active, assigned>>

Pass(c, from, to) ==
  /\ pc[c] = from
  /\ pc' = [pc EXCEPT ![c] = to]
  /\ UNCHANGED <<active, assigned, req, at, reached, got, theirs, admitted>>

Mut_Authenticate(c) ==
  /\ pc[c] = "authenticate"
  /\ Pass(c, "authenticate", "tenant") /\ UNCHANGED cls

(* JwtStrategy.validate reads the user's row on every request.             *)
Authenticate(c) ==
  /\ pc[c] = "authenticate"
  /\ IF active[req[c].user] THEN Pass(c, "authenticate", "tenant") /\ UNCHANGED cls ELSE Respond(c)

Mut_EstablishTenantForAll(c) ==
  /\ Pass(c, "tenant", "role")
  /\ cls' = [x \in Callers |-> TenantOf[req[c].user]]

EstablishTenant(c) ==
  /\ Pass(c, "tenant", "role")
  /\ cls' = [cls EXCEPT ![c] = TenantOf[req[c].user]]

CheckRole(c) ==
  /\ pc[c] = "role"
  /\ IF RoleOf[req[c].user] \in Routes[req[c].route].who
     THEN Pass(c, "role", "handler") /\ UNCHANGED cls
     ELSE Respond(c)

(* A background job brings its own tenant: TenantContextService.run.       *)
StartJob(c, t) ==
  /\ pc[c] = "idle"
  /\ pc' = [pc EXCEPT ![c] = "handler"]
  /\ req' = [req EXCEPT ![c] = [Idle EXCEPT !.job = t,
                                            !.does = <<List("notifications"), Add("notifications")>>]]
  /\ cls' = [cls EXCEPT ![c] = t]
  /\ UNCHANGED <<active, assigned, at, reached, got, theirs, admitted>>

-----------------------------------------------------------------------------
(* The accesses                                                            *)

Doing(c, kinds) ==
  /\ pc[c] = "handler" /\ req[c].does # <<>>
  /\ Head(req[c].does)[1] \in kinds

Model(c) == Head(req[c].does)[2]

(* The condition on tenantId that the extension adds, and CurrentTenant-   *)
(* Service by hand; without a tenant both throw.                           *)
InScope(c) == {r \in Rows : RowTenant[r] = cls[c]}

(* The statement read or changed rows, and the handler goes on with found. *)
Access(c, rows, tenants, found) ==
  /\ req' = [req EXCEPT ![c].does = Tail(@)]
  /\ at' = [at EXCEPT ![c] = found]
  /\ reached' = [reached EXCEPT ![c] = @ \cup tenants]
  /\ got' = [got EXCEPT ![c] = @ \cup (rows \X {Model(c)})]
  /\ UNCHANGED <<active, pc, cls, theirs, admitted>>

TenantsOfRows(rows) == {RowTenant[r] : r \in rows}

HeldBy(u, m, r) == (IF m = "leads" THEN assigned[r] ELSE Holder[r]) = u

(* getAccessibleLead and its like.                                         *)
Visible(c, m, r) == RoleOf[req[c].user] = "MANAGER" => HeldBy(req[c].user, m, r)

Reading == {"find", "mine", "own"}
Listing == {"list", "myList", "ownList"}

Sees(c, r) ==
  CASE Head(req[c].does)[1] \in {"mine", "myList"} -> Visible(c, Model(c), r)
    [] Head(req[c].does)[1] \in {"own", "ownList"} -> HeldBy(req[c].user, Model(c), r)
    [] OTHER -> TRUE

(* The id comes from the path or the body.                                 *)
FindRow(c) ==
  /\ Doing(c, Reading)
  /\ \E r \in Rows :
       \/ r \in InScope(c) /\ Sees(c, r) /\ Access(c, {r}, {RowTenant[r]}, at[c] \cup {r})
       \/ Respond(c)
  /\ UNCHANGED assigned

ListRows(c) ==
  /\ Doing(c, Listing)
  /\ LET rows == {r \in InScope(c) : Sees(c, r)}
     IN  Access(c, rows, TenantsOfRows(rows), rows)
  /\ UNCHANGED assigned

(* A new row, the user's own, or some found by hand-written SQL or only    *)
(* asked for.                                                              *)
TouchTenant(c) ==
  /\ Doing(c, {"add", "self", "setSelf", "hand", "ask"})
  /\ Access(c, {}, {cls[c]} \ {Nobody}, at[c])
  /\ UNCHANGED assigned

PutRows(c) ==
  /\ Doing(c, {"put"})
  /\ Access(c, {}, TenantsOfRows(at[c] \cap InScope(c)), at[c])
  /\ UNCHANGED assigned

(* RefreshToken and Stock rows are reached by the ids of their parents.    *)
ReachBelow(c) ==
  /\ Doing(c, {"below", "setBelow", "shift"})
  /\ Access(c, {}, TenantsOfRows(at[c]), at[c])
  /\ UNCHANGED assigned

AssignRows(c, u) ==
  /\ Doing(c, {"assign"})
  /\ RoleOf[u] = "MANAGER" /\ TenantOf[u] = cls[c] /\ active[u]
  /\ assigned' = [r \in Rows |-> IF r \in at[c] THEN u ELSE assigned[r]]
  /\ theirs' = [x \in Callers |-> theirs[x] \cup {r \in at[c] : req[x].user = u}]
  /\ req' = [req EXCEPT ![c].does = Tail(@)]
  /\ reached' = [reached EXCEPT ![c] = @ \cup TenantsOfRows(at[c])]
  /\ UNCHANGED <<active, pc, cls, at, got, admitted>>

(* The handler has done its work, or fails on the way.                     *)
Return(c) == pc[c] = "handler" /\ Respond(c)

(* What blockManager and unblockManager do to a user.                      *)
SetUserActive(u) ==
  /\ RoleOf[u] = "MANAGER"
  /\ active' = [active EXCEPT ![u] = ~@]
  /\ admitted' = [x \in Callers |-> admitted[x] \/ (req[x].user = u /\ active'[u])]
  /\ UNCHANGED <<assigned, pc, req, cls, at, reached, got, theirs>>

RequestsInit ==
  /\ active = [u \in Users |-> TRUE]
  /\ assigned = [r \in Rows |-> Nobody]
  /\ pc = [c \in Callers |-> "idle"]
  /\ req = [c \in Callers |-> Idle]
  /\ cls = [c \in Callers |-> Nobody]
  /\ at = [c \in Callers |-> {}]
  /\ reached = [c \in Callers |-> {}]
  /\ got = [c \in Callers |-> {}]
  /\ theirs = [c \in Callers |-> {}]
  /\ admitted = [c \in Callers |-> FALSE]

RequestsNext ==
  \/ \E u \in Users : SetUserActive(u)
  \/ \E c \in Callers :
       \/ \E u \in Users, i \in DOMAIN Routes : Send(c, u, i)
       \/ \E t \in Tenants : StartJob(c, t)
       \/ Authenticate(c) \/ EstablishTenant(c) \/ CheckRole(c)
       \/ FindRow(c) \/ ListRows(c) \/ TouchTenant(c) \/ PutRows(c) \/ ReachBelow(c)
       \/ \E u \in Users : AssignRows(c, u)
       \/ Return(c)

RequestsSpec == RequestsInit /\ [][RequestsNext]_requestVars

-----------------------------------------------------------------------------
(* Properties                                                              *)

Served(c) == req[c].user # Nobody /\ pc[c] = "handler"
ByManager(c) == Served(c) /\ RoleOf[req[c].user] = "MANAGER"

(* users.controller.ts and payouts.controller.ts: "these literal segments  *)
(* must win over the :id wildcard", wherever the controllers are declared. *)
RightHandler == \A c \in Callers : req[c].route = req[c].wanted

(* tenant.guard.ts: "the single point where which tenant is this request   *)
(* for gets established".  Whatever other requests and jobs run meanwhile, *)
(* a request reaches rows of its user's tenant alone, a job those of its   *)
(* own, and a public request none.                                         *)
OwnTenantOnly ==
  \A c \in Callers : \A t \in reached[c] :
    t = IF req[c].user = Nobody THEN req[c].job ELSE TenantOf[req[c].user]

(* What a manager is shown of the leads, deals and payouts was his at some *)
(* time during the request, though leads are assigned anew meanwhile.      *)
KeptToTheirOwn ==
  \A c \in Callers : ByManager(c) =>
    \A x \in got[c] :
      /\ x[2] = "leads" => x[1] \in theirs[c]
      /\ x[2] \in {"deals", "payouts", "notifications"} => Holder[x[1]] = req[c].user

(* jwt.strategy.ts: "otherwise blocking a manager wouldn't take effect     *)
(* until their access token naturally expired".  A request of a user who   *)
(* is blocked from its start to its end reaches nothing.                   *)
BlockedStaysOut == \A c \in Callers : Served(c) /\ reached[c] # {} => admitted[c]

(* What a handler may do for a manager.  It changes leads, deals, scripts, *)
(* notifications and quotes, moves stock for deals, and sets his own name, *)
(* and nothing else of the catalog, the accounts or the payouts.  Leads,   *)
(* deals, payouts and notifications it reads as his only, never all of     *)
(* them; and neither the staff nor the figures of the deals.               *)
ForManagers(a) ==
  /\ a[1] \notin {"assign", "setBelow"}
  /\ a[1] \in {"add", "put"} => a[2] \in {"leads", "deals", "scripts", "notifications", "quotes"}
  /\ a[1] \in {"find", "list"} => a[2] \notin {"leads", "deals", "payouts", "notifications"}
  /\ a \notin {List("users"), Hand("deals")}

(* Managers sell: whatever route they ask for, they never get as far as a  *)
(* handler that changes or shows what is the owner's.                      *)
ManagersOnlySell ==
  \A c \in Callers : ByManager(c) => \A i \in DOMAIN req[c].does : ForManagers(req[c].does[i])

(* A request reads and writes only what is its tenant's, and a manager's   *)
(* only what is the manager's: OwnTenantOnly and KeptToTheirOwn.           *)
RowsOfOwn == OwnTenantOnly /\ KeptToTheirOwn

(* The right handler serves it, for the right user: RightHandler,          *)
(* BlockedStaysOut and ManagersOnlySell, for every route that is declared. *)
GuardsHold == RightHandler /\ BlockedStaysOut /\ ManagersOnlySell

=============================================================================

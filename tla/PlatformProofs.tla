--------------------------- MODULE PlatformProofs ---------------------------
(* Proofs about Requests and Digest, for every value of their constants. *)
EXTENDS Requests, Digest, FiniteSetTheorems, SequenceTheorems, TLAPS

-----------------------------------------------------------------------------
(* The table of routes                                                     *)

Verbs == {"GET", "POST", "PATCH", "PUT", "DELETE"}

Words == {":", "auth", "login", "refresh", "logout", "forgot-password", "reset-password",
          "users", "me", "block", "unblock", "categories", "products", "deactivate",
          "reactivate", "warehouses", "stock", "delivery-options", "scripts", "render",
          "leads", "status", "assign", "delivery-calc", "quote", "manual-quote", "deals",
          "payouts", "preview", "generate", "send-bulk", "approve", "pay", "send-email",
          "analytics", "funnel", "sla", "revenue", "top-products", "managers-comparison",
          "purchase-distribution", "notifications", "read-all", "read", "health"}

Models == {"users", "tokens", "categories", "products", "warehouses", "stock",
           "delivery-options", "delivery-terms", "scripts", "leads", "quotes", "deals",
           "payouts", "notifications"}

Kinds == {"find", "mine", "own", "list", "myList", "ownList", "add", "put", "hand", "ask",
          "below", "setBelow", "shift", "self", "setSelf", "assign"}

Step == Kinds \X Models

(* What a route for managers may do.                                       *)
ManagerStep == {s \in Step : ForManagers(s)}

Route == [verb : Verbs, path : Seq(Words), who : {AnyRole, Owner, Public}, does : Seq(Step)]

GoodRoute ==
  {r \in Route : /\ r.who = Public => r.does = <<>>
                 /\ "MANAGER" \in r.who => r.does \in Seq(ManagerStep)}

(* Route r would take a request that is meant for route t.                 *)
Meets(r, t) ==
  /\ r.verb = t.verb /\ Len(r.path) = Len(t.path)
  /\ \A k \in DOMAIN t.path : r.path[k] \in {":", t.path[k]}

LEMMA FirstSegments ==
  ASSUME NEW r, NEW t, t.path \in Seq(Words), t.path # <<>>, r.path[1] \notin {":", t.path[1]}
  PROVE  ~Meets(r, t)
<1>1. 1 \in DOMAIN t.path
  OBVIOUS
<1>. QED
  BY <1>1 DEF Meets

(* No route of s takes the requests of a later one.                        *)
InOrder(s) == \A i, j \in DOMAIN s : i < j => ~Meets(s[i], s[j])

LEMMA FunctionIsSequence ==
  ASSUME NEW S, NEW n \in Nat, NEW f \in [1..n -> S]
  PROVE  f \in Seq(S)
OBVIOUS

LEMMA UnderGood ==
  ASSUME NEW base \in Words, NEW routes \in Seq(GoodRoute)
  PROVE  Under(base, routes) \in Seq(GoodRoute)
<1>. DEFINE route(i) == [routes[i] EXCEPT !.path = <<base>> \o @]
            n == Len(routes)
<1>1. n \in Nat /\ DOMAIN routes = 1..n
  OBVIOUS
<1>2. \A i \in 1..n : route(i) \in GoodRoute
  <2>. TAKE i \in 1..n
  <2>1. routes[i] \in Route /\ routes[i] \in GoodRoute
    BY <1>1 DEF GoodRoute
  <2>2. <<base>> \o routes[i].path \in Seq(Words)
    BY <2>1 DEF Route
  <2>3. route(i) \in Route /\ route(i).who = routes[i].who /\ route(i).does = routes[i].does
    BY <2>1, <2>2 DEF Route
  <2>. HIDE DEF route
  <2>. QED
    BY <2>1, <2>3 DEF GoodRoute
<1>3. Under(base, routes) = [i \in 1..n |-> route(i)]
  BY <1>1 DEF Under
<1>. HIDE DEF route, n
<1>4. [i \in 1..n |-> route(i)] \in [1..n -> GoodRoute]
  BY <1>2
<1>. QED
  BY <1>1, <1>3, <1>4

LEMMA UnderInOrder ==
  ASSUME NEW base \in Words, NEW routes \in Seq(GoodRoute), InOrder(routes)
  PROVE  InOrder(Under(base, routes))
<1>. DEFINE n == Len(routes)
<1>1. n \in Nat /\ DOMAIN routes = 1..n /\ DOMAIN Under(base, routes) = 1..n
  BY DEF Under
<1>2. \A i \in 1..n : /\ Under(base, routes)[i].verb = routes[i].verb
                      /\ Under(base, routes)[i].path = <<base>> \o routes[i].path
                      /\ routes[i].path \in Seq(Words)
  BY <1>1 DEF Under, GoodRoute, Route
<1>. SUFFICES ASSUME NEW i \in 1..n, NEW j \in 1..n, i < j,
                     Meets(Under(base, routes)[i], Under(base, routes)[j])
              PROVE  FALSE
  BY <1>1 DEF InOrder
<1>. DEFINE p == routes[i].path
            q == routes[j].path
<1>3. /\ routes[i].verb = routes[j].verb
      /\ Len(<<base>> \o p) = Len(<<base>> \o q)
      /\ \A k \in DOMAIN (<<base>> \o q) : (<<base>> \o p)[k] \in {":", (<<base>> \o q)[k]}
  BY <1>2 DEF Meets
<1>4. p \in Seq(Words) /\ q \in Seq(Words)
  BY <1>2
<1>. HIDE DEF p, q
<1>5. Len(p) = Len(q) /\ Len(q) \in Nat
  BY <1>3, <1>4
<1>6. \A k \in 1..Len(q) : /\ k + 1 \in DOMAIN (<<base>> \o q)
                           /\ (<<base>> \o q)[k + 1] = q[k]
                           /\ (<<base>> \o p)[k + 1] = p[k]
  BY <1>4, <1>5
<1>7. \A k \in 1..Len(q) : p[k] \in {":", q[k]}
  BY <1>3, <1>6
<1>. USE DEF p, q
<1>8. Meets(routes[i], routes[j])
  BY <1>3, <1>4, <1>5, <1>7 DEF Meets
<1>. QED
  BY <1>1, <1>8 DEF InOrder

LEMMA Steps ==
  /\ \A m \in Models : Get(m) \in Step /\ Mine(m) \in Step /\ Own(m) \in Step
  /\ \A m \in Models : List(m) \in Step /\ MyList(m) \in Step /\ OwnList(m) \in Step
  /\ \A m \in Models : Add(m) \in Step /\ Put(m) \in Step /\ Hand(m) \in Step
  /\ \A m \in Models : Below(m) \in Step /\ SetBelow(m) \in Step /\ Shift(m) \in Step
  /\ \A m \in Models : Ask(m) \in Step /\ <<"assign", m>> \in Step
  /\ Self \in Step /\ SetSelf \in Step
BY DEF Step, Kinds, Models, Get, Mine, Own, List, MyList, OwnList, Add, Put, Hand, Below,
       SetBelow, Shift, Ask, Self, SetSelf

(* The kinds of access, apart from ForManagers' own exceptions.            *)
LEMMA ForManagersByKind ==
  ASSUME NEW k, NEW m,
         k \notin {"assign", "setBelow"},
         k \in {"add", "put"} => m \in {"leads", "deals", "scripts", "notifications", "quotes"},
         k \in {"find", "list"} => m \notin {"leads", "deals", "payouts", "notifications"},
         k = "list" => m # "users", k = "hand" => m # "deals"
  PROVE  ForManagers(<<k, m>>)
BY DEF ForManagers, List, Hand

LEMMA ManagerSteps ==
  /\ \A m \in Models : Mine(m) \in ManagerStep /\ Own(m) \in ManagerStep /\ MyList(m) \in ManagerStep
  /\ \A m \in Models : OwnList(m) \in ManagerStep /\ Below(m) \in ManagerStep
  /\ \A m \in Models : Shift(m) \in ManagerStep /\ Ask(m) \in ManagerStep
  /\ Self \in ManagerStep /\ SetSelf \in ManagerStep /\ Hand("products") \in ManagerStep
  /\ \A m \in {"leads", "deals", "scripts", "notifications", "quotes"} :
       Add(m) \in ManagerStep /\ Put(m) \in ManagerStep
  /\ \A m \in {"categories", "products", "warehouses", "delivery-options", "scripts"} :
       Get(m) \in ManagerStep /\ List(m) \in ManagerStep
  /\ Get("users") \in ManagerStep /\ Get("delivery-terms") \in ManagerStep
<1>1. /\ \A m \in Models : /\ ForManagers(Mine(m)) /\ ForManagers(Own(m))
                            /\ ForManagers(MyList(m)) /\ ForManagers(OwnList(m))
                            /\ ForManagers(Below(m)) /\ ForManagers(Shift(m))
                            /\ ForManagers(Ask(m))
      /\ ForManagers(Self) /\ ForManagers(SetSelf) /\ ForManagers(Hand("products"))
  BY ForManagersByKind DEF Mine, Own, MyList, OwnList, Below, Shift, Ask, Self, SetSelf, Hand
<1>2. \A m \in {"leads", "deals", "scripts", "notifications", "quotes"} :
        ForManagers(Add(m)) /\ ForManagers(Put(m))
  BY ForManagersByKind DEF Add, Put
<1>3. \A m \in {"categories", "products", "warehouses", "delivery-options", "scripts"} :
        ForManagers(Get(m)) /\ ForManagers(List(m))
  BY ForManagersByKind DEF Get, List
<1>4. ForManagers(Get("users")) /\ ForManagers(Get("delivery-terms"))
  BY ForManagersByKind DEF Get
<1>5. /\ {"users", "delivery-terms", "products"} \subseteq Models
      /\ {"leads", "deals", "scripts", "notifications", "quotes"} \subseteq Models
      /\ {"categories", "products", "warehouses", "delivery-options", "scripts"} \subseteq Models
  BY DEF Models
<1>. QED
  BY <1>1, <1>2, <1>3, <1>4, <1>5, Steps DEF ManagerStep

LEMMA ManagerGood ==
  ASSUME NEW r, r = R(r.verb, r.path, r.who, r.does), r.verb \in Verbs, r.path \in Seq(Words),
         r.who = AnyRole, r.does \in Seq(ManagerStep)
  PROVE  r \in GoodRoute
<1>1. r.does \in Seq(Step)
  BY DEF ManagerStep
<1>2. AnyRole # Public
  BY DEF AnyRole, Public
<1>. QED
  BY <1>1, <1>2 DEF R, GoodRoute, Route

LEMMA OwnerGood ==
  ASSUME NEW r, r = R(r.verb, r.path, r.who, r.does), r.verb \in Verbs, r.path \in Seq(Words),
         r.who = Owner, r.does \in Seq(Step)
  PROVE  r \in GoodRoute
<1>1. Owner # Public /\ "MANAGER" \notin Owner
  BY DEF Owner, Public
<1>. QED
  BY <1>1 DEF R, GoodRoute, Route

LEMMA PublicGood ==
  ASSUME NEW r, r = R(r.verb, r.path, r.who, r.does), r.verb \in Verbs, r.path \in Seq(Words),
         r.who = Public, r.does = <<>>
  PROVE  r \in GoodRoute
<1>1. "MANAGER" \notin Public /\ <<>> \in Seq(Step)
  BY DEF Public
<1>2. r \in Route
  BY <1>1 DEF R, Route
<1>. QED
  BY <1>1, <1>2 DEF GoodRoute

LEMMA UsersTable == UsersRoutes \in Seq(GoodRoute) /\ InOrder(UsersRoutes)
<1>. DEFINE I == {1, 2, 3, 4, 5, 6, 7, 8}
            paths == {<<"me">>, <<>>, <<":">>, <<":", "block">>, <<":", "unblock">>}
            does == {<<Self>>, <<SetSelf>>, <<Add("users")>>, <<List("users")>>,
                     <<Get("users"), Put("users")>>,
                     <<Get("users"), Put("users"), SetBelow("tokens")>>}
            managers == {<<Self>>, <<SetSelf>>}
<1>1. \A i \in I : /\ UsersRoutes[i] = R(UsersRoutes[i].verb, UsersRoutes[i].path, UsersRoutes[i].who, UsersRoutes[i].does)
                  /\ UsersRoutes[i].verb \in Verbs /\ UsersRoutes[i].path \in paths /\ UsersRoutes[i].does \in does
  BY DEF UsersRoutes, R, Verbs
<1>2. paths \subseteq Seq(Words)
  BY DEF Words
<1>3. does \subseteq Seq(Step)
  BY Steps DEF Models
<1>4. \A i \in {3, 4, 5, 6, 7, 8} : UsersRoutes[i].who = Owner
  BY DEF UsersRoutes, R
<1>5. \A i \in {1, 2} : UsersRoutes[i].who = AnyRole /\ UsersRoutes[i].does \in managers
  BY DEF UsersRoutes, R
<1>6. managers \subseteq Seq(ManagerStep)
  BY ManagerSteps DEF Models
<1>. HIDE DEF paths, does, managers
<1>7. \A i \in {1, 2} : UsersRoutes[i] \in GoodRoute
  BY <1>1, <1>2, <1>5, <1>6, ManagerGood
<1>8. \A i \in {3, 4, 5, 6, 7, 8} : UsersRoutes[i] \in GoodRoute
  BY <1>1, <1>2, <1>3, <1>4, OwnerGood
<1>9. UsersRoutes \in Seq(GoodRoute) /\ DOMAIN UsersRoutes = I
  BY <1>7, <1>8 DEF UsersRoutes
<1>10. /\ \A i \in {1} : ~Meets(UsersRoutes[i], UsersRoutes[2])
       /\ \A i \in {1, 2} : ~Meets(UsersRoutes[i], UsersRoutes[3])
       /\ \A i \in {1, 2, 3} : ~Meets(UsersRoutes[i], UsersRoutes[4])
       /\ \A i \in {1, 2, 3, 4} : ~Meets(UsersRoutes[i], UsersRoutes[5])
       /\ \A i \in {1, 2, 3, 4, 5} : ~Meets(UsersRoutes[i], UsersRoutes[6])
       /\ \A i \in {1, 2, 3, 4, 5, 6} : ~Meets(UsersRoutes[i], UsersRoutes[7])
       /\ \A i \in {1, 2, 3, 4, 5, 6, 7} : ~Meets(UsersRoutes[i], UsersRoutes[8])
  <2>2. \A i \in {1} : ~Meets(UsersRoutes[i], UsersRoutes[2])
    BY DEF UsersRoutes, R, Meets
  <2>3. \A i \in {1, 2} : ~Meets(UsersRoutes[i], UsersRoutes[3])
    BY DEF UsersRoutes, R, Meets
  <2>4. \A i \in {1, 2, 3} : ~Meets(UsersRoutes[i], UsersRoutes[4])
    BY DEF UsersRoutes, R, Meets
  <2>5. \A i \in {1, 2, 3, 4} : ~Meets(UsersRoutes[i], UsersRoutes[5])
    <3>1. \A i \in {1, 3, 4} : ~Meets(UsersRoutes[i], UsersRoutes[5])
      BY DEF UsersRoutes, R, Meets
    <3>2. /\ UsersRoutes[2].path = <<"me">>
          /\ UsersRoutes[5].path = <<":">>
      BY DEF UsersRoutes, R
    <3>3. ~Meets(UsersRoutes[2], UsersRoutes[5])
      BY <3>2 DEF Meets
    <3>. QED
      BY <3>1, <3>3
  <2>6. \A i \in {1, 2, 3, 4, 5} : ~Meets(UsersRoutes[i], UsersRoutes[6])
    BY SMTT(30) DEF UsersRoutes, R, Meets
  <2>7. \A i \in {1, 2, 3, 4, 5, 6} : ~Meets(UsersRoutes[i], UsersRoutes[7])
    <3>1. \A i \in {1, 2, 3, 4, 5} : ~Meets(UsersRoutes[i], UsersRoutes[7])
      <4>1. \A i \in {1, 3, 4} : ~Meets(UsersRoutes[i], UsersRoutes[7])
        BY DEF UsersRoutes, R, Meets
      <4>2. \A i \in {2, 5} : Len(UsersRoutes[i].path) = 1
        BY DEF UsersRoutes, R
      <4>3. Len(UsersRoutes[7].path) = 2
        BY DEF UsersRoutes, R
      <4>4. \A i \in {2, 5} : ~Meets(UsersRoutes[i], UsersRoutes[7])
        BY <4>2, <4>3 DEF Meets
      <4>. QED
        BY <4>1, <4>4
    <3>2. /\ UsersRoutes[6].path = <<":", "block">>
          /\ UsersRoutes[7].path = <<":", "unblock">>
      BY DEF UsersRoutes, R
    <3>3. ~Meets(UsersRoutes[6], UsersRoutes[7])
      BY <3>2 DEF Meets
    <3>. QED
      BY <3>1, <3>3
  <2>8. \A i \in {1, 2, 3, 4, 5, 6, 7} : ~Meets(UsersRoutes[i], UsersRoutes[8])
    BY DEF UsersRoutes, R, Meets
  <2>. QED
    BY <2>2, <2>3, <2>4, <2>5, <2>6, <2>7, <2>8
<1>. QED
  BY <1>9, <1>10 DEF InOrder

LEMMA CategoriesTable == CategoriesRoutes \in Seq(GoodRoute) /\ InOrder(CategoriesRoutes)
<1>. DEFINE I == {1, 2, 3, 4}
            paths == {<<>>, <<":">>}
            does == {<<List("categories")>>, <<Add("categories")>>,
                     <<Get("categories"), Put("categories")>>}
            managers == {<<List("categories")>>}
<1>1. \A i \in I : /\ CategoriesRoutes[i] = R(CategoriesRoutes[i].verb, CategoriesRoutes[i].path, CategoriesRoutes[i].who, CategoriesRoutes[i].does)
                  /\ CategoriesRoutes[i].verb \in Verbs /\ CategoriesRoutes[i].path \in paths /\ CategoriesRoutes[i].does \in does
  BY DEF CategoriesRoutes, R, Verbs
<1>2. paths \subseteq Seq(Words)
  BY DEF Words
<1>3. does \subseteq Seq(Step)
  BY Steps DEF Models
<1>4. \A i \in {2, 3, 4} : CategoriesRoutes[i].who = Owner
  BY DEF CategoriesRoutes, R
<1>5. \A i \in {1} : CategoriesRoutes[i].who = AnyRole /\ CategoriesRoutes[i].does \in managers
  BY DEF CategoriesRoutes, R
<1>6. managers \subseteq Seq(ManagerStep)
  BY ManagerSteps DEF Models
<1>. HIDE DEF paths, does, managers
<1>7. \A i \in {1} : CategoriesRoutes[i] \in GoodRoute
  BY <1>1, <1>2, <1>5, <1>6, ManagerGood
<1>8. \A i \in {2, 3, 4} : CategoriesRoutes[i] \in GoodRoute
  BY <1>1, <1>2, <1>3, <1>4, OwnerGood
<1>9. CategoriesRoutes \in Seq(GoodRoute) /\ DOMAIN CategoriesRoutes = I
  BY <1>7, <1>8 DEF CategoriesRoutes
<1>10. /\ \A i \in {1} : ~Meets(CategoriesRoutes[i], CategoriesRoutes[2])
       /\ \A i \in {1, 2} : ~Meets(CategoriesRoutes[i], CategoriesRoutes[3])
       /\ \A i \in {1, 2, 3} : ~Meets(CategoriesRoutes[i], CategoriesRoutes[4])
  <2>2. \A i \in {1} : ~Meets(CategoriesRoutes[i], CategoriesRoutes[2])
    BY DEF CategoriesRoutes, R, Meets
  <2>3. \A i \in {1, 2} : ~Meets(CategoriesRoutes[i], CategoriesRoutes[3])
    BY DEF CategoriesRoutes, R, Meets
  <2>4. \A i \in {1, 2, 3} : ~Meets(CategoriesRoutes[i], CategoriesRoutes[4])
    BY DEF CategoriesRoutes, R, Meets
  <2>. QED
    BY <2>2, <2>3, <2>4
<1>. QED
  BY <1>9, <1>10 DEF InOrder

LEMMA ProductsTable == ProductsRoutes \in Seq(GoodRoute) /\ InOrder(ProductsRoutes)
<1>. DEFINE I == {1, 2, 3, 4, 5, 6}
            paths == {<<>>, <<":">>, <<":", "deactivate">>, <<":", "reactivate">>}
            does == {<<Hand("products")>>, <<Get("products")>>, <<Add("products")>>,
                     <<Get("products"), Put("products")>>}
            managers == {<<Hand("products")>>, <<Get("products")>>}
<1>1. \A i \in I : /\ ProductsRoutes[i] = R(ProductsRoutes[i].verb, ProductsRoutes[i].path, ProductsRoutes[i].who, ProductsRoutes[i].does)
                  /\ ProductsRoutes[i].verb \in Verbs /\ ProductsRoutes[i].path \in paths /\ ProductsRoutes[i].does \in does
  BY DEF ProductsRoutes, R, Verbs
<1>2. paths \subseteq Seq(Words)
  BY DEF Words
<1>3. does \subseteq Seq(Step)
  BY Steps DEF Models
<1>4. \A i \in {3, 4, 5, 6} : ProductsRoutes[i].who = Owner
  BY DEF ProductsRoutes, R
<1>5. \A i \in {1, 2} : ProductsRoutes[i].who = AnyRole /\ ProductsRoutes[i].does \in managers
  BY DEF ProductsRoutes, R
<1>6. managers \subseteq Seq(ManagerStep)
  BY ManagerSteps DEF Models
<1>. HIDE DEF paths, does, managers
<1>7. \A i \in {1, 2} : ProductsRoutes[i] \in GoodRoute
  BY <1>1, <1>2, <1>5, <1>6, ManagerGood
<1>8. \A i \in {3, 4, 5, 6} : ProductsRoutes[i] \in GoodRoute
  BY <1>1, <1>2, <1>3, <1>4, OwnerGood
<1>9. ProductsRoutes \in Seq(GoodRoute) /\ DOMAIN ProductsRoutes = I
  BY <1>7, <1>8 DEF ProductsRoutes
<1>10. /\ \A i \in {1} : ~Meets(ProductsRoutes[i], ProductsRoutes[2])
       /\ \A i \in {1, 2} : ~Meets(ProductsRoutes[i], ProductsRoutes[3])
       /\ \A i \in {1, 2, 3} : ~Meets(ProductsRoutes[i], ProductsRoutes[4])
       /\ \A i \in {1, 2, 3, 4} : ~Meets(ProductsRoutes[i], ProductsRoutes[5])
       /\ \A i \in {1, 2, 3, 4, 5} : ~Meets(ProductsRoutes[i], ProductsRoutes[6])
  <2>2. \A i \in {1} : ~Meets(ProductsRoutes[i], ProductsRoutes[2])
    BY DEF ProductsRoutes, R, Meets
  <2>3. \A i \in {1, 2} : ~Meets(ProductsRoutes[i], ProductsRoutes[3])
    BY DEF ProductsRoutes, R, Meets
  <2>4. \A i \in {1, 2, 3} : ~Meets(ProductsRoutes[i], ProductsRoutes[4])
    BY DEF ProductsRoutes, R, Meets
  <2>5. \A i \in {1, 2, 3, 4} : ~Meets(ProductsRoutes[i], ProductsRoutes[5])
    BY DEF ProductsRoutes, R, Meets
  <2>6. \A i \in {1, 2, 3, 4, 5} : ~Meets(ProductsRoutes[i], ProductsRoutes[6])
    <3>1. \A i \in {1, 2, 3, 4} : ~Meets(ProductsRoutes[i], ProductsRoutes[6])
      BY DEF ProductsRoutes, R, Meets
    <3>2. /\ ProductsRoutes[5].path = <<":", "deactivate">>
          /\ ProductsRoutes[6].path = <<":", "reactivate">>
      BY DEF ProductsRoutes, R
    <3>3. ~Meets(ProductsRoutes[5], ProductsRoutes[6])
      BY <3>2 DEF Meets
    <3>. QED
      BY <3>1, <3>3
  <2>. QED
    BY <2>2, <2>3, <2>4, <2>5, <2>6
<1>. QED
  BY <1>9, <1>10 DEF InOrder

LEMMA WarehousesTable == WarehousesRoutes \in Seq(GoodRoute) /\ InOrder(WarehousesRoutes)
<1>. DEFINE I == {1, 2, 3, 4, 5}
            paths == {<<>>, <<":">>, <<":", "deactivate">>, <<":", "reactivate">>}
            does == {<<List("warehouses")>>, <<Add("warehouses")>>,
                     <<Get("warehouses"), Put("warehouses")>>}
            managers == {<<List("warehouses")>>}
<1>1. \A i \in I : /\ WarehousesRoutes[i] = R(WarehousesRoutes[i].verb, WarehousesRoutes[i].path, WarehousesRoutes[i].who, WarehousesRoutes[i].does)
                  /\ WarehousesRoutes[i].verb \in Verbs /\ WarehousesRoutes[i].path \in paths /\ WarehousesRoutes[i].does \in does
  BY DEF WarehousesRoutes, R, Verbs
<1>2. paths \subseteq Seq(Words)
  BY DEF Words
<1>3. does \subseteq Seq(Step)
  BY Steps DEF Models
<1>4. \A i \in {2, 3, 4, 5} : WarehousesRoutes[i].who = Owner
  BY DEF WarehousesRoutes, R
<1>5. \A i \in {1} : WarehousesRoutes[i].who = AnyRole /\ WarehousesRoutes[i].does \in managers
  BY DEF WarehousesRoutes, R
<1>6. managers \subseteq Seq(ManagerStep)
  BY ManagerSteps DEF Models
<1>. HIDE DEF paths, does, managers
<1>7. \A i \in {1} : WarehousesRoutes[i] \in GoodRoute
  BY <1>1, <1>2, <1>5, <1>6, ManagerGood
<1>8. \A i \in {2, 3, 4, 5} : WarehousesRoutes[i] \in GoodRoute
  BY <1>1, <1>2, <1>3, <1>4, OwnerGood
<1>9. WarehousesRoutes \in Seq(GoodRoute) /\ DOMAIN WarehousesRoutes = I
  BY <1>7, <1>8 DEF WarehousesRoutes
<1>10. /\ \A i \in {1} : ~Meets(WarehousesRoutes[i], WarehousesRoutes[2])
       /\ \A i \in {1, 2} : ~Meets(WarehousesRoutes[i], WarehousesRoutes[3])
       /\ \A i \in {1, 2, 3} : ~Meets(WarehousesRoutes[i], WarehousesRoutes[4])
       /\ \A i \in {1, 2, 3, 4} : ~Meets(WarehousesRoutes[i], WarehousesRoutes[5])
  <2>2. \A i \in {1} : ~Meets(WarehousesRoutes[i], WarehousesRoutes[2])
    BY DEF WarehousesRoutes, R, Meets
  <2>3. \A i \in {1, 2} : ~Meets(WarehousesRoutes[i], WarehousesRoutes[3])
    BY DEF WarehousesRoutes, R, Meets
  <2>4. \A i \in {1, 2, 3} : ~Meets(WarehousesRoutes[i], WarehousesRoutes[4])
    BY DEF WarehousesRoutes, R, Meets
  <2>5. \A i \in {1, 2, 3, 4} : ~Meets(WarehousesRoutes[i], WarehousesRoutes[5])
    <3>1. \A i \in {1, 2, 3} : ~Meets(WarehousesRoutes[i], WarehousesRoutes[5])
      BY DEF WarehousesRoutes, R, Meets
    <3>2. /\ WarehousesRoutes[4].path = <<":", "deactivate">>
          /\ WarehousesRoutes[5].path = <<":", "reactivate">>
      BY DEF WarehousesRoutes, R
    <3>3. ~Meets(WarehousesRoutes[4], WarehousesRoutes[5])
      BY <3>2 DEF Meets
    <3>. QED
      BY <3>1, <3>3
  <2>. QED
    BY <2>2, <2>3, <2>4, <2>5
<1>. QED
  BY <1>9, <1>10 DEF InOrder

LEMMA StockTable == StockRoutes \in Seq(GoodRoute) /\ InOrder(StockRoutes)
<1>. DEFINE I == {1, 2, 3}
            paths == {<<"warehouses", ":", "stock">>, <<"products", ":", "stock">>,
                      <<"warehouses", ":", "stock", ":">>}
            does == {<<Get("warehouses"), Below("stock")>>,
                     <<Get("products"), Below("stock")>>,
                     <<Get("warehouses"), Get("products"), SetBelow("stock")>>}
            managers == {<<Get("warehouses"), Below("stock")>>,
                         <<Get("products"), Below("stock")>>}
<1>1. \A i \in I : /\ StockRoutes[i] = R(StockRoutes[i].verb, StockRoutes[i].path, StockRoutes[i].who, StockRoutes[i].does)
                  /\ StockRoutes[i].verb \in Verbs /\ StockRoutes[i].path \in paths /\ StockRoutes[i].does \in does
  BY DEF StockRoutes, R, Verbs
<1>2. paths \subseteq Seq(Words)
  BY DEF Words
<1>3. does \subseteq Seq(Step)
  BY Steps DEF Models
<1>4. \A i \in {3} : StockRoutes[i].who = Owner
  BY DEF StockRoutes, R
<1>5. \A i \in {1, 2} : StockRoutes[i].who = AnyRole /\ StockRoutes[i].does \in managers
  BY DEF StockRoutes, R
<1>6. managers \subseteq Seq(ManagerStep)
  BY ManagerSteps DEF Models
<1>. HIDE DEF paths, does, managers
<1>7. \A i \in {1, 2} : StockRoutes[i] \in GoodRoute
  BY <1>1, <1>2, <1>5, <1>6, ManagerGood
<1>8. \A i \in {3} : StockRoutes[i] \in GoodRoute
  BY <1>1, <1>2, <1>3, <1>4, OwnerGood
<1>9. StockRoutes \in Seq(GoodRoute) /\ DOMAIN StockRoutes = I
  BY <1>7, <1>8 DEF StockRoutes
<1>10. /\ \A i \in {1} : ~Meets(StockRoutes[i], StockRoutes[2])
       /\ \A i \in {1, 2} : ~Meets(StockRoutes[i], StockRoutes[3])
  <2>2. \A i \in {1} : ~Meets(StockRoutes[i], StockRoutes[2])
    <3>1. /\ StockRoutes[1].path = <<"warehouses", ":", "stock">>
          /\ StockRoutes[2].path = <<"products", ":", "stock">>
      BY DEF StockRoutes, R
    <3>2. ~Meets(StockRoutes[1], StockRoutes[2])
      BY <3>1 DEF Meets
    <3>. QED
      BY <3>2
  <2>3. \A i \in {1, 2} : ~Meets(StockRoutes[i], StockRoutes[3])
    BY DEF StockRoutes, R, Meets
  <2>. QED
    BY <2>2, <2>3
<1>. QED
  BY <1>9, <1>10 DEF InOrder

LEMMA DeliveryOptionsTable == DeliveryOptionsRoutes \in Seq(GoodRoute) /\ InOrder(DeliveryOptionsRoutes)
<1>. DEFINE I == {1, 2, 3, 4}
            paths == {<<>>, <<":">>}
            does == {<<List("delivery-options")>>, <<Add("delivery-options")>>,
                     <<Get("delivery-options"), Put("delivery-options")>>}
            managers == {<<List("delivery-options")>>}
<1>1. \A i \in I : /\ DeliveryOptionsRoutes[i] = R(DeliveryOptionsRoutes[i].verb, DeliveryOptionsRoutes[i].path, DeliveryOptionsRoutes[i].who, DeliveryOptionsRoutes[i].does)
                  /\ DeliveryOptionsRoutes[i].verb \in Verbs /\ DeliveryOptionsRoutes[i].path \in paths /\ DeliveryOptionsRoutes[i].does \in does
  BY DEF DeliveryOptionsRoutes, R, Verbs
<1>2. paths \subseteq Seq(Words)
  BY DEF Words
<1>3. does \subseteq Seq(Step)
  BY Steps DEF Models
<1>4. \A i \in {2, 3, 4} : DeliveryOptionsRoutes[i].who = Owner
  BY DEF DeliveryOptionsRoutes, R
<1>5. \A i \in {1} : DeliveryOptionsRoutes[i].who = AnyRole /\ DeliveryOptionsRoutes[i].does \in managers
  BY DEF DeliveryOptionsRoutes, R
<1>6. managers \subseteq Seq(ManagerStep)
  BY ManagerSteps DEF Models
<1>. HIDE DEF paths, does, managers
<1>7. \A i \in {1} : DeliveryOptionsRoutes[i] \in GoodRoute
  BY <1>1, <1>2, <1>5, <1>6, ManagerGood
<1>8. \A i \in {2, 3, 4} : DeliveryOptionsRoutes[i] \in GoodRoute
  BY <1>1, <1>2, <1>3, <1>4, OwnerGood
<1>9. DeliveryOptionsRoutes \in Seq(GoodRoute) /\ DOMAIN DeliveryOptionsRoutes = I
  BY <1>7, <1>8 DEF DeliveryOptionsRoutes
<1>10. /\ \A i \in {1} : ~Meets(DeliveryOptionsRoutes[i], DeliveryOptionsRoutes[2])
       /\ \A i \in {1, 2} : ~Meets(DeliveryOptionsRoutes[i], DeliveryOptionsRoutes[3])
       /\ \A i \in {1, 2, 3} : ~Meets(DeliveryOptionsRoutes[i], DeliveryOptionsRoutes[4])
  <2>2. \A i \in {1} : ~Meets(DeliveryOptionsRoutes[i], DeliveryOptionsRoutes[2])
    BY DEF DeliveryOptionsRoutes, R, Meets
  <2>3. \A i \in {1, 2} : ~Meets(DeliveryOptionsRoutes[i], DeliveryOptionsRoutes[3])
    BY DEF DeliveryOptionsRoutes, R, Meets
  <2>4. \A i \in {1, 2, 3} : ~Meets(DeliveryOptionsRoutes[i], DeliveryOptionsRoutes[4])
    BY DEF DeliveryOptionsRoutes, R, Meets
  <2>. QED
    BY <2>2, <2>3, <2>4
<1>. QED
  BY <1>9, <1>10 DEF InOrder

LEMMA ScriptsTable == ScriptsRoutes \in Seq(GoodRoute) /\ InOrder(ScriptsRoutes)
<1>. DEFINE I == {1, 2, 3, 4, 5, 6}
            paths == {<<>>, <<":">>, <<":", "deactivate">>, <<":", "reactivate">>,
                      <<":", "render">>}
            does == {<<List("scripts")>>, <<Add("scripts")>>,
                     <<Get("scripts"), Put("scripts")>>, <<Get("scripts")>>}
<1>1. \A i \in I : /\ ScriptsRoutes[i] = R(ScriptsRoutes[i].verb, ScriptsRoutes[i].path, ScriptsRoutes[i].who, ScriptsRoutes[i].does)
                  /\ ScriptsRoutes[i].verb \in Verbs /\ ScriptsRoutes[i].path \in paths /\ ScriptsRoutes[i].does \in does
  BY DEF ScriptsRoutes, R, Verbs
<1>2. paths \subseteq Seq(Words)
  BY DEF Words
<1>3. does \subseteq Seq(Step)
  BY Steps DEF Models
<1>5. \A i \in {1, 2, 3, 4, 5, 6} : ScriptsRoutes[i].who = AnyRole /\ ScriptsRoutes[i].does \in does
  BY DEF ScriptsRoutes, R
<1>6. does \subseteq Seq(ManagerStep)
  BY ManagerSteps DEF Models
<1>. HIDE DEF paths, does
<1>7. \A i \in {1, 2, 3, 4, 5, 6} : ScriptsRoutes[i] \in GoodRoute
  BY <1>1, <1>2, <1>5, <1>6, ManagerGood
<1>9. ScriptsRoutes \in Seq(GoodRoute) /\ DOMAIN ScriptsRoutes = I
  BY <1>7 DEF ScriptsRoutes
<1>10. /\ \A i \in {1} : ~Meets(ScriptsRoutes[i], ScriptsRoutes[2])
       /\ \A i \in {1, 2} : ~Meets(ScriptsRoutes[i], ScriptsRoutes[3])
       /\ \A i \in {1, 2, 3} : ~Meets(ScriptsRoutes[i], ScriptsRoutes[4])
       /\ \A i \in {1, 2, 3, 4} : ~Meets(ScriptsRoutes[i], ScriptsRoutes[5])
       /\ \A i \in {1, 2, 3, 4, 5} : ~Meets(ScriptsRoutes[i], ScriptsRoutes[6])
  <2>2. \A i \in {1} : ~Meets(ScriptsRoutes[i], ScriptsRoutes[2])
    BY DEF ScriptsRoutes, R, Meets
  <2>3. \A i \in {1, 2} : ~Meets(ScriptsRoutes[i], ScriptsRoutes[3])
    BY DEF ScriptsRoutes, R, Meets
  <2>4. \A i \in {1, 2, 3} : ~Meets(ScriptsRoutes[i], ScriptsRoutes[4])
    BY DEF ScriptsRoutes, R, Meets
  <2>5. \A i \in {1, 2, 3, 4} : ~Meets(ScriptsRoutes[i], ScriptsRoutes[5])
    <3>1. \A i \in {1, 2, 3} : ~Meets(ScriptsRoutes[i], ScriptsRoutes[5])
      BY DEF ScriptsRoutes, R, Meets
    <3>2. /\ ScriptsRoutes[4].path = <<":", "deactivate">>
          /\ ScriptsRoutes[5].path = <<":", "reactivate">>
      BY DEF ScriptsRoutes, R
    <3>3. ~Meets(ScriptsRoutes[4], ScriptsRoutes[5])
      BY <3>2 DEF Meets
    <3>. QED
      BY <3>1, <3>3
  <2>6. \A i \in {1, 2, 3, 4, 5} : ~Meets(ScriptsRoutes[i], ScriptsRoutes[6])
    BY DEF ScriptsRoutes, R, Meets
  <2>. QED
    BY <2>2, <2>3, <2>4, <2>5, <2>6
<1>. QED
  BY <1>9, <1>10 DEF InOrder

LEMMA LeadsTable == LeadsRoutes \in Seq(GoodRoute) /\ InOrder(LeadsRoutes)
<1>. DEFINE I == {1, 2, 3, 4, 5, 6, 7}
            paths == {<<>>, <<":">>, <<":", "status">>, <<":", "assign">>}
            does == {<<MyList("leads")>>, <<Mine("leads")>>, <<Add("leads")>>,
                     <<Mine("leads"), Put("leads")>>,
                     <<Get("leads"), <<"assign", "leads">>>>}
            managers == {<<MyList("leads")>>, <<Mine("leads")>>, <<Add("leads")>>,
                         <<Mine("leads"), Put("leads")>>}
<1>1. \A i \in I : /\ LeadsRoutes[i] = R(LeadsRoutes[i].verb, LeadsRoutes[i].path, LeadsRoutes[i].who, LeadsRoutes[i].does)
                  /\ LeadsRoutes[i].verb \in Verbs /\ LeadsRoutes[i].path \in paths /\ LeadsRoutes[i].does \in does
  BY DEF LeadsRoutes, R, Verbs
<1>2. paths \subseteq Seq(Words)
  BY DEF Words
<1>3. does \subseteq Seq(Step)
  BY Steps DEF Models
<1>4. \A i \in {6} : LeadsRoutes[i].who = Owner
  BY DEF LeadsRoutes, R
<1>5. \A i \in {1, 2, 3, 4, 5, 7} : LeadsRoutes[i].who = AnyRole /\ LeadsRoutes[i].does \in managers
  BY DEF LeadsRoutes, R
<1>6. managers \subseteq Seq(ManagerStep)
  BY ManagerSteps DEF Models
<1>. HIDE DEF paths, does, managers
<1>7. \A i \in {1, 2, 3, 4, 5, 7} : LeadsRoutes[i] \in GoodRoute
  BY <1>1, <1>2, <1>5, <1>6, ManagerGood
<1>8. \A i \in {6} : LeadsRoutes[i] \in GoodRoute
  BY <1>1, <1>2, <1>3, <1>4, OwnerGood
<1>9. LeadsRoutes \in Seq(GoodRoute) /\ DOMAIN LeadsRoutes = I
  BY <1>7, <1>8 DEF LeadsRoutes
<1>10. /\ \A i \in {1} : ~Meets(LeadsRoutes[i], LeadsRoutes[2])
       /\ \A i \in {1, 2} : ~Meets(LeadsRoutes[i], LeadsRoutes[3])
       /\ \A i \in {1, 2, 3} : ~Meets(LeadsRoutes[i], LeadsRoutes[4])
       /\ \A i \in {1, 2, 3, 4} : ~Meets(LeadsRoutes[i], LeadsRoutes[5])
       /\ \A i \in {1, 2, 3, 4, 5} : ~Meets(LeadsRoutes[i], LeadsRoutes[6])
       /\ \A i \in {1, 2, 3, 4, 5, 6} : ~Meets(LeadsRoutes[i], LeadsRoutes[7])
  <2>2. \A i \in {1} : ~Meets(LeadsRoutes[i], LeadsRoutes[2])
    BY SMTT(30) DEF LeadsRoutes, R, Meets
  <2>3. \A i \in {1, 2} : ~Meets(LeadsRoutes[i], LeadsRoutes[3])
    BY DEF LeadsRoutes, R, Meets
  <2>4. \A i \in {1, 2, 3} : ~Meets(LeadsRoutes[i], LeadsRoutes[4])
    BY DEF LeadsRoutes, R, Meets
  <2>5. \A i \in {1, 2, 3, 4} : ~Meets(LeadsRoutes[i], LeadsRoutes[5])
    BY DEF LeadsRoutes, R, Meets
  <2>6. \A i \in {1, 2, 3, 4, 5} : ~Meets(LeadsRoutes[i], LeadsRoutes[6])
    <3>1. \A i \in {1, 2, 3, 4} : ~Meets(LeadsRoutes[i], LeadsRoutes[6])
      <4>1. \A i \in {1, 2, 3} : ~Meets(LeadsRoutes[i], LeadsRoutes[6])
        BY DEF LeadsRoutes, R, Meets
      <4>2. \A i \in {4} : Len(LeadsRoutes[i].path) = 1
        BY DEF LeadsRoutes, R
      <4>3. Len(LeadsRoutes[6].path) = 2
        BY DEF LeadsRoutes, R
      <4>4. \A i \in {4} : ~Meets(LeadsRoutes[i], LeadsRoutes[6])
        BY <4>2, <4>3 DEF Meets
      <4>. QED
        BY <4>1, <4>4
    <3>2. /\ LeadsRoutes[5].path = <<":", "status">>
          /\ LeadsRoutes[6].path = <<":", "assign">>
      BY DEF LeadsRoutes, R
    <3>3. ~Meets(LeadsRoutes[5], LeadsRoutes[6])
      BY <3>2 DEF Meets
    <3>. QED
      BY <3>1, <3>3
  <2>7. \A i \in {1, 2, 3, 4, 5, 6} : ~Meets(LeadsRoutes[i], LeadsRoutes[7])
    BY DEF LeadsRoutes, R, Meets
  <2>. QED
    BY <2>2, <2>3, <2>4, <2>5, <2>6, <2>7
<1>. QED
  BY <1>9, <1>10 DEF InOrder

LEMMA DeliveryCalcTable == DeliveryCalcRoutes \in Seq(GoodRoute) /\ InOrder(DeliveryCalcRoutes)
<1>. DEFINE I == {1, 2}
            paths == {<<"quote">>, <<"manual-quote">>}
            does == {
                     <<List("products"), Below("stock"), List("warehouses"), List("delivery-options"), Add("quotes")>>,
                     <<Get("warehouses"), Add("quotes")>>}
<1>1. \A i \in I : /\ DeliveryCalcRoutes[i] = R(DeliveryCalcRoutes[i].verb, DeliveryCalcRoutes[i].path, DeliveryCalcRoutes[i].who, DeliveryCalcRoutes[i].does)
                  /\ DeliveryCalcRoutes[i].verb \in Verbs /\ DeliveryCalcRoutes[i].path \in paths /\ DeliveryCalcRoutes[i].does \in does
  BY DEF DeliveryCalcRoutes, R, Verbs
<1>2. paths \subseteq Seq(Words)
  BY DEF Words
<1>3. does \subseteq Seq(Step)
  BY Steps DEF Models
<1>5. \A i \in {1, 2} : DeliveryCalcRoutes[i].who = AnyRole /\ DeliveryCalcRoutes[i].does \in does
  BY DEF DeliveryCalcRoutes, R
<1>6. does \subseteq Seq(ManagerStep)
  BY ManagerSteps DEF Models
<1>. HIDE DEF paths, does
<1>7. \A i \in {1, 2} : DeliveryCalcRoutes[i] \in GoodRoute
  BY <1>1, <1>2, <1>5, <1>6, ManagerGood
<1>9. DeliveryCalcRoutes \in Seq(GoodRoute) /\ DOMAIN DeliveryCalcRoutes = I
  BY <1>7 DEF DeliveryCalcRoutes
<1>10. /\ \A i \in {1} : ~Meets(DeliveryCalcRoutes[i], DeliveryCalcRoutes[2])
  <2>2. \A i \in {1} : ~Meets(DeliveryCalcRoutes[i], DeliveryCalcRoutes[2])
    <3>1. /\ DeliveryCalcRoutes[1].path = <<"quote">>
          /\ DeliveryCalcRoutes[2].path = <<"manual-quote">>
      BY DEF DeliveryCalcRoutes, R
    <3>2. ~Meets(DeliveryCalcRoutes[1], DeliveryCalcRoutes[2])
      BY <3>1 DEF Meets
    <3>. QED
      BY <3>2
  <2>. QED
    BY <2>2
<1>. QED
  BY <1>9, <1>10 DEF InOrder

LEMMA DealsTable == DealsRoutes \in Seq(GoodRoute) /\ InOrder(DealsRoutes)
<1>. DEFINE I == {1, 2, 3, 4}
            paths == {<<>>, <<":">>, <<":", "status">>}
            does == {<<MyList("deals")>>, <<Mine("deals")>>,
                     <<Mine("leads"), Get("warehouses"), List("products"), Get("users"), Get("delivery-terms"), Ask("deals"), Shift("stock"), Add("deals")>>,
                     <<Mine("deals"), Shift("stock"), Put("deals")>>}
<1>1. \A i \in I : /\ DealsRoutes[i] = R(DealsRoutes[i].verb, DealsRoutes[i].path, DealsRoutes[i].who, DealsRoutes[i].does)
                  /\ DealsRoutes[i].verb \in Verbs /\ DealsRoutes[i].path \in paths /\ DealsRoutes[i].does \in does
  BY DEF DealsRoutes, R, Verbs
<1>2. paths \subseteq Seq(Words)
  BY DEF Words
<1>3. does \subseteq Seq(Step)
  BY Steps DEF Models
<1>5. \A i \in {1, 2, 3, 4} : DealsRoutes[i].who = AnyRole /\ DealsRoutes[i].does \in does
  BY DEF DealsRoutes, R
<1>6. does \subseteq Seq(ManagerStep)
  BY ManagerSteps DEF Models
<1>. HIDE DEF paths, does
<1>7. \A i \in {1, 2, 3, 4} : DealsRoutes[i] \in GoodRoute
  BY <1>1, <1>2, <1>5, <1>6, ManagerGood
<1>9. DealsRoutes \in Seq(GoodRoute) /\ DOMAIN DealsRoutes = I
  BY <1>7 DEF DealsRoutes
<1>10. /\ \A i \in {1} : ~Meets(DealsRoutes[i], DealsRoutes[2])
       /\ \A i \in {1, 2} : ~Meets(DealsRoutes[i], DealsRoutes[3])
       /\ \A i \in {1, 2, 3} : ~Meets(DealsRoutes[i], DealsRoutes[4])
  <2>2. \A i \in {1} : ~Meets(DealsRoutes[i], DealsRoutes[2])
    BY DEF DealsRoutes, R, Meets
  <2>3. \A i \in {1, 2} : ~Meets(DealsRoutes[i], DealsRoutes[3])
    BY DEF DealsRoutes, R, Meets
  <2>4. \A i \in {1, 2, 3} : ~Meets(DealsRoutes[i], DealsRoutes[4])
    BY DEF DealsRoutes, R, Meets
  <2>. QED
    BY <2>2, <2>3, <2>4
<1>. QED
  BY <1>9, <1>10 DEF InOrder

LEMMA PayoutsTable == PayoutsRoutes \in Seq(GoodRoute) /\ InOrder(PayoutsRoutes)
<1>. DEFINE I == {1, 2, 3, 4, 5, 6, 7, 8, 9}
            paths == {<<"preview">>, <<"generate">>, <<"send-bulk">>, <<>>, <<":">>,
                      <<":", "approve">>, <<":", "pay">>, <<":", "send-email">>}
            does == {<<List("users"), List("deals")>>,
                     <<List("users"), List("deals"), Add("payouts"), Put("deals")>>,
                     <<List("payouts"), List("deals"), Put("payouts")>>,
                     <<MyList("payouts")>>, <<Mine("payouts")>>,
                     <<Get("payouts"), Put("payouts")>>,
                     <<Get("payouts"), List("deals"), Put("payouts")>>}
            managers == {<<MyList("payouts")>>, <<Mine("payouts")>>}
<1>1. \A i \in I : /\ PayoutsRoutes[i] = R(PayoutsRoutes[i].verb, PayoutsRoutes[i].path, PayoutsRoutes[i].who, PayoutsRoutes[i].does)
                  /\ PayoutsRoutes[i].verb \in Verbs /\ PayoutsRoutes[i].path \in paths /\ PayoutsRoutes[i].does \in does
  BY DEF PayoutsRoutes, R, Verbs
<1>2. paths \subseteq Seq(Words)
  BY DEF Words
<1>3. does \subseteq Seq(Step)
  BY Steps DEF Models
<1>4. \A i \in {1, 2, 3, 6, 7, 8, 9} : PayoutsRoutes[i].who = Owner
  BY DEF PayoutsRoutes, R
<1>5. \A i \in {4, 5} : PayoutsRoutes[i].who = AnyRole /\ PayoutsRoutes[i].does \in managers
  BY DEF PayoutsRoutes, R
<1>6. managers \subseteq Seq(ManagerStep)
  BY ManagerSteps DEF Models
<1>. HIDE DEF paths, does, managers
<1>7. \A i \in {4, 5} : PayoutsRoutes[i] \in GoodRoute
  BY <1>1, <1>2, <1>5, <1>6, ManagerGood
<1>8. \A i \in {1, 2, 3, 6, 7, 8, 9} : PayoutsRoutes[i] \in GoodRoute
  BY <1>1, <1>2, <1>3, <1>4, OwnerGood
<1>9. PayoutsRoutes \in Seq(GoodRoute) /\ DOMAIN PayoutsRoutes = I
  BY <1>7, <1>8 DEF PayoutsRoutes
<1>10. /\ \A i \in {1} : ~Meets(PayoutsRoutes[i], PayoutsRoutes[2])
       /\ \A i \in {1, 2} : ~Meets(PayoutsRoutes[i], PayoutsRoutes[3])
       /\ \A i \in {1, 2, 3} : ~Meets(PayoutsRoutes[i], PayoutsRoutes[4])
       /\ \A i \in {1, 2, 3, 4} : ~Meets(PayoutsRoutes[i], PayoutsRoutes[5])
       /\ \A i \in {1, 2, 3, 4, 5} : ~Meets(PayoutsRoutes[i], PayoutsRoutes[6])
       /\ \A i \in {1, 2, 3, 4, 5, 6} : ~Meets(PayoutsRoutes[i], PayoutsRoutes[7])
       /\ \A i \in {1, 2, 3, 4, 5, 6, 7} : ~Meets(PayoutsRoutes[i], PayoutsRoutes[8])
       /\ \A i \in {1, 2, 3, 4, 5, 6, 7, 8} : ~Meets(PayoutsRoutes[i], PayoutsRoutes[9])
  <2>2. \A i \in {1} : ~Meets(PayoutsRoutes[i], PayoutsRoutes[2])
    BY DEF PayoutsRoutes, R, Meets
  <2>3. \A i \in {1, 2} : ~Meets(PayoutsRoutes[i], PayoutsRoutes[3])
    <3>1. \A i \in {1} : ~Meets(PayoutsRoutes[i], PayoutsRoutes[3])
      BY DEF PayoutsRoutes, R, Meets
    <3>2. /\ PayoutsRoutes[2].path = <<"generate">>
          /\ PayoutsRoutes[3].path = <<"send-bulk">>
      BY DEF PayoutsRoutes, R
    <3>3. ~Meets(PayoutsRoutes[2], PayoutsRoutes[3])
      BY <3>2 DEF Meets
    <3>. QED
      BY <3>1, <3>3
  <2>4. \A i \in {1, 2, 3} : ~Meets(PayoutsRoutes[i], PayoutsRoutes[4])
    BY DEF PayoutsRoutes, R, Meets
  <2>5. \A i \in {1, 2, 3, 4} : ~Meets(PayoutsRoutes[i], PayoutsRoutes[5])
    <3>1. \A i \in {2, 3, 4} : ~Meets(PayoutsRoutes[i], PayoutsRoutes[5])
      BY DEF PayoutsRoutes, R, Meets
    <3>2. /\ PayoutsRoutes[1].path = <<"preview">>
          /\ PayoutsRoutes[5].path = <<":">>
      BY DEF PayoutsRoutes, R
    <3>3. ~Meets(PayoutsRoutes[1], PayoutsRoutes[5])
      BY <3>2 DEF Meets
    <3>. QED
      BY <3>1, <3>3
  <2>6. \A i \in {1, 2, 3, 4, 5} : ~Meets(PayoutsRoutes[i], PayoutsRoutes[6])
    BY DEF PayoutsRoutes, R, Meets
  <2>7. \A i \in {1, 2, 3, 4, 5, 6} : ~Meets(PayoutsRoutes[i], PayoutsRoutes[7])
    BY DEF PayoutsRoutes, R, Meets
  <2>8. \A i \in {1, 2, 3, 4, 5, 6, 7} : ~Meets(PayoutsRoutes[i], PayoutsRoutes[8])
    <3>1. \A i \in {1, 2, 3, 4, 5, 6} : ~Meets(PayoutsRoutes[i], PayoutsRoutes[8])
      BY DEF PayoutsRoutes, R, Meets
    <3>2. /\ PayoutsRoutes[7].path = <<":", "approve">>
          /\ PayoutsRoutes[8].path = <<":", "pay">>
      BY DEF PayoutsRoutes, R
    <3>3. ~Meets(PayoutsRoutes[7], PayoutsRoutes[8])
      BY <3>2 DEF Meets
    <3>. QED
      BY <3>1, <3>3
  <2>9. \A i \in {1, 2, 3, 4, 5, 6, 7, 8} : ~Meets(PayoutsRoutes[i], PayoutsRoutes[9])
    BY DEF PayoutsRoutes, R, Meets
  <2>. QED
    BY <2>2, <2>3, <2>4, <2>5, <2>6, <2>7, <2>8, <2>9
<1>. QED
  BY <1>9, <1>10 DEF InOrder

LEMMA NotificationsTable == NotificationsRoutes \in Seq(GoodRoute) /\ InOrder(NotificationsRoutes)
<1>. DEFINE I == {1, 2, 3}
            paths == {<<>>, <<"read-all">>, <<":", "read">>}
            does == {<<OwnList("notifications")>>,
                     <<Own("notifications"), Put("notifications")>>}
<1>1. \A i \in I : /\ NotificationsRoutes[i] = R(NotificationsRoutes[i].verb, NotificationsRoutes[i].path, NotificationsRoutes[i].who, NotificationsRoutes[i].does)
                  /\ NotificationsRoutes[i].verb \in Verbs /\ NotificationsRoutes[i].path \in paths /\ NotificationsRoutes[i].does \in does
  BY DEF NotificationsRoutes, R, Verbs
<1>2. paths \subseteq Seq(Words)
  BY DEF Words
<1>3. does \subseteq Seq(Step)
  BY Steps DEF Models
<1>5. \A i \in {1, 2, 3} : NotificationsRoutes[i].who = AnyRole /\ NotificationsRoutes[i].does \in does
  BY DEF NotificationsRoutes, R
<1>6. does \subseteq Seq(ManagerStep)
  BY ManagerSteps DEF Models
<1>. HIDE DEF paths, does
<1>7. \A i \in {1, 2, 3} : NotificationsRoutes[i] \in GoodRoute
  BY <1>1, <1>2, <1>5, <1>6, ManagerGood
<1>9. NotificationsRoutes \in Seq(GoodRoute) /\ DOMAIN NotificationsRoutes = I
  BY <1>7 DEF NotificationsRoutes
<1>10. /\ \A i \in {1} : ~Meets(NotificationsRoutes[i], NotificationsRoutes[2])
       /\ \A i \in {1, 2} : ~Meets(NotificationsRoutes[i], NotificationsRoutes[3])
  <2>2. \A i \in {1} : ~Meets(NotificationsRoutes[i], NotificationsRoutes[2])
    BY DEF NotificationsRoutes, R, Meets
  <2>3. \A i \in {1, 2} : ~Meets(NotificationsRoutes[i], NotificationsRoutes[3])
    BY DEF NotificationsRoutes, R, Meets
  <2>. QED
    BY <2>2, <2>3
<1>. QED
  BY <1>9, <1>10 DEF InOrder

LEMMA AuthTable == AuthRoutes \in Seq(GoodRoute) /\ InOrder(AuthRoutes)
<1>. DEFINE I == {1, 2, 3, 4, 5}
<1>1. \A i \in I : /\ AuthRoutes[i] = R(AuthRoutes[i].verb, AuthRoutes[i].path, AuthRoutes[i].who, AuthRoutes[i].does)
                   /\ AuthRoutes[i].verb \in Verbs /\ AuthRoutes[i].does = <<>>
                   /\ AuthRoutes[i].who = Public
                   /\ AuthRoutes[i].path \in {<<"login">>, <<"refresh">>, <<"logout">>,
                                              <<"forgot-password">>, <<"reset-password">>}
  BY DEF AuthRoutes, R, Verbs
<1>2. {<<"login">>, <<"refresh">>, <<"logout">>, <<"forgot-password">>, <<"reset-password">>}
        \subseteq Seq(Words)
  BY DEF Words
<1>3. \A i \in I : AuthRoutes[i] \in GoodRoute
  BY <1>1, <1>2, PublicGood
<1>4. 1..5 = I
  OBVIOUS
<1>5. AuthRoutes \in [1..5 -> GoodRoute]
  BY <1>3, <1>4 DEF AuthRoutes
<1>6. \A i, j \in I : i < j => AuthRoutes[i].path[1] # AuthRoutes[j].path[1]
                               /\ AuthRoutes[i].path[1] # ":" /\ Len(AuthRoutes[j].path) = 1
  BY DEF AuthRoutes, R
<1>8. \A i \in I, j \in I : i < j => ~Meets(AuthRoutes[i], AuthRoutes[j])
  <2>. SUFFICES ASSUME NEW i \in I, NEW j \in I, i < j
                PROVE  ~Meets(AuthRoutes[i], AuthRoutes[j])
    OBVIOUS
  <2>1. AuthRoutes[j].path \in Seq(Words)
    BY <1>1, <1>2
  <2>2. AuthRoutes[j].path # <<>> /\ AuthRoutes[i].path[1] \notin {":", AuthRoutes[j].path[1]}
    BY <2>1, <1>6
  <2>. QED
    BY <2>1, <2>2, FirstSegments
<1>9. DOMAIN AuthRoutes = I
  BY <1>4, <1>5
<1>. HIDE DEF I
<1>10. AuthRoutes \in Seq(GoodRoute)
  <2>1. 5 \in Nat
    OBVIOUS
  <2>. QED
    BY <2>1, <1>5, FunctionIsSequence
<1>11. InOrder(AuthRoutes)
  BY <1>8, <1>9 DEF InOrder
<1>. QED
  BY <1>10, <1>11

LEMMA AnalyticsTable == AnalyticsRoutes \in Seq(GoodRoute) /\ InOrder(AnalyticsRoutes)
<1>. DEFINE I == {1, 2, 3, 4, 5, 6}
            paths == {<<"funnel">>, <<"sla">>, <<"revenue">>, <<"top-products">>,
                      <<"managers-comparison">>, <<"purchase-distribution">>}
            does == {<<List("leads")>>, <<Hand("deals")>>,
                     <<List("users"), List("deals"), List("leads")>>}
<1>1. \A i \in I :
        /\ AnalyticsRoutes[i] = R(AnalyticsRoutes[i].verb, AnalyticsRoutes[i].path, AnalyticsRoutes[i].who, AnalyticsRoutes[i].does)
        /\ AnalyticsRoutes[i].verb \in Verbs /\ AnalyticsRoutes[i].path \in paths
        /\ AnalyticsRoutes[i].does \in does /\ AnalyticsRoutes[i].who = Owner
  BY DEF AnalyticsRoutes, R, Verbs
<1>2. paths \subseteq Seq(Words)
  BY DEF Words
<1>3. does \subseteq Seq(Step)
  BY Steps DEF Models
<1>4. \A i, j \in I : i < j => AnalyticsRoutes[i].path[1] # AnalyticsRoutes[j].path[1]
                               /\ AnalyticsRoutes[i].path[1] # ":" /\ Len(AnalyticsRoutes[j].path) = 1
  BY DEF AnalyticsRoutes, R
<1>. HIDE DEF paths, does
<1>5. \A i \in I : AnalyticsRoutes[i] \in GoodRoute
  BY <1>1, <1>2, <1>3, OwnerGood
<1>6. 1..6 = I
  OBVIOUS
<1>7. AnalyticsRoutes \in [1..6 -> GoodRoute]
  BY <1>5, <1>6 DEF AnalyticsRoutes
<1>8. \A i \in I, j \in I : i < j => ~Meets(AnalyticsRoutes[i], AnalyticsRoutes[j])
  <2>. SUFFICES ASSUME NEW i \in I, NEW j \in I, i < j
                PROVE  ~Meets(AnalyticsRoutes[i], AnalyticsRoutes[j])
    OBVIOUS
  <2>1. AnalyticsRoutes[j].path \in Seq(Words)
    BY <1>1, <1>2
  <2>2. AnalyticsRoutes[j].path # <<>> /\ AnalyticsRoutes[i].path[1] \notin {":", AnalyticsRoutes[j].path[1]}
    BY <2>1, <1>4
  <2>. QED
    BY <2>1, <2>2, FirstSegments
<1>9. DOMAIN AnalyticsRoutes = I
  BY <1>6, <1>7
<1>. HIDE DEF I
<1>10. AnalyticsRoutes \in Seq(GoodRoute)
  <2>1. 6 \in Nat
    OBVIOUS
  <2>. QED
    BY <2>1, <1>7, FunctionIsSequence
<1>11. InOrder(AnalyticsRoutes)
  BY <1>8, <1>9 DEF InOrder
<1>. QED
  BY <1>10, <1>11

LEMMA AppTable == AppRoutes \in Seq(GoodRoute) /\ InOrder(AppRoutes)
<1>1. /\ AppRoutes[1] = R(AppRoutes[1].verb, AppRoutes[1].path, AppRoutes[1].who, AppRoutes[1].does)
      /\ AppRoutes[1].verb \in Verbs /\ AppRoutes[1].path = <<"health">>
      /\ AppRoutes[1].does = <<>> /\ AppRoutes[1].who = Public
  BY DEF AppRoutes, R, Verbs
<1>2. <<"health">> \in Seq(Words)
  BY DEF Words
<1>3. AppRoutes[1] \in GoodRoute
  BY <1>1, <1>2, PublicGood
<1>4. AppRoutes \in Seq(GoodRoute) /\ DOMAIN AppRoutes = 1..1
  BY <1>3 DEF AppRoutes
<1>. QED
  BY <1>4 DEF InOrder

(* The tables one after another.                                           *)

From(B, s) == \A i \in DOMAIN s : s[i].path # <<>> /\ s[i].path[1] \in B

Apart(s, t) == \A i \in DOMAIN s, j \in DOMAIN t : ~Meets(s[i], t[j])

Table(B, s) == s \in Seq(GoodRoute) /\ InOrder(s) /\ From(B, s)

LEMMA GoodPath ==
  ASSUME NEW s \in Seq(GoodRoute), NEW i \in DOMAIN s
  PROVE  s[i] \in GoodRoute /\ s[i].path \in Seq(Words)
BY DEF GoodRoute, Route

LEMMA Join ==
  ASSUME NEW S, NEW s \in Seq(S), NEW t \in Seq(S), NEW k \in DOMAIN (s \o t)
  PROVE  \/ k \in DOMAIN s /\ (s \o t)[k] = s[k]
         \/ /\ k - Len(s) \in DOMAIN t /\ (s \o t)[k] = t[k - Len(s)]
            /\ k > Len(s) /\ k \in Int /\ Len(s) \in Nat
OBVIOUS

LEMMA UnderTable ==
  ASSUME NEW base \in Words, NEW routes \in Seq(GoodRoute), InOrder(routes)
  PROVE  Table({base}, Under(base, routes))
<1>1. ASSUME NEW i \in DOMAIN routes
      PROVE  (<<base>> \o routes[i].path) # <<>> /\ (<<base>> \o routes[i].path)[1] = base
  BY GoodPath
<1>2. \A i \in DOMAIN routes : Under(base, routes)[i].path = <<base>> \o routes[i].path
  BY GoodPath DEF Under, GoodRoute, Route
<1>3. From({base}, Under(base, routes))
  BY <1>1, <1>2 DEF From, Under
<1>. QED
  BY <1>3, UnderGood, UnderInOrder DEF Table

LEMMA FromApart ==
  ASSUME NEW A, NEW B, NEW s \in Seq(GoodRoute), NEW t \in Seq(GoodRoute),
         From(A, s), From(B, t), A \cap B = {}, ":" \notin A
  PROVE  Apart(s, t)
<1>. SUFFICES ASSUME NEW i \in DOMAIN s, NEW j \in DOMAIN t
              PROVE  ~Meets(s[i], t[j])
  BY DEF Apart
<1>. QED
  BY GoodPath, FirstSegments DEF From

LEMMA JoinApart ==
  ASSUME NEW s \in Seq(GoodRoute), NEW t \in Seq(GoodRoute), NEW u \in Seq(GoodRoute),
         Apart(s, u), Apart(t, u)
  PROVE  Apart(s \o t, u)
BY Join DEF Apart

LEMMA JoinInOrder ==
  ASSUME NEW A, NEW B, NEW s, NEW t, Table(A, s), Table(B, t), Apart(s, t)
  PROVE  Table(A \cup B, s \o t)
<1>1. s \in Seq(GoodRoute) /\ t \in Seq(GoodRoute) /\ (s \o t) \in Seq(GoodRoute)
  BY DEF Table
<1>2. From(A \cup B, s \o t)
  BY <1>1, Join DEF From, Table
<1>3. InOrder(s \o t)
  <2>. SUFFICES ASSUME NEW i \in DOMAIN (s \o t), NEW j \in DOMAIN (s \o t), i < j
                PROVE  ~Meets((s \o t)[i], (s \o t)[j])
    BY DEF InOrder
  <2>1. DOMAIN (s \o t) \subseteq Nat /\ DOMAIN s = 1..Len(s) /\ Len(s) \in Nat
    BY <1>1
  <2>2. CASE j \in DOMAIN s /\ (s \o t)[j] = s[j]
    <3>1. i \in DOMAIN s /\ (s \o t)[i] = s[i]
      BY <1>1, <2>1, <2>2, Join
    <3>. QED
      BY <3>1, <2>2 DEF Table, InOrder
  <2>3. CASE j - Len(s) \in DOMAIN t /\ (s \o t)[j] = t[j - Len(s)]
    <3>1. CASE i \in DOMAIN s /\ (s \o t)[i] = s[i]
      BY <2>3, <3>1 DEF Apart
    <3>2. CASE i - Len(s) \in DOMAIN t /\ (s \o t)[i] = t[i - Len(s)]
      BY <2>1, <2>3, <3>2 DEF Table, InOrder
    <3>. QED
      BY <1>1, <3>1, <3>2, Join
  <2>. QED
    BY <1>1, <2>2, <2>3, Join
<1>. QED
  BY <1>1, <1>2, <1>3 DEF Table

LEMMA JoinTables ==
  ASSUME NEW A, NEW B, NEW s, NEW t, Table(A, s), Table(B, t), A \cap B = {}, ":" \notin A
  PROVE  Table(A \cup B, s \o t)
BY FromApart, JoinInOrder DEF Table

(* The two controllers before it leave the stock routes alone.             *)
LEMMA StockApart ==
  ASSUME NEW base \in Words, NEW routes \in Seq(GoodRoute),
         \A i \in DOMAIN routes : /\ Len(routes[i].path) \in {0, 1, 2}
                                  /\ routes[i].verb = "GET" => Len(routes[i].path) \in {0, 1}
  PROVE  Apart(Under(base, routes), StockRoutes)
<1>1. DOMAIN StockRoutes = {1, 2, 3}
  BY DEF StockRoutes
<1>2. \A j \in {1, 2} : StockRoutes[j].verb = "GET" /\ Len(StockRoutes[j].path) = 3
  BY DEF StockRoutes, R
<1>3. Len(StockRoutes[3].path) = 4
  BY DEF StockRoutes, R
<1>4. \A i \in DOMAIN routes : /\ Under(base, routes)[i].verb = routes[i].verb
                               /\ Len(Under(base, routes)[i].path) = 1 + Len(routes[i].path)
  BY GoodPath DEF Under, GoodRoute, Route
<1>5. DOMAIN Under(base, routes) = DOMAIN routes
  BY DEF Under
<1>6. ASSUME NEW i \in DOMAIN routes
      PROVE  /\ Len(Under(base, routes)[i].path) \in {1, 2, 3}
             /\ Under(base, routes)[i].verb = "GET" => Len(Under(base, routes)[i].path) # 3
  <2>. DEFINE l == Len(routes[i].path)
  <2>1. l \in {0, 1, 2} /\ (routes[i].verb = "GET" => l \in {0, 1})
    OBVIOUS
  <2>2. Len(Under(base, routes)[i].path) = 1 + l /\ Under(base, routes)[i].verb = routes[i].verb
    BY <1>4
  <2>. HIDE DEF l
  <2>. QED
    BY <2>1, <2>2
<1>7. ASSUME NEW i \in DOMAIN routes, NEW j \in {1, 2, 3}
      PROVE  ~Meets(Under(base, routes)[i], StockRoutes[j])
  <2>. DEFINE r == Under(base, routes)[i]
              t == StockRoutes[j]
  <2>1. /\ (t.verb = "GET" /\ Len(t.path) = 3) \/ Len(t.path) = 4
        /\ Len(r.path) \in {1, 2, 3}
        /\ r.verb = "GET" => Len(r.path) # 3
    BY <1>2, <1>3, <1>6
  <2>. HIDE DEF r, t
  <2>2. ASSUME Meets(r, t)
        PROVE  r.verb = t.verb /\ Len(r.path) = Len(t.path)
    BY <2>2 DEF Meets
  <2>3. ~Meets(r, t)
    <3>. DEFINE m == Len(r.path)
                n == Len(t.path)
    <3>1. (t.verb = "GET" /\ n = 3) \/ n = 4
      BY <2>1
    <3>2. m = 1 \/ m = 2 \/ m = 3
      BY <2>1
    <3>3. r.verb = "GET" => m # 3
      BY <2>1
    <3>4. Meets(r, t) => r.verb = t.verb /\ m = n
      BY <2>2
    <3>. HIDE DEF m, n
    <3>. QED
      BY <3>1, <3>2, <3>3, <3>4
  <2>. QED
    BY <2>3 DEF r, t
<1>. QED
  BY <1>1, <1>5, <1>7 DEF Apart

LEMMA RoutesTable == Routes \in Seq(GoodRoute) /\ InOrder(Routes)
<1>. DEFINE t1 == Under("auth", AuthRoutes) \o Under("users", UsersRoutes)
                  \o Under("categories", CategoriesRoutes)
            t2 == t1 \o Under("products", ProductsRoutes)
            t3 == t2 \o Under("warehouses", WarehousesRoutes)
            t4 == t3 \o StockRoutes
            t5 == t4 \o Under("delivery-options", DeliveryOptionsRoutes)
                  \o Under("scripts", ScriptsRoutes)
            t6 == t5 \o Under("leads", LeadsRoutes) \o Under("delivery-calc", DeliveryCalcRoutes)
            t7 == t6 \o Under("deals", DealsRoutes) \o Under("payouts", PayoutsRoutes)
            t8 == t7 \o Under("analytics", AnalyticsRoutes)
                  \o Under("notifications", NotificationsRoutes)
<1>1. /\ Table({"auth"}, Under("auth", AuthRoutes))
      /\ Table({"users"}, Under("users", UsersRoutes))
      /\ Table({"categories"}, Under("categories", CategoriesRoutes))
  BY AuthTable, UsersTable, CategoriesTable, UnderTable DEF Words
<1>2. /\ Table({"products"}, Under("products", ProductsRoutes))
      /\ Table({"warehouses"}, Under("warehouses", WarehousesRoutes))
  BY ProductsTable, WarehousesTable, UnderTable DEF Words
<1>3. /\ Table({"delivery-options"}, Under("delivery-options", DeliveryOptionsRoutes))
      /\ Table({"scripts"}, Under("scripts", ScriptsRoutes))
      /\ Table({"leads"}, Under("leads", LeadsRoutes))
      /\ Table({"delivery-calc"}, Under("delivery-calc", DeliveryCalcRoutes))
  BY DeliveryOptionsTable, ScriptsTable, LeadsTable, DeliveryCalcTable, UnderTable DEF Words
<1>4. /\ Table({"deals"}, Under("deals", DealsRoutes))
      /\ Table({"payouts"}, Under("payouts", PayoutsRoutes))
      /\ Table({"analytics"}, Under("analytics", AnalyticsRoutes))
      /\ Table({"notifications"}, Under("notifications", NotificationsRoutes))
  BY DealsTable, PayoutsTable, AnalyticsTable, NotificationsTable, UnderTable DEF Words
<1>5. Table({"warehouses", "products"}, StockRoutes)
  <2>1. DOMAIN StockRoutes = {1, 2, 3}
    BY DEF StockRoutes
  <2>2. \A i \in {1, 2, 3} : StockRoutes[i].path # <<>>
                             /\ StockRoutes[i].path[1] \in {"warehouses", "products"}
    BY DEF StockRoutes, R
  <2>. QED
    BY <2>1, <2>2, StockTable DEF Table, From
<1>6. Table({"health"}, AppRoutes)
  <2>1. DOMAIN AppRoutes = {1}
    BY DEF AppRoutes
  <2>2. AppRoutes[1].path # <<>> /\ AppRoutes[1].path[1] = "health"
    BY DEF AppRoutes, R
  <2>. QED
    BY <2>1, <2>2, AppTable DEF Table, From
<1>7. Table({"auth", "users"} \cup {"categories"}, t1)
  <2>1. Table({"auth"} \cup {"users"}, Under("auth", AuthRoutes) \o Under("users", UsersRoutes))
    BY <1>1, JoinTables
  <2>2. {"auth"} \cup {"users"} = {"auth", "users"}
    OBVIOUS
  <2>. QED
    BY <1>1, <2>1, <2>2, JoinTables
<1>. HIDE DEF t1
<1>8. Table({"auth", "users", "categories"} \cup {"products"}, t2)
  BY <1>2, <1>7, JoinTables
<1>9. Table({"auth", "users", "categories", "products"} \cup {"warehouses"}, t3)
  BY <1>2, <1>8, JoinTables
<1>10. Apart(t3, StockRoutes)
  <2>1. Apart(t1, StockRoutes)
    BY <1>5, <1>7, FromApart DEF Table
  <2>2. Apart(Under("products", ProductsRoutes), StockRoutes)
    <3>1. \A i \in {1, 2, 3, 4, 5, 6} :
             /\ Len(ProductsRoutes[i].path) \in {0, 1, 2}
             /\ ProductsRoutes[i].verb = "GET" => Len(ProductsRoutes[i].path) \in {0, 1}
      BY DEF ProductsRoutes, R
    <3>2. DOMAIN ProductsRoutes = {1, 2, 3, 4, 5, 6}
      BY DEF ProductsRoutes
    <3>. QED
      BY <3>1, <3>2, ProductsTable, StockApart DEF Words
  <2>3. Apart(Under("warehouses", WarehousesRoutes), StockRoutes)
    <3>1. \A i \in {1, 2, 3, 4, 5} :
             /\ Len(WarehousesRoutes[i].path) \in {0, 1, 2}
             /\ WarehousesRoutes[i].verb = "GET" => Len(WarehousesRoutes[i].path) \in {0, 1}
      BY DEF WarehousesRoutes, R
    <3>2. DOMAIN WarehousesRoutes = {1, 2, 3, 4, 5}
      BY DEF WarehousesRoutes
    <3>. QED
      BY <3>1, <3>2, WarehousesTable, StockApart DEF Words
  <2>4. t1 \in Seq(GoodRoute) /\ t2 \in Seq(GoodRoute) /\ StockRoutes \in Seq(GoodRoute)
        /\ Under("products", ProductsRoutes) \in Seq(GoodRoute)
        /\ Under("warehouses", WarehousesRoutes) \in Seq(GoodRoute)
    BY <1>2, <1>5, <1>7, <1>8 DEF Table
  <2>5. Apart(t2, StockRoutes)
    BY <2>1, <2>2, <2>4, JoinApart
  <2>. HIDE DEF t2
  <2>. QED
    BY <2>3, <2>4, <2>5, JoinApart
<1>11. Table({"auth", "users", "categories", "products"} \cup {"warehouses"}
             \cup {"warehouses", "products"}, t4)
  <2>. HIDE DEF t3
  <2>. QED
    BY <1>5, <1>9, <1>10, JoinInOrder
<1>. DEFINE b4 == {"auth", "users", "categories", "products"} \cup {"warehouses"}
                  \cup {"warehouses", "products"}
<1>. HIDE DEF t4
<1>12. Table(b4 \cup {"delivery-options"} \cup {"scripts"}, t5)
  <2>1. Table(b4 \cup {"delivery-options"},
              t4 \o Under("delivery-options", DeliveryOptionsRoutes))
    BY <1>3, <1>11, JoinTables
  <2>. QED
    BY <1>3, <2>1, JoinTables
<1>. DEFINE b5 == b4 \cup {"delivery-options"} \cup {"scripts"}
<1>. HIDE DEF t5
<1>13. Table(b5 \cup {"leads"} \cup {"delivery-calc"}, t6)
  <2>1. Table(b5 \cup {"leads"}, t5 \o Under("leads", LeadsRoutes))
    BY <1>3, <1>12, JoinTables
  <2>. QED
    BY <1>3, <2>1, JoinTables
<1>. DEFINE b6 == b5 \cup {"leads"} \cup {"delivery-calc"}
<1>. HIDE DEF t6
<1>14. Table(b6 \cup {"deals"} \cup {"payouts"}, t7)
  <2>1. Table(b6 \cup {"deals"}, t6 \o Under("deals", DealsRoutes))
    BY <1>4, <1>13, JoinTables
  <2>. QED
    BY <1>4, <2>1, JoinTables
<1>. DEFINE b7 == b6 \cup {"deals"} \cup {"payouts"}
<1>. HIDE DEF t7
<1>15. Table(b7 \cup {"analytics"} \cup {"notifications"}, t8)
  <2>1. Table(b7 \cup {"analytics"}, t7 \o Under("analytics", AnalyticsRoutes))
    BY <1>4, <1>14, JoinTables
  <2>. QED
    BY <1>4, <2>1, JoinTables
<1>. DEFINE b8 == b7 \cup {"analytics"} \cup {"notifications"}
<1>. HIDE DEF t8
<1>16. Table(b8 \cup {"health"}, t8 \o AppRoutes)
  BY <1>6, <1>15, JoinTables
<1>17. Routes = t8 \o AppRoutes
  BY DEF Routes, t1, t2, t3, t4, t5, t6, t7, t8
<1>. QED
  BY <1>16, <1>17 DEF Table

(* The request that a client means for a route gets to this route.         *)
LEMMA Dispatched == \A i \in DOMAIN Routes : Dispatch[i] = i
<1>. SUFFICES ASSUME NEW i \in DOMAIN Routes
              PROVE  Dispatch[i] = i
  OBVIOUS
<1>. DEFINE path == Routes[i].path
            p == [k \in DOMAIN path |-> IF path[k] = ":" THEN "id" ELSE path[k]]
            Gets(j) == /\ Matches(Routes[j], Routes[i].verb, p)
                       /\ \A k \in 1..(j - 1) : ~Matches(Routes[k], Routes[i].verb, p)
<1>1. Dispatch[i] = CHOOSE j \in DOMAIN Routes : Gets(j)
  BY DEF Dispatch
<1>2. Routes \in Seq(GoodRoute) /\ InOrder(Routes)
  BY RoutesTable
<1>3. DOMAIN Routes = 1..Len(Routes) /\ Len(Routes) \in Nat /\ i \in Nat
  BY <1>2
<1>. HIDE DEF Routes
<1>4. path \in Seq(Words) /\ DOMAIN path = 1..Len(path) /\ Len(path) \in Nat
  BY <1>2, GoodPath
<1>5. p \in Seq(Words \cup {"id"}) /\ Len(p) = Len(path) /\ DOMAIN p = DOMAIN path
  <2>. HIDE DEF path
  <2>1. p \in [1..Len(path) -> Words \cup {"id"}]
    BY <1>4
  <2>. QED
    BY <1>4, <2>1
<1>6. \A k \in DOMAIN path : p[k] = IF path[k] = ":" THEN "id" ELSE path[k]
  OBVIOUS
<1>. HIDE DEF p
<1>7. Matches(Routes[i], Routes[i].verb, p)
  BY <1>5, <1>6 DEF Matches
<1>8. ASSUME NEW k \in DOMAIN Routes, Matches(Routes[k], Routes[i].verb, p)
      PROVE  Meets(Routes[k], Routes[i])
  <2>1. Routes[k].verb = Routes[i].verb /\ Len(Routes[k].path) = Len(path)
    BY <1>5, <1>8 DEF Matches
  <2>2. Routes[k].path \in Seq(Words)
    BY <1>2, GoodPath
  <2>3. ASSUME NEW m \in DOMAIN path
        PROVE  Routes[k].path[m] \in {":", path[m]}
    <3>1. Routes[k].path[m] \in {":", p[m]}
      BY <1>5, <1>8 DEF Matches
    <3>2. Routes[k].path[m] \in Words
      BY <1>4, <2>1, <2>2
    <3>3. "id" \notin Words
      BY DEF Words
    <3>. QED
      BY <1>6, <3>1, <3>2, <3>3
  <2>. QED
    BY <2>1, <2>3 DEF Meets
<1>9. \A k \in DOMAIN Routes : k < i => ~Matches(Routes[k], Routes[i].verb, p)
  BY <1>2, <1>8 DEF InOrder
<1>10. Gets(i)
  BY <1>3, <1>7, <1>9
<1>11. ASSUME NEW j \in DOMAIN Routes, Gets(j)
       PROVE  j = i
  <2>1. j < i \/ j = i \/ i < j
    BY <1>3
  <2>2. ~(j < i)
    BY <1>9, <1>11
  <2>3. ~(i < j)
    BY <1>3, <1>7, <1>11
  <2>. QED
    BY <2>1, <2>2, <2>3
<1>. HIDE DEF Gets
<1>. QED
  BY <1>1, <1>10, <1>11

-----------------------------------------------------------------------------
(* The inductive invariant of the requests                                 *)

RequestTypes ==
  /\ active \in [Users -> BOOLEAN]
  /\ assigned \in [Rows -> Users \cup {Nobody}]
  /\ pc \in [Callers -> {"idle", "authenticate", "tenant", "role", "handler"}]
  /\ req \in [Callers -> [user : Users \cup {Nobody}, wanted : Nat, route : Nat,
                          does : Seq(Step), job : Tenants \cup {Nobody}]]
  /\ cls \in [Callers -> Tenants \cup {Nobody}]
  /\ at \in [Callers -> SUBSET Rows]
  /\ reached \in [Callers -> SUBSET Tenants]
  /\ got \in [Callers -> SUBSET (Rows \X Models)]
  /\ theirs \in [Callers -> SUBSET Rows]
  /\ admitted \in [Callers -> BOOLEAN]

(* The tenant that a request or a job is for.                              *)
TenantFor(c) == IF req[c].user = Nobody THEN req[c].job ELSE TenantOf[req[c].user]

Untouched(c) == at[c] = {} /\ reached[c] = {} /\ got[c] = {}

Waiting(c) == pc[c] = "idle" => req[c] = Idle /\ cls[c] = Nobody /\ Untouched(c)

Guarded(c) ==
  pc[c] \in {"authenticate", "tenant", "role"} =>
    /\ req[c].user \in Users /\ req[c].route \in DOMAIN Routes
    /\ req[c].does = Routes[req[c].route].does /\ Untouched(c)

InTenant(c) ==
  /\ cls[c] # Nobody => cls[c] = TenantFor(c)
  /\ \A r \in at[c] : RowTenant[r] = TenantFor(c)
  /\ \A t \in reached[c] : t = TenantFor(c)

(* Rows of model m that a manager u may have been shown.                   *)
Shown(u, leads, r, m) ==
  /\ m = "leads" => r \in leads
  /\ m \in {"deals", "payouts", "notifications"} => Holder[r] = u

InHand(c) ==
  req[c].user \in Users =>
    /\ LeadsOf(req[c].user) \subseteq theirs[c]
    /\ RoleOf[req[c].user] = "MANAGER" =>
         \A x \in got[c] : Shown(req[c].user, theirs[c], x[1], x[2])

Allowed(c) ==
  pc[c] = "handler" /\ req[c].user \in Users /\ RoleOf[req[c].user] = "MANAGER" =>
    req[c].does \in Seq(ManagerStep)

LetIn(c) ==
  req[c].user \in Users =>
    /\ active[req[c].user] \/ pc[c] \in {"tenant", "role"} => admitted[c]
    /\ pc[c] = "handler" => admitted[c] \/ (req[c].does = <<>> /\ reached[c] = {})

Directed(c) == req[c].route = req[c].wanted

CallerInv(c) ==
  /\ Waiting(c) /\ Guarded(c) /\ InTenant(c) /\ InHand(c) /\ Allowed(c) /\ LetIn(c)
  /\ Directed(c)

RequestInv == RequestTypes /\ \A c \in Callers : CallerInv(c)

SameCaller(x) ==
  /\ pc'[x] = pc[x] /\ req'[x] = req[x] /\ cls'[x] = cls[x] /\ at'[x] = at[x]
  /\ reached'[x] = reached[x] /\ got'[x] = got[x] /\ theirs'[x] = theirs[x]
  /\ admitted'[x] = admitted[x]

LEMMA OthersKeep ==
  ASSUME NEW x \in Callers, CallerInv(x), SameCaller(x), UNCHANGED <<active, assigned>>
  PROVE  CallerInv(x)'
BY DEF SameCaller, CallerInv, Waiting, Untouched, Guarded, InTenant, TenantFor, InHand, Shown,
   LeadsOf, Allowed, LetIn, Directed

LEMMA NobodyIsNoUser == Nobody \notin Users /\ Nobody \notin Tenants
BY RequestsAssumption

LEMMA IdleType ==
  Idle \in [user : Users \cup {Nobody}, wanted : Nat, route : Nat,
            does : Seq(Step), job : Tenants \cup {Nobody}]
BY DEF Idle

(* A response leaves nothing behind.                                       *)
LEMMA Responds ==
  ASSUME NEW c \in Callers, RequestInv, Respond(c)
  PROVE  RequestInv'
<1>1. RequestTypes'
  BY IdleType DEF RequestInv, RequestTypes, Respond
<1>2. /\ pc'[c] = "idle" /\ req'[c] = Idle /\ cls'[c] = Nobody /\ at'[c] = {}
      /\ reached'[c] = {} /\ got'[c] = {}
  BY DEF RequestInv, RequestTypes, Respond
<1>3. CallerInv(c)'
  BY <1>2, NobodyIsNoUser DEF CallerInv, Waiting, Untouched, Guarded, InTenant, InHand, Allowed,
     LetIn, Directed, Idle
<1>4. ASSUME NEW x \in Callers, x # c
      PROVE  CallerInv(x)'
  <2>1. SameCaller(x) /\ UNCHANGED <<active, assigned>>
    BY <1>4 DEF RequestInv, RequestTypes, Respond, SameCaller
  <2>. QED
    BY <2>1, OthersKeep DEF RequestInv
<1>. QED
  BY <1>1, <1>3, <1>4 DEF RequestInv

LEMMA RoutesAreGood ==
  ASSUME NEW i \in DOMAIN Routes
  PROVE  /\ i \in Nat /\ Routes[i].does \in Seq(Step)
         /\ Routes[i].who = Public => Routes[i].does = <<>>
         /\ "MANAGER" \in Routes[i].who => Routes[i].does \in Seq(ManagerStep)
BY RoutesTable DEF GoodRoute, Route

LEMMA Sends ==
  ASSUME NEW c \in Callers, NEW u \in Users, NEW i \in DOMAIN Routes, RequestInv, Send(c, u, i)
  PROVE  RequestInv'
<1>. DEFINE new == [user |-> u, wanted |-> i, route |-> i, does |-> Routes[i].does,
                    job |-> Nobody]
<1>1. Dispatch[i] = i
  BY Dispatched
<1>2. /\ pc[c] = "idle" /\ req' = [req EXCEPT ![c] = new]
      /\ pc' = [pc EXCEPT ![c] = IF Routes[i].who = Public THEN "handler" ELSE "authenticate"]
      /\ theirs' = [theirs EXCEPT ![c] = LeadsOf(u)]
      /\ admitted' = [admitted EXCEPT ![c] = active[u]]
      /\ UNCHANGED <<active, assigned, cls, at, reached, got>>
  BY <1>1 DEF Send
<1>3. new \in [user : Users \cup {Nobody}, wanted : Nat, route : Nat,
               does : Seq(Step), job : Tenants \cup {Nobody}]
  BY RoutesAreGood
<1>4. /\ new.user = u /\ new.wanted = i /\ new.route = i /\ new.does = Routes[i].does
  OBVIOUS
<1>. HIDE DEF new
<1>5. RequestTypes'
  BY <1>2, <1>3 DEF RequestInv, RequestTypes, LeadsOf
<1>6. /\ cls[c] = Nobody /\ Untouched(c)
  BY <1>2 DEF RequestInv, CallerInv, Waiting
<1>7. /\ pc'[c] = IF Routes[i].who = Public THEN "handler" ELSE "authenticate"
      /\ req'[c] = new /\ theirs'[c] = LeadsOf(u) /\ admitted'[c] = active[u]
      /\ cls'[c] = Nobody /\ at'[c] = {} /\ reached'[c] = {} /\ got'[c] = {}
  BY <1>2, <1>6 DEF RequestInv, RequestTypes, Untouched
<1>8. CallerInv(c)'
  <2>1. Waiting(c)' /\ Guarded(c)' /\ Directed(c)'
    BY <1>4, <1>7 DEF Waiting, Guarded, Untouched, Directed
  <2>2. InTenant(c)'
    BY <1>7 DEF InTenant
  <2>3. InHand(c)'
    BY <1>2, <1>4, <1>7 DEF InHand, LeadsOf
  <2>4. Allowed(c)'
    <3>1. pc'[c] = "handler" => new.does = <<>>
      BY <1>4, <1>7, RoutesAreGood
    <3>2. <<>> \in Seq(ManagerStep)
      OBVIOUS
    <3>. QED
      BY <1>7, <3>1, <3>2 DEF Allowed
  <2>5. LetIn(c)'
    <3>1. pc'[c] = "handler" => new.does = <<>>
      BY <1>4, <1>7, RoutesAreGood
    <3>2. pc'[c] \notin {"tenant", "role"}
      BY <1>7
    <3>. QED
      BY <1>2, <1>4, <1>7, <3>1, <3>2 DEF LetIn
  <2>. QED
    BY <2>1, <2>2, <2>3, <2>4, <2>5 DEF CallerInv
<1>9. ASSUME NEW x \in Callers, x # c
      PROVE  CallerInv(x)'
  <2>1. SameCaller(x) /\ UNCHANGED <<active, assigned>>
    BY <1>2, <1>9 DEF RequestInv, RequestTypes, SameCaller
  <2>. QED
    BY <2>1, OthersKeep DEF RequestInv
<1>. QED
  BY <1>5, <1>8, <1>9 DEF RequestInv

LEMMA JobsStart ==
  ASSUME NEW c \in Callers, NEW t \in Tenants, RequestInv, StartJob(c, t)
  PROVE  RequestInv'
<1>. DEFINE new == [Idle EXCEPT !.job = t,
                                !.does = <<List("notifications"), Add("notifications")>>]
<1>1. new \in [user : Users \cup {Nobody}, wanted : Nat, route : Nat,
               does : Seq(Step), job : Tenants \cup {Nobody}]
  <2>1. <<List("notifications"), Add("notifications")>> \in Seq(Step)
    BY DEF Step, Kinds, Models, List, Add
  <2>. QED
    BY <2>1 DEF Idle
<1>2. new.user = Nobody /\ new.job = t /\ new.route = 0 /\ new.wanted = 0
  BY DEF Idle
<1>3. /\ req' = [req EXCEPT ![c] = new]
      /\ pc' = [pc EXCEPT ![c] = "handler"] /\ cls' = [cls EXCEPT ![c] = t]
      /\ UNCHANGED <<active, assigned, at, reached, got, theirs, admitted>>
  BY DEF StartJob
<1>. HIDE DEF new
<1>4. RequestTypes'
  BY <1>1, <1>3 DEF RequestInv, RequestTypes
<1>5. Untouched(c)
  BY DEF RequestInv, CallerInv, Waiting, StartJob
<1>6. /\ pc'[c] = "handler" /\ req'[c] = new /\ cls'[c] = t /\ at'[c] = {} /\ reached'[c] = {}
      /\ got'[c] = {}
  BY <1>3, <1>5 DEF RequestInv, RequestTypes, StartJob, Untouched
<1>7. CallerInv(c)'
  BY <1>2, <1>6, NobodyIsNoUser DEF CallerInv, Waiting, Guarded, InTenant, TenantFor, InHand,
     Allowed, LetIn, Directed
<1>8. ASSUME NEW x \in Callers, x # c
      PROVE  CallerInv(x)'
  <2>1. SameCaller(x) /\ UNCHANGED <<active, assigned>>
    BY <1>8 DEF RequestInv, RequestTypes, StartJob, SameCaller
  <2>. QED
    BY <2>1, OthersKeep DEF RequestInv
<1>. QED
  BY <1>4, <1>7, <1>8 DEF RequestInv

(* The three guards.                                                       *)

LEMMA GuardsPass ==
  ASSUME NEW c \in Callers, RequestInv,
         NEW from \in {"authenticate", "tenant", "role"}, NEW to \in {"tenant", "role", "handler"},
         Pass(c, from, to),
         cls' \in [Callers -> Tenants \cup {Nobody}], \A x \in Callers \ {c} : cls'[x] = cls[x],
         cls'[c] \in {cls[c], TenantOf[req[c].user]},
         active[req[c].user] \/ from # "authenticate",
         to = "handler" => RoleOf[req[c].user] \in Routes[req[c].route].who
  PROVE  RequestInv'
<1>1. RequestTypes'
  BY DEF RequestInv, RequestTypes, Pass
<1>2. /\ req[c].user \in Users /\ req[c].route \in DOMAIN Routes
      /\ req[c].does = Routes[req[c].route].does /\ Untouched(c)
  BY DEF RequestInv, CallerInv, Guarded, Pass
<1>3. admitted[c]
  BY <1>2 DEF RequestInv, CallerInv, LetIn, Pass
<1>4. /\ pc[c] = from /\ pc'[c] = to
      /\ UNCHANGED <<active, assigned, req, at, reached, got, theirs, admitted>>
  BY DEF RequestInv, RequestTypes, Pass
<1>5. CallerInv(c) /\ RequestTypes
  BY DEF RequestInv
<1>6. Waiting(c)' /\ Guarded(c)' /\ Directed(c)'
  BY <1>2, <1>4, <1>5 DEF CallerInv, Waiting, Guarded, Untouched, Directed
<1>7. InTenant(c)'
  BY <1>2, <1>4, <1>5, NobodyIsNoUser DEF CallerInv, InTenant, TenantFor
<1>8. InHand(c)' /\ LetIn(c)'
  BY <1>2, <1>3, <1>4, <1>5 DEF CallerInv, InHand, LeadsOf, Shown, LetIn
<1>9. Allowed(c)'
  BY <1>2, <1>4, RoutesAreGood DEF Allowed
<1>10. ASSUME NEW x \in Callers, x # c
       PROVE  CallerInv(x)'
  <2>1. SameCaller(x) /\ UNCHANGED <<active, assigned>>
    BY <1>10 DEF RequestInv, RequestTypes, Pass, SameCaller
  <2>. QED
    BY <2>1, OthersKeep DEF RequestInv
<1>. QED
  BY <1>1, <1>6, <1>7, <1>8, <1>9, <1>10 DEF RequestInv, CallerInv

LEMMA Authenticates ==
  ASSUME NEW c \in Callers, RequestInv, Authenticate(c)
  PROVE  RequestInv'
<1>1. CASE active[req[c].user]
  <2>1. Pass(c, "authenticate", "tenant") /\ UNCHANGED cls
    BY <1>1 DEF Authenticate
  <2>2. cls \in [Callers -> Tenants \cup {Nobody}]
    BY DEF RequestInv, RequestTypes
  <2>. QED
    BY <1>1, <2>1, <2>2, GuardsPass
<1>2. CASE ~active[req[c].user]
  BY <1>2, Responds DEF Authenticate
<1>. QED
  BY <1>1, <1>2

LEMMA EstablishesTenant ==
  ASSUME NEW c \in Callers, RequestInv, EstablishTenant(c)
  PROVE  RequestInv'
<1>1. Pass(c, "tenant", "role")
  BY DEF EstablishTenant
<1>2. req[c].user \in Users
  BY <1>1 DEF RequestInv, CallerInv, Guarded, Pass
<1>3. /\ cls' \in [Callers -> Tenants \cup {Nobody}] /\ cls'[c] = TenantOf[req[c].user]
      /\ \A x \in Callers \ {c} : cls'[x] = cls[x]
  BY <1>2, RequestsAssumption DEF EstablishTenant, RequestInv, RequestTypes
<1>. QED
  BY <1>1, <1>3, GuardsPass

LEMMA ChecksRole ==
  ASSUME NEW c \in Callers, RequestInv, CheckRole(c)
  PROVE  RequestInv'
<1>1. CASE RoleOf[req[c].user] \in Routes[req[c].route].who
  <2>1. Pass(c, "role", "handler") /\ UNCHANGED cls
    BY <1>1 DEF CheckRole
  <2>2. cls \in [Callers -> Tenants \cup {Nobody}]
    BY DEF RequestInv, RequestTypes
  <2>. QED
    BY <1>1, <2>1, <2>2, GuardsPass
<1>2. CASE RoleOf[req[c].user] \notin Routes[req[c].route].who
  BY <1>2, Responds DEF CheckRole
<1>. QED
  BY <1>1, <1>2

(* The accesses of a handler: they take the next of its steps, touch its   *)
(* own tenant alone, and a manager is shown only what is his.              *)

LEMMA Accesses ==
  ASSUME NEW c \in Callers, RequestInv, pc[c] = "handler", req[c].does # <<>>,
         NEW rows \in SUBSET Rows, NEW tenants \in SUBSET {TenantFor(c)},
         tenants \subseteq Tenants,
         NEW found \in SUBSET Rows, \A r \in found : RowTenant[r] = TenantFor(c),
         req[c].user \in Users /\ RoleOf[req[c].user] = "MANAGER" =>
           \A r \in rows : Shown(req[c].user, theirs[c], r, Model(c)),
         Access(c, rows, tenants, found), UNCHANGED assigned
  PROVE  RequestInv'
<1>. DEFINE new == [req[c] EXCEPT !.does = Tail(@)]
<1>1. RequestTypes /\ CallerInv(c)
  BY DEF RequestInv
<1>2. /\ req[c] \in [user : Users \cup {Nobody}, wanted : Nat, route : Nat,
                     does : Seq(Step), job : Tenants \cup {Nobody}]
  BY <1>1 DEF RequestTypes
<1>3. Tail(req[c].does) \in Seq(Step) /\ Head(req[c].does) \in Step
  BY <1>2
<1>4. Model(c) \in Models
  BY <1>3 DEF Model, Step
<1>5. /\ new \in [user : Users \cup {Nobody}, wanted : Nat, route : Nat,
                  does : Seq(Step), job : Tenants \cup {Nobody}]
      /\ new.user = req[c].user /\ new.job = req[c].job /\ new.wanted = req[c].wanted
      /\ new.route = req[c].route /\ new.does = Tail(req[c].does)
  BY <1>2, <1>3
<1>6. /\ req' = [req EXCEPT ![c] = new] /\ at' = [at EXCEPT ![c] = found]
      /\ reached' = [reached EXCEPT ![c] = reached[c] \cup tenants]
      /\ got' = [got EXCEPT ![c] = got[c] \cup (rows \X {Model(c)})]
      /\ UNCHANGED <<active, assigned, pc, cls, theirs, admitted>>
  BY DEF Access
<1>. HIDE DEF new
<1>7. RequestTypes'
  BY <1>1, <1>4, <1>5, <1>6 DEF RequestTypes
<1>8. /\ req'[c] = new /\ at'[c] = found /\ reached'[c] = reached[c] \cup tenants
      /\ got'[c] = got[c] \cup (rows \X {Model(c)}) /\ pc'[c] = "handler"
      /\ UNCHANGED <<active, assigned, pc, cls, theirs, admitted>>
  BY <1>1, <1>6 DEF RequestTypes
<1>9. Waiting(c)' /\ Guarded(c)' /\ Directed(c)'
  BY <1>1, <1>5, <1>8 DEF CallerInv, Waiting, Guarded, Directed
<1>10. InTenant(c)'
  <2>1. TenantFor(c)' = TenantFor(c)
    BY <1>5, <1>8 DEF TenantFor
  <2>2. \A t \in reached[c] \cup tenants : t = TenantFor(c)
    BY <1>1 DEF CallerInv, InTenant
  <2>. QED
    BY <1>1, <1>8, <2>1, <2>2 DEF CallerInv, InTenant
<1>11. InHand(c)'
  <2>1. LeadsOf(req[c].user)' = LeadsOf(req[c].user)
    BY <1>5, <1>8 DEF LeadsOf
  <2>2. ASSUME req[c].user \in Users, RoleOf[req[c].user] = "MANAGER",
               NEW x \in got[c] \cup (rows \X {Model(c)})
        PROVE  Shown(req[c].user, theirs[c], x[1], x[2])
    BY <1>1, <2>2 DEF CallerInv, InHand
  <2>3. req[c].user \in Users => LeadsOf(req[c].user) \subseteq theirs[c]
    BY <1>1 DEF CallerInv, InHand
  <2>. QED
    BY <1>5, <1>8, <2>2, <2>3 DEF InHand, LeadsOf, Shown
<1>12. Allowed(c)'
  <2>1. ASSUME req[c].user \in Users, RoleOf[req[c].user] = "MANAGER"
        PROVE  Tail(req[c].does) \in Seq(ManagerStep)
    BY <1>1, <2>1 DEF CallerInv, Allowed
  <2>. QED
    BY <1>5, <1>8, <2>1 DEF Allowed
<1>13. LetIn(c)'
  BY <1>1, <1>5, <1>8 DEF CallerInv, LetIn
<1>14. ASSUME NEW x \in Callers, x # c
       PROVE  CallerInv(x)'
  <2>1. SameCaller(x) /\ UNCHANGED <<active, assigned>>
    BY <1>1, <1>6, <1>14 DEF RequestTypes, SameCaller
  <2>. QED
    BY <2>1, OthersKeep DEF RequestInv
<1>. QED
  BY <1>7, <1>9, <1>10, <1>11, <1>12, <1>13, <1>14 DEF RequestInv, CallerInv

LEMMA ScopeIsTenant ==
  ASSUME NEW c \in Callers, RequestInv, NEW r \in InScope(c)
  PROVE  r \in Rows /\ RowTenant[r] = TenantFor(c) /\ RowTenant[r] \in Tenants
BY RequestsAssumption DEF InScope, RequestInv, RequestTypes, CallerInv, InTenant

(* What a manager sees he may be shown.                                    *)
LEMMA SeenIsShown ==
  ASSUME NEW c \in Callers, RequestInv, Doing(c, Reading \cup Listing),
         req[c].user \in Users, RoleOf[req[c].user] = "MANAGER",
         NEW r \in Rows, Sees(c, r)
  PROVE  Shown(req[c].user, theirs[c], r, Model(c))
<1>. DEFINE u == req[c].user
<1>1. req[c].does \in Seq(ManagerStep) /\ req[c].does # <<>>
  BY DEF RequestInv, CallerInv, Allowed, Doing
<1>2. Head(req[c].does) \in ManagerStep
  BY <1>1
<1>3. Head(req[c].does)[1] \in {"find", "mine", "own", "list", "myList", "ownList"}
  BY DEF Doing, Reading, Listing
<1>4. CASE Head(req[c].does)[1] \in {"find", "list"}
  BY <1>2, <1>4 DEF ManagerStep, ForManagers, Shown, Model
<1>5. CASE Head(req[c].does)[1] \in {"mine", "myList", "own", "ownList"}
  <2>1. HeldBy(u, Model(c), r)
    BY <1>5 DEF Sees, Visible
  <2>2. LeadsOf(u) \subseteq theirs[c]
    BY DEF RequestInv, CallerInv, InHand
  <2>. QED
    BY <2>1, <2>2 DEF HeldBy, LeadsOf, Shown
<1>. QED
  BY <1>3, <1>4, <1>5

LEMMA FindsRow ==
  ASSUME NEW c \in Callers, RequestInv, FindRow(c)
  PROVE  RequestInv'
<1>. PICK r \in Rows : \/ /\ r \in InScope(c) /\ Sees(c, r)
                          /\ Access(c, {r}, {RowTenant[r]}, at[c] \cup {r})
                       \/ Respond(c)
  BY DEF FindRow
<1>1. CASE Respond(c)
  BY <1>1, Responds
<1>2. CASE /\ r \in InScope(c) /\ Sees(c, r)
           /\ Access(c, {r}, {RowTenant[r]}, at[c] \cup {r})
  <2>1. RowTenant[r] = TenantFor(c) /\ RowTenant[r] \in Tenants
    BY <1>2, ScopeIsTenant
  <2>2. /\ pc[c] = "handler" /\ req[c].does # <<>> /\ Doing(c, Reading \cup Listing)
        /\ UNCHANGED assigned
    BY DEF FindRow, Doing
  <2>3. at[c] \cup {r} \in SUBSET Rows
    BY DEF RequestInv, RequestTypes
  <2>4. \A s \in at[c] \cup {r} : RowTenant[s] = TenantFor(c)
    BY <2>1 DEF RequestInv, CallerInv, InTenant
  <2>5. req[c].user \in Users /\ RoleOf[req[c].user] = "MANAGER" =>
          \A s \in {r} : Shown(req[c].user, theirs[c], s, Model(c))
    BY <1>2, <2>2, SeenIsShown
  <2>. QED
    BY <1>2, <2>1, <2>2, <2>3, <2>4, <2>5, Accesses
<1>. QED
  BY <1>1, <1>2

LEMMA ListsRows ==
  ASSUME NEW c \in Callers, RequestInv, ListRows(c)
  PROVE  RequestInv'
<1>. DEFINE rows == {r \in InScope(c) : Sees(c, r)}
<1>1. /\ pc[c] = "handler" /\ req[c].does # <<>> /\ Doing(c, Reading \cup Listing)
      /\ UNCHANGED assigned /\ Access(c, rows, TenantsOfRows(rows), rows)
  BY DEF ListRows, Doing
<1>2. \A r \in rows : r \in Rows /\ RowTenant[r] = TenantFor(c) /\ RowTenant[r] \in Tenants
  BY ScopeIsTenant
<1>3. TenantsOfRows(rows) \subseteq {TenantFor(c)} /\ TenantsOfRows(rows) \subseteq Tenants
  BY <1>2 DEF TenantsOfRows
<1>4. req[c].user \in Users /\ RoleOf[req[c].user] = "MANAGER" =>
        \A r \in rows : Shown(req[c].user, theirs[c], r, Model(c))
  BY <1>1, <1>2, SeenIsShown
<1>. HIDE DEF rows
<1>. QED
  BY <1>1, <1>2, <1>3, <1>4, Accesses

LEMMA FoundIsTenant ==
  ASSUME NEW c \in Callers, RequestInv, NEW rows \in SUBSET at[c]
  PROVE  /\ TenantsOfRows(rows) \subseteq {TenantFor(c)} /\ TenantsOfRows(rows) \subseteq Tenants
         /\ at[c] \in SUBSET Rows /\ \A r \in at[c] : RowTenant[r] = TenantFor(c)
BY RequestsAssumption DEF RequestInv, RequestTypes, CallerInv, InTenant, TenantsOfRows

LEMMA TouchesTenant ==
  ASSUME NEW c \in Callers, RequestInv, TouchTenant(c)
  PROVE  RequestInv'
<1>1. /\ pc[c] = "handler" /\ req[c].does # <<>> /\ UNCHANGED assigned
      /\ Access(c, {}, {cls[c]} \ {Nobody}, at[c])
  BY DEF TouchTenant, Doing
<1>2. {cls[c]} \ {Nobody} \subseteq {TenantFor(c)} /\ {cls[c]} \ {Nobody} \subseteq Tenants
  BY DEF RequestInv, RequestTypes, CallerInv, InTenant
<1>3. at[c] \in SUBSET Rows /\ \A r \in at[c] : RowTenant[r] = TenantFor(c)
  BY FoundIsTenant
<1>. QED
  BY <1>1, <1>2, <1>3, Accesses

LEMMA PutsRows ==
  ASSUME NEW c \in Callers, RequestInv, PutRows(c)
  PROVE  RequestInv'
<1>. DEFINE rows == at[c] \cap InScope(c)
<1>1. /\ pc[c] = "handler" /\ req[c].does # <<>> /\ UNCHANGED assigned
      /\ Access(c, {}, TenantsOfRows(rows), at[c])
  BY DEF PutRows, Doing
<1>2. rows \in SUBSET at[c]
  OBVIOUS
<1>. HIDE DEF rows
<1>. QED
  BY <1>1, <1>2, FoundIsTenant, Accesses

LEMMA ReachesBelow ==
  ASSUME NEW c \in Callers, RequestInv, ReachBelow(c)
  PROVE  RequestInv'
<1>1. /\ pc[c] = "handler" /\ req[c].does # <<>> /\ UNCHANGED assigned
      /\ Access(c, {}, TenantsOfRows(at[c]), at[c])
  BY DEF ReachBelow, Doing
<1>. QED
  BY <1>1, FoundIsTenant, Accesses

(* Leads change hands: their old managers keep what they were shown, and   *)
(* the new one may be shown them from now on.                              *)
LEMMA AssignsRows ==
  ASSUME NEW c \in Callers, NEW u \in Users, RequestInv, AssignRows(c, u)
  PROVE  RequestInv'
<1>. DEFINE new == [req[c] EXCEPT !.does = Tail(@)]
<1>1. RequestTypes /\ CallerInv(c)
  BY DEF RequestInv
<1>2. /\ pc[c] = "handler" /\ req[c].does # <<>>
      /\ Head(req[c].does)[1] \in {"assign"}
      /\ assigned' = [r \in Rows |-> IF r \in at[c] THEN u ELSE assigned[r]]
      /\ theirs' = [x \in Callers |-> theirs[x] \cup {r \in at[c] : req[x].user = u}]
      /\ req' = [req EXCEPT ![c] = new]
      /\ reached' = [reached EXCEPT ![c] = reached[c] \cup TenantsOfRows(at[c])]
      /\ UNCHANGED <<active, pc, cls, at, got, admitted>>
  BY DEF AssignRows, Doing
<1>3. req[c] \in [user : Users \cup {Nobody}, wanted : Nat, route : Nat,
                  does : Seq(Step), job : Tenants \cup {Nobody}]
  BY <1>1 DEF RequestTypes
<1>4. Tail(req[c].does) \in Seq(Step) /\ Head(req[c].does) \in Step
  BY <1>2, <1>3
<1>5. /\ new \in [user : Users \cup {Nobody}, wanted : Nat, route : Nat,
                  does : Seq(Step), job : Tenants \cup {Nobody}]
      /\ new.user = req[c].user /\ new.job = req[c].job /\ new.wanted = req[c].wanted
      /\ new.route = req[c].route /\ new.does = Tail(req[c].does)
  BY <1>3, <1>4
<1>. HIDE DEF new
<1>6. TenantsOfRows(at[c]) \subseteq {TenantFor(c)} /\ TenantsOfRows(at[c]) \subseteq Tenants
      /\ at[c] \subseteq Rows
  BY FoundIsTenant
<1>7. RequestTypes'
  <2>1. assigned' \in [Rows -> Users \cup {Nobody}] /\ theirs' \in [Callers -> SUBSET Rows]
    BY <1>1, <1>2, <1>6 DEF RequestTypes
  <2>2. /\ req' \in [Callers -> [user : Users \cup {Nobody}, wanted : Nat, route : Nat,
                                 does : Seq(Step), job : Tenants \cup {Nobody}]]
        /\ reached' \in [Callers -> SUBSET Tenants]
    BY <1>1, <1>2, <1>5, <1>6 DEF RequestTypes
  <2>. QED
    BY <1>1, <1>2, <2>1, <2>2 DEF RequestTypes
<1>8. \A x \in Callers : /\ req'[x].user = req[x].user /\ req'[x].job = req[x].job
                         /\ req'[x].route = req[x].route /\ req'[x].wanted = req[x].wanted
                         /\ pc'[x] = pc[x] /\ cls'[x] = cls[x] /\ at'[x] = at[x]
                         /\ got'[x] = got[x] /\ admitted'[x] = admitted[x]
  BY <1>1, <1>2, <1>5 DEF RequestTypes
<1>9. /\ req'[c] = new /\ reached'[c] = reached[c] \cup TenantsOfRows(at[c])
      /\ \A x \in Callers \ {c} : req'[x] = req[x] /\ reached'[x] = reached[x]
  BY <1>1, <1>2 DEF RequestTypes
<1>10. ASSUME NEW x \in Callers
       PROVE  InHand(x)'
  <2>1. InHand(x) /\ at[c] \subseteq Rows
    BY <1>6 DEF RequestInv, CallerInv
  <2>2. theirs'[x] = theirs[x] \cup {r \in at[c] : req[x].user = u}
    BY <1>2
  <2>3. ASSUME NEW r \in Rows, assigned'[r] = req[x].user, req[x].user \in Users
        PROVE  r \in theirs'[x]
    <3>1. CASE r \in at[c]
      BY <1>2, <2>2, <2>3, <3>1
    <3>2. CASE r \notin at[c]
      BY <1>2, <2>1, <2>2, <2>3, <3>2 DEF InHand, LeadsOf
    <3>. QED
      BY <3>1, <3>2
  <2>4. ASSUME req[x].user \in Users, RoleOf[req[x].user] = "MANAGER", NEW y \in got[x]
        PROVE  Shown(req[x].user, theirs'[x], y[1], y[2])
    BY <2>1, <2>2, <2>4 DEF InHand, Shown
  <2>. QED
    BY <1>8, <2>3, <2>4 DEF InHand, LeadsOf, Shown
<1>11. CallerInv(c)'
  <2>1. Waiting(c)' /\ Guarded(c)' /\ Directed(c)'
    BY <1>1, <1>2, <1>8 DEF CallerInv, Waiting, Guarded, Directed
  <2>2. InTenant(c)'
    <3>1. TenantFor(c)' = TenantFor(c)
      BY <1>8 DEF TenantFor
    <3>2. \A t \in reached[c] \cup TenantsOfRows(at[c]) : t = TenantFor(c)
      BY <1>1, <1>6 DEF CallerInv, InTenant
    <3>. QED
      BY <1>1, <1>8, <1>9, <3>1, <3>2 DEF CallerInv, InTenant
  <2>3. Allowed(c)'
    <3>1. ASSUME req[c].user \in Users, RoleOf[req[c].user] = "MANAGER"
          PROVE  Tail(req[c].does) \in Seq(ManagerStep)
      BY <1>1, <1>2, <3>1 DEF CallerInv, Allowed
    <3>. QED
      BY <1>5, <1>8, <1>9, <3>1 DEF Allowed
  <2>4. LetIn(c)'
    BY <1>1, <1>2, <1>8, <1>9 DEF CallerInv, LetIn
  <2>. QED
    BY <1>10, <2>1, <2>2, <2>3, <2>4 DEF CallerInv
<1>12. ASSUME NEW x \in Callers, x # c
       PROVE  CallerInv(x)'
  <2>1. CallerInv(x)
    BY DEF RequestInv
  <2>2. Waiting(x)' /\ Guarded(x)' /\ Directed(x)'
    BY <1>8, <1>9, <1>12, <2>1 DEF CallerInv, Waiting, Guarded, Untouched, Directed
  <2>3. InTenant(x)'
    BY <1>8, <1>9, <1>12, <2>1 DEF CallerInv, InTenant, TenantFor
  <2>4. Allowed(x)' /\ LetIn(x)'
    BY <1>2, <1>8, <1>9, <1>12, <2>1 DEF CallerInv, Allowed, LetIn
  <2>. QED
    BY <1>10, <2>2, <2>3, <2>4 DEF CallerInv
<1>. QED
  BY <1>7, <1>11, <1>12 DEF RequestInv

LEMMA SetsUserActive ==
  ASSUME NEW u \in Users, RequestInv, SetUserActive(u)
  PROVE  RequestInv'
<1>1. /\ active' = [active EXCEPT ![u] = ~active[u]]
      /\ admitted' = [x \in Callers |-> admitted[x] \/ (req[x].user = u /\ active'[u])]
      /\ UNCHANGED <<assigned, pc, req, cls, at, reached, got, theirs>>
  BY DEF SetUserActive
<1>2. active' \in [Users -> BOOLEAN] /\ \A v \in Users \ {u} : active'[v] = active[v]
  BY <1>1 DEF RequestInv, RequestTypes
<1>3. admitted' \in [Callers -> BOOLEAN]
  BY <1>1, <1>2 DEF RequestInv, RequestTypes
<1>4. RequestTypes'
  BY <1>1, <1>2, <1>3 DEF RequestInv, RequestTypes
<1>5. ASSUME NEW x \in Callers
      PROVE  CallerInv(x)'
  <2>1. CallerInv(x)
    BY DEF RequestInv
  <2>2. admitted[x] => admitted'[x]
    BY <1>1
  <2>3. ASSUME req[x].user \in Users, active'[req[x].user]
        PROVE  admitted'[x]
    <3>1. CASE req[x].user = u
      BY <1>1, <2>3, <3>1
    <3>2. CASE req[x].user # u
      BY <1>2, <2>1, <2>2, <2>3, <3>2 DEF CallerInv, LetIn
    <3>. QED
      BY <3>1, <3>2
  <2>4. LetIn(x)'
    BY <1>1, <2>1, <2>2, <2>3 DEF CallerInv, LetIn
  <2>. QED
    BY <1>1, <2>1, <2>4 DEF CallerInv, Waiting, Untouched, Guarded, InTenant, TenantFor, InHand,
       Shown, LeadsOf, Allowed, Directed
<1>. QED
  BY <1>4, <1>5 DEF RequestInv

LEMMA RequestsStart == RequestsInit => RequestInv
<1>. SUFFICES ASSUME RequestsInit PROVE RequestInv
  OBVIOUS
<1>1. RequestTypes
  BY IdleType DEF RequestsInit, RequestTypes
<1>2. \A c \in Callers : CallerInv(c)
  BY NobodyIsNoUser DEF RequestsInit, CallerInv, Waiting, Untouched, Guarded, InTenant, InHand,
     Allowed, LetIn, Directed, Idle
<1>. QED
  BY <1>1, <1>2 DEF RequestInv

LEMMA RequestsKeep == RequestInv /\ [RequestsNext]_requestVars => RequestInv'
<1>. SUFFICES ASSUME RequestInv, [RequestsNext]_requestVars PROVE RequestInv'
  OBVIOUS
<1>1. ASSUME NEW u \in Users, SetUserActive(u)
      PROVE  RequestInv'
  BY <1>1, SetsUserActive
<1>2. ASSUME NEW c \in Callers, NEW u \in Users, NEW i \in DOMAIN Routes, Send(c, u, i)
      PROVE  RequestInv'
  BY <1>2, Sends
<1>3. ASSUME NEW c \in Callers, NEW t \in Tenants, StartJob(c, t)
      PROVE  RequestInv'
  BY <1>3, JobsStart
<1>4. ASSUME NEW c \in Callers, Authenticate(c) \/ EstablishTenant(c) \/ CheckRole(c)
      PROVE  RequestInv'
  BY <1>4, Authenticates, EstablishesTenant, ChecksRole
<1>5. ASSUME NEW c \in Callers, FindRow(c) \/ ListRows(c) \/ TouchTenant(c)
      PROVE  RequestInv'
  BY <1>5, FindsRow, ListsRows, TouchesTenant
<1>6. ASSUME NEW c \in Callers, PutRows(c) \/ ReachBelow(c) \/ Return(c)
      PROVE  RequestInv'
  BY <1>6, PutsRows, ReachesBelow, Responds DEF Return
<1>7. ASSUME NEW c \in Callers, NEW u \in Users, AssignRows(c, u)
      PROVE  RequestInv'
  BY <1>7, AssignsRows
<1>8. CASE UNCHANGED requestVars
  <2>1. \A c \in Callers : SameCaller(c) /\ UNCHANGED <<active, assigned>>
    BY <1>8 DEF requestVars, SameCaller
  <2>2. RequestTypes'
    BY <1>8 DEF RequestInv, RequestTypes, requestVars
  <2>. QED
    BY <2>1, <2>2, OthersKeep DEF RequestInv
<1>. QED
  BY <1>1, <1>2, <1>3, <1>4, <1>5, <1>6, <1>7, <1>8 DEF RequestsNext

LEMMA RequestsInvariant == RequestsSpec => []RequestInv
BY RequestsStart, RequestsKeep, PTL DEF RequestsSpec

(* Whatever other requests and jobs run meanwhile, whoever is blocked or   *)
(* given leads, a request reaches rows of its user's tenant alone, and a   *)
(* manager is shown only what was his at some time during the request      *)
(* (tenant.guard.ts, tenant.extension.ts, the getAccessible...             *)
(* methods of the services).                                               *)
THEOREM RowsStayApart == RequestsSpec => []RowsOfOwn
<1>1. RequestInv => RowsOfOwn
  <2>. SUFFICES ASSUME RequestInv PROVE OwnTenantOnly /\ KeptToTheirOwn
    BY DEF RowsOfOwn
  <2>1. OwnTenantOnly
    BY DEF RequestInv, CallerInv, InTenant, TenantFor, OwnTenantOnly
  <2>2. KeptToTheirOwn
    <3>. SUFFICES ASSUME NEW c \in Callers, ByManager(c), NEW x \in got[c]
                  PROVE  Shown(req[c].user, theirs[c], x[1], x[2])
      BY DEF KeptToTheirOwn, Shown
    <3>1. req[c].user \in Users /\ RoleOf[req[c].user] = "MANAGER"
      BY DEF ByManager, Served, RequestInv, RequestTypes
    <3>. QED
      BY <3>1 DEF RequestInv, CallerInv, InHand
  <2>. QED
    BY <2>1, <2>2
<1>. QED
  BY <1>1, RequestsInvariant, PTL

(* Every route that is declared gets the requests meant for it, since no   *)
(* earlier one takes them; a user who is blocked from the start of a       *)
(* request to its end reaches nothing; a manager's request never gets as   *)
(* far as a write, an export or an unfiltered search that is the owner's,  *)
(* writes of stock and below accounts included (jwt.strategy.ts,           *)
(* roles.guard.ts, the controllers).                                       *)
THEOREM GuardsAreKept == RequestsSpec => []GuardsHold
<1>1. RequestInv => GuardsHold
  <2>. SUFFICES ASSUME RequestInv PROVE RightHandler /\ BlockedStaysOut /\ ManagersOnlySell
    BY DEF GuardsHold
  <2>1. RightHandler
    BY DEF RequestInv, CallerInv, Directed, RightHandler
  <2>2. BlockedStaysOut
    <3>. SUFFICES ASSUME NEW c \in Callers, Served(c), reached[c] # {}
                  PROVE  admitted[c]
      BY DEF BlockedStaysOut
    <3>1. req[c].user \in Users /\ pc[c] = "handler"
      BY DEF Served, RequestInv, RequestTypes
    <3>. QED
      BY <3>1 DEF RequestInv, CallerInv, LetIn
  <2>3. ManagersOnlySell
    <3>. SUFFICES ASSUME NEW c \in Callers, ByManager(c), NEW i \in DOMAIN req[c].does
                  PROVE  ForManagers(req[c].does[i])
      BY DEF ManagersOnlySell
    <3>1. /\ req[c].user \in Users /\ pc[c] = "handler"
          /\ RoleOf[req[c].user] = "MANAGER"
      BY DEF ByManager, Served, RequestInv, RequestTypes
    <3>2. req[c].does \in Seq(ManagerStep)
      BY <3>1 DEF RequestInv, CallerInv, Allowed
    <3>3. req[c].does[i] \in ManagerStep
      BY <3>2
    <3>. QED
      BY <3>3 DEF ManagerStep
  <2>. QED
    BY <2>1, <2>2, <2>3
<1>. QED
  BY <1>1, RequestsInvariant, PTL

-----------------------------------------------------------------------------
(* The inductive invariant of the digest                                   *)

JobRuns == job.step \in {"firm", "count", "owner", "deliver"}

JobRow == [step : {"firm", "count", "owner", "deliver"}, day : Nat, firms : SUBSET Firms,
           firm : Firms \cup {NoFirm}, owners : SUBSET Readers, leads : Nat]

DigestRow == [user : Readers, day : Nat, leads : Nat, read : BOOLEAN]

DigestTypes ==
  /\ today \in Nat /\ deaths \in Nat
  /\ visit \in [Visitors -> {NoVisit} \cup [firm : Firms, day : Nat]]
  /\ inbox \in Seq(DigestRow)
  /\ \A i \in DOMAIN inbox : inbox[i].day <= today
  /\ job.step \in {"none", "due", "firm", "count", "owner", "deliver"}
  /\ job.step = "due" \/ JobRuns => job.day = today /\ deaths \in {0, 1}
  /\ JobRuns => job \in JobRow

(* Whose digest this run of the job has still to write.                    *)
AllOwners(S) == UNION {OwnersOf[f] : f \in S}

Missing == AllOwners(job.firms) \cup job.owners

(* The tenant at hand.                                                     *)
AtFirm ==
  /\ job.step = "firm" => job.owners = {}
  /\ job.step \in {"count", "owner", "deliver"} =>
       job.firm \in Firms \ job.firms /\ job.owners \subseteq OwnersOf[job.firm]
  /\ job.step \in {"owner", "deliver"} =>
       job.leads <= Cardinality(Visits(job.firm, today))

Reached ==
  /\ \A o \in owed : Digests(o[1], o[2]) # {}
  /\ JobRuns => \A u \in Readers \ Missing : Digests(u, today) # {}

(* How many digests of a day an owner may have by now.                     *)
Allowance(u, d) ==
  IF d # today THEN 2
  ELSE IF job.step = "none" THEN IF deaths = 0 THEN 1 ELSE 2
  ELSE IF job.step # "due" /\ u \notin Missing THEN 1 + deaths
  ELSE deaths

Counted == \A u \in Readers, d \in 1..today : Cardinality(Digests(u, d)) <= Allowance(u, d)

DigestInv == DigestTypes /\ AtFirm /\ Reached /\ Counted /\ DigestIsOwn

LEMMA DigestsAreFinite ==
  ASSUME DigestTypes, NEW u, NEW d
  PROVE  IsFiniteSet(Digests(u, d)) /\ Cardinality(Digests(u, d)) \in Nat
<1>1. DOMAIN inbox = 1..Len(inbox) /\ Len(inbox) \in Nat
  BY DEF DigestTypes
<1>2. IsFiniteSet(DOMAIN inbox)
  BY <1>1, FS_Interval
<1>3. Digests(u, d) \subseteq DOMAIN inbox
  BY DEF Digests
<1>. QED
  BY <1>2, <1>3, FS_Subset, FS_CardinalityType

LEMMA VisitsAreFinite ==
  ASSUME NEW f, NEW d
  PROVE  IsFiniteSet(Visits(f, d)) /\ Cardinality(Visits(f, d)) \in Nat
<1>1. Visits(f, d) \subseteq Visitors
  BY DEF Visits
<1>. QED
  BY <1>1, DigestAssumption, FS_Subset, FS_CardinalityType

LEMMA InUnion ==
  ASSUME NEW S, NEW u
  PROVE  u \in AllOwners(S) <=> \E f \in S : u \in OwnersOf[f]
BY DEF AllOwners

LEMMA OwnersApart ==
  ASSUME NEW f \in Firms, NEW g \in Firms, NEW u, u \in OwnersOf[f], u \in OwnersOf[g]
  PROVE  f = g
BY DigestAssumption

(* A step that leaves the inbox, the leads and the day alone.              *)
LEMMA JobMoves ==
  ASSUME DigestInv, UNCHANGED <<today, visit, inbox>>, DigestTypes', AtFirm',
         \A u \in Readers : Allowance(u, today) <= Allowance(u, today)',
         \A u \in Readers : Allowance(u, today) \in Nat /\ Allowance(u, today)' \in Nat,
         \A o \in owed' \ owed : Digests(o[1], o[2]) # {},
         JobRuns' => \A u \in Readers \ Missing' : Digests(u, today) # {}
  PROVE  DigestInv'
<1>1. \A u, d : Digests(u, d)' = Digests(u, d)
  BY DEF Digests
<1>2. Reached'
  BY <1>1 DEF DigestInv, Reached
<1>3. Counted'
  <2>. SUFFICES ASSUME NEW u \in Readers, NEW d \in 1..today
                PROVE  Cardinality(Digests(u, d)) <= Allowance(u, d)'
    BY <1>1 DEF Counted
  <2>1. Cardinality(Digests(u, d)) <= Allowance(u, d) /\ Cardinality(Digests(u, d)) \in Nat
    BY DigestsAreFinite DEF DigestInv, Counted
  <2>2. CASE d = today
    BY <2>1, <2>2
  <2>3. CASE d # today
    BY <2>1, <2>3 DEF Allowance
  <2>. QED
    BY <2>2, <2>3
<1>4. DigestIsOwn'
  BY DEF DigestInv, DigestIsOwn, Visits
<1>. QED
  BY <1>2, <1>3, <1>4 DEF DigestInv

LEMMA Begins == ASSUME DigestInv, DigestBegin PROVE DigestInv'
<1>. DEFINE new == [step |-> "firm", day |-> job.day, firms |-> Firms, firm |-> NoFirm,
                    owners |-> {}, leads |-> 0]
<1>1. /\ job.step = "due" /\ job.day = today /\ job' = new /\ deaths \in {0, 1} /\ today \in Nat
      /\ UNCHANGED <<today, visit, deaths, inbox, owed>>
  BY DEF DigestBegin, DigestInv, DigestTypes
<1>2. new.step = "firm" /\ new.day = today /\ new.firms = Firms /\ new.owners = {}
      /\ new \in JobRow
  BY <1>1 DEF JobRow
<1>. HIDE DEF new
<1>3. DigestTypes' /\ AtFirm'
  BY <1>1, <1>2 DEF DigestInv, DigestTypes, JobRuns, AtFirm
<1>4. Missing' = Readers
  BY <1>1, <1>2 DEF Missing, AllOwners, Readers
<1>5. \A u \in Readers : /\ Allowance(u, today) <= Allowance(u, today)'
                         /\ Allowance(u, today) \in Nat /\ Allowance(u, today)' \in Nat
  BY <1>1, <1>2, <1>4 DEF Allowance
<1>. QED
  BY <1>1, <1>3, <1>4, <1>5, JobMoves

LEMMA TakesFirm ==
  ASSUME NEW f \in Firms, DigestInv, DigestFirm(f) PROVE DigestInv'
<1>. DEFINE step == IF OwnersOf[f] = {} THEN "firm" ELSE "count"
            new == [job EXCEPT !.step = step, !.firms = job.firms \ {f}, !.firm = f,
                               !.owners = OwnersOf[f]]
<1>1. /\ job.step = "firm" /\ f \in job.firms /\ job' = new /\ job \in JobRow
      /\ job.day = today /\ deaths \in {0, 1} /\ job.owners = {}
      /\ UNCHANGED <<today, visit, deaths, inbox, owed>>
  BY DEF DigestFirm, DigestInv, DigestTypes, JobRuns, AtFirm
<1>2. /\ new.step = step /\ new.day = today /\ new.firms = job.firms \ {f} /\ new.firm = f
      /\ new.owners = OwnersOf[f] /\ new \in JobRow /\ step \in {"firm", "count"}
      /\ step = "firm" => OwnersOf[f] = {}
  <2>1. OwnersOf[f] \subseteq Readers
    BY DEF Readers
  <2>. QED
    BY <1>1, <2>1 DEF JobRow
<1>. HIDE DEF new, step
<1>3. DigestTypes' /\ AtFirm'
  BY <1>1, <1>2 DEF DigestInv, DigestTypes, JobRuns, AtFirm
<1>4. Missing' = Missing
  <2>1. \A u : u \in Missing <=> \E g \in job.firms : u \in OwnersOf[g]
    BY <1>1, InUnion DEF Missing
  <2>2. Missing' = AllOwners(job.firms \ {f}) \cup OwnersOf[f]
    BY <1>1, <1>2 DEF Missing
  <2>3. \A u : u \in Missing' <=> u \in Missing
    <3>1. \A u : u \in Missing' <=> (\E g \in job.firms \ {f} : u \in OwnersOf[g])
                                     \/ u \in OwnersOf[f]
      BY <2>2, InUnion
    <3>. QED
      BY <1>1, <2>1, <3>1
  <2>. QED
    BY <2>3
<1>5. \A u \in Readers : /\ Allowance(u, today) <= Allowance(u, today)'
                         /\ Allowance(u, today) \in Nat /\ Allowance(u, today)' \in Nat
  BY <1>1, <1>2, <1>4 DEF Allowance
<1>6. \A u \in Readers \ Missing : Digests(u, today) # {}
  BY <1>1 DEF DigestInv, Reached, JobRuns
<1>. QED
  BY <1>1, <1>3, <1>4, <1>5, <1>6, JobMoves

LEMMA CountsLeads == ASSUME DigestInv, DigestCount PROVE DigestInv'
<1>. DEFINE new == [job EXCEPT !.step = "owner",
                               !.leads = Cardinality(Visits(job.firm, job.day))]
<1>1. /\ job.step = "count" /\ job' = new /\ job \in JobRow
      /\ job.day = today /\ deaths \in {0, 1}
      /\ UNCHANGED <<today, visit, deaths, inbox, owed>>
  BY DEF DigestCount, DigestInv, DigestTypes, JobRuns
<1>2. /\ new.step = "owner" /\ new.day = today /\ new.firms = job.firms /\ new.firm = job.firm
      /\ new.owners = job.owners /\ new \in JobRow
      /\ new.leads = Cardinality(Visits(job.firm, today)) /\ new.leads \in Nat
  BY <1>1, VisitsAreFinite DEF JobRow
<1>. HIDE DEF new
<1>3. DigestTypes'
  BY <1>1, <1>2 DEF DigestInv, DigestTypes, JobRuns
<1>4. AtFirm'
  BY <1>1, <1>2 DEF DigestInv, AtFirm, Visits
<1>5. Missing' = Missing
  BY <1>1, <1>2 DEF Missing
<1>6. \A u \in Readers : /\ Allowance(u, today) <= Allowance(u, today)'
                         /\ Allowance(u, today) \in Nat /\ Allowance(u, today)' \in Nat
  BY <1>1, <1>2, <1>5 DEF Allowance
<1>7. \A u \in Readers \ Missing : Digests(u, today) # {}
  BY <1>1 DEF DigestInv, Reached, JobRuns
<1>. QED
  BY <1>1, <1>3, <1>4, <1>5, <1>6, <1>7, JobMoves

LEMMA Delivers == ASSUME DigestInv, DigestDeliver PROVE DigestInv'
<1>. DEFINE step == IF job.owners = {} THEN "firm" ELSE "owner"
            new == [job EXCEPT !.step = step]
<1>1. /\ job.step = "deliver" /\ job' = new /\ job \in JobRow
      /\ job.day = today /\ deaths \in {0, 1}
      /\ UNCHANGED <<today, visit, deaths, inbox, owed>>
  BY DEF DigestDeliver, DigestInv, DigestTypes, JobRuns
<1>2. /\ new.step = step /\ new.day = today /\ new.firms = job.firms /\ new.firm = job.firm
      /\ new.owners = job.owners /\ new \in JobRow /\ new.leads = job.leads
      /\ step \in {"firm", "owner"} /\ (step = "firm" => job.owners = {})
  BY <1>1 DEF JobRow
<1>. HIDE DEF new, step
<1>3. DigestTypes'
  BY <1>1, <1>2 DEF DigestInv, DigestTypes, JobRuns
<1>4. AtFirm'
  BY <1>1, <1>2 DEF DigestInv, AtFirm, Visits
<1>5. Missing' = Missing
  BY <1>1, <1>2 DEF Missing
<1>6. \A u \in Readers : /\ Allowance(u, today) <= Allowance(u, today)'
                         /\ Allowance(u, today) \in Nat /\ Allowance(u, today)' \in Nat
  BY <1>1, <1>2, <1>5 DEF Allowance
<1>7. \A u \in Readers \ Missing : Digests(u, today) # {}
  BY <1>1 DEF DigestInv, Reached, JobRuns
<1>. QED
  BY <1>1, <1>3, <1>4, <1>5, <1>6, <1>7, JobMoves

LEMMA NoJobRuns == NoJob.step = "none"
BY DEF NoJob

LEMMA DueJob == \A d : Due(d).step = "due" /\ Due(d).day = d
BY DEF Due

LEMMA Ends == ASSUME DigestInv, DigestEnd PROVE DigestInv'
<1>1. /\ job.step = "firm" /\ job.firms = {} /\ job'.step = "none" /\ job.owners = {}
      /\ job.day = today /\ deaths \in {0, 1}
      /\ owed' = owed \cup {<<u, today>> : u \in Readers}
      /\ UNCHANGED <<today, visit, deaths, inbox>>
  BY NoJobRuns DEF DigestEnd, DigestInv, DigestTypes, JobRuns, AtFirm
<1>2. DigestTypes' /\ AtFirm' /\ ~JobRuns'
  BY <1>1 DEF DigestInv, DigestTypes, JobRuns, AtFirm
<1>3. Missing = {}
  BY <1>1, InUnion DEF Missing
<1>4. \A u \in Readers : /\ Allowance(u, today) <= Allowance(u, today)'
                         /\ Allowance(u, today) \in Nat /\ Allowance(u, today)' \in Nat
  BY <1>1, <1>3 DEF Allowance
<1>5. \A u \in Readers : Digests(u, today) # {}
  BY <1>1, <1>3 DEF DigestInv, Reached, JobRuns
<1>6. \A o \in owed' \ owed : Digests(o[1], o[2]) # {}
  BY <1>1, <1>5
<1>. QED
  BY <1>1, <1>2, <1>4, <1>6, JobMoves

LEMMA Fails == ASSUME DigestInv, DigestFails PROVE DigestInv'
<1>1. /\ job.step \in {"firm", "count", "owner", "deliver"} /\ job'.step = "none"
      /\ deaths \in {0, 1}
      /\ UNCHANGED <<today, visit, deaths, inbox, owed>>
  BY NoJobRuns DEF DigestFails, DigestInv, DigestTypes, JobRuns
<1>2. DigestTypes' /\ AtFirm' /\ ~JobRuns'
  BY <1>1 DEF DigestInv, DigestTypes, JobRuns, AtFirm
<1>3. \A u \in Readers : /\ Allowance(u, today) <= Allowance(u, today)'
                         /\ Allowance(u, today) \in Nat /\ Allowance(u, today)' \in Nat
  BY <1>1 DEF Allowance
<1>. QED
  BY <1>1, <1>2, <1>3, JobMoves

LEMMA Dies == ASSUME DigestInv, DigestDies PROVE DigestInv'
<1>1. /\ job.step \in {"firm", "count", "owner", "deliver"} /\ deaths \in {0, 1}
      /\ deaths' = deaths + 1 /\ job.day = today /\ today \in Nat
      /\ \/ deaths = 0 /\ job'.step = "due" /\ job'.day = today
         \/ deaths = 1 /\ job'.step = "none"
      /\ UNCHANGED <<today, visit, inbox, owed>>
  BY NoJobRuns, DueJob DEF DigestDies, DigestInv, DigestTypes, JobRuns
<1>2. DigestTypes' /\ AtFirm' /\ ~JobRuns'
  BY <1>1 DEF DigestInv, DigestTypes, JobRuns, AtFirm
<1>3. \A u \in Readers : /\ Allowance(u, today) <= Allowance(u, today)'
                         /\ Allowance(u, today) \in Nat /\ Allowance(u, today)' \in Nat
  BY <1>1 DEF Allowance
<1>. QED
  BY <1>1, <1>2, <1>3, JobMoves

(* Rows are added and marked, and keep their user, day and count.          *)

LEMMA InboxMarked ==
  ASSUME DigestInv, NEW S, inbox' = Marked(S), UNCHANGED <<today, visit, job, deaths, owed>>
  PROVE  DigestInv'
<1>1. /\ inbox \in Seq(DigestRow) /\ DOMAIN inbox = 1..Len(inbox) /\ Len(inbox) \in Nat
      /\ \A i \in DOMAIN inbox : inbox[i] \in DigestRow
  BY DEF DigestInv, DigestTypes
<1>2. /\ DOMAIN inbox' = DOMAIN inbox
      /\ \A i \in DOMAIN inbox :
           /\ inbox'[i] \in DigestRow /\ inbox'[i].user = inbox[i].user
           /\ inbox'[i].day = inbox[i].day /\ inbox'[i].leads = inbox[i].leads
  BY <1>1 DEF Marked, DigestRow
<1>3. inbox' \in Seq(DigestRow)
  <2>1. inbox' \in [1..Len(inbox) -> DigestRow]
    BY <1>1, <1>2 DEF Marked
  <2>. QED
    BY <1>1, <2>1, FunctionIsSequence
<1>4. \A u, d : Digests(u, d)' = Digests(u, d)
  BY <1>2 DEF Digests
<1>5. DigestTypes'
  BY <1>2, <1>3 DEF DigestInv, DigestTypes, JobRuns
<1>6. AtFirm'
  BY DEF DigestInv, AtFirm, Visits
<1>7. Reached'
  BY <1>4 DEF DigestInv, Reached, JobRuns, Missing
<1>8. Counted'
  <2>1. \A u, d : Allowance(u, d)' = Allowance(u, d)
    BY DEF Allowance, Missing
  <2>. QED
    BY <1>4, <2>1 DEF DigestInv, Counted
<1>9. DigestIsOwn'
  BY <1>2 DEF DigestInv, DigestIsOwn, Visits
<1>. QED
  BY <1>5, <1>6, <1>7, <1>8, <1>9 DEF DigestInv

LEMMA Records ==
  ASSUME NEW u \in Readers, DigestInv, DigestRecord(u) PROVE DigestInv'
<1>. DEFINE row == [user |-> u, day |-> job.day, leads |-> job.leads, read |-> FALSE]
            new == [job EXCEPT !.step = "deliver", !.owners = job.owners \ {u}]
            n == Len(inbox)
<1>1. /\ job.step = "owner" /\ u \in job.owners /\ inbox' = Append(inbox, row) /\ job' = new
      /\ job \in JobRow /\ job.day = today /\ deaths \in {0, 1} /\ today \in Nat
      /\ job.firm \in Firms \ job.firms /\ job.owners \subseteq OwnersOf[job.firm]
      /\ job.leads <= Cardinality(Visits(job.firm, today))
      /\ UNCHANGED <<today, visit, deaths, owed>>
  BY DEF DigestRecord, DigestInv, DigestTypes, JobRuns, AtFirm
<1>2. /\ new.step = "deliver" /\ new.day = today /\ new.firms = job.firms
      /\ new.firm = job.firm /\ new.owners = job.owners \ {u} /\ new \in JobRow
      /\ new.leads = job.leads
  BY <1>1 DEF JobRow
<1>3. row \in DigestRow /\ row.user = u /\ row.day = today /\ row.leads = job.leads
  BY <1>1 DEF JobRow, DigestRow
<1>. HIDE DEF row, new
<1>4. inbox \in Seq(DigestRow) /\ n \in Nat /\ DOMAIN inbox = 1..n
  BY DEF DigestInv, DigestTypes
<1>5. /\ inbox' \in Seq(DigestRow) /\ DOMAIN inbox' = DOMAIN inbox \cup {n + 1}
      /\ n + 1 \notin DOMAIN inbox
      /\ inbox'[n + 1] = row /\ \A i \in DOMAIN inbox : inbox'[i] = inbox[i]
  BY <1>1, <1>3, <1>4
<1>. HIDE DEF n
<1>6. DigestTypes'
  BY <1>1, <1>2, <1>3, <1>5 DEF DigestInv, DigestTypes, JobRuns
<1>7. AtFirm'
  BY <1>1, <1>2 DEF DigestInv, AtFirm, Visits
<1>8. \A v, d : Digests(v, d) \subseteq Digests(v, d)'
  BY <1>5 DEF Digests
<1>9. \A d : d = today => /\ Digests(u, d)' = Digests(u, d) \cup {n + 1}
                         /\ n + 1 \notin Digests(u, d)
  BY <1>3, <1>5 DEF Digests
<1>10. \A v, d : v # u \/ d # today => Digests(v, d)' = Digests(v, d)
  BY <1>3, <1>5 DEF Digests
<1>11. u \in Missing /\ Missing' = Missing \ {u}
  <2>1. \A f \in job.firms : u \notin OwnersOf[f]
    <3>1. job.firms \subseteq Firms /\ job.firm \in Firms /\ u \in OwnersOf[job.firm]
      BY <1>1 DEF JobRow
    <3>. QED
      BY <1>1, <3>1, OwnersApart
  <2>2. Missing' = AllOwners(job.firms) \cup (job.owners \ {u})
    BY <1>1, <1>2 DEF Missing
  <2>3. u \notin AllOwners(job.firms)
    BY <2>1, InUnion
  <2>. QED
    BY <1>1, <2>2, <2>3 DEF Missing
<1>12. Reached'
  <2>1. \A v \in Readers \ Missing : Digests(v, today) # {}
    BY <1>1 DEF DigestInv, Reached, JobRuns
  <2>2. \A d : d = today => \A v \in Readers \ Missing' : Digests(v, d)' # {}
    BY <1>8, <1>9, <1>11, <2>1
  <2>3. \A o \in owed : Digests(o[1], o[2])' # {}
    BY <1>8 DEF DigestInv, Reached
  <2>. QED
    BY <1>1, <2>2, <2>3 DEF Reached
<1>13. Counted'
  <2>. SUFFICES ASSUME NEW v \in Readers, NEW d \in 1..today
                PROVE  Cardinality(Digests(v, d)') <= Allowance(v, d)'
    BY <1>1 DEF Counted
  <2>1. Cardinality(Digests(v, d)) <= Allowance(v, d) /\ Cardinality(Digests(v, d)) \in Nat
        /\ IsFiniteSet(Digests(v, d))
    BY DigestsAreFinite DEF DigestInv, Counted
  <2>2. CASE v = u /\ d = today
    <3>1. Cardinality(Digests(v, d)') = Cardinality(Digests(v, d)) + 1
      BY <1>9, <2>1, <2>2, FS_AddElement
    <3>2. Allowance(v, d) = deaths
      BY <1>1, <1>11, <2>2 DEF Allowance
    <3>3. Allowance(v, d)' = 1 + deaths
      BY <1>1, <1>2, <1>11, <2>2 DEF Allowance
    <3>. QED
      BY <1>1, <2>1, <3>1, <3>2, <3>3
  <2>3. CASE ~(v = u /\ d = today)
    <3>1. Digests(v, d)' = Digests(v, d)
      BY <1>10, <2>3
    <3>2. Allowance(v, d)' = Allowance(v, d)
      BY <1>1, <1>2, <1>11, <2>3 DEF Allowance
    <3>. QED
      BY <2>1, <3>1, <3>2
  <2>. QED
    BY <2>2, <2>3
<1>14. DigestIsOwn'
  <2>1. \A f, d : Visits(f, d)' = Visits(f, d)
    BY <1>1 DEF Visits
  <2>2. ASSUME NEW i \in DOMAIN inbox', NEW f \in Firms, inbox'[i].user \in OwnersOf[f],
               NEW d, d = inbox'[i].day
        PROVE  inbox'[i].leads <= Cardinality(Visits(f, d))
    <3>1. CASE i \in DOMAIN inbox
      <4>1. inbox'[i] = inbox[i]
        BY <1>5, <3>1
      <4>. QED
        BY <2>2, <3>1, <4>1 DEF DigestInv, DigestIsOwn
    <3>2. CASE i = n + 1
      <4>1. f = job.firm
        BY <1>1, <1>3, <1>5, <2>2, <3>2, OwnersApart
      <4>2. d = today /\ inbox'[i].leads = job.leads
        BY <1>3, <1>5, <2>2, <3>2
      <4>. QED
        BY <1>1, <4>1, <4>2
    <3>. QED
      BY <1>5, <3>1, <3>2
  <2>. QED
    BY <2>1, <2>2 DEF DigestIsOwn
<1>. QED
  BY <1>6, <1>7, <1>12, <1>13, <1>14 DEF DigestInv

LEMMA LeadsCome ==
  ASSUME NEW v \in Visitors, NEW g \in Firms, DigestInv, LeadComes(v, g) PROVE DigestInv'
<1>1. /\ visit[v] = NoVisit /\ visit' = [visit EXCEPT ![v] = [firm |-> g, day |-> today]]
      /\ UNCHANGED <<today, job, deaths, inbox, owed>>
      /\ visit \in [Visitors -> {NoVisit} \cup [firm : Firms, day : Nat]] /\ today \in Nat
  BY DEF LeadComes, DigestInv, DigestTypes
<1>2. ASSUME NEW f \in Firms, NEW d
      PROVE  Visits(f, d) \subseteq Visits(f, d)'
  <2>1. [firm |-> f, day |-> d].firm \in Firms /\ NoVisit.firm \notin Firms
    BY DigestAssumption DEF NoVisit
  <2>2. v \notin Visits(f, d)
    BY <1>1, <2>1 DEF Visits
  <2>. QED
    BY <1>1, <2>2 DEF Visits
<1>3. ASSUME NEW f \in Firms, NEW d
      PROVE  /\ Cardinality(Visits(f, d)) <= Cardinality(Visits(f, d)')
             /\ Cardinality(Visits(f, d)) \in Nat /\ Cardinality(Visits(f, d)') \in Nat
  <2>1. Visits(f, d)' \subseteq Visitors
    BY DEF Visits
  <2>2. IsFiniteSet(Visits(f, d)')
    BY <2>1, DigestAssumption, FS_Subset
  <2>. QED
    BY <1>2, <2>2, VisitsAreFinite, FS_Subset, FS_CardinalityType
<1>4. DigestTypes'
  BY <1>1 DEF DigestInv, DigestTypes, JobRuns
<1>5. AtFirm'
  <2>1. job.step \in {"owner", "deliver"} =>
          job.leads <= Cardinality(Visits(job.firm, today)')
    <3>. SUFFICES ASSUME job.step \in {"owner", "deliver"}
                  PROVE  job.leads <= Cardinality(Visits(job.firm, today)')
      OBVIOUS
    <3>1. /\ job.firm \in Firms /\ job.leads <= Cardinality(Visits(job.firm, today))
          /\ job.leads \in Nat
      BY DEF DigestInv, DigestTypes, AtFirm, JobRuns, JobRow
    <3>. DEFINE l == job.leads
                f == job.firm
    <3>. HIDE DEF l, f
    <3>2. /\ Cardinality(Visits(f, today)) <= Cardinality(Visits(f, today)')
          /\ Cardinality(Visits(f, today)) \in Nat /\ Cardinality(Visits(f, today)') \in Nat
      BY <1>1, <1>3, <3>1 DEF f
    <3>. QED
      BY <3>1, <3>2 DEF f
  <2>. QED
    BY <1>1, <2>1 DEF DigestInv, AtFirm
<1>6. Reached' /\ Counted'
  <2>1. \A u, d : Digests(u, d)' = Digests(u, d) /\ Allowance(u, d)' = Allowance(u, d)
    BY <1>1 DEF Digests, Allowance, Missing
  <2>. QED
    BY <1>1, <2>1 DEF DigestInv, Reached, Counted, JobRuns, Missing
<1>7. DigestIsOwn'
  <2>. SUFFICES ASSUME NEW i \in DOMAIN inbox, NEW f \in Firms, inbox[i].user \in OwnersOf[f]
                PROVE  inbox[i].leads <= Cardinality(Visits(f, inbox[i].day)')
    BY <1>1 DEF DigestIsOwn, Visits
  <2>. PICK d : d = inbox[i].day
    OBVIOUS
  <2>0. inbox[i] \in DigestRow
    BY DEF DigestInv, DigestTypes
  <2>1. inbox[i].leads <= Cardinality(Visits(f, d)) /\ inbox[i].leads \in Nat
    BY <2>0 DEF DigestInv, DigestIsOwn, DigestRow
  <2>. DEFINE l == inbox[i].leads
  <2>. HIDE DEF l
  <2>2. l <= Cardinality(Visits(f, d)')
    BY <1>3, <2>1 DEF l
  <2>. QED
    BY <1>1, <2>2 DEF l, Visits
<1>. QED
  BY <1>4, <1>5, <1>6, <1>7 DEF DigestInv

LEMMA FallsDue == ASSUME DigestInv, DigestDue PROVE DigestInv'
<1>1. /\ job = NoJob /\ job.step = "none" /\ today \in Nat /\ today' = today + 1
      /\ job'.step = "due" /\ job'.day = today' /\ deaths' = 0
      /\ UNCHANGED <<visit, inbox, owed>>
  BY NoJobRuns, DueJob DEF DigestDue, DigestInv, DigestTypes
<1>2. DigestTypes'
  <2>0. \A i \in DOMAIN inbox : inbox[i] \in DigestRow
    BY DEF DigestInv, DigestTypes
  <2>1. \A i \in DOMAIN inbox : inbox[i].day <= today /\ inbox[i].day \in Nat
    BY <2>0 DEF DigestInv, DigestTypes, DigestRow
  <2>2. \A i \in DOMAIN inbox : inbox[i].day <= today + 1
    BY <1>1, <2>1
  <2>. QED
    BY <1>1, <2>2 DEF DigestInv, DigestTypes, JobRuns
<1>3. AtFirm' /\ ~JobRuns'
  BY <1>1 DEF AtFirm, JobRuns
<1>4. \A u, d : Digests(u, d)' = Digests(u, d)
  BY <1>1 DEF Digests
<1>5. Reached'
  BY <1>1, <1>3, <1>4 DEF DigestInv, Reached
<1>6. Counted'
  <2>. SUFFICES ASSUME NEW u \in Readers, NEW d \in 1..today'
                PROVE  Cardinality(Digests(u, d)) <= Allowance(u, d)'
    BY <1>4 DEF Counted
  <2>1. CASE d = today'
    <3>1. Digests(u, d) = {}
      BY <1>1, <2>1 DEF DigestInv, DigestTypes, DigestRow, Digests
    <3>2. Allowance(u, d)' = 0
      BY <1>1, <2>1 DEF Allowance
    <3>. QED
      BY <3>1, <3>2, FS_EmptySet
  <2>2. CASE d # today'
    <3>1. d \in 1..today
      BY <1>1, <2>2
    <3>2. Cardinality(Digests(u, d)) <= Allowance(u, d) /\ Cardinality(Digests(u, d)) \in Nat
      BY <3>1, DigestsAreFinite DEF DigestInv, Counted
    <3>3. Allowance(u, d) \in {1, 2} /\ Allowance(u, d)' = 2
      BY <1>1, <2>2 DEF Allowance
    <3>. QED
      BY <3>2, <3>3
  <2>. QED
    BY <2>1, <2>2
<1>7. DigestIsOwn'
  BY <1>1 DEF DigestInv, DigestIsOwn, Visits
<1>. QED
  BY <1>2, <1>3, <1>5, <1>6, <1>7 DEF DigestInv

LEMMA DigestStarts == DigestInit => DigestInv
<1>. SUFFICES ASSUME DigestInit PROVE DigestInv
  OBVIOUS
<1>1. job.step = "none" /\ inbox = <<>> /\ today = 0 /\ deaths = 0 /\ owed = {}
  BY NoJobRuns DEF DigestInit
<1>2. DigestTypes
  BY <1>1 DEF DigestInit, DigestTypes, JobRuns
<1>. QED
  BY <1>1, <1>2 DEF DigestInv, AtFirm, Reached, Counted, DigestIsOwn, JobRuns

LEMMA DigestKeeps == DigestInv /\ [DigestNext]_digestVars => DigestInv'
<1>. SUFFICES ASSUME DigestInv, [DigestNext]_digestVars PROVE DigestInv'
  OBVIOUS
<1>1. CASE DigestDue
  BY <1>1, FallsDue
<1>2. CASE Digesting
  BY <1>2, Begins, TakesFirm, CountsLeads, Records, Delivers, Ends DEF Digesting
<1>3. CASE DigestFails \/ DigestDies
  BY <1>3, Fails, Dies
<1>4. ASSUME NEW v \in Visitors, NEW f \in Firms, LeadComes(v, f)
      PROVE  DigestInv'
  BY <1>4, LeadsCome
<1>5. ASSUME NEW u \in Readers, MarkAllRead(u) \/ \E i \in DOMAIN inbox : MarkRead(u, i)
      PROVE  DigestInv'
  BY <1>5, InboxMarked DEF MarkAllRead, MarkRead
<1>6. CASE UNCHANGED digestVars
  <2>1. UNCHANGED <<today, visit, job, deaths, inbox, owed>>
    BY <1>6 DEF digestVars
  <2>2. \A u, d : Digests(u, d)' = Digests(u, d) /\ Allowance(u, d)' = Allowance(u, d)
    BY <2>1 DEF Digests, Allowance, Missing
  <2>3. DigestTypes' /\ AtFirm' /\ DigestIsOwn'
    BY <2>1 DEF DigestInv, DigestTypes, JobRuns, AtFirm, DigestIsOwn, Visits
  <2>4. Reached' /\ Counted'
    BY <2>1, <2>2 DEF DigestInv, Reached, Counted, JobRuns, Missing
  <2>. QED
    BY <2>3, <2>4 DEF DigestInv
<1>. QED
  BY <1>1, <1>2, <1>3, <1>4, <1>5, <1>6 DEF DigestNext

(* After a digest job that ran to its end every active owner has the       *)
(* digest of the day, only a death of the process gives anybody a second   *)
(* one, and a digest counts leads of the owner's own tenant and day only   *)
(* (runDailyDigest in notifications.processor.ts), for any number of       *)
(* tenants, owners, leads and days.                                        *)
THEOREM DigestsAreWhole == DigestSpec => []DigestHolds
<1>1. DigestInv => DigestHolds
  <2>. SUFFICES ASSUME DigestInv PROVE DigestReachesAll /\ DigestIsOwn
    BY DEF DigestHolds
  <2>1. ASSUME NEW u \in Readers, NEW d \in 1..today
        PROVE  Cardinality(Digests(u, d)) <= 1 + (IF d = today THEN deaths ELSE 1)
    <3>1. Cardinality(Digests(u, d)) <= Allowance(u, d) /\ Cardinality(Digests(u, d)) \in Nat
      BY DigestsAreFinite DEF DigestInv, Counted
    <3>2. deaths \in Nat
      BY DEF DigestInv, DigestTypes
    <3>3. Allowance(u, d) \in Nat
          /\ Allowance(u, d) <= 1 + (IF d = today THEN deaths ELSE 1)
      BY <3>2 DEF Allowance
    <3>. QED
      BY <3>1, <3>2, <3>3
  <2>2. DigestIsOwn /\ \A o \in owed : Digests(o[1], o[2]) # {}
    BY DEF DigestInv, Reached
  <2>. QED
    BY <2>1, <2>2 DEF DigestReachesAll
<1>2. DigestSpec => []DigestInv
  BY DigestStarts, DigestKeeps, PTL DEF DigestSpec
<1>. QED
  BY <1>1, <1>2, PTL

=============================================================================

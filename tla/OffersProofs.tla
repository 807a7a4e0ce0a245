---------------------------- MODULE OffersProofs ----------------------------
(* Proofs about Catalog, Delivery and Reports, for every value of their    *)
(* constants.                                                              *)
EXTENDS Delivery, Reports, Sums, SequenceTheorems, TLAPS

-----------------------------------------------------------------------------
(* The inductive invariant of the catalog                                  *)

Rowed ==
  [state : {"row"}, active : BOOLEAN, category : Categories \cup {Missing}, priced : {0, 1}]

(* Only products have a category, and it is there.                         *)
Categorized(x) ==
  Exists(x) =>
    /\ row[x] \in Rowed
    /\ row[x].category # Missing => x \in Products /\ Exists(row[x].category)

(* What an editor that has found its row is about to write.                *)
Written(e) ==
  epc[e] = "write" =>
    /\ edit[e].id \in Ids
    /\ edit[e].field \in {"active", "category", "name", "priced", "remove"}
    /\ edit[e].field = "active" => edit[e].value \in BOOLEAN
    /\ edit[e].field = "priced" => edit[e].value \in {0, 1}
    /\ edit[e].field = "category" => edit[e].value \in Categories /\ edit[e].id \in Products
    /\ edit[e].field = "remove" => edit[e].id \in Categories \cup Options

CatalogInv ==
  /\ DOMAIN row = Ids /\ (\A x \in Ids : Categorized(x))
  /\ DOMAIN epc = Editors /\ DOMAIN edit = Editors /\ (\A e \in Editors : Written(e))
  /\ answer \in [Editors -> {0, 200, 201, 204, 404, 409}]

LEMMA GoneIsNoRow == Gone \notin Rowed
BY DEF Gone, Rowed

LEMMA ErrorStatus ==
  StatusOf("P2002") = 409 /\ StatusOf("P2003") = 409 /\ StatusOf("P2025") = 404
BY DEF StatusOf

LEMMA NewRows ==
  ASSUME NEW k \in Categories \cup {Missing}
  PROVE  NewRow(k) \in Rowed /\ NewRow(k).category = k
BY DEF NewRow, Rowed

(* An editor answers, or goes on with what it has found.                   *)

LEMMA Says ==
  ASSUME NEW e \in Editors, CatalogInv, NEW status \in {0, 200, 201, 204, 404, 409},
         Say(e, status), DOMAIN row' = Ids, \A x \in Ids : Categorized(x)'
  PROVE  CatalogInv'
<1>1. /\ DOMAIN epc' = Editors /\ DOMAIN edit' = Editors /\ epc'[e] = "idle"
      /\ \A d \in Editors \ {e} : epc'[d] = epc[d] /\ edit'[d] = edit[d]
      /\ answer' \in [Editors -> {0, 200, 201, 204, 404, 409}]
  BY DEF Say, CatalogInv
<1>2. \A d \in Editors : Written(d)'
  BY <1>1 DEF CatalogInv, Written
<1>. QED
  BY <1>1, <1>2 DEF CatalogInv

LEMMA GoesOn ==
  ASSUME NEW e \in Editors, CatalogInv, NEW to, NEW what, Goes(e, to, what), UNCHANGED row,
         to = "write" => Written(e)'
  PROVE  CatalogInv'
<1>1. /\ DOMAIN epc' = Editors /\ DOMAIN edit' = Editors /\ epc'[e] = to
      /\ \A d \in Editors \ {e} : epc'[d] = epc[d] /\ edit'[d] = edit[d]
      /\ answer' \in [Editors -> {0, 200, 201, 204, 404, 409}]
  BY DEF Goes, CatalogInv
<1>2. \A d \in Editors : Written(d)'
  BY <1>1 DEF CatalogInv, Written
<1>3. DOMAIN row' = Ids /\ \A x \in Ids : Categorized(x)'
  BY DEF CatalogInv, Categorized, Exists
<1>. QED
  BY <1>1, <1>2, <1>3 DEF CatalogInv

LEMMA Unmoved ==
  ASSUME CatalogInv, UNCHANGED row
  PROVE  DOMAIN row' = Ids /\ \A x \in Ids : Categorized(x)'
BY DEF CatalogInv, Categorized, Exists

LEMMA CategoryIds ==
  /\ \A k \in Categories : k \in Ids /\ k \notin Products
  /\ Missing \notin Categories
BY CatalogAssumption DEF Ids

LEMMA CreatesRow ==
  ASSUME NEW e \in Editors, NEW x \in Ids, NEW k \in Categories \cup {Missing},
         CatalogInv, CreateRow(e, x, k)
  PROVE  CatalogInv'
<1>1. CASE k # Missing /\ ~Exists(k)
  <2>1. Say(e, 409) /\ UNCHANGED row
    BY <1>1, ErrorStatus DEF CreateRow
  <2>. QED
    BY <2>1, Says, Unmoved
<1>2. CASE ~(k # Missing /\ ~Exists(k))
  <2>1. Say(e, 201) /\ row' = [row EXCEPT ![x] = NewRow(k)]
    BY <1>2 DEF CreateRow
  <2>2. k # Missing => x \in Products /\ Exists(k) /\ k # x /\ k \in Ids
    BY <1>2, CategoryIds DEF CreateRow
  <2>3. /\ DOMAIN row' = Ids /\ row'[x] = NewRow(k)
        /\ \A y \in Ids \ {x} : row'[y] = row[y]
    BY <2>1 DEF CatalogInv
  <2>4. \A y \in Ids : Exists(y) => Exists(y)'
    BY <2>3, NewRows, GoneIsNoRow DEF Exists
  <2>5. \A y \in Ids : Categorized(y)'
    <3>1. Categorized(x)'
      BY <2>2, <2>3, <2>4, NewRows DEF Categorized, Exists
    <3>2. ASSUME NEW y \in Ids \ {x}
          PROVE  Categorized(y)'
      BY <2>3, <2>4, CategoryIds DEF CatalogInv, Categorized, Exists, Rowed
    <3>. QED
      BY <3>1, <3>2
  <2>. QED
    BY <2>1, <2>3, <2>5, Says
<1>. QED
  BY <1>1, <1>2

LEMMA WhatIsEdited ==
  ASSUME NEW x \in Ids, NEW c \in Edits(x)
  PROVE  /\ c[1] \in {"active", "category", "name", "priced", "remove"}
         /\ c[1] = "active" => c[2] \in BOOLEAN
         /\ c[1] = "priced" => c[2] \in {0, 1}
         /\ c[1] = "category" => c[2] \in Categories /\ x \in Products
         /\ c[1] = "remove" => x \in Categories \cup Options
<1>1. CASE x \in Products
  <2>1. Edits(x) = ProductEdits
    BY <1>1, CatalogAssumption DEF Edits
  <2>. QED
    BY <1>1, <2>1 DEF ProductEdits
<1>2. CASE x \in Warehouses
  <2>1. Edits(x) = WarehouseEdits
    BY <1>2, CatalogAssumption DEF Edits
  <2>. QED
    BY <2>1 DEF WarehouseEdits
<1>3. CASE x \in Categories
  <2>1. Edits(x) = CategoryEdits
    BY <1>3, CatalogAssumption DEF Edits
  <2>2. c = <<"name", 0>> \/ c = <<"remove", TRUE>>
    BY <2>1 DEF CategoryEdits
  <2>3. c[1] = "name" \/ c[1] = "remove"
    BY <2>2, <<"name", 0>>[1] = "name", <<"remove", TRUE>>[1] = "remove"
  <2>. QED
    BY <1>3, <2>3
<1>4. CASE x \in Options
  <2>1. Edits(x) = OptionEdits
    BY <1>4, CatalogAssumption DEF Edits
  <2>2. c \in {"priced"} \X {0, 1} \/ c = <<"remove", TRUE>>
    BY <2>1 DEF OptionEdits
  <2>3. (c[1] = "priced" /\ c[2] \in {0, 1}) \/ c[1] = "remove"
    BY <2>2, <<"remove", TRUE>>[1] = "remove"
  <2>. QED
    BY <1>4, <2>3
<1>5. CASE x \in Scripts
  <2>1. Edits(x) = ScriptEdits
    BY <1>5, CatalogAssumption DEF Edits
  <2>. QED
    BY <2>1 DEF ScriptEdits
<1>. QED
  BY <1>1, <1>2, <1>3, <1>4, <1>5 DEF Ids

LEMMA FindsOrThrows ==
  ASSUME NEW e \in Editors, NEW x \in Ids, NEW c \in Edits(x),
         CatalogInv, FindOrThrow(e, x, c[1], c[2])
  PROVE  CatalogInv'
<1>1. CASE Exists(x)
  <2>. DEFINE what == [field |-> c[1], value |-> c[2], id |-> x]
  <2>1. Goes(e, "write", what) /\ UNCHANGED row
    BY <1>1 DEF FindOrThrow
  <2>2. edit'[e] = what
    BY <2>1 DEF Goes, CatalogInv
  <2>3. Written(e)'
    BY <2>2, WhatIsEdited DEF Written
  <2>. HIDE DEF what
  <2>. QED
    BY <2>1, <2>3, GoesOn
<1>2. CASE ~Exists(x)
  <2>1. Say(e, 404) /\ UNCHANGED row
    BY <1>2 DEF FindOrThrow
  <2>. QED
    BY <2>1, Says, Unmoved
<1>. QED
  BY <1>1, <1>2

LEMMA WritesRow ==
  ASSUME NEW e \in Editors, CatalogInv, WriteRow(e)
  PROVE  CatalogInv'
<1>. DEFINE x == edit[e].id
            set == edit[e].field
            v == edit[e].value
<1>1. /\ x \in Ids /\ set \in {"active", "category", "name", "priced", "remove"}
      /\ set = "active" => v \in BOOLEAN
      /\ set = "priced" => v \in {0, 1}
      /\ set = "category" => v \in Categories /\ x \in Products
      /\ set = "remove" => x \in Categories \cup Options
  BY DEF WriteRow, CatalogInv, Written
<1>2. \/ Say(e, 404) /\ UNCHANGED row
      \/ Say(e, 409) /\ UNCHANGED row
      \/ Exists(x) /\ set = "remove" /\ Say(e, 204) /\ row' = RowsWithout(x)
      \/ /\ Exists(x) /\ set # "remove" /\ (set = "category" => Exists(v)) /\ Say(e, 200)
         /\ row' = CASE set = "active" -> [row EXCEPT ![x].active = v]
                     [] set = "category" -> [row EXCEPT ![x].category = v]
                     [] set = "priced" -> [row EXCEPT ![x].priced = v]
                     [] OTHER -> row
  BY ErrorStatus DEF WriteRow
<1>. HIDE DEF x, set, v
<1>3. CASE (Say(e, 404) \/ Say(e, 409)) /\ UNCHANGED row
  BY <1>3, Says, Unmoved
<1>4. CASE Exists(x) /\ set = "remove" /\ Say(e, 204) /\ row' = RowsWithout(x)
  <2>1. (x \notin Products /\ x # Missing) \/ x \in Options
    BY <1>1, <1>4, CategoryIds
  <2>2. DOMAIN row' = Ids
    BY <1>4 DEF RowsWithout
  <2>3. ASSUME NEW y \in Ids, Exists(y)'
        PROVE  Categorized(y)'
    <3>1. y # x /\ Exists(y)
      BY <1>4, <2>3 DEF RowsWithout, Exists
    <3>2. /\ row[y] \in Rowed
          /\ row[y].category # Missing => y \in Products /\ Exists(row[y].category)
      BY <3>1 DEF CatalogInv, Categorized
    <3>3. CASE row[y].category = x
      <4>1. row'[y] = [row[y] EXCEPT !.category = Missing]
        BY <1>4, <3>1, <3>3 DEF RowsWithout
      <4>2. row'[y] \in Rowed /\ row'[y].category = Missing
        BY <3>2, <4>1 DEF Rowed
      <4>. QED
        BY <4>2 DEF Categorized
    <3>4. CASE row[y].category # x
      <4>1. row'[y] = row[y]
        BY <1>4, <3>1, <3>4 DEF RowsWithout
      <4>. PICK k : k = row[y].category
        OBVIOUS
      <4>2. k # Missing => k \in Ids /\ k # x /\ Exists(k)
        BY <3>2, <3>4, CategoryIds DEF Rowed
      <4>3. ASSUME k # Missing
            PROVE  Exists(k)'
        <5>1. row'[k] = row[k] \/ row'[k] = [row[k] EXCEPT !.category = Missing]
          BY <1>4, <4>2, <4>3 DEF RowsWithout
        <5>2. row[k] \in Rowed
          BY <4>2, <4>3 DEF CatalogInv, Categorized
        <5>3. row'[k] \in Rowed
          BY <5>1, <5>2 DEF Rowed
        <5>. QED
          BY <5>3, GoneIsNoRow DEF Exists
      <4>. QED
        BY <3>2, <4>1, <4>3 DEF Categorized, Exists
    <3>. QED
      BY <3>3, <3>4
  <2>4. \A y \in Ids : Categorized(y)'
    BY <2>3 DEF Categorized
  <2>. QED
    BY <1>4, <2>2, <2>4, Says
<1>5. CASE /\ Exists(x) /\ set # "remove" /\ (set = "category" => Exists(v)) /\ Say(e, 200)
           /\ row' = CASE set = "active" -> [row EXCEPT ![x].active = v]
                       [] set = "category" -> [row EXCEPT ![x].category = v]
                       [] set = "priced" -> [row EXCEPT ![x].priced = v]
                       [] OTHER -> row
  <2>. PICK z : z = x
    OBVIOUS
  <2>1. /\ z \in Ids /\ row[z] \in Rowed /\ DOMAIN row = Ids
        /\ row[z].category # Missing => z \in Products /\ Exists(row[z].category)
    BY <1>1, <1>5 DEF CatalogInv, Categorized
  <2>2. /\ DOMAIN row' = Ids /\ \A y \in Ids \ {z} : row'[y] = row[y]
        /\ row'[z] \in Rowed
        /\ row'[z].category = IF set = "category" THEN v ELSE row[z].category
    <3>1. CASE set = "active"
      BY <1>1, <1>5, <2>1, <3>1 DEF Rowed
    <3>2. CASE set = "category"
      BY <1>1, <1>5, <2>1, <3>2 DEF Rowed
    <3>3. CASE set = "priced"
      BY <1>1, <1>5, <2>1, <3>3 DEF Rowed
    <3>4. CASE set = "name"
      BY <1>1, <1>5, <2>1, <3>4
    <3>. QED
      BY <1>1, <1>5, <3>1, <3>2, <3>3, <3>4
  <2>3. \A y \in Ids : Exists(y) => Exists(y)'
    BY <2>2, GoneIsNoRow DEF Exists
  <2>4. ASSUME NEW y \in Ids \ {z}
        PROVE  Categorized(y)'
    <3>1. Categorized(y) /\ row'[y] = row[y]
      BY <2>2 DEF CatalogInv
    <3>. PICK k : k = row[y].category
      OBVIOUS
    <3>2. Exists(y) => /\ row[y] \in Rowed
                       /\ k # Missing => k \in Ids /\ Exists(k) /\ y \in Products
      BY <3>1, CategoryIds DEF Categorized, Rowed
    <3>3. Exists(y) /\ k # Missing => Exists(k)'
      BY <2>3, <3>2
    <3>. QED
      BY <3>1, <3>2, <3>3 DEF Categorized, Exists
  <2>5. Categorized(z)'
    <3>. PICK k : k = row'[z].category
      OBVIOUS
    <3>1. k # Missing => z \in Products /\ k \in Ids /\ Exists(k)
      BY <1>1, <1>5, <2>1, <2>2, CategoryIds DEF Rowed
    <3>2. k # Missing => Exists(k)'
      BY <2>3, <3>1
    <3>. QED
      BY <2>2, <3>1, <3>2 DEF Categorized, Exists
  <2>6. \A y \in Ids : Categorized(y)'
    BY <2>4, <2>5
  <2>. QED
    BY <1>5, <2>2, <2>6, Says
<1>. QED
  BY <1>2, <1>3, <1>4, <1>5

LEMMA StockEdits ==
  ASSUME NEW e \in Editors, CatalogInv,
         \/ \E w \in Warehouses, p \in Products, n \in Quantities : FindParents(e, w, p, n)
         \/ LookForStock(e) \/ PutStock(e)
  PROVE  CatalogInv'
<1>1. ASSUME NEW w, NEW p, NEW n, FindParents(e, w, p, n)
      PROVE  CatalogInv'
  BY <1>1, Says, GoesOn, Unmoved DEF FindParents
<1>2. CASE LookForStock(e)
  BY <1>2, GoesOn DEF LookForStock
<1>3. CASE PutStock(e)
  BY <1>3, Says, Unmoved, ErrorStatus DEF PutStock
<1>. QED
  BY <1>1, <1>2, <1>3

LEMMA CatalogStarts == CatalogInit => CatalogInv
<1>. SUFFICES ASSUME CatalogInit PROVE CatalogInv
  OBVIOUS
<1>1. \A x \in Ids : row[x] = NewRow(Missing) \/ row[x] = Gone
  BY DEF CatalogInit
<1>2. \A x \in Ids : Categorized(x)
  BY <1>1, NewRows DEF Categorized, Exists
<1>. QED
  BY <1>2 DEF CatalogInit, CatalogInv, Written

LEMMA CatalogKeeps == CatalogInv /\ [CatalogNext]_catalogVars => CatalogInv'
<1>. SUFFICES ASSUME CatalogInv, [CatalogNext]_catalogVars PROVE CatalogInv'
  OBVIOUS
<1>1. ASSUME NEW e \in Editors, Starts(e)
      PROVE  CatalogInv'
  BY <1>1, CreatesRow, FindsOrThrows, StockEdits DEF Starts
<1>2. ASSUME NEW e \in Editors, WriteRow(e) \/ LookForStock(e) \/ PutStock(e)
      PROVE  CatalogInv'
  BY <1>2, WritesRow, StockEdits
<1>3. CASE UNCHANGED catalogVars
  BY <1>3 DEF catalogVars, CatalogInv, Categorized, Exists, Written
<1>. QED
  BY <1>1, <1>2, <1>3 DEF CatalogNext

LEMMA CatalogIsSound == CatalogInv => CatalogHolds
BY DEF CatalogInv, CatalogHolds, RacesAnswered, CategoriesResolve, Categorized, Ids

(* However the requests of two editors interleave, a race between a find   *)
(* and a write ends in a 404 or a 409 and never in a 500, and no product   *)
(* is left with a category that is gone (src/catalog, src/scripts and      *)
(* prisma-exception.filter.ts).                                            *)
THEOREM EditorsAreAnswered == CatalogSpec => []CatalogHolds
<1>1. CatalogSpec => []CatalogInv
  BY CatalogStarts, CatalogKeeps, PTL DEF CatalogSpec
<1>. QED
  BY <1>1, CatalogIsSound, PTL

-----------------------------------------------------------------------------
(* The inductive invariant of the quotes                                   *)

QuoteSteps == {"idle", "stocks", "included", "warehouses", "variants", "answered", "failed"}
VariantSteps == {"none", "cache", "estimate", "store", "insert", "done"}

QuoteRows ==
  [of : Warehouses, dest : Destinations, kg : Weights, made : Estimates,
   source : {"AI_ESTIMATE", "MANUAL"}, route : Keys]

QuoteShape ==
  /\ qpc \in [Clients -> QuoteSteps] /\ found \in [Clients -> SUBSET Warehouses]
  /\ vpc \in [Clients -> [Warehouses -> VariantSteps]]
  /\ DOMAIN got = Clients /\ (\A c \in Clients : DOMAIN got[c] = Warehouses)
  /\ DOMAIN asking = Clients /\ DOMAIN reply = Clients
  /\ DOMAIN had = Clients /\ DOMAIN open = Clients /\ DOMAIN cache = Keys
  /\ quotes \in Seq(QuoteRows)

(* What the request has seen of the stock and of the warehouses.           *)
Seen(c) ==
  /\ \A w \in Warehouses :
       /\ w \in had[c] /\ Active(w) => w \in open[c]
       /\ qpc[c] # "idle" /\ HasAll(w) => w \in had[c]
  /\ qpc[c] = "included" => found[c] \subseteq had[c]
  /\ qpc[c] # "included" => found[c] \subseteq open[c]

(* Where its variants may stand: only those of warehouses found have begun.*)
Placed(c) ==
  /\ qpc[c] # "idle" => asking[c].dest \in Destinations /\ asking[c].kg \in Weights
  /\ qpc[c] \in {"idle", "stocks", "included", "warehouses"} =>
       \A w \in Warehouses : vpc[c][w] = "none"
  /\ \A w \in Warehouses : vpc[c][w] # "none" => w \in found[c]

IsOffer(v) ==
  \/ v.kind \in {"local", "unavailable"}
  \/ v.kind = "quote" /\ v.made \in Estimates /\ v.made.stores

(* What a variant has so far.                                              *)
Holds(c, w) ==
  /\ qpc[c] = "variants" /\ w \in found[c] => vpc[c][w] # "none"
  /\ qpc[c] = "variants" /\ vpc[c][w] = "done" => got[c][w].of = w /\ IsOffer(got[c][w])
  /\ vpc[c][w] \in {"store", "insert"} =>
       got[c][w].kind = "estimate" /\ got[c][w].made \in Estimates /\ got[c][w].route = KeyOf(c, w)
  /\ got[c][w].kind = "quote" => got[c][w].id \in 1..Len(quotes)

Replied(c) ==
  /\ qpc[c] \in {"stocks", "included", "warehouses", "variants"} => reply[c] = <<>>
  /\ qpc[c] = "answered" => {reply[c][i].of : i \in DOMAIN reply[c]} = found[c]
  /\ \A i \in DOMAIN reply[c] : IsOffer(reply[c][i])
  /\ \A i, j \in DOMAIN reply[c] : i < j => ~Before(reply[c][j], reply[c][i])

Cached(k) == cache[k].kind = "estimate" => cache[k].made \in Estimates /\ cache[k].route = k

RowsOwn ==
  \A i \in DOMAIN quotes : quotes[i].route = Key(quotes[i].of, quotes[i].dest, quotes[i].kg)

RowsApart ==
  \A c, b \in Clients, w, x \in Warehouses :
    got[c][w].kind = "quote" /\ got[b][x].kind = "quote" /\ got[c][w].id = got[b][x].id
      => c = b /\ w = x

DeliveryInv ==
  /\ QuoteShape /\ RowsOwn /\ RowsApart
  /\ \A c \in Clients : Seen(c) /\ Placed(c) /\ Replied(c)
  /\ \A c \in Clients : \A w \in Warehouses : Holds(c, w)
  /\ \A k \in Keys : Cached(k)

LEMMA KeysAre ==
  ASSUME NEW w \in Warehouses, NEW d \in Destinations, NEW kg \in Weights
  PROVE  Key(w, d, kg) \in Keys
BY DEF Keys

(* A weight is rounded up.                                                 *)
LEMMA BucketHolds ==
  ASSUME NEW kg \in Weights
  PROVE  Bucket(kg) >= kg
<1>1. kg \in Nat /\ BucketSize \in Nat /\ BucketSize > 0
  BY DeliveryAssumption
<1>. PICK n : n = kg + BucketSize - 1
  OBVIOUS
<1>2. n \in Nat
  BY <1>1
<1>. PICK q : q = n \div BucketSize
  OBVIOUS
<1>3. q \in Int /\ n < BucketSize * q + BucketSize
  BY <1>1, <1>2
<1>4. BucketSize * q \in Int /\ BucketSize * q = q * BucketSize
  BY <1>1, <1>3
<1>. PICK m : m = q * BucketSize
  OBVIOUS
<1>5. m \in Int /\ m >= kg
  BY <1>1, <1>2, <1>3, <1>4
<1>6. Bucket(kg) = IF m > BucketSize THEN m ELSE BucketSize
  BY DEF Bucket
<1>. QED
  BY <1>1, <1>5, <1>6

(* A new quote row, of its own route.                                      *)
LEMMA RowsAdded ==
  ASSUME DeliveryInv, NEW line \in QuoteRows, line.route = Key(line.of, line.dest, line.kg),
         quotes' = Append(quotes, line)
  PROVE  quotes' \in Seq(QuoteRows) /\ Len(quotes') = Len(quotes) + 1 /\ RowsOwn'
<1>1. quotes \in Seq(QuoteRows) /\ Len(quotes) \in Nat
  BY DEF DeliveryInv, QuoteShape
<1>2. /\ quotes' \in Seq(QuoteRows) /\ Len(quotes') = Len(quotes) + 1
      /\ quotes'[Len(quotes) + 1] = line
      /\ \A i \in 1..Len(quotes) : quotes'[i] = quotes[i]
  BY <1>1
<1>3. ASSUME NEW i \in 1..(Len(quotes) + 1)
      PROVE  quotes'[i].route = Key(quotes'[i].of, quotes'[i].dest, quotes'[i].kg)
  <2>1. CASE i = Len(quotes) + 1
    BY <1>2, <2>1
  <2>2. CASE i \in 1..Len(quotes)
    BY <1>1, <1>2, <2>2 DEF DeliveryInv, RowsOwn
  <2>. QED
    BY <1>1, <2>1, <2>2
<1>. QED
  BY <1>1, <1>2, <1>3 DEF RowsOwn, Key

(* Whatever a step does for one client, it leaves the others alone.        *)
LEMMA OthersStay ==
  ASSUME NEW c \in Clients, NEW b \in Clients \ {c}, DeliveryInv,
         row' = row, stock' = stock, Len(quotes) \in Nat, Len(quotes') \in Nat,
         Len(quotes) <= Len(quotes'),
         qpc'[b] = qpc[b], asking'[b] = asking[b], found'[b] = found[b], vpc'[b] = vpc[b],
         got'[b] = got[b], reply'[b] = reply[b], had'[b] = had[b], open'[b] = open[b]
  PROVE  /\ Seen(b)' /\ Placed(b)' /\ Replied(b)'
         /\ \A w \in Warehouses : Holds(b, w)'
<1>1. Seen(b)'
  BY DEF DeliveryInv, Seen, HasAll, Active
<1>2. Placed(b)'
  BY DEF DeliveryInv, Placed
<1>3. Replied(b)'
  BY DEF DeliveryInv, Replied
<1>4. ASSUME NEW w \in Warehouses
      PROVE  Holds(b, w)'
  <2>1. Holds(b, w)
    BY DEF DeliveryInv
  <2>. QED
    BY <2>1 DEF Holds, KeyOf
<1>. QED
  BY <1>1, <1>2, <1>3, <1>4

(* A step of one variant, with what it has then.                           *)
LEMMA VariantMoves ==
  ASSUME NEW c \in Clients, NEW w \in Warehouses, DeliveryInv,
         NEW from \in VariantSteps \ {"none"}, NEW to \in VariantSteps \ {"none"}, NEW what,
         Variant(c, w, from, to, what), reply' = reply,
         qpc' = qpc \/ qpc' = [qpc EXCEPT ![c] = "failed"],
         cache' = cache \/ (DOMAIN cache' = Keys /\ \A k \in Keys : Cached(k)'),
         quotes' = quotes \/ (quotes' \in Seq(QuoteRows) /\ RowsOwn'
                                /\ Len(quotes') = Len(quotes) + 1),
         qpc'[c] = "variants" /\ to = "done" => what.of = w /\ IsOffer(what),
         to \in {"store", "insert"} =>
           what.kind = "estimate" /\ what.made \in Estimates /\ what.route = KeyOf(c, w),
         what.kind = "quote" => what.id = Len(quotes) + 1 /\ quotes' # quotes
  PROVE  DeliveryInv'
<1>1. /\ row' = row /\ stock' = stock /\ asking' = asking /\ found' = found
      /\ had' = had /\ open' = open /\ vpc[c][w] = from
      /\ vpc' = [vpc EXCEPT ![c][w] = to] /\ got' = [got EXCEPT ![c][w] = what]
  BY DEF Variant, catalogVars
<1>2. /\ Len(quotes) \in Nat /\ quotes' \in Seq(QuoteRows) /\ Len(quotes') \in Nat
      /\ Len(quotes) <= Len(quotes')
      /\ RowsOwn' /\ DOMAIN cache' = Keys /\ \A k \in Keys : Cached(k)'
  <2>1. quotes \in Seq(QuoteRows) /\ Len(quotes) \in Nat
    BY DEF DeliveryInv, QuoteShape
  <2>2. quotes' = quotes => RowsOwn'
    BY DEF DeliveryInv, RowsOwn
  <2>3. cache' = cache => DOMAIN cache' = Keys /\ \A k \in Keys : Cached(k)'
    BY DEF DeliveryInv, QuoteShape, Cached
  <2>. QED
    BY <2>1, <2>2, <2>3
<1>3. /\ vpc' \in [Clients -> [Warehouses -> VariantSteps]]
      /\ vpc'[c][w] = to /\ got'[c][w] = what
      /\ \A x \in Warehouses \ {w} : vpc'[c][x] = vpc[c][x] /\ got'[c][x] = got[c][x]
      /\ \A b \in Clients \ {c} : vpc'[b] = vpc[b] /\ got'[b] = got[b] /\ qpc'[b] = qpc[b]
      /\ DOMAIN got' = Clients /\ \A b \in Clients : DOMAIN got'[b] = Warehouses
  BY <1>1 DEF DeliveryInv, QuoteShape
<1>4. /\ QuoteShape'
      /\ qpc'[c] = qpc[c] \/ qpc'[c] = "failed"
  BY <1>1, <1>2, <1>3 DEF DeliveryInv, QuoteShape, QuoteSteps
<1>5. /\ from # "none" /\ to # "none" /\ w \in found[c]
      /\ qpc[c] \in {"variants", "answered", "failed"}
  BY <1>1 DEF DeliveryInv, Placed, QuoteShape, QuoteSteps
<1>6. Seen(c)'
  BY <1>1, <1>4, <1>5 DEF DeliveryInv, Seen, HasAll, Active
<1>7. Placed(c)'
  BY <1>1, <1>3, <1>4, <1>5 DEF DeliveryInv, Placed
<1>8. Replied(c)'
  BY <1>1, <1>4, <1>5 DEF DeliveryInv, Replied
<1>9. ASSUME NEW x \in Warehouses
      PROVE  Holds(c, x)'
  <2>1. CASE x = w
    <3>1. KeyOf(c, w)' = KeyOf(c, w)
      BY <1>1 DEF KeyOf
    <3>2. what.kind = "quote" => what.id \in 1..Len(quotes')
      BY <1>2
    <3>. QED
      BY <1>3, <2>1, <3>1, <3>2 DEF Holds
  <2>2. CASE x # w
    <3>1. Holds(c, x) /\ KeyOf(c, x)' = KeyOf(c, x)
      BY <1>1 DEF DeliveryInv, KeyOf
    <3>2. qpc'[c] = "variants" => qpc[c] = "variants"
      BY <1>4
    <3>. QED
      BY <1>1, <1>2, <1>3, <2>2, <3>1, <3>2 DEF Holds
  <2>. QED
    BY <2>1, <2>2
<1>10. RowsApart'
  <2>. SUFFICES ASSUME NEW d \in Clients, NEW b \in Clients, NEW x \in Warehouses,
                       NEW y \in Warehouses,
                       got'[d][x].kind = "quote", got'[b][y].kind = "quote",
                       got'[d][x].id = got'[b][y].id
                PROVE  d = b /\ x = y
    BY DEF RowsApart
  <2>1. ASSUME NEW a \in Clients, NEW z \in Warehouses, a # c \/ z # w,
               got'[a][z].kind = "quote", what.kind = "quote"
        PROVE  got'[a][z].id # what.id
    <3>1. got'[a][z] = got[a][z]
      BY <1>3, <2>1
    <3>2. got[a][z].id \in 1..Len(quotes)
      BY <2>1, <3>1 DEF DeliveryInv, Holds
    <3>. QED
      BY <1>2, <2>1, <3>1, <3>2
  <2>2. CASE d = c /\ x = w
    BY <1>3, <2>1, <2>2
  <2>3. CASE b = c /\ y = w
    BY <1>3, <2>1, <2>3
  <2>4. CASE (d # c \/ x # w) /\ (b # c \/ y # w)
    <3>1. got'[d][x] = got[d][x] /\ got'[b][y] = got[b][y]
      BY <1>3, <2>4
    <3>. QED
      BY <3>1 DEF DeliveryInv, RowsApart
  <2>. QED
    BY <2>2, <2>3, <2>4
<1>11. ASSUME NEW b \in Clients \ {c}
       PROVE  /\ Seen(b)' /\ Placed(b)' /\ Replied(b)'
              /\ \A x \in Warehouses : Holds(b, x)'
  BY <1>1, <1>2, <1>3, OthersStay
<1>. QED
  BY <1>2, <1>4, <1>6, <1>7, <1>8, <1>9, <1>10, <1>11 DEF DeliveryInv

(* A variant that is under way belongs to a request that asks for one of   *)
(* the routes.                                                             *)
LEMMA RouteOf ==
  ASSUME NEW c \in Clients, NEW w \in Warehouses, DeliveryInv, vpc[c][w] # "none"
  PROVE  /\ KeyOf(c, w) \in Keys
         /\ asking[c].dest \in Destinations /\ asking[c].kg \in Weights
<1>1. qpc[c] # "idle"
  BY DEF DeliveryInv, Placed
<1>2. asking[c].dest \in Destinations /\ asking[c].kg \in Weights
  BY <1>1 DEF DeliveryInv, Placed
<1>. QED
  BY <1>2, KeysAre DEF KeyOf

LEMMA ThrowsMoves ==
  ASSUME NEW c \in Clients, NEW w \in Warehouses, DeliveryInv,
         NEW from \in VariantSteps \ {"none"}, Throws(c, w, from)
  PROVE  DeliveryInv'
<1>1. /\ Variant(c, w, from, "done", Nothing) /\ reply' = reply /\ cache' = cache
      /\ quotes' = quotes /\ qpc' = [qpc EXCEPT ![c] = "failed"]
  BY DEF Throws
<1>2. Nothing.kind \notin {"quote", "estimate"} /\ qpc'[c] # "variants"
  BY <1>1 DEF Nothing, DeliveryInv, QuoteShape
<1>. QED
  BY <1>1, <1>2, VariantMoves DEF VariantSteps

LEMMA CacheGetMoves ==
  ASSUME NEW c \in Clients, NEW w \in Warehouses, DeliveryInv, CacheGet(c, w)
  PROVE  DeliveryInv'
<1>. PICK hit : hit = cache[KeyOf(c, w)]
  OBVIOUS
<1>1. /\ reply' = reply /\ cache' = cache /\ quotes' = quotes /\ qpc' = qpc
      /\ vpc[c][w] # "none"
  BY DEF CacheGet
<1>2. CASE hit.kind = "estimate" /\ Variant(c, w, "cache", "insert", hit)
  <2>1. hit.made \in Estimates /\ hit.route = KeyOf(c, w)
    BY <1>1, <1>2, RouteOf DEF DeliveryInv, Cached
  <2>. QED
    BY <1>1, <1>2, <2>1, VariantMoves DEF VariantSteps
<1>3. CASE Variant(c, w, "cache", "estimate", Nothing)
  <2>1. Nothing.kind \notin {"quote", "estimate"}
    BY DEF Nothing
  <2>. QED
    BY <1>1, <1>3, <2>1, VariantMoves DEF VariantSteps
<1>. QED
  BY <1>2, <1>3 DEF CacheGet

LEMMA EstimateMoves ==
  ASSUME NEW c \in Clients, NEW w \in Warehouses, DeliveryInv,
         EstimateFails(c, w) \/ \E a \in Estimates : EstimateAnswers(c, w, a)
  PROVE  DeliveryInv'
<1>1. CASE EstimateFails(c, w)
  <2>. DEFINE what == [kind |-> "unavailable", of |-> w]
  <2>1. /\ Variant(c, w, "estimate", "done", what)
        /\ reply' = reply /\ cache' = cache /\ quotes' = quotes /\ qpc' = qpc
    BY <1>1 DEF EstimateFails
  <2>2. what.kind = "unavailable" /\ what.of = w /\ IsOffer(what)
    BY DEF IsOffer
  <2>. HIDE DEF what
  <2>. QED
    BY <2>1, <2>2, VariantMoves DEF VariantSteps
<1>2. ASSUME NEW a \in Estimates, EstimateAnswers(c, w, a)
      PROVE  DeliveryInv'
  <2>. DEFINE what == [kind |-> "estimate", made |-> a, route |-> KeyOf(c, w)]
  <2>1. /\ Variant(c, w, "estimate", "store", what)
        /\ reply' = reply /\ cache' = cache /\ quotes' = quotes /\ qpc' = qpc
    BY <1>2 DEF EstimateAnswers
  <2>2. what.kind = "estimate" /\ what.made = a /\ what.route = KeyOf(c, w)
    OBVIOUS
  <2>. HIDE DEF what
  <2>. QED
    BY <2>1, <2>2, VariantMoves DEF VariantSteps
<1>. QED
  BY <1>1, <1>2

LEMMA CacheSetMoves ==
  ASSUME NEW c \in Clients, NEW w \in Warehouses, DeliveryInv,
         CacheSet(c, w) \/ CacheSetFails(c, w)
  PROVE  DeliveryInv'
<1>. PICK what : what = got[c][w]
  OBVIOUS
<1>. PICK key : key = KeyOf(c, w)
  OBVIOUS
<1>1. /\ Variant(c, w, "store", "insert", what) /\ reply' = reply /\ quotes' = quotes
      /\ qpc' = qpc /\ vpc[c][w] = "store"
      /\ cache' = cache \/ cache' = [cache EXCEPT ![key] = what]
  BY DEF CacheSet, CacheSetFails, Variant
<1>2. what.kind = "estimate" /\ what.made \in Estimates /\ what.route = key /\ key \in Keys
  BY <1>1, RouteOf DEF DeliveryInv, Holds
<1>3. ASSUME cache' = [cache EXCEPT ![key] = what]
      PROVE  DOMAIN cache' = Keys /\ \A k \in Keys : Cached(k)'
  BY <1>2, <1>3 DEF DeliveryInv, QuoteShape, Cached
<1>. QED
  BY <1>1, <1>2, <1>3, VariantMoves DEF VariantSteps

LEMMA InsertQuoteMoves ==
  ASSUME NEW c \in Clients, NEW w \in Warehouses, DeliveryInv, InsertQuote(c, w)
  PROVE  DeliveryInv'
<1>. PICK a : a = got[c][w]
  OBVIOUS
<1>. DEFINE line == [of |-> w, dest |-> asking[c].dest, kg |-> asking[c].kg, made |-> a.made,
                     source |-> "AI_ESTIMATE", route |-> a.route]
            what == [kind |-> "quote", of |-> w, made |-> a.made, id |-> Len(quotes) + 1]
<1>1. /\ vpc[c][w] = "insert" /\ a.made.stores /\ quotes' = Append(quotes, line)
      /\ Variant(c, w, "insert", "done", what)
      /\ cache' = cache /\ qpc' = qpc /\ reply' = reply
  BY DEF InsertQuote, Stores
<1>2. /\ a.made \in Estimates /\ a.route = KeyOf(c, w) /\ KeyOf(c, w) \in Keys
      /\ asking[c].dest \in Destinations /\ asking[c].kg \in Weights
  BY <1>1, RouteOf DEF DeliveryInv, Holds
<1>3. line \in QuoteRows /\ line.route = Key(line.of, line.dest, line.kg)
  BY <1>2 DEF QuoteRows, KeyOf
<1>4. what.kind = "quote" /\ what.of = w /\ IsOffer(what) /\ what.id = Len(quotes) + 1
  BY <1>1, <1>2 DEF IsOffer
<1>. HIDE DEF line, what
<1>5. quotes' \in Seq(QuoteRows) /\ Len(quotes') = Len(quotes) + 1 /\ RowsOwn'
  BY <1>1, <1>3, RowsAdded
<1>6. quotes' # quotes
  BY <1>5 DEF DeliveryInv, QuoteShape
<1>. QED
  BY <1>1, <1>4, <1>5, <1>6, VariantMoves DEF VariantSteps

LEMMA VariantStepMoves ==
  ASSUME NEW c \in Clients, NEW w \in Warehouses, DeliveryInv, VariantStep(c, w)
  PROVE  DeliveryInv'
<1>1. CASE CacheGetFails(c, w) \/ InsertQuoteFails(c, w)
  BY <1>1, ThrowsMoves DEF CacheGetFails, InsertQuoteFails, VariantSteps
<1>. QED
  BY <1>1, CacheGetMoves, EstimateMoves, CacheSetMoves, InsertQuoteMoves DEF VariantStep

(* Steps of the request itself                                             *)

LEMMA RequestMoves ==
  ASSUME NEW c \in Clients, DeliveryInv, row' = row, stock' = stock,
         cache' = cache, quotes' = quotes, QuoteShape',
         \A b \in Clients \ {c} :
           /\ qpc'[b] = qpc[b] /\ asking'[b] = asking[b] /\ found'[b] = found[b]
           /\ vpc'[b] = vpc[b] /\ got'[b] = got[b] /\ reply'[b] = reply[b]
           /\ had'[b] = had[b] /\ open'[b] = open[b],
         \A w \in Warehouses : got'[c][w].kind = "quote" => got'[c][w] = got[c][w],
         Seen(c)', Placed(c)', Replied(c)', \A w \in Warehouses : Holds(c, w)'
  PROVE  DeliveryInv'
<1>1. Len(quotes) \in Nat /\ Len(quotes') \in Nat /\ Len(quotes) <= Len(quotes')
  BY DEF DeliveryInv, QuoteShape
<1>2. RowsOwn' /\ \A k \in Keys : Cached(k)'
  BY DEF DeliveryInv, RowsOwn, Cached
<1>3. RowsApart'
  <2>1. \A b \in Clients : \A w \in Warehouses :
          got'[b][w].kind = "quote" => got'[b][w] = got[b][w]
    OBVIOUS
  <2>. QED
    BY <2>1 DEF DeliveryInv, RowsApart
<1>4. ASSUME NEW b \in Clients \ {c}
      PROVE  /\ Seen(b)' /\ Placed(b)' /\ Replied(b)'
             /\ \A w \in Warehouses : Holds(b, w)'
  BY <1>1, OthersStay
<1>. QED
  BY <1>2, <1>3, <1>4 DEF DeliveryInv

LEMMA BeginMoves ==
  ASSUME NEW c \in Clients, NEW dest \in Destinations, NEW kg \in Weights, DeliveryInv,
         QuoteBegin(c, dest, kg)
  PROVE  DeliveryInv'
<1>1. /\ row' = row /\ stock' = stock /\ cache' = cache /\ quotes' = quotes
      /\ qpc' = [qpc EXCEPT ![c] = "stocks"]
      /\ asking' = [asking EXCEPT ![c] = [dest |-> dest, kg |-> kg]]
      /\ found' = [found EXCEPT ![c] = {}]
      /\ vpc' = [vpc EXCEPT ![c] = [w \in Warehouses |-> "none"]]
      /\ got' = [got EXCEPT ![c] = [w \in Warehouses |-> Nothing]]
      /\ reply' = [reply EXCEPT ![c] = <<>>]
      /\ had' = [had EXCEPT ![c] = {w \in Warehouses : HasAll(w)}]
      /\ open' = [open EXCEPT ![c] = {w \in Warehouses : HasAll(w) /\ Active(w)}]
  BY DEF QuoteBegin, catalogVars
<1>2. QuoteShape'
  BY <1>1 DEF DeliveryInv, QuoteShape, QuoteSteps, VariantSteps
<1>3. /\ qpc'[c] = "stocks" /\ asking'[c].dest = dest /\ asking'[c].kg = kg
      /\ found'[c] = {} /\ reply'[c] = <<>>
      /\ \A w \in Warehouses : vpc'[c][w] = "none" /\ got'[c][w] = Nothing
      /\ had'[c] = {w \in Warehouses : HasAll(w)}
      /\ open'[c] = {w \in Warehouses : HasAll(w) /\ Active(w)}
  BY <1>1 DEF DeliveryInv, QuoteShape
<1>4. \A b \in Clients \ {c} :
        /\ qpc'[b] = qpc[b] /\ asking'[b] = asking[b] /\ found'[b] = found[b]
        /\ vpc'[b] = vpc[b] /\ got'[b] = got[b] /\ reply'[b] = reply[b]
        /\ had'[b] = had[b] /\ open'[b] = open[b]
  BY <1>1 DEF DeliveryInv, QuoteShape
<1>5. Seen(c)'
  BY <1>1, <1>3 DEF Seen, HasAll, Active
<1>6. Placed(c)' /\ Replied(c)'
  BY <1>3 DEF Placed, Replied
<1>7. \A w \in Warehouses : Holds(c, w)'
  BY <1>3 DEF Holds, Nothing
<1>8. \A w \in Warehouses : got'[c][w].kind # "quote"
  BY <1>3 DEF Nothing
<1>. QED
  BY <1>1, <1>2, <1>4, <1>5, <1>6, <1>7, <1>8, RequestMoves

LEMMA ReadStocksMoves ==
  ASSUME NEW c \in Clients, DeliveryInv, QuoteReadStocks(c)
  PROVE  DeliveryInv'
<1>1. /\ row' = row /\ stock' = stock /\ cache' = cache /\ quotes' = quotes
      /\ asking' = asking /\ vpc' = vpc /\ got' = got /\ reply' = reply
      /\ had' = had /\ open' = open /\ qpc[c] = "stocks"
      /\ found' = [found EXCEPT ![c] = {w \in Warehouses : HasAll(w)}]
      /\ qpc' = [qpc EXCEPT ![c] = "included"]
  BY DEF QuoteReadStocks, catalogVars
<1>2. QuoteShape'
  BY <1>1 DEF DeliveryInv, QuoteShape, QuoteSteps
<1>3. /\ qpc'[c] = "included" /\ found'[c] = {w \in Warehouses : HasAll(w)}
      /\ \A b \in Clients \ {c} : qpc'[b] = qpc[b] /\ found'[b] = found[b]
  BY <1>1 DEF DeliveryInv, QuoteShape
<1>4. Seen(c)'
  BY <1>1, <1>3 DEF DeliveryInv, Seen, HasAll, Active
<1>5. Placed(c)'
  BY <1>1, <1>3 DEF DeliveryInv, Placed
<1>6. Replied(c)'
  BY <1>1, <1>3 DEF DeliveryInv, Replied
<1>7. ASSUME NEW w \in Warehouses
      PROVE  Holds(c, w)'
  <2>1. Holds(c, w) /\ vpc[c][w] = "none"
    BY <1>1 DEF DeliveryInv, Placed
  <2>. QED
    BY <1>1, <1>3, <2>1 DEF Holds
<1>. QED
  BY <1>1, <1>2, <1>3, <1>4, <1>5, <1>6, <1>7, RequestMoves

LEMMA ReadActiveMoves ==
  ASSUME NEW c \in Clients, DeliveryInv, QuoteReadActive(c)
  PROVE  DeliveryInv'
<1>. PICK all : all = {w \in found[c] : Active(w)}
  OBVIOUS
<1>1. /\ row' = row /\ stock' = stock /\ cache' = cache /\ quotes' = quotes
      /\ asking' = asking /\ vpc' = vpc /\ got' = got /\ reply' = reply
      /\ had' = had /\ open' = open /\ qpc[c] = "included"
      /\ found' = [found EXCEPT ![c] = all]
      /\ qpc' = [qpc EXCEPT ![c] = IF all = {} THEN "answered" ELSE "warehouses"]
  BY DEF QuoteReadActive, catalogVars
<1>2. all \subseteq found[c] /\ all \subseteq Warehouses
  BY DEF DeliveryInv, QuoteShape
<1>3. QuoteShape'
  BY <1>1, <1>2 DEF DeliveryInv, QuoteShape, QuoteSteps
<1>4. /\ (qpc'[c] = "answered" /\ all = {}) \/ qpc'[c] = "warehouses"
      /\ found'[c] = all
      /\ \A b \in Clients \ {c} : qpc'[b] = qpc[b] /\ found'[b] = found[b]
  BY <1>1 DEF DeliveryInv, QuoteShape
<1>5. Seen(c)'
  <2>1. all \subseteq open[c]
    BY <1>1, <1>2 DEF DeliveryInv, Seen
  <2>. QED
    BY <1>1, <1>4, <2>1 DEF DeliveryInv, Seen, HasAll, Active
<1>6. \A w \in Warehouses : vpc[c][w] = "none"
  BY <1>1 DEF DeliveryInv, Placed
<1>7. Placed(c)'
  BY <1>1, <1>4, <1>6 DEF DeliveryInv, Placed
<1>8. Replied(c)'
  BY <1>1, <1>4 DEF DeliveryInv, Replied
<1>9. ASSUME NEW w \in Warehouses
      PROVE  Holds(c, w)'
  <2>1. Holds(c, w) /\ vpc[c][w] = "none"
    BY <1>6 DEF DeliveryInv
  <2>. QED
    BY <1>1, <1>4, <2>1 DEF Holds
<1>. QED
  BY <1>1, <1>3, <1>4, <1>5, <1>7, <1>8, <1>9, RequestMoves

LEMMA FanOutMoves ==
  ASSUME NEW c \in Clients, DeliveryInv, QuoteFanOut(c)
  PROVE  DeliveryInv'
<1>. DEFINE stand == [w \in Warehouses |->
       IF w \notin found[c] THEN "none" ELSE IF Local(c, w) THEN "done" ELSE "cache"]
            have == [w \in Warehouses |->
       IF w \in found[c] /\ Local(c, w) THEN [kind |-> "local", of |-> w] ELSE Nothing]
<1>1. /\ row' = row /\ stock' = stock /\ cache' = cache /\ quotes' = quotes
      /\ asking' = asking /\ found' = found /\ reply' = reply
      /\ had' = had /\ open' = open /\ qpc[c] = "warehouses"
      /\ vpc' = [vpc EXCEPT ![c] = stand] /\ got' = [got EXCEPT ![c] = have]
      /\ qpc' = [qpc EXCEPT ![c] = "variants"]
  BY DEF QuoteFanOut, catalogVars
<1>2. /\ stand \in [Warehouses -> VariantSteps \ {"store", "insert"}] /\ DOMAIN have = Warehouses
      /\ \A w \in Warehouses : stand[w] # "none" <=> w \in found[c]
  BY DEF VariantSteps
<1>3. ASSUME NEW w \in Warehouses
      PROVE  /\ have[w].kind # "quote"
             /\ stand[w] = "done" => have[w].of = w /\ IsOffer(have[w])
  <2>1. CASE w \in found[c] /\ Local(c, w)
    <3>1. have[w] = [kind |-> "local", of |-> w]
      BY <2>1
    <3>. HIDE DEF have
    <3>. QED
      BY <3>1 DEF IsOffer
  <2>2. CASE ~(w \in found[c] /\ Local(c, w))
    BY <2>2 DEF Nothing
  <2>. QED
    BY <2>1, <2>2
<1>. HIDE DEF stand, have
<1>4. QuoteShape'
  BY <1>1, <1>2 DEF DeliveryInv, QuoteShape, QuoteSteps
<1>5. /\ qpc'[c] = "variants" /\ vpc'[c] = stand /\ got'[c] = have
      /\ \A b \in Clients \ {c} : qpc'[b] = qpc[b] /\ vpc'[b] = vpc[b] /\ got'[b] = got[b]
  BY <1>1 DEF DeliveryInv, QuoteShape
<1>6. Seen(c)'
  BY <1>1, <1>5 DEF DeliveryInv, Seen, HasAll, Active
<1>7. Placed(c)'
  BY <1>1, <1>2, <1>5 DEF DeliveryInv, Placed
<1>8. Replied(c)'
  BY <1>1, <1>5 DEF DeliveryInv, Replied
<1>9. ASSUME NEW w \in Warehouses
      PROVE  Holds(c, w)'
  BY <1>1, <1>2, <1>3, <1>5 DEF Holds
<1>. QED
  BY <1>1, <1>3, <1>4, <1>5, <1>6, <1>7, <1>8, <1>9, RequestMoves

LEMMA AnswerMoves ==
  ASSUME NEW c \in Clients, DeliveryInv, QuoteAnswer(c)
  PROVE  DeliveryInv'
<1>1. PICK rows \in Bijection(1..Cardinality(found[c]), found[c]) :
        LET s == [i \in DOMAIN rows |-> got[c][rows[i]]]
        IN  /\ \A i, j \in DOMAIN s : i < j => ~Before(s[j], s[i])
            /\ reply' = [reply EXCEPT ![c] = s]
  BY DEF QuoteAnswer
<1>. PICK s : s = [i \in DOMAIN rows |-> got[c][rows[i]]]
  OBVIOUS
<1>2. /\ row' = row /\ stock' = stock /\ cache' = cache /\ quotes' = quotes
      /\ asking' = asking /\ found' = found /\ vpc' = vpc /\ got' = got
      /\ had' = had /\ open' = open /\ qpc[c] = "variants" /\ Settled(c)
      /\ qpc' = [qpc EXCEPT ![c] = "answered"]
  BY DEF QuoteAnswer, catalogVars
<1>3. ASSUME NEW w \in found[c]
      PROVE  w \in Warehouses /\ got[c][w].of = w /\ IsOffer(got[c][w])
  <2>1. w \in Warehouses
    BY DEF DeliveryInv, QuoteShape
  <2>2. vpc[c][w] = "done"
    BY <1>2, <2>1 DEF DeliveryInv, Holds, Settled
  <2>. QED
    BY <1>2, <2>1, <2>2 DEF DeliveryInv, Holds
<1>4. /\ DOMAIN rows = DOMAIN s /\ \A i \in DOMAIN s : rows[i] \in found[c]
      /\ \A w \in found[c] : \E i \in DOMAIN rows : rows[i] = w
  BY DEF Bijection, Surjection
<1>5. /\ \A i \in DOMAIN s : s[i] = got[c][rows[i]]
      /\ \A i, j \in DOMAIN s : i < j => ~Before(s[j], s[i])
      /\ reply' = [reply EXCEPT ![c] = s]
  BY <1>1
<1>6. {s[i].of : i \in DOMAIN s} = found[c] /\ \A i \in DOMAIN s : IsOffer(s[i])
  <2>1. ASSUME NEW i \in DOMAIN s
        PROVE  s[i].of \in found[c] /\ IsOffer(s[i])
    <3>1. rows[i] \in found[c] /\ s[i] = got[c][rows[i]]
      BY <1>4, <1>5
    <3>. QED
      BY <1>3, <3>1
  <2>2. ASSUME NEW w \in found[c]
        PROVE  \E i \in DOMAIN s : s[i].of = w
    BY <1>3, <1>4, <1>5
  <2>. QED
    BY <2>1, <2>2
<1>7. QuoteShape'
  BY <1>2, <1>5 DEF DeliveryInv, QuoteShape, QuoteSteps
<1>8. /\ qpc'[c] = "answered" /\ reply'[c] = s
      /\ \A b \in Clients \ {c} : qpc'[b] = qpc[b] /\ reply'[b] = reply[b]
  BY <1>2, <1>5 DEF DeliveryInv, QuoteShape
<1>9. Seen(c)'
  BY <1>2, <1>8 DEF DeliveryInv, Seen, HasAll, Active
<1>10. Placed(c)'
  BY <1>2, <1>8 DEF DeliveryInv, Placed
<1>11. Replied(c)'
  <2>1. \A i, j \in DOMAIN s : i < j => (~Before(s[j], s[i]))'
    BY <1>5 DEF Before, Rank
  <2>. QED
    BY <1>2, <1>6, <1>8, <2>1 DEF Replied
<1>12. ASSUME NEW w \in Warehouses
       PROVE  Holds(c, w)'
  <2>1. Holds(c, w) /\ KeyOf(c, w)' = KeyOf(c, w)
    BY <1>2 DEF DeliveryInv, KeyOf
  <2>. QED
    BY <1>2, <1>8, <2>1 DEF Holds
<1>. QED
  BY <1>2, <1>7, <1>8, <1>9, <1>10, <1>11, <1>12, RequestMoves

(* What the others do meanwhile                                            *)

LEMMA ManualMoves ==
  ASSUME NEW w \in Warehouses, NEW dest \in Destinations, NEW kg \in Weights,
         NEW a \in Estimates, DeliveryInv, CreateManualQuote(w, dest, kg, a)
  PROVE  DeliveryInv'
<1>. DEFINE line == [of |-> w, dest |-> dest, kg |-> kg, made |-> a, source |-> "MANUAL",
                     route |-> Key(w, dest, kg)]
<1>1. /\ row' = row /\ stock' = stock /\ cache' = cache /\ qpc' = qpc /\ asking' = asking
      /\ found' = found /\ vpc' = vpc /\ got' = got /\ reply' = reply /\ had' = had /\ open' = open
      /\ quotes' = Append(quotes, line)
  BY DEF CreateManualQuote, catalogVars
<1>2. line \in QuoteRows /\ line.route = Key(line.of, line.dest, line.kg)
  BY KeysAre DEF QuoteRows
<1>. HIDE DEF line
<1>3. /\ quotes' \in Seq(QuoteRows) /\ RowsOwn'
      /\ Len(quotes) \in Nat /\ Len(quotes') \in Nat /\ Len(quotes) <= Len(quotes')
  BY <1>1, <1>2, RowsAdded DEF DeliveryInv, QuoteShape
<1>4. QuoteShape' /\ RowsApart'
  BY <1>1, <1>3 DEF DeliveryInv, QuoteShape, RowsApart
<1>5. ASSUME NEW c \in Clients
      PROVE  Seen(c)' /\ Placed(c)' /\ Replied(c)'
  <2>1. Seen(c)'
    BY <1>1 DEF DeliveryInv, Seen, HasAll, Active
  <2>2. Placed(c)' /\ Replied(c)'
    BY <1>1 DEF DeliveryInv, Placed, Replied
  <2>. QED
    BY <2>1, <2>2
<1>6. ASSUME NEW c \in Clients, NEW x \in Warehouses
      PROVE  Holds(c, x)'
  <2>1. Holds(c, x)
    BY DEF DeliveryInv
  <2>. QED
    BY <1>1, <1>3, <2>1 DEF Holds, KeyOf
<1>7. \A k \in Keys : Cached(k)'
  BY <1>1 DEF DeliveryInv, Cached
<1>. QED
  BY <1>3, <1>4, <1>5, <1>6, <1>7 DEF DeliveryInv

LEMMA CacheForgetMoves ==
  ASSUME NEW k \in Keys, DeliveryInv, CacheForgets(k)
  PROVE  DeliveryInv'
<1>1. /\ row' = row /\ stock' = stock /\ quotes' = quotes /\ qpc' = qpc /\ asking' = asking
      /\ found' = found /\ vpc' = vpc /\ got' = got /\ reply' = reply /\ had' = had /\ open' = open
  BY DEF CacheForgets, catalogVars
<1>2. /\ DOMAIN cache' = Keys /\ cache'[k].kind # "estimate"
      /\ \A j \in Keys \ {k} : cache'[j] = cache[j]
  <2>1. CASE cache' = [cache EXCEPT ![k] = Nothing]
    BY <2>1 DEF DeliveryInv, QuoteShape, Nothing
  <2>2. CASE cache' = [cache EXCEPT ![k] = [kind |-> "damaged"]]
    BY <2>2 DEF DeliveryInv, QuoteShape
  <2>. QED
    BY <2>1, <2>2 DEF CacheForgets
<1>3. \A j \in Keys : Cached(j)'
  BY <1>2 DEF DeliveryInv, Cached
<1>4. QuoteShape' /\ RowsOwn' /\ RowsApart'
  BY <1>1, <1>2 DEF DeliveryInv, QuoteShape, RowsOwn, RowsApart
<1>5. ASSUME NEW c \in Clients
      PROVE  Seen(c)' /\ Placed(c)' /\ Replied(c)'
  <2>1. Seen(c)'
    BY <1>1 DEF DeliveryInv, Seen, HasAll, Active
  <2>2. Placed(c)' /\ Replied(c)'
    BY <1>1 DEF DeliveryInv, Placed, Replied
  <2>. QED
    BY <2>1, <2>2
<1>6. ASSUME NEW c \in Clients, NEW x \in Warehouses
      PROVE  Holds(c, x)'
  <2>1. Holds(c, x)
    BY DEF DeliveryInv
  <2>. QED
    BY <1>1, <2>1 DEF Holds, KeyOf
<1>. QED
  BY <1>3, <1>4, <1>5, <1>6 DEF DeliveryInv

(* An edit of the catalog: the history follows it.                         *)
LEMMA EditMoves ==
  ASSUME DeliveryInv, Edited
  PROVE  DeliveryInv'
<1>1. /\ cache' = cache /\ quotes' = quotes /\ qpc' = qpc /\ asking' = asking
      /\ found' = found /\ vpc' = vpc /\ got' = got /\ reply' = reply
      /\ had' = [c \in Clients |-> had[c] \cup {w \in Warehouses : HasAll(w)'}]
      /\ open' = [c \in Clients |-> open[c] \cup {w \in had'[c] : Active(w)'}]
  BY DEF Edited
<1>2. \A k \in Keys : Cached(k)'
  BY <1>1 DEF DeliveryInv, Cached
<1>3. QuoteShape' /\ RowsOwn' /\ RowsApart'
  BY <1>1 DEF DeliveryInv, QuoteShape, RowsOwn, RowsApart
<1>4. ASSUME NEW c \in Clients
      PROVE  Seen(c)' /\ Placed(c)' /\ Replied(c)'
  <2>1. /\ had'[c] = had[c] \cup {w \in Warehouses : HasAll(w)'}
        /\ open'[c] = open[c] \cup {w \in had'[c] : Active(w)'}
    BY <1>1
  <2>2. Seen(c)'
    BY <1>1, <2>1 DEF DeliveryInv, Seen
  <2>3. Placed(c)' /\ Replied(c)'
    BY <1>1 DEF DeliveryInv, Placed, Replied
  <2>. QED
    BY <2>2, <2>3
<1>5. ASSUME NEW c \in Clients, NEW x \in Warehouses
      PROVE  Holds(c, x)'
  <2>1. Holds(c, x)
    BY DEF DeliveryInv
  <2>. QED
    BY <1>1, <2>1 DEF Holds, KeyOf
<1>. QED
  BY <1>2, <1>3, <1>4, <1>5 DEF DeliveryInv

LEMMA DeliveryStarts == DeliveryInit => DeliveryInv
<1>. SUFFICES ASSUME DeliveryInit PROVE DeliveryInv
  OBVIOUS
<1>1. /\ cache = [k \in Keys |-> Nothing] /\ quotes = <<>>
      /\ qpc = [c \in Clients |-> "idle"] /\ asking = [c \in Clients |-> Nothing]
      /\ found = [c \in Clients |-> {}]
      /\ vpc = [c \in Clients |-> [w \in Warehouses |-> "none"]]
      /\ got = [c \in Clients |-> [w \in Warehouses |-> Nothing]]
      /\ reply = [c \in Clients |-> <<>>] /\ had = [c \in Clients |-> {}]
      /\ open = [c \in Clients |-> {}]
  BY DEF DeliveryInit
<1>2. QuoteShape /\ RowsOwn
  BY <1>1 DEF QuoteShape, QuoteSteps, VariantSteps, RowsOwn
<1>3. ASSUME NEW c \in Clients
      PROVE  Seen(c) /\ Placed(c) /\ Replied(c)
  BY <1>1 DEF Seen, Placed, Replied
<1>4. ASSUME NEW c \in Clients, NEW w \in Warehouses
      PROVE  Holds(c, w) /\ got[c][w].kind # "quote"
  BY <1>1 DEF Holds, Nothing
<1>5. RowsApart /\ \A k \in Keys : Cached(k)
  BY <1>1, <1>4 DEF RowsApart, Cached, Nothing
<1>. QED
  BY <1>2, <1>3, <1>4, <1>5 DEF DeliveryInv

LEMMA DeliveryKeeps ==
  ASSUME DeliveryInv, [DeliveryNext]_<<catalogVars, deliveryVars>>
  PROVE  DeliveryInv'
<1>1. CASE Quoting
  <2>1. ASSUME NEW c \in Clients, QuoteStep(c)
        PROVE  DeliveryInv'
    BY <2>1, ReadStocksMoves, ReadActiveMoves, FanOutMoves, AnswerMoves DEF QuoteStep
  <2>. QED
    BY <1>1, <2>1, BeginMoves, VariantStepMoves, CacheForgetMoves DEF Quoting
<1>2. CASE Phoned
  BY <1>2, ManualMoves DEF Phoned
<1>3. CASE Edited
  BY <1>3, EditMoves
<1>4. CASE UNCHANGED <<catalogVars, deliveryVars>>
  <2>1. /\ row' = row /\ stock' = stock /\ cache' = cache /\ quotes' = quotes /\ qpc' = qpc
        /\ asking' = asking /\ found' = found /\ vpc' = vpc /\ got' = got /\ reply' = reply
        /\ had' = had /\ open' = open
    BY <1>4 DEF catalogVars, deliveryVars
  <2>2. QuoteShape' /\ RowsOwn' /\ RowsApart' /\ \A k \in Keys : Cached(k)'
    BY <2>1 DEF DeliveryInv, QuoteShape, RowsOwn, RowsApart, Cached
  <2>3. ASSUME NEW c \in Clients
        PROVE  Seen(c)' /\ Placed(c)' /\ Replied(c)'
    BY <2>1 DEF DeliveryInv, Seen, HasAll, Active, Placed, Replied
  <2>4. ASSUME NEW c \in Clients, NEW w \in Warehouses
        PROVE  Holds(c, w)'
    BY <2>1 DEF DeliveryInv, Holds, KeyOf
  <2>. QED
    BY <2>2, <2>3, <2>4 DEF DeliveryInv
<1>. QED
  BY <1>1, <1>2, <1>3, <1>4 DEF DeliveryNext

LEMMA QuotesSound == DeliverySpec => []DeliveryInv
<1>1. DeliveryInv /\ [DeliveryNext]_<<catalogVars, deliveryVars>> => DeliveryInv'
  BY DeliveryKeeps
<1>. QED
  BY <1>1, DeliveryStarts, PTL DEF DeliverySpec

-----------------------------------------------------------------------------
(* What a client is offered                                                *)

LEMMA RanksOfOffers ==
  ASSUME NEW v, IsOffer(v)
  PROVE  /\ v.kind = "local" => Rank(v)[1] = 0
         /\ v.kind # "local" => Rank(v)[1] = 1
         /\ v.kind = "unavailable" => Rank(v)[2] = Unranked
         /\ v.kind = "quote" => /\ v.made.max \in Nat /\ v.made.cost \in Nat
                                /\ Rank(v)[2] = v.made.max /\ Rank(v)[3] = v.made.cost
                                /\ v.made.max < Unranked
<1>1. v.kind = "quote" => v.made.max \in Nat /\ v.made.cost \in Nat /\ v.made.max < Unranked
  BY DeliveryAssumption DEF IsOffer
<1>2. CASE v.kind = "local"
  BY <1>2 DEF Rank
<1>3. CASE v.kind = "quote"
  BY <1>1, <1>3 DEF Rank
<1>4. CASE v.kind = "unavailable"
  BY <1>4 DEF Rank
<1>. QED
  BY <1>1, <1>2, <1>3, <1>4 DEF IsOffer

LEMMA OffersSorted == DeliveryInv => SortedForClient
<1>. SUFFICES ASSUME DeliveryInv, NEW c \in Clients,
                     NEW i \in DOMAIN reply[c], NEW j \in DOMAIN reply[c], i < j
              PROVE  LET v == reply[c][i]
                         u == reply[c][j]
                     IN  /\ u.kind = "local" => v.kind = "local"
                         /\ u.kind = "quote" => v.kind # "unavailable"
                         /\ v.kind = "quote" /\ u.kind = "quote" =>
                              \/ v.made.max < u.made.max
                              \/ (v.made.max = u.made.max /\ v.made.cost <= u.made.cost)
  BY DEF SortedForClient
<1>. PICK v, u : v = reply[c][i] /\ u = reply[c][j]
  OBVIOUS
<1>1. IsOffer(v) /\ IsOffer(u) /\ ~Before(u, v)
  BY DEF DeliveryInv, Replied
<1>2. /\ ~(Rank(u)[1] < Rank(v)[1])
      /\ ~(Rank(u)[1] = Rank(v)[1] /\ Rank(u)[2] < Rank(v)[2])
      /\ ~(Rank(u)[1] = Rank(v)[1] /\ Rank(u)[2] = Rank(v)[2] /\ Rank(u)[3] < Rank(v)[3])
  BY <1>1 DEF Before
<1>3. u.kind = "local" => v.kind = "local"
  BY <1>1, <1>2, RanksOfOffers
<1>4. u.kind = "quote" => v.kind # "unavailable"
  BY <1>1, <1>2, RanksOfOffers
<1>5. ASSUME v.kind = "quote", u.kind = "quote"
      PROVE  \/ v.made.max < u.made.max
             \/ v.made.max = u.made.max /\ v.made.cost <= u.made.cost
  BY <1>1, <1>2, <1>5, RanksOfOffers
<1>. QED
  BY <1>3, <1>4, <1>5

LEMMA OffersOwn == DeliveryInv => QuoteIsOwn
<1>. SUFFICES ASSUME DeliveryInv PROVE QuoteIsOwn
  OBVIOUS
<1>1. ASSUME NEW i \in DOMAIN quotes
      PROVE  /\ quotes[i].route = Key(quotes[i].of, quotes[i].dest, quotes[i].kg)
             /\ quotes[i].route[3] >= quotes[i].kg
  <2>1. quotes[i].route = Key(quotes[i].of, quotes[i].dest, quotes[i].kg)
    BY DEF DeliveryInv, RowsOwn
  <2>2. quotes[i] \in QuoteRows
    BY DEF DeliveryInv, QuoteShape
  <2>3. quotes[i].kg \in Weights
    BY <2>2 DEF QuoteRows
  <2>. QED
    BY <2>1, <2>3, BucketHolds DEF Key
<1>. QED
  BY <1>1 DEF DeliveryInv, RowsApart, QuoteIsOwn

LEMMA OffersWhole == DeliveryInv => OfferedHadAll
BY DEF DeliveryInv, Seen, Replied, OfferedHadAll

(* Every warehouse a client is offered had everything in stock at one      *)
(* moment of his request and was active then or later, and none that was   *)
(* found is left out; the variants come local first, then by term and      *)
(* price, those without a quote last; and each variant has a quote row of  *)
(* its own, made for its own route, whatever requests share in the cache   *)
(* and whatever editors change meanwhile (delivery-calc.service.ts).       *)
THEOREM OffersAreTrue == DeliverySpec => []OffersHold
<1>1. DeliveryInv => OffersHold
  BY OffersSorted, OffersOwn, OffersWhole DEF OffersHold
<1>. QED
  BY <1>1, QuotesSound, PTL

LEMMA FailureHasReason ==
  ASSUME DeliveryInv, [DeliveryNext]_<<catalogVars, deliveryVars>>, NEW c \in Clients,
         qpc'[c] = "failed", qpc[c] # "failed"
  PROVE  \E w \in found[c] :
           vpc[c][w] = "cache" \/ (vpc[c][w] = "insert" /\ ~Stores(c, w))
<1>1. qpc' # qpc
  OBVIOUS
<1>2. PICK b \in Clients :
        \/ \E d \in Destinations, kg \in Weights : QuoteBegin(b, d, kg)
        \/ QuoteStep(b) \/ \E w \in Warehouses : VariantStep(b, w)
  BY <1>1 DEF DeliveryNext, Quoting, Phoned, Edited, CreateManualQuote, CacheForgets, deliveryVars
<1>3. ~QuoteStep(b) /\ ~(\E d \in Destinations, kg \in Weights : QuoteBegin(b, d, kg))
  BY DEF DeliveryInv, QuoteShape, QuoteStep, QuoteReadStocks, QuoteReadActive, QuoteFanOut,
         QuoteAnswer, QuoteBegin
<1>4. PICK w \in Warehouses : VariantStep(b, w)
  BY <1>2, <1>3
<1>5. CacheGetFails(b, w) \/ InsertQuoteFails(b, w)
  BY <1>1, <1>4 DEF VariantStep, CacheGet, EstimateFails, EstimateAnswers, CacheSet,
                    CacheSetFails, InsertQuote
<1>6. /\ b = c
      /\ vpc[c][w] = "cache" \/ (vpc[c][w] = "insert" /\ ~Stores(c, w))
  BY <1>5 DEF CacheGetFails, InsertQuoteFails, Throws, Variant, DeliveryInv, QuoteShape
<1>7. w \in found[c]
  BY <1>6 DEF DeliveryInv, Placed
<1>. QED
  BY <1>6, <1>7

(* With a database that answers, a quote request fails only when the cache *)
(* cannot be reached or its row cannot hold the estimate or the weight of  *)
(* the goods, and never because the estimator fails for a warehouse        *)
(* (buildVariant).                                                         *)
THEOREM RequestsFailForReason == DeliverySpec => FailsForReason
<1>1. ASSUME DeliveryInv, [DeliveryNext]_<<catalogVars, deliveryVars>>
      PROVE  [\A c \in Clients : qpc'[c] = "failed" /\ qpc[c] # "failed" =>
                \E w \in found[c] :
                  vpc[c][w] = "cache" \/ (vpc[c][w] = "insert" /\ ~Stores(c, w))
             ]_<<catalogVars, deliveryVars>>
  BY <1>1, FailureHasReason
<1>. QED
  BY <1>1, QuotesSound, PTL DEF DeliverySpec, FailsForReason

-----------------------------------------------------------------------------
(* The inductive invariant of the comparison of managers                   *)

Lines == [Staff -> [deals : SUBSET Sales, leads : Nat, won : Nat]]

Comparisons ==
  [step : {"deals", "leads", "won", "answers", "sorted"}, range : Ranges, left : SUBSET Staff,
   now : Staff \cup {NoRecord}, lines : Lines]

(* The manager whose turn it is.                                           *)
Turn ==
  asked.step \in {"leads", "won", "answers"} => asked.now \in Staff /\ asked.now \in asked.left

(* Nothing is won yet by those who are left, except by the last counted.   *)
Unwon ==
  \A m \in asked.left : m # asked.now \/ asked.step # "answers" => asked.lines[m].won = 0

(* His leads were counted, and no more of them have come since.            *)
CountStands ==
  asked.step = "won" =>
    \/ asked.now \in unsteady
    \/ Cardinality(LeadsWith(asked.now, asked.range)) <= asked.lines[asked.now].leads

LineHolds(m) ==
  /\ \A d \in asked.lines[m].deals : Facts[d].manager = m
  /\ asked.lines[m].won <= asked.lines[m].leads \/ m \in unsteady

ComparisonInv ==
  /\ DOMAIN prospect = Prospects
  /\ asked # NotAsked =>
       /\ asked \in Comparisons /\ Turn /\ Unwon /\ CountStands
       /\ \A m \in Staff : LineHolds(m)

LEMMA LeadsCounted ==
  ASSUME DOMAIN prospect = Prospects, NEW m, NEW r
  PROVE  IsFiniteSet(LeadsWith(m, r)) /\ Cardinality(LeadsWith(m, r)) \in Nat
<1>1. LeadsWith(m, r) \in SUBSET Prospects
  BY DEF LeadsWith, Made
<1>. QED
  BY <1>1, FS_Subset, FS_CardinalityType, ReportsAssumption

LEMMA AskedSomething ==
  /\ asked.step \in {"deals", "leads", "won", "answers", "sorted"} => asked # NotAsked
  /\ NotAsked.step = "none"
BY DEF NotAsked

LEMMA AskMoves ==
  ASSUME ComparisonInv, NEW r \in Ranges, Ask(r)
  PROVE  ComparisonInv'
<1>. DEFINE line == [deals |-> {}, leads |-> 0, won |-> 0]
            lines == [m \in Staff |-> line]
<1>1. /\ asked' = [step |-> "deals", range |-> r, left |-> Staff, now |-> NoRecord, lines |-> lines]
      /\ prospect' = prospect
  BY DEF Ask
<1>2. line \in [deals : SUBSET Sales, leads : Nat, won : Nat]
  OBVIOUS
<1>3. lines \in Lines
  BY <1>2 DEF Lines
<1>4. \A m \in Staff : lines[m].won = 0 /\ lines[m].leads = 0 /\ lines[m].deals = {}
  OBVIOUS
<1>. HIDE DEF line, lines
<1>5. /\ asked'.step = "deals" /\ asked'.left = Staff /\ asked'.lines = lines
      /\ asked' \in Comparisons
  BY <1>1, <1>3 DEF Comparisons
<1>6. Turn' /\ Unwon' /\ CountStands' /\ \A m \in Staff : LineHolds(m)'
  BY <1>4, <1>5 DEF Turn, Unwon, CountStands, LineHolds
<1>. QED
  BY <1>1, <1>5, <1>6 DEF ComparisonInv

LEMMA QueryDealsMoves ==
  ASSUME ComparisonInv, NEW m \in Staff, QueryDeals(m)
  PROVE  ComparisonInv'
<1>. PICK deals : deals = DealsOf(m, asked.range)
  OBVIOUS
<1>1. /\ asked.step = "deals" /\ m \in asked.left /\ prospect' = prospect /\ unsteady' = unsteady
      /\ asked' = [asked EXCEPT !.step = "leads", !.now = m, !.lines[m].deals = deals]
  BY DEF QueryDeals
<1>2. /\ asked \in Comparisons /\ Unwon /\ \A k \in Staff : LineHolds(k)
  BY <1>1, AskedSomething DEF ComparisonInv
<1>3. deals \subseteq Sales /\ \A d \in deals : Facts[d].manager = m
  BY DEF DealsOf
<1>4. asked.lines \in Lines
  BY <1>2 DEF Comparisons
<1>. DEFINE lines == [asked.lines EXCEPT ![m].deals = deals]
<1>5. lines \in Lines
  BY <1>3, <1>4 DEF Lines
<1>6. /\ lines[m].deals = deals /\ lines[m].won = asked.lines[m].won
      /\ lines[m].leads = asked.lines[m].leads
      /\ \A k \in Staff \ {m} : lines[k] = asked.lines[k]
  BY <1>4 DEF Lines
<1>7. asked' = [asked EXCEPT !.step = "leads", !.now = m, !.lines = lines]
  BY <1>1, <1>2 DEF Comparisons
<1>. HIDE DEF lines
<1>8. /\ asked'.step = "leads" /\ asked'.now = m /\ asked'.left = asked.left
      /\ asked'.lines = lines /\ asked' \in Comparisons
  BY <1>2, <1>5, <1>7 DEF Comparisons
<1>9. Turn' /\ CountStands'
  BY <1>1, <1>8 DEF Turn, CountStands
<1>10. Unwon'
  <2>1. \A k \in asked.left : k \in Staff /\ asked.lines[k].won = 0
    BY <1>1, <1>2 DEF Unwon, Comparisons
  <2>2. \A k \in Staff : lines[k].won = asked.lines[k].won
    BY <1>6
  <2>. QED
    BY <1>8, <2>1, <2>2 DEF Unwon
<1>11. ASSUME NEW k \in Staff
       PROVE  LineHolds(k)'
  <2>1. LineHolds(k) /\ asked'.lines[k] = lines[k]
    BY <1>2, <1>8
  <2>. QED
    BY <1>1, <1>3, <1>6, <1>8, <2>1 DEF LineHolds
<1>. QED
  BY <1>1, <1>8, <1>9, <1>10, <1>11 DEF ComparisonInv

LEMMA QueryLeadsMoves ==
  ASSUME ComparisonInv, QueryLeads
  PROVE  ComparisonInv'
<1>. PICK m, n : m = asked.now /\ n = Cardinality(LeadsWith(m, asked.range))
  OBVIOUS
<1>1. /\ asked.step = "leads" /\ prospect' = prospect /\ unsteady' = unsteady
      /\ asked' = [asked EXCEPT !.step = "won", !.lines[m].leads = n]
  BY DEF QueryLeads
<1>2. /\ asked \in Comparisons /\ Unwon /\ (\A k \in Staff : LineHolds(k))
      /\ m \in Staff /\ m \in asked.left /\ n \in Nat
  BY <1>1, AskedSomething, LeadsCounted DEF ComparisonInv, Turn
<1>3. asked.lines \in Lines
  BY <1>2 DEF Comparisons
<1>. DEFINE lines == [asked.lines EXCEPT ![m].leads = n]
<1>4. lines \in Lines
  BY <1>2, <1>3 DEF Lines
<1>5. /\ lines[m].deals = asked.lines[m].deals /\ lines[m].won = asked.lines[m].won
      /\ lines[m].leads = n
      /\ \A k \in Staff \ {m} : lines[k] = asked.lines[k]
  BY <1>2, <1>3 DEF Lines
<1>6. asked' = [asked EXCEPT !.step = "won", !.lines = lines]
  BY <1>1, <1>2 DEF Comparisons
<1>. HIDE DEF lines
<1>7. /\ asked'.step = "won" /\ asked'.now = m /\ asked'.left = asked.left
      /\ asked'.range = asked.range /\ asked'.lines = lines /\ asked' \in Comparisons
  BY <1>2, <1>4, <1>6 DEF Comparisons
<1>8. LeadsWith(m, asked.range)' = LeadsWith(m, asked'.range)
  BY <1>1 DEF LeadsWith, Made
<1>9. Turn' /\ CountStands'
  <2>1. Turn'
    BY <1>2, <1>7 DEF Turn
  <2>2. LeadsWith(asked.now, asked.range)' = LeadsWith(m, asked.range)
    BY <1>1, <1>7 DEF LeadsWith, Made
  <2>3. Cardinality(LeadsWith(asked.now, asked.range))' <= asked'.lines[asked'.now].leads
    BY <1>2, <1>5, <1>7, <2>2
  <2>. QED
    BY <2>1, <2>3 DEF CountStands
<1>10. asked.lines[m].won = 0
  BY <1>1, <1>2 DEF Unwon
<1>11. Unwon'
  <2>1. \A k \in asked.left : k \in Staff /\ asked.lines[k].won = 0
    BY <1>1, <1>2 DEF Unwon, Comparisons
  <2>2. \A k \in Staff : lines[k].won = asked.lines[k].won
    BY <1>5
  <2>. QED
    BY <1>7, <2>1, <2>2 DEF Unwon
<1>12. ASSUME NEW k \in Staff
       PROVE  LineHolds(k)'
  <2>1. LineHolds(k) /\ asked'.lines[k] = lines[k]
    BY <1>2, <1>7
  <2>. QED
    BY <1>1, <1>2, <1>5, <1>7, <1>10, <2>1 DEF LineHolds
<1>. QED
  BY <1>1, <1>7, <1>9, <1>11, <1>12 DEF ComparisonInv

LEMMA QueryWonMoves ==
  ASSUME ComparisonInv, QueryWon
  PROVE  ComparisonInv'
<1>. PICK m, n : /\ m = asked.now
                 /\ n = Cardinality({l \in LeadsWith(m, asked.range) : prospect[l].status = "WON"})
  OBVIOUS
<1>1. /\ asked.step = "won" /\ prospect' = prospect /\ unsteady' = unsteady
      /\ asked' = [asked EXCEPT !.step = "answers", !.lines[m].won = n]
  BY DEF QueryWon
<1>2. /\ asked \in Comparisons /\ Unwon /\ CountStands /\ (\A k \in Staff : LineHolds(k))
      /\ m \in Staff /\ m \in asked.left
  BY <1>1, AskedSomething DEF ComparisonInv, Turn
<1>3. asked.lines \in Lines
  BY <1>2 DEF Comparisons
<1>4. n \in Nat /\ n <= Cardinality(LeadsWith(m, asked.range))
  <2>. PICK L : L = LeadsWith(m, asked.range)
    OBVIOUS
  <2>1. IsFiniteSet(L) /\ {l \in L : prospect[l].status = "WON"} \in SUBSET L
    BY LeadsCounted DEF ComparisonInv
  <2>. QED
    BY <2>1, FS_Subset, FS_CardinalityType
<1>5. n <= asked.lines[m].leads \/ m \in unsteady
  <2>1. asked.lines[m].leads \in Nat /\ Cardinality(LeadsWith(m, asked.range)) \in Nat
    BY <1>2, <1>3, LeadsCounted DEF Lines, ComparisonInv
  <2>. QED
    BY <1>1, <1>2, <1>4, <2>1 DEF CountStands
<1>. DEFINE lines == [asked.lines EXCEPT ![m].won = n]
<1>6. lines \in Lines
  BY <1>2, <1>3, <1>4 DEF Lines
<1>7. /\ lines[m].deals = asked.lines[m].deals /\ lines[m].won = n
      /\ lines[m].leads = asked.lines[m].leads
      /\ \A k \in Staff \ {m} : lines[k] = asked.lines[k]
  BY <1>2, <1>3 DEF Lines
<1>8. asked' = [asked EXCEPT !.step = "answers", !.lines = lines]
  BY <1>1, <1>2 DEF Comparisons
<1>. HIDE DEF lines
<1>9. /\ asked'.step = "answers" /\ asked'.now = m /\ asked'.left = asked.left
      /\ asked'.lines = lines /\ asked' \in Comparisons
  BY <1>2, <1>6, <1>8 DEF Comparisons
<1>10. Turn' /\ CountStands'
  BY <1>2, <1>9 DEF Turn, CountStands
<1>11. Unwon'
  <2>1. \A k \in asked.left : k \in Staff /\ asked.lines[k].won = 0
    BY <1>1, <1>2 DEF Unwon, Comparisons
  <2>. QED
    BY <1>7, <1>9, <2>1 DEF Unwon
<1>12. ASSUME NEW k \in Staff
       PROVE  LineHolds(k)'
  <2>1. LineHolds(k) /\ asked'.lines[k] = lines[k]
    BY <1>2, <1>9
  <2>. QED
    BY <1>1, <1>5, <1>7, <1>9, <2>1 DEF LineHolds
<1>. QED
  BY <1>1, <1>9, <1>10, <1>11, <1>12 DEF ComparisonInv

LEMMA QueryAnswersMoves ==
  ASSUME ComparisonInv, QueryAnswers
  PROVE  ComparisonInv'
<1>1. /\ asked.step = "answers" /\ prospect' = prospect /\ unsteady' = unsteady
      /\ asked' = [asked EXCEPT !.step = IF asked.left = {asked.now} THEN "sorted" ELSE "deals",
                                !.left = @ \ {asked.now}, !.now = NoRecord]
  BY DEF QueryAnswers
<1>2. asked \in Comparisons /\ Unwon /\ \A k \in Staff : LineHolds(k)
  BY <1>1, AskedSomething DEF ComparisonInv
<1>3. /\ asked'.step \in {"sorted", "deals"} /\ asked'.lines = asked.lines
      /\ asked'.left = asked.left \ {asked.now} /\ asked' \in Comparisons
  BY <1>1, <1>2 DEF Comparisons
<1>4. Turn' /\ CountStands' /\ Unwon'
  BY <1>1, <1>2, <1>3 DEF Turn, CountStands, Unwon
<1>5. \A k \in Staff : LineHolds(k)'
  BY <1>1, <1>2, <1>3 DEF LineHolds
<1>. QED
  BY <1>1, <1>3, <1>4, <1>5 DEF ComparisonInv

(* A lead that comes to the manager of the moment is noticed.              *)
LEMMA SetLeadMoves ==
  ASSUME ComparisonInv, NEW l \in Prospects, NEW new, SetLead(l, new)
  PROVE  ComparisonInv'
<1>1. /\ prospect' = [prospect EXCEPT ![l] = new] /\ asked' = asked
      /\ unsteady' = IF asked = NotAsked THEN unsteady
                     ELSE unsteady \cup {m \in {asked.now} : m = new.manager}
  BY DEF SetLead
<1>2. /\ DOMAIN prospect' = Prospects /\ prospect'[l] = new
      /\ \A k \in Prospects \ {l} : prospect'[k] = prospect[k]
  BY <1>1 DEF ComparisonInv
<1>3. CASE asked = NotAsked
  BY <1>1, <1>2, <1>3 DEF ComparisonInv
<1>4. CASE asked # NotAsked
  <2>1. /\ asked \in Comparisons /\ Turn /\ Unwon /\ CountStands
        /\ \A k \in Staff : LineHolds(k)
    BY <1>4 DEF ComparisonInv
  <2>2. unsteady \subseteq unsteady' /\ (new.manager = asked.now => asked.now \in unsteady')
    BY <1>1, <1>4
  <2>3. CountStands'
    <3>. PICK m, r : m = asked.now /\ r = asked.range
      OBVIOUS
    <3>. SUFFICES ASSUME asked.step = "won", m \notin unsteady'
                  PROVE  Cardinality(LeadsWith(m, r))' <= asked.lines[m].leads
      BY <1>1 DEF CountStands
    <3>1. LeadsWith(m, r)' \subseteq LeadsWith(m, r)
      BY <1>2, <2>2 DEF LeadsWith, Made
    <3>2. Cardinality(LeadsWith(m, r)) <= asked.lines[m].leads
      BY <2>1, <2>2 DEF CountStands
    <3>3. /\ IsFiniteSet(LeadsWith(m, r)) /\ Cardinality(LeadsWith(m, r)) \in Nat
          /\ Cardinality(LeadsWith(m, r))' \in Nat
          /\ Cardinality(LeadsWith(m, r))' <= Cardinality(LeadsWith(m, r))
      <4>1. IsFiniteSet(LeadsWith(m, r)) /\ Cardinality(LeadsWith(m, r)) \in Nat
        BY LeadsCounted DEF ComparisonInv
      <4>2. LeadsWith(m, r)' \in SUBSET LeadsWith(m, r)
        BY <3>1
      <4>. QED
        BY <4>1, <4>2, FS_Subset, FS_CardinalityType
    <3>4. asked.lines[m].leads \in Nat
      <4>1. m \in Staff /\ asked.lines \in Lines
        BY <2>1 DEF Turn, Comparisons
      <4>. QED
        BY <4>1 DEF Lines
    <3>. QED
      BY <3>2, <3>3, <3>4
  <2>4. Turn' /\ Unwon' /\ \A k \in Staff : LineHolds(k)'
    BY <1>1, <2>1, <2>2 DEF Turn, Unwon, LineHolds
  <2>. QED
    BY <1>1, <1>2, <2>1, <2>3, <2>4 DEF ComparisonInv
<1>. QED
  BY <1>3, <1>4

LEMMA ComparisonSame ==
  ASSUME ComparisonInv, prospect' = prospect, asked' = asked, unsteady' = unsteady
  PROVE  ComparisonInv'
<1>1. CASE asked = NotAsked
  BY <1>1 DEF ComparisonInv
<1>2. CASE asked # NotAsked
  <2>1. Turn' /\ Unwon' /\ \A k \in Staff : LineHolds(k)'
    BY <1>2 DEF ComparisonInv, Turn, Unwon, LineHolds
  <2>2. CountStands'
    BY <1>2 DEF ComparisonInv, CountStands, LeadsWith, Made
  <2>. QED
    BY <1>2, <2>1, <2>2 DEF ComparisonInv
<1>. QED
  BY <1>1, <1>2

LEMMA ComparisonKeeps == ComparisonInv /\ [ReportsNext]_reportVars => ComparisonInv'
<1>. SUFFICES ASSUME ComparisonInv, [ReportsNext]_reportVars PROVE ComparisonInv'
  OBVIOUS
<1>1. CASE TimePasses \/ (\E d \in Sales : OpenDeal(d) \/ MoveDealOn(d)) \/ UNCHANGED reportVars
  BY <1>1, ComparisonSame DEF TimePasses, OpenDeal, MoveDealOn, reportVars
<1>2. ASSUME NEW l \in Prospects, NEW m, NewLead(l, m) \/ GiveLead(l, m) \/ MoveLead(l, m)
      PROVE  ComparisonInv'
  BY <1>2, SetLeadMoves DEF NewLead, GiveLead, MoveLead
<1>3. CASE Answers
  BY <1>3 DEF Answers, ComparisonInv
<1>. QED
  BY <1>1, <1>2, <1>3, AskMoves, QueryDealsMoves, QueryLeadsMoves, QueryWonMoves,
     QueryAnswersMoves DEF ReportsNext

(* While deals and leads go on changing, the comparison of managers counts *)
(* no deal for two of them, and no manager wins more leads than he has     *)
(* unless his own leads change between the two counts (managersComparison).*)
THEOREM ComparisonIsFair == ReportsSpec => []ComparisonHolds
<1>1. ReportsInit => ComparisonInv
  BY DEF ReportsInit, ComparisonInv
<1>2. ComparisonInv => ComparisonHolds
  <2>. SUFFICES ASSUME ComparisonInv, asked # NotAsked, NEW m \in Staff
                PROVE  /\ \A k \in Staff \ {m} :
                            asked.lines[m].deals \cap asked.lines[k].deals = {}
                       /\ asked.lines[m].won <= asked.lines[m].leads \/ m \in unsteady
    BY DEF ComparisonHolds
  <2>1. \A k \in Staff : LineHolds(k)
    BY DEF ComparisonInv
  <2>. QED
    BY <2>1 DEF LineHolds
<1>. QED
  BY <1>1, <1>2, ComparisonKeeps, PTL DEF ReportsSpec

-----------------------------------------------------------------------------
(* The rows the reports are made of                                        *)

SaleRow == [made : Instants, status : Statuses]
LeadRow ==
  [made : Instants, status : LeadStages, manager : Staff \cup {NoRecord},
   first : Instants \cup {NoRecord}]

RowsSound ==
  /\ clock \in Instants
  /\ DOMAIN sale = Sales /\ (\A d \in Sales : sale[d] = NoRecord \/ sale[d] \in SaleRow)
  /\ DOMAIN prospect = Prospects
  /\ \A l \in Prospects : prospect[l] = NoRecord \/ prospect[l] \in LeadRow

LEMMA SaleMoves ==
  ASSUME RowsSound, NEW d \in Sales, OpenDeal(d) \/ MoveDealOn(d)
  PROVE  RowsSound'
<1>1. PICK new \in SaleRow : sale' = [sale EXCEPT ![d] = new]
  <2>1. CASE OpenDeal(d)
    <3>1. [made |-> clock, status |-> "NEW"] \in SaleRow
      BY DEF RowsSound, SaleRow, Statuses
    <3>. QED
      BY <2>1, <3>1 DEF OpenDeal
  <2>2. CASE MoveDealOn(d)
    <3>1. sale[d] \in SaleRow
      BY <2>2 DEF MoveDealOn, RowsSound
    <3>2. PICK s \in NextStatuses[sale[d].status] : sale' = [sale EXCEPT ![d].status = s]
      BY <2>2 DEF MoveDealOn
    <3>3. s \in Statuses
      BY <3>1, <3>2 DEF SaleRow, NextStatuses, Statuses
    <3>4. [sale[d] EXCEPT !.status = s] \in SaleRow
      BY <3>1, <3>3 DEF SaleRow
    <3>. QED
      BY <3>2, <3>4
  <2>. QED
    BY <2>1, <2>2
<1>2. clock' = clock /\ prospect' = prospect
  BY DEF OpenDeal, MoveDealOn
<1>. QED
  BY <1>1, <1>2 DEF RowsSound

LEMMA ProspectMoves ==
  ASSUME RowsSound, NEW l \in Prospects, NEW new \in LeadRow, SetLead(l, new)
  PROVE  RowsSound'
<1>1. prospect' = [prospect EXCEPT ![l] = new] /\ clock' = clock /\ sale' = sale
  BY DEF SetLead
<1>. QED
  BY <1>1 DEF RowsSound

LEMMA LeadMoves ==
  ASSUME RowsSound, NEW l \in Prospects,
         \/ \E m \in Staff \cup {NoRecord} : NewLead(l, m)
         \/ \E m \in Staff : GiveLead(l, m)
         \/ \E s \in LeadStages : MoveLead(l, s)
  PROVE  RowsSound'
<1>0. clock \in Instants
  BY DEF RowsSound
<1>1. ASSUME NEW m \in Staff \cup {NoRecord}, NewLead(l, m)
      PROVE  RowsSound'
  <2>1. [made |-> clock, status |-> "NEW", manager |-> m, first |-> NoRecord] \in LeadRow
    BY <1>0 DEF LeadRow, LeadStages
  <2>. QED
    BY <1>1, <2>1, ProspectMoves DEF NewLead
<1>2. ASSUME NEW m \in Staff, GiveLead(l, m)
      PROVE  RowsSound'
  <2>1. prospect[l] \in LeadRow
    BY <1>2 DEF GiveLead, RowsSound
  <2>2. [prospect[l] EXCEPT !.manager = m] \in LeadRow
    BY <2>1 DEF LeadRow
  <2>. QED
    BY <1>2, <2>2, ProspectMoves DEF GiveLead
<1>3. ASSUME NEW s \in LeadStages, MoveLead(l, s)
      PROVE  RowsSound'
  <2>. PICK f : f = IF prospect[l].status = "NEW" /\ s # "NEW" /\ prospect[l].first = NoRecord
                    THEN clock ELSE prospect[l].first
    OBVIOUS
  <2>1. prospect[l] \in LeadRow
    BY <1>3 DEF MoveLead, RowsSound
  <2>2. f \in Instants \cup {NoRecord}
    BY <1>0, <2>1 DEF LeadRow
  <2>3. [prospect[l] EXCEPT !.status = s, !.first = f] \in LeadRow
    BY <2>1, <2>2 DEF LeadRow
  <2>4. SetLead(l, [prospect[l] EXCEPT !.status = s, !.first = f])
    BY <1>3, <2>1 DEF MoveLead, LeadRow
  <2>. QED
    BY <2>3, <2>4, ProspectMoves
<1>. QED
  BY <1>1, <1>2, <1>3

LEMMA RowsStaySound == ReportsSpec => []RowsSound
<1>1. ReportsInit => RowsSound
  BY ReportsAssumption DEF ReportsInit, RowsSound, Instants
<1>2. RowsSound /\ [ReportsNext]_reportVars => RowsSound'
  <2>. SUFFICES ASSUME RowsSound, [ReportsNext]_reportVars PROVE RowsSound'
    OBVIOUS
  <2>1. CASE TimePasses
    <3>1. clock' \in Instants /\ sale' = sale /\ prospect' = prospect
      BY <2>1, ReportsAssumption DEF TimePasses, RowsSound, Instants
    <3>. QED
      BY <3>1 DEF RowsSound
  <2>2. CASE UNCHANGED <<clock, sale, prospect>>
    BY <2>2 DEF RowsSound
  <2>3. ASSUME (\E r \in Ranges : Ask(r)) \/ (\E m \in Staff : QueryDeals(m))
               \/ QueryLeads \/ QueryWon \/ QueryAnswers \/ Answers \/ UNCHANGED reportVars
        PROVE  RowsSound'
    BY <2>2, <2>3 DEF Ask, QueryDeals, QueryLeads, QueryWon, QueryAnswers, Answers, reportVars
  <2>. QED
    BY <2>1, <2>3, SaleMoves, LeadMoves DEF ReportsNext
<1>. QED
  BY <1>1, <1>2, PTL DEF ReportsSpec

-----------------------------------------------------------------------------
(* The reports agree                                                       *)

LEMMA SumOverIs ==
  ASSUME NEW S, NEW f, DOMAIN f = S
  PROVE  SumOver(f) = Sum(f, S)
BY FoldIsSum DEF SumOver

(* The figures of a report that groups a set make the size of the set.     *)
LEMMA GroupsCounted ==
  ASSUME NEW S, IsFiniteSet(S), NEW B, IsFiniteSet(B), NEW g, \A x \in S : g[x] \in B,
         NEW f, f = [b \in B |-> Cardinality({x \in S : g[x] = b})]
  PROVE  SumOver(f) = Cardinality(S)
BY SumOverIs, CountOfGroups

LEMMA CountedFinite ==
  ASSUME NEW r
  PROVE  /\ Counted(r) \in SUBSET Sales /\ IsFiniteSet(Counted(r))
         /\ Made(r) \in SUBSET Prospects /\ IsFiniteSet(Made(r))
         /\ Answered(r) \in SUBSET Made(r) /\ IsFiniteSet(Answered(r))
<1>1. Counted(r) \in SUBSET Sales /\ Made(r) \in SUBSET Prospects /\ Answered(r) \in SUBSET Made(r)
  BY DEF Counted, Made, Answered
<1>. QED
  BY <1>1, FS_Subset, ReportsAssumption

LEMMA Calendar ==
  ASSUME NEW t \in Nat
  PROVE  /\ Day(t) \in Nat /\ Hour(t) \in 0..(HoursPerDay - 1)
         /\ Dow(t) \in 0..(DaysPerWeek - 1)
<1>1. /\ HoursPerDay \in Nat /\ HoursPerDay > 0 /\ DaysPerWeek \in Nat /\ DaysPerWeek > 0
  BY ReportsAssumption
<1>2. Day(t) \in Nat
  BY <1>1 DEF Day
<1>3. Hour(t) \in 0..(HoursPerDay - 1)
  BY <1>1 DEF Hour
<1>. PICK day : day = Day(t)
  OBVIOUS
<1>4. day % DaysPerWeek \in 0..(DaysPerWeek - 1)
  BY <1>1, <1>2
<1>. QED
  BY <1>2, <1>3, <1>4 DEF Dow

LEMMA MadeInTime ==
  ASSUME RowsSound, NEW r
  PROVE  /\ \A d \in Counted(r) : sale[d].made \in Nat
         /\ \A l \in Made(r) : prospect[l] \in LeadRow
BY DEF RowsSound, Counted, Made, SaleRow, Instants

LEMMA HoursAgree ==
  ASSUME RowsSound, NEW r
  PROVE  /\ SumOver(PurchaseDistribution(r).byHour) = Cardinality(Counted(r))
         /\ SumOver(PurchaseDistribution(r).byDayOfWeek) = Cardinality(Counted(r))
<1>. DEFINE C == Counted(r)
            H == 0..(HoursPerDay - 1)
            W == 0..(DaysPerWeek - 1)
            g == [d \in C |-> Hour(sale[d].made)]
            h == [d \in C |-> Dow(sale[d].made)]
            p == PurchaseDistribution(r).byHour
            q == PurchaseDistribution(r).byDayOfWeek
<1>1. IsFiniteSet(C)
  BY CountedFinite
<1>2. IsFiniteSet(H) /\ IsFiniteSet(W)
  BY FS_Interval, ReportsAssumption
<1>3. \A d \in C : g[d] \in H
  BY MadeInTime, Calendar
<1>4. \A d \in C : h[d] \in W
  BY MadeInTime, Calendar
<1>5. \A b : /\ {d \in C : Hour(sale[d].made) = b} = {d \in C : g[d] = b}
             /\ {d \in C : Dow(sale[d].made) = b} = {d \in C : h[d] = b}
  OBVIOUS
<1>6. /\ p = [b \in H |-> Cardinality({d \in C : Hour(sale[d].made) = b})]
      /\ q = [b \in W |-> Cardinality({d \in C : Dow(sale[d].made) = b})]
  BY DEF PurchaseDistribution
<1>7. p = [b \in H |-> Cardinality({d \in C : g[d] = b})]
  BY <1>5, <1>6
<1>8. q = [b \in W |-> Cardinality({d \in C : h[d] = b})]
  BY <1>5, <1>6
<1>. HIDE DEF C, H, W, g, h, p, q
<1>9. SumOver(p) = Cardinality(C)
  BY <1>1, <1>2, <1>3, <1>7, GroupsCounted
<1>10. SumOver(q) = Cardinality(C)
  BY <1>1, <1>2, <1>4, <1>8, GroupsCounted
<1>. QED
  BY <1>9, <1>10 DEF C, p, q

(* The buckets of revenue, each deal in its own.                           *)
LEMMA RevenueAgrees ==
  ASSUME NEW r, NEW unit
  PROVE  /\ SumOver([b \in Revenue(r, unit) |-> b.deals]) = Cardinality(Counted(r))
         /\ SumOver([b \in Revenue(r, unit) |-> b.revenue]) = Total(Counted(r))
<1>. DEFINE Slot(d) == Day(sale[d].made) \div unit
            Of(b) == {d \in Counted(r) : Slot(d) = b}
            Line(b) == [bucket |-> b, revenue |-> Total(Of(b)), deals |-> Cardinality(Of(b))]
<1>. PICK C, L : C = Counted(r) /\ L = Revenue(r, unit)
  OBVIOUS
<1>1. L = {Line(b) : b \in {Slot(d) : d \in Counted(r)}}
  BY DEF Revenue
<1>2. \A b : Line(b).bucket = b /\ Line(b).revenue = Total(Of(b)) /\ Line(b).deals = Cardinality(Of(b))
  OBVIOUS
<1>. HIDE DEF Line
<1>3. \A x : x \in L <=> \E d \in C : x = Line(Slot(d))
  BY <1>1
<1>. PICK g : g = [d \in C |-> Line(Slot(d))]
  OBVIOUS
<1>3a. \A d \in C : g[d] = Line(Slot(d)) /\ g[d] \in L
  BY <1>3
<1>4. ASSUME NEW x \in L
      PROVE  /\ x.revenue = Total({d \in C : g[d] = x})
             /\ x.deals = Cardinality({d \in C : g[d] = x})
  <2>1. PICK c \in C : x = Line(Slot(c))
    BY <1>3
  <2>2. x.bucket = Slot(c)
    BY <1>2, <2>1
  <2>. PICK b : b = Slot(c)
    OBVIOUS
  <2>3. \A d \in C : g[d] = x <=> Slot(d) = b
    BY <1>2, <1>3a, <2>1
  <2>4. {d \in C : g[d] = x} = Of(b)
    BY <2>3
  <2>. HIDE DEF Of, Slot
  <2>5. x.revenue = Total(Of(b)) /\ x.deals = Cardinality(Of(b))
    BY <1>2, <2>1
  <2>. QED
    BY <2>4, <2>5
<1>. HIDE DEF Of, Slot
<1>5. IsFiniteSet(C)
  BY CountedFinite
<1>6. IsFiniteSet(L)
  <2>1. g \in Surjection(C, L)
    BY <1>3, <1>3a DEF Surjection
  <2>. QED
    BY <1>5, <2>1, FS_Surjection
<1>7. SumOver([b \in L |-> b.deals]) = Cardinality(C)
  <2>. PICK f : f = [b \in L |-> b.deals]
    OBVIOUS
  <2>1. f = [b \in L |-> Cardinality({d \in C : g[d] = b})]
    BY <1>4
  <2>2. \A d \in C : g[d] \in L
    BY <1>3a
  <2>3. SumOver(f) = Cardinality(C)
    BY <1>5, <1>6, <2>1, <2>2, GroupsCounted
  <2>. QED
    BY <2>3
<1>8. SumOver([b \in L |-> b.revenue]) = Total(C)
  <2>. PICK f : f = [d \in Sales |-> Facts[d].total]
    OBVIOUS
  <2>1. ASSUME NEW T \in SUBSET C
        PROVE  Total(T) = SumIn(f, T)
    <3>1. T \subseteq Sales
      BY CountedFinite
    <3>2. [d \in T |-> Facts[d].total] = [d \in T |-> f[d]]
      BY <3>1
    <3>. QED
      BY <3>2, SumOverIs DEF Total, SumIn
  <2>2. \A d \in C : f[d] \in Int
    BY CountedFinite, ReportsAssumption
  <2>3. [b \in L |-> b.revenue] = [b \in L |-> SumIn(f, {d \in C : g[d] = b})]
    <3>1. ASSUME NEW b \in L
          PROVE  b.revenue = SumIn(f, {d \in C : g[d] = b})
      <4>1. b.revenue = Total({d \in C : g[d] = b})
        BY <1>4
      <4>2. {d \in C : g[d] = b} \in SUBSET C
        OBVIOUS
      <4>. QED
        BY <2>1, <4>1, <4>2
    <3>. QED
      BY <3>1
  <2>4. SumOver([b \in L |-> b.revenue]) = Sum([b \in L |-> b.revenue], L)
    BY SumOverIs
  <2>5. Sum([b \in L |-> SumIn(f, {d \in C : g[d] = b})], L) = SumIn(f, C)
    BY <1>3a, <1>5, <1>6, <2>2, SumOfGroups
  <2>6. Total(C) = SumIn(f, C)
    BY <2>1
  <2>. QED
    BY <2>3, <2>4, <2>5, <2>6
<1>. QED
  BY <1>7, <1>8

(* The deals of the managers and of the owner are those that count.        *)
LEMMA ManagersHaveAll ==
  ASSUME NEW r
  PROVE  UNION {DealsOf(m, r) : m \in Staff \cup {Boss}} = Counted(r)
<1>1. ASSUME NEW d \in Counted(r)
      PROVE  d \in UNION {DealsOf(m, r) : m \in Staff \cup {Boss}}
  <2>. PICK m : m = Facts[d].manager
    OBVIOUS
  <2>1. m \in Staff \cup {Boss} /\ d \in DealsOf(m, r)
    BY ReportsAssumption DEF Counted, DealsOf
  <2>. QED
    BY <2>1
<1>2. \A m : DealsOf(m, r) \subseteq Counted(r)
  BY DEF DealsOf, Counted
<1>. QED
  BY <1>1, <1>2

LEMMA StagesFinite == IsFiniteSet(LeadStages)
<1>1. IsFiniteSet({"NEW"} \cup {"CONTACTED"})
  BY FS_Singleton, FS_Union
<1>2. IsFiniteSet({"NEW"} \cup {"CONTACTED"} \cup {"IN_DIALOGUE"})
  BY <1>1, FS_Singleton, FS_Union
<1>3. IsFiniteSet({"NEW"} \cup {"CONTACTED"} \cup {"IN_DIALOGUE"} \cup {"PROPOSAL_SENT"})
  BY <1>2, FS_Singleton, FS_Union
<1>4. IsFiniteSet({"WAITING_DECISION"} \cup {"WON"})
  BY FS_Singleton, FS_Union
<1>5. IsFiniteSet({"WAITING_DECISION"} \cup {"WON"} \cup {"LOST"})
  BY <1>4, FS_Singleton, FS_Union
<1>6. LeadStages = ({"NEW"} \cup {"CONTACTED"} \cup {"IN_DIALOGUE"} \cup {"PROPOSAL_SENT"})
                     \cup ({"WAITING_DECISION"} \cup {"WON"} \cup {"LOST"})
  BY DEF LeadStages
<1>. QED
  BY <1>3, <1>5, <1>6, FS_Union

LEMMA FunnelAgrees ==
  ASSUME RowsSound, NEW r
  PROVE  SumOver(Funnel(r)) = Cardinality(Made(r))
<1>. PICK M, g : M = Made(r) /\ g = [l \in M |-> prospect[l].status]
  OBVIOUS
<1>1. IsFiniteSet(M)
  BY CountedFinite
<1>2. \A l \in M : g[l] \in LeadStages
  BY MadeInTime DEF LeadRow
<1>3. \A s : {l \in M : prospect[l].status = s} = {l \in M : g[l] = s}
  OBVIOUS
<1>4. Funnel(r) = [s \in LeadStages |-> Cardinality({l \in M : g[l] = s})]
  BY <1>3 DEF Funnel
<1>. QED
  BY <1>1, <1>2, <1>4, StagesFinite, GroupsCounted, SMTT(30)

LEMMA AllAgree == RowsSound => ReportsAgree
<1>. SUFFICES ASSUME RowsSound, NEW r \in Ranges
              PROVE  LET deals == SumOver(PurchaseDistribution(r).byHour)
                     IN  /\ deals = SumOver(PurchaseDistribution(r).byDayOfWeek)
                         /\ \A unit \in Units :
                              /\ deals = SumOver([b \in Revenue(r, unit) |-> b.deals])
                              /\ SumOver([b \in Revenue(r, unit) |-> b.revenue])
                                   = Total(UNION {DealsOf(m, r) : m \in Staff \cup {Boss}})
                         /\ SumOver(Funnel(r)) = SlaMetrics(r).leads
  BY DEF ReportsAgree
<1>1. SlaMetrics(r).leads = Cardinality(Made(r))
  BY DEF SlaMetrics
<1>. QED
  BY <1>1, HoursAgree, RevenueAgrees, ManagersHaveAll, FunnelAgrees

-----------------------------------------------------------------------------
(* Sorting                                                                 *)

Rising(s, key) == \A i, j \in DOMAIN s : i < j => key[s[i]] <= key[s[j]]

LEMMA LastOf ==
  ASSUME NEW S, IsFiniteSet(S), S # {}, NEW key, \A x \in S : key[x] \in Int
  PROVE  \E x \in S : \A y \in S : key[y] <= key[x]
<1>. DEFINE Good == {T \in SUBSET S : T # {} => \E x \in T : \A y \in T : key[y] <= key[x]}
<1>1. ASSUME NEW T \in SUBSET S, \A x \in T : T \ {x} \in Good
      PROVE  T \in Good
  <2>. SUFFICES ASSUME T # {} PROVE \E x \in T : \A y \in T : key[y] <= key[x]
    OBVIOUS
  <2>1. PICK a \in T : TRUE
    OBVIOUS
  <2>2. CASE T \ {a} = {}
    <3>1. \A y \in T : y = a
      BY <2>2
    <3>2. key[a] <= key[a]
      BY <2>1
    <3>. QED
      BY <3>1, <3>2
  <2>3. CASE T \ {a} # {}
    <3>1. PICK b \in T \ {a} : \A y \in T \ {a} : key[y] <= key[b]
      BY <1>1, <2>3
    <3>2. CASE key[a] <= key[b]
      BY <3>1, <3>2
    <3>3. CASE ~(key[a] <= key[b])
      <4>1. key[a] \in Int /\ key[b] \in Int /\ \A y \in T : key[y] \in Int
        OBVIOUS
      <4>2. \A y \in T : key[y] <= key[a]
        BY <3>1, <3>3, <4>1
      <4>. QED
        BY <4>2
    <3>. QED
      BY <3>2, <3>3
  <2>. QED
    BY <2>2, <2>3
<1>. HIDE DEF Good
<1>2. SUBSET S \subseteq Good
  BY <1>1, SubsetInduction
<1>3. S \in Good
  BY <1>2
<1>. QED
  BY <1>3 DEF Good

(* One more at the end.                                                    *)
LEMMA SortedOneMore ==
  ASSUME NEW T, NEW n \in Nat, NEW x \in T, NEW s \in Bijection(1..n, T \ {x}),
         NEW key, \A y \in T : key[y] \in Int, \A y \in T : key[y] <= key[x], Rising(s, key)
  PROVE  \E t \in Bijection(1..(n + 1), T) : Rising(t, key)
<1>. DEFINE t == [i \in 1..(n + 1) |-> IF i = n + 1 THEN x ELSE s[i]]
<1>1. /\ DOMAIN s = 1..n /\ \A i \in 1..n : s[i] \in T /\ s[i] # x
      /\ \A i, j \in 1..n : s[i] = s[j] => i = j
      /\ \A y \in T \ {x} : \E i \in 1..n : s[i] = y
  BY DEF Bijection, Injection, IsInjective, Surjection
<1>2. /\ DOMAIN t = 1..(n + 1) /\ t[n + 1] = x
      /\ \A i \in 1..n : t[i] = s[i] /\ i # n + 1 /\ i \in 1..(n + 1)
      /\ \A i \in 1..(n + 1) : i = n + 1 \/ i \in 1..n
      /\ n + 1 \in 1..(n + 1)
  OBVIOUS
<1>3. t \in [1..(n + 1) -> T]
  BY <1>1
<1>. HIDE DEF t
<1>4. \A i, j \in 1..(n + 1) : t[i] = t[j] => i = j
  BY <1>1, <1>2
<1>5. \A y \in T : \E i \in 1..(n + 1) : t[i] = y
  BY <1>1, <1>2
<1>6. t \in Bijection(1..(n + 1), T)
  BY <1>2, <1>3, <1>4, <1>5 DEF Bijection, Injection, IsInjective, Surjection
<1>7. Rising(t, key)
  <2>. SUFFICES ASSUME NEW i \in 1..(n + 1), NEW j \in 1..(n + 1), i < j
                PROVE  key[t[i]] <= key[t[j]]
    BY <1>2 DEF Rising
  <2>1. i \in 1..n
    OBVIOUS
  <2>2. CASE j = n + 1
    BY <1>1, <1>2, <2>1, <2>2
  <2>3. CASE j \in 1..n
    BY <1>1, <1>2, <2>1, <2>3 DEF Rising
  <2>. QED
    BY <1>2, <2>2, <2>3
<1>. QED
  BY <1>6, <1>7

LEMMA SortedExists ==
  ASSUME NEW S, IsFiniteSet(S), NEW key, \A x \in S : key[x] \in Int
  PROVE  \E s \in Bijection(1..Cardinality(S), S) : Rising(s, key)
<1>. DEFINE Good == {T \in SUBSET S : \E s \in Bijection(1..Cardinality(T), T) : Rising(s, key)}
<1>1. ASSUME NEW T \in SUBSET S, \A x \in T : T \ {x} \in Good
      PROVE  T \in Good
  <2>1. IsFiniteSet(T)
    BY FS_Subset
  <2>2. CASE T = {}
    <3>. PICK s : s = [i \in 1..0 |-> 0]
      OBVIOUS
    <3>1. Cardinality(T) = 0
      BY <2>2, FS_EmptySet
    <3>2. s \in Bijection(1..0, {}) /\ Rising(s, key)
      BY DEF Bijection, Injection, IsInjective, Surjection, Rising
    <3>. QED
      BY <2>2, <3>1, <3>2
  <2>3. CASE T # {}
    <3>1. PICK x \in T : \A y \in T : key[y] <= key[x]
      BY <2>1, <2>3, LastOf
    <3>. PICK n : n = Cardinality(T \ {x})
      OBVIOUS
    <3>2. n \in Nat /\ Cardinality(T) = n + 1
      <4>1. IsFiniteSet(T \ {x}) /\ Cardinality(T \ {x}) = Cardinality(T) - 1
        BY <2>1, FS_RemoveElement
      <4>2. Cardinality(T \ {x}) \in Nat /\ Cardinality(T) \in Nat
        BY <2>1, <4>1, FS_CardinalityType
      <4>. QED
        BY <4>1, <4>2
    <3>3. PICK s \in Bijection(1..n, T \ {x}) : Rising(s, key)
      BY <1>1
    <3>. HIDE DEF Good
    <3>4. \E t \in Bijection(1..(n + 1), T) : Rising(t, key)
      BY <3>1, <3>2, <3>3, SortedOneMore
    <3>. QED
      BY <3>2, <3>4 DEF Good
  <2>. QED
    BY <2>2, <2>3
<1>. HIDE DEF Good
<1>2. SUBSET S \subseteq Good
  BY <1>1, SubsetInduction
<1>3. S \in Good
  BY <1>2
<1>. QED
  BY <1>3 DEF Good

LEMMA SortedByIs ==
  ASSUME NEW S, IsFiniteSet(S), NEW key, \A x \in S : key[x] \in Int,
         NEW s, s = SortedBy(S, key), NEW n, n = Cardinality(S)
  PROVE  /\ n \in Nat /\ s \in [1..n -> S] /\ Len(s) = n /\ DOMAIN s = 1..n
         /\ \A i, j \in 1..n : s[i] = s[j] => i = j
         /\ \A x \in S : \E i \in 1..n : s[i] = x
         /\ \A i, j \in 1..n : i < j => key[s[i]] <= key[s[j]]
<1>1. n \in Nat
  BY FS_CardinalityType
<1>2. \E t \in Bijection(1..Cardinality(S), S) : Rising(t, key)
  BY SortedExists
<1>3. s \in Bijection(1..Cardinality(S), S) /\ Rising(s, key)
  BY <1>2 DEF SortedBy, Rising
<1>4. /\ s \in [1..n -> S]
      /\ \A i, j \in 1..n : s[i] = s[j] => i = j
      /\ \A x \in S : \E i \in 1..n : s[i] = x
  BY <1>3 DEF Bijection, Injection, IsInjective, Surjection
<1>5. Len(s) = n
  BY <1>1, <1>4
<1>. QED
  BY <1>1, <1>3, <1>4, <1>5 DEF Rising

-----------------------------------------------------------------------------
(* The products that earn most                                             *)

LEMMA RowsMakeSeq == ASSUME NEW S, NEW n \in Nat, NEW f \in [1..n -> S] PROVE f \in Seq(S)
OBVIOUS

LEMMA EarnedIs ==
  ASSUME NEW r, NEW p \in Goods
  PROVE  /\ Earned(p, r) \in Nat
         /\ (\A d \in Counted(r) : ~(Facts[d].items[p] > 0)) => Earned(p, r) = 0
<1>. PICK S, f : S = Counted(r) /\ f = [d \in S |-> Facts[d].items[p]]
  OBVIOUS
<1>1. IsFiniteSet(S) /\ \A d \in S : d \in Sales
  BY CountedFinite
<1>2. f \in [S -> Nat]
  BY <1>1, ReportsAssumption
<1>3. DOMAIN f = S
  OBVIOUS
<1>4. SumOver(f) = Sum(f, S)
  BY <1>3, SumOverIs
<1>5. Earned(p, r) = Sum(f, S)
  BY <1>4 DEF Earned
<1>6. Sum(f, S) \in Nat
  BY <1>1, <1>2, SumNat
<1>7. ASSUME \A d \in Counted(r) : ~(Facts[d].items[p] > 0)
      PROVE  Sum(f, S) = 0
  <2>1. \A d \in S : f[d] = 0
    BY <1>2, <1>7
  <2>2. f \in [S -> Int]
    BY <1>2
  <2>. QED
    BY <1>1, <2>1, <2>2, SumZero
<1>. QED
  BY <1>5, <1>6, <1>7

(* The first rows of a sorted set: none that is left out comes before them. *)
LEMMA FirstOfSorted ==
  ASSUME NEW S, IsFiniteSet(S), NEW key, \A x \in S : key[x] \in Int,
         NEW ranked, ranked = SortedBy(S, key), NEW limit \in Nat,
         NEW top, top = SubSeq(ranked, 1, IF limit < Len(ranked) THEN limit ELSE Len(ranked))
  PROVE  /\ \A i \in DOMAIN top : top[i] \in S
         /\ \A p \in S : (\A j \in DOMAIN top : top[j] # p) =>
              \A i \in DOMAIN top : key[top[i]] <= key[p]
<1>. PICK n : n = Cardinality(S)
  OBVIOUS
<1>3. /\ n \in Nat /\ ranked \in [1..n -> S] /\ Len(ranked) = n
      /\ \A x \in S : \E i \in 1..n : ranked[i] = x
      /\ \A i, j \in 1..n : i < j => key[ranked[i]] <= key[ranked[j]]
  BY SortedByIs
<1>4. ranked \in Seq(S)
  BY <1>3, RowsMakeSeq
<1>. PICK k : k = IF limit < n THEN limit ELSE n
  OBVIOUS
<1>5. k \in Nat /\ k <= n
  BY <1>3
<1>6. top = SubSeq(ranked, 1, k)
  BY <1>3
<1>7a. \A i \in 1..k : i \in 1..n
  BY <1>3, <1>5
<1>7b. DOMAIN top = 1..k /\ \A i \in 1..k : top[i] = ranked[i]
  BY <1>3, <1>4, <1>5, <1>6
<1>7c. \A i \in 1..k : top[i] \in S
  BY <1>3, <1>7a, <1>7b
<1>8. ASSUME NEW p \in S, \A j \in DOMAIN top : top[j] # p, NEW i \in DOMAIN top
      PROVE  key[top[i]] <= key[p]
  <2>1. PICK j \in 1..n : ranked[j] = p
    BY <1>3
  <2>2. j \notin 1..k /\ i \in 1..n /\ i \in 1..k
    BY <1>7a, <1>7b, <1>8, <2>1
  <2>3. i < j
    BY <1>5, <2>2
  <2>. QED
    BY <1>3, <1>7b, <2>1, <2>2, <2>3
<1>. QED
  BY <1>7b, <1>7c, <1>8

(* The first of the products sold, by what they earn.                      *)
LEMMA TopIs ==
  ASSUME NEW r, NEW limit \in 1..2, NEW top, top = TopProducts(r, limit)
  PROVE  LET sold == {p \in Goods : \E d \in Counted(r) : Facts[d].items[p] > 0}
         IN  /\ \A i \in DOMAIN top : top[i] \in sold
             /\ \A p \in sold : (\A j \in DOMAIN top : top[j] # p) =>
                  \A i \in DOMAIN top : 0 - Earned(top[i], r) <= 0 - Earned(p, r)
<1>. DEFINE sold == {p \in Goods : \E d \in Counted(r) : Facts[d].items[p] > 0}
            key == [p \in sold |-> 0 - Earned(p, r)]
<1>1. IsFiniteSet(sold)
  BY FS_Subset, ReportsAssumption
<1>2. \A p \in sold : key[p] = 0 - Earned(p, r)
  OBVIOUS
<1>3. \A p \in sold : key[p] \in Int
  BY EarnedIs
<1>4. top = SubSeq(SortedBy(sold, key), 1,
                   IF limit < Len(SortedBy(sold, key)) THEN limit ELSE Len(SortedBy(sold, key)))
  BY DEF TopProducts
<1>5. limit \in Nat
  OBVIOUS
<1>. HIDE DEF sold, key
<1>6. /\ \A i \in DOMAIN top : top[i] \in sold
      /\ \A p \in sold : (\A j \in DOMAIN top : top[j] # p) =>
           \A i \in DOMAIN top : key[top[i]] <= key[p]
  BY <1>1, <1>3, <1>4, <1>5, FirstOfSorted
<1>7. /\ \A i \in DOMAIN top : top[i] \in sold
      /\ \A p \in sold : (\A j \in DOMAIN top : top[j] # p) =>
           \A i \in DOMAIN top : 0 - Earned(top[i], r) <= 0 - Earned(p, r)
  BY <1>2, <1>6
<1>. QED
  BY <1>7 DEF sold

LEMMA BestAreShown == TopIsTop
<1>. SUFFICES ASSUME NEW r \in Ranges, NEW limit \in 1..2, NEW top, top = TopProducts(r, limit),
                     NEW i \in DOMAIN top, NEW p \in Goods, \A j \in DOMAIN top : top[j] # p
              PROVE  Earned(p, r) <= Earned(top[i], r)
  BY DEF TopIsTop
<1>. DEFINE sold == {q \in Goods : \E d \in Counted(r) : Facts[d].items[q] > 0}
<1>1. top[i] \in sold /\ top[i] \in Goods
  BY TopIs
<1>2. Earned(p, r) \in Nat /\ Earned(top[i], r) \in Nat
  BY <1>1, EarnedIs
<1>3. CASE p \in sold
  <2>1. 0 - Earned(top[i], r) <= 0 - Earned(p, r)
    BY <1>3, TopIs
  <2>. QED
    BY <1>2, <2>1
<1>4. CASE p \notin sold
  <2>1. Earned(p, r) = 0
    BY <1>4, EarnedIs
  <2>. QED
    BY <1>2, <2>1
<1>. QED
  BY <1>3, <1>4

-----------------------------------------------------------------------------
(* The median, and who answered too late                                   *)

(* The upper one of the two in the middle.                                 *)
LEMMA MiddlePlace ==
  ASSUME NEW n \in Nat, n > 0
  PROVE  LET k == n \div 2 + 1
         IN  k \in Int /\ 1 <= k /\ k <= n /\ 2 * k >= n /\ 2 * (n - k + 1) >= n
OBVIOUS

(* The rows from place a to place b of a list without repetitions.         *)
LEMMA AsManyAsPlaces ==
  ASSUME NEW T, IsFiniteSet(T), NEW a \in Nat, NEW b \in Nat, a <= b + 1,
         NEW f \in Injection(a..b, T)
  PROVE  b - a + 1 <= Cardinality(T) /\ Cardinality(T) \in Nat
<1>1. Cardinality(a..b) = b - a + 1
  BY FS_Interval
<1>2. Cardinality(a..b) <= Cardinality(T)
  BY FS_Injection
<1>3. Cardinality(T) \in Nat
  BY FS_CardinalityType
<1>. QED
  BY <1>1, <1>2, <1>3

NoMore(S, key, m) == {x \in S : key[x] <= m}
NoLess(S, key, m) == {x \in S : key[x] >= m}

(* A middle one of the sorted has half of them on either side.             *)
LEMMA HalvesMeet ==
  ASSUME NEW S, IsFiniteSet(S), NEW key, \A x \in S : key[x] \in Int,
         NEW s, s = SortedBy(S, key), NEW n, n = Cardinality(S),
         NEW k \in Int, 1 <= k, k <= n, 2 * k >= n, 2 * (n - k + 1) >= n
  PROVE  /\ 2 * Cardinality(NoMore(S, key, key[s[k]])) >= n
         /\ 2 * Cardinality(NoLess(S, key, key[s[k]])) >= n
         /\ s[k] \in S
<1>. PICK m : m = key[s[k]]
  OBVIOUS
<1>. DEFINE below == NoMore(S, key, m)
            above == NoLess(S, key, m)
            low == [i \in 1..k |-> s[i]]
            high == [i \in k..n |-> s[i]]
<1>1. /\ n \in Nat /\ s \in [1..n -> S]
      /\ \A i, j \in 1..n : s[i] = s[j] => i = j
      /\ \A i, j \in 1..n : i < j => key[s[i]] <= key[s[j]]
  BY SortedByIs, SMTT(30)
<1>2. k \in 1..n
  BY <1>1
<1>3. IsFiniteSet(below) /\ IsFiniteSet(above)
  BY FS_Subset DEF NoMore, NoLess
<1>4. \A i \in 1..n : s[i] \in S /\ key[s[i]] \in Int
  BY <1>1
<1>5. ASSUME NEW i \in 1..k
      PROVE  i \in 1..n /\ s[i] \in below
  <2>1. i \in 1..n /\ (i < k \/ i = k)
    BY <1>1, <1>2
  <2>2. key[s[i]] <= m
    BY <1>1, <1>2, <1>4, <2>1
  <2>. QED
    BY <1>4, <2>1, <2>2 DEF NoMore
<1>6. ASSUME NEW i \in k..n
      PROVE  i \in 1..n /\ s[i] \in above
  <2>1. i \in 1..n /\ (k < i \/ i = k)
    BY <1>1, <1>2
  <2>2. m \in Int /\ m <= key[s[i]]
    BY <1>1, <1>2, <1>4, <2>1
  <2>3. key[s[i]] >= m
    BY <1>4, <2>1, <2>2
  <2>. QED
    BY <1>4, <2>1, <2>3 DEF NoLess
<1>. HIDE DEF below, above
<1>7. low \in Injection(1..k, below)
  BY <1>1, <1>5 DEF Injection, IsInjective
<1>8. high \in Injection(k..n, above)
  BY <1>1, <1>6 DEF Injection, IsInjective
<1>9. 1 \in Nat /\ k \in Nat /\ n \in Nat /\ 1 <= k + 1 /\ k <= n + 1
  BY <1>1, <1>2
<1>. HIDE DEF low, high
<1>10. k - 1 + 1 <= Cardinality(below) /\ Cardinality(below) \in Nat
  BY <1>3, <1>7, <1>9, AsManyAsPlaces
<1>11. n - k + 1 <= Cardinality(above) /\ Cardinality(above) \in Nat
  BY <1>3, <1>8, <1>9, AsManyAsPlaces
<1>12. 2 * Cardinality(below) >= n
  BY <1>9, <1>10
<1>13. 2 * Cardinality(above) >= n
  BY <1>9, <1>11
<1>. QED
  BY <1>2, <1>4, <1>12, <1>13 DEF below, above

LEMMA BreachesAreLate ==
  ASSUME RowsSound, NEW r, NEW l \in Made(r)
  PROVE  LET seen == IF prospect[l].first = NoRecord THEN clock ELSE prospect[l].first
         IN  prospect[l].made < seen - SlaMinutes <=> l \in SlaMetrics(r).breaches
<1>1. prospect[l] \in LeadRow /\ clock \in Int /\ SlaMinutes \in Int
  BY MadeInTime, ReportsAssumption DEF RowsSound, Instants
<1>2. prospect[l].made \in Int /\ (prospect[l].first \in Int \/ prospect[l].first = NoRecord)
  BY <1>1 DEF LeadRow, Instants
<1>3. l \in SlaMetrics(r).breaches <=>
        \/ l \in Answered(r) /\ Response(l) > SlaMinutes
        \/ l \in Made(r) \ Answered(r) /\ clock - prospect[l].made > SlaMinutes
  BY DEF SlaMetrics
<1>4. l \in Answered(r) <=> prospect[l].first # NoRecord
  BY DEF Answered
<1>5. CASE prospect[l].first = NoRecord
  BY <1>1, <1>2, <1>3, <1>4, <1>5
<1>6. CASE prospect[l].first # NoRecord
  BY <1>1, <1>2, <1>3, <1>4, <1>6 DEF Response
<1>. QED
  BY <1>5, <1>6

LEMMA MedianIsMiddle ==
  ASSUME RowsSound, NEW r, SlaMetrics(r).responded > 0
  PROVE  LET sla == SlaMetrics(r)
             Half(S) == 2 * Cardinality(S) >= sla.responded
         IN  /\ Half({l \in Answered(r) : Response(l) <= sla.median})
             /\ Half({l \in Answered(r) : Response(l) >= sla.median})
<1>. DEFINE A == Answered(r)
            key == [l \in A |-> Response(l)]
            times == SortedBy(A, key)
            n == Cardinality(A)
            m == SlaMetrics(r).median
<1>1. IsFiniteSet(A)
  BY CountedFinite
<1>2. \A l \in A : key[l] = Response(l)
  OBVIOUS
<1>3. ASSUME NEW l \in A PROVE key[l] \in Int
  <2>1. l \in Made(r) /\ prospect[l].first # NoRecord
    BY DEF Answered
  <2>2. prospect[l] \in LeadRow
    BY <2>1, MadeInTime
  <2>3. prospect[l].made \in Int /\ prospect[l].first \in Int
    BY <2>1, <2>2 DEF LeadRow, Instants
  <2>. QED
    BY <2>3 DEF Response
<1>3a. \A l \in A : key[l] \in Int
  BY <1>3
<1>4. /\ SlaMetrics(r).responded = Len(times)
      /\ m = IF times = <<>> THEN NoRecord ELSE Response(times[Len(times) \div 2 + 1])
  BY DEF SlaMetrics
<1>. HIDE DEF A, key, times, m
<1>5. Len(times) = n /\ n \in Nat
  BY <1>1, <1>3, SortedByIs DEF times
<1>6. n > 0 /\ SlaMetrics(r).responded = n
  BY <1>4, <1>5
<1>7. times # <<>>
  BY <1>5, <1>6
<1>8. m = Response(times[n \div 2 + 1])
  BY <1>4, <1>5, <1>7
<1>. DEFINE k == n \div 2 + 1
<1>9. /\ 2 * Cardinality(NoMore(A, key, key[times[k]])) >= n
      /\ 2 * Cardinality(NoLess(A, key, key[times[k]])) >= n
      /\ times[k] \in A
  <2>1. k \in Int /\ 1 <= k /\ k <= n /\ 2 * k >= n /\ 2 * (n - k + 1) >= n
    BY <1>5, <1>6, MiddlePlace
  <2>2. n = Cardinality(A) /\ times = SortedBy(A, key)
    BY DEF times
  <2>. HIDE DEF k, n
  <2>. QED
    BY <1>1, <1>3a, <2>1, <2>2, HalvesMeet
<1>10. key[times[k]] = m
  BY <1>2, <1>8, <1>9
<1>11. /\ NoMore(A, key, key[times[k]]) = {l \in A : Response(l) <= m}
       /\ NoLess(A, key, key[times[k]]) = {l \in A : Response(l) >= m}
  BY <1>2, <1>10 DEF NoMore, NoLess
<1>. QED
  BY <1>6, <1>9, <1>11 DEF A, m

(* What the reports tell, at any moment and of any range: the sums of      *)
(* revenue, purchaseDistribution, managersComparison, the funnel and *)
(* slaMetrics agree; topProducts leaves out nothing that earned more; a    *)
(* late answer stays a breach and the median is one.                       *)
THEOREM ReportsAreRight == ReportsSpec => []ReportsHold
<1>1. RowsSound => SlaMetricsFair
  BY BreachesAreLate, MedianIsMiddle DEF SlaMetricsFair
<1>2. RowsSound => ReportsHold
  BY <1>1, AllAgree, BestAreShown DEF ReportsHold
<1>. QED
  BY <1>2, RowsStaySound, PTL

=============================================================================

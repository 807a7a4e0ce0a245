------------------------------ MODULE Delivery ------------------------------
(***************************************************************************)
(* DeliveryCalcService.quote (delivery-calc/delivery-calc.service.ts) with *)
(* its Redis cache and the estimator behind it, over the catalog that is   *)
(* edited meanwhile.  The variants of one request are built side by side,  *)
(* one process per warehouse; when one throws, the request fails and the   *)
(* others run on.                                                          *)
(***************************************************************************)
EXTENDS Catalog, Sequences, Functions

CONSTANTS
  Clients,               \* quote requests in flight
  CityOf, Destinations,
  Weights, BucketSize,   \* weights of the goods asked for, in kg
  Estimates,             \* what the estimator may return for a route
  MaxKg,                 \* largest weight that DeliveryQuote.weightKg holds
  LocalDays,             \* term of the cheapest delivery option
  MaxQuotes              \* bound on DeliveryQuote rows

(* A number that stands for Number.MAX_SAFE_INTEGER, which no column holds. *)
Unranked == 1000

ASSUME DeliveryAssumption ==
  /\ Weights \subseteq Nat /\ BucketSize \in Nat \ {0} /\ MaxQuotes \in Nat
  /\ MaxKg \in Nat /\ LocalDays \in Nat
  /\ \A a \in Estimates : a.cost \in Nat /\ a.min \in Nat /\ a.max \in Nat /\ a.stores \in BOOLEAN
  /\ \A a \in Estimates : a.stores => a.max < Unranked

VARIABLES
  cache,       \* estimates by route and bucket, or none, or unreadable
  quotes,      \* DeliveryQuote rows in order
  qpc, asking, \* where each request stands, and what it asks
  found,       \* warehouses it has found eligible
  vpc, got,    \* where the variant of each warehouse stands, with what
  reply,       \* variants answered, in order
  had, open    \* history: warehouses that had everything meanwhile, and of
               \* these the ones that were active then or later

deliveryVars == <<cache, quotes, qpc, asking, found, vpc, got, reply, had, open>>

Nothing == [kind |-> "nothing"]

-----------------------------------------------------------------------------
(* Helpers                                                                 *)

Bucket(kg) ==
  LET up == ((kg + BucketSize - 1) \div BucketSize) * BucketSize
  IN  IF up > BucketSize THEN up ELSE BucketSize

(* City names are compared trimmed and in lower case.  The code joins the  *)
(* three with ":", which no name of a city holds.                          *)
Key(w, dest, kg) == <<CityOf[w], dest, Bucket(kg)>>

(* One piece of each product is asked for.                                 *)
HasAll(w) == \A p \in Products : stock[<<w, p>>] # Missing /\ stock[<<w, p>>] >= 1

Active(w) == row[w].active

Local(c, w) == CityOf[w] = asking[c].dest

KeyOf(c, w) == Key(w, asking[c].dest, asking[c].kg)

(* representativeEtaAndPrice.                                              *)
Rank(v) == CASE v.kind = "local" -> <<0, LocalDays, 0>>
             [] v.kind = "quote" -> <<1, v.made.max, v.made.cost>>
             [] OTHER -> <<1, Unranked, Unranked>>

(* compareVariants: local first, then the longest term, then the price.    *)
Before(v, u) ==
  LET a == Rank(v) b == Rank(u) IN
  \/ a[1] < b[1]
  \/ a[1] = b[1] /\ a[2] < b[2]
  \/ a[1] = b[1] /\ a[2] = b[2] /\ a[3] < b[3]

-----------------------------------------------------------------------------
(* quote                                                                   *)

Settled(c) == \A w \in Warehouses : vpc[c][w] \in {"none", "done"}

(* The bound: rows are left for every request that is under way.           *)
Busy == {c \in Clients : qpc[c] \in {"stocks", "included", "warehouses"} \/ ~Settled(c)}
Room(n) == Len(quotes) + n + Cardinality(Warehouses) * Cardinality(Busy) <= MaxQuotes

QuoteBegin(c, dest, kg) ==
  /\ qpc[c] \in {"idle", "answered", "failed"} /\ Settled(c)
  /\ Room(Cardinality(Warehouses))
  /\ qpc' = [qpc EXCEPT ![c] = "stocks"]
  /\ asking' = [asking EXCEPT ![c] = [dest |-> dest, kg |-> kg]]
  /\ found' = [found EXCEPT ![c] = {}]
  /\ vpc' = [vpc EXCEPT ![c] = [w \in Warehouses |-> "none"]]
  /\ got' = [got EXCEPT ![c] = [w \in Warehouses |-> Nothing]]
  /\ reply' = [reply EXCEPT ![c] = <<>>]
  /\ had' = [had EXCEPT ![c] = {w \in Warehouses : HasAll(w)}]
  /\ open' = [open EXCEPT ![c] = {w \in Warehouses : HasAll(w) /\ Active(w)}]
  /\ UNCHANGED <<catalogVars, cache, quotes>>

(* The stock is read first, then the warehouses it is included with.       *)
QuoteReadStocks(c) ==
  /\ qpc[c] = "stocks"
  /\ found' = [found EXCEPT ![c] = {w \in Warehouses : HasAll(w)}]
  /\ qpc' = [qpc EXCEPT ![c] = "included"]
  /\ UNCHANGED <<catalogVars, cache, quotes, asking, vpc, got, reply, had, open>>

Mut_QuoteReadActive(c) ==
  /\ qpc[c] = "included"
  /\ qpc' = [qpc EXCEPT ![c] = IF found[c] = {} THEN "answered" ELSE "warehouses"]
  /\ UNCHANGED <<catalogVars, cache, quotes, asking, found, vpc, got, reply, had, open>>

(* Nothing in stock is a 409.                                              *)
QuoteReadActive(c) ==
  /\ qpc[c] = "included"
  /\ LET all == {w \in found[c] : Active(w)} IN
       /\ found' = [found EXCEPT ![c] = all]
       /\ qpc' = [qpc EXCEPT ![c] = IF all = {} THEN "answered" ELSE "warehouses"]
  /\ UNCHANGED <<catalogVars, cache, quotes, asking, vpc, got, reply, had, open>>

(* The warehouses and the options are read, and the variants set off.      *)
QuoteFanOut(c) ==
  /\ qpc[c] = "warehouses"
  /\ qpc' = [qpc EXCEPT ![c] = "variants"]
  /\ vpc' = [vpc EXCEPT ![c] = [w \in Warehouses |->
       IF w \notin found[c] THEN "none" ELSE IF Local(c, w) THEN "done" ELSE "cache"]]
  /\ got' = [got EXCEPT ![c] = [w \in Warehouses |->
       IF w \in found[c] /\ Local(c, w) THEN [kind |-> "local", of |-> w] ELSE Nothing]]
  /\ UNCHANGED <<catalogVars, cache, quotes, asking, found, reply, had, open>>

Variant(c, w, from, to, what) ==
  /\ vpc[c][w] = from
  /\ vpc' = [vpc EXCEPT ![c][w] = to]
  /\ got' = [got EXCEPT ![c][w] = what]
  /\ UNCHANGED <<catalogVars, asking, found, had, open>>

(* The variant throws, and with it the request, once.                      *)
Throws(c, w, from) ==
  /\ Variant(c, w, from, "done", Nothing)
  /\ qpc' = [qpc EXCEPT ![c] = "failed"]
  /\ UNCHANGED <<cache, quotes, reply>>

(* An entry that cannot be parsed is a miss.                               *)
CacheGet(c, w) ==
  /\ vpc[c][w] = "cache"
  /\ LET hit == cache[KeyOf(c, w)] IN
       IF hit.kind = "estimate" THEN Variant(c, w, "cache", "insert", hit)
       ELSE Variant(c, w, "cache", "estimate", Nothing)
  /\ UNCHANGED <<cache, quotes, qpc, reply>>

(* Redis is down: this is outside of the try.                              *)
CacheGetFails(c, w) == Throws(c, w, "cache")

(* parseEstimate: only a positive price and an ordered term come through.  *)
EstimateAnswers(c, w, a) ==
  /\ vpc[c][w] = "estimate" /\ a.cost > 0 /\ a.min <= a.max
  /\ Variant(c, w, "estimate", "store", [kind |-> "estimate", made |-> a, route |-> KeyOf(c, w)])
  /\ UNCHANGED <<cache, quotes, qpc, reply>>

Mut_EstimateFails(c, w) == Throws(c, w, "estimate")

(* No API key, no connection, an error status, no or bad JSON, bad values. *)
EstimateFails(c, w) ==
  /\ Variant(c, w, "estimate", "done", [kind |-> "unavailable", of |-> w])
  /\ UNCHANGED <<cache, quotes, qpc, reply>>

CacheSet(c, w) ==
  /\ vpc[c][w] = "store"
  /\ cache' = [cache EXCEPT ![KeyOf(c, w)] = got[c][w]]
  /\ Variant(c, w, "store", "insert", got[c][w])
  /\ UNCHANGED <<quotes, qpc, reply>>

(* Inside of the try: the estimate is there already and is used.           *)
CacheSetFails(c, w) ==
  /\ Variant(c, w, "store", "insert", got[c][w])
  /\ UNCHANGED <<cache, quotes, qpc, reply>>

(* What the row is to hold fits its columns: the price and the term of the *)
(* estimate, and the weight of the goods, whose quantity has no maximum.   *)
Stores(c, w) == got[c][w].made.stores /\ asking[c].kg <= MaxKg

(* "a fresh row every call even on a cache hit".                           *)
InsertQuote(c, w) ==
  LET a == got[c][w] IN
  /\ vpc[c][w] = "insert" /\ Stores(c, w)
  /\ quotes' = Append(quotes, [of |-> w, dest |-> asking[c].dest, kg |-> asking[c].kg,
                               made |-> a.made,
                               source |-> "AI_ESTIMATE", route |-> a.route])
  /\ Variant(c, w, "insert", "done",
             [kind |-> "quote", of |-> w, made |-> a.made, id |-> Len(quotes) + 1])
  /\ UNCHANGED <<cache, qpc, reply>>

Mut_InsertQuoteFails(c, w) ==
  /\ vpc[c][w] = "insert" /\ ~Stores(c, w)
  /\ Variant(c, w, "insert", "lost", Nothing)
  /\ UNCHANGED <<cache, quotes, qpc, reply>>

(* A price, a term or a weight too large: outside of the try too.          *)
InsertQuoteFails(c, w) ==
  /\ vpc[c][w] = "insert" /\ ~Stores(c, w)
  /\ Throws(c, w, "insert")

(* Those of one rank stay in the order of the rows, which is any.          *)
QuoteAnswer(c) ==
  /\ qpc[c] = "variants" /\ Settled(c)
  /\ qpc' = [qpc EXCEPT ![c] = "answered"]
  /\ \E rows \in Bijection(1..Cardinality(found[c]), found[c]) :
       LET s == [i \in DOMAIN rows |-> got[c][rows[i]]]
       IN  /\ \A i, j \in DOMAIN s : i < j => ~Before(s[j], s[i])
           /\ reply' = [reply EXCEPT ![c] = s]
  /\ UNCHANGED <<catalogVars, cache, quotes, asking, found, vpc, got, had, open>>

(* createManualQuote: nothing removes the warehouse between the find and   *)
(* the insert.                                                             *)
CreateManualQuote(w, dest, kg, a) ==
  /\ Exists(w) /\ a.stores /\ kg <= MaxKg
  /\ Room(1)
  /\ quotes' = Append(quotes, [of |-> w, dest |-> dest, kg |-> kg, made |-> a,
                               source |-> "MANUAL", route |-> Key(w, dest, kg)])
  /\ UNCHANGED <<catalogVars, cache, qpc, asking, found, vpc, got, reply, had, open>>

-----------------------------------------------------------------------------
(* Meanwhile                                                               *)

(* Entries expire after 24 hours, and what is stored may be damaged.       *)
CacheForgets(k) ==
  /\ cache[k].kind = "estimate"
  /\ cache' \in {[cache EXCEPT ![k] = Nothing], [cache EXCEPT ![k] = [kind |-> "damaged"]]}
  /\ UNCHANGED <<catalogVars, quotes, qpc, asking, found, vpc, got, reply, had, open>>

Edited ==
  /\ CatalogNext
  /\ had' = [c \in Clients |-> had[c] \cup {w \in Warehouses : HasAll(w)'}]
  /\ open' = [c \in Clients |-> open[c] \cup {w \in had'[c] : Active(w)'}]
  /\ UNCHANGED <<cache, quotes, qpc, asking, found, vpc, got, reply>>

Keys == {Key(w, d, kg) : w \in Warehouses, d \in Destinations, kg \in Weights}

DeliveryInit ==
  /\ CatalogInit
  /\ cache = [k \in Keys |-> Nothing]
  /\ quotes = <<>>
  /\ qpc = [c \in Clients |-> "idle"]
  /\ asking = [c \in Clients |-> Nothing]
  /\ found = [c \in Clients |-> {}]
  /\ vpc = [c \in Clients |-> [w \in Warehouses |-> "none"]]
  /\ got = [c \in Clients |-> [w \in Warehouses |-> Nothing]]
  /\ reply = [c \in Clients |-> <<>>]
  /\ had = [c \in Clients |-> {}]
  /\ open = [c \in Clients |-> {}]

VariantStep(c, w) ==
  \/ CacheGet(c, w) \/ CacheGetFails(c, w)
  \/ EstimateFails(c, w) \/ \E a \in Estimates : EstimateAnswers(c, w, a)
  \/ CacheSet(c, w) \/ CacheSetFails(c, w)
  \/ InsertQuote(c, w) \/ InsertQuoteFails(c, w)

QuoteStep(c) == QuoteReadStocks(c) \/ QuoteReadActive(c) \/ QuoteFanOut(c) \/ QuoteAnswer(c)

Quoting ==
  \/ \E c \in Clients :
       \/ \E d \in Destinations, kg \in Weights : QuoteBegin(c, d, kg)
       \/ QuoteStep(c)
       \/ \E w \in Warehouses : VariantStep(c, w)
  \/ \E k \in Keys : CacheForgets(k)

Phoned ==
  \E w \in Warehouses, d \in Destinations, kg \in Weights, a \in Estimates :
    CreateManualQuote(w, d, kg, a)

DeliveryNext == Quoting \/ Phoned \/ Edited

(* The event loop goes on with every promise that can go on.               *)
DeliveryFairness ==
  \A c \in Clients :
    /\ WF_<<catalogVars, deliveryVars>>(QuoteStep(c))
    /\ \A w \in Warehouses : WF_<<catalogVars, deliveryVars>>(VariantStep(c, w))

DeliverySpec ==
  /\ DeliveryInit
  /\ [][DeliveryNext]_<<catalogVars, deliveryVars>>
  /\ DeliveryFairness

-----------------------------------------------------------------------------
(* Properties                                                              *)

(* Every warehouse a client is offered had everything in stock at one      *)
(* moment of the request and was active then or later, though both change  *)
(* meanwhile; and no warehouse that was found is left out of an answer.    *)
OfferedHadAll ==
  \A c \in Clients :
    /\ qpc[c] # "included" => found[c] \subseteq open[c]
    /\ qpc[c] = "answered" => {reply[c][i].of : i \in DOMAIN reply[c]} = found[c]

(* "5) sort local-first, then by ETA, then by price", and those without a  *)
(* quote last.                                                             *)
SortedForClient ==
  \A c \in Clients : \A i, j \in DOMAIN reply[c] : i < j =>
    LET v == reply[c][i]
        u == reply[c][j]
    IN
    /\ u.kind = "local" => v.kind = "local"
    /\ u.kind = "quote" => v.kind # "unavailable"
    /\ v.kind = "quote" /\ u.kind = "quote" =>
         \/ v.made.max < u.made.max
         \/ (v.made.max = u.made.max /\ v.made.cost <= u.made.cost)

(* "a fresh row every call": no two variants are given one quote row; and  *)
(* its estimate was made for its own route and bucket of weight, however   *)
(* requests share and lose the cache.                                      *)
QuoteIsOwn ==
  /\ \A i \in DOMAIN quotes : quotes[i].route = Key(quotes[i].of, quotes[i].dest, quotes[i].kg)
                              /\ quotes[i].route[3] >= quotes[i].kg
  /\ \A c, b \in Clients, w, x \in Warehouses :
       got[c][w].kind = "quote" /\ got[b][x].kind = "quote" /\ got[c][w].id = got[b][x].id
         => c = b /\ w = x

(* What a client is answered holds, whatever else goes on: OfferedHadAll,  *)
(* SortedForClient and QuoteIsOwn.                                         *)
OffersHold == OfferedHadAll /\ SortedForClient /\ QuoteIsOwn

(* "A DeepSeek failure for one warehouse doesn't fail the whole request":  *)
(* with a database that answers, only a cache that cannot be reached, or   *)
(* an estimate or a weight that its row cannot hold, does.                 *)
FailsForReason ==
  [][\A c \in Clients : qpc'[c] = "failed" /\ qpc[c] # "failed" =>
       \E w \in found[c] : vpc[c][w] = "cache" \/ (vpc[c][w] = "insert" /\ ~Stores(c, w))
    ]_<<catalogVars, deliveryVars>>

(* Every quote request is answered.                                        *)
QuotesAnswered ==
  \A c \in Clients : qpc[c] # "idle" ~> qpc[c] \in {"answered", "failed"}

=============================================================================

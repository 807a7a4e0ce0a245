------------------------------ MODULE MCOffers ------------------------------
(* Small instances of Catalog, Delivery and Reports for TLC.  A behaviour  *)
(* is about one of them, and the others stay as they start.                *)
EXTENDS Delivery, Reports, TLC

CONSTANTS w1, w2, e1, c1, c2, none,                     \* Catalog, Delivery
          s1, s2, s3, p1, p2, l3, A, B, ma, na, oa, ob        \* Reports

VARIABLE part

offersVars == <<catalogVars, deliveryVars>>

-----------------------------------------------------------------------------
(* Catalog: two editors at a time, at a product and its category, at a     *)
(* warehouse and its stock, or at an option and a script; the product or   *)
(* the warehouse may still have to be created.                             *)

Topics == {Products \cup Categories, {w2}, Options \cup Scripts}

(* The rest is as at first, with w1 in stock.                              *)
Only(X) ==
  /\ \A x \in Ids \ X : row[x] = IF x \in Warehouses \cup Products THEN NewRow(none) ELSE Gone
  /\ \A s \in DOMAIN stock : s[1] \in X \/ stock[s] = 1 \/ (s[2] \in X /\ stock[s] = none)
Edited1(e) == IF edit[e].field = "stock" THEN edit[e].id[1] ELSE edit[e].id
Editing(E, X) == \A e \in Editors : edit[e] = NoEdit \/ (e \in E /\ Edited1(e) \in X)

CatalogPart ==
  /\ part = "catalog"
  /\ CatalogNext
  /\ (\E X \in Topics : Only(X) /\ Editing(Editors, X))'
  /\ UNCHANGED <<part, deliveryVars, reportVars>>

-----------------------------------------------------------------------------
(* Delivery: two quotes at a time, the second for one route; or one while  *)
(* the second warehouse and its stock change.                              *)

MCCityOf == w1 :> "X" @@ w2 :> "Y"
MCEstimates == {[cost |-> 1, min |-> 1, max |-> 2, stores |-> TRUE],
                [cost |-> 2, min |-> 1, max |-> 1, stores |-> TRUE],
                [cost |-> 1, min |-> 2, max |-> 1, stores |-> TRUE],
                [cost |-> 3, min |-> 1, max |-> 3, stores |-> FALSE]}

TwoQuotes == /\ Only({w2}) /\ Editing({}, {}) /\ row[w2].active /\ stock[<<w2, p1>>] = none
             /\ \A k \in Keys : cache[k].kind # "damaged"
             /\ \A c \in Clients : got[c][w1].kind = "estimate" => got[c][w1].made.stores
             /\ asking[c1] = Nothing \/ asking[c1].dest = "Z"
             /\ asking[c2] \in {Nothing, [dest |-> "Z", kg |-> 6]}
QuoteAndEdit == /\ Only({w2}) /\ Editing({e1}, {w2})
                /\ asking[c2] = Nothing
                /\ asking[c1] \in {Nothing, [dest |-> "X", kg |-> 5], [dest |-> "Z", kg |-> 6]}
                /\ \A k \in Keys : cache[k] # Nothing =>
                     k[2] = asking[c1].dest /\ k[3] = Bucket(asking[c1].kg)
                /\ edit[e1] # NoEdit \/ answer[e1] # 0 =>
                     /\ asking[c1] \in {Nothing, [dest |-> "Z", kg |-> 6]}
                     /\ \A w \in Warehouses : vpc[c1][w] \in {"none", "cache"}
Few == /\ \A i \in DOMAIN quotes : quotes[i].source = "AI_ESTIMATE"
       /\ \A c \in Clients : qpc[c] = "stocks" => Len(quotes) <= 1

QuotesPart ==
  /\ part = "quotes"
  /\ \/ Quoting /\ (Few /\ (TwoQuotes \/ QuoteAndEdit))'
     \/ Busy = {} /\ quotes = <<>> /\ Phoned
     \/ (\A c \in Clients : Settled(c)) /\ quotes = <<>> /\ Edited /\ QuoteAndEdit'
  /\ UNCHANGED <<part, reportVars>>

-----------------------------------------------------------------------------
(* Reports: deals alone, leads that are answered, or leads that move       *)
(* between managers while these are compared.                              *)

MCFacts ==
  s1 :> [tenant |-> A, manager |-> ma, total |-> 1, items |-> p1 :> 1 @@ p2 :> 0]
  @@ s2 :> [tenant |-> A, manager |-> oa, total |-> 2, items |-> p1 :> 1 @@ p2 :> 3]
  @@ s3 :> [tenant |-> B, manager |-> ob, total |-> 4, items |-> p1 :> 4 @@ p2 :> 0]

Young == asked # NotAsked => clock = 0 /\ asked.range = [start |-> 0, end |-> 0]
DealsMove ==
  /\ \A l \in Prospects : prospect[l] = none
  /\ asked # NotAsked => sale[s3] = none
  /\ \A d \in Sales : sale[d] # none => sale[d].status \notin {"SHIPPED", "COMPLETED", "CANCELLED"}
LeadsMove ==
  /\ \A d \in Sales : sale[d] = none
  /\ \A l \in Prospects : prospect[l] # none => prospect[l].status \in {"NEW", "WON"}
  /\ prospect[l3] # none => \A l \in Prospects : prospect[l] # none
  /\ \/ asked = NotAsked /\ \A l \in Prospects : prospect[l] # none => prospect[l].manager = none
     \/ /\ clock = 0 /\ prospect[l3] = none
        /\ \A l \in Prospects : prospect[l] # none =>
             (prospect[l].status = "NEW" <=> prospect[l].first = none)

ReportsPart == /\ part = "reports"
               /\ ReportsNext /\ (Young /\ (DealsMove \/ LeadsMove))'
               /\ UNCHANGED <<part, offersVars>>

-----------------------------------------------------------------------------

OffersInit ==
  /\ part \in {"catalog", "quotes", "reports"}
  /\ DeliveryInit /\ ReportsInit
  /\ Only({}) \/ (part # "reports" /\ Only({w2})) \/ (part = "catalog" /\ Only(Products))
  /\ part = "quotes" => Exists(w2)

OffersSpec ==
  /\ OffersInit
  /\ [][CatalogPart \/ QuotesPart \/ ReportsPart]_<<part, offersVars, reportVars>>
  /\ DeliveryFairness

=============================================================================

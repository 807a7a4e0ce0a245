------------------------------ MODULE MCDeals ------------------------------
(* Small instances of Deals for TLC. *)
EXTENDS Deals, TLC

CONSTANTS h1, h2, d1, d2, p1, p2

(* One piece of each product, or of p1 alone. *)
MCCarts == {[p \in Products |-> 1], [p \in Products |-> IF p = p1 THEN 1 ELSE 0]}

Symmetry == Permutations(Handlers) \cup Permutations(DealIds)

(* The two kinds of races of overlapping requests, told apart by the rate  *)
(* of the owner, which nobody changes.                                     *)

(* Goods: the warehouses, the leads and the rates stay as they are, there  *)
(* are no quotes, and a deal that is paid is refunded or stays (shipping   *)
(* moves no goods).                                                        *)
GoodsMove ==
  /\ rate = [u \in Users |-> 5] /\ lead = [l \in Leads |-> Unassigned]
  /\ active = [w \in Warehouses |-> TRUE]
  /\ \A h \in Handlers :
       /\ goal[h].to \notin {"SHIPPED", "COMPLETED"}
       /\ form[h] = NoDeal \/ (form[h].manager = Owner /\ form[h].quote = NoQuote)

(* References: requests create and cancel deals about p1, of which there   *)
(* are two; the rows around a deal are what changes.                       *)
RefsMove ==
  /\ rate[Owner] = 7
  /\ supply = [r \in Rows |-> 2]
  /\ \A h \in Handlers :
       /\ goal[h].to \in {"none", "CANCELLED"}
       /\ form[h] = NoDeal \/ \A r \in Rows : r[2] = p1 \/ form[h].items[r] = 0

RacesSpec ==
  /\ Init /\ (GoodsMove \/ RefsMove)
  /\ [][Next /\ (GoodsMove \/ RefsMove)']_vars

=============================================================================

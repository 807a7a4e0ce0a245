----------------------------- MODULE MCPayouts -----------------------------
(* Small instances of Payouts for TLC. *)
EXTENDS Payouts, TLC

CONSTANTS h1, h2, d1, d2, m1, m2, p1, p2

(* d1 and d2 have different commissions and, with two managers, different   *)
(* managers; the periods overlap in d2.                                     *)
MCCommission == d1 :> 1 @@ d2 :> 2
MCTwoManagers == d1 :> m1 @@ d2 :> m2
MCOneDealManager == d1 :> m1
MCOneCommission == d1 :> 2
MCOnePeriod == {{d1}}
MCPeriods == {{d1, d2}, {d2}}

(* A new salary, or a total that overrides the sum.                         *)
MCPatches ==
  {[base |-> 3, commission |-> Keep, total |-> Keep],
   [base |-> Keep, commission |-> Keep, total |-> 0]}

Symmetry == Permutations(Handlers)

(* Either requests generate and mail payouts of commissions among deals     *)
(* that are paid and refunded, or the only payout there is gets settled     *)
(* (and mailed) among paid deals.                                           *)
Claiming ==
  /\ \A h \in Handlers : pc[h] \in {"idle", "generate", "send"}
  /\ \A m \in Managers : salary[m] = 0
  /\ \A d \in DealIds : status[d] \in {"WAITING_PAYMENT", "PAID", "REFUNDED"}
  /\ \A p \in PayoutIds : written[p] = {}
  /\ \A p \in PayoutIds : Exists(p) => ~payout[p].approved
Settled ==
  /\ \A h \in Handlers : pc[h] # "generate"
  /\ ~Exists(p2)
  /\ \A d \in DealIds : status[d] = "PAID"
OverlapSpec == Init /\ [][Next /\ (Claiming \/ Settled)']_vars

(* One generate at a time, and one adjustment, approval or payment of the   *)
(* first payout at a time while nothing is generated; nothing is mailed.    *)
FirstIsSettled ==
  \A h \in Handlers : pc[h] \notin {"idle", "generate"} =>
    /\ pc[h] # "send" /\ req[h].id = p1
    /\ \A g \in Handlers : pc[g] # "generate"
MCSerialSpec == Init /\ [][Next /\ NoOverlap' /\ FirstIsSettled']_vars

=============================================================================

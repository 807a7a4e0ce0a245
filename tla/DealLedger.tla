----------------------------- MODULE DealLedger -----------------------------
(***************************************************************************)
(* What the deals of a tenant promise to whoever looks at the database     *)
(* between transactions: a deal takes all of its goods at once or is not   *)
(* created, it moves along the transition table, and entering CANCELLED or *)
(* REFUNDED gives all of its goods back at once.  There are no handlers,   *)
(* no locks and no stale reads here; Deals is shown to implement it when   *)
(* no two requests change the status of one deal at the same time.         *)
(***************************************************************************)
EXTENDS Integers, DealStatus

CONSTANTS
  DealIds,
  Rows,      \* stock rows
  Orders,    \* the item lists deals may have: row -> quantity
  Counts     \* quantities a recount may find

VARIABLES
  stock,     \* quantity of each row
  status,    \* status of each deal, "none" before it is created
  items      \* what each deal took

ledger == <<stock, status, items>>

Nothing == [r \in Rows |-> 0]

Init ==
  /\ stock \in [Rows -> Counts]
  /\ status = [d \in DealIds |-> "none"]
  /\ items = [d \in DealIds |-> Nothing]

(* All the goods of the order, or no deal.                                 *)
Open(d, order) ==
  /\ status[d] = "none"
  /\ \A r \in Rows : order[r] <= stock[r]
  /\ stock' = [r \in Rows |-> stock[r] - order[r]]
  /\ status' = [status EXCEPT ![d] = "NEW"]
  /\ items' = [items EXCEPT ![d] = order]

Move(d, to) ==
  /\ status[d] # "none"
  /\ to \in NextStatuses[status[d]]
  /\ stock' = IF to \in StockRestoring
              THEN [r \in Rows |-> stock[r] + items[d][r]]
              ELSE stock
  /\ status' = [status EXCEPT ![d] = to]
  /\ UNCHANGED items

(* The owner corrects a quantity.                                          *)
Recount(r, n) ==
  /\ stock' = [stock EXCEPT ![r] = n]
  /\ UNCHANGED <<status, items>>

Next ==
  \/ \E d \in DealIds, order \in Orders : Open(d, order)
  \/ \E d \in DealIds, to \in Statuses : Move(d, to)
  \/ \E r \in Rows, n \in Counts : Recount(r, n)

Spec == Init /\ [][Next]_ledger

=============================================================================

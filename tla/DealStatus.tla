----------------------------- MODULE DealStatus -----------------------------
(***************************************************************************)
(* The life cycle of a deal: the statuses of the Prisma enum DealStatus    *)
(* and the four tables of deals/deal-status-transitions.ts.  The deals and *)
(* the payouts services both decide on these tables.                       *)
(***************************************************************************)

Statuses == {"NEW", "WAITING_PAYMENT", "PAID", "SHIPPED",
             "COMPLETED", "CANCELLED", "REFUNDED"}

Mut_NextStatuses ==
  [s \in Statuses |->
     CASE s = "NEW"             -> {"WAITING_PAYMENT", "CANCELLED"}
       [] s = "WAITING_PAYMENT" -> {"PAID", "CANCELLED"}
       [] s = "PAID"            -> {"SHIPPED", "REFUNDED"}
       [] s = "SHIPPED"         -> {"COMPLETED", "REFUNDED"}
       [] s = "COMPLETED"       -> {"REFUNDED"}
       [] s = "CANCELLED"       -> {"REFUNDED"}
       [] OTHER                 -> {}]

(* DEAL_STATUS_TRANSITIONS: the statuses a deal may be moved to. *)
NextStatuses ==
  [s \in Statuses |->
     CASE s = "NEW"             -> {"WAITING_PAYMENT", "CANCELLED"}
       [] s = "WAITING_PAYMENT" -> {"PAID", "CANCELLED"}
       [] s = "PAID"            -> {"SHIPPED", "REFUNDED"}
       [] s = "SHIPPED"         -> {"COMPLETED", "REFUNDED"}
       [] s = "COMPLETED"       -> {"REFUNDED"}
       [] OTHER                 -> {}]

(* STOCK_RESTORING_STATUSES: entering one gives the goods back. *)
StockRestoring == {"CANCELLED", "REFUNDED"}

(* TERMINAL_DEAL_STATUSES: entering one stamps closedAt. *)
Terminal == {"COMPLETED", "CANCELLED", "REFUNDED"}

(* COMMISSIONABLE_DEAL_STATUSES: a payout may claim the deal. *)
Commissionable == {"PAID", "SHIPPED", "COMPLETED"}

=============================================================================

---------------------------- MODULE DealsProofs ----------------------------
(* Proofs about Deals, for every value of its constants. *)
EXTENDS Deals, Sums, TLAPS

-----------------------------------------------------------------------------
(* Lemmas about the data                                                   *)

(* The "none" row is told apart from every Deal row by its status.         *)
LEMMA NoDealIsNoRow == NoDeal \notin DealRow
<1>1. "none" \notin Statuses
  BY DEF Statuses
<1>2. \A x \in DealRow : x.status \in Statuses
  BY DEF DealRow
<1>. QED
  BY <1>1, <1>2 DEF NoDeal

LEMMA NoGoalIsNoRequest == NoGoal \notin Goal
<1>1. "none" \notin Statuses
  BY DEF Statuses
<1>2. \A x \in Goal : x.to \in Statuses
  BY DEF Goal
<1>. QED
  BY <1>1, <1>2 DEF NoGoal

(* A cart of one warehouse is a quantity for every stock row.              *)
LEMMA ItemsOfType ==
  ASSUME NEW w \in Warehouses, NEW cart \in Carts
  PROVE  ItemsOf(w, cart) \in [Rows -> Nat]
BY CartsAssumption DEF ItemsOf, Rows

LEMMA NextStatusesType == \A s \in Statuses : NextStatuses[s] \subseteq Statuses
BY DEF NextStatuses, Statuses

-----------------------------------------------------------------------------
(* Type correctness                                                        *)

(* The initial state has values of the right kinds.                        *)
LEMMA InitTypeOK == Init => TypeOK
<1>. SUFFICES ASSUME Init PROVE TypeOK
  OBVIOUS
<1>1. stock \in [Rows -> Int] /\ draft \in [Rows -> Int]
  <2>1. stock \in [Rows -> Counts] /\ draft = stock
    BY DEF Init
  <2>2. Counts \subseteq Int
    BY CountsAssumption
  <2>3. stock \in [Rows -> Int]
    BY <2>1, <2>2
  <2>. QED
    BY <2>1, <2>3
<1>2. lead \in [Leads -> Managers \cup {Unassigned, Deleted}]
  BY DEF Init
<1>3. paidRates \in [Users -> SUBSET Rates]
  BY DEF Init
<1>4. \A h \in Handlers : /\ pc[h] = "idle" <=> form[h] = NoDeal
                          /\ pc[h] = "change" <=> goal[h] # NoGoal
                          /\ pc[h] = "change" => Exists(goal[h].id)
  BY DEF Init
<1>5. /\ active \in [Warehouses -> BOOLEAN]
      /\ pc \in [Handlers -> {"idle", "change"} \cup InCreate]
      /\ form \in [Handlers -> DealRow \cup {NoDeal}]
      /\ goal \in [Handlers -> Goal \cup {NoGoal}]
      /\ deal \in [DealIds -> DealRow \cup {NoDeal}]
      /\ lock \in [Rows -> Handlers \cup {Free}]
      /\ restored \in [DealIds -> Nat]
  BY DEF Init
<1>. QED
  BY <1>1, <1>2, <1>3, <1>4, <1>5 DEF Init, TypeOK

(* Ending a request keeps the handlers' variables in their types.          *)
LEMMA FinishType ==
  ASSUME TypeOK, NEW h \in Handlers, Finish(h)
  PROVE  /\ pc' \in [Handlers -> {"idle", "change"} \cup InCreate]
         /\ form' \in [Handlers -> DealRow \cup {NoDeal}]
         /\ goal' \in [Handlers -> Goal \cup {NoGoal}]
         /\ \A g \in Handlers : /\ pc'[g] = "idle" <=> form'[g] = NoDeal
                                /\ pc'[g] = "change" <=> goal'[g] # NoGoal
                                /\ pc'[g] = "change" => pc[g] = "change" /\ goal'[g] = goal[g]
BY DEF TypeOK, Finish, InCreate

LEMMA CommitType ==
  ASSUME TypeOK, NEW h \in Handlers, Commit(h)
  PROVE  stock' \in [Rows -> Int] /\ draft' \in [Rows -> Int]
         /\ lock' \in [Rows -> Handlers \cup {Free}]
BY DEF TypeOK, Commit, Unlock

LEMMA RollbackType ==
  ASSUME TypeOK, NEW h \in Handlers, Rollback(h)
  PROVE  TypeOK'
<1>1. Finish(h)
  BY DEF Rollback
<1>2. /\ draft' \in [Rows -> Int]
      /\ lock' \in [Rows -> Handlers \cup {Free}]
  BY DEF TypeOK, Rollback, Unlock
<1>. QED
  BY <1>1, <1>2, FinishType DEF TypeOK, Rollback, hist, Exists

(* What deal.update writes: status and closedAt of the requested deal.      *)
LEMMA WriteStatusEffect ==
  ASSUME TypeOK, NEW h \in Handlers, WriteStatus(h)
  PROVE  LET d == goal[h].id IN
         /\ d \in DealIds /\ goal[h].to \in Statuses /\ Exists(d)
         /\ deal[d] \in DealRow /\ deal'[d] \in DealRow
         /\ deal' \in [DealIds -> DealRow \cup {NoDeal}]
         /\ \A c \in DealIds \ {d} : deal'[c] = deal[c]
         /\ deal'[d] = [deal[d] EXCEPT !.status = goal[h].to,
                                      !.closed = @ \/ goal[h].to \in Terminal]
<1>. DEFINE d == goal[h].id
            row == [deal[d] EXCEPT !.status = goal[h].to,
                                   !.closed = @ \/ goal[h].to \in Terminal]
<1>1. d \in DealIds /\ goal[h].to \in Statuses /\ Exists(d)
  BY DEF WriteStatus, TypeOK, Goal
<1>2. deal[d] \in DealRow
  BY <1>1 DEF TypeOK, Exists
<1>3. row \in DealRow
  BY <1>1, <1>2 DEF DealRow
<1>4. deal' = [deal EXCEPT ![d] = row]
  BY <1>1, <1>2 DEF WriteStatus, TypeOK, DealRow
<1>. QED
  BY <1>1, <1>2, <1>3, <1>4 DEF TypeOK

(* Every step keeps the types: one step of the proof per action.           *)
LEMMA NextTypeOK == TypeOK /\ [Next]_vars => TypeOK'
<1>. SUFFICES ASSUME TypeOK, [Next]_vars PROVE TypeOK'
  OBVIOUS
<1>1. ASSUME NEW h \in Handlers, NEW actor \in Users, NEW l \in Leads,
             NEW w \in Warehouses, NEW cart \in Carts,
             NEW q \in Quotes \cup {NoQuote}, CreateBegin(h, actor, l, w, cart, q)
      PROVE  TypeOK'
  <2>1. form'[h] \in DealRow
    BY <1>1, ItemsOfType DEF CreateBegin, TypeOK, DealRow, Statuses, Users
  <2>2. form'[h] # NoDeal
    BY <2>1, NoDealIsNoRow
  <2>3. form' \in [Handlers -> DealRow \cup {NoDeal}]
        /\ \A g \in Handlers : g # h => form'[g] = form[g]
    BY <1>1, <2>1 DEF CreateBegin, TypeOK
  <2>4. pc' = [pc EXCEPT ![h] = "warehouse"]
    BY <1>1 DEF CreateBegin, Goto
  <2>5. \A g \in Handlers : /\ pc'[g] = "idle" <=> form'[g] = NoDeal
                            /\ pc'[g] = "change" <=> goal'[g] # NoGoal
    BY <1>1, <2>2, <2>3, <2>4 DEF CreateBegin, TypeOK
  <2>. QED
    BY <1>1, <2>3, <2>4, <2>5 DEF CreateBegin, TypeOK, Exists, db, hist, InCreate
<1>2. ASSUME NEW h \in Handlers, CreateReadWarehouse(h)
      PROVE  TypeOK'
  <2>1. CASE active[form[h].warehouse]
    BY <1>2, <2>1 DEF CreateReadWarehouse, Goto, TypeOK, Exists, db, hist, InCreate
  <2>2. CASE ~active[form[h].warehouse]
    BY <1>2, <2>2, FinishType DEF CreateReadWarehouse, TypeOK, Exists, db, hist
  <2>. QED
    BY <2>1, <2>2
<1>3. ASSUME NEW h \in Handlers, CreateReadManager(h)
      PROVE  TypeOK'
  <2>1. form[h] \in DealRow
    BY <1>3 DEF CreateReadManager, TypeOK
  <2>2. [form[h] EXCEPT !.rate = rate[form[h].manager]] \in DealRow
    BY <2>1 DEF DealRow, TypeOK
  <2>3. [form[h] EXCEPT !.rate = rate[form[h].manager]] # NoDeal
    BY <2>2, NoDealIsNoRow
  <2>. QED
    BY <1>3, <2>2, <2>3 DEF CreateReadManager, Goto, TypeOK, Exists, db, hist, InCreate
<1>4. ASSUME NEW h \in Handlers, CreateReadDelivery(h)
      PROVE  TypeOK'
  <2>1. CASE QuoteLinked(form[h].quote)
    BY <1>4, <2>1, FinishType DEF CreateReadDelivery, TypeOK, Exists, db, hist
  <2>2. CASE ~QuoteLinked(form[h].quote)
    BY <1>4, <2>2 DEF CreateReadDelivery, Goto, TypeOK, Exists, db, hist, InCreate
  <2>. QED
    BY <2>1, <2>2
<1>5. ASSUME NEW h \in Handlers, CreateRejected(h)
      PROVE  TypeOK'
  BY <1>5, FinishType DEF CreateRejected, TypeOK, Exists, db, hist
<1>6. ASSUME NEW h \in Handlers, NEW r \in Rows, ReserveItem(h, r)
      PROVE  TypeOK'
  <2>1. form[h] \in DealRow
    BY <1>6 DEF ReserveItem, TypeOK
  <2>2. stock[r] - form[h].items[r] \in Int
    BY <2>1 DEF DealRow, TypeOK
  <2>. QED
    BY <1>6, <2>2 DEF ReserveItem, TypeOK, Exists, hist
<1>7. ASSUME NEW h \in Handlers, NEW r \in Rows, ReserveShort(h, r)
      PROVE  TypeOK'
  BY <1>7, RollbackType DEF ReserveShort
<1>8. ASSUME NEW h \in Handlers, NEW d \in DealIds, InsertDeal(h, d)
      PROVE  TypeOK'
  <2>1. form[h] \in DealRow
    BY <1>8 DEF InsertDeal, TypeOK
  <2>2. deal' \in [DealIds -> DealRow \cup {NoDeal}]
    BY <1>8, <2>1 DEF InsertDeal, TypeOK
  <2>3. Commit(h) /\ Finish(h)
    BY <1>8 DEF InsertDeal, Commit
  <2>. QED
    BY <1>8, <2>2, <2>3, CommitType, FinishType DEF InsertDeal, TypeOK, Exists, hist
<1>9. ASSUME NEW h \in Handlers, InsertFails(h)
      PROVE  TypeOK'
  BY <1>9, RollbackType DEF InsertFails
<1>10. ASSUME NEW h \in Handlers, NEW actor \in Users, NEW d \in DealIds,
              NEW to \in Statuses, StatusBegin(h, actor, d, to)
       PROVE  TypeOK'
  <2>1. deal[d] \in DealRow /\ deal[d] # NoDeal
    BY <1>10 DEF StatusBegin, Exists, TypeOK
  <2>2. [id |-> d, to |-> to] \in Goal
    BY DEF Goal
  <2>3. [id |-> d, to |-> to] # NoGoal
    BY <2>2, NoGoalIsNoRequest
  <2>. QED
    BY <1>10, <2>1, <2>2, <2>3
    DEF StatusBegin, Goto, TypeOK, Exists, db, hist, InCreate
<1>11. ASSUME NEW h \in Handlers, NEW r \in Rows, RestoreItem(h, r)
       PROVE  TypeOK'
  <2>1. form[h] \in DealRow
    BY <1>11 DEF RestoreItem, TypeOK
  <2>2. stock[r] + form[h].items[r] \in Int
    BY <2>1 DEF DealRow, TypeOK
  <2>. QED
    BY <1>11, <2>2 DEF RestoreItem, TypeOK, Exists, hist
<1>12. ASSUME NEW h \in Handlers, WriteStatus(h)
       PROVE  TypeOK'
  <2>. DEFINE d == goal[h].id
  <2>2. /\ d \in DealIds
        /\ deal' \in [DealIds -> DealRow \cup {NoDeal}]
        /\ \A c \in DealIds : deal[c] # NoDeal => deal'[c] # NoDeal
    BY <1>12, WriteStatusEffect, NoDealIsNoRow
  <2>4. restored' \in [DealIds -> Nat]
    BY <1>12, <2>2 DEF WriteStatus, TypeOK
  <2>5. Commit(h) /\ Finish(h)
    BY <1>12 DEF WriteStatus, Commit
  <2>6. \A g \in Handlers : pc'[g] = "change" => deal'[goal'[g].id] # NoDeal
    <3>. SUFFICES ASSUME NEW g \in Handlers, pc'[g] = "change"
                  PROVE  deal'[goal'[g].id] # NoDeal
      OBVIOUS
    <3>1. pc[g] = "change" /\ goal'[g] = goal[g]
      BY <2>5, FinishType
    <3>2. goal[g].id \in DealIds /\ deal[goal[g].id] # NoDeal
      BY <3>1 DEF TypeOK, Exists, Goal
    <3>. QED
      BY <2>2, <3>1, <3>2
  <2>. QED
    BY <1>12, <2>2, <2>4, <2>5, <2>6, CommitType, FinishType
    DEF WriteStatus, TypeOK, Exists
<1>13. ASSUME NEW h \in Handlers, Abort(h)
       PROVE  TypeOK'
  BY <1>13, RollbackType DEF Abort
<1>14. ASSUME Others
       PROVE  TypeOK'
  <2>1. ASSUME NEW r \in Rows, NEW n \in Counts, SetQuantity(r, n)
        PROVE  TypeOK'
    BY <2>1, CountsAssumption DEF SetQuantity, TypeOK, Exists
  <2>2. ASSUME NEW w \in Warehouses, NEW b \in BOOLEAN, SetActive(w, b)
        PROVE  TypeOK'
    BY <2>2 DEF SetActive, TypeOK, Exists, hist
  <2>3. ASSUME NEW l \in Leads, NEW m \in Managers, AssignLead(l, m)
        PROVE  TypeOK'
    BY <2>3 DEF AssignLead, TypeOK, Exists, hist
  <2>4. ASSUME NEW l \in Leads, RemoveLead(l)
        PROVE  TypeOK'
    BY <2>4 DEF RemoveLead, TypeOK, Exists, hist
  <2>5. ASSUME NEW m \in Managers, NEW x \in Rates, SetRate(m, x)
        PROVE  TypeOK'
    BY <2>5 DEF SetRate, TypeOK, Exists, Users
  <2>. QED
    BY <1>14, <2>1, <2>2, <2>3, <2>4, <2>5 DEF Others
<1>15. CASE UNCHANGED vars
  BY <1>15 DEF vars, TypeOK, Exists
<1>. QED
  BY <1>1, <1>2, <1>3, <1>4, <1>5, <1>6, <1>7, <1>8, <1>9, <1>10, <1>11,
     <1>12, <1>13, <1>14, <1>15 DEF Next, Arrive, Handle

(* The variables always hold values of their kinds.                        *)
THEOREM TypeCorrect == Spec => []TypeOK
BY InitTypeOK, NextTypeOK, PTL DEF Spec

-----------------------------------------------------------------------------
(* The deal rows: which steps write them                                   *)

LEMMA DealSteps ==
  ASSUME [Next]_vars
  PROVE  \/ deal' = deal
         \/ \E h \in Handlers, d \in DealIds : InsertDeal(h, d)
         \/ \E h \in Handlers : WriteStatus(h)
<1>1. ASSUME NEW h \in Handlers, Arrive(h) \/ CreateRejected(h) \/ Abort(h)
      PROVE  deal' = deal
  BY <1>1 DEF Arrive, CreateBegin, StatusBegin, CreateRejected, Abort, Rollback, db
<1>2. ASSUME NEW h \in Handlers, Handle(h)
      PROVE  \/ deal' = deal
             \/ \E d \in DealIds : InsertDeal(h, d)
             \/ WriteStatus(h)
  BY <1>2 DEF Handle, CreateReadWarehouse, CreateReadManager,
     CreateReadDelivery, ReserveItem, ReserveShort, InsertFails, RestoreItem,
     Rollback, db
<1>3. ASSUME Others
      PROVE  deal' = deal
  BY <1>3 DEF Others, SetQuantity, SetActive, AssignLead, RemoveLead, SetRate
<1>4. CASE UNCHANGED vars
  BY <1>4 DEF vars
<1>. QED
  BY <1>1, <1>2, <1>3, <1>4 DEF Next

(* The one step that creates a deal takes it from the request.             *)
LEMMA InsertEffect ==
  ASSUME TypeOK, NEW h \in Handlers, NEW d \in DealIds, InsertDeal(h, d)
  PROVE  /\ ~Exists(d) /\ form[h] \in DealRow
         /\ deal'[d] = form[h] /\ deal'[d] # NoDeal
         /\ \A c \in DealIds \ {d} : deal'[c] = deal[c]
         /\ lead[form[h].lead] # Deleted /\ ~QuoteLinked(form[h].quote)
         /\ lead' = lead /\ rate' = rate /\ paidRates' = paidRates
<1>1. form[h] \in DealRow /\ form[h] # NoDeal
  BY DEF InsertDeal, TypeOK
<1>. QED
  BY <1>1 DEF InsertDeal, InsertRefused, TypeOK, hist

-----------------------------------------------------------------------------
(* Immutability                                                            *)

(* Once created, a deal keeps everything but its status and closedAt, so   *)
(* that its commission is never recomputed.                                *)
LEMMA SnapshotStep ==
  ASSUME TypeOK, [Next]_vars
  PROVE  \A d \in DealIds : Exists(d) => Exists(d)' /\ Snapshot(d)' = Snapshot(d)
<1>1. CASE deal' = deal
  BY <1>1 DEF Exists, Snapshot
<1>2. ASSUME NEW h \in Handlers, NEW d \in DealIds, InsertDeal(h, d)
      PROVE  \A c \in DealIds : Exists(c) => Exists(c)' /\ Snapshot(c)' = Snapshot(c)
  BY <1>2, InsertEffect DEF Exists, Snapshot
<1>3. ASSUME NEW h \in Handlers, WriteStatus(h)
      PROVE  \A c \in DealIds : Exists(c) => Exists(c)' /\ Snapshot(c)' = Snapshot(c)
  <2>. DEFINE d == goal[h].id
  <2>1. /\ deal[d] \in DealRow /\ deal'[d] # NoDeal
        /\ \A c \in DealIds \ {d} : deal'[c] = deal[c]
        /\ deal'[d] = [deal[d] EXCEPT !.status = goal[h].to,
                                     !.closed = @ \/ goal[h].to \in Terminal]
    BY <1>3, WriteStatusEffect, NoDealIsNoRow
  <2>2. [deal'[d] EXCEPT !.status = "NEW", !.closed = FALSE]
          = [deal[d] EXCEPT !.status = "NEW", !.closed = FALSE]
    BY <2>1 DEF DealRow
  <2>. QED
    BY <2>1, <2>2 DEF Exists, Snapshot
<1>. QED
  BY <1>1, <1>2, <1>3, DealSteps

THEOREM SnapshotNeverChanges == Spec => SnapshotFixed
BY TypeCorrect, SnapshotStep, PTL DEF Spec, SnapshotFixed

-----------------------------------------------------------------------------
(* References of a deal                                                    *)

LEMMA QuoteLinkedStep ==
  ASSUME TypeOK, QuoteLinkedOnce, [Next]_vars PROVE QuoteLinkedOnce'
<1>1. CASE deal' = deal
  BY <1>1 DEF QuoteLinkedOnce, Exists
<1>2. ASSUME NEW h \in Handlers, NEW d \in DealIds, InsertDeal(h, d)
      PROVE  QuoteLinkedOnce'
  <2>1. \A c \in DealIds : Exists(c) /\ deal[c].quote = form[h].quote
                            => form[h].quote = NoQuote
    BY <1>2, InsertEffect DEF QuoteLinked
  <2>. QED
    BY <1>2, <2>1, InsertEffect DEF QuoteLinkedOnce, Exists
<1>3. ASSUME NEW h \in Handlers, WriteStatus(h)
      PROVE  QuoteLinkedOnce'
  <2>1. \A d \in DealIds : Exists(d)' => Exists(d) /\ deal'[d].quote = deal[d].quote
    BY <1>3, WriteStatusEffect DEF Exists, DealRow
  <2>. QED
    BY <2>1 DEF QuoteLinkedOnce, Exists
<1>. QED
  BY <1>1, <1>2, <1>3, DealSteps

(* A delivery quote prices at most one deal.                               *)
THEOREM QuoteUnique == Spec => []QuoteLinkedOnce
<1>1. Init => QuoteLinkedOnce
  BY DEF Init, QuoteLinkedOnce, Exists
<1>. QED
  BY <1>1, QuoteLinkedStep, TypeCorrect, PTL DEF Spec

LEMMA LeadSteps ==
  ASSUME [Next]_vars
  PROVE  \/ lead' = lead
         \/ deal' = deal /\ \E l \in Leads, m \in Managers : AssignLead(l, m)
         \/ deal' = deal /\ \E l \in Leads : RemoveLead(l)
<1>1. ASSUME NEW h \in Handlers,
             Arrive(h) \/ Handle(h) \/ CreateRejected(h) \/ Abort(h)
      PROVE  lead' = lead
  BY <1>1 DEF Arrive, Handle, CreateBegin, StatusBegin, CreateReadWarehouse,
     CreateReadManager, CreateReadDelivery, CreateRejected, ReserveItem,
     ReserveShort, InsertDeal, InsertFails, RestoreItem, WriteStatus, Abort,
     Rollback, db
<1>2. CASE Others
  BY <1>2 DEF Others, SetQuantity, SetActive, AssignLead, RemoveLead, SetRate
<1>3. CASE UNCHANGED vars
  BY <1>3 DEF vars
<1>. QED
  BY <1>1, <1>2, <1>3 DEF Next

LEMMA LeadKeptStep ==
  ASSUME TypeOK, LeadKept, [Next]_vars PROVE LeadKept'
<1>1. CASE lead' = lead
  <2>1. CASE deal' = deal
    BY <1>1, <2>1 DEF LeadKept, Exists
  <2>2. ASSUME NEW h \in Handlers, NEW d \in DealIds, InsertDeal(h, d)
        PROVE  LeadKept'
    BY <2>2, InsertEffect DEF LeadKept, Exists
  <2>3. ASSUME NEW h \in Handlers, WriteStatus(h)
        PROVE  LeadKept'
    <3>1. \A d \in DealIds : Exists(d)' => Exists(d) /\ deal'[d].lead = deal[d].lead
      BY <2>3, WriteStatusEffect, ZenonT(40) DEF Exists, DealRow
    <3>. QED
      BY <1>1, <3>1 DEF LeadKept, Exists
  <2>. QED
    BY <2>1, <2>2, <2>3, DealSteps
<1>2. ASSUME deal' = deal, NEW l \in Leads, NEW m \in Managers, AssignLead(l, m)
      PROVE  LeadKept'
  <2>1. m # Deleted
    BY NamesAssumption
  <2>2. \A k \in Leads : lead[k] # Deleted => lead'[k] # Deleted
    BY <1>2, <2>1 DEF AssignLead, TypeOK
  <2>3. \A d \in DealIds : Exists(d) => deal[d].lead \in Leads
    BY DEF TypeOK, Exists, DealRow
  <2>. QED
    BY <1>2, <2>2, <2>3 DEF LeadKept, Exists
<1>3. ASSUME deal' = deal, NEW l \in Leads, RemoveLead(l)
      PROVE  LeadKept'
  <2>1. \A k \in Leads : k # l => lead'[k] = lead[k]
    BY <1>3 DEF RemoveLead, TypeOK
  <2>2. \A d \in DealIds : Exists(d) => deal[d].lead \in Leads \ {l}
    BY <1>3 DEF RemoveLead, TypeOK, Exists, DealRow
  <2>. QED
    BY <1>3, <2>1, <2>2 DEF LeadKept, Exists
<1>. QED
  BY <1>1, <1>2, <1>3, LeadSteps

(* The lead of a deal is never deleted.                                    *)
THEOREM LeadNeverLost == Spec => []LeadKept
<1>1. Init => LeadKept
  BY DEF Init, LeadKept, Exists
<1>. QED
  BY <1>1, LeadKeptStep, TypeCorrect, PTL DEF Spec

-----------------------------------------------------------------------------
(* Stock                                                                   *)

(* A row is written by the transaction that holds it or by a recount; in   *)
(* each case the quantity written cannot be negative.                      *)
LEMMA StockStep ==
  ASSUME TypeOK, StockNonNegative, [Next]_vars PROVE StockNonNegative'
<1>1. ASSUME NEW h \in Handlers, NEW r \in Rows, ReserveItem(h, r)
      PROVE  StockNonNegative'
  <2>1. form[h].items[r] \in Nat
    BY <1>1 DEF ReserveItem, TypeOK, DealRow
  <2>. QED
    BY <1>1, <2>1 DEF ReserveItem, StockNonNegative, TypeOK
<1>2. ASSUME NEW h \in Handlers, NEW r \in Rows, RestoreItem(h, r)
      PROVE  StockNonNegative'
  <2>1. form[h].items[r] \in Nat
    BY <1>2 DEF RestoreItem, TypeOK, DealRow
  <2>. QED
    BY <1>2, <2>1 DEF RestoreItem, StockNonNegative, TypeOK
<1>3. ASSUME NEW h \in Handlers, Commit(h) PROVE StockNonNegative'
  BY <1>3 DEF Commit, StockNonNegative
<1>4. ASSUME NEW h \in Handlers, Rollback(h) PROVE StockNonNegative'
  BY <1>4 DEF Rollback, StockNonNegative
<1>5. ASSUME NEW r \in Rows, NEW n \in Counts, SetQuantity(r, n)
      PROVE  StockNonNegative'
  BY <1>5, CountsAssumption DEF SetQuantity, StockNonNegative, TypeOK
<1>6. CASE stock' = stock /\ draft' = draft
  BY <1>6 DEF StockNonNegative
<1>7. ASSUME NEW h \in Handlers,
             Arrive(h) \/ Handle(h) \/ CreateRejected(h) \/ Abort(h)
      PROVE  StockNonNegative'
  BY <1>1, <1>2, <1>3, <1>4, <1>6, <1>7
  DEF Arrive, Handle, CreateBegin, StatusBegin, CreateReadWarehouse,
      CreateReadManager, CreateReadDelivery, CreateRejected, ReserveShort,
      InsertDeal, InsertFails, WriteStatus, Abort, db
<1>8. CASE Others
  BY <1>5, <1>6, <1>8 DEF Others, SetActive, AssignLead, RemoveLead, SetRate
<1>9. CASE UNCHANGED vars
  BY <1>6, <1>9 DEF vars
<1>. QED
  BY <1>7, <1>8, <1>9 DEF Next

(* Nothing is sold that is not in stock, for any number of concurrent      *)
(* requests, stock rows and quantities.                                    *)
THEOREM NeverOversold == Spec => []StockNonNegative
<1>1. ASSUME Init PROVE StockNonNegative
  <2>1. stock \in [Rows -> Counts] /\ draft = stock
    BY <1>1 DEF Init
  <2>2. \A n \in Counts : n >= 0
    BY CountsAssumption
  <2>. QED
    BY <2>1, <2>2 DEF StockNonNegative
<1>. QED
  BY <1>1, StockStep, TypeCorrect, PTL DEF Spec

-----------------------------------------------------------------------------
(* Commission rates                                                        *)

(* The strengthening: the rate in force and the rate a request has read    *)
(* are rates of the right user, and past rates are never forgotten.        *)
RateInv ==
  /\ RateOfOwnManager
  /\ \A u \in Users : rate[u] \in paidRates[u]
  /\ \A h \in Handlers : pc[h] \in {"delivery", "reserve"} =>
       form[h].rate \in paidRates[form[h].manager]

LEMMA RateStep ==
  ASSUME TypeOK, RateInv, [Next]_vars PROVE RateInv'
<1>1. ASSUME NEW m \in Managers, NEW x \in Rates, SetRate(m, x)
      PROVE  RateInv'
  <2>1. \A u \in Users : paidRates[u] \subseteq paidRates'[u]
    BY <1>1 DEF SetRate, TypeOK
  <2>2. \A u \in Users : rate'[u] \in paidRates'[u]
    BY <1>1 DEF SetRate, TypeOK, RateInv, Users
  <2>3. \A h \in Handlers : pc[h] # "idle" => form[h].manager \in Users
    BY DEF TypeOK, DealRow
  <2>4. \A d \in DealIds : Exists(d) => deal[d].manager \in Users
    BY DEF TypeOK, DealRow, Exists
  <2>. QED
    BY <1>1, <2>1, <2>2, <2>3, <2>4 DEF SetRate, RateInv, RateOfOwnManager, Exists
<1>2. ASSUME NEW h \in Handlers, CreateReadManager(h)
      PROVE  RateInv'
  <2>1. form[h] \in DealRow /\ form[h].manager \in Users
    BY <1>2 DEF CreateReadManager, TypeOK, DealRow
  <2>2. form'[h].rate = rate[form[h].manager] /\ form'[h].manager = form[h].manager
    BY <1>2, <2>1 DEF CreateReadManager, TypeOK, DealRow
  <2>3. \A g \in Handlers \ {h} : pc'[g] = pc[g] /\ form'[g] = form[g]
    BY <1>2 DEF CreateReadManager, Goto, TypeOK
  <2>. QED
    BY <1>2, <2>1, <2>2, <2>3
    DEF CreateReadManager, RateInv, RateOfOwnManager, Exists, db, hist
<1>3. ASSUME NEW h \in Handlers, NEW d \in DealIds, InsertDeal(h, d)
      PROVE  RateInv'
  <2>1. Finish(h) /\ pc[h] = "reserve"
    BY <1>3 DEF InsertDeal, Commit
  <2>2. \A g \in Handlers : pc'[g] # "idle" => pc'[g] = pc[g] /\ form'[g] = form[g]
    BY <2>1 DEF Finish, TypeOK
  <2>. QED
    BY <1>3, <2>1, <2>2, InsertEffect DEF RateInv, RateOfOwnManager, Exists
<1>4. ASSUME NEW h \in Handlers, WriteStatus(h)
      PROVE  RateInv'
  <2>1. Finish(h)
    BY <1>4 DEF WriteStatus, Commit
  <2>2. \A g \in Handlers : pc'[g] # "idle" => pc'[g] = pc[g] /\ form'[g] = form[g]
    BY <2>1 DEF Finish, TypeOK
  <2>3. \A d \in DealIds : Exists(d)' => /\ Exists(d)
                                        /\ deal'[d].rate = deal[d].rate
                                        /\ deal'[d].manager = deal[d].manager
    <3>. DEFINE e == goal[h].id
    <3>1. /\ Exists(e) /\ deal[e] \in DealRow
          /\ \A c \in DealIds \ {e} : deal'[c] = deal[c]
          /\ deal'[e] = [deal[e] EXCEPT !.status = goal[h].to,
                                       !.closed = @ \/ goal[h].to \in Terminal]
      BY <1>4, WriteStatusEffect
    <3>2. deal'[e].rate = deal[e].rate /\ deal'[e].manager = deal[e].manager
      BY <3>1 DEF DealRow
    <3>. QED
      BY <3>1, <3>2 DEF Exists
  <2>. QED
    BY <1>4, <2>2, <2>3 DEF WriteStatus, RateInv, RateOfOwnManager
<1>5. ASSUME deal' = deal, rate' = rate, paidRates' = paidRates,
             \A g \in Handlers : pc'[g] \in {"delivery", "reserve"} =>
               /\ pc[g] \in {"delivery", "reserve"}
               /\ form'[g] = form[g]
      PROVE  RateInv'
  BY <1>5 DEF RateInv, RateOfOwnManager, Exists
<1>6. ASSUME NEW h \in Handlers, Finish(h)
      PROVE  \A g \in Handlers : pc'[g] # "idle" => pc'[g] = pc[g] /\ form'[g] = form[g]
  BY <1>6 DEF Finish, TypeOK
<1>7. ASSUME NEW h \in Handlers, Rollback(h) PROVE RateInv'
  BY <1>5, <1>6, <1>7 DEF Rollback, hist
<1>8. ASSUME NEW h \in Handlers, Arrive(h) PROVE RateInv'
  BY <1>5, <1>8 DEF Arrive, CreateBegin, StatusBegin, Goto, TypeOK, db, hist
<1>9. ASSUME NEW h \in Handlers, CreateReadWarehouse(h) PROVE RateInv'
  BY <1>5, <1>6, <1>9 DEF CreateReadWarehouse, Goto, TypeOK, db, hist
<1>10. ASSUME NEW h \in Handlers, CreateReadDelivery(h) PROVE RateInv'
  BY <1>5, <1>6, <1>10 DEF CreateReadDelivery, Goto, TypeOK, db, hist
<1>11. ASSUME NEW h \in Handlers, CreateRejected(h) PROVE RateInv'
  BY <1>5, <1>6, <1>11 DEF CreateRejected, db, hist
<1>12. ASSUME NEW h \in Handlers, NEW r \in Rows,
              ReserveItem(h, r) \/ RestoreItem(h, r)
       PROVE  RateInv'
  BY <1>5, <1>12 DEF ReserveItem, RestoreItem, hist
<1>13. ASSUME NEW h \in Handlers, Handle(h) \/ CreateRejected(h) \/ Abort(h)
       PROVE  RateInv'
  BY <1>2, <1>3, <1>4, <1>7, <1>9, <1>10, <1>11, <1>12, <1>13
  DEF Handle, ReserveShort, InsertFails, Abort
<1>14. CASE Others
  BY <1>1, <1>5, <1>14 DEF Others, SetQuantity, SetActive, AssignLead, RemoveLead, hist
<1>15. CASE UNCHANGED vars
  BY <1>5, <1>15 DEF vars
<1>. QED
  BY <1>8, <1>13, <1>14, <1>15 DEF Next

(* A deal's commission rate is one its own manager has had.                *)
THEOREM RateIsOwn == Spec => []RateOfOwnManager
<1>1. Init => RateInv
  BY DEF Init, RateInv, RateOfOwnManager, Exists
<1>2. RateInv => RateOfOwnManager
  BY DEF RateInv
<1>. QED
  BY <1>1, <1>2, RateStep, TypeCorrect, PTL DEF Spec

-----------------------------------------------------------------------------
(* Row locks                                                               *)

(* What a commit or a rollback does to the rows.                           *)
LEMMA EndOfTransaction ==
  ASSUME TypeOK, LockDiscipline, NEW h \in Handlers,
         Commit(h) \/ Rollback(h)
  PROVE  LockDiscipline'
<1>1. lock' = [r \in Rows |-> IF lock[r] = h THEN Free ELSE lock[r]]
  BY DEF Commit, Rollback, Unlock
<1>2. Finish(h)
  BY DEF Commit, Rollback
<1>3. \A g \in Handlers \ {h} : pc'[g] = pc[g] /\ form'[g] = form[g] /\ goal'[g] = goal[g]
  BY <1>2 DEF Finish, TypeOK
<1>4. \A r \in Rows : lock[r] = h => lock'[r] = Free /\ draft'[r] = stock'[r]
  BY <1>1 DEF Commit, Rollback, TypeOK
<1>5. \A r \in Rows : lock[r] # h => /\ lock'[r] = lock[r]
                                     /\ draft'[r] = draft[r]
                                     /\ stock'[r] = stock[r]
  BY <1>1 DEF Commit, Rollback, TypeOK
<1>6. \A r \in Rows : lock[r] \in Handlers \cup {Free}
  BY DEF TypeOK
<1>. QED
  BY <1>3, <1>4, <1>5, <1>6 DEF LockDiscipline

(* A step of h that writes no row leaves the discipline alone if h holds   *)
(* no lock.                                                                *)
LEMMA OutsideTransaction ==
  ASSUME TypeOK, LockDiscipline, NEW h \in Handlers, pc[h] \notin InTx,
         stock' = stock, draft' = draft, lock' = lock,
         \A g \in Handlers \ {h} : pc'[g] = pc[g] /\ form'[g] = form[g] /\ goal'[g] = goal[g]
  PROVE  LockDiscipline'
<1>1. \A r \in Rows : lock[r] # h
  BY NamesAssumption DEF LockDiscipline
<1>2. \A r \in Rows : lock[r] \in Handlers \cup {Free}
  BY DEF TypeOK
<1>. QED
  BY <1>1, <1>2 DEF LockDiscipline

LEMMA LockStep ==
  ASSUME TypeOK, LockDiscipline, [Next]_vars PROVE LockDiscipline'
<1>1. ASSUME NEW h \in Handlers, NEW r \in Rows, ReserveItem(h, r)
      PROVE  LockDiscipline'
  <2>1. /\ lock'[r] = h /\ draft'[r] = stock[r] - form[h].items[r]
        /\ \A s \in Rows \ {r} : lock'[s] = lock[s] /\ draft'[s] = draft[s]
    BY <1>1 DEF ReserveItem, TypeOK
  <2>2. h # Free /\ pc[h] \in InTx /\ form[h].items[r] > 0 /\ pc[h] # "change"
    BY <1>1, NamesAssumption DEF ReserveItem, Remaining, InTx
  <2>3. stock' = stock /\ pc' = pc /\ form' = form /\ goal' = goal
    BY <1>1 DEF ReserveItem
  <2>. QED
    BY <2>1, <2>2, <2>3 DEF LockDiscipline
<1>2. ASSUME NEW h \in Handlers, NEW r \in Rows, RestoreItem(h, r)
      PROVE  LockDiscipline'
  <2>1. /\ lock'[r] = h /\ draft'[r] = stock[r] + form[h].items[r]
        /\ \A s \in Rows \ {r} : lock'[s] = lock[s] /\ draft'[s] = draft[s]
    BY <1>2 DEF RestoreItem, TypeOK
  <2>2. /\ h # Free /\ pc[h] \in InTx /\ pc[h] # "reserve"
        /\ goal[h].to \in StockRestoring /\ form[h].items[r] > 0
    BY <1>2, NamesAssumption DEF RestoreItem, ToRestore, Remaining, InTx
  <2>3. stock' = stock /\ pc' = pc /\ form' = form /\ goal' = goal
    BY <1>2 DEF RestoreItem
  <2>. QED
    BY <2>1, <2>2, <2>3 DEF LockDiscipline
<1>3. ASSUME NEW h \in Handlers, Finish(h)
      PROVE  \A g \in Handlers \ {h} : pc'[g] = pc[g] /\ form'[g] = form[g] /\ goal'[g] = goal[g]
  BY <1>3 DEF Finish, TypeOK
<1>4. ASSUME NEW h \in Handlers, Arrive(h) PROVE LockDiscipline'
  <2>1. /\ pc[h] \notin InTx
        /\ \A g \in Handlers \ {h} : pc'[g] = pc[g] /\ form'[g] = form[g] /\ goal'[g] = goal[g]
    BY <1>4 DEF Arrive, CreateBegin, StatusBegin, Goto, TypeOK, InTx
  <2>2. stock' = stock /\ draft' = draft /\ lock' = lock
    BY <1>4 DEF Arrive, CreateBegin, StatusBegin, db
  <2>. QED
    BY <2>1, <2>2, OutsideTransaction
<1>5. ASSUME NEW h \in Handlers,
             \/ CreateReadWarehouse(h)
             \/ CreateReadManager(h)
             \/ CreateReadDelivery(h)
             \/ CreateRejected(h)
      PROVE  LockDiscipline'
  <2>1. \A g \in Handlers \ {h} : pc'[g] = pc[g] /\ form'[g] = form[g] /\ goal'[g] = goal[g]
    BY <1>3, <1>5 DEF CreateReadWarehouse, CreateReadManager,
       CreateReadDelivery, CreateRejected, Goto, TypeOK
  <2>2. stock' = stock /\ draft' = draft /\ lock' = lock /\ pc[h] \notin InTx
    BY <1>5 DEF CreateReadWarehouse, CreateReadManager, CreateReadDelivery,
       CreateRejected, db, InTx
  <2>. QED
    BY <2>1, <2>2, OutsideTransaction
<1>6. ASSUME NEW h \in Handlers, Handle(h) \/ Abort(h) PROVE LockDiscipline'
  BY <1>1, <1>2, <1>5, <1>6, EndOfTransaction
  DEF Handle, ReserveShort, InsertDeal, InsertFails, WriteStatus, Abort
<1>7. CASE Others
  <2>1. ASSUME NEW r \in Rows, NEW n \in Counts, SetQuantity(r, n)
        PROVE  LockDiscipline'
    BY <2>1 DEF SetQuantity, LockDiscipline, TypeOK
  <2>. QED
    BY <1>7, <2>1
    DEF Others, SetActive, AssignLead, RemoveLead, SetRate, LockDiscipline
<1>8. CASE UNCHANGED vars
  BY <1>8 DEF vars, LockDiscipline
<1>. QED
  BY <1>4, <1>5, <1>6, <1>7, <1>8 DEF Next

(* Row locks and uncommitted versions belong to open transactions.         *)
THEOREM LocksBelongToTransactions == Spec => []LockDiscipline
<1>1. Init => LockDiscipline
  BY DEF Init, LockDiscipline
<1>. QED
  BY <1>1, LockStep, TypeCorrect, PTL DEF Spec

-----------------------------------------------------------------------------
(* Status changes that do not overlap                                      *)

(* What a request that creates a deal is about to insert.                  *)
CreateIsNew ==
  \A h \in Handlers : pc[h] \in InCreate =>
    form[h].status = "NEW" /\ ~form[h].closed /\ form[h].items \in Orders

(* The deal a status change has read is still the deal in the database,    *)
(* and the requested status still follows: nobody else writes the row      *)
(* between the read and the transaction.                                   *)
ReadIsCurrent ==
  \A h \in Handlers : pc[h] = "change" =>
    /\ deal[goal[h].id] = form[h]
    /\ goal[h].to \in NextStatuses[form[h].status]

SerialInv ==
  CreateIsNew /\ ReadIsCurrent /\ RestoredExactlyOnce /\ ClosedIffTerminal /\ NoOverlap

LEMMA SerialInit == Init => SerialInv
BY DEF Init, SerialInv, CreateIsNew, ReadIsCurrent, RestoredExactlyOnce,
   ClosedIffTerminal, NoOverlap, Exists, InCreate

LEMMA SerialStep ==
  ASSUME TypeOK, SerialInv, [Next]_vars, NoOverlap'
  PROVE  SerialInv'
<1>1. ASSUME NEW h \in Handlers, Finish(h)
      PROVE  \A g \in Handlers :
               pc'[g] # "idle" => g # h /\ pc'[g] = pc[g] /\ form'[g] = form[g] /\ goal'[g] = goal[g]
  BY <1>1 DEF Finish, TypeOK
<1>2. ASSUME deal' = deal, restored' = restored,
             \A g \in Handlers :
               /\ pc'[g] \in InCreate =>
                    /\ pc[g] \in InCreate
                    /\ form'[g].status = form[g].status
                    /\ form'[g].closed = form[g].closed
                    /\ form'[g].items = form[g].items
               /\ pc'[g] = "change" =>
                    pc[g] = "change" /\ form'[g] = form[g] /\ goal'[g] = goal[g]
      PROVE  SerialInv'
  <2>1. CreateIsNew'
    BY <1>2 DEF SerialInv, CreateIsNew
  <2>2. ReadIsCurrent'
    BY <1>2 DEF SerialInv, ReadIsCurrent
  <2>3. RestoredExactlyOnce' /\ ClosedIffTerminal'
    BY <1>2 DEF SerialInv, RestoredExactlyOnce, ClosedIffTerminal, Exists
  <2>. QED
    BY <2>1, <2>2, <2>3 DEF SerialInv
<1>3. ASSUME NEW h \in Handlers, NEW actor \in Users, NEW l \in Leads,
             NEW w \in Warehouses, NEW cart \in Carts,
             NEW q \in Quotes \cup {NoQuote}, CreateBegin(h, actor, l, w, cart, q)
      PROVE  SerialInv'
  <2>1. /\ form'[h].status = "NEW" /\ ~form'[h].closed
        /\ form'[h].items \in Orders
    BY <1>3 DEF CreateBegin, TypeOK, Orders
  <2>2. /\ deal' = deal /\ restored' = restored /\ goal' = goal
        /\ pc'[h] = "warehouse"
        /\ \A g \in Handlers \ {h} : pc'[g] = pc[g] /\ form'[g] = form[g]
    BY <1>3 DEF CreateBegin, Goto, TypeOK, db, hist
  <2>3. CreateIsNew'
    BY <2>1, <2>2 DEF SerialInv, CreateIsNew
  <2>4. ReadIsCurrent'
    BY <2>2 DEF SerialInv, ReadIsCurrent
  <2>5. RestoredExactlyOnce' /\ ClosedIffTerminal'
    BY <2>2 DEF SerialInv, RestoredExactlyOnce, ClosedIffTerminal, Exists
  <2>. QED
    BY <2>3, <2>4, <2>5 DEF SerialInv
<1>4. ASSUME NEW h \in Handlers, NEW actor \in Users, NEW d \in DealIds,
             NEW to \in Statuses, StatusBegin(h, actor, d, to)
      PROVE  SerialInv'
  <2>1. /\ deal' = deal /\ restored' = restored
        /\ pc'[h] = "change" /\ form'[h] = deal[d]
        /\ goal'[h] = [id |-> d, to |-> to] /\ to \in NextStatuses[deal[d].status]
        /\ \A g \in Handlers \ {h} :
             pc'[g] = pc[g] /\ form'[g] = form[g] /\ goal'[g] = goal[g]
    BY <1>4 DEF StatusBegin, Goto, TypeOK, db, hist
  <2>2. CreateIsNew'
    BY <2>1 DEF SerialInv, CreateIsNew, InCreate
  <2>3. ReadIsCurrent'
    BY <2>1 DEF SerialInv, ReadIsCurrent
  <2>4. RestoredExactlyOnce' /\ ClosedIffTerminal'
    BY <2>1 DEF SerialInv, RestoredExactlyOnce, ClosedIffTerminal, Exists
  <2>. QED
    BY <2>2, <2>3, <2>4 DEF SerialInv
<1>5. ASSUME NEW h \in Handlers, NEW d \in DealIds, InsertDeal(h, d)
      PROVE  SerialInv'
  <2>1. Finish(h) /\ pc[h] = "reserve" /\ restored' = restored
    BY <1>5 DEF InsertDeal, Commit, hist
  <2>2. CreateIsNew'
    BY <1>1, <2>1 DEF SerialInv, CreateIsNew, InCreate
  <2>3. \A g \in Handlers : pc[g] = "change" => goal[g].id # d
    BY <1>5, InsertEffect DEF TypeOK
  <2>4. ReadIsCurrent'
    <3>. SUFFICES ASSUME NEW g \in Handlers, pc'[g] = "change"
                  PROVE  /\ deal'[goal'[g].id] = form'[g]
                         /\ goal'[g].to \in NextStatuses[form'[g].status]
      BY DEF ReadIsCurrent
    <3>1. pc[g] = "change" /\ form'[g] = form[g] /\ goal'[g] = goal[g]
      BY <1>1, <2>1
    <3>2. goal[g].id \in DealIds \ {d}
      BY <2>3, <3>1 DEF TypeOK, Goal
    <3>. QED
      BY <1>5, <3>1, <3>2, InsertEffect DEF SerialInv, ReadIsCurrent
  <2>5. form[h].status = "NEW" /\ ~form[h].closed
    BY <2>1 DEF SerialInv, CreateIsNew, InCreate
  <2>6. RestoredExactlyOnce'
    BY <1>5, <2>1, <2>5, InsertEffect
    DEF SerialInv, RestoredExactlyOnce, Exists, StockRestoring
  <2>7. ClosedIffTerminal'
    BY <1>5, <2>5, InsertEffect DEF SerialInv, ClosedIffTerminal, Exists, Terminal
  <2>. QED
    BY <2>2, <2>4, <2>6, <2>7 DEF SerialInv
<1>6. ASSUME NEW h \in Handlers, WriteStatus(h)
      PROVE  SerialInv'
  <2>. DEFINE d == goal[h].id
              to == goal[h].to
  <2>1. Finish(h) /\ pc[h] = "change"
    BY <1>6 DEF WriteStatus, Commit
  <2>2. /\ d \in DealIds /\ to \in Statuses /\ Exists(d)
        /\ deal[d] \in DealRow /\ deal'[d] \in DealRow
        /\ \A c \in DealIds \ {d} : deal'[c] = deal[c]
        /\ deal'[d] = [deal[d] EXCEPT !.status = to,
                                     !.closed = @ \/ to \in Terminal]
    BY <1>6, WriteStatusEffect
  <2>3. /\ deal'[d].status = to
        /\ deal'[d].closed <=> deal[d].closed \/ to \in Terminal
    BY <2>2 DEF DealRow
  <2>4. to \in NextStatuses[deal[d].status] /\ deal[d].status \in Statuses
    BY <2>1, <2>2 DEF SerialInv, ReadIsCurrent, DealRow
  <2>5. /\ deal[d].status \notin StockRestoring
        /\ deal[d].status \in Terminal => to \in Terminal
    BY <2>4 DEF NextStatuses, Statuses, StockRestoring, Terminal
  <2>6. CreateIsNew'
    BY <1>1, <2>1 DEF SerialInv, CreateIsNew, InCreate
  <2>7. ReadIsCurrent'
    <3>. SUFFICES ASSUME NEW g \in Handlers, pc'[g] = "change"
                  PROVE  /\ deal'[goal'[g].id] = form'[g]
                         /\ goal'[g].to \in NextStatuses[form'[g].status]
      BY DEF ReadIsCurrent
    <3>1. g # h /\ pc[g] = "change" /\ form'[g] = form[g] /\ goal'[g] = goal[g]
      BY <1>1, <2>1
    <3>2. goal[g].id \in DealIds \ {d}
      BY <2>1, <3>1 DEF SerialInv, NoOverlap, TypeOK, Goal
    <3>. QED
      BY <2>2, <3>1, <3>2 DEF SerialInv, ReadIsCurrent
  <2>8. RestoredExactlyOnce'
    <3>1. restored[d] = 0
      BY <2>2, <2>5 DEF SerialInv, RestoredExactlyOnce
    <3>2. /\ restored'[d] = IF to \in StockRestoring THEN 1 ELSE 0
          /\ \A c \in DealIds \ {d} : restored'[c] = restored[c]
      BY <1>6, <2>2, <3>1 DEF WriteStatus, TypeOK
    <3>3. deal'[d] # NoDeal
      BY <2>2, NoDealIsNoRow
    <3>. QED
      BY <2>2, <2>3, <3>2, <3>3 DEF SerialInv, RestoredExactlyOnce, Exists
  <2>9. ClosedIffTerminal'
    BY <2>2, <2>3, <2>5 DEF SerialInv, ClosedIffTerminal, Exists
  <2>. QED
    BY <2>6, <2>7, <2>8, <2>9 DEF SerialInv
<1>7. ASSUME NEW h \in Handlers, Rollback(h) PROVE SerialInv'
  BY <1>1, <1>2, <1>7 DEF Rollback, hist, InCreate
<1>8. ASSUME NEW h \in Handlers, CreateReadWarehouse(h) PROVE SerialInv'
  BY <1>1, <1>2, <1>8 DEF CreateReadWarehouse, Goto, TypeOK, db, hist, InCreate
<1>9. ASSUME NEW h \in Handlers, CreateReadManager(h) PROVE SerialInv'
  <2>1. form[h] \in DealRow
    BY <1>9 DEF CreateReadManager, TypeOK
  <2>2. /\ form'[h].status = form[h].status /\ form'[h].closed = form[h].closed
        /\ form'[h].items = form[h].items
    BY <1>9, <2>1 DEF CreateReadManager, TypeOK, DealRow
  <2>3. /\ pc[h] \in InCreate /\ pc'[h] # "change"
        /\ \A g \in Handlers \ {h} : pc'[g] = pc[g] /\ form'[g] = form[g]
    BY <1>9 DEF CreateReadManager, Goto, TypeOK, InCreate
  <2>. QED
    BY <1>2, <1>9, <2>2, <2>3 DEF CreateReadManager, db, hist
<1>10. ASSUME NEW h \in Handlers, CreateReadDelivery(h) PROVE SerialInv'
  BY <1>1, <1>2, <1>10 DEF CreateReadDelivery, Goto, TypeOK, db, hist, InCreate
<1>11. ASSUME NEW h \in Handlers, CreateRejected(h) PROVE SerialInv'
  BY <1>1, <1>2, <1>11 DEF CreateRejected, db, hist, InCreate
<1>12. ASSUME NEW h \in Handlers, NEW r \in Rows,
              ReserveItem(h, r) \/ RestoreItem(h, r)
       PROVE  SerialInv'
  BY <1>2, <1>12 DEF ReserveItem, RestoreItem, hist
<1>13. ASSUME NEW h \in Handlers,
              Arrive(h) \/ Handle(h) \/ CreateRejected(h) \/ Abort(h)
       PROVE  SerialInv'
  BY <1>3, <1>4, <1>5, <1>6, <1>7, <1>8, <1>9, <1>10, <1>11, <1>12, <1>13
  DEF Arrive, Handle, ReserveShort, InsertFails, Abort
<1>14. CASE Others
  BY <1>2, <1>14 DEF Others, SetQuantity, SetActive, AssignLead, RemoveLead,
     SetRate, hist
<1>15. CASE UNCHANGED vars
  BY <1>2, <1>15 DEF vars
<1>. QED
  BY <1>13, <1>14, <1>15 DEF Next

(* The serial environment is one of the environments of Spec.              *)
LEMMA SerialInvariant == SerialSpec => [](TypeOK /\ LockDiscipline /\ StockNonNegative /\ SerialInv)
<1>1. Init => TypeOK /\ SerialInv
  BY InitTypeOK, SerialInit
<1>2. [Next /\ NoOverlap']_vars => [Next]_vars
  OBVIOUS
<1>3. SerialSpec => Spec
  BY <1>2, PTL DEF SerialSpec, Spec
<1>4. TypeOK /\ SerialInv /\ [Next /\ NoOverlap']_vars => SerialInv'
  <2>1. CASE Next /\ NoOverlap'
    BY <2>1, SerialStep
  <2>2. CASE UNCHANGED vars
    <3>1. NoOverlap => NoOverlap'
      BY <2>2 DEF NoOverlap, vars
    <3>. QED
      BY <2>2, <3>1, SerialStep DEF SerialInv
  <2>. QED
    BY <2>1, <2>2
<1>. QED
  BY <1>1, <1>3, <1>4, TypeCorrect, LocksBelongToTransactions, NeverOversold, PTL
  DEF SerialSpec

(* Goods come back exactly once, when the deal is cancelled or refunded.   *)
THEOREM SerialRestores == SerialSpec => []RestoredExactlyOnce
<1>1. SerialInv => RestoredExactlyOnce
  BY DEF SerialInv
<1>. QED
  BY <1>1, SerialInvariant, PTL

(* closedAt marks exactly the deals in a terminal status.                  *)
THEOREM SerialCloses == SerialSpec => []ClosedIffTerminal
<1>1. SerialInv => ClosedIffTerminal
  BY DEF SerialInv
<1>. QED
  BY <1>1, SerialInvariant, PTL

LEMMA NothingAfterReturn == \A s \in StockRestoring : NextStatuses[s] = {}
BY DEF StockRestoring, NextStatuses, Statuses

LEMMA ReturnedStays ==
  ASSUME TypeOK, SerialInv, [Next]_vars,
         NEW d \in DealIds, Exists(d), deal[d].status \in StockRestoring
  PROVE  deal'[d] = deal[d]
<1>1. ASSUME NEW h \in Handlers, WriteStatus(h)
      PROVE  deal'[d] = deal[d]
  <2>1. \A c \in DealIds \ {goal[h].id} : deal'[c] = deal[c]
    BY <1>1, WriteStatusEffect
  <2>2. pc[h] = "change"
    BY <1>1 DEF WriteStatus
  <2>3. deal[goal[h].id] = form[h] /\ goal[h].to \in NextStatuses[deal[goal[h].id].status]
    BY <2>2 DEF SerialInv, ReadIsCurrent
  <2>4. goal[h].id # d
    BY <2>3, NothingAfterReturn
  <2>. QED
    BY <2>1, <2>4
<1>2. ASSUME NEW h \in Handlers, NEW c \in DealIds, InsertDeal(h, c)
      PROVE  deal'[d] = deal[d]
  BY <1>2, InsertEffect
<1>. QED
  BY <1>1, <1>2, DealSteps

(* A deal whose goods were given back is never worked on again.            *)
THEOREM SerialReturnsAreFinal == SerialSpec => ReturnedIsFinal
<1>1. TypeOK /\ SerialInv /\ [Next]_vars =>
        [\A d \in DealIds : Exists(d) /\ deal[d].status \in StockRestoring =>
            deal[d]'.status = deal[d].status]_vars
  BY ReturnedStays
<1>2. [Next /\ NoOverlap']_vars => [Next]_vars
  OBVIOUS
<1>. QED
  BY <1>1, <1>2, SerialInvariant, PTL DEF SerialSpec, ReturnedIsFinal

-----------------------------------------------------------------------------
(* Refinement                                                              *)

LEMMA LedgerInit == Init => Ledger!Init
BY DEF Init, Ledger!Init, StatusOf, ItemsTaken, Ledger!Nothing, Exists, NoDeal

(* A commit of h publishes, for every row, what h took or gave back.       *)
LEMMA CommitOfReserve ==
  ASSUME TypeOK, LockDiscipline, NEW h \in Handlers, pc[h] = "reserve",
         Remaining(h) = {}, Commit(h)
  PROVE  \A r \in Rows : stock'[r] = stock[r] - form[h].items[r]
<1>. TAKE r \in Rows
<1>1. form[h].items[r] \in Nat /\ stock[r] \in Int
  BY DEF TypeOK, DealRow
<1>2. stock'[r] = IF lock[r] = h THEN draft[r] ELSE stock[r]
  BY DEF Commit
<1>3. lock[r] # h => form[h].items[r] = 0
  BY <1>1 DEF Remaining, Held
<1>4. lock[r] = h => draft[r] = stock[r] - form[h].items[r]
  BY NamesAssumption DEF LockDiscipline
<1>. QED
  BY <1>1, <1>2, <1>3, <1>4

LEMMA CommitOfChange ==
  ASSUME TypeOK, LockDiscipline, NEW h \in Handlers, pc[h] = "change",
         ToRestore(h) = {}, Commit(h)
  PROVE  \A r \in Rows :
           stock'[r] = IF goal[h].to \in StockRestoring
                       THEN stock[r] + form[h].items[r] ELSE stock[r]
<1>. TAKE r \in Rows
<1>1. form[h].items[r] \in Nat /\ stock[r] \in Int
  BY DEF TypeOK, DealRow
<1>2. stock'[r] = IF lock[r] = h THEN draft[r] ELSE stock[r]
  BY DEF Commit
<1>3. goal[h].to \in StockRestoring /\ lock[r] # h => form[h].items[r] = 0
  BY <1>1 DEF ToRestore, Remaining, Held
<1>4. lock[r] = h => /\ goal[h].to \in StockRestoring
                     /\ draft[r] = stock[r] + form[h].items[r]
  BY NamesAssumption DEF LockDiscipline
<1>. QED
  BY <1>1, <1>2, <1>3, <1>4

(* Every step of the service is a step of the ledger or invisible to it.   *)
LEMMA LedgerStep ==
  ASSUME TypeOK, LockDiscipline, StockNonNegative, SerialInv, [Next]_vars
  PROVE  [Ledger!Next]_(Ledger!ledger)
<1>1. ASSUME NEW h \in Handlers, NEW d \in DealIds, InsertDeal(h, d)
      PROVE  Ledger!Open(d, form[h].items) /\ form[h].items \in Orders
  <2>1. Commit(h) /\ Remaining(h) = {} /\ pc[h] = "reserve"
    BY <1>1 DEF InsertDeal
  <2>2. \A r \in Rows : stock'[r] = stock[r] - form[h].items[r]
    BY <2>1, CommitOfReserve
  <2>3. \A r \in Rows : form[h].items[r] <= stock[r]
    <3>. TAKE r \in Rows
    <3>1. form[h].items[r] \in Nat /\ stock[r] \in Nat
      BY <2>1 DEF TypeOK, DealRow, StockNonNegative
    <3>2. lock[r] # h => form[h].items[r] = 0
      BY <2>1, <3>1 DEF Remaining, Held
    <3>3. lock[r] = h => draft[r] = stock[r] - form[h].items[r] /\ draft[r] >= 0
      BY <2>1, NamesAssumption DEF LockDiscipline, StockNonNegative
    <3>. QED
      BY <3>1, <3>2, <3>3
  <2>4. stock' = [r \in Rows |-> stock[r] - form[h].items[r]]
    BY <2>1, <2>2 DEF Commit
  <2>5. form[h].status = "NEW" /\ form[h].items \in Orders
    BY <2>1 DEF SerialInv, CreateIsNew, InCreate
  <2>6. StatusOf[d] = "none"
    BY <1>1, InsertEffect DEF StatusOf, Exists, NoDeal
  <2>7. StatusOf' = [StatusOf EXCEPT ![d] = "NEW"]
    <3>1. \A c \in DealIds : deal'[c].status = IF c = d THEN "NEW" ELSE deal[c].status
      BY <1>1, <2>5, InsertEffect
    <3>. QED
      BY <3>1 DEF StatusOf
  <2>8. ItemsTaken' = [ItemsTaken EXCEPT ![d] = form[h].items]
    <3>1. /\ deal'[d].items = form[h].items /\ deal'[d] # NoDeal
          /\ \A c \in DealIds \ {d} : deal'[c] = deal[c]
      BY <1>1, InsertEffect
    <3>. QED
      BY <3>1 DEF ItemsTaken, Exists
  <2>. QED
    BY <2>3, <2>4, <2>5, <2>6, <2>7, <2>8 DEF Ledger!Open
<1>2. ASSUME NEW h \in Handlers, WriteStatus(h)
      PROVE  \E d \in DealIds, to \in Statuses : Ledger!Move(d, to)
  <2>. DEFINE d == goal[h].id
              to == goal[h].to
  <2>1. Commit(h) /\ ToRestore(h) = {} /\ pc[h] = "change"
    BY <1>2 DEF WriteStatus
  <2>2. /\ d \in DealIds /\ to \in Statuses /\ Exists(d)
        /\ deal[d] \in DealRow
        /\ \A c \in DealIds \ {d} : deal'[c] = deal[c]
        /\ deal'[d] = [deal[d] EXCEPT !.status = to,
                                     !.closed = @ \/ to \in Terminal]
        /\ deal'[d] \in DealRow
    BY <1>2, WriteStatusEffect
  <2>3. deal[d] = form[h] /\ to \in NextStatuses[deal[d].status]
    BY <2>1 DEF SerialInv, ReadIsCurrent
  <2>4. /\ deal'[d].status = to /\ deal'[d].items = deal[d].items
        /\ deal'[d] # NoDeal
    BY <2>2, NoDealIsNoRow DEF DealRow
  <2>5. StatusOf' = [StatusOf EXCEPT ![d] = to]
    BY <2>2, <2>4 DEF StatusOf
  <2>6. ItemsTaken' = ItemsTaken
    BY <2>2, <2>4 DEF ItemsTaken, Exists
  <2>7. /\ StatusOf[d] = deal[d].status /\ deal[d].status \in Statuses
        /\ ItemsTaken[d] = form[h].items
    BY <2>2, <2>3 DEF StatusOf, ItemsTaken, DealRow
  <2>8. StatusOf[d] # "none"
    BY <2>7 DEF Statuses
  <2>9. stock' = IF to \in StockRestoring
                 THEN [r \in Rows |-> stock[r] + ItemsTaken[d][r]] ELSE stock
    <3>1. \A r \in Rows : stock'[r] = IF to \in StockRestoring
                                      THEN stock[r] + form[h].items[r] ELSE stock[r]
      BY <2>1, CommitOfChange
    <3>2. stock' = [r \in Rows |-> stock'[r]] /\ stock = [r \in Rows |-> stock[r]]
      BY <2>1 DEF Commit, TypeOK
    <3>. QED
      BY <2>7, <3>1, <3>2
  <2>10. to \in Ledger!NextStatuses[StatusOf[d]]
    BY <2>3, <2>7
    DEF Ledger!NextStatuses, NextStatuses, Ledger!Statuses, Statuses
  <2>. QED
    BY <2>2, <2>5, <2>6, <2>8, <2>9, <2>10
    DEF Ledger!Move, Ledger!StockRestoring, StockRestoring
<1>3. ASSUME NEW r \in Rows, NEW n \in Counts, SetQuantity(r, n)
      PROVE  Ledger!Recount(r, n)
  BY <1>3 DEF SetQuantity, Ledger!Recount, StatusOf, ItemsTaken, Exists
<1>4. CASE deal' = deal /\ stock' = stock
  BY <1>4 DEF Ledger!ledger, StatusOf, ItemsTaken, Exists
<1>5. ASSUME NEW h \in Handlers, Arrive(h) \/ CreateRejected(h) \/ Abort(h)
      PROVE  deal' = deal /\ stock' = stock
  BY <1>5 DEF Arrive, CreateBegin, StatusBegin, CreateRejected, Abort, Rollback, db
<1>6. ASSUME NEW h \in Handlers, Handle(h)
      PROVE  \/ deal' = deal /\ stock' = stock
             \/ \E d \in DealIds : InsertDeal(h, d)
             \/ WriteStatus(h)
  BY <1>6 DEF Handle, CreateReadWarehouse, CreateReadManager,
     CreateReadDelivery, ReserveItem, ReserveShort, InsertFails, RestoreItem,
     Rollback, db
<1>7. ASSUME Others
      PROVE  \/ deal' = deal /\ stock' = stock
             \/ \E r \in Rows, n \in Counts : SetQuantity(r, n)
  BY <1>7 DEF Others, SetActive, AssignLead, RemoveLead, SetRate
<1>8. CASE UNCHANGED vars
  BY <1>4, <1>8 DEF vars
<1>. QED
  BY <1>1, <1>2, <1>3, <1>4, <1>5, <1>6, <1>7, <1>8
  DEF Next, Ledger!Next, Ledger!Statuses, Statuses

(* Without overlapping status changes, the database between transactions   *)
(* is the ledger.                                                          *)
THEOREM SerialImplementsLedger == SerialSpec => ImplementsLedger
<1>1. [Next /\ NoOverlap']_vars => [Next]_vars
  OBVIOUS
<1>. QED
  BY <1>1, LedgerInit, LedgerStep, SerialInvariant, PTL
  DEF SerialSpec, ImplementsLedger, Ledger!Spec

-----------------------------------------------------------------------------
(* Conservation                                                            *)

(* The strengthening: an id without a deal has nothing to its name, and a  *)
(* status change gives back the items of the deal it closes, because the   *)
(* items it has read never change.                                         *)
ConservationInv ==
  /\ supply \in [Rows -> Int]
  /\ \A d \in DealIds : ~Exists(d) => restored[d] = 0
  /\ \A h \in Handlers : pc[h] = "change" => form[h].items = deal[goal[h].id].items
  /\ Conservation

(* Out of a row is a sum over the deals.                                   *)
LEMMA GoodsType ==
  ASSUME NEW row \in DealRow \cup {NoDeal}, NEW k \in Nat, NEW r \in Rows
  PROVE  (IF row # NoDeal THEN row.items[r] * (1 - k) ELSE 0) \in Int
<1>1. row # NoDeal => row.items[r] \in Nat
  BY DEF DealRow
<1>. QED
  BY <1>1

LEMMA SumOverDeals ==
  ASSUME NEW f \in [DealIds -> Int]
  PROVE  FoldFunction(+, 0, f) = Sum(f, DealIds) /\ Sum(f, DealIds) \in Int
BY FoldIsSum, SumType, DealIdsAssumption

LEMMA TotalOutType ==
  ASSUME TypeOK, NEW r \in Rows
  PROVE  TotalOut(r) \in Int
<1>. DEFINE f == [d \in DealIds |-> Out(d, r)]
<1>1. f \in [DealIds -> Int]
  BY GoodsType DEF TypeOK, Out, Exists
<1>2. TotalOut(r) = FoldFunction(+, 0, f)
  BY DEF TotalOut
<1>. QED
  BY <1>1, <1>2, SumOverDeals

(* One deal changes what is out of a row by as much as its own part.       *)
LEMMA TotalOutUpdate ==
  ASSUME TypeOK, TypeOK', NEW r \in Rows, NEW d \in DealIds,
         \A c \in DealIds \ {d} : deal'[c] = deal[c] /\ restored'[c] = restored[c]
  PROVE  TotalOut(r)' = TotalOut(r) - Out(d, r) + Out(d, r)'
<1>. DEFINE f == [c \in DealIds |-> Out(c, r)]
            g == [c \in DealIds |->
                    IF deal'[c] # NoDeal THEN deal'[c].items[r] * (1 - restored'[c]) ELSE 0]
<1>1. f \in [DealIds -> Int]
  BY GoodsType DEF TypeOK, Out, Exists
<1>2. g \in [DealIds -> Int]
  <2>1. \A c \in DealIds : deal'[c] \in DealRow \cup {NoDeal} /\ restored'[c] \in Nat
    BY DEF TypeOK
  <2>2. ASSUME NEW c \in DealIds
        PROVE  (IF deal'[c] # NoDeal THEN deal'[c].items[r] * (1 - restored'[c]) ELSE 0) \in Int
    BY <2>1, GoodsType
  <2>. QED
    BY <2>2
<1>3. TotalOut(r) = FoldFunction(+, 0, f) /\ TotalOut(r)' = FoldFunction(+, 0, g)
  <2>1. TotalOut(r) = FoldFunction(+, 0, f)
    BY DEF TotalOut
  <2>2. TotalOut(r)' = FoldFunction(+, 0, [c \in DealIds |-> Out(c, r)'])
    BY DEF TotalOut, FoldFunction, FoldFunctionOnSet, MapThenFoldSet
  <2>3. [c \in DealIds |-> Out(c, r)'] = g
    BY DEF Out, Exists
  <2>. HIDE DEF f, g
  <2>. QED
    BY <2>1, <2>2, <2>3
<1>4. \A c \in DealIds \ {d} : g[c] = f[c]
  BY DEF Out, Exists
<1>5. f[d] = Out(d, r) /\ g[d] = Out(d, r)'
  BY DEF Out, Exists
<1>. HIDE DEF f, g
<1>6. Sum(g, DealIds) = Sum(f, DealIds) - f[d] + g[d]
  BY <1>1, <1>2, <1>4, SumUpdate, DealIdsAssumption
<1>. QED
  BY <1>1, <1>2, <1>3, <1>5, <1>6, SumOverDeals

(* A step that touches no deal leaves what is out alone.                   *)
LEMMA TotalOutSame ==
  ASSUME NEW r \in Rows, deal' = deal, restored' = restored
  PROVE  TotalOut(r)' = TotalOut(r)
<1>. DEFINE f == [d \in DealIds |-> Out(d, r)]
            g == [d \in DealIds |-> Out(d, r)']
<1>1. \A d \in DealIds : Out(d, r)' = Out(d, r)
  BY DEF Out, Exists
<1>2. g = f
  BY <1>1
<1>3. TotalOut(r) = FoldFunction(+, 0, f) /\ TotalOut(r)' = FoldFunction(+, 0, g)
  BY DEF TotalOut, FoldFunction, FoldFunctionOnSet, MapThenFoldSet
<1>. HIDE DEF f, g
<1>. QED
  BY <1>2, <1>3

(* A committed creation takes the deal's items out of stock.               *)
LEMMA InsertConserves ==
  ASSUME TypeOK, TypeOK', LockDiscipline, ConservationInv,
         NEW h \in Handlers, NEW d \in DealIds, InsertDeal(h, d)
  PROVE  Conservation'
<1>. SUFFICES ASSUME NEW r \in Rows
              PROVE  stock'[r] = supply'[r] - TotalOut(r)'
  BY DEF Conservation
<1>. DEFINE n == form[h].items[r]
<1>1. stock'[r] = stock[r] - n
  BY CommitOfReserve DEF InsertDeal
<1>2. supply' = supply /\ restored' = restored
  BY DEF InsertDeal, hist
<1>3. /\ ~Exists(d) /\ form[h] \in DealRow
      /\ deal'[d] = form[h] /\ deal'[d] # NoDeal
      /\ \A c \in DealIds \ {d} : deal'[c] = deal[c]
  BY InsertEffect
<1>4. restored[d] = 0
  BY <1>3 DEF ConservationInv
<1>5. n \in Nat /\ stock[r] \in Int /\ supply[r] \in Int /\ TotalOut(r) \in Int
  BY <1>3, TotalOutType DEF DealRow, TypeOK, ConservationInv
<1>6. Out(d, r) = 0
  BY <1>3 DEF Out
<1>7. Out(d, r)' = n * (1 - 0)
  BY <1>2, <1>3, <1>4 DEF Out, Exists
<1>8. TotalOut(r)' = TotalOut(r) - Out(d, r) + Out(d, r)'
  BY <1>2, <1>3, TotalOutUpdate
<1>9. stock[r] = supply[r] - TotalOut(r)
  BY DEF ConservationInv, Conservation
<1>. HIDE DEF n
<1>10. TotalOut(r)' = TotalOut(r) + n
  BY <1>5, <1>6, <1>7, <1>8
<1>. QED
  BY <1>1, <1>2, <1>5, <1>9, <1>10

(* A committed status change gives them back if the new status restores.   *)
LEMMA WriteConserves ==
  ASSUME TypeOK, TypeOK', LockDiscipline, ConservationInv,
         NEW h \in Handlers, WriteStatus(h)
  PROVE  Conservation'
<1>. SUFFICES ASSUME NEW r \in Rows
              PROVE  stock'[r] = supply'[r] - TotalOut(r)'
  BY DEF Conservation
<1>0. PICK d : d = goal[h].id
  OBVIOUS
<1>. DEFINE n == deal[d].items[r]
            k == restored[d]
<1>1. /\ d \in DealIds /\ Exists(d) /\ deal[d] \in DealRow
      /\ \A c \in DealIds \ {d} : deal'[c] = deal[c]
      /\ deal'[d] \in DealRow /\ deal'[d].items = deal[d].items
  BY <1>0, WriteStatusEffect DEF DealRow
<1>2. Exists(d)'
  BY <1>1, NoDealIsNoRow DEF Exists
<1>3. pc[h] = "change" /\ ToRestore(h) = {} /\ Commit(h) /\ supply' = supply
  BY DEF WriteStatus
<1>4. form[h].items[r] = n
  BY <1>0, <1>3 DEF ConservationInv
<1>5. n \in Nat /\ k \in Nat /\ stock[r] \in Int /\ supply[r] \in Int /\ TotalOut(r) \in Int
  BY <1>1, TotalOutType DEF DealRow, TypeOK, ConservationInv
<1>6. \A c \in DealIds \ {d} : restored'[c] = restored[c]
  BY <1>0 DEF WriteStatus, TypeOK
<1>7. TotalOut(r)' = TotalOut(r) - Out(d, r) + Out(d, r)'
  BY <1>1, <1>6, TotalOutUpdate
<1>8. Out(d, r) = n * (1 - k)
  BY <1>1 DEF Out
<1>9. Out(d, r)' = n * (1 - restored'[d])
  BY <1>1, <1>2 DEF Out
<1>10. stock[r] = supply[r] - TotalOut(r)
  BY DEF ConservationInv, Conservation
<1>11. stock'[r] = IF goal[h].to \in StockRestoring THEN stock[r] + n ELSE stock[r]
  BY <1>3, <1>4, CommitOfChange
<1>12. restored'[d] = IF goal[h].to \in StockRestoring THEN k + 1 ELSE k
  BY <1>0, <1>1 DEF WriteStatus, TypeOK
<1>. HIDE DEF n, k
<1>13. CASE goal[h].to \in StockRestoring
  <2>1. n * (1 - (k + 1)) = n * (1 - k) - n
    BY <1>5
  <2>2. n * (1 - k) \in Int
    BY <1>5
  <2>3. TotalOut(r)' = TotalOut(r) - n * (1 - k) + (n * (1 - k) - n)
    BY <1>7, <1>8, <1>9, <1>12, <1>13, <2>1
  <2>. DEFINE m == n * (1 - k)
  <2>. HIDE DEF m
  <2>4. TotalOut(r)' = TotalOut(r) - n
    BY <1>5, <2>2, <2>3 DEF m
  <2>. QED
    BY <1>3, <1>5, <1>10, <1>11, <1>13, <2>4
<1>14. CASE goal[h].to \notin StockRestoring
  <2>1. n * (1 - k) \in Int
    BY <1>5
  <2>2. TotalOut(r)' = TotalOut(r) - n * (1 - k) + n * (1 - k)
    BY <1>7, <1>8, <1>9, <1>12, <1>14
  <2>3. TotalOut(r)' = TotalOut(r)
    BY <1>5, <2>1, <2>2
  <2>. QED
    BY <1>3, <1>10, <1>11, <1>14, <2>3
<1>. QED
  BY <1>13, <1>14

(* A count of one row resets what the row is measured against.             *)
LEMMA RecountConserves ==
  ASSUME TypeOK, ConservationInv, NEW r \in Rows, NEW n \in Counts, SetQuantity(r, n)
  PROVE  supply' \in [Rows -> Int] /\ Conservation'
<1>1. n \in Int
  BY CountsAssumption
<1>2. \A s \in Rows : TotalOut(s)' = TotalOut(s) /\ TotalOut(s) \in Int
  BY TotalOutSame, TotalOutType DEF SetQuantity
<1>3. /\ stock' = [stock EXCEPT ![r] = n]
      /\ supply' = [supply EXCEPT ![r] = n + TotalOut(r)]
  BY DEF SetQuantity
<1>4. supply' \in [Rows -> Int]
  BY <1>1, <1>2, <1>3 DEF ConservationInv
<1>5. ASSUME NEW s \in Rows PROVE stock'[s] = supply'[s] - TotalOut(s)'
  <2>1. CASE s = r
    <3>1. stock'[s] = n /\ supply'[s] = n + TotalOut(s)
      BY <1>3, <2>1 DEF ConservationInv, TypeOK
    <3>. QED
      BY <1>1, <1>2, <3>1
  <2>2. CASE s # r
    <3>1. stock'[s] = stock[s] /\ supply'[s] = supply[s]
      BY <1>3, <2>2 DEF ConservationInv, TypeOK
    <3>. QED
      BY <1>2, <3>1 DEF ConservationInv, Conservation
  <2>. QED
    BY <2>1, <2>2
<1>. QED
  BY <1>4, <1>5 DEF Conservation

(* A status change begins by reading its deal and then keeps what it read.  *)
LEMMA ReadingSteps ==
  ASSUME TypeOK, [Next]_vars, NEW h \in Handlers, pc'[h] = "change"
  PROVE  \/ deal' = deal /\ form'[h] = deal[goal'[h].id]
         \/ pc[h] = "change" /\ form'[h] = form[h] /\ goal'[h] = goal[h]
<1>1. ASSUME NEW g \in Handlers, Finish(g)
      PROVE  pc[h] = "change" /\ form'[h] = form[h] /\ goal'[h] = goal[h]
  BY <1>1 DEF Finish, TypeOK
<1>2. ASSUME NEW g \in Handlers, NEW actor \in Users, NEW l \in Leads,
             NEW w \in Warehouses, NEW cart \in Carts,
             NEW q \in Quotes \cup {NoQuote}, CreateBegin(g, actor, l, w, cart, q)
      PROVE  pc[h] = "change" /\ form'[h] = form[h] /\ goal'[h] = goal[h]
  BY <1>2 DEF CreateBegin, Goto, TypeOK
<1>3. ASSUME NEW g \in Handlers, NEW actor \in Users, NEW d \in DealIds,
             NEW to \in Statuses, StatusBegin(g, actor, d, to)
      PROVE  \/ deal' = deal /\ form'[h] = deal[goal'[h].id]
             \/ pc[h] = "change" /\ form'[h] = form[h] /\ goal'[h] = goal[h]
  <2>1. CASE g = h
    <3>1. form'[h] = deal[d] /\ goal'[h] = [id |-> d, to |-> to] /\ deal' = deal
      BY <1>3, <2>1 DEF StatusBegin, TypeOK, db
    <3>. QED
      BY <3>1
  <2>2. CASE g # h
    BY <1>3, <2>2 DEF StatusBegin, Goto, TypeOK
  <2>. QED
    BY <2>1, <2>2
<1>4. ASSUME NEW g \in Handlers,
             CreateReadWarehouse(g) \/ CreateReadManager(g) \/ CreateReadDelivery(g)
      PROVE  pc[h] = "change" /\ form'[h] = form[h] /\ goal'[h] = goal[h]
  BY <1>1, <1>4 DEF CreateReadWarehouse, CreateReadManager, CreateReadDelivery,
     Goto, TypeOK
<1>5. ASSUME NEW g \in Handlers, Handle(g) \/ CreateRejected(g) \/ Abort(g)
      PROVE  pc[h] = "change" /\ form'[h] = form[h] /\ goal'[h] = goal[h]
  BY <1>1, <1>4, <1>5 DEF Handle, CreateRejected, Abort, ReserveItem, ReserveShort,
     InsertDeal, InsertFails, RestoreItem, WriteStatus, Commit, Rollback
<1>6. CASE Others
  BY <1>6 DEF Others, SetQuantity, SetActive, AssignLead, RemoveLead, SetRate
<1>7. CASE UNCHANGED vars
  BY <1>7 DEF vars
<1>. QED
  BY <1>2, <1>3, <1>5, <1>6, <1>7 DEF Next, Arrive

(* What the steps do to stock and to what it is measured against.          *)
LEMMA GoodsSteps ==
  ASSUME [Next]_vars
  PROVE  \/ UNCHANGED <<stock, deal, supply, restored>>
         \/ \E h \in Handlers, d \in DealIds : InsertDeal(h, d)
         \/ \E h \in Handlers : WriteStatus(h)
         \/ \E r \in Rows, n \in Counts : SetQuantity(r, n)
<1>1. ASSUME NEW h \in Handlers, Arrive(h) \/ CreateRejected(h) \/ Abort(h)
      PROVE  UNCHANGED <<stock, deal, supply, restored>>
  BY <1>1 DEF Arrive, CreateBegin, StatusBegin, CreateRejected, Abort, Rollback,
     db, hist
<1>2. ASSUME NEW h \in Handlers, Handle(h)
      PROVE  \/ UNCHANGED <<stock, deal, supply, restored>>
             \/ \E d \in DealIds : InsertDeal(h, d)
             \/ WriteStatus(h)
  BY <1>2 DEF Handle, CreateReadWarehouse, CreateReadManager,
     CreateReadDelivery, ReserveItem, ReserveShort, InsertFails, RestoreItem,
     Rollback, db, hist
<1>3. ASSUME Others
      PROVE  \/ UNCHANGED <<stock, deal, supply, restored>>
             \/ \E r \in Rows, n \in Counts : SetQuantity(r, n)
  BY <1>3 DEF Others, SetActive, AssignLead, RemoveLead, SetRate, hist
<1>4. CASE UNCHANGED vars
  BY <1>4 DEF vars
<1>. QED
  BY <1>1, <1>2, <1>3, <1>4 DEF Next

LEMMA ConservationStep ==
  ASSUME TypeOK, TypeOK', LockDiscipline, ConservationInv, [Next]_vars
  PROVE  ConservationInv'
<1>1. ASSUME NEW h \in Handlers, pc'[h] = "change"
      PROVE  form'[h].items = deal'[goal'[h].id].items
  <2>1. CASE deal' = deal /\ form'[h] = deal[goal'[h].id]
    BY <2>1
  <2>2. CASE pc[h] = "change" /\ form'[h] = form[h] /\ goal'[h] = goal[h]
    <3>0. PICK d : d = goal[h].id
      OBVIOUS
    <3>1. d \in DealIds /\ Exists(d)
      BY <2>2, <3>0 DEF TypeOK, Goal
    <3>2. Snapshot(d)' = Snapshot(d)
      BY <3>1, SnapshotStep
    <3>3. Snapshot(d)'.items = deal'[d].items /\ Snapshot(d).items = deal[d].items
      BY DEF Snapshot
    <3>4. deal'[d].items = deal[d].items
      BY <3>2, <3>3
    <3>. QED
      BY <2>2, <3>0, <3>4 DEF ConservationInv
  <2>. QED
    BY <1>1, <2>1, <2>2, ReadingSteps
<1>2. CASE UNCHANGED <<stock, deal, supply, restored>>
  <2>1. \A r \in Rows : TotalOut(r)' = TotalOut(r)
    BY <1>2, TotalOutSame
  <2>2. Conservation'
    BY <1>2, <2>1 DEF ConservationInv, Conservation
  <2>. QED
    BY <1>1, <1>2, <2>2 DEF ConservationInv, Exists
<1>3. ASSUME NEW h \in Handlers, NEW d \in DealIds, InsertDeal(h, d)
      PROVE  ConservationInv'
  <2>1. supply' = supply /\ restored' = restored
    BY <1>3 DEF InsertDeal, hist
  <2>2. \A c \in DealIds : ~Exists(c)' => restored'[c] = 0
    BY <1>3, <2>1, InsertEffect DEF ConservationInv, Exists
  <2>. QED
    BY <1>1, <1>3, <2>1, <2>2, InsertConserves DEF ConservationInv
<1>4. ASSUME NEW h \in Handlers, WriteStatus(h)
      PROVE  ConservationInv'
  <2>1. supply' = supply
    BY <1>4 DEF WriteStatus
  <2>2. \A c \in DealIds \ {goal[h].id} : restored'[c] = restored[c]
    BY <1>4 DEF WriteStatus, TypeOK
  <2>. DEFINE d == goal[h].id
  <2>a. deal'[d] \in DealRow /\ \A c \in DealIds \ {d} : deal'[c] = deal[c]
    BY <1>4, WriteStatusEffect
  <2>b. deal'[d] # NoDeal
    BY <2>a, NoDealIsNoRow
  <2>3. \A c \in DealIds : ~Exists(c)' => ~Exists(c) /\ c # d
    BY <2>a, <2>b DEF Exists
  <2>4. \A c \in DealIds : ~Exists(c)' => restored'[c] = 0
    BY <2>2, <2>3 DEF ConservationInv
  <2>. QED
    BY <1>1, <1>4, <2>1, <2>4, WriteConserves DEF ConservationInv
<1>5. ASSUME NEW r \in Rows, NEW n \in Counts, SetQuantity(r, n)
      PROVE  ConservationInv'
  <2>1. deal' = deal /\ restored' = restored
    BY <1>5 DEF SetQuantity
  <2>2. \A c \in DealIds : ~Exists(c)' => restored'[c] = 0
    BY <2>1 DEF ConservationInv, Exists
  <2>. QED
    BY <1>1, <1>5, <2>2, RecountConserves DEF ConservationInv
<1>. QED
  BY <1>2, <1>3, <1>4, <1>5, GoodsSteps

LEMMA ConservationInit == Init => ConservationInv
<1>. SUFFICES ASSUME Init PROVE ConservationInv
  OBVIOUS
<1>1. supply = stock /\ supply \in [Rows -> Int]
  BY InitTypeOK DEF Init, TypeOK
<1>2. ASSUME NEW r \in Rows PROVE TotalOut(r) = 0
  <2>. DEFINE f == [d \in DealIds |-> Out(d, r)]
  <2>1. f \in [DealIds -> Int] /\ \A d \in DealIds : f[d] = 0
    BY DEF Init, Out, Exists
  <2>2. TotalOut(r) = FoldFunction(+, 0, f)
    BY DEF TotalOut
  <2>. HIDE DEF f
  <2>3. Sum(f, DealIds) = 0
    BY <2>1, SumZero, DealIdsAssumption
  <2>. QED
    BY <2>1, <2>2, <2>3, SumOverDeals
<1>3. \A h \in Handlers : pc[h] # "change"
  BY DEF Init
<1>4. \A d \in DealIds : restored[d] = 0
  BY DEF Init
<1>. QED
  BY <1>1, <1>2, <1>3, <1>4 DEF ConservationInv, Conservation

(* Goods are neither lost nor invented, whatever commits, fails or rolls   *)
(* back: a row's quantity is its last count less what the deals hold of    *)
(* it, for any number of deals, rows, quantities and concurrent requests.  *)
THEOREM GoodsConserved == Spec => []Conservation
<1>1. TypeOK /\ TypeOK' /\ LockDiscipline /\ ConservationInv /\ [Next]_vars
        => ConservationInv'
  BY ConservationStep
<1>2. ConservationInv => Conservation
  BY DEF ConservationInv
<1>. QED
  BY <1>1, <1>2, ConservationInit, TypeCorrect, LocksBelongToTransactions, PTL DEF Spec

=============================================================================

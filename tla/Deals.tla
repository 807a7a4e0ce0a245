------------------------------- MODULE Deals -------------------------------
(***************************************************************************)
(* DealsService (deals/deals.service.ts) with the database rows it shares  *)
(* with the catalog, leads and users services.                             *)
(*                                                                         *)
(* A handler is one HTTP request in flight.  Every `await` of the service  *)
(* ends a step, so the steps of different handlers interleave as they do   *)
(* on the Node event loop and across server processes.  A database         *)
(* transaction ($transaction) is modelled by the versions of the stock     *)
(* rows: `stock` is what other transactions read (the committed version),  *)
(* `draft` is the version of the transaction that holds the row lock, and  *)
(* a commit publishes the drafts of the rows it holds (PostgreSQL, READ    *)
(* COMMITTED).                                                             *)
(***************************************************************************)
EXTENDS Integers, FiniteSets, Functions, DealStatus

CONSTANTS
  Handlers,     \* concurrent requests
  DealIds,      \* ids of the deals that may be created (bound)
  Leads,        \* the tenant's leads
  Warehouses,
  Products,
  Managers,     \* users with role MANAGER
  Owner,        \* the user with role OWNER
  Unassigned,   \* lead.assignedManagerId = null
  Deleted,      \* the lead's row is gone
  Quotes,       \* delivery quotes a deal may be linked to
  NoQuote,      \* deal.deliveryQuoteId = null
  Free,         \* nobody holds the row lock
  Carts,        \* the item lists requests may carry: product -> quantity
  Counts,       \* the quantities an owner may enter after a count
  Rates         \* commission percentages

ASSUME CartsAssumption == Carts \subseteq [Products -> Nat]
ASSUME CountsAssumption == Counts \subseteq Nat
ASSUME DealIdsAssumption == IsFiniteSet(DealIds)
ASSUME NamesAssumption ==
  /\ Free \notin Handlers
  /\ NoQuote \notin Quotes
  /\ Unassigned \notin Managers
  /\ Deleted \notin Managers \cup {Unassigned}
  /\ Owner \notin Managers

VARIABLES
  stock,        \* committed Stock.quantity of each row
  draft,        \* the quantity in the latest version, committed or not
  lock,         \* the handler whose transaction locks the row, or Free
  deal,         \* the Deal rows
  active,       \* Warehouse.isActive
  lead,         \* Lead.assignedManagerId, or Deleted
  rate,         \* User.commissionPercent
  pc,           \* where each request stands
  form,         \* create: the Deal row being put together;
                \* changeStatus: the Deal row as it was read
  goal,         \* changeStatus: the deal's id and the requested status
  restored,     \* history: how often a deal's goods were given back
  supply,       \* history: stock plus goods out with deals, see Recount
  paidRates     \* history: every rate a user has had

db   == <<stock, draft, lock, deal, active, lead, rate>>
hist == <<restored, supply, paidRates>>
vars == <<stock, draft, lock, deal, active, lead, rate, pc, form, goal,
          restored, supply, paidRates>>

-----------------------------------------------------------------------------
(* Data                                                                    *)

Rows  == Warehouses \X Products      \* Stock rows, unique per pair
Users == Managers \cup {Owner}

NoDeal == [status |-> "none"]
NoGoal == [to |-> "none"]

DealRow ==
  [status : Statuses, lead : Leads, manager : Users, rate : Rates,
   warehouse : Warehouses, items : [Rows -> Nat],
   quote : Quotes \cup {NoQuote}, closed : BOOLEAN]

Goal == [id : DealIds, to : Statuses]

(* DealItem rows: the cart's quantities, all from one warehouse. *)
ItemsOf(w, cart) ==
  [r \in Rows |-> IF r[1] = w THEN cart[r[2]] ELSE 0]

Exists(d) == deal[d] # NoDeal

InCreate == {"warehouse", "manager", "delivery", "reserve"}
InTx     == {"reserve", "change"}

Held(h) == {r \in Rows : lock[r] = h}

(* The stock rows the transaction of h still has to update. *)
Remaining(h) == {r \in Rows : form[h].items[r] > 0} \ Held(h)

-----------------------------------------------------------------------------
(* The end of a request and of a transaction                               *)

Mut_FinishKeepsGoal(h) ==
  /\ pc' = [pc EXCEPT ![h] = "idle"]
  /\ form' = [form EXCEPT ![h] = NoDeal]
  /\ goal' = goal

(* The response is sent: what the request had read is forgotten.           *)
Finish(h) ==
  /\ pc' = [pc EXCEPT ![h] = "idle"]
  /\ form' = [form EXCEPT ![h] = NoDeal]
  /\ goal' = [goal EXCEPT ![h] = NoGoal]

Unlock(h) == lock' = [r \in Rows |-> IF lock[r] = h THEN Free ELSE lock[r]]

Commit(h) ==
  /\ stock' = [r \in Rows |-> IF lock[r] = h THEN draft[r] ELSE stock[r]]
  /\ Unlock(h)
  /\ UNCHANGED draft
  /\ Finish(h)

Rollback(h) ==
  /\ draft' = [r \in Rows |-> IF lock[r] = h THEN stock[r] ELSE draft[r]]
  /\ Unlock(h)
  /\ UNCHANGED <<stock, deal, active, lead, rate, hist>>
  /\ Finish(h)

Goto(h, label) == pc' = [pc EXCEPT ![h] = label]

-----------------------------------------------------------------------------
(* create                                                                  *)

(* The request arrives and reads the lead.  A MANAGER sees only leads      *)
(* assigned to them (getAccessibleLead), and the deal's manager is the     *)
(* lead's, falling back to the acting user.                                *)
CreateBegin(h, actor, l, w, cart, q) ==
  /\ pc[h] = "idle"
  /\ \E d \in DealIds : ~Exists(d)
  /\ lead[l] # Deleted
  /\ actor = Owner \/ lead[l] = actor
  /\ form' = [form EXCEPT ![h] =
       [status |-> "NEW", lead |-> l,
        manager |-> IF lead[l] = Unassigned THEN actor ELSE lead[l],
        rate |-> rate[actor],     \* placeholder, see CreateReadManager
        warehouse |-> w, items |-> ItemsOf(w, cart),
        quote |-> q, closed |-> FALSE]]
  /\ Goto(h, "warehouse")
  /\ UNCHANGED <<db, goal, hist>>

Mut_CreateReadWarehouseSilent(h) ==
  /\ pc[h] = "warehouse"
  /\ active[form[h].warehouse]
  /\ Goto(h, "manager")
  /\ UNCHANGED <<db, form, goal, hist>>

(* An inactive warehouse is a 404. *)
CreateReadWarehouse(h) ==
  /\ pc[h] = "warehouse"
  /\ IF active[form[h].warehouse]
     THEN Goto(h, "manager") /\ UNCHANGED <<form, goal>>
     ELSE Finish(h)
  /\ UNCHANGED <<db, hist>>

(* The checks on the request's data (a product listed twice, an unknown    *)
(* product, a discount above the subtotal or the actor's cap, two delivery *)
(* methods) end the request before anything is written.                    *)
CreateRejected(h) ==
  /\ pc[h] \in {"manager", "delivery"}
  /\ Finish(h)
  /\ UNCHANGED <<db, hist>>

Mut_CreateReadManagerActing(h) ==
  /\ pc[h] = "manager"
  /\ form' = [form EXCEPT ![h].rate = rate[Owner]]
  /\ Goto(h, "delivery")
  /\ UNCHANGED <<db, goal, hist>>

(* The commission rate of the deal's manager, as it is now. *)
CreateReadManager(h) ==
  /\ pc[h] = "manager"
  /\ form' = [form EXCEPT ![h].rate = rate[form[h].manager]]
  /\ Goto(h, "delivery")
  /\ UNCHANGED <<db, goal, hist>>

QuoteLinked(q) == q # NoQuote /\ \E d \in DealIds : Exists(d) /\ deal[d].quote = q

(* resolveDelivery: a quote some deal already uses is a 409. *)
CreateReadDelivery(h) ==
  /\ pc[h] = "delivery"
  /\ IF QuoteLinked(form[h].quote)
     THEN Finish(h)
     ELSE Goto(h, "reserve") /\ UNCHANGED <<form, goal>>
  /\ UNCHANGED <<db, hist>>

Mut_ReserveItemUnchecked(h, r) ==
  /\ pc[h] = "reserve"
  /\ r \in Remaining(h)
  /\ lock[r] = Free
  /\ draft' = [draft EXCEPT ![r] = stock[r] - form[h].items[r]]
  /\ lock' = [lock EXCEPT ![r] = h]
  /\ UNCHANGED <<stock, deal, active, lead, rate, pc, form, goal, hist>>

Mut_ReserveItemInPlace(h, r) ==
  /\ pc[h] = "reserve"
  /\ r \in Remaining(h)
  /\ lock[r] = Free
  /\ stock[r] >= form[h].items[r]
  /\ draft' = [draft EXCEPT ![r] = stock[r] - form[h].items[r]]
  /\ stock' = draft'
  /\ lock' = [lock EXCEPT ![r] = h]
  /\ UNCHANGED <<deal, active, lead, rate, pc, form, goal, hist>>

(* One conditional UPDATE: it waits for the row lock and takes the row     *)
(* only if the committed quantity suffices.  The order of the items is the *)
(* request's, hence arbitrary.                                             *)
ReserveItem(h, r) ==
  /\ pc[h] = "reserve"
  /\ r \in Remaining(h)
  /\ lock[r] = Free
  /\ stock[r] >= form[h].items[r]
  /\ draft' = [draft EXCEPT ![r] = stock[r] - form[h].items[r]]
  /\ lock' = [lock EXCEPT ![r] = h]
  /\ UNCHANGED <<stock, deal, active, lead, rate, pc, form, goal, hist>>

Mut_ReserveShortCommits(h, r) ==
  /\ pc[h] = "reserve"
  /\ r \in Remaining(h)
  /\ stock[r] < form[h].items[r]
  /\ Commit(h)
  /\ UNCHANGED <<deal, active, lead, rate, hist>>

(* The UPDATE matches no row: ConflictException, which rolls back the      *)
(* items already taken.                                                    *)
ReserveShort(h, r) ==
  /\ pc[h] = "reserve"
  /\ r \in Remaining(h)
  /\ stock[r] < form[h].items[r]
  /\ Rollback(h)

Mut_InsertRefusedNoUnique(h) == lead[form[h].lead] = Deleted

(* What the database refuses at the INSERT: the lead is gone (foreign key) *)
(* or the quote was linked by another deal meanwhile (unique index).       *)
InsertRefused(h) == lead[form[h].lead] = Deleted \/ QuoteLinked(form[h].quote)

(* The INSERT of the deal and its items, then the commit.                  *)
InsertDeal(h, d) ==
  /\ pc[h] = "reserve"
  /\ Remaining(h) = {}
  /\ ~InsertRefused(h)
  /\ ~Exists(d)
  /\ deal' = [deal EXCEPT ![d] = form[h]]
  /\ Commit(h)
  /\ UNCHANGED <<active, lead, rate, hist>>

(* P2003 or P2002 inside the transaction rolls everything back.            *)
InsertFails(h) ==
  /\ pc[h] = "reserve"
  /\ Remaining(h) = {}
  /\ InsertRefused(h)
  /\ Rollback(h)

-----------------------------------------------------------------------------
(* changeStatus                                                            *)

(* findOrThrow and the transition table, both outside the transaction.  A  *)
(* MANAGER only finds their own deals.                                     *)
StatusBegin(h, actor, d, to) ==
  /\ pc[h] = "idle"
  /\ Exists(d)
  /\ actor = Owner \/ deal[d].manager = actor
  /\ to \in NextStatuses[deal[d].status]
  /\ form' = [form EXCEPT ![h] = deal[d]]
  /\ goal' = [goal EXCEPT ![h] = [id |-> d, to |-> to]]
  /\ Goto(h, "change")
  /\ UNCHANGED <<db, hist>>

Mut_ToRestoreWaiting(h) == IF goal[h].to # "PAID" THEN Remaining(h) ELSE {}

(* The rows to give back: every item, if the requested status restores.    *)
ToRestore(h) == IF goal[h].to \in StockRestoring THEN Remaining(h) ELSE {}

RestoreItem(h, r) ==
  /\ pc[h] = "change"
  /\ r \in ToRestore(h)
  /\ lock[r] = Free
  /\ draft' = [draft EXCEPT ![r] = stock[r] + form[h].items[r]]
  /\ lock' = [lock EXCEPT ![r] = h]
  /\ UNCHANGED <<stock, deal, active, lead, rate, pc, form, goal, hist>>

Mut_WriteStatusReprices(h) ==
  /\ pc[h] = "change"
  /\ ToRestore(h) = {}
  /\ deal' = [deal EXCEPT
       ![goal[h].id].status = goal[h].to,
       ![goal[h].id].rate = rate[deal[goal[h].id].manager],
       ![goal[h].id].closed = @ \/ goal[h].to \in Terminal]
  /\ restored' = restored
  /\ Commit(h)
  /\ UNCHANGED <<active, lead, rate, supply, paidRates>>

(* deal.update with no condition on the current status, then the commit.   *)
(* closedAt is stamped for a terminal status and left alone otherwise.     *)
WriteStatus(h) ==
  /\ pc[h] = "change"
  /\ ToRestore(h) = {}
  /\ deal' = [deal EXCEPT
       ![goal[h].id].status = goal[h].to,
       ![goal[h].id].closed = @ \/ goal[h].to \in Terminal]
  /\ restored' = IF goal[h].to \in StockRestoring
                 THEN [restored EXCEPT ![goal[h].id] = @ + 1]
                 ELSE restored
  /\ Commit(h)
  /\ UNCHANGED <<active, lead, rate, supply, paidRates>>

(* Either transaction may be rolled back before it commits: PostgreSQL     *)
(* picks it as a deadlock victim, Prisma's transaction timeout expires, or *)
(* the server process dies.                                                *)
Abort(h) == pc[h] \in InTx /\ Rollback(h)

-----------------------------------------------------------------------------
(* What other services write to the rows a deal depends on                 *)

(* Goods of row r that left with deal d and were not given back.           *)
Out(d, r) ==
  IF Exists(d) THEN deal[d].items[r] * (1 - restored[d]) ELSE 0

TotalOut(r) == FoldFunction(+, 0, [d \in DealIds |-> Out(d, r)])

(* StockService.setQuantity: the owner enters a counted quantity, which    *)
(* replaces the row's whatever deals did to it.  The upsert waits for the  *)
(* row lock.                                                               *)
SetQuantity(r, n) ==
  /\ lock[r] = Free
  /\ stock' = [stock EXCEPT ![r] = n]
  /\ draft' = [draft EXCEPT ![r] = n]
  /\ supply' = [supply EXCEPT ![r] = n + TotalOut(r)]
  /\ UNCHANGED <<lock, deal, active, lead, rate, pc, form, goal,
                 restored, paidRates>>

(* WarehousesService.deactivate and reactivate: soft, the row stays.       *)
SetActive(w, b) ==
  /\ active[w] # b
  /\ active' = [active EXCEPT ![w] = b]
  /\ UNCHANGED <<stock, draft, lock, deal, lead, rate, pc, form, goal, hist>>

(* LeadsService.assign: the owner moves the lead to a manager.             *)
AssignLead(l, m) ==
  /\ lead[l] # Deleted
  /\ lead' = [lead EXCEPT ![l] = m]
  /\ UNCHANGED <<stock, draft, lock, deal, active, rate, pc, form, goal, hist>>

Mut_RemoveLeadUnchecked(l) ==
  /\ lead[l] # Deleted
  /\ lead' = [lead EXCEPT ![l] = Deleted]
  /\ UNCHANGED <<stock, draft, lock, deal, active, rate, pc, form, goal, hist>>

(* LeadsService.remove: the foreign key keeps a lead that has deals.       *)
RemoveLead(l) ==
  /\ lead[l] # Deleted
  /\ \A d \in DealIds : Exists(d) => deal[d].lead # l
  /\ lead' = [lead EXCEPT ![l] = Deleted]
  /\ UNCHANGED <<stock, draft, lock, deal, active, rate, pc, form, goal, hist>>

(* UsersService.updateManager: a new commissionPercent.                    *)
SetRate(m, x) ==
  /\ rate[m] # x
  /\ rate' = [rate EXCEPT ![m] = x]
  /\ paidRates' = [paidRates EXCEPT ![m] = @ \cup {x}]
  /\ UNCHANGED <<stock, draft, lock, deal, active, lead, pc, form, goal,
                 restored, supply>>

-----------------------------------------------------------------------------
(* The specifications                                                      *)

Init ==
  /\ stock \in [Rows -> Counts]
  /\ draft = stock
  /\ lock = [r \in Rows |-> Free]
  /\ deal = [d \in DealIds |-> NoDeal]
  /\ active = [w \in Warehouses |-> TRUE]
  /\ lead \in [Leads -> Managers \cup {Unassigned}]
  /\ rate \in [Users -> Rates]
  /\ pc = [h \in Handlers |-> "idle"]
  /\ form = [h \in Handlers |-> NoDeal]
  /\ goal = [h \in Handlers |-> NoGoal]
  /\ restored = [d \in DealIds |-> 0]
  /\ supply = stock
  /\ paidRates = [u \in Users |-> {rate[u]}]

Arrive(h) ==
  \/ \E actor \in Users, l \in Leads, w \in Warehouses, cart \in Carts,
        q \in Quotes \cup {NoQuote} : CreateBegin(h, actor, l, w, cart, q)
  \/ \E actor \in Users, d \in DealIds, to \in Statuses :
        StatusBegin(h, actor, d, to)

(* What the server does next for a request, the rejections included.       *)
Handle(h) ==
  \/ CreateReadWarehouse(h)
  \/ CreateReadManager(h)
  \/ CreateReadDelivery(h)
  \/ \E r \in Rows : ReserveItem(h, r) \/ ReserveShort(h, r)
  \/ \E d \in DealIds : InsertDeal(h, d)
  \/ InsertFails(h)
  \/ \E r \in Rows : RestoreItem(h, r)
  \/ WriteStatus(h)

Others ==
  \/ \E r \in Rows, n \in Counts : SetQuantity(r, n)
  \/ \E w \in Warehouses, b \in BOOLEAN : SetActive(w, b)
  \/ \E l \in Leads, m \in Managers : AssignLead(l, m)
  \/ \E l \in Leads : RemoveLead(l)
  \/ \E m \in Managers, x \in Rates : SetRate(m, x)

Next ==
  \/ \E h \in Handlers : Arrive(h) \/ Handle(h) \/ CreateRejected(h) \/ Abort(h)
  \/ Others

Spec == Init /\ [][Next]_vars

(* The server keeps running the requests it has, and no transaction stays  *)
(* open for ever: PostgreSQL breaks deadlocks and Prisma's interactive     *)
(* transactions expire.                                                    *)
FairSpec ==
  Spec /\ \A h \in Handlers : WF_vars(Handle(h)) /\ WF_vars(Abort(h))

(* The environment the code is written for: no two requests change the     *)
(* status of one deal at the same time.  Nothing in the code enforces it.  *)
NoOverlap ==
  \A g, h \in Handlers :
    pc[g] = "change" /\ pc[h] = "change" /\ goal[g].id = goal[h].id => g = h

SerialSpec == Init /\ [][Next /\ NoOverlap']_vars

-----------------------------------------------------------------------------
(* Properties of every behaviour                                           *)

(* Every variable holds a value of its kind; an idle handler remembers      *)
(* nothing, and only a status change has a goal, which is about a deal.    *)
TypeOK ==
  /\ stock \in [Rows -> Int]
  /\ draft \in [Rows -> Int]
  /\ lock \in [Rows -> Handlers \cup {Free}]
  /\ deal \in [DealIds -> DealRow \cup {NoDeal}]
  /\ active \in [Warehouses -> BOOLEAN]
  /\ lead \in [Leads -> Managers \cup {Unassigned, Deleted}]
  /\ rate \in [Users -> Rates]
  /\ pc \in [Handlers -> {"idle", "change"} \cup InCreate]
  /\ form \in [Handlers -> DealRow \cup {NoDeal}]
  /\ goal \in [Handlers -> Goal \cup {NoGoal}]
  /\ restored \in [DealIds -> Nat]
  /\ paidRates \in [Users -> SUBSET Rates]
  /\ \A h \in Handlers : /\ pc[h] = "idle" <=> form[h] = NoDeal
                         /\ pc[h] = "change" <=> goal[h] # NoGoal
                         /\ pc[h] = "change" => Exists(goal[h].id)

(* A row is locked only by an open transaction that has an item in it, and *)
(* its uncommitted version is the committed one less what that transaction *)
(* takes, or plus what it gives back; an unlocked row has one version.     *)
LockDiscipline ==
  \A r \in Rows :
    IF lock[r] = Free
    THEN draft[r] = stock[r]
    ELSE LET h == lock[r] IN
         /\ pc[h] \in InTx
         /\ form[h].items[r] > 0
         /\ pc[h] = "reserve" => draft[r] = stock[r] - form[h].items[r]
         /\ pc[h] = "change"  => /\ goal[h].to \in StockRestoring
                                /\ draft[r] = stock[r] + form[h].items[r]

(* However many requests reserve the same goods at once, nothing is sold   *)
(* that is not there: no version of a stock row is ever negative.          *)
StockNonNegative == \A r \in Rows : stock[r] >= 0 /\ draft[r] >= 0

(* Goods are neither lost nor invented, whatever commits, fails or rolls   *)
(* back between the items of a request: a row's quantity is its last count *)
(* minus what deals took and did not give back.                            *)
Conservation == \A r \in Rows : stock[r] = supply[r] - TotalOut(r)

(* A delivery quote prices at most one deal, although create looks for the *)
(* other deal outside its transaction.                                     *)
QuoteLinkedOnce ==
  \A c, d \in DealIds :
    Exists(c) /\ Exists(d) /\ deal[c].quote = deal[d].quote
    /\ deal[c].quote # NoQuote => c = d

(* No deal outlives its lead, although create reads the lead long before   *)
(* it inserts the deal.                                                    *)
LeadKept == \A d \in DealIds : Exists(d) => lead[deal[d].lead] # Deleted

(* A deal carries a commission rate that its own manager has had, and not  *)
(* another user's.                                                         *)
RateOfOwnManager ==
  \A d \in DealIds : Exists(d) => deal[d].rate \in paidRates[deal[d].manager]

(* The class comment of DealsService: after creation nothing touches a     *)
(* deal but its status and closedAt; rate, manager, items and quote stay.  *)
Snapshot(d) == [deal[d] EXCEPT !.status = "NEW", !.closed = FALSE]
SnapshotFixed ==
  [][\A d \in DealIds : Exists(d) => Exists(d)' /\ Snapshot(d)' = Snapshot(d)]_vars

(* Every request is answered, so that requests that lock the same goods in *)
(* opposite orders do not block each other for ever.                       *)
RequestsAnswered == \A h \in Handlers : pc[h] # "idle" ~> pc[h] = "idle"

-----------------------------------------------------------------------------
(* Properties of the serial environment                                    *)

(* A deal's goods come back exactly when it is cancelled or refunded, and  *)
(* exactly once.                                                           *)
RestoredExactlyOnce ==
  \A d \in DealIds :
    restored[d] = IF Exists(d) /\ deal[d].status \in StockRestoring THEN 1 ELSE 0

(* closedAt is set exactly on the deals in a terminal status.              *)
ClosedIffTerminal ==
  \A d \in DealIds : Exists(d) => (deal[d].closed <=> deal[d].status \in Terminal)

(* The abstract view of the committed rows, and the promise of DealLedger. *)
StatusOf == [d \in DealIds |-> deal[d].status]
ItemsTaken ==
  [d \in DealIds |-> IF Exists(d) THEN deal[d].items ELSE [r \in Rows |-> 0]]
Orders == {ItemsOf(w, cart) : w \in Warehouses, cart \in Carts}

Ledger == INSTANCE DealLedger WITH status <- StatusOf, items <- ItemsTaken

(* Between transactions the database only shows states and steps of        *)
(* DealLedger: reservations and returns are atomic over all of a deal's    *)
(* items although they are made row by row.                                *)
ImplementsLedger == Ledger!Spec

-----------------------------------------------------------------------------
(* What the repository says of every behaviour: true of the serial         *)
(* environment, refuted by overlapping status changes                      *)

(* deal-status-transitions.ts: "CANCELLED and REFUNDED are terminal", so a *)
(* deal whose goods were given back is never worked on again.              *)
ReturnedIsFinal ==
  [][\A d \in DealIds : Exists(d) /\ deal[d].status \in StockRestoring =>
       deal[d]'.status = deal[d].status]_vars

(* test/catalog-and-deals.e2e-spec.ts: a cancellation gives back exactly   *)
(* what the deal took.                                                     *)
RestoredAtMostOnce == \A d \in DealIds : restored[d] <= 1

=============================================================================

------------------------------ MODULE Payouts ------------------------------
(***************************************************************************)
(* PayoutsService (payouts/payouts.service.ts): how the commissions of a   *)
(* period's deals are claimed by payouts, and how a payout is adjusted,    *)
(* approved, paid and mailed.                                              *)
(*                                                                         *)
(* A handler is one request of the owner in flight.  Every `await` ends a  *)
(* step; a $transaction is one step, since the transactions here issue no  *)
(* statement whose outcome depends on another (contrast Deals).  The deals *)
(* move by themselves along the transition table, as DealLedger promises.  *)
(***************************************************************************)
EXTENDS Integers, FiniteSets, Functions, DealStatus

CONSTANTS
  Handlers,
  DealIds,
  PayoutIds,     \* ids of the payouts that may be created (bound)
  Managers,
  DealManager,   \* Deal.managerId
  Commission,    \* Deal.commissionAmount, fixed when the deal was created
  Periods,       \* what a request may ask for: the deals created in it
  Salaries,      \* values of User.baseSalary
  Patches,       \* bodies of the manual adjustment
  Keep,          \* a field the body leaves out
  NoPayout       \* Deal.payoutId = null

ASSUME PayoutsAssumption ==
  /\ IsFiniteSet(DealIds)
  /\ DealManager \in [DealIds -> Managers]
  /\ Commission \in [DealIds -> Nat]
  /\ Periods \subseteq SUBSET DealIds
  /\ Salaries \subseteq Nat
  /\ Keep \notin Nat
  /\ NoPayout \notin PayoutIds
ASSUME PatchesAssumption ==
  Patches \subseteq [base : Nat \cup {Keep}, commission : Nat \cup {Keep},
                     total : Nat \cup {Keep}]

VARIABLES
  status,    \* Deal.status
  link,      \* Deal.payoutId
  salary,    \* User.baseSalary
  payout,    \* the Payout rows
  queued,    \* payouts whose statement was handed to the mail queue
  notices,   \* status messages handed to the mail queue, per payout
  pc, req,   \* where each request stands and what it has read
  counted,   \* history: the deals summed into each payout
  written    \* history: what was written into each payout after its creation

vars == <<status, link, salary, payout, queued, notices, pc, req, counted, written>>

-----------------------------------------------------------------------------
(* Data                                                                    *)

PayoutStatuses == {"DRAFT", "APPROVED", "PAID"}

NoRow == [status |-> "none"]
NoReq == [op |-> "none"]

PayoutRow ==
  [status : PayoutStatuses, manager : Managers, period : Periods,
   base : Nat, commission : Nat, total : Nat,
   approved : BOOLEAN,    \* approvedAt is set
   sent : BOOLEAN]        \* emailSentAt is set

Exists(p) == payout[p] # NoRow

SumOf(ds) == SumFunctionOnSet(Commission, ds)

(* One manager's share of calculateForPeriod.                              *)
Calc == [base : Nat, deals : SUBSET DealIds]
Total(c) == c.base + SumOf(c.deals)

GenerateReq == [period : Periods, left : SUBSET Managers, due : SUBSET Managers,
                calc : [Managers -> Calc]]
RowReq  == [id : PayoutIds, row : PayoutRow, patch : Patches]
StepReq == [id : PayoutIds]
SendReq == [batch : SUBSET PayoutIds, unsent : SUBSET PayoutIds]

Set(h, label, r) ==
  /\ pc' = [pc EXCEPT ![h] = label]
  /\ req' = [req EXCEPT ![h] = r]

Mut_FinishKeepsRequest(h) == Set(h, "idle", req[h])

Finish(h) == Set(h, "idle", NoReq)

-----------------------------------------------------------------------------
(* generate                                                                *)

(* The managers are read first, all of them or the one asked for, and      *)
(* their salaries with them.                                               *)
GenerateBegin(h, ms, per) ==
  /\ pc[h] = "idle"
  /\ Set(h, "generate",
         [period |-> per, left |-> ms, due |-> {},
          calc |-> [m \in Managers |-> [base |-> salary[m], deals |-> {}]]])
  /\ UNCHANGED <<status, link, salary, payout, queued, notices, counted, written>>

Mut_EligibleAnyManager(m, per) ==
  {d \in per : status[d] \in Commissionable /\ link[d] = NoPayout}

Mut_EligibleClaimedToo(m, per) ==
  {d \in per : DealManager[d] = m /\ status[d] \in Commissionable}

(* The deals of the period a payout of manager m may still claim.          *)
Eligible(m, per) ==
  {d \in per : /\ DealManager[d] = m
               /\ status[d] \in Commissionable
               /\ link[d] = NoPayout}

(* One findMany per manager.                                               *)
CalcManager(h, m) ==
  /\ pc[h] = "generate"
  /\ m \in req[h].left
  /\ req' = [req EXCEPT ![h].left = @ \ {m},
                        ![h].due = @ \cup {m},
                        ![h].calc[m].deals = Eligible(m, req[h].period)]
  /\ UNCHANGED <<status, link, salary, payout, queued, notices, pc, counted, written>>

(* A manager with nothing to pay gets no row.                              *)
SkipManager(h, m) ==
  /\ pc[h] = "generate"
  /\ req[h].left = {} /\ m \in req[h].due
  /\ Total(req[h].calc[m]) = 0
  /\ req' = [req EXCEPT ![h].due = @ \ {m}]
  /\ UNCHANGED <<status, link, salary, payout, queued, notices, pc, counted, written>>

Mut_WriteManagerUnlinked(h, m, p) ==
  LET c == req[h].calc[m] IN
  /\ pc[h] = "generate"
  /\ req[h].left = {} /\ m \in req[h].due
  /\ Total(c) # 0
  /\ ~Exists(p)
  /\ payout' = [payout EXCEPT ![p] =
       [status |-> "DRAFT", manager |-> m, period |-> req[h].period,
        base |-> c.base, commission |-> SumOf(c.deals), total |-> Total(c),
        approved |-> FALSE, sent |-> FALSE]]
  /\ counted' = [counted EXCEPT ![p] = c.deals]
  /\ req' = [req EXCEPT ![h].due = @ \ {m}]
  /\ UNCHANGED <<status, link, salary, queued, notices, pc, written>>

(* One transaction per manager: the DRAFT row with the sums computed       *)
(* before, and the link of the deals that were read then.  updateMany does *)
(* not look at their payoutId or status again.                             *)
WriteManager(h, m, p) ==
  LET c == req[h].calc[m] IN
  /\ pc[h] = "generate"
  /\ req[h].left = {} /\ m \in req[h].due
  /\ Total(c) # 0
  /\ ~Exists(p)
  /\ payout' = [payout EXCEPT ![p] =
       [status |-> "DRAFT", manager |-> m, period |-> req[h].period,
        base |-> c.base, commission |-> SumOf(c.deals), total |-> Total(c),
        approved |-> FALSE, sent |-> FALSE]]
  /\ link' = [d \in DealIds |-> IF d \in c.deals THEN p ELSE link[d]]
  /\ counted' = [counted EXCEPT ![p] = c.deals]
  /\ req' = [req EXCEPT ![h].due = @ \ {m}]
  /\ UNCHANGED <<status, salary, queued, notices, pc, written>>

GenerateEnd(h) ==
  /\ pc[h] = "generate"
  /\ req[h].left = {} /\ req[h].due = {}
  /\ Finish(h)
  /\ UNCHANGED <<status, link, salary, payout, queued, notices, counted, written>>

-----------------------------------------------------------------------------
(* update, approve, markPaid                                               *)

Mut_UpdateBeginAnyStatus(h, p, patch) ==
  /\ pc[h] = "idle"
  /\ Exists(p)
  /\ Set(h, "update", [id |-> p, row |-> payout[p], patch |-> patch])
  /\ UNCHANGED <<status, link, salary, payout, queued, notices, counted, written>>

(* Only a DRAFT may be adjusted.                                           *)
UpdateBegin(h, p, patch) ==
  /\ pc[h] = "idle"
  /\ payout[p].status = "DRAFT"
  /\ Set(h, "update", [id |-> p, row |-> payout[p], patch |-> patch])
  /\ UNCHANGED <<status, link, salary, payout, queued, notices, counted, written>>

Patched(new, old) == IF new = Keep THEN old ELSE new

Mut_UpdateWriteKeepsTotal(h) ==
  LET r == req[h]
      b == Patched(r.patch.base, r.row.base)
      c == Patched(r.patch.commission, r.row.commission)
  IN
  /\ pc[h] = "update"
  /\ payout' = [payout EXCEPT ![r.id].base = b,
                              ![r.id].commission = c,
                              ![r.id].total = Patched(r.patch.total, r.row.total)]
  /\ written' = [written EXCEPT ![r.id] = @ \cup {"amounts"}]
  /\ Finish(h)
  /\ UNCHANGED <<status, link, salary, queued, notices, counted>>

(* All three amounts are written, from the body and from the row as read;  *)
(* a total that is not given is the sum of the other two.                  *)
UpdateWrite(h) ==
  LET r == req[h]
      b == Patched(r.patch.base, r.row.base)
      c == Patched(r.patch.commission, r.row.commission)
  IN
  /\ pc[h] = "update"
  /\ payout' = [payout EXCEPT ![r.id].base = b,
                              ![r.id].commission = c,
                              ![r.id].total = Patched(r.patch.total, b + c)]
  /\ written' = [written EXCEPT ![r.id] = @ \cup {"amounts"}]
  /\ Finish(h)
  /\ UNCHANGED <<status, link, salary, queued, notices, counted>>

ApproveBegin(h, p) ==
  /\ pc[h] = "idle"
  /\ payout[p].status = "DRAFT"
  /\ Set(h, "approve", [id |-> p])
  /\ UNCHANGED <<status, link, salary, payout, queued, notices, counted, written>>

(* The row is written whatever its status is by now; the message to the    *)
(* manager is optional and follows the write.                              *)
ApproveWrite(h, notify) ==
  /\ pc[h] = "approve"
  /\ payout' = [payout EXCEPT ![req[h].id].status = "APPROVED",
                              ![req[h].id].approved = TRUE]
  /\ written' = [written EXCEPT ![req[h].id] = @ \cup {"APPROVED"}]
  /\ IF notify THEN Set(h, "tellApproved", req[h]) ELSE Finish(h)
  /\ UNCHANGED <<status, link, salary, queued, notices, counted>>

Mut_PayBeginAnyStatus(h, p) ==
  /\ pc[h] = "idle"
  /\ Exists(p) /\ payout[p].status # "PAID"
  /\ Set(h, "pay", [id |-> p])
  /\ UNCHANGED <<status, link, salary, payout, queued, notices, counted, written>>

Mut_PayBeginTells(h, p) ==
  /\ pc[h] = "idle"
  /\ payout[p].status = "APPROVED"
  /\ Set(h, "pay", [id |-> p])
  /\ notices' = [notices EXCEPT ![p] = @ \cup {"PAID"}]
  /\ UNCHANGED <<status, link, salary, payout, queued, counted, written>>

PayBegin(h, p) ==
  /\ pc[h] = "idle"
  /\ payout[p].status = "APPROVED"
  /\ Set(h, "pay", [id |-> p])
  /\ UNCHANGED <<status, link, salary, payout, queued, notices, counted, written>>

PayWrite(h, notify) ==
  /\ pc[h] = "pay"
  /\ payout' = [payout EXCEPT ![req[h].id].status = "PAID"]
  /\ written' = [written EXCEPT ![req[h].id] = @ \cup {"PAID"}]
  /\ IF notify THEN Set(h, "tellPaid", req[h]) ELSE Finish(h)
  /\ UNCHANGED <<status, link, salary, queued, notices, counted>>

(* enqueueStatusChangedEmail.                                              *)
Tell(h) ==
  /\ pc[h] \in {"tellApproved", "tellPaid"}
  /\ notices' = [notices EXCEPT ![req[h].id] =
                   @ \cup {IF pc[h] = "tellPaid" THEN "PAID" ELSE "APPROVED"}]
  /\ Finish(h)
  /\ UNCHANGED <<status, link, salary, payout, queued, counted, written>>

-----------------------------------------------------------------------------
(* sendEmail and sendBulk                                                  *)

(* sendEmail sends one statement, sendBulk those of exactly one period.    *)
SendBegin(h, ps) ==
  /\ pc[h] = "idle"
  /\ ps # {}
  /\ \A p \in ps : Exists(p)
  /\ Set(h, "send", [batch |-> ps, unsent |-> ps])
  /\ UNCHANGED <<status, link, salary, payout, queued, notices, counted, written>>

OfPeriod(per) == {p \in PayoutIds : Exists(p) /\ payout[p].period = per}

SendOne(h, p) ==
  /\ pc[h] = "send"
  /\ p \in req[h].unsent
  /\ queued' = queued \cup {p}
  /\ req' = [req EXCEPT ![h].unsent = @ \ {p}]
  /\ UNCHANGED <<status, link, salary, payout, notices, pc, counted, written>>

Mut_SendStampEarly(h) ==
  /\ pc[h] = "send"
  /\ payout' = [p \in PayoutIds |->
       IF p \in req[h].batch THEN [payout[p] EXCEPT !.sent = TRUE] ELSE payout[p]]
  /\ Finish(h)
  /\ UNCHANGED <<status, link, salary, queued, notices, counted, written>>

(* emailSentAt is stamped after the whole batch has been queued.           *)
SendStamp(h) ==
  /\ pc[h] = "send"
  /\ req[h].unsent = {}
  /\ payout' = [p \in PayoutIds |->
       IF p \in req[h].batch THEN [payout[p] EXCEPT !.sent = TRUE] ELSE payout[p]]
  /\ Finish(h)
  /\ UNCHANGED <<status, link, salary, queued, notices, counted, written>>

(* A database or queue error, or the end of the process, between two steps *)
(* of a request: what is committed stays.                                  *)
Fail(h) ==
  /\ pc[h] # "idle"
  /\ Finish(h)
  /\ UNCHANGED <<status, link, salary, payout, queued, notices, counted, written>>

-----------------------------------------------------------------------------
(* Other services                                                          *)

(* DealsService.changeStatus, seen from outside.                           *)
MoveDeal(d, to) ==
  /\ to \in NextStatuses[status[d]]
  /\ status' = [status EXCEPT ![d] = to]
  /\ UNCHANGED <<link, salary, payout, queued, notices, pc, req, counted, written>>

(* UsersService.updateManager.                                             *)
SetSalary(m, x) ==
  /\ salary[m] # x
  /\ salary' = [salary EXCEPT ![m] = x]
  /\ UNCHANGED <<status, link, payout, queued, notices, pc, req, counted, written>>

-----------------------------------------------------------------------------
(* The specifications                                                      *)

Init ==
  /\ status \in [DealIds -> {"WAITING_PAYMENT", "PAID"}]
  /\ link = [d \in DealIds |-> NoPayout]
  /\ salary \in [Managers -> Salaries]
  /\ payout = [p \in PayoutIds |-> NoRow]
  /\ queued = {}
  /\ notices = [p \in PayoutIds |-> {}]
  /\ pc = [h \in Handlers |-> "idle"]
  /\ req = [h \in Handlers |-> NoReq]
  /\ counted = [p \in PayoutIds |-> {}]
  /\ written = [p \in PayoutIds |-> {}]

Generate(h) ==
  \/ \E per \in Periods, m \in Managers :
        GenerateBegin(h, Managers, per) \/ GenerateBegin(h, {m}, per)
  \/ \E m \in Managers : CalcManager(h, m) \/ SkipManager(h, m)
  \/ \E m \in Managers, p \in PayoutIds : WriteManager(h, m, p)
  \/ GenerateEnd(h)

Settle(h) ==
  \/ \E p \in PayoutIds : ApproveBegin(h, p) \/ PayBegin(h, p)
  \/ \E p \in PayoutIds, patch \in Patches : UpdateBegin(h, p, patch)
  \/ UpdateWrite(h)
  \/ \E notify \in BOOLEAN : ApproveWrite(h, notify) \/ PayWrite(h, notify)
  \/ Tell(h)

Send(h) ==
  \/ \E p \in PayoutIds : SendBegin(h, {p})
  \/ \E per \in Periods : SendBegin(h, OfPeriod(per))
  \/ \E p \in PayoutIds : SendOne(h, p)
  \/ SendStamp(h)

Next ==
  \/ \E h \in Handlers : Generate(h) \/ Settle(h) \/ Send(h) \/ Fail(h)
  \/ \E d \in DealIds, to \in Statuses : MoveDeal(d, to)
  \/ \E m \in Managers, x \in Salaries : SetSalary(m, x)

Spec == Init /\ [][Next]_vars

(* The environment the code is written for: the owner runs one generate at *)
(* a time and one adjustment, approval or payment of a payout at a time.   *)
(* Nothing in the code enforces it.                                        *)
Settling == {"update", "approve", "pay"}
NoOverlap ==
  \A g, h \in Handlers :
    /\ pc[g] = "generate" /\ pc[h] = "generate" => g = h
    /\ pc[g] \in Settling /\ pc[h] \in Settling /\ req[g].id = req[h].id => g = h

SerialSpec == Init /\ [][Next /\ NoOverlap']_vars

-----------------------------------------------------------------------------
(* Properties of every behaviour                                           *)

Fits(label, r) ==
  \/ label = "idle" /\ r = NoReq
  \/ label = "generate" /\ r \in GenerateReq
  \/ label = "update" /\ r \in RowReq
  \/ label \in {"approve", "pay", "tellApproved", "tellPaid"} /\ r \in StepReq
  \/ label = "send" /\ r \in SendReq

(* The payouts a request is about.                                         *)
Targets(label, r) ==
  IF label \in {"update", "approve", "pay", "tellApproved", "tellPaid"} THEN {r.id}
  ELSE IF label = "send" THEN r.batch ELSE {}

(* Every variable holds a value of its kind, what a request remembers fits *)
(* where it stands, and the payouts it is about exist.                     *)
TypeOK ==
  /\ status \in [DealIds -> Statuses]
  /\ link \in [DealIds -> PayoutIds \cup {NoPayout}]
  /\ salary \in [Managers -> Salaries]
  /\ payout \in [PayoutIds -> PayoutRow \cup {NoRow}]
  /\ queued \subseteq PayoutIds
  /\ notices \in [PayoutIds -> SUBSET {"APPROVED", "PAID"}]
  /\ counted \in [PayoutIds -> SUBSET DealIds]
  /\ written \in [PayoutIds -> SUBSET {"amounts", "APPROVED", "PAID"}]
  /\ DOMAIN pc = Handlers /\ DOMAIN req = Handlers
  /\ \A h \in Handlers : Fits(pc[h], req[h])
  /\ \A h \in Handlers : \A p \in Targets(pc[h], req[h]) : Exists(p)

(* A payout only ever claims deals of its own manager and of its own       *)
(* period, whoever generates what at the same time.                        *)
LinkedToOwnPayout ==
  \A d \in DealIds : link[d] # NoPayout =>
    /\ Exists(link[d])
    /\ payout[link[d]].manager = DealManager[d]
    /\ d \in payout[link[d]].period

(* approvedAt tells the same story as the status, even when an adjustment, *)
(* an approval and a payment of one payout race: nothing is paid that was  *)
(* never approved.                                                         *)
PaidWasApproved ==
  \A p \in PayoutIds : Exists(p) =>
    (payout[p].approved <=> payout[p].status \in {"APPROVED", "PAID"})

(* emailSentAt is only stamped on a payout whose statement was queued,     *)
(* also when a bulk mailing fails halfway.                                 *)
SentWasQueued ==
  \A p \in PayoutIds : Exists(p) /\ payout[p].sent => p \in queued

(* A manager is told of an approval only after an approval of that payout  *)
(* was recorded, and of a payment only after a payment of it was, also     *)
(* when an adjustment, an approval and a payment of one payout race and    *)
(* requests die between their write and their message.                     *)
ToldTheTruth == \A p \in PayoutIds : notices[p] \subseteq written[p]

-----------------------------------------------------------------------------
(* Properties of the serial environment; overlapping requests refute them  *)

(* payouts.service.ts: "Never double-count a deal already claimed by an    *)
(* earlier payout for an overlapping period".                              *)
NeverDoubleCounted ==
  \A p, q \in PayoutIds : p # q => counted[p] \cap counted[q] = {}

(* The deals listed on a statement are the ones its commission was summed  *)
(* from, unless the owner adjusted it by hand.                             *)
StatementAddsUp ==
  \A p \in PayoutIds : Exists(p) /\ "amounts" \notin written[p] =>
    /\ payout[p].commission = SumOf({d \in DealIds : link[d] = p})
    /\ payout[p].total = payout[p].base + payout[p].commission

(* payouts.controller.ts: a payout goes DRAFT, APPROVED, PAID.             *)
Forward == [DRAFT |-> {"DRAFT", "APPROVED"}, APPROVED |-> {"APPROVED", "PAID"},
            PAID |-> {"PAID"}]
StatusForwardOnly ==
  [][\A p \in PayoutIds : Exists(p) =>
       payout'[p].status \in Forward[payout[p].status]]_vars

(* payouts.service.ts: adjustments "only while still DRAFT".               *)
Amounts(p) == <<payout[p].base, payout[p].commission, payout[p].total>>
FrozenAfterApproval ==
  [][\A p \in PayoutIds : Exists(p) /\ payout[p].status # "DRAFT" =>
       Amounts(p)' = Amounts(p)]_vars

(* The statements and claims of the payouts as the database shows them.    *)
StatementOf(p) ==
  IF ~Exists(p) THEN NoRow
  ELSE [status |-> payout[p].status, manager |-> payout[p].manager,
        period |-> payout[p].period, base |-> payout[p].base,
        commission |-> payout[p].commission, total |-> payout[p].total]
Statements == [p \in PayoutIds |-> StatementOf(p)]
Claims == [p \in PayoutIds |-> {d \in DealIds : link[d] = p}]
Earned == [ds \in SUBSET DealIds |-> SumOf(ds)]

Ledger == INSTANCE PayoutLedger WITH row <- Statements, claims <- Claims

(* Between transactions the payouts only show states and steps of          *)
(* PayoutLedger, though their commissions are summed, checked and written  *)
(* in steps of their own: claims are disjoint and whole, and an adjustment *)
(* builds on the amounts the payout has.                                   *)
ImplementsLedger == Ledger!Spec

=============================================================================

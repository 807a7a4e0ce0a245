--------------------------- MODULE PayoutsProofs ---------------------------
(* Proofs about Payouts, for every value of its constants. *)
EXTENDS Payouts, Sums, TLAPS

-----------------------------------------------------------------------------
(* Lemmas about the data                                                   *)

LEMMA NoRowIsNoPayout == \A x \in PayoutRow : x # NoRow /\ x.status # "none"
<1>1. \A x \in PayoutRow : x.status \in PayoutStatuses
  BY DEF PayoutRow
<1>2. "none" \notin PayoutStatuses
  BY DEF PayoutStatuses
<1>. QED
  BY <1>1, <1>2 DEF NoRow

(* Commissions of a set of deals make a natural number.                    *)
LEMMA SumsAreNat == \A ds \in SUBSET DealIds : SumOf(ds) \in Nat
<1>. SUFFICES ASSUME NEW ds \in SUBSET DealIds PROVE SumOf(ds) \in Nat
  OBVIOUS
<1>1. IsFiniteSet(ds) /\ \A d \in ds : Commission[d] \in Nat
  BY FS_Subset, PayoutsAssumption
<1>. QED
  BY <1>1, SumOnSet DEF SumOf

(* Everything a request may remember fits one label only.                  *)
LEMMA FitsLabel ==
  ASSUME NEW label, NEW r, Fits(label, r)
  PROVE  /\ label = "generate" => r \in GenerateReq
         /\ label = "update" => r \in RowReq
         /\ label \in {"approve", "pay", "tellApproved", "tellPaid"} => r \in StepReq
         /\ label = "send" => r \in SendReq
BY DEF Fits

(* A step that moves one request on keeps the others where they are.       *)
LEMMA SetStep ==
  ASSUME TypeOK, NEW h \in Handlers, NEW label, NEW r, Set(h, label, r), Fits(label, r)
  PROVE  /\ DOMAIN pc' = Handlers /\ DOMAIN req' = Handlers
         /\ pc'[h] = label /\ req'[h] = r
         /\ \A g \in Handlers \ {h} : pc'[g] = pc[g] /\ req'[g] = req[g]
         /\ \A g \in Handlers : Fits(pc'[g], req'[g])
<1>1. DOMAIN pc = Handlers /\ DOMAIN req = Handlers
      /\ \A g \in Handlers : Fits(pc[g], req[g])
  BY DEF TypeOK
<1>2. /\ DOMAIN pc' = Handlers /\ DOMAIN req' = Handlers
      /\ pc'[h] = label /\ req'[h] = r
      /\ \A g \in Handlers \ {h} : pc'[g] = pc[g] /\ req'[g] = req[g]
  BY <1>1 DEF Set
<1>. QED
  BY <1>1, <1>2

LEMMA FinishStep ==
  ASSUME TypeOK, NEW h \in Handlers, Finish(h)
  PROVE  /\ DOMAIN pc' = Handlers /\ DOMAIN req' = Handlers
         /\ pc'[h] = "idle" /\ req'[h] = NoReq
         /\ \A g \in Handlers \ {h} : pc'[g] = pc[g] /\ req'[g] = req[g]
         /\ \A g \in Handlers : Fits(pc'[g], req'[g])
<1>1. Fits("idle", NoReq)
  BY DEF Fits
<1>. QED
  BY <1>1, SetStep DEF Finish

(* A step that only changes what one request remembers.                    *)
LEMMA ReqStep ==
  ASSUME TypeOK, NEW h \in Handlers, NEW r, pc' = pc,
         req' = [req EXCEPT ![h] = r], Fits(pc[h], r)
  PROVE  /\ DOMAIN pc' = Handlers /\ DOMAIN req' = Handlers
         /\ req'[h] = r
         /\ \A g \in Handlers \ {h} : req'[g] = req[g]
         /\ \A g \in Handlers : Fits(pc'[g], req'[g])
BY DEF TypeOK

(* Payouts are never deleted, so that requests keep their targets.         *)
LEMMA TargetsKept ==
  ASSUME TypeOK, NEW h \in Handlers,
         \A g \in Handlers \ {h} : pc'[g] = pc[g] /\ req'[g] = req[g],
         \A p \in Targets(pc'[h], req'[h]) : Exists(p)',
         \A p \in PayoutIds : Exists(p) => Exists(p)'
  PROVE  \A g \in Handlers : \A p \in Targets(pc'[g], req'[g]) : Exists(p)'
<1>1. ASSUME NEW g \in Handlers, NEW p \in Targets(pc[g], req[g])
      PROVE  p \in PayoutIds
  <2>1. Fits(pc[g], req[g])
    BY DEF TypeOK
  <2>. QED
    BY <1>1, <2>1, FitsLabel DEF Targets, RowReq, StepReq, SendReq
<1>. QED
  BY <1>1 DEF TypeOK

-----------------------------------------------------------------------------
(* Type correctness                                                        *)

LEMMA InitTypeOK == Init => TypeOK
BY DEF Init, TypeOK, Fits, Statuses, Targets

LEMMA NextTypeOK == TypeOK /\ [Next]_vars => TypeOK'
<1>. SUFFICES ASSUME TypeOK, [Next]_vars PROVE TypeOK'
  OBVIOUS
<1>1. ASSUME NEW h \in Handlers, NEW ms \in SUBSET Managers, NEW per \in Periods,
             GenerateBegin(h, ms, per)
      PROVE  TypeOK'
  <2>. DEFINE r == [period |-> per, left |-> ms, due |-> {},
                    calc |-> [m \in Managers |-> [base |-> salary[m], deals |-> {}]]]
  <2>1. \A m \in Managers : salary[m] \in Nat
    BY PayoutsAssumption DEF TypeOK
  <2>2. r \in GenerateReq
    BY <2>1 DEF GenerateReq, Calc
  <2>3. Fits("generate", r)
    BY <2>2 DEF Fits
  <2>4. Targets("generate", r) = {}
    BY DEF Targets
  <2>5. /\ Set(h, "generate", r)
        /\ UNCHANGED <<status, link, salary, payout, queued, notices, counted, written>>
    BY <1>1 DEF GenerateBegin
  <2>6. /\ DOMAIN pc' = Handlers /\ DOMAIN req' = Handlers
        /\ \A g \in Handlers : Fits(pc'[g], req'[g])
        /\ \A g \in Handlers : \A p \in Targets(pc'[g], req'[g]) : Exists(p)'
    BY <2>3, <2>4, <2>5, SetStep, TargetsKept DEF Exists
  <2>. QED
    BY <2>5, <2>6 DEF TypeOK
<1>2. ASSUME NEW h \in Handlers, NEW m \in Managers, CalcManager(h, m)
      PROVE  TypeOK'
  <2>. DEFINE r == [req[h] EXCEPT !.left = @ \ {m}, !.due = @ \cup {m},
                      !.calc[m].deals = Eligible(m, req[h].period)]
  <2>1. req[h] \in GenerateReq
    BY <1>2, FitsLabel DEF CalcManager, TypeOK
  <2>2. Eligible(m, req[h].period) \in SUBSET DealIds
    BY <2>1, PayoutsAssumption DEF Eligible, GenerateReq
  <2>3. r \in GenerateReq
    <3>1. [req[h].calc EXCEPT ![m].deals = Eligible(m, req[h].period)]
            \in [Managers -> Calc]
      BY <2>1, <2>2 DEF GenerateReq, Calc
    <3>. QED
      BY <2>1, <3>1 DEF GenerateReq
  <2>4. req' = [req EXCEPT ![h] = r]
    BY <1>2, ZenonT(40) DEF CalcManager, TypeOK
  <2>5. Fits(pc[h], r) /\ pc' = pc
    BY <1>2, <2>3 DEF CalcManager, Fits
  <2>6. Targets(pc'[h], r) = {}
    BY <1>2 DEF CalcManager, Targets
  <2>. QED
    BY <1>2, <2>4, <2>5, <2>6, ReqStep, TargetsKept, ZenonT(40) DEF CalcManager, TypeOK, Exists
<1>3. ASSUME NEW h \in Handlers, NEW m \in Managers, pc[h] = "generate", pc' = pc,
             req' = [req EXCEPT ![h].due = @ \ {m}],
             \A p \in PayoutIds : Exists(p) => Exists(p)'
      PROVE  /\ DOMAIN pc' = Handlers /\ DOMAIN req' = Handlers
             /\ \A g \in Handlers : Fits(pc'[g], req'[g])
             /\ \A g \in Handlers : \A p \in Targets(pc'[g], req'[g]) : Exists(p)'
  <2>. DEFINE r == [req[h] EXCEPT !.due = @ \ {m}]
  <2>1. req[h] \in GenerateReq
    BY <1>3, FitsLabel DEF TypeOK
  <2>2. r \in GenerateReq
    BY <2>1 DEF GenerateReq
  <2>3. req' = [req EXCEPT ![h] = r] /\ Fits(pc[h], r)
    BY <1>3, <2>2 DEF TypeOK, Fits
  <2>4. Targets(pc'[h], r) = {}
    BY <1>3 DEF Targets
  <2>. QED
    BY <1>3, <2>3, <2>4, ReqStep, TargetsKept
<1>4. ASSUME NEW h \in Handlers, NEW m \in Managers, SkipManager(h, m)
      PROVE  TypeOK'
  BY <1>3, <1>4 DEF SkipManager, TypeOK, Exists
<1>5. ASSUME NEW h \in Handlers, NEW m \in Managers, NEW p \in PayoutIds,
             WriteManager(h, m, p)
      PROVE  TypeOK'
  <2>. DEFINE c == req[h].calc[m]
  <2>1. req[h] \in GenerateReq
    BY <1>5, FitsLabel DEF WriteManager, TypeOK
  <2>2. c.base \in Nat /\ c.deals \in SUBSET DealIds /\ req[h].period \in Periods
    BY <2>1 DEF GenerateReq, Calc
  <2>3. SumOf(c.deals) \in Nat
    BY <2>2, SumsAreNat
  <2>4. Total(c) \in Nat
    BY <2>2, <2>3 DEF Total
  <2>5. payout' \in [PayoutIds -> PayoutRow \cup {NoRow}]
    BY <1>5, <2>2, <2>3, <2>4 DEF WriteManager, TypeOK, PayoutRow, PayoutStatuses
  <2>6. link' \in [DealIds -> PayoutIds \cup {NoPayout}]
    BY <1>5 DEF WriteManager, TypeOK
  <2>7. counted' \in [PayoutIds -> SUBSET DealIds]
    BY <1>5, <2>2 DEF WriteManager, TypeOK
  <2>8. \A q \in PayoutIds : Exists(q) => Exists(q)'
    BY <1>5 DEF WriteManager, TypeOK, Exists
  <2>. QED
    BY <1>3, <1>5, <2>5, <2>6, <2>7, <2>8 DEF WriteManager, TypeOK
<1>6. ASSUME NEW h \in Handlers, Finish(h),
             UNCHANGED <<status, link, salary, payout, queued, notices, counted, written>>
      PROVE  TypeOK'
  <2>1. Targets(pc'[h], req'[h]) = {}
    BY <1>6, FinishStep DEF Targets
  <2>. QED
    BY <1>6, <2>1, FinishStep, TargetsKept DEF TypeOK, Exists
<1>7. ASSUME NEW h \in Handlers, GenerateEnd(h) \/ Fail(h)
      PROVE  TypeOK'
  BY <1>6, <1>7 DEF GenerateEnd, Fail
<1>8. ASSUME NEW h \in Handlers, NEW p \in PayoutIds, NEW patch \in Patches,
             UpdateBegin(h, p, patch)
      PROVE  TypeOK'
  <2>1. payout[p] \in PayoutRow
    BY <1>8 DEF UpdateBegin, TypeOK, NoRow
  <2>2. Fits("update", [id |-> p, row |-> payout[p], patch |-> patch])
    BY <2>1 DEF Fits, RowReq
  <2>3. Targets("update", [id |-> p, row |-> payout[p], patch |-> patch]) = {p}
    BY DEF Targets
  <2>. QED
    BY <1>8, <2>1, <2>2, <2>3, SetStep, TargetsKept, NoRowIsNoPayout
    DEF UpdateBegin, TypeOK, Exists
<1>9. ASSUME NEW h \in Handlers, NEW p \in PayoutIds,
             ApproveBegin(h, p) \/ PayBegin(h, p)
      PROVE  TypeOK'
  <2>1. \A l \in {"approve", "pay"} : Fits(l, [id |-> p])
    BY DEF Fits, StepReq
  <2>2. \A l \in {"approve", "pay"} : Targets(l, [id |-> p]) = {p}
    BY DEF Targets
  <2>3. payout[p] # NoRow
    BY <1>9 DEF ApproveBegin, PayBegin, NoRow
  <2>. QED
    BY <1>9, <2>1, <2>2, <2>3, SetStep, TargetsKept
    DEF ApproveBegin, PayBegin, TypeOK, Exists
<1>10. ASSUME NEW h \in Handlers, UpdateWrite(h)
       PROVE  TypeOK'
  <2>. DEFINE r == req[h]
              b == Patched(r.patch.base, r.row.base)
              c == Patched(r.patch.commission, r.row.commission)
              t == Patched(r.patch.total, b + c)
              row == [payout[r.id] EXCEPT !.base = b, !.commission = c, !.total = t]
  <2>1. r \in RowReq
    BY <1>10, FitsLabel DEF UpdateWrite, TypeOK
  <2>2. r.id \in PayoutIds /\ r.row \in PayoutRow /\ r.patch \in Patches
    BY <2>1 DEF RowReq
  <2>3. b \in Nat /\ c \in Nat
    BY <2>2, PatchesAssumption, PayoutsAssumption DEF Patched, PayoutRow
  <2>4. t \in Nat
    BY <2>2, <2>3, PatchesAssumption, PayoutsAssumption DEF Patched
  <2>5. payout[r.id] \in PayoutRow
    BY <1>10, <2>2 DEF UpdateWrite, TypeOK, Targets, Exists
  <2>6. row \in PayoutRow
    BY <2>3, <2>4, <2>5 DEF PayoutRow
  <2>7. payout' = [payout EXCEPT ![r.id] = row]
    BY <1>10, <2>2, <2>5 DEF UpdateWrite, TypeOK, PayoutRow
  <2>8. written' \in [PayoutIds -> SUBSET {"amounts", "APPROVED", "PAID"}]
    BY <1>10, <2>2 DEF UpdateWrite, TypeOK
  <2>9. \A p \in PayoutIds : Exists(p) => Exists(p)'
    BY <2>2, <2>6, <2>7, NoRowIsNoPayout DEF TypeOK, Exists
  <2>10. Targets(pc'[h], req'[h]) = {} /\ Finish(h)
    BY <1>10, FinishStep DEF UpdateWrite, Targets
  <2>. QED
    BY <1>10, <2>2, <2>6, <2>7, <2>8, <2>9, <2>10, FinishStep, TargetsKept
    DEF UpdateWrite, TypeOK
<1>11. ASSUME NEW h \in Handlers, NEW notify \in BOOLEAN,
              ApproveWrite(h, notify) \/ PayWrite(h, notify)
       PROVE  TypeOK'
  <2>. DEFINE r == req[h]
  <2>1. r \in StepReq
    BY <1>11, FitsLabel DEF ApproveWrite, PayWrite, TypeOK
  <2>2. r.id \in PayoutIds /\ payout[r.id] \in PayoutRow
    BY <1>11, <2>1 DEF StepReq, ApproveWrite, PayWrite, TypeOK, Targets, Exists
  <2>3. PICK row \in PayoutRow : payout' = [payout EXCEPT ![r.id] = row]
    <3>1. /\ [payout[r.id] EXCEPT !.status = "APPROVED", !.approved = TRUE] \in PayoutRow
          /\ [payout[r.id] EXCEPT !.status = "PAID"] \in PayoutRow
      BY <2>2 DEF PayoutRow, PayoutStatuses
    <3>2. \/ payout' = [payout EXCEPT ![r.id] =
                  [payout[r.id] EXCEPT !.status = "APPROVED", !.approved = TRUE]]
          \/ payout' = [payout EXCEPT ![r.id] = [payout[r.id] EXCEPT !.status = "PAID"]]
      BY <1>11, <2>2 DEF ApproveWrite, PayWrite, TypeOK, PayoutRow
    <3>. QED
      BY <3>1, <3>2
  <2>4. \A p \in PayoutIds : Exists(p) => Exists(p)'
    BY <2>2, <2>3, NoRowIsNoPayout DEF TypeOK, Exists
  <2>5. payout'[r.id] # NoRow
    BY <2>2, <2>3, NoRowIsNoPayout DEF TypeOK
  <2>6. PICK label \in {"idle", "tellApproved", "tellPaid"} :
          \/ label = "idle" /\ Finish(h)
          \/ label # "idle" /\ Set(h, label, r)
    BY <1>11 DEF ApproveWrite, PayWrite
  <2>7. /\ DOMAIN pc' = Handlers /\ DOMAIN req' = Handlers
        /\ \A g \in Handlers \ {h} : pc'[g] = pc[g] /\ req'[g] = req[g]
        /\ \A g \in Handlers : Fits(pc'[g], req'[g])
        /\ Targets(pc'[h], req'[h]) \subseteq {r.id}
    <3>1. CASE label = "idle"
      BY <2>6, <3>1, FinishStep DEF Targets
    <3>2. CASE label # "idle"
      <4>1. Fits(label, r)
        BY <2>1, <3>2 DEF Fits
      <4>. QED
        BY <2>6, <3>2, <4>1, SetStep DEF Targets
    <3>. QED
      BY <3>1, <3>2
  <2>8. \A g \in Handlers : \A p \in Targets(pc'[g], req'[g]) : Exists(p)'
    BY <2>4, <2>5, <2>7, TargetsKept DEF Exists
  <2>9. written' \in [PayoutIds -> SUBSET {"amounts", "APPROVED", "PAID"}]
    BY <1>11, <2>2 DEF ApproveWrite, PayWrite, TypeOK
  <2>. QED
    BY <1>11, <2>2, <2>3, <2>7, <2>8, <2>9 DEF ApproveWrite, PayWrite, TypeOK
<1>12. ASSUME NEW h \in Handlers, Tell(h)
       PROVE  TypeOK'
  <2>1. req[h].id \in PayoutIds
    BY <1>12, FitsLabel DEF Tell, TypeOK, StepReq
  <2>2. notices' \in [PayoutIds -> SUBSET {"APPROVED", "PAID"}]
    BY <1>12, <2>1 DEF Tell, TypeOK
  <2>3. Finish(h)
    BY <1>12 DEF Tell
  <2>4. Targets(pc'[h], req'[h]) = {}
    BY <2>3, FinishStep DEF Targets
  <2>. QED
    BY <1>12, <2>2, <2>3, <2>4, FinishStep, TargetsKept DEF Tell, TypeOK, Exists
<1>13. ASSUME NEW h \in Handlers, NEW ps \in SUBSET PayoutIds, SendBegin(h, ps)
       PROVE  TypeOK'
  <2>1. Fits("send", [batch |-> ps, unsent |-> ps])
    BY DEF Fits, SendReq
  <2>2. Targets("send", [batch |-> ps, unsent |-> ps]) = ps
    BY DEF Targets
  <2>. QED
    BY <1>13, <2>1, <2>2, SetStep, TargetsKept DEF SendBegin, TypeOK, Exists
<1>14. ASSUME NEW h \in Handlers, NEW p \in PayoutIds, SendOne(h, p)
       PROVE  TypeOK'
  <2>. DEFINE r == [req[h] EXCEPT !.unsent = @ \ {p}]
  <2>1. req[h] \in SendReq
    BY <1>14, FitsLabel DEF SendOne, TypeOK
  <2>2. r \in SendReq
    BY <2>1 DEF SendReq
  <2>3. req' = [req EXCEPT ![h] = r] /\ pc' = pc /\ Fits(pc[h], r)
    BY <1>14, <2>2 DEF SendOne, TypeOK, Fits
  <2>4. Targets(pc'[h], r) = Targets(pc[h], req[h])
    BY <1>14, <2>1 DEF SendOne, Targets, SendReq
  <2>5. \A g \in Handlers : \A q \in Targets(pc'[g], req'[g]) : Exists(q)'
    BY <1>14, <2>3, <2>4, ReqStep, TargetsKept DEF SendOne, TypeOK, Exists
  <2>. QED
    BY <1>14, <2>3, <2>5, ReqStep DEF SendOne, TypeOK
<1>15. ASSUME NEW h \in Handlers, SendStamp(h)
       PROVE  TypeOK'
  <2>. DEFINE b == req[h].batch
  <2>1. b \subseteq PayoutIds /\ \A p \in b : payout[p] # NoRow
    BY <1>15, FitsLabel DEF SendStamp, TypeOK, SendReq, Targets, Exists
  <2>2a. \A p \in b : payout[p] \in PayoutRow
    BY <2>1 DEF TypeOK
  <2>2b. \A x \in PayoutRow : [x EXCEPT !.sent = TRUE] \in PayoutRow
    BY DEF PayoutRow
  <2>2. \A p \in b : [payout[p] EXCEPT !.sent = TRUE] \in PayoutRow
    BY <2>2a, <2>2b
  <2>3. payout' \in [PayoutIds -> PayoutRow \cup {NoRow}]
    BY <1>15, <2>2 DEF SendStamp, TypeOK
  <2>4. \A p \in PayoutIds : Exists(p) => Exists(p)'
    BY <1>15, <2>2, NoRowIsNoPayout DEF SendStamp, TypeOK, Exists
  <2>5. Finish(h)
    BY <1>15 DEF SendStamp
  <2>6. Targets(pc'[h], req'[h]) = {}
    BY <2>5, FinishStep DEF Targets
  <2>. QED
    BY <1>15, <2>3, <2>4, <2>5, <2>6, FinishStep, TargetsKept DEF SendStamp, TypeOK
<1>16. ASSUME NEW d \in DealIds, NEW to \in Statuses, MoveDeal(d, to)
       PROVE  TypeOK'
  BY <1>16 DEF MoveDeal, TypeOK, Exists
<1>17. ASSUME NEW m \in Managers, NEW x \in Salaries, SetSalary(m, x)
       PROVE  TypeOK'
  BY <1>17 DEF SetSalary, TypeOK, Exists
<1>18. CASE UNCHANGED vars
  BY <1>18 DEF vars, TypeOK, Exists
<1>19. ASSUME NEW per \in Periods
       PROVE  OfPeriod(per) \in SUBSET PayoutIds
  BY DEF OfPeriod
<1>. QED
  BY <1>1, <1>2, <1>4, <1>5, <1>7, <1>8, <1>9, <1>10, <1>11, <1>12, <1>13,
     <1>14, <1>15, <1>16, <1>17, <1>18, <1>19 DEF Next, Generate, Settle, Send

(* The variables always hold values of their kinds.                        *)
THEOREM TypeCorrect == Spec => []TypeOK
BY InitTypeOK, NextTypeOK, PTL DEF Spec

-----------------------------------------------------------------------------
(* What no step does to a row                                              *)

(* The actions that write Payout rows.                                     *)
LEMMA PayoutWriters ==
  ASSUME [Next]_vars
  PROVE  \/ UNCHANGED payout
         \/ \E h \in Handlers : \E m \in Managers, q \in PayoutIds : WriteManager(h, m, q)
         \/ \E h \in Handlers : \E notify \in BOOLEAN :
              UpdateWrite(h) \/ ApproveWrite(h, notify) \/ PayWrite(h, notify)
         \/ \E h \in Handlers : SendStamp(h)
<1>1. ASSUME NEW h \in Handlers, Generate(h)
      PROVE  \/ UNCHANGED payout
             \/ \E m \in Managers, q \in PayoutIds : WriteManager(h, m, q)
  BY <1>1 DEF Generate, GenerateBegin, CalcManager, SkipManager, GenerateEnd
<1>2. ASSUME NEW h \in Handlers, Settle(h)
      PROVE  \/ UNCHANGED payout
             \/ \E notify \in BOOLEAN :
                  UpdateWrite(h) \/ ApproveWrite(h, notify) \/ PayWrite(h, notify)
  BY <1>2 DEF Settle, UpdateBegin, ApproveBegin, PayBegin, Tell
<1>3. ASSUME NEW h \in Handlers, Send(h)
      PROVE  UNCHANGED payout \/ SendStamp(h)
  BY <1>3 DEF Send, SendBegin, SendOne
<1>. QED
  BY <1>1, <1>2, <1>3 DEF Next, Fail, MoveDeal, SetSalary, vars

(* A payout keeps its manager and period, and an approval stays recorded.  *)
LEMMA RowsKept ==
  ASSUME TypeOK, [Next]_vars, NEW p \in PayoutIds, Exists(p)
  PROVE  /\ Exists(p)'
         /\ payout'[p].manager = payout[p].manager
         /\ payout'[p].period = payout[p].period
         /\ payout[p].approved => payout'[p].approved
<1>1. payout[p] \in PayoutRow
  BY DEF TypeOK, Exists
<1>2. TypeOK'
  BY NextTypeOK
<1>3. CASE UNCHANGED payout
  BY <1>3 DEF Exists
<1>4. ASSUME NEW h \in Handlers, NEW m \in Managers, NEW q \in PayoutIds,
             WriteManager(h, m, q)
      PROVE  payout'[p] = payout[p]
  BY <1>4 DEF WriteManager, TypeOK, Exists
<1>5. ASSUME NEW h \in Handlers, NEW notify \in BOOLEAN,
             UpdateWrite(h) \/ ApproveWrite(h, notify) \/ PayWrite(h, notify)
      PROVE  /\ payout'[p].manager = payout[p].manager
             /\ payout'[p].period = payout[p].period
             /\ payout[p].approved => payout'[p].approved
             /\ payout'[p].status \in PayoutStatuses
  BY <1>1, <1>5 DEF UpdateWrite, ApproveWrite, PayWrite, TypeOK, PayoutRow, PayoutStatuses
<1>6. ASSUME NEW h \in Handlers, SendStamp(h)
      PROVE  /\ payout'[p].manager = payout[p].manager
             /\ payout'[p].period = payout[p].period
             /\ payout[p].approved => payout'[p].approved
             /\ payout'[p].status \in PayoutStatuses
  BY <1>1, <1>6 DEF SendStamp, TypeOK, PayoutRow
<1>7. payout'[p].status \in PayoutStatuses => Exists(p)'
  BY DEF Exists, NoRow, PayoutStatuses
<1>8. CASE \E h \in Handlers : \E m \in Managers, q \in PayoutIds : WriteManager(h, m, q)
  BY <1>4, <1>8 DEF Exists
<1>. QED
  BY <1>3, <1>5, <1>6, <1>7, <1>8, PayoutWriters

-----------------------------------------------------------------------------
(* A payout claims deals of its own manager and period                     *)

(* What generate remembers for a manager are deals of that manager.        *)
CalcInv ==
  \A h \in Handlers : pc[h] = "generate" =>
    \A m \in Managers : \A d \in req[h].calc[m].deals :
      d \in req[h].period /\ DealManager[d] = m

(* The steps of generate that a request that is generating has just made.  *)
LEMMA GenerateSteps ==
  ASSUME TypeOK, [Next]_vars, NEW g \in Handlers, pc'[g] = "generate"
  PROVE  \/ pc'[g] = pc[g] /\ req'[g] = req[g]
         \/ \E h \in Handlers : g = h /\ \E ms, per : GenerateBegin(h, ms, per)
         \/ \E h \in Handlers : g = h /\ \E n \in Managers : CalcManager(h, n)
         \/ \E h \in Handlers : g = h /\ \E n \in Managers :
              SkipManager(h, n) \/ \E p \in PayoutIds : WriteManager(h, n, p)
<1>1. ASSUME NEW h \in Handlers, NEW label, NEW r, Set(h, label, r), label # "generate"
      PROVE  pc'[g] = pc[g] /\ req'[g] = req[g]
  BY <1>1 DEF Set, TypeOK
<1>2. ASSUME NEW h \in Handlers, Finish(h)
      PROVE  pc'[g] = pc[g] /\ req'[g] = req[g]
  BY <1>1, <1>2 DEF Finish
<1>3. ASSUME NEW h \in Handlers, Generate(h), g # h
      PROVE  pc'[g] = pc[g] /\ req'[g] = req[g]
  BY <1>3 DEF Generate, GenerateBegin, CalcManager, SkipManager, WriteManager,
     GenerateEnd, Finish, Set, TypeOK
<1>4. ASSUME NEW h \in Handlers, Generate(h)
      PROVE  \/ \E ms, per : GenerateBegin(h, ms, per)
             \/ \E n \in Managers : CalcManager(h, n) \/ SkipManager(h, n)
             \/ \E n \in Managers, p \in PayoutIds : WriteManager(h, n, p)
             \/ Finish(h)
  BY <1>4 DEF Generate, GenerateEnd
<1>5. ASSUME NEW h \in Handlers, Settle(h)
      PROVE  pc'[g] = pc[g] /\ req'[g] = req[g]
  BY <1>1, <1>2, <1>5 DEF Settle, UpdateBegin, ApproveBegin, PayBegin, UpdateWrite,
     ApproveWrite, PayWrite, Tell
<1>6. ASSUME NEW h \in Handlers, NEW p \in PayoutIds, SendOne(h, p)
      PROVE  pc'[g] = pc[g] /\ req'[g] = req[g]
  BY <1>6 DEF SendOne, TypeOK
<1>7. ASSUME NEW h \in Handlers, Send(h)
      PROVE  pc'[g] = pc[g] /\ req'[g] = req[g]
  BY <1>1, <1>2, <1>6, <1>7 DEF Send, SendBegin, SendStamp
<1>. QED
  BY <1>2, <1>3, <1>4, <1>5, <1>7 DEF Next, Fail, MoveDeal, SetSalary, vars

LEMMA NextCalcInv == TypeOK /\ CalcInv /\ [Next]_vars => CalcInv'
<1>. SUFFICES ASSUME TypeOK, CalcInv, [Next]_vars,
                     NEW g \in Handlers, pc'[g] = "generate",
                     NEW m \in Managers, NEW d \in req'[g].calc[m].deals
              PROVE  d \in req'[g].period /\ DealManager[d] = m
  BY DEF CalcInv
<1>1. CASE pc'[g] = pc[g] /\ req'[g] = req[g]
  BY <1>1 DEF CalcInv
<1>2. ASSUME NEW h \in Handlers, NEW ms, NEW per, GenerateBegin(h, ms, per), g = h
      PROVE  FALSE
  BY <1>2 DEF GenerateBegin, Set, TypeOK
<1>3. ASSUME NEW h \in Handlers, NEW n \in Managers, CalcManager(h, n), g = h
      PROVE  d \in req'[g].period /\ DealManager[d] = m
  <2>1. req[h] \in GenerateReq
    BY <1>3, FitsLabel DEF CalcManager, TypeOK
  <2>2. /\ req'[h].period = req[h].period
        /\ req'[h].calc[m].deals = IF m = n THEN Eligible(m, req[h].period)
                                            ELSE req[h].calc[m].deals
    BY <1>3, <2>1 DEF CalcManager, TypeOK, GenerateReq, Calc
  <2>. QED
    BY <1>3, <2>2 DEF CalcManager, CalcInv, Eligible
<1>4. ASSUME NEW h \in Handlers, NEW n \in Managers, g = h,
             SkipManager(h, n) \/ \E p \in PayoutIds : WriteManager(h, n, p)
      PROVE  d \in req'[g].period /\ DealManager[d] = m
  <2>1. req[h] \in GenerateReq
    BY <1>4, FitsLabel DEF SkipManager, WriteManager, TypeOK
  <2>2. req'[h].period = req[h].period /\ req'[h].calc = req[h].calc
    BY <1>4, <2>1 DEF SkipManager, WriteManager, TypeOK, GenerateReq
  <2>. QED
    BY <1>4, <2>2 DEF SkipManager, WriteManager, CalcInv
<1>5. \/ pc'[g] = pc[g] /\ req'[g] = req[g]
      \/ \E h \in Handlers : g = h /\ \E ms, per : GenerateBegin(h, ms, per)
      \/ \E h \in Handlers : g = h /\ \E n \in Managers : CalcManager(h, n)
      \/ \E h \in Handlers : g = h /\ \E n \in Managers :
           SkipManager(h, n) \/ \E p \in PayoutIds : WriteManager(h, n, p)
  BY GenerateSteps
<1>. QED
  BY <1>1, <1>2, <1>3, <1>4, <1>5

LEMMA NextLinked ==
  TypeOK /\ CalcInv /\ LinkedToOwnPayout /\ [Next]_vars => LinkedToOwnPayout'
<1>. SUFFICES ASSUME TypeOK, CalcInv, LinkedToOwnPayout, [Next]_vars,
                     NEW d \in DealIds, link'[d] # NoPayout
              PROVE  /\ Exists(link[d])'
                     /\ payout'[link'[d]].manager = DealManager[d]
                     /\ d \in payout'[link'[d]].period
  BY DEF LinkedToOwnPayout
<1>1. CASE link'[d] = link[d]
  <2>1. link[d] \in PayoutIds
    BY <1>1 DEF TypeOK
  <2>. QED
    BY <1>1, <2>1, RowsKept DEF LinkedToOwnPayout, Exists
<1>2. ASSUME NEW h \in Handlers, NEW m \in Managers, NEW p \in PayoutIds,
             WriteManager(h, m, p), link'[d] # link[d]
      PROVE  /\ Exists(link[d])'
             /\ payout'[link'[d]].manager = DealManager[d]
             /\ d \in payout'[link'[d]].period
  <2>1. link'[d] = p /\ d \in req[h].calc[m].deals
    BY <1>2 DEF WriteManager
  <2>2. payout'[p].status = "DRAFT" /\ payout'[p].manager = m
        /\ payout'[p].period = req[h].period
    BY <1>2 DEF WriteManager, TypeOK
  <2>3. DealManager[d] = m /\ d \in req[h].period
    BY <1>2, <2>1 DEF WriteManager, CalcInv
  <2>. QED
    BY <2>1, <2>2, <2>3 DEF Exists, NoRow
<1>3. \/ UNCHANGED link
      \/ \E h \in Handlers : \E m \in Managers, p \in PayoutIds : WriteManager(h, m, p)
  <2>1. ASSUME NEW h \in Handlers, Generate(h)
        PROVE  \/ UNCHANGED link
               \/ \E m \in Managers, p \in PayoutIds : WriteManager(h, m, p)
    BY <2>1 DEF Generate, GenerateBegin, CalcManager, SkipManager, GenerateEnd
  <2>2. ASSUME NEW h \in Handlers, Settle(h) \/ Send(h)
        PROVE  UNCHANGED link
    BY <2>2 DEF Settle, UpdateBegin, UpdateWrite, ApproveBegin, ApproveWrite, PayBegin,
       PayWrite, Tell, Send, SendBegin, SendOne, SendStamp
  <2>. QED
    BY <2>1, <2>2 DEF Next, Fail, MoveDeal, SetSalary, vars
<1>. QED
  BY <1>1, <1>2, <1>3

(* Whatever overlaps, a payout only claims deals of its manager and period. *)
THEOREM ClaimsAreOwn == Spec => []LinkedToOwnPayout
<1>1. Init => TypeOK /\ CalcInv /\ LinkedToOwnPayout
  BY InitTypeOK DEF Init, CalcInv, LinkedToOwnPayout
<1>2. TypeOK /\ CalcInv /\ LinkedToOwnPayout /\ [Next]_vars
        => (TypeOK /\ CalcInv /\ LinkedToOwnPayout)'
  BY NextTypeOK, NextCalcInv, NextLinked
<1>. QED
  BY <1>1, <1>2, PTL DEF Spec

-----------------------------------------------------------------------------
(* Approvals, payments and what managers are told                          *)

(* A request that is to pay, or to tell of it, is about an approved payout. *)
TellInv ==
  \A h \in Handlers : pc[h] \in {"pay", "tellApproved", "tellPaid"} =>
    payout[req[h].id].approved

(* A request comes to pay or to tell when it checks an APPROVED payout or   *)
(* writes one.                                                             *)
LEMMA NewTellers ==
  ASSUME TypeOK, [Next]_vars, NEW g \in Handlers,
         pc'[g] \in {"pay", "tellApproved", "tellPaid"}
  PROVE  \/ pc'[g] = pc[g] /\ req'[g] = req[g]
         \/ \E h \in Handlers : \E p \in PayoutIds : PayBegin(h, p)
         \/ \E h \in Handlers : \E notify \in BOOLEAN :
              ApproveWrite(h, notify) \/ PayWrite(h, notify)
<1>. DEFINE Stays == pc'[g] = pc[g] /\ req'[g] = req[g]
<1>1. ASSUME NEW h \in Handlers, NEW label, NEW r, Set(h, label, r),
             label \notin {"pay", "tellApproved", "tellPaid"}
      PROVE  Stays
  BY <1>1 DEF Set, TypeOK
<1>2. ASSUME NEW h \in Handlers, Finish(h)
      PROVE  Stays
  BY <1>1, <1>2 DEF Finish
<1>3. ASSUME NEW h \in Handlers, pc' = pc, pc[h] \in {"generate", "send"},
             \A k \in Handlers \ {h} : req'[k] = req[k]
      PROVE  Stays
  BY <1>3
<1>4. ASSUME NEW h \in Handlers, Generate(h)
      PROVE  Stays
  <2>1. ASSUME NEW m \in Managers, NEW per, NEW ms, GenerateBegin(h, ms, per)
        PROVE  Stays
    BY <2>1, <1>1 DEF GenerateBegin
  <2>2. ASSUME NEW m \in Managers,
               \/ CalcManager(h, m) \/ SkipManager(h, m)
               \/ \E p \in PayoutIds : WriteManager(h, m, p)
        PROVE  Stays
    BY <2>2, <1>3 DEF CalcManager, SkipManager, WriteManager, TypeOK
  <2>. QED
    BY <1>4, <2>1, <2>2, <1>2 DEF Generate, GenerateEnd
<1>5. ASSUME NEW h \in Handlers, Settle(h)
      PROVE  \/ Stays
             \/ \E p \in PayoutIds : PayBegin(h, p)
             \/ \E notify \in BOOLEAN : ApproveWrite(h, notify) \/ PayWrite(h, notify)
  <2>1. ASSUME NEW p \in PayoutIds, NEW patch \in Patches, UpdateBegin(h, p, patch)
        PROVE  Stays
    BY <2>1, <1>1 DEF UpdateBegin
  <2>2. ASSUME NEW p \in PayoutIds, ApproveBegin(h, p)
        PROVE  Stays
    BY <2>2, <1>1 DEF ApproveBegin
  <2>3. ASSUME UpdateWrite(h) \/ Tell(h)
        PROVE  Stays
    BY <2>3, <1>2 DEF UpdateWrite, Tell
  <2>. QED
    BY <1>5, <2>1, <2>2, <2>3 DEF Settle
<1>6. ASSUME NEW h \in Handlers, NEW p \in PayoutIds, SendOne(h, p)
      PROVE  Stays
  BY <1>3, <1>6 DEF SendOne, TypeOK
<1>7. ASSUME NEW h \in Handlers, Send(h)
      PROVE  Stays
  <2>1. ASSUME NEW ps, SendBegin(h, ps)
        PROVE  Stays
    BY <2>1, <1>1 DEF SendBegin
  <2>2. ASSUME SendStamp(h)
        PROVE  Stays
    BY <2>2, <1>2 DEF SendStamp
  <2>. QED
    BY <1>6, <1>7, <2>1, <2>2 DEF Send
<1>. QED
  BY <1>2, <1>4, <1>5, <1>7 DEF Next, Fail, MoveDeal, SetSalary, vars

LEMMA NextTellInv ==
  TypeOK /\ PaidWasApproved /\ TellInv /\ [Next]_vars => TellInv'
<1>. SUFFICES ASSUME TypeOK, PaidWasApproved, TellInv, [Next]_vars,
                     NEW g \in Handlers, pc'[g] \in {"pay", "tellApproved", "tellPaid"}
              PROVE  payout'[req'[g].id].approved
  BY DEF TellInv
<1>. DEFINE Stays == pc'[g] = pc[g] /\ req'[g] = req[g]
<1>1. CASE Stays
  <2>1. req[g].id \in PayoutIds /\ Exists(req[g].id)
    BY <1>1, FitsLabel DEF TypeOK, StepReq, Targets
  <2>. QED
    BY <1>1, <2>1, RowsKept DEF TellInv
<1>2. ASSUME NEW h \in Handlers, NEW p \in PayoutIds, PayBegin(h, p), ~Stays
      PROVE  payout'[req'[g].id].approved
  <2>1. g = h /\ req'[g].id = p
    BY <1>2 DEF PayBegin, Set, TypeOK
  <2>2. payout'[p] = payout[p] /\ Exists(p) /\ payout[p].status = "APPROVED"
    BY <1>2 DEF PayBegin, Exists, NoRow
  <2>. QED
    BY <2>1, <2>2 DEF PaidWasApproved
<1>3. ASSUME NEW h \in Handlers, NEW notify \in BOOLEAN, ~Stays,
             ApproveWrite(h, notify) \/ PayWrite(h, notify)
      PROVE  payout'[req'[g].id].approved
  <2>1. g = h /\ req'[g] = req[h]
    BY <1>3 DEF ApproveWrite, PayWrite, Finish, Set, TypeOK
  <2>2. req[h].id \in PayoutIds /\ Exists(req[h].id)
    BY <1>3, FitsLabel DEF ApproveWrite, PayWrite, TypeOK, StepReq, Targets
  <2>3. payout[req[h].id] \in PayoutRow
    BY <2>2 DEF TypeOK, Exists
  <2>4. CASE ApproveWrite(h, notify)
    BY <2>1, <2>2, <2>3, <2>4 DEF ApproveWrite, TypeOK, PayoutRow
  <2>5. CASE PayWrite(h, notify)
    BY <2>1, <2>2, <2>5, RowsKept DEF PayWrite, TellInv
  <2>. QED
    BY <1>3, <2>4, <2>5
<1>. QED
  BY <1>1, <1>2, <1>3, NewTellers

LEMMA NextPaidWasApproved ==
  TypeOK /\ PaidWasApproved /\ TellInv /\ [Next]_vars => PaidWasApproved'
<1>. SUFFICES ASSUME TypeOK, PaidWasApproved, TellInv, [Next]_vars,
                     NEW p \in PayoutIds, payout'[p] # NoRow
              PROVE  payout'[p].approved <=> payout'[p].status \in {"APPROVED", "PAID"}
  BY DEF PaidWasApproved, Exists
<1>1. CASE payout'[p] = payout[p]
  BY <1>1 DEF PaidWasApproved, Exists
<1>2. ASSUME NEW h \in Handlers, NEW m \in Managers, NEW q \in PayoutIds,
             WriteManager(h, m, q), payout'[p] # payout[p]
      PROVE  payout'[p].approved = FALSE /\ payout'[p].status = "DRAFT"
  BY <1>2 DEF WriteManager, TypeOK
<1>3. ASSUME NEW h \in Handlers, UpdateWrite(h), payout'[p] # payout[p]
      PROVE  payout'[p].approved <=> payout'[p].status \in {"APPROVED", "PAID"}
  <2>1. req[h].id = p /\ Exists(p) /\ payout[p] \in PayoutRow
    BY <1>3 DEF UpdateWrite, TypeOK, Targets, Exists
  <2>2. payout'[p].approved = payout[p].approved /\ payout'[p].status = payout[p].status
    BY <1>3, <2>1 DEF UpdateWrite, TypeOK, PayoutRow
  <2>. QED
    BY <2>1, <2>2 DEF PaidWasApproved
<1>4. ASSUME NEW h \in Handlers, NEW notify \in BOOLEAN, payout'[p] # payout[p],
             ApproveWrite(h, notify) \/ PayWrite(h, notify)
      PROVE  payout'[p].approved /\ payout'[p].status \in {"APPROVED", "PAID"}
  <2>1. req[h].id = p /\ payout[p] \in PayoutRow
    BY <1>4 DEF ApproveWrite, PayWrite, TypeOK, Targets, Exists
  <2>2. CASE ApproveWrite(h, notify)
    BY <2>1, <2>2 DEF ApproveWrite, TypeOK, PayoutRow
  <2>3. CASE PayWrite(h, notify)
    <3>1. payout[p].approved
      BY <2>1, <2>3 DEF PayWrite, TellInv
    <3>. QED
      BY <2>1, <2>3, <3>1 DEF PayWrite, TypeOK, PayoutRow
  <2>. QED
    BY <1>4, <2>2, <2>3
<1>5. ASSUME NEW h \in Handlers, SendStamp(h), payout'[p] # payout[p]
      PROVE  payout'[p].approved <=> payout'[p].status \in {"APPROVED", "PAID"}
  <2>1. Exists(p) /\ payout[p] \in PayoutRow
    BY <1>5 DEF SendStamp, TypeOK, Targets, Exists
  <2>2. payout'[p].approved = payout[p].approved /\ payout'[p].status = payout[p].status
    BY <1>5, <2>1 DEF SendStamp, PayoutRow
  <2>. QED
    BY <2>1, <2>2 DEF PaidWasApproved
<1>. QED
  BY <1>1, <1>2, <1>3, <1>4, <1>5, PayoutWriters

(* Nothing that was written is forgotten.                                  *)
LEMMA WrittenGrows ==
  ASSUME TypeOK, [Next]_vars, NEW p \in PayoutIds
  PROVE  written[p] \subseteq written'[p]
<1>1. ASSUME NEW h \in Handlers, NEW notify \in BOOLEAN,
             UpdateWrite(h) \/ ApproveWrite(h, notify) \/ PayWrite(h, notify)
      PROVE  written[p] \subseteq written'[p]
  BY <1>1 DEF UpdateWrite, ApproveWrite, PayWrite, TypeOK
<1>2. ASSUME NEW h \in Handlers, Generate(h) \/ Send(h)
      PROVE  UNCHANGED written
  BY <1>2 DEF Generate, GenerateBegin, CalcManager, SkipManager, WriteManager,
     GenerateEnd, Send, SendBegin, SendOne, SendStamp
<1>3. ASSUME NEW h \in Handlers, Settle(h)
      PROVE  written[p] \subseteq written'[p]
  BY <1>1, <1>3 DEF Settle, UpdateBegin, ApproveBegin, PayBegin, Tell
<1>. QED
  BY <1>2, <1>3 DEF Next, Fail, MoveDeal, SetSalary, vars

(* What a request is to tell of has been written.                          *)
RecordedInv ==
  \A h \in Handlers :
    /\ pc[h] = "tellApproved" => "APPROVED" \in written[req[h].id]
    /\ pc[h] = "tellPaid" => "PAID" \in written[req[h].id]

LEMMA NextRecordedInv == TypeOK /\ RecordedInv /\ [Next]_vars => RecordedInv'
<1>. SUFFICES ASSUME TypeOK, RecordedInv, [Next]_vars, NEW g \in Handlers
              PROVE  /\ pc'[g] = "tellApproved" => "APPROVED" \in written'[req'[g].id]
                     /\ pc'[g] = "tellPaid" => "PAID" \in written'[req'[g].id]
  BY DEF RecordedInv
<1>. SUFFICES ASSUME pc'[g] \in {"tellApproved", "tellPaid"}
              PROVE  /\ pc'[g] = "tellApproved" => "APPROVED" \in written'[req'[g].id]
                     /\ pc'[g] = "tellPaid" => "PAID" \in written'[req'[g].id]
  OBVIOUS
<1>. DEFINE Stays == pc'[g] = pc[g] /\ req'[g] = req[g]
<1>1. CASE Stays
  <2>1. req[g].id \in PayoutIds
    BY <1>1, FitsLabel DEF TypeOK, StepReq
  <2>. QED
    BY <1>1, <2>1, WrittenGrows DEF RecordedInv
<1>2. ASSUME NEW h \in Handlers, NEW p \in PayoutIds, PayBegin(h, p)
      PROVE  Stays
  BY <1>2 DEF PayBegin, Set, TypeOK
<1>3. ASSUME NEW h \in Handlers, NEW notify \in BOOLEAN, ~Stays,
             ApproveWrite(h, notify) \/ PayWrite(h, notify)
      PROVE  /\ pc'[g] = "tellApproved" => "APPROVED" \in written'[req'[g].id]
             /\ pc'[g] = "tellPaid" => "PAID" \in written'[req'[g].id]
  <2>1. g = h /\ req'[g] = req[h]
    BY <1>3 DEF ApproveWrite, PayWrite, Finish, Set, TypeOK
  <2>2. req[h].id \in PayoutIds
    BY <1>3, FitsLabel DEF ApproveWrite, PayWrite, TypeOK, StepReq
  <2>3. CASE ApproveWrite(h, notify)
    BY <2>1, <2>2, <2>3 DEF ApproveWrite, Finish, Set, TypeOK
  <2>4. CASE PayWrite(h, notify)
    BY <2>1, <2>2, <2>4 DEF PayWrite, Finish, Set, TypeOK
  <2>. QED
    BY <1>3, <2>3, <2>4
<1>. QED
  BY <1>1, <1>2, <1>3, NewTellers

LEMMA NextToldTheTruth ==
  TypeOK /\ RecordedInv /\ ToldTheTruth /\ [Next]_vars => ToldTheTruth'
<1>. SUFFICES ASSUME TypeOK, RecordedInv, ToldTheTruth, [Next]_vars,
                     NEW p \in PayoutIds
              PROVE  notices'[p] \subseteq written'[p]
  BY DEF ToldTheTruth
<1>1. notices'[p] \subseteq written[p]
  <2>1. CASE UNCHANGED notices
    BY <2>1 DEF ToldTheTruth
  <2>2. ASSUME NEW h \in Handlers, Tell(h)
        PROVE  notices'[p] \subseteq written[p]
    BY <2>2 DEF Tell, TypeOK, RecordedInv, ToldTheTruth
  <2>3. UNCHANGED notices \/ \E h \in Handlers : Tell(h)
    <3>1. ASSUME NEW h \in Handlers, Generate(h) \/ Send(h)
          PROVE  UNCHANGED notices
      BY <3>1 DEF Generate, GenerateBegin, CalcManager, SkipManager, WriteManager,
         GenerateEnd, Send, SendBegin, SendOne, SendStamp
    <3>2. ASSUME NEW h \in Handlers, Settle(h)
          PROVE  UNCHANGED notices \/ Tell(h)
      BY <3>2 DEF Settle, UpdateBegin, UpdateWrite, ApproveBegin, ApproveWrite,
         PayBegin, PayWrite
    <3>. QED
      BY <3>1, <3>2 DEF Next, Fail, MoveDeal, SetSalary, vars
  <2>. QED
    BY <2>1, <2>2, <2>3
<1>. QED
  BY <1>1, WrittenGrows

LEMMA SettleInvariant == Spec => [](TypeOK /\ PaidWasApproved /\ TellInv)
<1>1. Init => TypeOK /\ PaidWasApproved /\ TellInv
  BY InitTypeOK DEF Init, PaidWasApproved, TellInv, Exists
<1>2. TypeOK /\ PaidWasApproved /\ TellInv /\ [Next]_vars
        => (TypeOK /\ PaidWasApproved /\ TellInv)'
  BY NextTypeOK, NextPaidWasApproved, NextTellInv
<1>. QED
  BY <1>1, <1>2, PTL DEF Spec

(* However adjustments, approvals and payments race, approvedAt is set on  *)
(* exactly the payouts that are APPROVED or PAID.                          *)
THEOREM NothingPaidUnapproved == Spec => []PaidWasApproved
BY SettleInvariant, PTL

(* A manager is told of an approval or of a payment only after that very    *)
(* write to the payout was committed, whatever overlaps and fails.         *)
THEOREM NoFalseNotice == Spec => []ToldTheTruth
<1>1. Init => TypeOK /\ RecordedInv /\ ToldTheTruth
  BY InitTypeOK DEF Init, RecordedInv, ToldTheTruth
<1>2. TypeOK /\ RecordedInv /\ ToldTheTruth /\ [Next]_vars
        => (TypeOK /\ RecordedInv /\ ToldTheTruth)'
  BY NextTypeOK, NextRecordedInv, NextToldTheTruth
<1>. QED
  BY <1>1, <1>2, PTL DEF Spec

-----------------------------------------------------------------------------
(* Mailing                                                                 *)

(* Of a batch, what is no longer to be sent has been queued.               *)
SendInv ==
  \A h \in Handlers : pc[h] = "send" => req[h].batch \ req[h].unsent \subseteq queued

LEMMA NextSendInv == TypeOK /\ SendInv /\ [Next]_vars => SendInv'
<1>. SUFFICES ASSUME TypeOK, SendInv, [Next]_vars, NEW g \in Handlers, pc'[g] = "send"
              PROVE  req'[g].batch \ req'[g].unsent \subseteq queued'
  BY DEF SendInv
<1>. DEFINE Stays == pc'[g] = pc[g] /\ req'[g] = req[g]
<1>1. CASE Stays /\ queued \subseteq queued'
  BY <1>1 DEF SendInv
<1>2. ASSUME NEW h \in Handlers, NEW ps, SendBegin(h, ps), ~Stays
      PROVE  req'[g].batch \ req'[g].unsent \subseteq queued'
  BY <1>2 DEF SendBegin, Set, TypeOK
<1>3. ASSUME NEW h \in Handlers, NEW p \in PayoutIds, SendOne(h, p), ~Stays
      PROVE  req'[g].batch \ req'[g].unsent \subseteq queued'
  <2>1. g = h /\ req[h] \in SendReq
    BY <1>3, FitsLabel DEF SendOne, TypeOK
  <2>2. /\ req'[h].batch = req[h].batch
        /\ req'[h].unsent = req[h].unsent \ {p}
        /\ queued' = queued \cup {p}
    BY <1>3, <2>1 DEF SendOne, TypeOK, SendReq
  <2>. QED
    BY <1>3, <2>1, <2>2 DEF SendOne, SendInv
<1>4. \/ Stays /\ queued \subseteq queued'
      \/ ~Stays /\ \E h \in Handlers : \E ps : SendBegin(h, ps)
      \/ ~Stays /\ \E h \in Handlers : \E p \in PayoutIds : SendOne(h, p)
  <2>1. ASSUME NEW h \in Handlers, NEW label, NEW r, Set(h, label, r), label # "send"
        PROVE  Stays
    BY <2>1 DEF Set, TypeOK
  <2>2. ASSUME NEW h \in Handlers, Finish(h)
        PROVE  Stays
    BY <2>1, <2>2 DEF Finish
  <2>3. ASSUME NEW h \in Handlers, Generate(h)
        PROVE  Stays /\ UNCHANGED queued
    <3>1. ASSUME NEW per, NEW ms, GenerateBegin(h, ms, per)
          PROVE  Stays /\ UNCHANGED queued
      BY <3>1, <2>1 DEF GenerateBegin
    <3>2. ASSUME NEW m \in Managers,
                 \/ CalcManager(h, m) \/ SkipManager(h, m)
                 \/ \E p \in PayoutIds : WriteManager(h, m, p)
          PROVE  Stays /\ UNCHANGED queued
      BY <3>2 DEF CalcManager, SkipManager, WriteManager, TypeOK
    <3>3. ASSUME GenerateEnd(h)
          PROVE  Stays /\ UNCHANGED queued
      BY <3>3, <2>2 DEF GenerateEnd
    <3>. QED
      BY <2>3, <3>1, <3>2, <3>3 DEF Generate
  <2>4. ASSUME NEW h \in Handlers, Settle(h)
        PROVE  Stays /\ UNCHANGED queued
    <3>1. ASSUME NEW p \in PayoutIds, NEW patch \in Patches, UpdateBegin(h, p, patch)
          PROVE  Stays /\ UNCHANGED queued
      BY <3>1, <2>1 DEF UpdateBegin
    <3>2. ASSUME NEW p \in PayoutIds, ApproveBegin(h, p) \/ PayBegin(h, p)
          PROVE  Stays /\ UNCHANGED queued
      BY <3>2, <2>1 DEF ApproveBegin, PayBegin
    <3>3. ASSUME UpdateWrite(h) \/ Tell(h)
          PROVE  Stays /\ UNCHANGED queued
      BY <3>3, <2>2 DEF UpdateWrite, Tell
    <3>4. ASSUME NEW notify \in BOOLEAN, ApproveWrite(h, notify) \/ PayWrite(h, notify)
          PROVE  Stays /\ UNCHANGED queued
      BY <3>4, <2>1, <2>2 DEF ApproveWrite, PayWrite
    <3>. QED
      BY <2>4, <3>1, <3>2, <3>3, <3>4 DEF Settle
  <2>5. ASSUME NEW h \in Handlers, SendStamp(h) \/ Fail(h)
        PROVE  Stays /\ UNCHANGED queued
    BY <2>5, <2>2 DEF SendStamp, Fail
  <2>6. ASSUME NEW h \in Handlers, NEW ps, SendBegin(h, ps)
        PROVE  queued' = queued
    BY <2>6 DEF SendBegin
  <2>7. ASSUME NEW h \in Handlers, NEW p \in PayoutIds, SendOne(h, p)
        PROVE  queued \subseteq queued'
    BY <2>7 DEF SendOne
  <2>8. ASSUME NEW h \in Handlers, Send(h)
        PROVE  \/ \E ps : SendBegin(h, ps)
               \/ \E p \in PayoutIds : SendOne(h, p)
               \/ SendStamp(h)
    BY <2>8 DEF Send
  <2>9. CASE \E h \in Handlers : Generate(h) \/ Settle(h) \/ Send(h) \/ Fail(h)
    BY <2>3, <2>4, <2>5, <2>6, <2>7, <2>8, <2>9
  <2>10. CASE ~ \E h \in Handlers : Generate(h) \/ Settle(h) \/ Send(h) \/ Fail(h)
    BY <2>10 DEF Next, MoveDeal, SetSalary, vars
  <2>. QED
    BY <2>9, <2>10
<1>. QED
  BY <1>1, <1>2, <1>3, <1>4

LEMMA NextSentWasQueued ==
  TypeOK /\ SendInv /\ SentWasQueued /\ [Next]_vars => SentWasQueued'
<1>. SUFFICES ASSUME TypeOK, SendInv, SentWasQueued, [Next]_vars,
                     NEW p \in PayoutIds, payout'[p] # NoRow, payout'[p].sent
              PROVE  p \in queued'
  BY DEF SentWasQueued, Exists
<1>1. queued \subseteq queued'
  <2>1. ASSUME NEW h \in Handlers, Generate(h) \/ Settle(h)
        PROVE  UNCHANGED queued
    BY <2>1 DEF Generate, GenerateBegin, CalcManager, SkipManager, WriteManager,
       GenerateEnd, Settle, UpdateBegin, UpdateWrite, ApproveBegin, ApproveWrite,
       PayBegin, PayWrite, Tell
  <2>2. ASSUME NEW h \in Handlers, Send(h)
        PROVE  queued \subseteq queued'
    BY <2>2 DEF Send, SendBegin, SendOne, SendStamp
  <2>. QED
    BY <2>1, <2>2 DEF Next, Fail, MoveDeal, SetSalary, vars
<1>2. CASE payout[p] # NoRow /\ payout[p].sent
  BY <1>1, <1>2 DEF SentWasQueued, Exists
<1>3. ASSUME NEW h \in Handlers, NEW m \in Managers, NEW q \in PayoutIds,
             WriteManager(h, m, q)
      PROVE  payout[p] # NoRow /\ payout[p].sent
  BY <1>3 DEF WriteManager, TypeOK
<1>4. ASSUME NEW h \in Handlers, NEW notify \in BOOLEAN,
             UpdateWrite(h) \/ ApproveWrite(h, notify) \/ PayWrite(h, notify)
      PROVE  payout[p] # NoRow /\ payout[p].sent
  <2>1. /\ req[h].id \in PayoutIds
        /\ payout[req[h].id] \in PayoutRow
        /\ payout[req[h].id] # NoRow
    BY <1>4, FitsLabel DEF UpdateWrite, ApproveWrite, PayWrite, TypeOK, Targets,
       Exists, StepReq, RowReq
  <2>2. CASE p = req[h].id
    BY <1>4, <2>1, <2>2 DEF UpdateWrite, ApproveWrite, PayWrite, TypeOK, PayoutRow
  <2>3. CASE p # req[h].id
    BY <1>4, <2>1, <2>3 DEF UpdateWrite, ApproveWrite, PayWrite, TypeOK
  <2>. QED
    BY <2>2, <2>3
<1>5. ASSUME NEW h \in Handlers, SendStamp(h)
      PROVE  (payout[p] # NoRow /\ payout[p].sent) \/ p \in queued
  BY <1>5 DEF SendStamp, SendInv
<1>. QED
  BY <1>1, <1>2, <1>3, <1>4, <1>5, PayoutWriters

(* emailSentAt is only stamped on payouts whose statement was queued.      *)
THEOREM StampsAreEarned == Spec => []SentWasQueued
<1>1. Init => TypeOK /\ SendInv /\ SentWasQueued
  BY InitTypeOK DEF Init, SendInv, SentWasQueued, Exists
<1>2. TypeOK /\ SendInv /\ SentWasQueued /\ [Next]_vars
        => (TypeOK /\ SendInv /\ SentWasQueued)'
  BY NextTypeOK, NextSendInv, NextSentWasQueued
<1>. QED
  BY <1>1, <1>2, PTL DEF Spec

-----------------------------------------------------------------------------
(* One adjustment, approval or payment of a payout at a time               *)

(* The status of a row changes when it is approved or paid.                *)
LEMMA StatusWriters ==
  ASSUME TypeOK, [Next]_vars, NEW p \in PayoutIds, Exists(p),
         payout'[p].status # payout[p].status
  PROVE  \E h \in Handlers :
           /\ req[h].id = p
           /\ pc'[h] # pc[h]
           /\ \/ pc[h] = "approve" /\ payout'[p].status = "APPROVED"
              \/ pc[h] = "pay" /\ payout'[p].status = "PAID"
<1>1. payout[p] \in PayoutRow
  BY DEF TypeOK, Exists
<1>2. ASSUME NEW h \in Handlers, NEW m \in Managers, NEW q \in PayoutIds,
             WriteManager(h, m, q)
      PROVE  FALSE
  BY <1>2 DEF WriteManager, TypeOK, Exists
<1>3. ASSUME NEW h \in Handlers, UpdateWrite(h) \/ SendStamp(h)
      PROVE  FALSE
  BY <1>1, <1>3 DEF UpdateWrite, SendStamp, TypeOK, PayoutRow
<1>4. ASSUME NEW h \in Handlers, NEW notify \in BOOLEAN,
             ApproveWrite(h, notify) \/ PayWrite(h, notify)
      PROVE  /\ req[h].id = p
             /\ pc'[h] # pc[h]
             /\ \/ pc[h] = "approve" /\ payout'[p].status = "APPROVED"
                \/ pc[h] = "pay" /\ payout'[p].status = "PAID"
  <2>1. req[h].id = p
    BY <1>4 DEF ApproveWrite, PayWrite, TypeOK
  <2>2. pc'[h] \in {"idle", "tellApproved", "tellPaid"}
    BY <1>4 DEF ApproveWrite, PayWrite, Finish, Set, TypeOK
  <2>. QED
    BY <1>1, <1>4, <2>1, <2>2 DEF ApproveWrite, PayWrite, TypeOK, PayoutRow
<1>. QED
  BY <1>2, <1>3, <1>4, PayoutWriters

(* Its amounts change when it is adjusted.                                 *)
LEMMA AmountWriters ==
  ASSUME TypeOK, [Next]_vars, NEW p \in PayoutIds, Exists(p), Amounts(p)' # Amounts(p)
  PROVE  \E h \in Handlers : req[h].id = p /\ pc[h] = "update" /\ UpdateWrite(h)
<1>1. payout[p] \in PayoutRow
  BY DEF TypeOK, Exists
<1>2. ASSUME NEW h \in Handlers, NEW m \in Managers, NEW q \in PayoutIds,
             WriteManager(h, m, q)
      PROVE  FALSE
  BY <1>2 DEF WriteManager, TypeOK, Exists, Amounts
<1>3. ASSUME NEW h \in Handlers, NEW notify \in BOOLEAN,
             ApproveWrite(h, notify) \/ PayWrite(h, notify) \/ SendStamp(h)
      PROVE  FALSE
  BY <1>1, <1>3 DEF ApproveWrite, PayWrite, SendStamp, TypeOK, PayoutRow, Amounts
<1>4. ASSUME NEW h \in Handlers, UpdateWrite(h)
      PROVE  req[h].id = p /\ pc[h] = "update"
  BY <1>4 DEF UpdateWrite, TypeOK, Amounts
<1>. QED
  BY <1>2, <1>3, <1>4, PayoutWriters DEF Amounts

(* While a request holds a payout it has checked, the check stays true.    *)
CheckedInv ==
  \A h \in Handlers :
    /\ pc[h] \in {"update", "approve"} => payout[req[h].id].status = "DRAFT"
    /\ pc[h] = "pay" => payout[req[h].id].status = "APPROVED"

LEMMA NextCheckedInv ==
  TypeOK /\ NoOverlap /\ CheckedInv /\ [Next]_vars => CheckedInv'
<1>. SUFFICES ASSUME TypeOK, NoOverlap, CheckedInv, [Next]_vars, NEW g \in Handlers
              PROVE  /\ pc'[g] \in {"update", "approve"} =>
                          payout'[req'[g].id].status = "DRAFT"
                     /\ pc'[g] = "pay" => payout'[req'[g].id].status = "APPROVED"
  BY DEF CheckedInv
<1>. DEFINE Stays == pc'[g] = pc[g] /\ req'[g] = req[g]
<1>1. CASE Stays
  <2>. SUFFICES ASSUME pc[g] \in Settling
                PROVE  payout'[req[g].id].status = payout[req[g].id].status
    BY <1>1 DEF CheckedInv, Settling
  <2>1. req[g].id \in PayoutIds /\ Exists(req[g].id)
    BY FitsLabel DEF Settling, TypeOK, RowReq, StepReq, Targets
  <2>2. ASSUME NEW h \in Handlers, req[h].id = req[g].id, pc[h] \in {"approve", "pay"},
               pc'[h] # pc[h]
        PROVE  FALSE
    BY <1>1, <2>2 DEF NoOverlap, Settling
  <2>. QED
    BY <2>1, <2>2, StatusWriters
<1>2. ASSUME NEW h \in Handlers, NEW p \in PayoutIds, NEW patch \in Patches, ~Stays,
             UpdateBegin(h, p, patch)
      PROVE  pc'[g] = "update" /\ payout'[req'[g].id].status = "DRAFT"
  BY <1>2 DEF UpdateBegin, Set, TypeOK
<1>3. ASSUME NEW h \in Handlers, NEW p \in PayoutIds, ~Stays, ApproveBegin(h, p)
      PROVE  pc'[g] = "approve" /\ payout'[req'[g].id].status = "DRAFT"
  BY <1>3 DEF ApproveBegin, Set, TypeOK
<1>4. ASSUME NEW h \in Handlers, NEW p \in PayoutIds, ~Stays, PayBegin(h, p)
      PROVE  pc'[g] = "pay" /\ payout'[req'[g].id].status = "APPROVED"
  BY <1>4 DEF PayBegin, Set, TypeOK
<1>5. ASSUME NEW h \in Handlers, Settle(h), ~Stays
      PROVE  \/ pc'[g] \notin Settling
             \/ \E p \in PayoutIds, patch \in Patches : UpdateBegin(h, p, patch)
             \/ \E p \in PayoutIds : ApproveBegin(h, p) \/ PayBegin(h, p)
  <2>1. ASSUME UpdateWrite(h) \/ Tell(h)
        PROVE  pc'[g] \notin Settling
    BY <1>5, <2>1 DEF UpdateWrite, Tell, Finish, Set, TypeOK, Settling
  <2>2. ASSUME NEW notify \in BOOLEAN, ApproveWrite(h, notify) \/ PayWrite(h, notify)
        PROVE  pc'[g] \notin Settling
    BY <1>5, <2>2 DEF ApproveWrite, PayWrite, Finish, Set, TypeOK, Settling
  <2>. QED
    BY <1>5, <2>1, <2>2 DEF Settle
<1>6. ASSUME NEW h \in Handlers, Generate(h) \/ Send(h) \/ Fail(h), ~Stays
      PROVE  pc'[g] \notin Settling
  <2>1. ASSUME NEW per, NEW ms, GenerateBegin(h, ms, per) \/ SendBegin(h, ms)
        PROVE  pc'[g] \notin Settling
    BY <1>6, <2>1 DEF GenerateBegin, SendBegin, Set, TypeOK, Settling
  <2>2. ASSUME NEW m \in Managers,
               \/ CalcManager(h, m) \/ SkipManager(h, m)
               \/ \E p \in PayoutIds : WriteManager(h, m, p)
        PROVE  pc'[g] \notin Settling
    BY <1>6, <2>2 DEF CalcManager, SkipManager, WriteManager, TypeOK, Settling
  <2>3. ASSUME NEW p \in PayoutIds, SendOne(h, p)
        PROVE  pc'[g] \notin Settling
    BY <1>6, <2>3 DEF SendOne, TypeOK, Settling
  <2>4. ASSUME Finish(h)
        PROVE  pc'[g] \notin Settling
    BY <1>6, <2>4 DEF Finish, Set, TypeOK, Settling
  <2>. QED
    BY <1>6, <2>1, <2>2, <2>3, <2>4 DEF Generate, GenerateEnd, Send, SendStamp, Fail
<1>7. Stays \/ \E h \in Handlers : Generate(h) \/ Settle(h) \/ Send(h) \/ Fail(h)
  BY DEF Next, MoveDeal, SetSalary, vars
<1>. QED
  BY <1>1, <1>2, <1>3, <1>4, <1>5, <1>6, <1>7 DEF Settling

LEMMA SettleStep ==
  ASSUME TypeOK, NoOverlap, CheckedInv, [Next]_vars, NEW p \in PayoutIds, Exists(p)
  PROVE  /\ payout'[p].status \in Forward[payout[p].status]
         /\ payout[p].status # "DRAFT" => Amounts(p)' = Amounts(p)
<1>1. payout[p] \in PayoutRow /\ payout[p].status \in PayoutStatuses
  BY DEF TypeOK, Exists, PayoutRow
<1>2. payout'[p].status \in Forward[payout[p].status]
  <2>1. CASE payout'[p].status = payout[p].status
    BY <1>1, <2>1 DEF Forward, PayoutStatuses
  <2>2. CASE payout'[p].status # payout[p].status
    BY <2>2, StatusWriters DEF CheckedInv, Forward
  <2>. QED
    BY <2>1, <2>2
<1>3. ASSUME payout[p].status # "DRAFT"
      PROVE  Amounts(p)' = Amounts(p)
  BY <1>3, AmountWriters DEF CheckedInv
<1>. QED
  BY <1>2, <1>3

LEMMA SerialInvariant == SerialSpec => [](TypeOK /\ NoOverlap /\ CheckedInv)
<1>1. Init => TypeOK /\ NoOverlap /\ CheckedInv
  BY InitTypeOK DEF Init, NoOverlap, CheckedInv, Settling
<1>2. TypeOK /\ NoOverlap /\ CheckedInv /\ [Next /\ NoOverlap']_vars
        => (TypeOK /\ NoOverlap /\ CheckedInv)'
  <2>. SUFFICES ASSUME TypeOK, NoOverlap, CheckedInv, [Next /\ NoOverlap']_vars
                PROVE  (TypeOK /\ NoOverlap /\ CheckedInv)'
    OBVIOUS
  <2>1. [Next]_vars
    OBVIOUS
  <2>2. NoOverlap'
    BY DEF vars, NoOverlap
  <2>. QED
    BY <2>1, <2>2, NextTypeOK, NextCheckedInv
<1>. QED
  BY <1>1, <1>2, PTL DEF SerialSpec

(* Without overlapping requests about one payout, its status goes forward. *)
THEOREM SerialGoesForward == SerialSpec => StatusForwardOnly
<1>. DEFINE Inv == TypeOK /\ NoOverlap /\ CheckedInv
            Step == \A p \in PayoutIds : Exists(p) =>
                      payout'[p].status \in Forward[payout[p].status]
<1>1. Inv /\ [Next /\ NoOverlap']_vars => [Step]_vars
  BY SettleStep
<1>. QED
  BY <1>1, SerialInvariant, PTL DEF SerialSpec, StatusForwardOnly

(* Without them, the amounts of a payout are final once it is approved.    *)
THEOREM SerialAmountsFreeze == SerialSpec => FrozenAfterApproval
<1>. DEFINE Inv == TypeOK /\ NoOverlap /\ CheckedInv
            Step == \A p \in PayoutIds : Exists(p) /\ payout[p].status # "DRAFT" =>
                      Amounts(p)' = Amounts(p)
<1>1. Inv /\ [Next /\ NoOverlap']_vars => [Step]_vars
  BY SettleStep
<1>. QED
  BY <1>1, SerialInvariant, PTL DEF SerialSpec, FrozenAfterApproval

-----------------------------------------------------------------------------
(* One generate at a time                                                  *)

(* The deals summed into a payout are the ones that carry its id.          *)
CountedIsLinked == \A p \in PayoutIds : counted[p] = {d \in DealIds : link[d] = p}

(* No deal that generate is still to write has been claimed meanwhile.     *)
StillUnclaimed ==
  \A h \in Handlers : pc[h] = "generate" =>
    \A m \in req[h].left \cup req[h].due : \A d \in req[h].calc[m].deals :
      link[d] = NoPayout

(* What a payout shows is what was summed when it was generated.           *)
SumsInv ==
  \A p \in PayoutIds : Exists(p) /\ "amounts" \notin written[p] =>
    /\ payout[p].commission = SumOf(counted[p])
    /\ payout[p].total = payout[p].base + payout[p].commission

LEMMA ClaimWriters ==
  ASSUME [Next]_vars
  PROVE  \/ UNCHANGED <<link, counted>>
         \/ \E h \in Handlers : \E m \in Managers, q \in PayoutIds : WriteManager(h, m, q)
<1>1. ASSUME NEW h \in Handlers, Generate(h)
      PROVE  \/ UNCHANGED <<link, counted>>
             \/ \E m \in Managers, q \in PayoutIds : WriteManager(h, m, q)
  BY <1>1 DEF Generate, GenerateBegin, CalcManager, SkipManager, GenerateEnd
<1>2. ASSUME NEW h \in Handlers, Settle(h) \/ Send(h)
      PROVE  UNCHANGED <<link, counted>>
  BY <1>2 DEF Settle, UpdateBegin, UpdateWrite, ApproveBegin, ApproveWrite, PayBegin,
     PayWrite, Tell, Send, SendBegin, SendOne, SendStamp
<1>. QED
  BY <1>1, <1>2 DEF Next, Fail, MoveDeal, SetSalary, vars

LEMMA NextSumsInv == TypeOK /\ SumsInv /\ [Next]_vars => SumsInv'
<1>. SUFFICES ASSUME TypeOK, SumsInv, [Next]_vars,
                     NEW p \in PayoutIds, payout'[p] # NoRow, "amounts" \notin written'[p]
              PROVE  /\ payout'[p].commission = SumOf(counted'[p])
                     /\ payout'[p].total = payout'[p].base + payout'[p].commission
  BY DEF SumsInv, Exists, SumOf
<1>1. ASSUME NEW h \in Handlers, NEW m \in Managers, WriteManager(h, m, p)
      PROVE  /\ payout'[p].commission = SumOf(counted'[p])
             /\ payout'[p].total = payout'[p].base + payout'[p].commission
  BY <1>1 DEF WriteManager, TypeOK, Total
<1>2. CASE Exists(p)
  <2>1. Amounts(p)' = Amounts(p) /\ "amounts" \notin written[p]
    <3>1. ASSUME NEW h \in Handlers, UpdateWrite(h), req[h].id = p
          PROVE  FALSE
      BY <3>1 DEF UpdateWrite, TypeOK
    <3>2. written[p] \subseteq written'[p]
      BY WrittenGrows
    <3>. QED
      BY <1>2, <3>1, <3>2, AmountWriters
  <2>2. counted'[p] = counted[p]
    BY <1>2, ClaimWriters DEF WriteManager, TypeOK
  <2>. QED
    BY <1>2, <2>1, <2>2 DEF SumsInv, Amounts
<1>3. CASE ~Exists(p)
  <2>1. payout'[p] # payout[p]
    BY <1>3 DEF Exists
  <2>2. ASSUME NEW h \in Handlers, NEW notify \in BOOLEAN,
               UpdateWrite(h) \/ ApproveWrite(h, notify) \/ PayWrite(h, notify)
        PROVE  FALSE
    BY <1>3, <2>1, <2>2 DEF UpdateWrite, ApproveWrite, PayWrite, TypeOK, Targets
  <2>3. ASSUME NEW h \in Handlers, SendStamp(h)
        PROVE  FALSE
    BY <1>3, <2>1, <2>3 DEF SendStamp, TypeOK, Targets
  <2>4. ASSUME NEW h \in Handlers, NEW m \in Managers, NEW q \in PayoutIds,
               WriteManager(h, m, q)
        PROVE  q = p
    BY <2>1, <2>4 DEF WriteManager, TypeOK
  <2>. QED
    BY <1>1, <2>1, <2>2, <2>3, <2>4, PayoutWriters
<1>. QED
  BY <1>2, <1>3

LEMMA NextCountedIsLinked ==
  TypeOK /\ LinkedToOwnPayout /\ StillUnclaimed /\ CountedIsLinked /\ [Next]_vars
    => CountedIsLinked'
<1>. SUFFICES ASSUME TypeOK, LinkedToOwnPayout, StillUnclaimed, CountedIsLinked, [Next]_vars,
                     NEW p \in PayoutIds
              PROVE  counted'[p] = {d \in DealIds : link'[d] = p}
  BY DEF CountedIsLinked
<1>1. CASE UNCHANGED <<link, counted>>
  BY <1>1 DEF CountedIsLinked
<1>2. ASSUME NEW h \in Handlers, NEW m \in Managers, NEW q \in PayoutIds,
             WriteManager(h, m, q)
      PROVE  counted'[p] = {d \in DealIds : link'[d] = p}
  <2>. DEFINE ds == req[h].calc[m].deals
  <2>1. ds \subseteq DealIds /\ \A d \in ds : link[d] = NoPayout
    BY <1>2, FitsLabel DEF WriteManager, StillUnclaimed, TypeOK, GenerateReq, Calc
  <2>2. /\ link' = [d \in DealIds |-> IF d \in ds THEN q ELSE link[d]]
        /\ counted' = [counted EXCEPT ![q] = ds]
        /\ ~Exists(q)
    BY <1>2 DEF WriteManager
  <2>3. \A d \in DealIds : link[d] # q
    BY <2>2, PayoutsAssumption DEF LinkedToOwnPayout
  <2>4. CASE p = q
    BY <2>1, <2>2, <2>3, <2>4 DEF TypeOK
  <2>5. CASE p # q
    BY <2>1, <2>2, <2>5, PayoutsAssumption DEF TypeOK, CountedIsLinked
  <2>. QED
    BY <2>4, <2>5
<1>. QED
  BY <1>1, <1>2, ClaimWriters

LEMMA NextStillUnclaimed ==
  TypeOK /\ NoOverlap /\ CalcInv /\ StillUnclaimed /\ [Next]_vars => StillUnclaimed'
<1>. SUFFICES ASSUME TypeOK, NoOverlap, CalcInv, StillUnclaimed, [Next]_vars,
                     NEW g \in Handlers, pc'[g] = "generate",
                     NEW m \in req'[g].left \cup req'[g].due,
                     NEW d \in req'[g].calc[m].deals
              PROVE  link'[d] = NoPayout
  BY DEF StillUnclaimed
<1>. DEFINE Stays == pc'[g] = pc[g] /\ req'[g] = req[g]
<1>1. CASE Stays
  <2>1. link[d] = NoPayout
    BY <1>1 DEF StillUnclaimed
  <2>2. ASSUME NEW h \in Handlers, NEW n \in Managers, NEW q \in PayoutIds,
               WriteManager(h, n, q)
        PROVE  FALSE
    <3>1. g = h
      BY <1>1, <2>2 DEF WriteManager, NoOverlap
    <3>2. req[h] \in GenerateReq
      BY <2>2, FitsLabel DEF WriteManager, TypeOK
    <3>3. n \in req[h].due /\ n \notin req'[h].due
      BY <2>2, <3>2 DEF WriteManager, TypeOK, GenerateReq
    <3>. QED
      BY <1>1, <3>1, <3>3
  <2>. QED
    BY <2>1, <2>2, ClaimWriters
<1>2. ASSUME NEW h \in Handlers, NEW ms, NEW per, GenerateBegin(h, ms, per), ~Stays
      PROVE  FALSE
  <2>1. g = h
    BY <1>2 DEF GenerateBegin, Set, TypeOK
  <2>2. m \in Managers
    <3>1. TypeOK'
      BY NextTypeOK
    <3>2. req'[g] \in GenerateReq
      BY <3>1, FitsLabel DEF TypeOK, Fits
    <3>. QED
      BY <3>2 DEF GenerateReq
  <2>. QED
    BY <1>2, <2>1, <2>2 DEF GenerateBegin, Set, TypeOK
<1>3. ASSUME NEW h \in Handlers, NEW n \in Managers, CalcManager(h, n), ~Stays
      PROVE  link'[d] = NoPayout
  <2>1. g = h /\ link' = link
    BY <1>3 DEF CalcManager, TypeOK
  <2>2. req[h] \in GenerateReq
    BY <1>3, FitsLabel DEF CalcManager, TypeOK
  <2>3. /\ req'[h].left \cup req'[h].due = req[h].left \cup req[h].due
        /\ m \in Managers
        /\ req'[h].calc[m].deals = IF m = n THEN Eligible(m, req[h].period)
                                            ELSE req[h].calc[m].deals
    BY <1>3, <2>1, <2>2 DEF CalcManager, TypeOK, GenerateReq, Calc
  <2>4. pc[h] = "generate" /\ m \in req[h].left \cup req[h].due
    BY <1>3, <2>1, <2>3 DEF CalcManager
  <2>5. CASE m = n
    BY <2>1, <2>3, <2>5 DEF Eligible
  <2>6. CASE m # n
    BY <2>1, <2>3, <2>4, <2>6 DEF StillUnclaimed
  <2>. QED
    BY <2>5, <2>6
<1>4. ASSUME NEW h \in Handlers, NEW n \in Managers, ~Stays,
             SkipManager(h, n) \/ \E p \in PayoutIds : WriteManager(h, n, p)
      PROVE  link'[d] = NoPayout
  <2>1. g = h
    BY <1>4 DEF SkipManager, WriteManager, TypeOK
  <2>2. req[h] \in GenerateReq
    BY <1>4, FitsLabel DEF SkipManager, WriteManager, TypeOK
  <2>3. /\ req'[h].left = req[h].left
        /\ req'[h].due = req[h].due \ {n}
        /\ req'[h].calc = req[h].calc
        /\ req[h].left = {}
    BY <1>4, <2>2 DEF SkipManager, WriteManager, TypeOK, GenerateReq
  <2>4. m \in req[h].due /\ m # n /\ d \in req[h].calc[m].deals /\ link[d] = NoPayout
    BY <1>4, <2>1, <2>3 DEF SkipManager, WriteManager, StillUnclaimed
  <2>5. m \in Managers /\ d \in DealIds
    BY <2>2, <2>4 DEF GenerateReq, Calc
  <2>6. d \notin req[h].calc[n].deals
    BY <1>4, <2>4, <2>5 DEF SkipManager, WriteManager, CalcInv
  <2>. QED
    BY <1>4, <2>4, <2>5, <2>6 DEF SkipManager, WriteManager
<1>5. \/ Stays
      \/ \E h \in Handlers : \E ms, per : GenerateBegin(h, ms, per)
      \/ \E h \in Handlers : \E n \in Managers : CalcManager(h, n)
      \/ \E h \in Handlers : \E n \in Managers :
           SkipManager(h, n) \/ \E p \in PayoutIds : WriteManager(h, n, p)
  BY GenerateSteps
<1>. QED
  BY <1>1, <1>2, <1>3, <1>4, <1>5

ClaimInv ==
  TypeOK /\ NoOverlap /\ CalcInv /\ LinkedToOwnPayout /\ SumsInv
    /\ StillUnclaimed /\ CountedIsLinked

LEMMA ClaimInvariant == SerialSpec => []ClaimInv
<1>1. Init => ClaimInv
  BY InitTypeOK, PayoutsAssumption
  DEF Init, ClaimInv, NoOverlap, Settling, CalcInv, LinkedToOwnPayout, SumsInv,
      StillUnclaimed, CountedIsLinked, Exists
<1>2. ClaimInv /\ [Next /\ NoOverlap']_vars => ClaimInv'
  <2>. SUFFICES ASSUME ClaimInv, [Next /\ NoOverlap']_vars PROVE ClaimInv'
    OBVIOUS
  <2>1. [Next]_vars
    OBVIOUS
  <2>2. NoOverlap'
    BY DEF vars, NoOverlap, ClaimInv
  <2>. QED
    BY <2>1, <2>2, NextTypeOK, NextCalcInv, NextLinked, NextSumsInv, NextStillUnclaimed,
       NextCountedIsLinked
    DEF ClaimInv
<1>. QED
  BY <1>1, <1>2, PTL DEF SerialSpec

(* With one generate at a time no deal is paid for twice.                  *)
THEOREM SerialCountsOnce == SerialSpec => []NeverDoubleCounted
<1>1. ClaimInv => NeverDoubleCounted
  BY DEF ClaimInv, CountedIsLinked, NeverDoubleCounted
<1>. QED
  BY <1>1, ClaimInvariant, PTL

(* With one generate at a time a statement lists what it was summed from.  *)
THEOREM SerialAddsUp == SerialSpec => []StatementAddsUp
<1>1. ClaimInv => StatementAddsUp
  BY DEF ClaimInv, CountedIsLinked, SumsInv, StatementAddsUp
<1>. QED
  BY <1>1, ClaimInvariant, PTL

-----------------------------------------------------------------------------
(* Refinement                                                              *)

(* The steps of an adjustment that a request that is adjusting has made.   *)
LEMMA UpdateSteps ==
  ASSUME TypeOK, [Next]_vars, NEW g \in Handlers, pc'[g] = "update"
  PROVE  \/ pc'[g] = pc[g] /\ req'[g] = req[g]
         \/ \E p \in PayoutIds, patch \in Patches : UpdateBegin(g, p, patch)
<1>1. ASSUME NEW h \in Handlers, NEW label, NEW r, Set(h, label, r), label # "update"
      PROVE  pc'[g] = pc[g] /\ req'[g] = req[g]
  BY <1>1 DEF Set, TypeOK
<1>2. ASSUME NEW h \in Handlers, Finish(h)
      PROVE  pc'[g] = pc[g] /\ req'[g] = req[g]
  BY <1>1, <1>2 DEF Finish
<1>3. ASSUME NEW h \in Handlers, NEW m \in Managers,
             \/ CalcManager(h, m) \/ SkipManager(h, m)
             \/ \E p \in PayoutIds : WriteManager(h, m, p)
      PROVE  pc'[g] = pc[g] /\ req'[g] = req[g]
  BY <1>3 DEF CalcManager, SkipManager, WriteManager, TypeOK
<1>4. ASSUME NEW h \in Handlers, Generate(h)
      PROVE  pc'[g] = pc[g] /\ req'[g] = req[g]
  BY <1>1, <1>2, <1>3, <1>4 DEF Generate, GenerateBegin, GenerateEnd
<1>5. ASSUME NEW h \in Handlers, NEW p \in PayoutIds, NEW patch \in Patches,
             UpdateBegin(h, p, patch)
      PROVE  g = h \/ (pc'[g] = pc[g] /\ req'[g] = req[g])
  BY <1>5 DEF UpdateBegin, Set, TypeOK
<1>6. ASSUME NEW h \in Handlers, Settle(h)
      PROVE  \/ pc'[g] = pc[g] /\ req'[g] = req[g]
             \/ \E p \in PayoutIds, patch \in Patches : UpdateBegin(h, p, patch)
  BY <1>1, <1>2, <1>6 DEF Settle, ApproveBegin, PayBegin, UpdateWrite,
     ApproveWrite, PayWrite, Tell
<1>7. ASSUME NEW h \in Handlers, NEW p \in PayoutIds, SendOne(h, p)
      PROVE  pc'[g] = pc[g] /\ req'[g] = req[g]
  BY <1>7 DEF SendOne, TypeOK
<1>8. ASSUME NEW h \in Handlers, Send(h)
      PROVE  pc'[g] = pc[g] /\ req'[g] = req[g]
  BY <1>1, <1>2, <1>7, <1>8 DEF Send, SendBegin, SendStamp
<1>. QED
  BY <1>2, <1>4, <1>5, <1>6, <1>8 DEF Next, Fail, MoveDeal, SetSalary, vars

(* What an adjustment has read are still the amounts of the payout.        *)
ReadIsCurrent ==
  \A h \in Handlers : pc[h] = "update" =>
    <<req[h].row.base, req[h].row.commission, req[h].row.total>> = Amounts(req[h].id)

LEMMA NextReadIsCurrent ==
  TypeOK /\ NoOverlap /\ ReadIsCurrent /\ [Next]_vars => ReadIsCurrent'
<1>. SUFFICES ASSUME TypeOK, NoOverlap, ReadIsCurrent, [Next]_vars,
                     NEW g \in Handlers, pc'[g] = "update"
              PROVE  <<req'[g].row.base, req'[g].row.commission, req'[g].row.total>>
                       = <<payout'[req'[g].id].base, payout'[req'[g].id].commission,
                           payout'[req'[g].id].total>>
  BY DEF ReadIsCurrent, Amounts
<1>1. CASE pc'[g] = pc[g] /\ req'[g] = req[g]
  <2>1. PICK p \in PayoutIds : p = req[g].id /\ Exists(p)
    BY <1>1, FitsLabel DEF TypeOK, RowReq, Targets
  <2>2. ASSUME NEW h \in Handlers, req[h].id = p, pc[h] = "update", UpdateWrite(h)
        PROVE  FALSE
    <3>1. g = h
      BY <1>1, <2>1, <2>2 DEF NoOverlap, Settling
    <3>2. Finish(h)
      BY <2>2 DEF UpdateWrite
    <3>3. pc'[h] = "idle"
      BY <3>2 DEF Finish, Set, TypeOK
    <3>. QED
      BY <3>1, <3>3
  <2>3. Amounts(p)' = Amounts(p)
    BY <2>1, <2>2, AmountWriters
  <2>. QED
    BY <1>1, <2>1, <2>3 DEF ReadIsCurrent, Amounts
<1>2. ASSUME NEW p \in PayoutIds, NEW patch \in Patches, UpdateBegin(g, p, patch)
      PROVE  /\ req'[g].row = payout[p] /\ req'[g].id = p
             /\ payout' = payout
  BY <1>2 DEF UpdateBegin, Set, TypeOK
<1>. QED
  BY <1>1, <1>2, UpdateSteps

(* What generate remembers as a salary is one.                             *)
BaseIsSalary ==
  \A h \in Handlers : pc[h] = "generate" =>
    \A m \in Managers : req[h].calc[m].base \in Salaries

LEMMA NextBaseIsSalary == TypeOK /\ BaseIsSalary /\ [Next]_vars => BaseIsSalary'
<1>. SUFFICES ASSUME TypeOK, BaseIsSalary, [Next]_vars,
                     NEW g \in Handlers, pc'[g] = "generate", NEW m \in Managers
              PROVE  req'[g].calc[m].base \in Salaries
  BY DEF BaseIsSalary
<1>1. CASE pc'[g] = pc[g] /\ req'[g] = req[g]
  BY <1>1 DEF BaseIsSalary
<1>2. ASSUME NEW ms, NEW per, GenerateBegin(g, ms, per)
      PROVE  req'[g].calc[m].base \in Salaries
  BY <1>2 DEF GenerateBegin, Set, TypeOK
<1>3. ASSUME NEW n \in Managers,
             \/ CalcManager(g, n) \/ SkipManager(g, n)
             \/ \E p \in PayoutIds : WriteManager(g, n, p)
      PROVE  req'[g].calc[m].base = req[g].calc[m].base /\ pc[g] = "generate"
  <2>1. req[g] \in GenerateReq /\ pc[g] = "generate"
    BY <1>3, FitsLabel DEF CalcManager, SkipManager, WriteManager, TypeOK
  <2>2. CASE CalcManager(g, n)
    <3>1. req' = [req EXCEPT ![g].left = @ \ {n}, ![g].due = @ \cup {n},
                             ![g].calc[n].deals = Eligible(n, req[g].period)]
      BY <2>2 DEF CalcManager
    <3>. QED
      BY <2>1, <3>1 DEF TypeOK, GenerateReq, Calc
  <2>3. CASE SkipManager(g, n) \/ \E p \in PayoutIds : WriteManager(g, n, p)
    <3>1. req' = [req EXCEPT ![g].due = @ \ {n}]
      BY <2>3 DEF SkipManager, WriteManager
    <3>. QED
      BY <2>1, <3>1 DEF TypeOK, GenerateReq
  <2>. QED
    BY <1>3, <2>2, <2>3
<1>. QED
  BY <1>1, <1>2, <1>3, GenerateSteps DEF BaseIsSalary

LedgerInv == ClaimInv /\ CheckedInv /\ ReadIsCurrent /\ BaseIsSalary

LEMMA LedgerInvariant == SerialSpec => []LedgerInv
<1>1. Init => ReadIsCurrent /\ BaseIsSalary
  BY DEF Init, ReadIsCurrent, BaseIsSalary
<1>2. ClaimInv /\ CheckedInv /\ ReadIsCurrent /\ BaseIsSalary /\ [Next /\ NoOverlap']_vars
        => (ReadIsCurrent /\ BaseIsSalary)'
  <2>. SUFFICES ASSUME ClaimInv, CheckedInv, ReadIsCurrent, BaseIsSalary,
                       [Next /\ NoOverlap']_vars
                PROVE  (ReadIsCurrent /\ BaseIsSalary)'
    OBVIOUS
  <2>1. [Next]_vars
    OBVIOUS
  <2>. QED
    BY <2>1, NextReadIsCurrent, NextBaseIsSalary DEF ClaimInv
<1>. QED
  BY <1>1, <1>2, ClaimInvariant, SerialInvariant, PTL DEF SerialSpec, LedgerInv

LEMMA LedgerInit == Init => Ledger!Init
<1>. SUFFICES ASSUME Init PROVE Ledger!Init
  OBVIOUS
<1>1. Statements = [p \in PayoutIds |-> Ledger!NoStatement]
  BY DEF Init, Statements, StatementOf, Exists, NoRow, Ledger!NoStatement
<1>2. Claims = [p \in PayoutIds |-> {}]
  BY PayoutsAssumption DEF Init, Claims
<1>. QED
  BY <1>1, <1>2 DEF Ledger!Init

(* A write of one row shows in the statement of that payout alone.         *)
LEMMA StatementWritten ==
  ASSUME NEW p \in PayoutIds, NEW x,
         StatementOf(p)' = x,
         \A q \in PayoutIds \ {p} : payout'[q] = payout[q]
  PROVE  Statements' = [Statements EXCEPT ![p] = x]
<1>1. \A q \in PayoutIds \ {p} : StatementOf(q)' = StatementOf(q)
  BY DEF StatementOf, Exists
<1>. QED
  BY <1>1 DEF Statements

(* A draft is issued with its claims.                                      *)
LEMMA WriteIssues ==
  ASSUME LedgerInv, NEW h \in Handlers, NEW m \in Managers, NEW p \in PayoutIds,
         WriteManager(h, m, p)
  PROVE  \E per \in Periods, base \in Salaries :
           \E ds \in SUBSET per : Ledger!Issue(p, m, per, base, ds)
<1>. DEFINE c == req[h].calc[m]
            per == req[h].period
            statement == [status |-> "DRAFT", manager |-> m, period |-> per,
                          base |-> c.base, commission |-> Earned[c.deals],
                          total |-> c.base + Earned[c.deals]]
<1>1. /\ TypeOK /\ CalcInv /\ StillUnclaimed /\ LinkedToOwnPayout /\ BaseIsSalary
      /\ pc[h] = "generate" /\ m \in req[h].due /\ ~Exists(p)
  BY DEF LedgerInv, ClaimInv, WriteManager
<1>2. req[h] \in GenerateReq
  BY <1>1, FitsLabel DEF TypeOK
<1>3. per \in Periods /\ c.deals \in SUBSET DealIds /\ c.base \in Salaries
  BY <1>1, <1>2 DEF GenerateReq, Calc, BaseIsSalary
<1>4. \A d \in c.deals : d \in per /\ DealManager[d] = m /\ link[d] = NoPayout
  BY <1>1 DEF CalcInv, StillUnclaimed
<1>5. Earned[c.deals] = SumOf(c.deals)
  BY <1>3 DEF Earned
<1>6. c.base + Earned[c.deals] # 0
  BY <1>5 DEF WriteManager, Total
<1>7. Statements[p] = Ledger!NoStatement
  BY <1>1 DEF Statements, StatementOf, NoRow, Ledger!NoStatement
<1>8. \A d \in c.deals : d \notin Ledger!Claimed
  BY <1>4, PayoutsAssumption DEF Ledger!Claimed, Claims
<1>9. Statements' = [Statements EXCEPT ![p] = statement]
  <2>1. payout' = [payout EXCEPT ![p] =
          [status |-> "DRAFT", manager |-> m, period |-> per,
           base |-> c.base, commission |-> SumOf(c.deals), total |-> Total(c),
           approved |-> FALSE, sent |-> FALSE]]
    BY DEF WriteManager
  <2>2. payout'[p] = [status |-> "DRAFT", manager |-> m, period |-> per,
                      base |-> c.base, commission |-> Earned[c.deals],
                      total |-> c.base + Earned[c.deals],
                      approved |-> FALSE, sent |-> FALSE]
    BY <1>1, <1>5, <2>1 DEF TypeOK, Total
  <2>3. payout'[p] # NoRow
    <3>1. payout'[p].status = "DRAFT" /\ NoRow.status = "none"
      BY <2>2 DEF NoRow
    <3>. QED
      BY <3>1
  <2>4. StatementOf(p)' = statement
    BY <2>2, <2>3 DEF StatementOf, Exists
  <2>5. \A q \in PayoutIds \ {p} : payout'[q] = payout[q]
    BY <1>1, <2>1 DEF TypeOK
  <2>. HIDE DEF statement
  <2>. QED
    BY <2>4, <2>5, StatementWritten
<1>10. Claims' = [Claims EXCEPT ![p] = c.deals]
  <2>1. link' = [d \in DealIds |-> IF d \in c.deals THEN p ELSE link[d]]
    BY DEF WriteManager
  <2>2. \A d \in DealIds : link[d] # p
    BY <1>1, PayoutsAssumption DEF LinkedToOwnPayout
  <2>3. \A q \in PayoutIds : {d \in DealIds : link'[d] = q} =
          IF q = p THEN c.deals ELSE {d \in DealIds : link[d] = q}
    BY <1>3, <1>4, <2>1, <2>2, PayoutsAssumption
  <2>. QED
    BY <2>3 DEF Claims
<1>11. Ledger!Issue(p, m, per, c.base, c.deals)
  BY <1>4, <1>6, <1>7, <1>8, <1>9, <1>10 DEF Ledger!Issue
<1>. QED
  BY <1>3, <1>4, <1>11

(* An adjustment starts from the amounts of the payout.                    *)
LEMMA UpdateAdjusts ==
  ASSUME LedgerInv, NEW h \in Handlers, UpdateWrite(h)
  PROVE  \E p \in PayoutIds, patch \in Patches : Ledger!Adjust(p, patch)
<1>1. /\ TypeOK /\ CheckedInv /\ ReadIsCurrent /\ pc[h] = "update"
      /\ req[h] \in RowReq
  BY FitsLabel DEF LedgerInv, ClaimInv, UpdateWrite, TypeOK
<1>2. PICK p \in PayoutIds, patch \in Patches : p = req[h].id /\ patch = req[h].patch
  BY <1>1 DEF RowReq
<1>3. Exists(p) /\ payout[p] \in PayoutRow /\ payout[p].status = "DRAFT"
  BY <1>1, <1>2 DEF TypeOK, Targets, Exists, CheckedInv
<1>. DEFINE b == Ledger!Or(patch.base, payout[p].base)
            c == Ledger!Or(patch.commission, payout[p].commission)
            t == Ledger!Or(patch.total, b + c)
<1>4. payout' = [payout EXCEPT ![p].base = b, ![p].commission = c, ![p].total = t]
  <2>1. /\ req[h].row.base = payout[p].base
        /\ req[h].row.commission = payout[p].commission
    BY <1>1, <1>2 DEF ReadIsCurrent, Amounts
  <2>. QED
    BY <1>2, <2>1 DEF UpdateWrite, Patched, Ledger!Or
<1>5. Statements[p] = [status |-> "DRAFT", manager |-> payout[p].manager,
                       period |-> payout[p].period, base |-> payout[p].base,
                       commission |-> payout[p].commission, total |-> payout[p].total]
  BY <1>3 DEF Statements, StatementOf
<1>. HIDE DEF b, c, t
<1>6. payout'[p] = [payout[p] EXCEPT !.base = b, !.commission = c, !.total = t]
  BY <1>1, <1>4 DEF TypeOK
<1>7. /\ payout'[p].status = "DRAFT" /\ payout'[p].manager = payout[p].manager
      /\ payout'[p].period = payout[p].period
      /\ payout'[p].base = b /\ payout'[p].commission = c /\ payout'[p].total = t
  BY <1>3, <1>6 DEF PayoutRow
<1>8. payout'[p] # NoRow
  <2>1. NoRow.status = "none"
    BY DEF NoRow
  <2>. QED
    BY <1>7, <2>1
<1>9. StatementOf(p)' = [Statements[p] EXCEPT !.base = b, !.commission = c, !.total = t]
  <2>1. StatementOf(p)' = [status |-> "DRAFT", manager |-> payout[p].manager,
                           period |-> payout[p].period, base |-> b, commission |-> c,
                           total |-> t]
    BY <1>7, <1>8 DEF StatementOf, Exists
  <2>2. [Statements[p] EXCEPT !.base = b, !.commission = c, !.total = t]
          = [status |-> "DRAFT", manager |-> payout[p].manager,
             period |-> payout[p].period, base |-> b, commission |-> c, total |-> t]
    <3>. PICK new :
           new = [Statements[p] EXCEPT !.base = b, !.commission = c, !.total = t]
      OBVIOUS
    <3>1. DOMAIN new = DOMAIN Statements[p]
      OBVIOUS
    <3>2. /\ new.status = "DRAFT" /\ new.manager = payout[p].manager
          /\ new.period = payout[p].period
          /\ new.base = b /\ new.commission = c /\ new.total = t
      BY <1>5
    <3>3. new = [i \in DOMAIN Statements[p] |-> new[i]]
      OBVIOUS
    <3>. QED
      BY <1>5, <3>1, <3>2, <3>3
  <2>. QED
    BY <2>1, <2>2
<1>10. \A q \in PayoutIds \ {p} : payout'[q] = payout[q]
  BY <1>1, <1>4 DEF TypeOK
<1>11. Statements' = [Statements EXCEPT ![p] =
          [Statements[p] EXCEPT !.base = b, !.commission = c, !.total = t]]
  BY <1>9, <1>10, StatementWritten
<1>12. Claims' = Claims
  BY DEF UpdateWrite, Claims
<1>13. Statements[p].status = "DRAFT" /\ Statements[p].base = payout[p].base
         /\ Statements[p].commission = payout[p].commission
  BY <1>5
<1>. QED
  BY <1>11, <1>12, <1>13 DEF Ledger!Adjust, b, c, t, Statements

(* An approval and a payment change the status alone.                      *)
LEMMA StatusAdvances ==
  ASSUME LedgerInv, NEW p \in PayoutIds, NEW to, Exists(p), to # "none", link' = link,
         /\ payout'[p].status = to /\ payout'[p].manager = payout[p].manager
         /\ payout'[p].period = payout[p].period
         /\ Amounts(p)' = Amounts(p),
         \A q \in PayoutIds \ {p} : payout'[q] = payout[q]
  PROVE  Ledger!Advance(p, payout[p].status, to)
<1>1. payout'[p] # NoRow
  <2>1. NoRow.status = "none"
    BY DEF NoRow
  <2>. QED
    BY <2>1
<1>2. Statements[p] = [status |-> payout[p].status, manager |-> payout[p].manager,
                       period |-> payout[p].period, base |-> payout[p].base,
                       commission |-> payout[p].commission, total |-> payout[p].total]
  BY DEF Statements, StatementOf
<1>3. StatementOf(p)' = [Statements[p] EXCEPT !.status = to]
  <2>1. StatementOf(p)' = [status |-> to, manager |-> payout[p].manager,
                           period |-> payout[p].period, base |-> payout[p].base,
                           commission |-> payout[p].commission,
                           total |-> payout[p].total]
    BY <1>1 DEF StatementOf, Exists, Amounts
  <2>. QED
    BY <1>2, <2>1
<1>4. Statements' = [Statements EXCEPT ![p] = [Statements[p] EXCEPT !.status = to]]
  BY <1>3, StatementWritten
<1>5. Statements[p].status = payout[p].status /\ Claims' = Claims
  BY <1>2 DEF Claims
<1>. QED
  BY <1>4, <1>5 DEF Ledger!Advance, Statements

LEMMA ApproveApproves ==
  ASSUME LedgerInv, NEW h \in Handlers, NEW notify \in BOOLEAN, ApproveWrite(h, notify)
  PROVE  \E p \in PayoutIds : Ledger!Approve(p)
<1>1. TypeOK /\ CheckedInv /\ pc[h] = "approve"
  BY DEF LedgerInv, ClaimInv, ApproveWrite
<1>2. PICK p \in PayoutIds : p = req[h].id /\ Exists(p) /\ payout[p] \in PayoutRow
  BY <1>1, FitsLabel DEF TypeOK, StepReq, Targets, Exists
<1>3. /\ payout'[p].status = "APPROVED" /\ payout'[p].manager = payout[p].manager
      /\ payout'[p].period = payout[p].period
      /\ Amounts(p)' = Amounts(p)
  BY <1>1, <1>2 DEF ApproveWrite, TypeOK, PayoutRow, Amounts
<1>4. link' = link /\ \A q \in PayoutIds \ {p} : payout'[q] = payout[q]
  BY <1>1, <1>2 DEF ApproveWrite, TypeOK
<1>5. payout[p].status = "DRAFT"
  BY <1>1, <1>2 DEF CheckedInv
<1>6. Ledger!Advance(p, payout[p].status, "APPROVED")
  BY <1>2, <1>3, <1>4, StatusAdvances
<1>. QED
  BY <1>5, <1>6 DEF Ledger!Approve

LEMMA PayPays ==
  ASSUME LedgerInv, NEW h \in Handlers, NEW notify \in BOOLEAN, PayWrite(h, notify)
  PROVE  \E p \in PayoutIds : Ledger!Pay(p)
<1>1. TypeOK /\ CheckedInv /\ pc[h] = "pay"
  BY DEF LedgerInv, ClaimInv, PayWrite
<1>2. PICK p \in PayoutIds : p = req[h].id /\ Exists(p) /\ payout[p] \in PayoutRow
  BY <1>1, FitsLabel DEF TypeOK, StepReq, Targets, Exists
<1>3. /\ payout'[p].status = "PAID" /\ payout'[p].manager = payout[p].manager
      /\ payout'[p].period = payout[p].period
      /\ Amounts(p)' = Amounts(p)
  BY <1>1, <1>2 DEF PayWrite, TypeOK, PayoutRow, Amounts
<1>4. link' = link /\ \A q \in PayoutIds \ {p} : payout'[q] = payout[q]
  BY <1>1, <1>2 DEF PayWrite, TypeOK
<1>5. payout[p].status = "APPROVED"
  BY <1>1, <1>2 DEF CheckedInv
<1>6. Ledger!Advance(p, payout[p].status, "PAID")
  BY <1>2, <1>3, <1>4, StatusAdvances
<1>. QED
  BY <1>5, <1>6 DEF Ledger!Pay

(* A mailing leaves the statements as they are.                            *)
LEMMA StampInvisible ==
  ASSUME TypeOK, NEW h \in Handlers, SendStamp(h)
  PROVE  Statements' = Statements
<1>. SUFFICES ASSUME NEW p \in PayoutIds PROVE StatementOf(p)' = StatementOf(p)
  BY DEF Statements
<1>1. payout'[p] = IF p \in req[h].batch THEN [payout[p] EXCEPT !.sent = TRUE]
                                         ELSE payout[p]
  BY DEF SendStamp
<1>2. CASE p \in req[h].batch
  <2>1. payout[p] \in PayoutRow
    BY <1>2, FitsLabel DEF SendStamp, TypeOK, Targets, Exists
  <2>2. /\ payout'[p].status = payout[p].status
        /\ payout'[p].manager = payout[p].manager
        /\ payout'[p].period = payout[p].period /\ payout'[p].base = payout[p].base
        /\ payout'[p].commission = payout[p].commission
        /\ payout'[p].total = payout[p].total
    BY <1>1, <1>2, <2>1 DEF PayoutRow
  <2>3. payout[p] # NoRow /\ payout[p].status # "none" /\ NoRow.status = "none"
    BY <2>1, NoRowIsNoPayout DEF NoRow
  <2>4. payout'[p] # NoRow
    BY <2>2, <2>3
  <2>. QED
    BY <2>2, <2>3, <2>4 DEF StatementOf, Exists
<1>3. CASE p \notin req[h].batch
  BY <1>1, <1>3 DEF StatementOf, Exists
<1>. QED
  BY <1>2, <1>3

(* Every step of the service is a step of the ledger or invisible to it.   *)
LEMMA LedgerStep ==
  ASSUME LedgerInv, [Next]_vars
  PROVE  [Ledger!Next]_(Ledger!statements)
<1>. DEFINE Issues == \E h \in Handlers : \E m \in Managers, p \in PayoutIds :
                        WriteManager(h, m, p)
<1>1. CASE Issues
  BY <1>1, WriteIssues DEF Ledger!Next
<1>2. CASE ~Issues
  <2>1. link' = link
    BY <1>2, ClaimWriters
  <2>2. Claims' = Claims
    BY <2>1 DEF Claims
  <2>3. CASE payout' = payout
    <3>1. Statements' = Statements
      BY <2>3 DEF Statements, StatementOf, Exists
    <3>. QED
      BY <2>2, <3>1 DEF Ledger!statements
  <2>4. ASSUME NEW h \in Handlers, UpdateWrite(h)
        PROVE  Ledger!Next
    BY <2>4, UpdateAdjusts DEF Ledger!Next
  <2>5. ASSUME NEW h \in Handlers, NEW notify \in BOOLEAN, ApproveWrite(h, notify)
        PROVE  Ledger!Next
    BY <2>5, ApproveApproves DEF Ledger!Next
  <2>6. ASSUME NEW h \in Handlers, NEW notify \in BOOLEAN, PayWrite(h, notify)
        PROVE  Ledger!Next
    BY <2>6, PayPays DEF Ledger!Next
  <2>7. ASSUME NEW h \in Handlers, SendStamp(h)
        PROVE  UNCHANGED Ledger!statements
    <3>1. Statements' = Statements
      BY <2>7, StampInvisible DEF LedgerInv, ClaimInv
    <3>. QED
      BY <2>2, <3>1 DEF Ledger!statements
  <2>. QED
    BY <1>2, <2>3, <2>4, <2>5, <2>6, <2>7, PayoutWriters
<1>. QED
  BY <1>1, <1>2

(* With one generate at a time and one settling request per payout at a    *)
(* time, the database between transactions is the ledger of payouts.       *)
THEOREM SerialImplementsLedger == SerialSpec => ImplementsLedger
<1>1. [Next /\ NoOverlap']_vars => [Next]_vars
  OBVIOUS
<1>. QED
  BY <1>1, LedgerInit, LedgerStep, LedgerInvariant, PTL
  DEF SerialSpec, ImplementsLedger, Ledger!Spec

=============================================================================

---------------------------- MODULE LeadsProofs ----------------------------
(* Proofs about Leads, for every value of its constants. *)
EXTENDS Leads, TLAPS

-----------------------------------------------------------------------------
(* Lemmas about the data                                                   *)

(* The markers of a lead that is not there are told apart by their status. *)
LEMMA NoRowIsNoLead == \A x \in LeadRow : x # NoLead /\ x # Gone
<1>1. \A x \in LeadRow : x.status \in LeadStatuses
  BY DEF LeadRow
<1>. QED
  BY <1>1, LeadsAssumption DEF NoLead, Gone

(* Only a lead that is there has a row.                                    *)
LEMMA ExistsIsRow ==
  ASSUME lead \in [LeadIds -> LeadRow \cup {NoLead, Gone}], NEW l \in LeadIds
  PROVE  Exists(l) <=> lead[l] \in LeadRow
BY NoRowIsNoLead DEF Exists

(* Setting where a handler stands leaves the others alone.                 *)
LEMMA SetFits ==
  ASSUME LeadTypeOK, NEW h \in Handlers, NEW label, NEW r,
         Fits(label, r), Set(h, label, r)
  PROVE  /\ DOMAIN pc' = Handlers /\ DOMAIN req' = Handlers
         /\ \A g \in Handlers : Fits(pc'[g], req'[g])
         /\ pc'[h] = label /\ req'[h] = r
         /\ \A g \in Handlers \ {h} : pc'[g] = pc[g] /\ req'[g] = req[g]
<1>. DEFINE fits(x, y) == Fits(x, y)
<1>1. /\ DOMAIN pc' = Handlers /\ DOMAIN req' = Handlers
      /\ pc'[h] = label /\ req'[h] = r
      /\ \A g \in Handlers \ {h} : pc'[g] = pc[g] /\ req'[g] = req[g]
  BY DEF Set, LeadTypeOK
<1>2. \A g \in Handlers : fits(pc[g], req[g])
  BY DEF LeadTypeOK
<1>3. fits(label, r)
  OBVIOUS
<1>. HIDE DEF fits
<1>4. \A g \in Handlers : fits(pc'[g], req'[g])
  BY <1>1, <1>2, <1>3
<1>. USE DEF fits
<1>. QED
  BY <1>1, <1>4

LEMMA FinishFits ==
  ASSUME LeadTypeOK, NEW h \in Handlers, Finish(h)
  PROVE  /\ DOMAIN pc' = Handlers /\ DOMAIN req' = Handlers
         /\ \A g \in Handlers : Fits(pc'[g], req'[g])
         /\ pc'[h] = "idle"
         /\ \A g \in Handlers \ {h} : pc'[g] = pc[g] /\ req'[g] = req[g]
<1>1. Fits("idle", NoReq)
  BY DEF Fits
<1>. QED
  BY <1>1, SetFits DEF Finish

-----------------------------------------------------------------------------
(* Type correctness                                                        *)

LEMMA LeadInitType == LeadInit => LeadTypeOK
BY DEF LeadInit, LeadTypeOK, Fits

(* What a status change writes.                                            *)
LEMMA StatusEffect ==
  ASSUME LeadTypeOK, NEW h \in Handlers, StatusWrite(h), Exists(req[h].id)
  PROVE  LET l == req[h].id IN
         /\ l \in LeadIds /\ req[h] \in StatusReq
         /\ lead[l] \in LeadRow /\ lead'[l] \in LeadRow
         /\ lead'[l].status = req[h].to
         /\ lead'[l].responded = (lead[l].responded \/ req[h].stamp)
         /\ \A k \in LeadIds \ {l} : lead'[k] = lead[k]
         /\ lead' \in [LeadIds -> LeadRow \cup {NoLead, Gone}]
         /\ responses' \in [LeadIds -> Nat]
         /\ responses'[l] = IF req[h].stamp THEN responses[l] + 1 ELSE responses[l]
         /\ \A k \in LeadIds \ {l} : responses'[k] = responses[k]
<1>. DEFINE l == req[h].id
            row == [lead[l] EXCEPT !.status = req[h].to,
                                   !.responded = @ \/ req[h].stamp]
<1>1. req[h] \in StatusReq
  BY DEF StatusWrite, LeadTypeOK, Fits
<1>2. l \in LeadIds /\ req[h].to \in LeadStatuses /\ req[h].stamp \in BOOLEAN
  BY <1>1 DEF StatusReq
<1>3. lead[l] \in LeadRow
  BY <1>2, ExistsIsRow DEF LeadTypeOK
<1>4. /\ row \in LeadRow /\ row.status = req[h].to
      /\ row.responded = (lead[l].responded \/ req[h].stamp)
  BY <1>2, <1>3 DEF LeadRow
<1>5. lead' = [lead EXCEPT ![l] = row]
  BY <1>2, <1>3 DEF StatusWrite, LeadTypeOK, LeadRow
<1>6. responses' = [responses EXCEPT ![l] = IF req[h].stamp THEN @ + 1 ELSE @]
  BY DEF StatusWrite
<1>. HIDE DEF row
<1>. QED
  BY <1>1, <1>2, <1>3, <1>4, <1>5, <1>6 DEF LeadTypeOK

LEMMA LeadNextType == LeadTypeOK /\ [LeadNext]_leadVars => LeadTypeOK'
<1>. SUFFICES ASSUME LeadTypeOK, [LeadNext]_leadVars PROVE LeadTypeOK'
  OBVIOUS
<1>1. ASSUME NEW h \in Handlers, NEW actor, NEW l \in LeadIds,
             NEW to \in LeadStatuses, StatusBegin(h, actor, l, to)
      PROVE  LeadTypeOK'
  <2>. DEFINE r == [id |-> l, to |-> to,
         stamp |-> lead[l].status = "NEW" /\ to # "NEW" /\ ~lead[l].responded]
  <2>1. r \in StatusReq
    BY DEF StatusReq
  <2>2. Fits("status", r)
    BY <2>1 DEF Fits
  <2>3. Set(h, "status", r)
    BY <1>1 DEF StatusBegin
  <2>. HIDE DEF r
  <2>. QED
    BY <1>1, <2>2, <2>3, SetFits DEF StatusBegin, LeadTypeOK
<1>2. ASSUME NEW h \in Handlers, NEW actor, NEW l \in LeadIds, RemoveBegin(h, actor, l)
      PROVE  LeadTypeOK'
  <2>1. Fits("remove", [id |-> l])
    BY DEF Fits, RemoveReq
  <2>. QED
    BY <1>2, <2>1, SetFits DEF RemoveBegin, LeadTypeOK
<1>3. ASSUME NEW h \in Handlers, NEW l \in LeadIds, NEW m \in Managers, AssignBegin(h, l, m)
      PROVE  LeadTypeOK'
  <2>1. Fits("assignee", [id |-> l, to |-> m])
    BY DEF Fits, AssignReq
  <2>. QED
    BY <1>3, <2>1, SetFits DEF AssignBegin, LeadTypeOK
<1>4. ASSUME NEW h \in Handlers, StatusWrite(h)
      PROVE  LeadTypeOK'
  <2>1. CASE Exists(req[h].id)
    BY <1>4, <2>1, StatusEffect, FinishFits DEF StatusWrite, LeadTypeOK
  <2>2. CASE ~Exists(req[h].id)
    BY <1>4, <2>2, FinishFits DEF StatusWrite, LeadTypeOK
  <2>. QED
    BY <2>1, <2>2
<1>5. ASSUME NEW h \in Handlers, AssignReadManager(h)
      PROVE  LeadTypeOK'
  <2>1. Fits("assign", req[h])
    BY <1>5 DEF AssignReadManager, LeadTypeOK, Fits
  <2>2. CASE active[req[h].to]
    BY <1>5, <2>1, <2>2, SetFits DEF AssignReadManager, LeadTypeOK
  <2>3. CASE ~active[req[h].to]
    BY <1>5, <2>3, FinishFits DEF AssignReadManager, LeadTypeOK
  <2>. QED
    BY <2>2, <2>3
<1>6. ASSUME NEW h \in Handlers, AssignWrite(h)
      PROVE  LeadTypeOK'
  <2>. DEFINE l == req[h].id
  <2>1. req[h] \in AssignReq
    BY <1>6 DEF AssignWrite, LeadTypeOK, Fits
  <2>2. CASE Exists(l)
    <3>1. l \in LeadIds /\ req[h].to \in Managers
      BY <2>1 DEF AssignReq
    <3>2. lead[l] \in LeadRow
      BY <2>2, <3>1, ExistsIsRow DEF LeadTypeOK
    <3>3. [lead[l] EXCEPT !.manager = req[h].to] \in LeadRow
      BY <3>1, <3>2 DEF LeadRow
    <3>4. lead' = [lead EXCEPT ![l] = [lead[l] EXCEPT !.manager = req[h].to]]
      BY <1>6, <2>2 DEF AssignWrite
    <3>5. lead' \in [LeadIds -> LeadRow \cup {NoLead, Gone}]
      BY <3>1, <3>3, <3>4 DEF LeadTypeOK
    <3>. QED
      BY <1>6, <3>5, FinishFits DEF AssignWrite, LeadTypeOK
  <2>3. CASE ~Exists(l)
    BY <1>6, <2>3, FinishFits DEF AssignWrite, LeadTypeOK
  <2>. QED
    BY <2>2, <2>3
<1>7. ASSUME NEW h \in Handlers, RemoveWrite(h)
      PROVE  LeadTypeOK'
  <2>1. lead' \in [LeadIds -> LeadRow \cup {NoLead, Gone}]
    BY <1>7 DEF RemoveWrite, LeadTypeOK
  <2>. QED
    BY <1>7, <2>1, FinishFits DEF RemoveWrite, LeadTypeOK
<1>8. ASSUME NEW l \in LeadIds, NEW actor \in Users, CreateLead(l, actor)
      PROVE  LeadTypeOK'
  <2>. DEFINE row == [status |-> "NEW", responded |-> FALSE,
                      manager |-> IF actor = Owner THEN Unassigned ELSE actor]
  <2>1. row \in LeadRow
    BY LeadsAssumption DEF LeadRow, Users
  <2>2. lead' = [lead EXCEPT ![l] = row]
    BY <1>8 DEF CreateLead
  <2>. HIDE DEF row
  <2>. QED
    BY <1>8, <2>1, <2>2 DEF CreateLead, LeadTypeOK
<1>9. ASSUME NEW l \in LeadIds, CreateDeal(l)
      PROVE  LeadTypeOK'
  BY <1>9 DEF CreateDeal, LeadTypeOK
<1>10. ASSUME NEW m \in Managers,
              (\E b \in BOOLEAN : SetManagerActive(m, b)) \/ DeleteManager(m)
       PROVE  LeadTypeOK'
  BY <1>10 DEF SetManagerActive, DeleteManager, LeadTypeOK
<1>11. CASE UNCHANGED leadVars
  BY <1>11 DEF leadVars, LeadTypeOK
<1>. QED
  BY <1>1, <1>2, <1>3, <1>4, <1>5, <1>6, <1>7, <1>8, <1>9, <1>10, <1>11
  DEF LeadNext, Request

(* The types of Leads hold in every behaviour.                             *)
THEOREM LeadTypeCorrect == LeadSpec => []LeadTypeOK
BY LeadInitType, LeadNextType, PTL DEF LeadSpec

-----------------------------------------------------------------------------
(* First responses                                                         *)

(* A status change that will not stamp has read a lead that was answered,  *)
(* or leaves it in NEW; answers are never withdrawn and ids never reused,  *)
(* which is why overlapping changes cannot lose the stamp.                 *)
StampDecided ==
  \A h \in Handlers : pc[h] = "status" =>
    /\ lead[req[h].id] # NoLead
    /\ Exists(req[h].id) /\ req[h].to # "NEW" /\ ~req[h].stamp
         => lead[req[h].id].responded

(* A lead that was not created yet was never answered.                     *)
NotYetAnswered ==
  \A l \in LeadIds : lead[l] = NoLead => responses[l] = 0

AnswerInv == AnsweredIsStamped /\ StampDecided /\ NotYetAnswered

LEMMA AnswerInit == LeadInit => AnswerInv
BY DEF LeadInit, AnswerInv, AnsweredIsStamped, StampDecided, NotYetAnswered, Exists

(* What a step may do to a lead: create it, remove it, or rewrite its row  *)
(* without withdrawing the answer.                                         *)
LEMMA LeadSteps ==
  ASSUME LeadTypeOK, [LeadNext]_leadVars, NEW l \in LeadIds
  PROVE  \/ lead[l] = NoLead /\ Exists(l)' /\ lead'[l].status = "NEW"
         \/ lead'[l] = Gone
         \/ lead'[l] = lead[l]
         \/ /\ Exists(l) /\ Exists(l)'
            /\ lead[l].responded => lead'[l].responded
<1>1. ASSUME NEW k \in LeadIds, NEW actor \in Users, CreateLead(k, actor)
      PROVE  \/ lead[l] = NoLead /\ Exists(l)' /\ lead'[l].status = "NEW"
             \/ lead'[l] = lead[l]
  <2>1. lead'[k].status = "NEW" /\ \A j \in LeadIds \ {k} : lead'[j] = lead[j]
    BY <1>1 DEF CreateLead, LeadTypeOK
  <2>2. Exists(k)'
    BY <2>1, LeadsAssumption DEF Exists, NoLead, Gone
  <2>. QED
    BY <1>1, <2>1, <2>2 DEF CreateLead
<1>2. ASSUME NEW h \in Handlers, StatusWrite(h)
      PROVE  \/ lead'[l] = lead[l]
             \/ /\ Exists(l) /\ Exists(l)'
                /\ lead[l].responded => lead'[l].responded
  <2>1. CASE Exists(req[h].id) /\ l = req[h].id
    <3>1. lead'[l] \in LeadRow /\ (lead[l].responded => lead'[l].responded)
      BY <1>2, <2>1, StatusEffect
    <3>2. Exists(l)'
      BY <3>1, NoRowIsNoLead DEF Exists
    <3>. QED
      BY <2>1, <3>1, <3>2
  <2>2. CASE Exists(req[h].id) /\ l # req[h].id
    BY <1>2, <2>2, StatusEffect
  <2>3. CASE ~Exists(req[h].id)
    BY <1>2, <2>3 DEF StatusWrite
  <2>. QED
    BY <2>1, <2>2, <2>3
<1>3. ASSUME NEW h \in Handlers, AssignWrite(h)
      PROVE  \/ lead'[l] = lead[l]
             \/ /\ Exists(l) /\ Exists(l)'
                /\ lead[l].responded => lead'[l].responded
  <2>. DEFINE row == [lead[l] EXCEPT !.manager = req[h].to]
  <2>1. CASE Exists(req[h].id) /\ l = req[h].id
    <3>1. lead[l] \in LeadRow /\ req[h] \in AssignReq
      BY <1>3, <2>1, ExistsIsRow DEF AssignWrite, LeadTypeOK, Fits
    <3>2. row \in LeadRow /\ row.responded = lead[l].responded
      BY <3>1 DEF LeadRow, AssignReq
    <3>3. lead' = [lead EXCEPT ![l] = row]
      BY <1>3, <2>1 DEF AssignWrite
    <3>. HIDE DEF row
    <3>4. lead'[l] = row
      BY <3>3 DEF LeadTypeOK
    <3>5. Exists(l)'
      BY <3>2, <3>4, NoRowIsNoLead DEF Exists
    <3>. QED
      BY <2>1, <3>2, <3>4, <3>5
  <2>2. CASE ~(Exists(req[h].id) /\ l = req[h].id)
    BY <1>3, <2>2 DEF AssignWrite, LeadTypeOK
  <2>. QED
    BY <2>1, <2>2
<1>4. ASSUME NEW h \in Handlers, RemoveWrite(h)
      PROVE  lead'[l] = lead[l] \/ lead'[l] = Gone
  BY <1>4 DEF RemoveWrite, LeadTypeOK
<1>5. ASSUME UNCHANGED lead
      PROVE  lead'[l] = lead[l]
  BY <1>5
<1>6. ASSUME NEW h \in Handlers,
             \/ \E k \in LeadIds, actor \in Users :
                  \/ \E to \in LeadStatuses : StatusBegin(h, actor, k, to)
                  \/ RemoveBegin(h, actor, k)
             \/ \E k \in LeadIds, m \in Managers : AssignBegin(h, k, m)
             \/ AssignReadManager(h)
      PROVE  UNCHANGED lead
  BY <1>6 DEF StatusBegin, RemoveBegin, AssignBegin, AssignReadManager
<1>7. ASSUME \/ \E k \in LeadIds : CreateDeal(k)
             \/ \E m \in Managers : (\E b \in BOOLEAN : SetManagerActive(m, b)) \/ DeleteManager(m)
             \/ UNCHANGED leadVars
      PROVE  UNCHANGED lead
  BY <1>7 DEF CreateDeal, SetManagerActive, DeleteManager, leadVars
<1>. QED
  BY <1>1, <1>2, <1>3, <1>4, <1>5, <1>6, <1>7 DEF LeadNext, Request

(* A handler comes to hold a status change only by StatusBegin.            *)
LEMMA StatusHeld ==
  ASSUME LeadTypeOK, [LeadNext]_leadVars, NEW h \in Handlers, pc'[h] = "status"
  PROVE  \/ pc[h] = "status" /\ req'[h] = req[h]
         \/ \E actor \in Users, l \in LeadIds, to \in LeadStatuses :
              StatusBegin(h, actor, l, to)
<1>1. ASSUME NEW g \in Handlers, NEW label, NEW r, Set(g, label, r), g # h \/ label # "status"
      PROVE  pc[h] = "status" /\ req'[h] = req[h]
  BY <1>1 DEF Set, LeadTypeOK
<1>2. ASSUME NEW g \in Handlers, Request(g)
      PROVE  \/ pc[h] = "status" /\ req'[h] = req[h]
             \/ \E actor \in Users, l \in LeadIds, to \in LeadStatuses :
                  StatusBegin(h, actor, l, to)
  <2>1. ASSUME NEW actor \in Users, NEW l \in LeadIds, NEW to \in LeadStatuses,
               StatusBegin(g, actor, l, to), g # h
        PROVE  pc[h] = "status" /\ req'[h] = req[h]
    BY <1>1, <2>1 DEF StatusBegin
  <2>2. ASSUME NEW actor \in Users, NEW l \in LeadIds, RemoveBegin(g, actor, l)
        PROVE  pc[h] = "status" /\ req'[h] = req[h]
    BY <1>1, <2>2 DEF RemoveBegin
  <2>3. ASSUME NEW l \in LeadIds, NEW m \in Managers, AssignBegin(g, l, m)
        PROVE  pc[h] = "status" /\ req'[h] = req[h]
    BY <1>1, <2>3 DEF AssignBegin
  <2>4. ASSUME StatusWrite(g) \/ AssignReadManager(g) \/ AssignWrite(g) \/ RemoveWrite(g)
        PROVE  pc[h] = "status" /\ req'[h] = req[h]
    BY <1>1, <2>4 DEF StatusWrite, AssignReadManager, AssignWrite, RemoveWrite, Finish
  <2>. QED
    BY <1>2, <2>1, <2>2, <2>3, <2>4 DEF Request
<1>3. ASSUME UNCHANGED <<pc, req>>
      PROVE  pc[h] = "status" /\ req'[h] = req[h]
  BY <1>3
<1>4. ASSUME \/ \E l \in LeadIds, actor \in Users : CreateLead(l, actor)
             \/ \E l \in LeadIds : CreateDeal(l)
             \/ \E m \in Managers : (\E b \in BOOLEAN : SetManagerActive(m, b)) \/ DeleteManager(m)
             \/ UNCHANGED leadVars
      PROVE  UNCHANGED <<pc, req>>
  BY <1>4 DEF CreateLead, CreateDeal, SetManagerActive, DeleteManager, leadVars
<1>. QED
  BY <1>2, <1>3, <1>4 DEF LeadNext

(* The counter of responses only moves with a stamp.                       *)
LEMMA ResponsesStep ==
  ASSUME LeadTypeOK, [LeadNext]_leadVars, NEW l \in LeadIds
  PROVE  \/ responses'[l] = responses[l]
         \/ Exists(l) /\ Exists(l)' /\ lead'[l].responded
<1>1. ASSUME NEW h \in Handlers, StatusWrite(h)
      PROVE  \/ responses'[l] = responses[l]
             \/ Exists(l) /\ Exists(l)' /\ lead'[l].responded
  <2>1. CASE Exists(req[h].id) /\ l = req[h].id /\ req[h].stamp
    <3>1. lead'[l] \in LeadRow /\ lead'[l].responded
      BY <1>1, <2>1, StatusEffect
    <3>. QED
      BY <2>1, <3>1, NoRowIsNoLead DEF Exists
  <2>2. CASE Exists(req[h].id) /\ ~(l = req[h].id /\ req[h].stamp)
    BY <1>1, <2>2, StatusEffect
  <2>3. CASE ~Exists(req[h].id)
    BY <1>1, <2>3 DEF StatusWrite
  <2>. QED
    BY <2>1, <2>2, <2>3
<1>2. ASSUME UNCHANGED responses
      PROVE  responses'[l] = responses[l]
  BY <1>2
<1>3. [LeadNext]_leadVars => UNCHANGED responses \/ \E h \in Handlers : StatusWrite(h)
  BY DEF LeadNext, Request, StatusBegin, RemoveBegin, AssignBegin, AssignReadManager,
         AssignWrite, RemoveWrite, CreateLead, CreateDeal, SetManagerActive,
         DeleteManager, leadVars
<1>. QED
  BY <1>1, <1>2, <1>3

(* A lead leaves NEW with a stamp.                                         *)
LEMMA LeavingNew ==
  ASSUME LeadTypeOK, StampDecided, [LeadNext]_leadVars, NEW l \in LeadIds,
         Exists(l), Exists(l)', lead[l].status = "NEW", lead'[l].status # "NEW"
  PROVE  lead'[l].responded
<1>1. ASSUME NEW h \in Handlers, StatusWrite(h)
      PROVE  lead'[l].responded
  <2>1. Exists(req[h].id) /\ l = req[h].id
    BY <1>1, StatusEffect DEF StatusWrite
  <2>2. CASE req[h].stamp
    BY <1>1, <2>1, <2>2, StatusEffect
  <2>3. CASE ~req[h].stamp
    <3>1. lead[l].responded
      BY <1>1, <2>1, <2>3, StatusEffect DEF StampDecided, StatusWrite
    <3>. QED
      BY <1>1, <2>1, <3>1, StatusEffect
  <2>. QED
    BY <2>2, <2>3
<1>2. ASSUME NEW h \in Handlers, AssignWrite(h)
      PROVE  lead'[l].status = lead[l].status
  <2>1. lead[l] \in LeadRow
    BY ExistsIsRow DEF LeadTypeOK
  <2>2. [lead[l] EXCEPT !.manager = req[h].to].status = lead[l].status
    BY <2>1 DEF LeadRow
  <2>. QED
    BY <1>2, <2>2 DEF AssignWrite, LeadTypeOK
<1>3. ASSUME NEW h \in Handlers, RemoveWrite(h)
      PROVE  lead'[l] = lead[l]
  BY <1>3 DEF RemoveWrite, LeadTypeOK, Exists
<1>4. ASSUME NEW k \in LeadIds, NEW actor \in Users, CreateLead(k, actor)
      PROVE  lead'[l] = lead[l]
  BY <1>4 DEF CreateLead, LeadTypeOK, Exists
<1>5. \/ UNCHANGED lead
      \/ \E h \in Handlers : StatusWrite(h) \/ AssignWrite(h) \/ RemoveWrite(h)
      \/ \E k \in LeadIds, actor \in Users : CreateLead(k, actor)
  BY DEF LeadNext, Request, StatusBegin, RemoveBegin, AssignBegin, AssignReadManager,
         CreateDeal, SetManagerActive, DeleteManager, leadVars
<1>. QED
  BY <1>1, <1>2, <1>3, <1>4, <1>5

LEMMA AnswerStep == LeadTypeOK /\ AnswerInv /\ [LeadNext]_leadVars => AnswerInv'
<1>. SUFFICES ASSUME LeadTypeOK, AnswerInv, [LeadNext]_leadVars PROVE AnswerInv'
  OBVIOUS
<1>. USE DEF AnswerInv
<1>1. ASSUME NEW l \in LeadIds, Exists(l)', lead'[l].status # "NEW" \/ responses'[l] > 0
      PROVE  lead'[l].responded
  <2>1. CASE lead[l] = NoLead
    BY <1>1, <2>1, LeadSteps, ResponsesStep DEF NotYetAnswered, Exists, LeadTypeOK
  <2>2. CASE Exists(l)
    <3>1. lead[l].responded => lead'[l].responded
      BY <1>1, <2>2, LeadSteps DEF Exists
    <3>2. CASE lead[l].responded
      BY <3>1, <3>2
    <3>3. CASE ~lead[l].responded
      <4>1. lead[l].status = "NEW" /\ ~(responses[l] > 0)
        BY <2>2, <3>3 DEF AnsweredIsStamped
      <4>2. CASE lead'[l].status # "NEW"
        BY <1>1, <2>2, <4>1, <4>2, LeavingNew
      <4>3. CASE responses'[l] > 0
        BY <4>1, <4>3, ResponsesStep
      <4>. QED
        BY <1>1, <4>2, <4>3
    <3>. QED
      BY <3>2, <3>3
  <2>3. CASE lead[l] = Gone
    BY <1>1, <2>3, LeadSteps DEF Exists, Gone, NoLead
  <2>. QED
    BY <2>1, <2>2, <2>3 DEF Exists
<1>2. AnsweredIsStamped'
  BY <1>1 DEF AnsweredIsStamped
<1>3. ASSUME NEW h \in Handlers, pc'[h] = "status"
      PROVE  /\ lead'[req'[h].id] # NoLead
             /\ lead'[req'[h].id] \notin {NoLead, Gone} /\ req'[h].to # "NEW" /\ ~req'[h].stamp
                  => lead'[req'[h].id].responded
  <2>1. CASE pc[h] = "status" /\ req'[h] = req[h]
    <3>. DEFINE l == req[h].id
    <3>1. l \in LeadIds
      BY <2>1 DEF LeadTypeOK, Fits, StatusReq
    <3>2. lead[l] # NoLead
      BY <2>1 DEF StampDecided
    <3>3. lead'[l] # NoLead
      BY <3>1, <3>2, LeadSteps DEF Exists, Gone, NoLead
    <3>4. \/ lead'[l] = Gone \/ lead'[l] = lead[l]
          \/ Exists(l) /\ (lead[l].responded => lead'[l].responded)
      BY <3>1, <3>2, LeadSteps
    <3>5. /\ req'[h] = req[h]
          /\ lead[l] \notin {NoLead, Gone} /\ req[h].to # "NEW" /\ ~req[h].stamp
               => lead[l].responded
      BY <2>1 DEF StampDecided, Exists
    <3>. QED
      BY <3>3, <3>4, <3>5 DEF Exists
  <2>2. ASSUME NEW actor \in Users, NEW l \in LeadIds, NEW to \in LeadStatuses,
               StatusBegin(h, actor, l, to)
        PROVE  /\ lead'[req'[h].id] # NoLead
               /\ lead'[req'[h].id] \notin {NoLead, Gone} /\ req'[h].to # "NEW" /\ ~req'[h].stamp
                    => lead'[req'[h].id].responded
    <3>1. req'[h] = [id |-> l, to |-> to,
            stamp |-> lead[l].status = "NEW" /\ to # "NEW" /\ ~lead[l].responded]
      BY <2>2 DEF StatusBegin, Set, LeadTypeOK
    <3>2. Exists(l) /\ lead' = lead
      BY <2>2 DEF StatusBegin, Accessible
    <3>3. lead[l].status # "NEW" => lead[l].responded
      BY <3>2 DEF AnsweredIsStamped
    <3>4. /\ req'[h].id = l /\ req'[h].to = to
          /\ req'[h].stamp = (lead[l].status = "NEW" /\ to # "NEW" /\ ~lead[l].responded)
      BY <3>1
    <3>5. lead'[l] # NoLead
      BY <3>2 DEF Exists
    <3>6. to # "NEW" /\ ~req'[h].stamp => lead'[l].responded
      BY <3>2, <3>3, <3>4
    <3>. QED
      BY <3>4, <3>5, <3>6
  <2>. QED
    BY <1>3, <2>1, <2>2, StatusHeld
<1>4. StampDecided'
  BY <1>3 DEF StampDecided, Exists
<1>5. NotYetAnswered'
  BY LeadSteps, ResponsesStep DEF NotYetAnswered, Exists, Gone, NoLead
<1>. QED
  BY <1>2, <1>4, <1>5

(* A lead that has left NEW, or was ever stamped, keeps its first response *)
(* however status changes overlap: changeStatus decides on a stale row but *)
(* never clears firstResponseAt.                                           *)
THEOREM AnswersAreStamped == LeadSpec => []AnsweredIsStamped
<1>1. LeadInit => LeadTypeOK /\ AnswerInv
  BY LeadInitType, AnswerInit
<1>2. LeadTypeOK /\ AnswerInv /\ [LeadNext]_leadVars => LeadTypeOK' /\ AnswerInv'
  BY LeadNextType, AnswerStep
<1>3. AnswerInv => AnsweredIsStamped
  BY DEF AnswerInv
<1>. QED
  BY <1>1, <1>2, <1>3, PTL DEF LeadSpec

=============================================================================

------------------------------- MODULE Leads -------------------------------
(***************************************************************************)
(* LeadsService (leads/leads.service.ts): how a lead is created, answered, *)
(* assigned and removed, with the manager accounts it depends on           *)
(* (users/users.service.ts).                                               *)
(*                                                                         *)
(* A handler is one request in flight.  Each operation reads the lead,     *)
(* decides, and writes it with an unconditional update in a later step.    *)
(***************************************************************************)
EXTENDS Integers

CONSTANTS
  Handlers,
  LeadIds,       \* ids of the leads that may be created (bound)
  Managers,
  Owner,
  Unassigned,    \* assignedManagerId = null
  LeadStatuses   \* NEW and some of the others, which nothing tells apart

ASSUME LeadsAssumption ==
  /\ "NEW" \in LeadStatuses
  /\ {"none", "gone"} \cap LeadStatuses = {}
  /\ Owner \notin Managers
  /\ Unassigned \notin Managers

VARIABLES
  lead,        \* the Lead rows
  dealt,       \* leads some deal refers to
  active,      \* User.isActive
  chat,        \* User.telegramChatId is set
  pc, req,     \* where each request stands and what it has read
  responses    \* history: how often firstResponseAt was written

leadVars == <<lead, dealt, active, chat, pc, req, responses>>

-----------------------------------------------------------------------------
(* Data                                                                    *)

NoLead == [status |-> "none"]
Gone   == [status |-> "gone"]
NoReq  == [op |-> "none"]

LeadRow ==
  [status : LeadStatuses, manager : Managers \cup {Unassigned},
   responded : BOOLEAN]       \* firstResponseAt is set

Exists(l) == lead[l] \notin {NoLead, Gone}

StatusReq == [id : LeadIds, to : LeadStatuses, stamp : BOOLEAN]
AssignReq == [id : LeadIds, to : Managers]
RemoveReq == [id : LeadIds]

Set(h, label, r) ==
  /\ pc' = [pc EXCEPT ![h] = label]
  /\ req' = [req EXCEPT ![h] = r]

Finish(h) == Set(h, "idle", NoReq)

(* getAccessibleLead: a MANAGER only finds leads assigned to them.         *)
Accessible(l, actor) == Exists(l) /\ (actor = Owner \/ lead[l].manager = actor)

-----------------------------------------------------------------------------
(* create, changeStatus                                                    *)

(* A manager's own lead is theirs, the owner's waits to be assigned.       *)
CreateLead(l, actor) ==
  /\ lead[l] = NoLead
  /\ lead' = [lead EXCEPT ![l] =
       [status |-> "NEW", responded |-> FALSE,
        manager |-> IF actor = Owner THEN Unassigned ELSE actor]]
  /\ UNCHANGED <<dealt, active, chat, pc, req, responses>>

(* Whether this is the first response is decided on the row as read.       *)
StatusBegin(h, actor, l, to) ==
  /\ pc[h] = "idle"
  /\ Accessible(l, actor)
  /\ Set(h, "status",
         [id |-> l, to |-> to,
          stamp |-> lead[l].status = "NEW" /\ to # "NEW" /\ ~lead[l].responded])
  /\ UNCHANGED <<lead, dealt, active, chat, responses>>

Mut_StatusWriteResets(h) ==
  LET r == req[h] IN
  /\ pc[h] = "status"
  /\ IF Exists(r.id)
     THEN /\ lead' = [lead EXCEPT ![r.id].status = r.to, ![r.id].responded = r.stamp]
          /\ responses' = [responses EXCEPT ![r.id] = IF r.stamp THEN @ + 1 ELSE @]
     ELSE UNCHANGED <<lead, responses>>
  /\ Finish(h)
  /\ UNCHANGED <<dealt, active, chat>>

(* A lead removed meanwhile makes the update fail.                         *)
StatusWrite(h) ==
  LET r == req[h] IN
  /\ pc[h] = "status"
  /\ IF Exists(r.id)
     THEN /\ lead' = [lead EXCEPT ![r.id].status = r.to,
                                  ![r.id].responded = @ \/ r.stamp]
          /\ responses' = [responses EXCEPT ![r.id] = IF r.stamp THEN @ + 1 ELSE @]
     ELSE UNCHANGED <<lead, responses>>
  /\ Finish(h)
  /\ UNCHANGED <<dealt, active, chat>>

-----------------------------------------------------------------------------
(* assign, remove                                                          *)

AssignBegin(h, l, m) ==
  /\ pc[h] = "idle"
  /\ Exists(l)
  /\ Set(h, "assignee", [id |-> l, to |-> m])
  /\ UNCHANGED <<lead, dealt, active, chat, responses>>

(* A blocked manager is a 409.                                             *)
AssignReadManager(h) ==
  /\ pc[h] = "assignee"
  /\ IF active[req[h].to] THEN Set(h, "assign", req[h]) ELSE Finish(h)
  /\ UNCHANGED <<lead, dealt, active, chat, responses>>

AssignWrite(h) ==
  /\ pc[h] = "assign"
  /\ lead' = IF Exists(req[h].id)
             THEN [lead EXCEPT ![req[h].id].manager = req[h].to]
             ELSE lead
  /\ Finish(h)
  /\ UNCHANGED <<dealt, active, chat, responses>>

RemoveBegin(h, actor, l) ==
  /\ pc[h] = "idle"
  /\ Accessible(l, actor)
  /\ Set(h, "remove", [id |-> l])
  /\ UNCHANGED <<lead, dealt, active, chat, responses>>

(* The foreign key keeps a lead that has deals; removing a removed lead is *)
(* an error.                                                               *)
RemoveWrite(h) ==
  /\ pc[h] = "remove"
  /\ lead' = IF Exists(req[h].id) /\ req[h].id \notin dealt
             THEN [lead EXCEPT ![req[h].id] = Gone]
             ELSE lead
  /\ Finish(h)
  /\ UNCHANGED <<dealt, active, chat, responses>>

-----------------------------------------------------------------------------
(* Other services                                                          *)

(* DealsService.create inserts a deal; see Deals for the way there.        *)
CreateDeal(l) ==
  /\ Exists(l)
  /\ dealt' = dealt \cup {l}
  /\ UNCHANGED <<lead, active, chat, pc, req, responses>>

(* UsersService.blockManager and unblockManager.                           *)
SetManagerActive(m, b) ==
  /\ active' = [active EXCEPT ![m] = b]
  /\ UNCHANGED <<lead, dealt, chat, pc, req, responses>>

(* UsersService.deleteManager is soft: leads keep referring to the row.    *)
DeleteManager(m) ==
  /\ active' = [active EXCEPT ![m] = FALSE]
  /\ chat' = [chat EXCEPT ![m] = FALSE]
  /\ UNCHANGED <<lead, dealt, pc, req, responses>>

-----------------------------------------------------------------------------
(* The specification                                                       *)

LeadInit ==
  /\ lead = [l \in LeadIds |-> NoLead]
  /\ dealt = {}
  /\ active = [m \in Managers |-> TRUE]
  /\ chat \in [Managers -> BOOLEAN]
  /\ pc = [h \in Handlers |-> "idle"]
  /\ req = [h \in Handlers |-> NoReq]
  /\ responses = [l \in LeadIds |-> 0]

Users == Managers \cup {Owner}

Request(h) ==
  \/ \E l \in LeadIds, actor \in Users :
       \/ \E to \in LeadStatuses : StatusBegin(h, actor, l, to)
       \/ RemoveBegin(h, actor, l)
  \/ \E l \in LeadIds, m \in Managers : AssignBegin(h, l, m)
  \/ StatusWrite(h) \/ AssignReadManager(h) \/ AssignWrite(h) \/ RemoveWrite(h)

LeadNext ==
  \/ \E h \in Handlers : Request(h)
  \/ \E l \in LeadIds, actor \in Users : CreateLead(l, actor)
  \/ \E l \in LeadIds : CreateDeal(l)
  \/ \E m \in Managers : \/ \E b \in BOOLEAN : SetManagerActive(m, b)
                         \/ DeleteManager(m)

LeadSpec == LeadInit /\ [][LeadNext]_leadVars

-----------------------------------------------------------------------------
(* Properties                                                              *)

Fits(label, r) ==
  \/ label = "idle" /\ r = NoReq
  \/ label = "status" /\ r \in StatusReq
  \/ label \in {"assignee", "assign"} /\ r \in AssignReq
  \/ label = "remove" /\ r \in RemoveReq

(* Every variable holds a value of its kind, and what a request remembers  *)
(* fits where it stands.                                                   *)
LeadTypeOK ==
  /\ lead \in [LeadIds -> LeadRow \cup {NoLead, Gone}]
  /\ dealt \subseteq LeadIds
  /\ active \in [Managers -> BOOLEAN]
  /\ chat \in [Managers -> BOOLEAN]
  /\ responses \in [LeadIds -> Nat]
  /\ DOMAIN pc = Handlers /\ DOMAIN req = Handlers
  /\ \A h \in Handlers : Fits(pc[h], req[h])

(* However status changes overlap, a lead that has left NEW, for good or   *)
(* for a while, has a first response on record: the SLA check asks for     *)
(* firstResponseAt and never for the status.                               *)
AnsweredIsStamped ==
  \A l \in LeadIds :
    Exists(l) /\ (lead[l].status # "NEW" \/ responses[l] > 0) => lead[l].responded

=============================================================================

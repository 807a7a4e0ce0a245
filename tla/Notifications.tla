--------------------------- MODULE Notifications ---------------------------
(***************************************************************************)
(* The SLA check (notifications/notifications.processor.ts) and the        *)
(* delivery of what it finds (notifications.service.ts), composed with the *)
(* leads that are created, answered, assigned and removed meanwhile, and   *)
(* with the mail queue.                                                    *)
(*                                                                         *)
(* A worker runs the repeating job: one query for all breaching leads,     *)
(* then lead by lead a lookup, a Notification row, the recipient, Telegram *)
(* and, failing that, a mail.                                              *)
(***************************************************************************)
EXTENDS Leads, MailQueue

CONSTANTS
  Workers,       \* processes that run the job
  MaxFailures    \* bound on jobs that end with an error

ASSUME NotificationsAssumption ==
  /\ Mails = LeadIds \X Workers
  /\ MaxFailures \in Nat

VARIABLES
  late,      \* leads created more than slaMinutes ago
  wpc,       \* where each worker stands
  todo,      \* the leads of the query still to look at, with their managers
  current,   \* the lead at hand
  rows,      \* SLA_BREACH Notification rows per lead
  told,      \* leads whose manager got the Telegram message
  failures,  \* jobs that ended with an error so far
  dropped,   \* history: leads at hand when a job failed
  inTime     \* history: leads answered before they were late

slaVars == <<late, wpc, todo, current, rows, told, failures, dropped, inTime>>
vars == <<lead, dealt, active, chat, pc, req, responses, mail, tries, stalls,
          accepted, late, wpc, todo, current, rows, told, failures, dropped, inTime>>

-----------------------------------------------------------------------------
(* Data                                                                    *)

Nobody == [l \in LeadIds |-> Unassigned]
NoLeadAtHand == [lead |-> "none"]

Mut_BreachingByStatus(l) ==
  Exists(l) /\ lead[l].status = "NEW" /\ lead[l].manager # Unassigned /\ l \in late

(* The query: no first response, a manager, and older than the SLA.        *)
Breaching(l) ==
  Exists(l) /\ ~lead[l].responded /\ lead[l].manager # Unassigned /\ l \in late

Pending(w) == {l \in LeadIds : todo[w][l] # Unassigned}

Step(w, from, to) ==
  /\ wpc[w] = from
  /\ wpc' = [wpc EXCEPT ![w] = to]
  /\ UNCHANGED <<lead, dealt, active, chat, pc, req, responses, late, failures, inTime>>

-----------------------------------------------------------------------------
(* runSlaCheck                                                             *)

SlaBegin(w) ==
  /\ Step(w, "idle", "check")
  /\ todo' = [todo EXCEPT ![w] =
       [l \in LeadIds |-> IF Breaching(l) THEN lead[l].manager ELSE Unassigned]]
  /\ UNCHANGED <<current, rows, told, dropped, mailVars>>

Mut_SlaSkipEndsJob(w, l) ==
  /\ l \in Pending(w) /\ rows[l] > 0
  /\ Step(w, "check", "idle")
  /\ todo' = [todo EXCEPT ![w] = Nobody]
  /\ UNCHANGED <<current, rows, told, dropped, mailVars>>

(* A lead that was notified before is skipped, and the loop goes on.       *)
SlaSkip(w, l) ==
  /\ l \in Pending(w) /\ rows[l] > 0
  /\ Step(w, "check", "check")
  /\ todo' = [todo EXCEPT ![w][l] = Unassigned]
  /\ UNCHANGED <<current, rows, told, dropped, mailVars>>

Mut_SlaTakeAlways(w, l) ==
  /\ l \in Pending(w)
  /\ Step(w, "check", "record")
  /\ current' = [current EXCEPT ![w] = [lead |-> l, manager |-> todo[w][l]]]
  /\ todo' = [todo EXCEPT ![w][l] = Unassigned]
  /\ UNCHANGED <<rows, told, dropped, mailVars>>

SlaTake(w, l) ==
  /\ l \in Pending(w) /\ rows[l] = 0
  /\ Step(w, "check", "record")
  /\ current' = [current EXCEPT ![w] = [lead |-> l, manager |-> todo[w][l]]]
  /\ todo' = [todo EXCEPT ![w][l] = Unassigned]
  /\ UNCHANGED <<rows, told, dropped, mailVars>>

SlaEnd(w) ==
  /\ Pending(w) = {}
  /\ Step(w, "check", "idle")
  /\ UNCHANGED <<todo, current, rows, told, dropped, mailVars>>

-----------------------------------------------------------------------------
(* notify                                                                  *)

(* The row comes first, delivery later.                                    *)
RecordRow(w) ==
  /\ Step(w, "record", "recipient")
  /\ rows' = [rows EXCEPT ![current[w].lead] = @ + 1]
  /\ UNCHANGED <<todo, current, told, dropped, mailVars>>

ReadRecipient(w) ==
  /\ Step(w, "recipient", IF chat[current[w].manager] THEN "telegram" ELSE "mail")
  /\ UNCHANGED <<todo, current, rows, told, dropped, mailVars>>

Done(w) == current' = [current EXCEPT ![w] = NoLeadAtHand]

TelegramSent(w) ==
  /\ Step(w, "telegram", "check")
  /\ told' = told \cup {current[w].lead}
  /\ Done(w)
  /\ UNCHANGED <<todo, rows, dropped, mailVars>>

Mut_TelegramFailsQuietly(w) ==
  /\ Step(w, "telegram", "check")
  /\ Done(w)
  /\ UNCHANGED <<todo, rows, told, dropped, mailVars>>

(* No token, a bad chat, a network error, or an answer that got lost after *)
(* the message was delivered: the error is caught and the mail follows.    *)
TelegramFails(w) ==
  /\ Step(w, "telegram", "mail")
  /\ told' \in {told, told \cup {current[w].lead}}
  /\ UNCHANGED <<todo, current, rows, dropped, mailVars>>

EnqueueMail(w) ==
  /\ Step(w, "mail", "check")
  /\ Enqueue(<<current[w].lead, w>>)
  /\ Done(w)
  /\ UNCHANGED <<todo, rows, told, dropped>>

(* An error of the database or of Redis, or the end of the process.  The   *)
(* leads not looked at yet are found again by the next check.              *)
JobFails(w) ==
  /\ wpc[w] # "idle"
  /\ failures < MaxFailures
  /\ failures' = failures + 1
  /\ wpc' = [wpc EXCEPT ![w] = "idle"]
  /\ todo' = [todo EXCEPT ![w] = Nobody]
  /\ Done(w)
  /\ dropped' = IF wpc[w] \in {"recipient", "telegram", "mail"}
                THEN dropped \cup {current[w].lead}
                ELSE dropped
  /\ UNCHANGED <<leadVars, mailVars, late, rows, told, inTime>>

-----------------------------------------------------------------------------
(* The specification                                                       *)

Init ==
  /\ LeadInit /\ MailInit
  /\ late = {}
  /\ wpc = [w \in Workers |-> "idle"]
  /\ todo = [w \in Workers |-> Nobody]
  /\ current = [w \in Workers |-> NoLeadAtHand]
  /\ rows = [l \in LeadIds |-> 0]
  /\ told = {} /\ dropped = {} /\ inTime = {}
  /\ failures = 0

Check(w) ==
  \/ SlaBegin(w)
  \/ \E l \in LeadIds : SlaSkip(w, l) \/ SlaTake(w, l)
  \/ SlaEnd(w)
  \/ RecordRow(w) \/ ReadRecipient(w)
  \/ TelegramSent(w) \/ TelegramFails(w) \/ EnqueueMail(w)

(* Time passes, and a lead becomes late.                                   *)
GrowLate(l) ==
  /\ Exists(l) /\ l \notin late
  /\ late' = late \cup {l}
  /\ UNCHANGED <<leadVars, mailVars, wpc, todo, current, rows, told, failures,
                 dropped, inTime>>

Responded(l) == Exists(l) /\ lead[l].responded

LeadStep ==
  /\ LeadNext
  /\ inTime' = inTime \cup
       {l \in LeadIds \ late : ~Responded(l) /\ Responded(l)'}
  /\ UNCHANGED <<mailVars, late, wpc, todo, current, rows, told, failures, dropped>>

MailStep == \E x \in Mails : (Process(x) \/ Stall(x)) /\ UNCHANGED <<leadVars, slaVars>>

Next ==
  \/ LeadStep
  \/ \E l \in LeadIds : GrowLate(l)
  \/ \E w \in Workers : Check(w) \/ JobFails(w)
  \/ MailStep

Spec == Init /\ [][Next]_vars

(* BullMQ starts the check every minute and runs it to its end; the mail   *)
(* worker keeps running.                                                   *)
Fairness == MailFairness /\ \A w \in Workers : WF_vars(Check(w))

-----------------------------------------------------------------------------
(* Properties                                                              *)

(* Every variable holds a value of its kind, and a worker has a lead at    *)
(* hand exactly while it notifies somebody.                                *)
TypeOK ==
  /\ LeadTypeOK /\ MailTypeOK
  /\ late \subseteq LeadIds
  /\ wpc \in [Workers -> {"idle", "check", "record", "recipient", "telegram", "mail"}]
  /\ todo \in [Workers -> [LeadIds -> Managers \cup {Unassigned}]]
  /\ rows \in [LeadIds -> Nat]
  /\ told \subseteq LeadIds /\ dropped \subseteq LeadIds /\ inTime \subseteq LeadIds
  /\ \A w \in Workers :
       IF wpc[w] \in {"idle", "check"}
       THEN current[w] = NoLeadAtHand
       ELSE current[w] \in [lead : LeadIds, manager : Managers]

(* notifications.processor.ts: "One notification per lead, ever", however  *)
(* many checks find it, fail, or are repeated.  It takes that the job runs *)
(* in one process at a time.                                               *)
OneNotificationPerLead == \A l \in LeadIds : rows[l] <= 1

(* A notification that was recorded is on its way by Telegram or by mail   *)
(* unless the job failed on it: no way of Telegram to fail loses it.       *)
AtHand == {current[w].lead : w \in {v \in Workers : current[v] # NoLeadAtHand}}
NothingLostQuietly ==
  \A l \in LeadIds : rows[l] > 0 /\ l \notin AtHand \cup dropped =>
    l \in told \/ \E w \in Workers : mail[<<l, w>>] # "none"

(* Whoever answers a lead in time is never reported, whatever happens to   *)
(* its status, manager and other requests afterwards.                      *)
InTimeIsNotReported ==
  \A l \in inTime : rows[l] = 0 /\ l \notin AtHand

(* A lead that stays late, assigned and unanswered is reported, although   *)
(* jobs fail halfway and other leads are skipped.                          *)
BreachReported == \A l \in LeadIds : Breaching(l) ~> rows[l] > 0 \/ ~Breaching(l)

=============================================================================

------------------------ MODULE NotificationsProofs ------------------------
(***************************************************************************)
(* Proofs about MailQueue and Notifications, for every value of their      *)
(* constants.  Notifications implements the specifications of its parts,   *)
(* so what is proved of Leads and of MailQueue alone holds of it too.      *)
(***************************************************************************)
EXTENDS Notifications, LeadsProofs, TLAPS

-----------------------------------------------------------------------------
(* The mail queue                                                          *)

LEMMA MailInitType == MailInit => MailTypeOK
BY MailAssumption DEF MailInit, MailTypeOK, MailStates, MaxStalled

(* A job that has been sent was taken by the server: what OutcomeIsTrue    *)
(* needs of the step before completion.                                    *)
SentWasTaken == \A x \in Mails : mail[x] = "sent" => x \in accepted

MailInv == MailTypeOK /\ OutcomeIsTrue /\ SentWasTaken

LEMMA MailNextInv == MailInv /\ [MailNext]_mailVars => MailInv'
<1>. SUFFICES ASSUME MailInv, [MailNext]_mailVars PROVE MailInv'
  OBVIOUS
<1>. USE DEF MailInv, MailTypeOK, OutcomeIsTrue, SentWasTaken, MaxStalled
<1>1. ASSUME NEW x \in Mails, Enqueue(x) \/ Take(x)
      PROVE  MailInv'
  BY <1>1 DEF Enqueue, Take, Move, MailStates
<1>2. ASSUME NEW x \in Mails, SendMail(x)
      PROVE  MailInv'
  BY <1>2 DEF SendMail, Move, MailStates
<1>3. ASSUME NEW x \in Mails, SendFails(x)
      PROVE  MailInv'
  BY <1>3 DEF SendFails, Move, MailStates
<1>4. ASSUME NEW x \in Mails, GiveBack(x)
      PROVE  MailInv'
  BY <1>4, MailAssumption DEF GiveBack, Move, MailStates
<1>5. ASSUME NEW x \in Mails, Complete(x)
      PROVE  MailInv'
  BY <1>5 DEF Complete, Move, MailStates
<1>6. ASSUME NEW x \in Mails, Stall(x)
      PROVE  MailInv'
  BY <1>6, MailAssumption DEF Stall, MailStates
<1>7. CASE UNCHANGED mailVars
  BY <1>7 DEF mailVars
<1>. QED
  BY <1>1, <1>2, <1>3, <1>4, <1>5, <1>6, <1>7 DEF MailNext, Process

(* A job is completed only with its mail out, and given up after all of    *)
(* its attempts have failed or its worker died twice: not after one death, *)
(* nor with attempts left, and no job lives on after either.               *)
THEOREM MailOutcome == MailSpec => []OutcomeIsTrue
<1>1. MailInit => MailInv
  BY MailInitType, MailAssumption DEF MailInit, MailInv, OutcomeIsTrue, SentWasTaken, MaxStalled
<1>2. MailInv => OutcomeIsTrue
  BY DEF MailInv
<1>. QED
  BY <1>1, <1>2, MailNextInv, PTL DEF MailSpec

-----------------------------------------------------------------------------
(* The composition                                                         *)

LEMMA StepIsLeadStep == [Next]_vars => [LeadNext]_leadVars
BY DEF Next, vars, leadVars, LeadStep, GrowLate, Check, JobFails, MailStep, SlaBegin,
       SlaSkip, SlaTake, SlaEnd, RecordRow, ReadRecipient, TelegramSent, TelegramFails,
       EnqueueMail, Step

(* Nothing the checks and the mails do can be told from Leads alone.       *)
THEOREM ImplementsLeads == Spec => LeadSpec
<1>1. Init => LeadInit
  BY DEF Init
<1>. QED
  BY <1>1, StepIsLeadStep, PTL DEF Spec, LeadSpec

(* What TypeOK says of the variables of the check.                         *)
LeadAtHand == [lead : LeadIds, manager : Managers]
SlaTypeOK ==
  /\ late \subseteq LeadIds
  /\ wpc \in [Workers -> {"idle", "check", "record", "recipient", "telegram", "mail"}]
  /\ todo \in [Workers -> [LeadIds -> Managers \cup {Unassigned}]]
  /\ rows \in [LeadIds -> Nat]
  /\ told \subseteq LeadIds /\ dropped \subseteq LeadIds /\ inTime \subseteq LeadIds
  /\ DOMAIN current = Workers
  /\ \A w \in Workers :
       IF wpc[w] \in {"idle", "check"}
       THEN current[w] = NoLeadAtHand
       ELSE current[w] \in LeadAtHand

LEMMA SlaInitType == Init => SlaTypeOK
BY LeadsAssumption DEF Init, SlaTypeOK, Nobody

LEMMA SlaNextType == LeadTypeOK /\ SlaTypeOK /\ [Next]_vars => SlaTypeOK'
<1>. SUFFICES ASSUME LeadTypeOK, SlaTypeOK, [Next]_vars PROVE SlaTypeOK'
  OBVIOUS
<1>1. CASE LeadStep
  BY <1>1 DEF LeadStep, SlaTypeOK
<1>2. ASSUME NEW l \in LeadIds, GrowLate(l)
      PROVE  SlaTypeOK'
  BY <1>2 DEF GrowLate, SlaTypeOK
<1>3. ASSUME NEW w \in Workers, SlaBegin(w)
      PROVE  SlaTypeOK'
  <2>1. \A l \in LeadIds : Breaching(l) => lead[l].manager \in Managers
    BY ExistsIsRow DEF Breaching, LeadTypeOK, LeadRow
  <2>2. todo' \in [Workers -> [LeadIds -> Managers \cup {Unassigned}]]
    BY <1>3, <2>1 DEF SlaBegin, SlaTypeOK
  <2>. QED
    BY <1>3, <2>2 DEF SlaBegin, Step, SlaTypeOK
<1>4. ASSUME NEW w \in Workers, NEW l \in LeadIds, SlaSkip(w, l)
      PROVE  SlaTypeOK'
  BY <1>4 DEF SlaSkip, Step, SlaTypeOK
<1>5. ASSUME NEW w \in Workers, NEW l \in LeadIds, SlaTake(w, l)
      PROVE  SlaTypeOK'
  <2>1. [lead |-> l, manager |-> todo[w][l]] \in LeadAtHand
    BY <1>5 DEF SlaTake, Pending, SlaTypeOK, LeadAtHand
  <2>. QED
    BY <1>5, <2>1 DEF SlaTake, Step, SlaTypeOK
<1>6. ASSUME NEW w \in Workers, SlaEnd(w) \/ ReadRecipient(w)
      PROVE  SlaTypeOK'
  BY <1>6 DEF SlaEnd, ReadRecipient, Step, SlaTypeOK
<1>7. ASSUME NEW w \in Workers, RecordRow(w)
      PROVE  SlaTypeOK'
  BY <1>7 DEF RecordRow, Step, SlaTypeOK, LeadAtHand
<1>8. ASSUME NEW w \in Workers, TelegramSent(w) \/ TelegramFails(w)
      PROVE  SlaTypeOK'
  BY <1>8 DEF TelegramSent, TelegramFails, Step, Done, SlaTypeOK, LeadAtHand
<1>9. ASSUME NEW w \in Workers, EnqueueMail(w)
      PROVE  SlaTypeOK'
  BY <1>9 DEF EnqueueMail, Step, Done, SlaTypeOK
<1>10. ASSUME NEW w \in Workers, JobFails(w)
       PROVE  SlaTypeOK'
  <2>1. dropped' \subseteq LeadIds
    BY <1>10 DEF JobFails, SlaTypeOK, LeadAtHand
  <2>. QED
    BY <1>10, <2>1 DEF JobFails, Done, Nobody, SlaTypeOK
<1>11. CASE MailStep \/ UNCHANGED vars
  BY <1>11 DEF MailStep, slaVars, vars, SlaTypeOK
<1>. QED
  BY <1>1, <1>2, <1>3, <1>4, <1>5, <1>6, <1>7, <1>8, <1>9, <1>10, <1>11 DEF Next, Check

LEMMA StepIsMailStep ==
  ASSUME LeadTypeOK, SlaTypeOK, [Next]_vars
  PROVE  [MailNext]_mailVars
<1>1. ASSUME NEW w \in Workers, EnqueueMail(w)
      PROVE  MailNext
  <2>1. <<current[w].lead, w>> \in Mails
    BY <1>1, NotificationsAssumption DEF EnqueueMail, Step, SlaTypeOK, LeadAtHand
  <2>. QED
    BY <1>1, <2>1 DEF EnqueueMail, MailNext
<1>2. CASE MailStep
  BY <1>2 DEF MailStep, MailNext
<1>. QED
  BY <1>1, <1>2
  DEF Next, vars, mailVars, LeadStep, GrowLate, Check, JobFails, SlaBegin, SlaSkip,
      SlaTake, SlaEnd, RecordRow, ReadRecipient, TelegramSent, TelegramFails

(* Nothing else puts a mail into the queue than what enqueue puts there.   *)
THEOREM ImplementsMailQueue == Spec => MailSpec
<1>1. Init => MailInit
  BY DEF Init
<1>2. Spec => []LeadTypeOK
  BY ImplementsLeads, LeadTypeCorrect, PTL
<1>3. Spec => []SlaTypeOK
  BY <1>2, SlaInitType, SlaNextType, PTL DEF Spec
<1>. QED
  BY <1>1, <1>2, <1>3, StepIsMailStep, PTL DEF Spec, MailSpec

(* What is needed of the types below.                                      *)
Types == LeadTypeOK /\ MailTypeOK /\ SlaTypeOK

LEMMA TypesHold == Spec => []Types
<1>1. Spec => []LeadTypeOK
  BY ImplementsLeads, LeadTypeCorrect, PTL
<1>2. Spec => []SlaTypeOK
  BY <1>1, SlaInitType, SlaNextType, PTL DEF Spec
<1>3. MailSpec => []MailTypeOK
  <2>1. MailInit => MailInv
    BY MailInitType, MailAssumption DEF MailInit, MailInv, OutcomeIsTrue, SentWasTaken, MaxStalled
  <2>2. MailInv => MailTypeOK
    BY DEF MailInv
  <2>. QED
    BY <2>1, <2>2, MailNextInv, PTL DEF MailSpec
<1>. QED
  BY <1>1, <1>2, <1>3, ImplementsMailQueue, PTL DEF Types

(* The types of the composed system.                                       *)
THEOREM TypeCorrect == Spec => []TypeOK
<1>1. Types => TypeOK
  BY DEF Types, TypeOK, SlaTypeOK, LeadAtHand
<1>. QED
  BY <1>1, TypesHold, PTL

(* What is true of the parts alone is true of them together.               *)
THEOREM AnswersStayStamped == Spec => []AnsweredIsStamped
BY ImplementsLeads, AnswersAreStamped, PTL

(* So the mail of a notification counts as sent only when it has left, and *)
(* is given up only after all its attempts or the second death.            *)
THEOREM MailsOfChecksSettle == Spec => []OutcomeIsTrue
BY ImplementsMailQueue, MailOutcome, PTL

-----------------------------------------------------------------------------
(* What is recorded goes out                                               *)

LEMMA NotAtHand == \A x \in LeadAtHand : x # NoLeadAtHand
<1>1. \A x \in LeadAtHand : "manager" \in DOMAIN x
  BY DEF LeadAtHand
<1>2. "manager" \notin DOMAIN NoLeadAtHand
  BY DEF NoLeadAtHand
<1>. QED
  BY <1>1, <1>2

(* A worker has a lead at hand unless it is idle or between two leads.     *)
Busy(w) == wpc[w] \notin {"idle", "check"}

LEMMA AtHandIsBusy ==
  ASSUME SlaTypeOK, NEW l
  PROVE  l \in AtHand <=> \E w \in Workers : Busy(w) /\ current[w].lead = l
BY NotAtHand DEF SlaTypeOK, AtHand, Busy

(* The row is written already.                                             *)
Notifying(w) == wpc[w] \in {"recipient", "telegram", "mail"}

(* NothingLostQuietly without the help of a worker that has yet to record  *)
(* the lead at hand: another one may have recorded it before.              *)
RecordedGoesOn ==
  \A l \in LeadIds :
    rows[l] > 0 /\ l \notin dropped /\ (\A w \in Workers : Notifying(w) => current[w].lead # l)
      => l \in told \/ \E w \in Workers : mail[<<l, w>>] # "none"

(* Jobs never go back to where they were before they were enqueued.        *)
LEMMA MailStays ==
  ASSUME MailTypeOK, [MailNext]_mailVars, NEW x \in Mails, mail[x] # "none"
  PROVE  mail'[x] # "none"
BY DEF MailNext, Process, Enqueue, Take, SendMail, SendFails, GiveBack, Complete, Stall, Move,
       MailTypeOK, mailVars

LEMMA RecordedStep == Types /\ RecordedGoesOn /\ [Next]_vars => RecordedGoesOn'
<1>. SUFFICES ASSUME Types, RecordedGoesOn, [Next]_vars,
                     NEW l \in LeadIds, rows'[l] > 0, l \notin dropped',
                     \A w \in Workers : Notifying(w)' => current'[w].lead # l
              PROVE  l \in told' \/ \E w \in Workers : mail'[<<l, w>>] # "none"
  BY DEF RecordedGoesOn
<1>. USE DEF Types
<1>. DEFINE Out == l \in told \/ \E w \in Workers : mail[<<l, w>>] # "none"
            Free == \A w \in Workers : Notifying(w) => current[w].lead # l
<1>1. [MailNext]_mailVars
  BY StepIsMailStep
<1>2. ASSUME Out, told \subseteq told'
      PROVE  Out'
  BY <1>1, <1>2, MailStays, NotificationsAssumption
<1>3. rows[l] > 0 /\ l \notin dropped /\ Free => Out
  BY DEF RecordedGoesOn
<1>4. ASSUME UNCHANGED <<rows, told, dropped, wpc, current>>
      PROVE  Out'
  BY <1>2, <1>3, <1>4 DEF Notifying
<1>5. ASSUME NEW w \in Workers,
             \/ SlaBegin(w) \/ SlaEnd(w) \/ ReadRecipient(w) \/ TelegramFails(w)
             \/ \E k \in LeadIds : SlaSkip(w, k)
      PROVE  Out'
  <2>1. UNCHANGED <<rows, dropped, current>> /\ told \subseteq told'
    BY <1>5 DEF SlaBegin, SlaEnd, SlaSkip, ReadRecipient, TelegramFails, Step
  <2>2. Free
    BY <1>5, <2>1 DEF SlaBegin, SlaEnd, SlaSkip, ReadRecipient, TelegramFails, Step, Notifying,
                      SlaTypeOK
  <2>. QED
    BY <1>2, <1>3, <2>1, <2>2
<1>6. ASSUME NEW w \in Workers, NEW k \in LeadIds, SlaTake(w, k)
      PROVE  Out'
  <2>1. Free
    BY <1>6 DEF SlaTake, Step, Notifying, SlaTypeOK
  <2>. QED
    BY <1>2, <1>3, <1>6, <2>1 DEF SlaTake
<1>7. ASSUME NEW w \in Workers, RecordRow(w)
      PROVE  Out'
  <2>1. Free /\ current[w].lead # l
    BY <1>7 DEF RecordRow, Step, Notifying, SlaTypeOK
  <2>2. rows'[l] = rows[l]
    BY <1>7, <2>1 DEF RecordRow, SlaTypeOK
  <2>. QED
    BY <1>2, <1>3, <1>7, <2>1, <2>2 DEF RecordRow
<1>8. ASSUME NEW w \in Workers, TelegramSent(w)
      PROVE  Out'
  BY <1>2, <1>3, <1>8 DEF TelegramSent, Step, Done, Notifying, SlaTypeOK
<1>9. ASSUME NEW w \in Workers, EnqueueMail(w)
      PROVE  Out'
  <2>1. CASE current[w].lead = l
    <3>1. <<l, w>> \in Mails
      BY NotificationsAssumption
    <3>2. mail'[<<l, w>>] = "waiting"
      BY <1>9, <2>1, <3>1 DEF EnqueueMail, Enqueue, Move, MailTypeOK
    <3>. QED
      BY <3>2
  <2>2. CASE current[w].lead # l
    BY <1>2, <1>3, <1>9, <2>2 DEF EnqueueMail, Step, Done, Notifying, SlaTypeOK
  <2>. QED
    BY <2>1, <2>2
<1>10. ASSUME NEW w \in Workers, JobFails(w)
      PROVE  Out'
  BY <1>2, <1>3, <1>10 DEF JobFails, Done, Notifying, SlaTypeOK
<1>. QED
  BY <1>4, <1>5, <1>6, <1>7, <1>8, <1>9, <1>10
  DEF Next, Check, LeadStep, GrowLate, MailStep, slaVars, vars

(* A notification that was recorded is on its way by Telegram or mail, for *)
(* any number of workers, unless the job failed on it.                     *)
THEOREM NothingIsLostQuietly == Spec => []NothingLostQuietly
<1>1. Init => RecordedGoesOn
  BY DEF Init, RecordedGoesOn
<1>2. Types /\ RecordedGoesOn => NothingLostQuietly
  BY AtHandIsBusy DEF Types, RecordedGoesOn, NothingLostQuietly, Notifying, Busy
<1>. QED
  BY <1>1, <1>2, RecordedStep, TypesHold, PTL DEF Spec

-----------------------------------------------------------------------------
(* Who answers in time is left alone                                       *)

(* No check has found l.                                                   *)
Untouched(l) ==
  /\ rows[l] = 0
  /\ \A w \in Workers : todo[w][l] = Unassigned /\ (Busy(w) => current[w].lead # l)

(* A lead that is not late is untouched, and one that was answered before  *)
(* it was late stays so, because its answer stays (see StampDecided).      *)
InTimeInv ==
  /\ \A l \in LeadIds \ late : Untouched(l)
  /\ \A l \in inTime : /\ Untouched(l) /\ lead[l] # NoLead
                       /\ Exists(l) => lead[l].responded

(* Only a query that finds l, or a worker that has found it, touches it.   *)
LEMMA UntouchedStep ==
  ASSUME Types, [Next]_vars, NEW l \in LeadIds, Untouched(l), ~Breaching(l)
  PROVE  Untouched(l)'
<1>. USE DEF Types
<1>1. ASSUME UNCHANGED <<rows, todo, wpc, current>>
      PROVE  Untouched(l)'
  BY <1>1 DEF Untouched, Busy
<1>2. ASSUME NEW w \in Workers, SlaBegin(w) \/ SlaEnd(w)
      PROVE  Untouched(l)'
  BY <1>2 DEF SlaBegin, SlaEnd, Step, Untouched, Busy, SlaTypeOK
<1>3. ASSUME NEW w \in Workers, NEW k \in LeadIds, SlaSkip(w, k) \/ SlaTake(w, k)
      PROVE  Untouched(l)'
  BY <1>3 DEF SlaSkip, SlaTake, Step, Pending, Untouched, Busy, SlaTypeOK
<1>4. ASSUME NEW w \in Workers, RecordRow(w)
      PROVE  Untouched(l)'
  BY <1>4 DEF RecordRow, Step, Untouched, Busy, SlaTypeOK, LeadAtHand
<1>5. ASSUME NEW w \in Workers,
             ReadRecipient(w) \/ TelegramSent(w) \/ TelegramFails(w) \/ EnqueueMail(w)
      PROVE  Untouched(l)'
  BY <1>5 DEF ReadRecipient, TelegramSent, TelegramFails, EnqueueMail, Step, Done,
              Untouched, Busy, SlaTypeOK
<1>6. ASSUME NEW w \in Workers, JobFails(w)
      PROVE  Untouched(l)'
  BY <1>6 DEF JobFails, Done, Nobody, Untouched, Busy, SlaTypeOK
<1>. QED
  BY <1>1, <1>2, <1>3, <1>4, <1>5, <1>6
  DEF Next, Check, LeadStep, GrowLate, MailStep, slaVars, vars

LEMMA InTimeStep == Types /\ InTimeInv /\ [Next]_vars => InTimeInv'
<1>. SUFFICES ASSUME Types, InTimeInv, [Next]_vars PROVE InTimeInv'
  OBVIOUS
<1>. USE DEF Types
<1>1. late \subseteq late'
  BY ZenonT(40) DEF Next, Check, LeadStep, GrowLate, MailStep, JobFails, SlaBegin, SlaEnd, SlaSkip, SlaTake,
         RecordRow, ReadRecipient, TelegramSent, TelegramFails, EnqueueMail, Step, slaVars, vars
<1>2. ASSUME NEW l \in LeadIds \ late'
      PROVE  Untouched(l)'
  BY <1>1, UntouchedStep DEF InTimeInv, Breaching
<1>3. ASSUME NEW l \in inTime, l \in inTime'
      PROVE  Untouched(l)' /\ lead'[l] # NoLead /\ (Exists(l)' => lead'[l].responded)
  <2>1. l \in LeadIds /\ Untouched(l) /\ lead[l] # NoLead /\ (Exists(l) => lead[l].responded)
    BY DEF InTimeInv, SlaTypeOK
  <2>2. ~Breaching(l)
    BY <2>1 DEF Breaching
  <2>3. [LeadNext]_leadVars
    BY StepIsLeadStep
  <2>4. lead'[l] # NoLead /\ (Exists(l)' => lead'[l].responded)
    BY <2>1, <2>3, LeadSteps DEF Exists, NoLead, Gone
  <2>. QED
    BY <2>1, <2>2, <2>4, UntouchedStep
<1>4. ASSUME NEW l \in inTime', l \notin inTime
      PROVE  Untouched(l)' /\ lead'[l] # NoLead /\ (Exists(l)' => lead'[l].responded)
  <2>1. l \in LeadIds \ late /\ Responded(l)'
    BY <1>4 DEF Next, Check, LeadStep, GrowLate, MailStep, JobFails, SlaBegin, SlaEnd, SlaSkip,
                SlaTake, RecordRow, ReadRecipient, TelegramSent, TelegramFails, EnqueueMail,
                Step, slaVars, vars
  <2>2. Untouched(l) /\ ~Breaching(l)
    BY <2>1 DEF InTimeInv, Breaching
  <2>. QED
    BY <2>1, <2>2, UntouchedStep DEF Responded, Exists
<1>. QED
  BY <1>2, <1>3, <1>4 DEF InTimeInv

(* Whoever answers a lead in time is never reported, however many workers  *)
(* check and whatever requests overlap.                                    *)
THEOREM InTimeStaysUnreported == Spec => []InTimeIsNotReported
<1>1. Init => InTimeInv
  BY DEF Init, InTimeInv, Untouched, Busy, Nobody
<1>2. Types /\ InTimeInv => InTimeIsNotReported
  BY AtHandIsBusy DEF Types, InTimeInv, Untouched, InTimeIsNotReported
<1>. QED
  BY <1>1, <1>2, InTimeStep, TypesHold, PTL DEF Spec

-----------------------------------------------------------------------------
(* One notification per lead                                               *)

(* The deployment starts one process, and BullMQ gives it one job at a     *)
(* time.                                                                   *)
OneAtATime == \A v, w \in Workers : wpc[v] # "idle" /\ wpc[w] # "idle" => v = w

(* Between the lookup and the row nobody else records the lead.            *)
RecordIsFirst == \A w \in Workers : wpc[w] = "record" => rows[current[w].lead] = 0

OnceInv == RecordIsFirst /\ OneNotificationPerLead

LEMMA OnceStep == Types /\ OneAtATime /\ OnceInv /\ [Next]_vars => OnceInv'
<1>. SUFFICES ASSUME Types, OneAtATime, OnceInv, [Next]_vars PROVE OnceInv'
  OBVIOUS
<1>. USE DEF Types, OnceInv, RecordIsFirst, OneNotificationPerLead
<1>1. ASSUME UNCHANGED <<rows, wpc, current>>
      PROVE  OnceInv'
  BY <1>1
<1>2. ASSUME NEW w \in Workers, NEW l \in LeadIds, SlaTake(w, l)
      PROVE  OnceInv'
  BY <1>2 DEF SlaTake, Step, SlaTypeOK
<1>3. ASSUME NEW w \in Workers, RecordRow(w)
      PROVE  OnceInv'
  BY <1>3 DEF RecordRow, Step, SlaTypeOK, LeadAtHand, OneAtATime
<1>4. ASSUME NEW w \in Workers,
             \/ SlaBegin(w) \/ SlaEnd(w) \/ ReadRecipient(w)
             \/ \E l \in LeadIds : SlaSkip(w, l)
             \/ TelegramSent(w) \/ TelegramFails(w) \/ EnqueueMail(w) \/ JobFails(w)
      PROVE  OnceInv'
  BY <1>4 DEF SlaBegin, SlaEnd, ReadRecipient, SlaSkip, TelegramSent, TelegramFails, EnqueueMail,
              JobFails, Step, Done, SlaTypeOK
<1>. QED
  BY <1>1, <1>2, <1>3, <1>4 DEF Next, Check, LeadStep, GrowLate, MailStep, slaVars, vars

(* As long as no two jobs overlap a lead is reported once, whichever of    *)
(* the processes runs the job and however often jobs fail.                 *)
THEOREM JobsApartNotifyOnce == Spec /\ []OneAtATime => []OneNotificationPerLead
<1>1. Init => OnceInv
  BY DEF Init, OnceInv, RecordIsFirst, OneNotificationPerLead
<1>2. OnceInv => OneNotificationPerLead
  BY DEF OnceInv
<1>. QED
  BY <1>1, <1>2, OnceStep, TypesHold, PTL DEF Spec

(* One process, as docker-compose.prod.yml has it.                         *)
THEOREM OneWorkerNotifiesOnce ==
  ASSUME \A v, w \in Workers : v = w
  PROVE  Spec => []OneNotificationPerLead
<1>1. OneAtATime
  BY DEF OneAtATime
<1>2. []OneAtATime
  BY <1>1, PTL
<1>. QED
  BY <1>2, JobsApartNotifyOnce, PTL

=============================================================================

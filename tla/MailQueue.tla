----------------------------- MODULE MailQueue -----------------------------
(***************************************************************************)
(* The mail queue: MailQueueService adds a BullMQ job per mail, and        *)
(* MailProcessor sends it, with three attempts.                            *)
(***************************************************************************)
EXTENDS Integers

CONSTANTS
  Mails,        \* the mails that may be enqueued
  Attempts      \* attempts BullMQ makes of a job

ASSUME MailAssumption == Attempts \in Nat \ {0}

VARIABLES
  mail,         \* where the job of each mail stands
  tries,        \* attempts that have failed
  stalls,       \* how often the worker of each job has died
  accepted      \* history: mails the SMTP server took

mailVars == <<mail, tries, stalls, accepted>>

MailStates == {"none", "waiting", "active", "failing", "sent", "completed", "failed"}

MailInit ==
  /\ mail = [x \in Mails |-> "none"]
  /\ tries = [x \in Mails |-> 0]
  /\ stalls = [x \in Mails |-> 0]
  /\ accepted = {}

Move(x, from, to) ==
  /\ mail[x] = from
  /\ mail' = [mail EXCEPT ![x] = to]

(* MailQueueService.enqueue.                                               *)
Enqueue(x) == Move(x, "none", "waiting") /\ UNCHANGED <<tries, stalls, accepted>>

Take(x) == Move(x, "waiting", "active") /\ UNCHANGED <<tries, stalls, accepted>>

SendMail(x) ==
  /\ Move(x, "active", "sent")
  /\ accepted' = accepted \cup {x}
  /\ UNCHANGED <<tries, stalls>>

Mut_SendFailsSwallowed(x) ==
  /\ Move(x, "active", "sent")
  /\ UNCHANGED <<tries, stalls, accepted>>

(* The template cannot be rendered or the SMTP server is not reached; or   *)
(* the server takes the mail and its answer is lost.                       *)
SendFails(x) ==
  /\ Move(x, "active", "failing")
  /\ accepted' \in {accepted, accepted \cup {x}}
  /\ UNCHANGED <<tries, stalls>>

Mut_GiveBackUncounted(x) ==
  /\ Move(x, "failing", "waiting")
  /\ UNCHANGED <<tries, stalls, accepted>>

(* logDeliveryFailure, which never throws, and the error rethrown: BullMQ  *)
(* counts the attempt and retries later, or gives the job up.              *)
GiveBack(x) ==
  /\ Move(x, "failing", IF tries[x] + 1 < Attempts THEN "waiting" ELSE "failed")
  /\ tries' = [tries EXCEPT ![x] = @ + 1]
  /\ UNCHANGED <<stalls, accepted>>

Complete(x) == Move(x, "sent", "completed") /\ UNCHANGED <<tries, stalls, accepted>>

(* BullMQ's maxStalledCount, which the worker leaves at its default.       *)
MaxStalled == 1

(* The worker's process dies on the job.  BullMQ runs a stalled job again  *)
(* without counting an attempt, and fails it the second time.              *)
Stall(x) ==
  /\ mail[x] \in {"active", "failing", "sent"}
  /\ mail' = [mail EXCEPT ![x] = IF stalls[x] < MaxStalled THEN "waiting" ELSE "failed"]
  /\ stalls' = [stalls EXCEPT ![x] = @ + 1]
  /\ UNCHANGED <<tries, accepted>>

Process(x) == Take(x) \/ SendMail(x) \/ SendFails(x) \/ GiveBack(x) \/ Complete(x)

MailNext == \E x \in Mails : Enqueue(x) \/ Process(x) \/ Stall(x)

MailSpec == MailInit /\ [][MailNext]_mailVars

(* The queue's worker keeps running.                                       *)
MailFairness == \A x \in Mails : WF_mailVars(Process(x))

-----------------------------------------------------------------------------
(* Properties                                                              *)

MailTypeOK ==
  /\ mail \in [Mails -> MailStates]
  /\ tries \in [Mails -> 0 .. Attempts]
  /\ stalls \in [Mails -> 0 .. MaxStalled + 1]
  /\ accepted \subseteq Mails

(* A job is given up exactly when all its attempts have failed or its      *)
(* worker has died once more than BullMQ puts up with, never earlier and   *)
(* never later, and only completed when the mail has left; retries, deaths *)
(* and lost answers come in any order.                                     *)
OutcomeIsTrue ==
  \A x \in Mails :
    /\ mail[x] = "completed" => x \in accepted
    /\ mail[x] = "failed" <=> tries[x] = Attempts \/ stalls[x] = MaxStalled + 1

(* Every mail that was enqueued is completed or given up.                  *)
MailSettled == \A x \in Mails : mail[x] = "waiting" ~> mail[x] \in {"completed", "failed"}

=============================================================================

------------------------------- MODULE Digest -------------------------------
(***************************************************************************)
(* The daily digest (runDailyDigest in notifications.processor.ts) and the *)
(* notifications a user reads (notifications.service.ts).  One job goes    *)
(* through all tenants and their owners; how a recorded row is delivered   *)
(* is in Notifications.                                                    *)
(***************************************************************************)
EXTENDS Integers, Sequences, FiniteSets

CONSTANTS
  Firms,         \* active tenants
  OwnersOf,      \* active owners of each
  Visitors,      \* leads that may be created (bound)
  LastDay,       \* bound on days
  NoFirm

ASSUME DigestAssumption ==
  /\ NoFirm \notin Firms /\ LastDay \in Nat /\ IsFiniteSet(Visitors)
  /\ \A f, g \in Firms : f # g => OwnersOf[f] \cap OwnersOf[g] = {}

VARIABLES
  today,         \* the day, by UTC
  visit,         \* the tenant and the day of each lead
  job,           \* the digest job
  deaths,        \* how often the process died on it
  inbox,         \* DAILY_DIGEST rows in order
  owed           \* history: the owners and days of the jobs that ran to their end

digestVars == <<today, visit, job, deaths, inbox, owed>>

NoVisit == [firm |-> NoFirm]
NoJob == [step |-> "none"]
Due(d) == [step |-> "due", day |-> d]
Readers == UNION {OwnersOf[f] : f \in Firms}

Visits(f, d) == {v \in Visitors : visit[v] = [firm |-> f, day |-> d]}

Digests(u, d) == {i \in DOMAIN inbox : inbox[i].user = u /\ inbox[i].day = d}

-----------------------------------------------------------------------------
(* The job                                                                 *)

(* BullMQ's scheduler adds the job of the day at 08:00.                    *)
DigestDue ==
  /\ job = NoJob /\ today < LastDay
  /\ today' = today + 1
  /\ job' = Due(today + 1)
  /\ deaths' = 0
  /\ UNCHANGED <<visit, inbox, owed>>

(* All active tenants, and the day from 00:00 to 24:00.                    *)
DigestBegin ==
  /\ job.step = "due"
  /\ job' = [step |-> "firm", day |-> job.day, firms |-> Firms, firm |-> NoFirm,
             owners |-> {}, leads |-> 0]
  /\ UNCHANGED <<today, visit, deaths, inbox, owed>>

Mut_DigestFirm(f) ==
  /\ job.step = "firm" /\ f \in job.firms
  /\ job' = [job EXCEPT !.step = IF OwnersOf[f] = {} THEN "firm" ELSE "count",
                        !.firms = IF OwnersOf[f] = {} THEN {} ELSE @ \ {f},
                        !.firm = f, !.owners = OwnersOf[f]]
  /\ UNCHANGED <<today, visit, deaths, inbox, owed>>

(* A tenant without owners is passed over, the loop goes on.               *)
DigestFirm(f) ==
  /\ job.step = "firm" /\ f \in job.firms
  /\ job' = [job EXCEPT !.step = IF OwnersOf[f] = {} THEN "firm" ELSE "count",
                        !.firms = @ \ {f}, !.firm = f, !.owners = OwnersOf[f]]
  /\ UNCHANGED <<today, visit, deaths, inbox, owed>>

(* The first of the four counts; the others are taken alike.               *)
DigestCount ==
  /\ job.step = "count"
  /\ job' = [job EXCEPT !.step = "owner", !.leads = Cardinality(Visits(job.firm, job.day))]
  /\ UNCHANGED <<today, visit, deaths, inbox, owed>>

(* notify: the row first.                                                  *)
DigestRecord(u) ==
  /\ job.step = "owner" /\ u \in job.owners
  /\ inbox' = Append(inbox, [user |-> u, day |-> job.day, leads |-> job.leads, read |-> FALSE])
  /\ job' = [job EXCEPT !.step = "deliver", !.owners = @ \ {u}]
  /\ UNCHANGED <<today, visit, deaths, owed>>

DigestDeliver ==
  /\ job.step = "deliver"
  /\ job' = [job EXCEPT !.step = IF job.owners = {} THEN "firm" ELSE "owner"]
  /\ UNCHANGED <<today, visit, deaths, inbox, owed>>

DigestEnd ==
  /\ job.step = "firm" /\ job.firms = {}
  /\ owed' = owed \cup {<<u, job.day>> : u \in Readers}
  /\ job' = NoJob
  /\ UNCHANGED <<today, visit, deaths, inbox>>

(* An error for one owner ends the job for all that come after, and nobody *)
(* tries it again.                                                         *)
DigestFails ==
  /\ job.step \notin {"none", "due"}
  /\ job' = NoJob
  /\ UNCHANGED <<today, visit, deaths, inbox, owed>>

(* The process dies: BullMQ runs the stalled job again from its start, but *)
(* not a second time.                                                      *)
DigestDies ==
  /\ job.step \notin {"none", "due"}
  /\ deaths' = deaths + 1
  /\ job' = IF deaths = 0 THEN Due(today) ELSE NoJob
  /\ UNCHANGED <<today, visit, inbox, owed>>

-----------------------------------------------------------------------------
(* Meanwhile                                                               *)

LeadComes(v, f) ==
  /\ visit[v] = NoVisit
  /\ visit' = [visit EXCEPT ![v] = [firm |-> f, day |-> today]]
  /\ UNCHANGED <<today, job, deaths, inbox, owed>>

Marked(S) == [i \in DOMAIN inbox |-> IF i \in S THEN [inbox[i] EXCEPT !.read = TRUE] ELSE inbox[i]]

(* Anybody's id may be asked for; what is not one's own is a 404.          *)
MarkRead(u, i) ==
  /\ inbox[i].user = u
  /\ inbox' = Marked({i})
  /\ UNCHANGED <<today, visit, job, deaths, owed>>

MarkAllRead(u) ==
  /\ inbox' = Marked({i \in DOMAIN inbox : inbox[i].user = u /\ ~inbox[i].read})
  /\ UNCHANGED <<today, visit, job, deaths, owed>>

DigestInit ==
  /\ today = 0
  /\ visit = [v \in Visitors |-> NoVisit]
  /\ job = NoJob /\ deaths = 0
  /\ inbox = <<>>
  /\ owed = {}

Digesting ==
  \/ DigestBegin
  \/ \E f \in Firms : DigestFirm(f)
  \/ DigestCount
  \/ \E u \in Readers : DigestRecord(u)
  \/ DigestDeliver \/ DigestEnd

DigestNext ==
  \/ DigestDue \/ Digesting \/ DigestFails \/ DigestDies
  \/ \E v \in Visitors, f \in Firms : LeadComes(v, f)
  \/ \E u \in Readers : MarkAllRead(u) \/ \E i \in DOMAIN inbox : MarkRead(u, i)

DigestSpec == DigestInit /\ [][DigestNext]_digestVars

-----------------------------------------------------------------------------
(* Properties                                                              *)

(* After a job that ran to its end, restarts included, every active owner  *)
(* has a digest of the day, tenants without owners notwithstanding; and    *)
(* only a death of the process gives anybody a second one.                 *)
DigestReachesAll ==
  /\ \A o \in owed : Digests(o[1], o[2]) # {}
  /\ \A u \in Readers, d \in 1..today :
       Cardinality(Digests(u, d)) <= 1 + (IF d = today THEN deaths ELSE 1)

(* A digest counts leads of its own tenant and day only, although one job  *)
(* goes through all tenants, is run again, and leads come in meanwhile.    *)
DigestIsOwn ==
  \A i \in DOMAIN inbox : \A f \in Firms :
    inbox[i].user \in OwnersOf[f] => inbox[i].leads <= Cardinality(Visits(f, inbox[i].day))

(* Whatever the job meets, its digests are whole: DigestReachesAll and     *)
(* DigestIsOwn hold together through errors and restarts.                  *)
DigestHolds == DigestReachesAll /\ DigestIsOwn

=============================================================================

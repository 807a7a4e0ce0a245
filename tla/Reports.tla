------------------------------ MODULE Reports ------------------------------
(***************************************************************************)
(* AnalyticsService (analytics/analytics.service.ts) over the deals and    *)
(* leads of two tenants.  A report of one query is a function of the rows; *)
(* managersComparison asks four queries per manager, one after the other,  *)
(* while deals and leads go on changing.                                   *)
(***************************************************************************)
EXTENDS Integers, Sequences, FiniteSets, Functions, DealStatus

CONSTANTS
  Sales, Facts,          \* deals, and what never changes of each
  Goods,
  Prospects,             \* leads of the tenant
  Staff, Boss,           \* its managers and its owner
  Us,                    \* the tenant that asks
  SlaMinutes,
  LastInstant, HoursPerDay, DaysPerWeek,   \* a small calendar (bound)
  NoRecord

ASSUME ReportsAssumption ==
  /\ \A d \in Sales : Facts[d].total \in Nat /\ \A p \in Goods : Facts[d].items[p] \in Nat
  /\ LastInstant \in Nat /\ SlaMinutes \in Nat
  /\ HoursPerDay \in Nat \ {0} /\ DaysPerWeek \in Nat \ {0}
  /\ IsFiniteSet(Sales) /\ IsFiniteSet(Goods) /\ IsFiniteSet(Prospects)
  /\ \A d \in Sales : Facts[d].tenant = Us => Facts[d].manager \in Staff \cup {Boss}

VARIABLES
  clock,
  sale,        \* Deal rows: createdAt and status
  prospect,    \* Lead rows
  asked,       \* the comparison being made
  unsteady     \* history: managers whose leads changed while it counted them

reportVars == <<clock, sale, prospect, asked, unsteady>>

LeadStages == {"NEW", "CONTACTED", "IN_DIALOGUE", "PROPOSAL_SENT", "WAITING_DECISION", "WON", "LOST"}

Instants == 0..LastInstant
Ranges == {r \in [start : Instants, end : Instants] : r.start <= r.end}
In(r, t) == r.start <= t /\ t <= r.end

(* date_trunc by day or week, EXTRACT of the hour and the day of the week. *)
Units == {1, DaysPerWeek}
Day(t) == t \div HoursPerDay
Hour(t) == t % HoursPerDay
Dow(t) == Day(t) % DaysPerWeek

SumOver(f) == FoldFunction(+, 0, f)

Total(S) == SumOver([d \in S |-> Facts[d].total])

-----------------------------------------------------------------------------
(* Raw SQL over deals                                                      *)

Mut_CountedEverywhere(r) ==
  {d \in Sales : sale[d] # NoRecord /\ sale[d].status \in Commissionable /\ In(r, sale[d].made)}

(* The condition the three queries share: the tenant is filtered by hand.  *)
Counted(r) ==
  {d \in Sales :
    /\ sale[d] # NoRecord
    /\ Facts[d].tenant = Us
    /\ sale[d].status \in Commissionable
    /\ In(r, sale[d].made)}

Revenue(r, unit) ==
  LET Bucket(d) == Day(sale[d].made) \div unit
      Of(b) == {d \in Counted(r) : Bucket(d) = b}
  IN  {[bucket |-> b, revenue |-> Total(Of(b)), deals |-> Cardinality(Of(b))] :
         b \in {Bucket(d) : d \in Counted(r)}}

Earned(p, r) == SumOver([d \in Counted(r) |-> Facts[d].items[p]])

(* In the order of the key, and those of one key in any order.             *)
SortedBy(S, key) ==
  CHOOSE s \in Bijection(1..Cardinality(S), S) :
    \A i, j \in DOMAIN s : i < j => key[s[i]] <= key[s[j]]

(* ORDER BY the revenue DESC, LIMIT.                                       *)
TopProducts(r, limit) ==
  LET sold == {p \in Goods : \E d \in Counted(r) : Facts[d].items[p] > 0}
      ranked == SortedBy(sold, [p \in sold |-> 0 - Earned(p, r)])
  IN  SubSeq(ranked, 1, IF limit < Len(ranked) THEN limit ELSE Len(ranked))

PurchaseDistribution(r) ==
  [byHour |-> [h \in 0..(HoursPerDay - 1) |-> Cardinality({d \in Counted(r) : Hour(sale[d].made) = h})],
   byDayOfWeek |-> [w \in 0..(DaysPerWeek - 1) |-> Cardinality({d \in Counted(r) : Dow(sale[d].made) = w})]]

-----------------------------------------------------------------------------
(* Model queries over leads                                                *)

Made(r) == {l \in Prospects : prospect[l] # NoRecord /\ In(r, prospect[l].made)}

Funnel(r) == [s \in LeadStages |-> Cardinality({l \in Made(r) : prospect[l].status = s})]

Answered(r) == {l \in Made(r) : prospect[l].first # NoRecord}
Response(l) == prospect[l].first - prospect[l].made

(* Sorted response times, their middle one (the upper of two), and every   *)
(* lead that was answered too late or waits too long already.              *)
SlaMetrics(r) ==
  LET times == SortedBy(Answered(r), [l \in Answered(r) |-> Response(l)])
  IN  [leads |-> Cardinality(Made(r)), responded |-> Len(times),
       median |-> IF times = <<>> THEN NoRecord ELSE Response(times[Len(times) \div 2 + 1]),
       breaches |-> {l \in Answered(r) : Response(l) > SlaMinutes}
                    \cup {l \in Made(r) \ Answered(r) : clock - prospect[l].made > SlaMinutes}]

-----------------------------------------------------------------------------
(* managersComparison                                                      *)

NotAsked == [step |-> "none"]

(* One query, by the scoped client.                                        *)
DealsOf(m, r) ==
  {d \in Sales : /\ sale[d] # NoRecord
                 /\ Facts[d].tenant = Us /\ Facts[d].manager = m
                 /\ sale[d].status \in Commissionable /\ In(r, sale[d].made)}

LeadsWith(m, r) == {l \in Made(r) : prospect[l].manager = m}

Ask(r) ==
  /\ asked = NotAsked
  /\ asked' = [step |-> "deals", range |-> r, left |-> Staff, now |-> NoRecord,
               lines |-> [m \in Staff |-> [deals |-> {}, leads |-> 0, won |-> 0]]]
  /\ unsteady' = {}
  /\ UNCHANGED <<clock, sale, prospect>>

QueryDeals(m) ==
  /\ asked.step = "deals" /\ m \in asked.left
  /\ asked' = [asked EXCEPT !.step = "leads", !.now = m,
                            !.lines[m].deals = DealsOf(m, asked.range)]
  /\ UNCHANGED <<clock, sale, prospect, unsteady>>

QueryLeads ==
  /\ asked.step = "leads"
  /\ asked' = [asked EXCEPT !.step = "won",
                            !.lines[asked.now].leads = Cardinality(LeadsWith(asked.now, asked.range))]
  /\ UNCHANGED <<clock, sale, prospect, unsteady>>

Mut_QueryWonByAll ==
  /\ asked.step = "won"
  /\ asked' = [asked EXCEPT !.step = "answers", !.lines[asked.now].won =
       Cardinality({l \in Made(asked.range) : prospect[l].status = "WON"})]
  /\ UNCHANGED <<clock, sale, prospect, unsteady>>

QueryWon ==
  /\ asked.step = "won"
  /\ asked' = [asked EXCEPT !.step = "answers", !.lines[asked.now].won =
       Cardinality({l \in LeadsWith(asked.now, asked.range) : prospect[l].status = "WON"})]
  /\ UNCHANGED <<clock, sale, prospect, unsteady>>

(* The fourth query, whose average nothing else is compared with.          *)
QueryAnswers ==
  /\ asked.step = "answers"
  /\ asked' = [asked EXCEPT !.step = IF asked.left = {asked.now} THEN "sorted" ELSE "deals",
                            !.left = @ \ {asked.now}, !.now = NoRecord]
  /\ UNCHANGED <<clock, sale, prospect, unsteady>>

Answers == asked.step = "sorted" /\ asked' = NotAsked /\ unsteady' = {}
           /\ UNCHANGED <<clock, sale, prospect>>

-----------------------------------------------------------------------------
(* Meanwhile                                                               *)

TimePasses ==
  /\ clock < LastInstant
  /\ clock' = clock + 1
  /\ UNCHANGED <<sale, prospect, asked, unsteady>>

OpenDeal(d) ==
  /\ sale[d] = NoRecord
  /\ sale' = [sale EXCEPT ![d] = [made |-> clock, status |-> "NEW"]]
  /\ UNCHANGED <<clock, prospect, asked, unsteady>>

MoveDealOn(d) ==
  /\ sale[d] # NoRecord
  /\ \E s \in NextStatuses[sale[d].status] : sale' = [sale EXCEPT ![d].status = s]
  /\ UNCHANGED <<clock, prospect, asked, unsteady>>

(* A lead changes, which may disturb the counts of its managers.           *)
SetLead(l, row) ==
  /\ prospect' = [prospect EXCEPT ![l] = row]
  /\ unsteady' = IF asked = NotAsked THEN unsteady
                 ELSE unsteady \cup {m \in {asked.now} : m = row.manager}
  /\ UNCHANGED <<clock, sale, asked>>

NewLead(l, m) ==
  /\ prospect[l] = NoRecord
  /\ SetLead(l, [made |-> clock, status |-> "NEW", manager |-> m, first |-> NoRecord])

MoveLead(l, s) ==
  /\ prospect[l] # NoRecord
  /\ SetLead(l, [prospect[l] EXCEPT !.status = s,
       !.first = IF prospect[l].status = "NEW" /\ s # "NEW" /\ @ = NoRecord THEN clock ELSE @])

GiveLead(l, m) ==
  /\ prospect[l] # NoRecord
  /\ SetLead(l, [prospect[l] EXCEPT !.manager = m])

ReportsInit ==
  /\ clock = 0
  /\ sale = [d \in Sales |-> NoRecord]
  /\ prospect = [l \in Prospects |-> NoRecord]
  /\ asked = NotAsked
  /\ unsteady = {}

ReportsNext ==
  \/ TimePasses
  \/ \E d \in Sales : OpenDeal(d) \/ MoveDealOn(d)
  \/ \E l \in Prospects, m \in Staff \cup {NoRecord} : NewLead(l, m)
  \/ \E l \in Prospects, m \in Staff : GiveLead(l, m)
  \/ \E l \in Prospects, s \in LeadStages : MoveLead(l, s)
  \/ \E r \in Ranges : Ask(r)
  \/ \E m \in Staff : QueryDeals(m)
  \/ QueryLeads \/ QueryWon \/ QueryAnswers \/ Answers

ReportsSpec == ReportsInit /\ [][ReportsNext]_reportVars

-----------------------------------------------------------------------------
(* Properties                                                              *)

(* The reports, written in raw SQL with the tenant filtered by hand and in *)
(* scoped model queries, agree for every range: the buckets of revenue,    *)
(* whatever their size, with both distributions, and with the deals of the *)
(* managers and the owner; the funnel with the SLA report.                 *)
ReportsAgree ==
  \A r \in Ranges :
    LET deals == SumOver(PurchaseDistribution(r).byHour)
    IN  /\ deals = SumOver(PurchaseDistribution(r).byDayOfWeek)
        /\ \A unit \in Units :
             /\ deals = SumOver([b \in Revenue(r, unit) |-> b.deals])
             /\ SumOver([b \in Revenue(r, unit) |-> b.revenue])
                  = Total(UNION {DealsOf(m, r) : m \in Staff \cup {Boss}})
        /\ SumOver(Funnel(r)) = SlaMetrics(r).leads

(* No product left out of topProducts has earned more than one shown.      *)
TopIsTop ==
  \A r \in Ranges, limit \in 1..2 :
    LET top == TopProducts(r, limit)
    IN  \A i \in DOMAIN top, p \in Goods :
          (\A j \in DOMAIN top : top[j] # p) => Earned(p, r) <= Earned(top[i], r)

(* slaMetrics and the SLA check of the notifications tell the same story:  *)
(* a lead that is reported as overdue counts as a breach, when answered as *)
(* well as before, so that answering late never improves the figure; and   *)
(* the median has half of the answers on either side.                      *)
SlaMetricsFair ==
  \A r \in Ranges :
    LET sla == SlaMetrics(r)
        Half(S) == 2 * Cardinality(S) >= sla.responded
    IN  /\ \A l \in Made(r) :
             LET seen == IF prospect[l].first = NoRecord THEN clock ELSE prospect[l].first
             IN  prospect[l].made < seen - SlaMinutes <=> l \in sla.breaches
        /\ sla.responded > 0 =>
             /\ Half({l \in Answered(r) : Response(l) <= sla.median})
             /\ Half({l \in Answered(r) : Response(l) >= sla.median})

(* What the reports tell of any range: ReportsAgree, TopIsTop and          *)
(* SlaMetricsFair.                                                         *)
ReportsHold == ReportsAgree /\ TopIsTop /\ SlaMetricsFair

(* A comparison made while things change counts no deal for two managers,  *)
(* and no manager wins more leads than he has, unless his own leads change *)
(* between the two counts.                                                 *)
ComparisonHolds ==
  asked # NotAsked =>
    \A m \in Staff :
      /\ \A k \in Staff \ {m} : asked.lines[m].deals \cap asked.lines[k].deals = {}
      /\ asked.lines[m].won <= asked.lines[m].leads \/ m \in unsteady

=============================================================================

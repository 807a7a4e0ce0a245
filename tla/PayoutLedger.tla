---------------------------- MODULE PayoutLedger ----------------------------
(***************************************************************************)
(* What the payouts of a tenant promise to whoever looks at the database   *)
(* between transactions: a payout is issued in one step, with all of its   *)
(* claims, from deals nobody has claimed; only a draft is adjusted, on top *)
(* of the amounts it has; it is approved once and then paid once.  There   *)
(* are no requests in flight here, no salaries and no stale reads; Payouts *)
(* is shown to implement it in its serial environment.                     *)
(***************************************************************************)
EXTENDS Integers

CONSTANTS
  DealIds, PayoutIds, Managers, Periods, Salaries, Patches, Keep,
  DealManager,   \* the manager of each deal
  Earned         \* what the deals of a set earn their manager

VARIABLES
  row,       \* the statement of each payout
  claims     \* the deals each payout claims

statements == <<row, claims>>

NoStatement == [status |-> "none"]

Init ==
  /\ row = [p \in PayoutIds |-> NoStatement]
  /\ claims = [p \in PayoutIds |-> {}]

Claimed == UNION {claims[p] : p \in PayoutIds}

(* A draft over deals of manager m in the period, none of them claimed,    *)
(* and the base salary; never over nothing.                                *)
Issue(p, m, per, base, ds) ==
  /\ row[p] = NoStatement
  /\ \A d \in ds : DealManager[d] = m /\ d \notin Claimed
  /\ base + Earned[ds] # 0
  /\ row' = [row EXCEPT ![p] =
       [status |-> "DRAFT", manager |-> m, period |-> per,
        base |-> base, commission |-> Earned[ds], total |-> base + Earned[ds]]]
  /\ claims' = [claims EXCEPT ![p] = ds]

Or(new, old) == IF new = Keep THEN old ELSE new

Adjust(p, patch) ==
  LET b == Or(patch.base, row[p].base)
      c == Or(patch.commission, row[p].commission)
  IN
  /\ row[p].status = "DRAFT"
  /\ row' = [row EXCEPT ![p] =
       [@ EXCEPT !.base = b, !.commission = c, !.total = Or(patch.total, b + c)]]
  /\ UNCHANGED claims

Advance(p, from, to) ==
  /\ row[p].status = from
  /\ row' = [row EXCEPT ![p].status = to]
  /\ UNCHANGED claims

Approve(p) == Advance(p, "DRAFT", "APPROVED")
Pay(p) == Advance(p, "APPROVED", "PAID")

Next ==
  \E p \in PayoutIds :
    \/ \E m \in Managers, per \in Periods, base \in Salaries :
         \E ds \in SUBSET per : Issue(p, m, per, base, ds)
    \/ \E patch \in Patches : Adjust(p, patch)
    \/ Approve(p)
    \/ Pay(p)

Spec == Init /\ [][Next]_statements

=============================================================================

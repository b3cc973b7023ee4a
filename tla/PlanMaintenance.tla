--------------------------- MODULE PlanMaintenance ---------------------------
(***************************************************************************)
(* What the maintenance sweep does to a plan: the nightly functions of     *)
(* migration 033 roll the dates of one rule forward while the API does the *)
(* same whenever the plan is edited (core.service.ts, synchronize          *)
(* PlanOccurrences), and a verified deposit moves the payday on.  The      *)
(* leases of the sweep are those of ScheduleMaintenance.                   *)
(*                                                                         *)
(* A history has a set of workers and households and, for the first of     *)
(* these, at most one rule (a bill or a savings goal) and one income.  The *)
(* name and the amount of a rule are its terms: an edit compares them.     *)
(* Payments are in PlanEvidence.                                           *)
(***************************************************************************)
EXTENDS ScheduleMaintenance, Calendar

CONSTANTS
  Worlds,      \* the histories
  MaxVersion   \* versions of an occurrence are not told apart above this

ASSUME WorldsAssumption ==
  \A w \in Worlds : w.workers \subseteq Workers /\ w.households \subseteq Households

VARIABLES
  world,
  today,       \* the date in the household's time zone
  first,       \* due_date or next_due_on of the rule, which is its anchor too
  terms,       \* name and amount of the rule
  payday,      \* next_expected_date of the income
  rows         \* plan_occurrences of the rule

plan == <<world, today, first, terms, payday, rows>>
allvars == <<vars, plan>>

Planned == CHOOSE h \in world.households : TRUE
HasRule == world.cadence # "none"

(***************************************************************************)
(* Occurrences.  Rows that agree in every field behave in the same way, so *)
(* the table is a set.                                                     *)
(***************************************************************************)
Occurrence(date, named) ==
  [date |-> date, terms |-> named, state |-> "expected", version |-> 1, asked |-> FALSE]
Live(S) == {r.date : r \in {x \in S : x.state # "skipped"}}
Versioned(r) == [r EXCEPT !.version = Min({@ + 1, MaxVersion})]
Skipped(r, asked) == [Versioned(r) EXCEPT !.state = "skipped", !.asked = @ \/ asked]

HorizonEnd(pay) == PlanningHorizonEnd(today, {pay} \ {NoDate}, world.fallback)

\* Far rules are planned for more than a year, the others for 30 days.
Ahead(end) == Max({end, today + IF world.cadence \in {"quarterly", "annual"} THEN 400 ELSE 30})

(***************************************************************************)
(* synchronizePlanOccurrences                                              *)
(***************************************************************************)
Targets(dueDate, end) ==
  IF world.cadence = "planning_period" THEN {end}
  ELSE MaterializeCommitmentDates(dueDate, world.cadence, today, Ahead(end), AnchorFromDate(dueDate))

\* The row that stands for a date is one of the lowest version.  It is kept
\* when its terms are those of the rule and it is not skipped, or the user
\* asked for that; a live row of other terms is replaced; next to any other a
\* row is added.  Equal versions come in any order: luck is the effect that
\* comes first where it can.
Effects == {"keep", "replace", "add"}
EffectOf(r, named) ==
  IF r.terms = named /\ (r.state # "skipped" \/ r.asked) THEN "keep"
  ELSE IF r.state # "skipped" THEN "replace" ELSE "add"
Exact(S, date) ==
  LET at == {r \in S : r.date = date}
  IN  {r \in at : \A q \in at : r.version <= q.version}
EffectAt(S, date, named, luck) ==
  LET can == {EffectOf(r, named) : r \in Exact(S, date)}
  IN  IF luck \in can THEN luck
      ELSE IF can = {} \/ "add" \in can THEN "add" ELSE CHOOSE e \in can : TRUE

\* An overdue bill that is due once stays although its date was moved.
Outside(S, dates) ==
  {r \in S : r.date \notin dates /\ ~(~world.goal /\ world.cadence = "one_time" /\ r.date < today)}

Retained(S, date, named, luck) == EffectAt(S, date, named, luck) = "keep"
Inserted(S, dates, named, luck) == {d \in dates : ~Retained(S, d, named, luck)}
Replaced(S, dates, named, luck) ==
  {r \in S : /\ r.date \in dates /\ r \in Exact(S, r.date) /\ EffectOf(r, named) = "replace"
             /\ EffectAt(S, r.date, named, luck) = "replace"}

Synchronized(S, dates, named, luck) ==
  LET over == Outside(S, dates) \cup Replaced(S, dates, named, luck)
  IN  (S \ over) \cup {Skipped(r, FALSE) : r \in over}
        \cup {Occurrence(d, named) : d \in Inserted(S, dates, named, luck)}

\* The unique index allows one row that is not skipped for each date.
Permitted(S, dates, named, luck) ==
  Inserted(S, dates, named, luck) \cap Live(S \ Replaced(S, dates, named, luck)) = {}

\* The last step of every mutation of the plan, and of the reconciliation.
Replan(dueDate, named, pay, dates) ==
  /\ Planned \notin deleted
  /\ first' = dueDate /\ terms' = named /\ payday' = pay
  /\ \E luck \in Effects :
       /\ Permitted(rows, dates, named, luck)
       /\ rows' = Synchronized(rows, dates, named, luck)
  /\ UNCHANGED <<vars, world, today>>

\* The rule is saved with another date or other terms, or something else of the
\* plan is and they stay the same.
SaveRule(dueDate, named) ==
  HasRule /\ Replan(dueDate, named, payday, Targets(dueDate, HorizonEnd(payday)))

\* recomputeIncomeSchedulesFromEvidence: the deposit of the payday, within
\* the days a transaction is matched in, is verified.
ReceiveIncome ==
  /\ payday # NoDate /\ today \in payday - 7 .. payday + 7
  /\ LET next == AdvanceIncomeScheduleDate(payday, world.pay)
     IN  IF HasRule THEN Replan(first, terms, next, Targets(first, HorizonEnd(next)))
         ELSE /\ payday' = next
              /\ UNCHANGED <<vars, world, today, first, terms, rows>>

\* skipPlanOccurrence
MarkNotDue(r) ==
  /\ Planned \notin deleted
  /\ r.state # "skipped"
  /\ Cardinality({q \in rows : q.asked}) < world.refusals
  /\ rows' = (rows \ {r}) \cup {Skipped(r, TRUE)}
  /\ UNCHANGED <<vars, world, today, first, terms, payday>>

(***************************************************************************)
(* maintain_plan_occurrences and maintain_savings_goal_occurrences         *)
(***************************************************************************)
MarkOverdue(S) ==
  {IF r.state = "expected" /\ r.date < today THEN [Versioned(r) EXCEPT !.state = "overdue"] ELSE r : r \in S}

\* Mutant: what the user marked is planned again.
RefusedNever(S) == {}

\* Only of a goal: a date the user marked as not due stays away.
Refused(S) == {r.date : r \in {x \in S : world.goal /\ x.state = "skipped" /\ x.asked}}

Due(end) ==
  IF world.cadence = "planning_period" THEN {end}
  ELSE SweptDates(first, world.cadence, today, end, AnchorFromDate(first))

Materialized(S, dates) ==
  MarkOverdue(S) \cup {Occurrence(d, terms) : d \in (dates \ Live(S)) \ Refused(S)}

Swept(S) == IF HasRule THEN Materialized(S, Due(Ahead(HorizonEnd(payday)))) ELSE S

Holds(w) == Planned \in worker[w].holds /\ Planned \notin deleted

\* The functions are transactions of their own: when the sweep fails or the
\* worker is lost, none, the first or both may have been committed.
Maintain(w) == rows' = IF Holds(w) THEN Swept(rows) ELSE rows
MaintainPartly(w) ==
  \/ Maintain(w)
  \/ Holds(w) /\ rows' \in {rows, MarkOverdue(rows)}

(***************************************************************************)
(* Histories                                                               *)
(***************************************************************************)
StartOfPlan ==
  /\ world \in Worlds
  /\ today = Min(world.days)
  /\ first = world.first /\ terms = Min(world.terms) /\ payday = world.payday
  /\ rows = IF HasRule THEN Synchronized({}, Targets(first, HorizonEnd(payday)), terms, "add") ELSE {}

PlanInit == StartOfPlan /\ deleted = Households \ world.households /\ Init

NextDay ==
  /\ \E d \in world.days : d > today
  /\ today' = Min({d \in world.days : d > today})
  /\ UNCHANGED <<vars, world, first, terms, payday, rows>>

HandBack(w) == Finish(w) /\ Maintain(w) /\ UNCHANGED <<world, today, first, terms, payday>>
FailInMaintenance(w) ==
  MaintenanceFails(w) /\ MaintainPartly(w) /\ UNCHANGED <<world, today, first, terms, payday>>
LoseWorker(w) == Crash(w) /\ MaintainPartly(w) /\ UNCHANGED <<world, today, first, terms, payday>>

WorkOn(w) ==
  \/ /\ StartSweep(w) \/ Claim(w) \/ FinishFailed(w) \/ FinishThrows(w) \/ Restart(w)
     /\ UNCHANGED plan
  \/ HandBack(w)

PlanNext ==
  \/ \E w \in world.workers : \/ WorkOn(w) \/ FailInMaintenance(w) \/ LoseWorker(w)
                              \/ EndSweep(w) /\ UNCHANGED plan
  \/ \E h \in world.households : (Expire(h) \/ BecomeDue(h) \/ Delete(h)) /\ UNCHANGED plan
  \/ NextDay
  \/ ReceiveIncome
  \/ \E d \in world.dates, n \in world.terms : SaveRule(d, n)
  \/ \E r \in rows : MarkNotDue(r)

\* Cloud Scheduler starts the job again and again, a process that runs goes on,
\* and leases and delays run out.  Maintenance may fail every time, and
\* processes may be lost at every household.
Fairness ==
  /\ \A w \in Workers :
       /\ WF_allvars(w \in world.workers /\ WorkOn(w))
       /\ WF_allvars(w \in world.workers /\ EndSweep(w) /\ UNCHANGED plan)
  /\ \A h \in Households :
       /\ WF_allvars(h \in world.households /\ Expire(h) /\ UNCHANGED plan)
       /\ WF_allvars(h \in world.households /\ BecomeDue(h) /\ UNCHANGED plan)

PlanSpec == PlanInit /\ [][PlanNext]_allvars /\ Fairness

(***************************************************************************)
(* Properties                                                              *)
(***************************************************************************)
\* The dates of a recurring rule without any loop or index: every seventh or
\* fourteenth day, or the day of the first date in every month that counts,
\* the last day when the month is too short or the rule began on a last day.
RuleDates(from, to) ==
  IF world.cadence \in DOMAIN DayStep
  THEN {d \in Max({from, first}) .. to : (d - first) % DayStep[world.cadence] = 0}
  ELSE LET start == MonthOf(first)
           months == {m \in start .. MonthOf(to) : (m - start) % MonthStep[world.cadence] = 0}
       IN  {Anchored(m, AnchorFromDate(first)) : m \in months} \cap from .. to

RowsFollowRule(from, to) ==
  /\ RuleDates(from, to) \subseteq Live(rows) \cup {r.date : r \in {x \in rows : x.asked}}
  /\ Live(rows) \cap from .. to \subseteq RuleDates(from, to)

\* The plan and its rule agree after every edit of the plan, every deposit and
\* every sweep, whoever was first and whatever was moved before: no date of the
\* last 90 days or of the time ahead is missing, and no other is planned, in
\* short months and leap years too (core 7870, 033:205).
PlanFollowsRule ==
  [][/\ world.cadence \in Recurring
     /\ \/ \E w \in Workers : Holds(w) /\ worker'[w].stage = "sweeping" /\ HandBack(w)
        \/ vars' = vars /\ today' = today /\ (SaveRule(first', terms') \/ ReceiveIncome)
     => RowsFollowRule(today - 90, Ahead(today))']_allvars

\* The next payday is the first day after the received one that falls on an
\* anchor of the income; none is left out and none counts twice (horizon.ts:145).
NextPaydayFollows ==
  [][payday' # payday /\ payday' # NoDate =>
       LET On(d) == \E anchor \in ToSet(world.pay.anchors) : d = Anchored(MonthOf(d), anchor)
       IN  world.pay.frequency \in {"semi_monthly", "monthly"} =>
             On(payday') /\ payday' > payday /\ \A d \in payday + 1 .. payday' - 1 : ~On(d)]_allvars

\* A contribution the user marked as not due does not come back: neither by the
\* sweep, nor by an edit of the plan that leaves its date, its name and its
\* amount as they were, when no other row of the date takes its place (033:279,
\* 4810).
NoOther(r) == {q \in rows : q.date = r.date} = {r}
RefusedContributionStays ==
  [][\A r \in rows :
       /\ world.goal /\ r.asked /\ r.date \notin Live(rows)
       /\ vars' # vars \/ (terms' = r.terms /\ NoOther(r))
     => r.date \notin Live(rows')]_allvars

\* Refuted.  No edit brings it back: one of the amount or the name alone does,
\* since the refused row then no longer counts as the one of its date (4813).
RefusedContributionNeverReturns ==
  [][\A r \in rows :
       world.goal /\ r.asked /\ r.date \notin Live(rows) => r.date \notin Live(rows')]_allvars

\* Refuted.  No edit that leaves the amount refused as it is brings it back: a
\* row of an earlier amount may have the same version and be read first (4779).
RefusedAmountStays ==
  [][\A r \in rows :
       world.goal /\ r.asked /\ r.date \notin Live(rows) /\ terms = r.terms /\ terms' = r.terms
     => r.date \notin Live(rows')]_allvars

\* Refuted.  The same of a bill: the sweep looks at rows that are not skipped
\* only (033:227), so the bill is back the next night.
RefusedBillStays ==
  [][\A r \in rows : ~world.goal /\ r.asked => r.date \notin Live(rows')]_allvars

\* Refuted.  "Before next payday" (savings-goal-editor.tsx:217) is one
\* contribution for each payday: the API plans it at the end of the horizon
\* (4742), the sweep no earlier than in 30 days (033:254), every night anew.
OneContributionPerPayday ==
  world.cadence = "planning_period" =>
    Cardinality({d \in Live(rows) : d >= today}) <= 1

\* Refuted.  The plan can be edited: two rows of a date with equal versions are
\* read in any order, and an unlucky one breaks the unique index (027:146).
EditsGoThrough ==
  HasRule => \A luck \in Effects : Permitted(rows, Targets(first, HorizonEnd(payday)), terms, luck)
=============================================================================

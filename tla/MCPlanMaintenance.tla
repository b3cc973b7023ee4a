------------------------- MODULE MCPlanMaintenance -------------------------
(***************************************************************************)
(* Two workers and two households without a plan, and one worker with one  *)
(* household and a rule: short months, a leap year, rules that began long  *)
(* ago, moved dates, changed amounts, refusals and paydays.                *)
(***************************************************************************)
EXTENDS PlanMaintenance

CONSTANTS w1, w2, h1, h2

On(year, month, day) == FirstOf[(year - BaseYear) * 12 + month - 1] + day - 1

NoPay == [frequency |-> "irregular", anchors |-> <<>>]
Anchor(day, endOfMonth) == [day |-> day, endOfMonth |-> endOfMonth]
Twice == [frequency |-> "semi_monthly", anchors |-> <<Anchor(15, FALSE), Anchor(31, TRUE)>>]
Late == [frequency |-> "semi_monthly", anchors |-> <<Anchor(30, FALSE), Anchor(14, FALSE)>>]
Monthly == [frequency |-> "monthly", anchors |-> <<Anchor(30, FALSE)>>]

NoPlan == [workers |-> {w1, w2}, households |-> {h1, h2}, cadence |-> "none", goal |-> FALSE,
           first |-> NoDate, dates |-> {}, pay |-> NoPay, payday |-> NoDate, fallback |-> 14,
           days |-> {0}, terms |-> {1}, refusals |-> 0]
One == [NoPlan EXCEPT !.workers = {w1}, !.households = {h1}]

Rule(goal, cadence, start, days, moved, refusals) ==
  [One EXCEPT !.goal = goal, !.cadence = cadence, !.first = start, !.days = days,
              !.dates = {start} \cup moved, !.refusals = refusals]
Paid(w, pay, date) == [w EXCEPT !.pay = pay, !.payday = date]

MCWorlds ==
  {NoPlan,
   Rule(FALSE, "monthly", On(2024, 1, 31), {On(2024, 1, 30), On(2024, 4, 1)}, {On(2024, 2, 15)}, 0),
   Paid(Rule(TRUE, "monthly", On(2023, 10, 30), {On(2024, 1, 25), On(2024, 2, 29)}, {}, 1),
        Twice, On(2024, 1, 31)),
   [Rule(TRUE, "monthly", On(2024, 1, 31), {On(2024, 2, 10)}, {}, 1)
      EXCEPT !.terms = {1, 2}],
   Rule(FALSE, "quarterly", On(2022, 11, 30), {On(2024, 2, 1), On(2025, 3, 1)}, {On(2023, 5, 31)}, 0),
   Rule(TRUE, "annual", On(2024, 2, 29), {On(2024, 3, 1), On(2025, 3, 1)}, {}, 0),
   Rule(FALSE, "weekly", On(2023, 7, 5), {On(2024, 2, 28), On(2024, 4, 30)}, {}, 0),
   Rule(FALSE, "biweekly", On(2024, 2, 20), {On(2024, 2, 28), On(2024, 3, 12)}, {}, 1),
   Rule(FALSE, "one_time", On(2024, 3, 5), {On(2024, 3, 1), On(2024, 3, 8)}, {On(2024, 3, 20)}, 0),
   Paid(Rule(TRUE, "planning_period", NoDate, {On(2024, 2, 10), On(2024, 2, 16)}, {}, 0),
        Late, On(2024, 2, 14)),
   Paid([One EXCEPT !.days = {On(2024, 1, 28), On(2024, 3, 1), On(2024, 3, 31)}], Monthly, On(2024, 1, 30))}
=============================================================================

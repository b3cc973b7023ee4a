------------------------------ MODULE Calendar ------------------------------
(***************************************************************************)
(* Dates of plan rules: packages/domain/src/schedule.ts and horizon.ts,    *)
(* the loop of core.service.ts that lists the dates of a rule, and the     *)
(* SQL of migration 033 that lists them again for the nightly sweep.       *)
(*                                                                         *)
(* A date is the number of days since 1 January of BaseYear, a month the   *)
(* number of months since then.  An anchor is the day of the month a rule  *)
(* was entered with; a rule of the last day stays on the last day.         *)
(***************************************************************************)
EXTENDS Integers, FiniteSetsExt, SequencesExt

CONSTANTS
  BaseYear,
  Months,      \* how far the calendar of the model reaches
  LoopLimit    \* 240 in the code

ASSUME CalendarAssumption == BaseYear \in Nat /\ Months \in Nat /\ LoopLimit \in Nat

NoDate == -1
Recurring == {"weekly", "biweekly", "monthly", "quarterly", "annual"}
DayStep == [weekly |-> 7, biweekly |-> 14]
MonthStep == [monthly |-> 1, quarterly |-> 3, annual |-> 12]

Leap(year) == year % 4 = 0 /\ (year % 100 # 0 \/ year % 400 = 0)

DaysInMonth(m) ==
  LET month == (m % 12) + 1
  IN  CASE month = 2 -> IF Leap(BaseYear + m \div 12) THEN 29 ELSE 28
        [] month \in {4, 6, 9, 11} -> 30
        [] OTHER -> 31

\* Leap years up to a year, and the date of the first of each month.
LeapYears(year) == (year \div 4) - (year \div 100) + (year \div 400)

FirstOf ==
  [m \in 0 .. Months |->
     LET years == m \div 12
     IN  years * 365 + LeapYears(BaseYear + years - 1) - LeapYears(BaseYear - 1)
           + MapThenSumSet(DaysInMonth, 12 * years .. m - 1)]

MonthOf(date) ==
  CHOOSE m \in date \div 31 .. date \div 28 : FirstOf[m] <= date /\ date < FirstOf[m + 1]
DayOf(date) == date - FirstOf[MonthOf(date)] + 1

(***************************************************************************)
(* schedule.ts                                                             *)
(***************************************************************************)
AnchorFromDate(date) ==
  [day |-> DayOf(date), endOfMonth |-> DayOf(date) = DaysInMonth(MonthOf(date))]

\* A month that is too short has the rule on its last day.
Anchored(m, anchor) ==
  FirstOf[m] - 1 + IF anchor.endOfMonth THEN DaysInMonth(m) ELSE Min({anchor.day, DaysInMonth(m)})

\* Mutant: the short month becomes the anchor of the next one.
AdvanceFromClamped(date, cadence, anchor) ==
  IF cadence \in DOMAIN DayStep THEN date + DayStep[cadence]
  ELSE Anchored(MonthOf(date) + MonthStep[cadence], AnchorFromDate(date))

AdvanceAnchoredDate(date, cadence, anchor) ==
  IF cadence \in DOMAIN DayStep THEN date + DayStep[cadence]
  ELSE Anchored(MonthOf(date) + MonthStep[cadence], anchor)

AnchoredOccurrenceDate(first, cadence, n, anchor) ==
  IF cadence \in DOMAIN DayStep THEN first + n * DayStep[cadence]
  ELSE Anchored(MonthOf(first) + n * MonthStep[cadence], anchor)

(***************************************************************************)
(* horizon.ts                                                              *)
(***************************************************************************)
\* A payday that was missed makes the plan fall back; otherwise the next one
\* within three months ends it.
PlanningHorizonEnd(today, paydays, fallback) ==
  LET upcoming == {d \in paydays : d \in today .. today + 90}
  IN  IF upcoming = {} \/ \E d \in paydays : d < today THEN today + fallback ELSE Min(upcoming)

\* Mutant: the second anchor is not looked at.
AdvanceByFirstAnchor(date, pay) ==
  IF pay.frequency = "irregular" THEN NoDate
  ELSE IF pay.frequency = "semi_monthly" THEN Anchored(MonthOf(date) + 1, Head(pay.anchors))
  ELSE AdvanceAnchoredDate(date, pay.frequency, Head(pay.anchors))

\* Twice a month wants both anchors; an irregular income has no next date.
AdvanceIncomeScheduleDate(date, pay) ==
  LET both == {Anchored(MonthOf(date) + offset, anchor) : offset \in 0 .. 2, anchor \in ToSet(pay.anchors)}
  IN  CASE pay.frequency = "irregular" -> NoDate
        [] pay.frequency = "semi_monthly" ->
             IF Len(pay.anchors) < 2 THEN NoDate ELSE Min({d \in both : d > date})
        [] OTHER -> AdvanceAnchoredDate(date, pay.frequency, Head(pay.anchors))

(***************************************************************************)
(* materializeCommitmentDates: two loops of at most LoopLimit steps, one   *)
(* to reach the last 90 days and one to list the dates up to the end.      *)
(***************************************************************************)
Reached(first, cadence, earliest, anchor) ==
  LET reach[d \in Nat, guard \in 0 .. LoopLimit] ==
        IF guard = 0 \/ d >= earliest THEN d
        ELSE reach[AdvanceAnchoredDate(d, cadence, anchor), guard - 1]
  IN  reach[first, LoopLimit]

Listed(from, cadence, earliest, end, anchor) ==
  LET list[d \in Nat, guard \in 0 .. LoopLimit] ==
        IF guard = 0 \/ d > end THEN {}
        ELSE {d} \cup list[AdvanceAnchoredDate(d, cadence, anchor), guard - 1]
  IN  list[from, LoopLimit] \ 0 .. earliest - 1

MaterializeCommitmentDates(first, cadence, today, end, anchor) ==
  IF cadence \notin Recurring THEN {first}
  ELSE Listed(Reached(first, cadence, today - 90, anchor), cadence, today - 90, end, anchor)

(***************************************************************************)
(* Migration 033: the dates by their index, from one computed with age().  *)
(***************************************************************************)
\* age(): whole months between two dates.
WholeMonths(from, to) == MonthOf(to) - MonthOf(from) - IF DayOf(to) < DayOf(from) THEN 1 ELSE 0

FirstIndex(first, cadence, earliest) ==
  IF earliest < first THEN 0
  ELSE IF cadence \in DOMAIN DayStep THEN (earliest - first) \div DayStep[cadence]
  ELSE Max({0, WholeMonths(first, earliest) \div MonthStep[cadence] - 2})

Series(first, cadence, from, anchor) ==
  {AnchoredOccurrenceDate(first, cadence, n, anchor) : n \in from .. from + 40}

SweptDates(first, cadence, today, end, anchor) ==
  (today - 90 .. end) \cap
    IF cadence \notin Recurring THEN {first}
    ELSE Series(first, cadence, FirstIndex(first, cadence, today - 90), anchor)
=============================================================================

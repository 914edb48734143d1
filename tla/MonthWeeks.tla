----------------------------- MODULE MonthWeeks -----------------------------
(***************************************************************************)
(* month_weeks for one month and one configured start of the week.         *)
(***************************************************************************)
EXTENDS ScheduleAlgorithms

CONSTANTS Years \* the years checked: bounds the input

VARIABLES month, start

Init == /\ month \in [year : Years, month : 1..12]
        /\ start \in {"monday", "sunday"}

-----------------------------------------------------------------------------
Weeks == month_weeks(month, start)

\* The days since the last configured start of a week.
DayOfWeek(date) == (Weekday(SysDays(date)) - configured_weekday(start)) % 7

\* The display weeks cut the month into whole calendar weeks: together they
\* hold every day once, in order; none spans two calendar weeks; and a calendar
\* week is cut short only by the end of the month (month_weeks, lines 46-53).
\* "A month produces four, five, or six display weeks"
\* (docs/architecture.md:176).
WeeksTileTheMonth ==
    /\ Len(Weeks) \in 4..6
    /\ Weeks[1][1] = FirstDay(month)
    /\ Weeks[Len(Weeks)][2] = LastDay(month)
    /\ \A k \in DOMAIN Weeks :
          /\ \A d \in {1, 2} : is_date_in_month(Weeks[k][d], month)
          /\ SysDays(Weeks[k][1]) <= SysDays(Weeks[k][2])
          /\ SysDays(Weeks[k][2]) - SysDays(Weeks[k][1])
                = DayOfWeek(Weeks[k][2]) - DayOfWeek(Weeks[k][1])
          /\ k > 1 => /\ SysDays(Weeks[k][1]) = SysDays(Weeks[k - 1][2]) + 1
                      /\ DayOfWeek(Weeks[k][1]) = 0
=============================================================================

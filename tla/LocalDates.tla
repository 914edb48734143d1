----------------------------- MODULE LocalDates -----------------------------
(***************************************************************************)
(* The part of std::chrono that the program computes with: civil dates,    *)
(* months, the days since 1970-01-01 (sys_days) and weekdays.              *)
(***************************************************************************)
EXTENDS Integers

(***************************************************************************)
(* std::chrono::year_month_day is a record of three fields that need not   *)
(* name a day that exists (30 February does not): ok() says if it does.    *)
(***************************************************************************)
IsLeap(y) == y % 4 = 0 /\ (y % 100 # 0 \/ y % 400 = 0)

MonthLength(y, m) ==
    CASE m \in {4, 6, 9, 11} -> 30
      [] m = 2 -> IF IsLeap(y) THEN 29 ELSE 28
      [] OTHER -> 31

\* A year is a short; ok() refuses the least one.
YearOk(y) == y # -32768

MonthOk(month) == YearOk(month.year) /\ month.month \in 1..12

DateOk(d) == /\ YearOk(d.year)
             /\ d.month \in 1..12
             /\ d.day \in 1..MonthLength(d.year, d.month)

\* The order of year_month_day, as a number: fields compare from the left.
DateKey(d) == d.year * 512 + d.month * 32 + d.day

DateLeq(a, b) == DateKey(a) <= DateKey(b)

FirstDay(month) == [year |-> month.year, month |-> month.month, day |-> 1]
LastDay(month)  == [year |-> month.year, month |-> month.month,
                    day |-> MonthLength(month.year, month.month)]

\* Days before the first of March of year y, counting from 1 March of year 0:
\* a year that starts in March ends with its leap day.
DaysBefore(y) == 365 * y + y \div 4 - y \div 100 + y \div 400

\* std::chrono::sys_days: days since 1970-01-01.
SysDays(d) ==
    LET y == IF d.month > 2 THEN d.year ELSE d.year - 1
        m == (d.month + 9) % 12
    IN  DaysBefore(y) + (153 * m + 2) \div 5 + d.day - 719469

\* std::chrono::weekday: 0 is Sunday; 1970-01-01 was a Thursday.
Weekday(days) == (days + 4) % 7

\* The date of a sys_days in a known month.
DayOfMonth(month, days) ==
    [year |-> month.year, month |-> month.month,
     day |-> days - SysDays(FirstDay(month)) + 1]
=============================================================================

------------------------- MODULE ScheduleAlgorithms -------------------------
(***************************************************************************)
(* The pure functions of src/domain/ScheduleAlgorithms.cpp.                *)
(*                                                                         *)
(* Averages and variances are compared as exact fractions: all windows of  *)
(* one call have the same number of cells, so an average is compared by    *)
(* its sum, and a variance by n * (sum of squares) - (sum squared).        *)
(***************************************************************************)
EXTENDS LocalDates, FiniteSets, SequencesExt

minutes_per_day == 24 * 60

Least(a, b)    == IF a <= b THEN a ELSE b
Greatest(a, b) == IF a >= b THEN a ELSE b

is_valid_calendar_config(c) ==
    /\ MonthOk(c.month)
    /\ c.timezone # ""
    /\ c.start_minute >= 0
    /\ c.end_minute <= minutes_per_day
    /\ c.start_minute < c.end_minute
    /\ c.slot_minutes \in {15, 30, 60}
    /\ (c.end_minute - c.start_minute) % c.slot_minutes = 0

is_date_in_month(date, month) ==
    /\ DateOk(date)
    /\ date.year = month.year
    /\ date.month = month.month

-----------------------------------------------------------------------------
(* The display weeks of a month                                            *)

configured_weekday(start) == IF start = "monday" THEN 1 ELSE 0

\* Mutant: a negative offset.
SignedOffset(month, start) ==
    Weekday(SysDays(FirstDay(month))) - configured_weekday(start)

\* weekday - weekday is a number of days in 0..6.
WeekOffset(month, start) ==
    (Weekday(SysDays(FirstDay(month))) - configured_weekday(start)) % 7

ClippedWeek(month, cursor) ==
    << DayOfMonth(month, Greatest(cursor, SysDays(FirstDay(month)))),
       DayOfMonth(month, Least(cursor + 6, SysDays(LastDay(month)))) >>

\* A cursor steps from week start to week start through the month.
month_weeks(month, start) ==
    LET loop[cursor \in Int] ==
            IF cursor <= SysDays(LastDay(month))
            THEN <<ClippedWeek(month, cursor)>> \o loop[cursor + 7]
            ELSE << >>
    IN  loop[SysDays(FirstDay(month)) - WeekOffset(month, start)]

-----------------------------------------------------------------------------
(* The heatmap of a week.  intervals is a set of records with the fields   *)
(* calendar, participant, date and span.                                   *)

Slots(config) == (config.end_minute - config.start_minute) \div config.slot_minutes
SlotStart(config, i) == config.start_minute + i * config.slot_minutes

\* The dates from first to last, which lie in one month, in order.
Days(first, last) ==
    [n \in 1..(SysDays(last) - SysDays(first) + 1) |->
        [first EXCEPT !.day = @ + n - 1]]

\* Mutant: an interval that ends where a slot starts touches it.
CoversEdges(config, interval, i) ==
    /\ interval.span.start <= SlotStart(config, i) + config.slot_minutes
    /\ interval.span.end >= SlotStart(config, i)

\* The bits of coverage[{participant, date}]: the slots that any of the
\* intervals touches.
Covers(config, interval, i) ==
    /\ Greatest(interval.span.start, config.start_minute)
        < SlotStart(config, i) + config.slot_minutes
    /\ Least(interval.span.end, config.end_minute) > SlotStart(config, i)

available_count(calendar, intervals, date, i) ==
    Cardinality({interval.participant : interval \in
        {v \in intervals : /\ v.calendar = calendar.id
                           /\ v.date = date
                           /\ Covers(calendar.config, v, i)}})

ValidHeatmapInput(calendar, first, last, total) ==
    /\ is_valid_calendar_config(calendar.config)
    /\ DateLeq(first, last)
    /\ total >= 0

\* Cells by date, then by slot, both ascending.
aggregate_week(calendar, first, last, intervals, total) ==
    LET slots == Slots(calendar.config)
        days  == Days(first, last)
        cell(k) ==
            LET date == days[(k - 1) \div slots + 1]
                i    == (k - 1) % slots
            IN  [date  |-> date,
                 start |-> SlotStart(calendar.config, i),
                 end   |-> SlotStart(calendar.config, i) + calendar.config.slot_minutes,
                 count |-> available_count(calendar, intervals, date, i)]
    IN  [slot_minutes |-> calendar.config.slot_minutes,
         total        |-> total,
         cells        |-> [k \in 1..(Len(days) * slots) |-> cell(k)]]

-----------------------------------------------------------------------------
(* The best windows of a heatmap                                           *)

ValidDuration(heatmap, duration) ==
    /\ duration > 0
    /\ heatmap.slot_minutes > 0
    /\ duration % heatmap.slot_minutes = 0

\* The members of S in the order R, a set of pairs, that is strict and total.
Ordered(S, R) ==
    [n \in 1..Cardinality(S) |->
        CHOOSE x \in S : Cardinality({y \in S : <<y, x>> \in R}) = n - 1]

\* Two cells of a heatmap never have the same date and start.
CellsOf(heatmap, date) ==
    LET cells == {c \in Range(heatmap.cells) : c.date = date}
    IN  Ordered(cells, {p \in cells \X cells : p[1].start < p[2].start})

SumOf(f) == FoldFunction(+, 0, f)

Window(cells, i, needed) ==
    LET values == [j \in 1..needed |-> cells[i + j - 1].count]
        sum    == SumOf(values)
    IN  [date     |-> cells[i].date,
         start    |-> cells[i].start,
         end      |-> cells[i + needed - 1].end,
         minimum  |-> CHOOSE v \in Range(values) : \A w \in Range(values) : v <= w,
         sum      |-> sum,
         variance |-> needed * SumOf([j \in 1..needed |-> values[j] * values[j]])
                        - sum * sum]

Consecutive(cells, i, needed) ==
    \A j \in 1..(needed - 1) : cells[i + j - 1].end = cells[i + j].start

Candidates(heatmap, duration) ==
    LET needed == duration \div heatmap.slot_minutes
    IN  UNION {LET cells == CellsOf(heatmap, date)
               IN  {Window(cells, i, needed) :
                        i \in {k \in 1..(Len(cells) - needed + 1) :
                                    Consecutive(cells, k, needed)}}
               : date \in {c.date : c \in Range(heatmap.cells)}}

\* Mutant: the average goes before the minimum.
AverageFirst(w) == << -w.sum, -w.minimum, w.variance, DateKey(w.date), w.start >>

\* The lexicographic order of the tuples that the sort compares.
RankKey(w) == << -w.minimum, -w.sum, w.variance, DateKey(w.date), w.start >>

RanksBefore(a, b) ==
    LET ka == RankKey(a)
        kb == RankKey(b)
    IN  \E n \in 1..5 : /\ ka[n] < kb[n]
                        /\ \A m \in 1..(n - 1) : ka[m] = kb[m]

RankOrder(windows) == {p \in windows \X windows : RanksBefore(p[1], p[2])}

Overlap(a, b) == Greatest(0, Least(a.end, b.end) - Greatest(a.start, b.start))

\* Mutant: windows that share exactly half of their time pass.
MoreThanHalf(a, b, duration) == a.date = b.date /\ Overlap(a, b) * 2 > duration

TooSimilar(a, b, duration) == a.date = b.date /\ Overlap(a, b) * 2 >= duration

\* The selection loop.  With limit 0 the size never equals the limit when it
\* is tested, so nothing is cut off.
rank_best_windows(heatmap, duration, limit) ==
    LET full(selected) == limit > 0 /\ Len(selected) = limit
        select(selected, w) ==
            IF full(selected) \/ \E k \in DOMAIN selected :
                                    TooSimilar(selected[k], w, duration)
            THEN selected
            ELSE Append(selected, w)
        windows == Candidates(heatmap, duration)
    IN  FoldLeft(select, << >>, Ordered(windows, RankOrder(windows)))
=============================================================================

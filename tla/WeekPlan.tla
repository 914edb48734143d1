------------------------------ MODULE WeekPlan ------------------------------
(***************************************************************************)
(* weekly_heatmap and best_windows as the service composes them:           *)
(* aggregate_week on every set of intervals that members can have stored,  *)
(* grown one interval at a time, and rank_best_windows on each heatmap.    *)
(***************************************************************************)
EXTENDS ScheduleAlgorithms

CONSTANTS
    Members,      \* participant ids
    Config,       \* a valid configuration
    Offered,      \* the spans that members offer: those the service accepts
    WeekDates,    \* the dates that members offer, some outside the week shown
    FirstDate,    \* the week shown, from this date
    LastDate,     \* to this one
    MaxIntervals, \* bound on the number of intervals stored
    Lengths,      \* the window lengths asked for, in minutes
    Limits        \* the limits asked for; 0 is none

VARIABLE intervals

Calendar == [id |-> 1, config |-> Config]

\* The intervals of calendar 2 are there to be ignored.
Interval == [calendar : {1}, participant : Members, date : WeekDates,
             span : Offered]
            \cup [calendar : {2}, participant : Members, date : {FirstDate},
                  span : {[start |-> Config.start_minute, end |-> Config.end_minute]}]

\* The start of a slot, or the end of the last one.
Aligned(minute) == (minute - Config.start_minute) % Config.slot_minutes = 0

\* The week lies in the month of the calendar, as display weeks do; spans are
\* offered in whole slots of the configured range, as add_availability demands
\* (ScheduleService.cpp:58-62).
ASSUME WeekPlanAssumption ==
    /\ ValidHeatmapInput(Calendar, FirstDate, LastDate, Cardinality(Members))
    /\ {Config.start_minute, Config.end_minute, Config.month.year} \subseteq Int
    /\ {FirstDate, LastDate} \subseteq [year : Int, month : Int, day : Int]
    /\ is_date_in_month(FirstDate, Config.month) /\ is_date_in_month(LastDate, Config.month)
    /\ \A s \in Offered : /\ s.start \in Config.start_minute..Config.end_minute
                          /\ s.end \in Config.start_minute..Config.end_minute
                          /\ s.start < s.end
                          /\ Aligned(s.start) /\ Aligned(s.end)
    /\ IsFiniteSet(Members)
    /\ Lengths \subseteq Int /\ Limits \subseteq Nat
    /\ \A d \in Lengths : ValidDuration(Config, d)

Init == intervals = {}

Next == \E v \in Interval \ intervals :
            /\ Cardinality(intervals) < MaxIntervals
            /\ intervals' = intervals \cup {v}

Spec == Init /\ [][Next]_intervals

-----------------------------------------------------------------------------
(* The heatmap                                                             *)

Map == aggregate_week(Calendar, FirstDate, LastDate, intervals, Cardinality(Members))

\* Member p offered minute m of the date.
Free(p, date, m) == \E v \in intervals :
    /\ v.calendar = Calendar.id /\ v.participant = p /\ v.date = date
    /\ v.span.start <= m /\ m < v.span.end

\* The cells cover the configured range of each day of the week without gap or
\* overlap, in order: what the renderer and the ranking take for granted.
CellsTile(cells) ==
    /\ cells[1].date = FirstDate
    /\ cells[Len(cells)].date = LastDate
    /\ \A k \in DOMAIN cells :
         IF k > 1 /\ cells[k - 1].date = cells[k].date
         THEN cells[k].start = cells[k - 1].end
         ELSE /\ cells[k].start = Config.start_minute
              /\ k > 1 => /\ cells[k - 1].end = Config.end_minute
                          /\ SysDays(cells[k].date) = SysDays(cells[k - 1].date) + 1

\* A cell counts each member once, and exactly those who are available in every
\* minute of its slot, though the code only tests that an interval touches the
\* slot: overlapping intervals are counted once, intervals that only meet the
\* edge of a slot not at all (aggregate_week, lines 72-96).  The cells tile the
\* week.
CellsCountWholeSlots ==
    LET cells == Map.cells
    IN  /\ CellsTile(cells)
        /\ \A c \in Range(cells) :
              c.count = Cardinality({p \in Members :
                            \A m \in c.start..(c.end - 1) : Free(p, c.date, m)})

-----------------------------------------------------------------------------
(* The best windows.  A window is given by its date and its first minute;  *)
(* what it is worth is defined on the cells it holds, without the sliding  *)
(* of the code.                                                            *)

CellsIn(map, w, d) ==
    {c \in Range(map.cells) :
        c.date = w[1] /\ w[2] <= c.start /\ c.end <= w[2] + d}

Windows(map, d) ==
    {w \in {<<c.date, c.start>> : c \in Range(map.cells)} :
        Cardinality(CellsIn(map, w, d)) * map.slot_minutes = d}

Worst(map, w, d) == CHOOSE n \in 0..Cardinality(Members) :
    /\ \E c \in CellsIn(map, w, d) : c.count = n
    /\ \A c \in CellsIn(map, w, d) : c.count >= n

Total(map, w, d) ==
    SumOf([c \in CellsIn(map, w, d) |-> c.count])

\* The first answer is the most conservative window: no window has a larger
\* minimum, and among those with its minimum none has a larger average
\* (docs/architecture.md:203); there is an answer whenever there is a window.
FirstIsBest ==
    LET map == Map
    IN  \A d \in Lengths, limit \in Limits :
          LET answers == rank_best_windows(map, d, limit)
              best    == << answers[1].date, answers[1].start >>
          IN  /\ (answers = << >>) = (Windows(map, d) = {})
              /\ answers # << >> =>
                   /\ best \in Windows(map, d)
                   /\ answers[1].end = best[2] + d
                   /\ answers[1].minimum = Worst(map, best, d)
                   /\ \A w \in Windows(map, d) :
                        \/ Worst(map, w, d) < Worst(map, best, d)
                        \/ /\ Worst(map, w, d) = Worst(map, best, d)
                           /\ Total(map, w, d) <= Total(map, best, d)

\* No two answers share half of their time or more, and nothing is left out
\* without reason: a window that is not among the answers ranks behind an
\* answer it is too similar to, or the limit cut it off.
DistinctAndMaximal ==
    LET map == Map
    IN  \A d \in Lengths, limit \in Limits :
          LET answers == rank_best_windows(map, d, limit)
          IN  /\ \A i, j \in DOMAIN answers :
                   i < j /\ answers[i].date = answers[j].date =>
                      \/ 2 * (answers[j].start - answers[i].start) > d
                      \/ 2 * (answers[i].start - answers[j].start) > d
              /\ limit > 0 => Len(answers) <= limit
              /\ \A w \in Candidates(map, d) \ Range(answers) :
                   \/ \E i \in DOMAIN answers : /\ RanksBefore(answers[i], w)
                                                 /\ TooSimilar(answers[i], w, d)
                   \/ Len(answers) = limit /\ RanksBefore(answers[limit], w)
=============================================================================

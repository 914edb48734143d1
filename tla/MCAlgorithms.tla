---------------------------- MODULE MCAlgorithms ----------------------------
(***************************************************************************)
(* Instances of the pure parts of the program for TLC.  Every month of the *)
(* years is an initial state (MonthWeeks).  The steps enumerate, beside    *)
(* one of them, what users type (InputParsing) or the availability of a    *)
(* week of four slots of 30 minutes on two days (WeekPlan).                *)
(***************************************************************************)
EXTENDS WeekPlan

CONSTANT Years

ASSUME YearsAssumption == /\ Years \subseteq Int
                          /\ \A y \in Years : YearOk(y)

VARIABLES month, start, \* the month and the start of the week looked at
          typed         \* the integers in the text looked at

inputs == <<intervals, month, start, typed>>

Months == INSTANCE MonthWeeks
Text   == INSTANCE InputParsing

-----------------------------------------------------------------------------
Aug(d) == [year |-> 2026, month |-> 8, day |-> d]

MCConfig == [month |-> [year |-> 2026, month |-> 8], timezone |-> "UTC",
             start_minute |-> 1080, end_minute |-> 1200, slot_minutes |-> 30,
             week_start |-> "monday", modes |-> {"anonymous"}]
MCOffered == {[start |-> 1080, end |-> 1110], [start |-> 1080, end |-> 1140],
              [start |-> 1110, end |-> 1200], [start |-> 1140, end |-> 1170]}
MCWeekDates == {Aug(1), Aug(2), Aug(3)}
MCFirst == Aug(1)
MCLast == Aug(2)

\* The edges of months and leap years, of the fields' types, and beyond; of the
\* hours and minutes, and beyond.
TypedDates == {-32768, 2024, 2100, 32767, 32768, 67562}
                \X {-1, 0, 2, 8, 12, 13, 256, 264}
                \X {-1, 0, 1, 28, 29, 30, 31, 32, 257}
TypedTimes == (-1..25) \X {-1, 0, 1, 30, 59, 60}
Texts      == {<<2026>>, <<2026, 8>>} \cup TypedDates \cup TypedTimes

\* The inputs of the other kinds are enumerated beside one month only.
Ready == /\ month = MCConfig.month /\ start = "monday"
         /\ intervals = {} /\ typed = << >>

MCInit == Init /\ Months!Init /\ typed = << >>

MCNext == \/ Ready /\ typed' \in Texts /\ UNCHANGED <<intervals, month, start>>
          \/ /\ Ready \/ intervals # {}
             /\ Next
             /\ UNCHANGED <<month, start, typed>>

MCSpec == MCInit /\ [][MCNext]_inputs

-----------------------------------------------------------------------------
WeeksTileTheMonth == Months!WeeksTileTheMonth

\* A date whose integers fit the fields of std::chrono::year_month_day is taken
\* as it was typed, or refused if there is no such day; of the others, whatever
\* is taken is a day that exists (parse_date, lines 49-62).  A time is taken if
\* and only if it is a minute of the day or its end, and it is shown again as
\* it was typed (parse_time, time_text).
TakenAsTyped ==
    /\ Len(typed) = 3 =>
         LET date == [year |-> typed[1], month |-> typed[2], day |-> typed[3]]
         IN  /\ \A taken \in Text!parse_date(typed) : DateOk(taken)
             /\ typed \in Text!Short \X Text!Byte \X Text!Byte =>
                   Text!parse_date(typed) = {d \in {date} : DateOk(d)}
    /\ Len(typed) = 2 =>
         Text!parse_time(typed) =
            {m \in 0..minutes_per_day : Text!time_text(m) = typed}
=============================================================================

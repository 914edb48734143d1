--------------------------- MODULE AlgorithmProofs ---------------------------
(***************************************************************************)
(* Proofs about the pure parts of the program.                             *)
(***************************************************************************)
EXTENDS MCAlgorithms, DateProofs, FiniteSetTheorems, FunctionTheorems

-----------------------------------------------------------------------------
(* The display weeks of a month                                            *)

\* The days since the last start of a week.
WeekdayFrom(days, begin) == (Weekday(days) - configured_weekday(begin)) % 7

\* Days of the week are counted from that origin.
LEMMA WeekdayFacts ==
    ASSUME NEW m, m.year \in Int, MonthOk(m), NEW begin, NEW x \in Int
    PROVE  WeekdayFrom(x, begin) = (x - Origin(m, begin)) % 7
<1> DEFINE first == SysDays(FirstDay(m))
           c == configured_weekday(begin)
<1>1. first \in Int /\ c \in {0, 1}
    BY DaysOfMonth DEF configured_weekday
<1>2. /\ WeekdayFrom(x, begin) = (((x + 4) % 7) - c) % 7
      /\ Origin(m, begin) = first - ((((first + 4) % 7) - c) % 7)
    BY DEF WeekdayFrom, Origin, WeekOffset, Weekday
<1> HIDE DEF first, c
<1> QED
    BY <1>1, <1>2

\* A day that DayOfMonth makes is the day of the month it was made from.
LEMMA DayFacts ==
    ASSUME NEW m, m.year \in Int, MonthOk(m), NEW x \in Int
    PROVE  /\ SysDays(DayOfMonth(m, x)) = x
           /\ DayOfMonth(m, SysDays(FirstDay(m))) = FirstDay(m)
           /\ DayOfMonth(m, SysDays(LastDay(m))) = LastDay(m)
           /\ x \in SysDays(FirstDay(m))..SysDays(LastDay(m))
                => is_date_in_month(DayOfMonth(m, x), m)
<1> DEFINE first == SysDays(FirstDay(m))
           last  == SysDays(LastDay(m))
           length == MonthLength(m.year, m.month)
<1>1. first \in Int /\ length \in Int /\ last = first + length - 1
    BY DaysOfMonth
<1>2. SysDays(DayOfMonth(m, x)) = first + (x - first + 1) - 1
  <2>1. x - first + 1 \in Int
      BY <1>1
  <2> QED
      BY <2>1, DaysOfMonth DEF DayOfMonth
<1> HIDE DEF first, last, length
<1>3. SysDays(DayOfMonth(m, x)) = x
    BY <1>1, <1>2
<1>4. first - first + 1 = 1 /\ last - first + 1 = length
    BY <1>1
<1>5. x \in first..last => x - first + 1 \in 1..length
    BY <1>1
<1>6. DayOfMonth(m, first) = FirstDay(m) /\ DayOfMonth(m, last) = LastDay(m)
    BY <1>4 DEF DayOfMonth, FirstDay, LastDay, first, length
<1>7. x \in first..last => is_date_in_month(DayOfMonth(m, x), m)
    BY <1>5 DEF DayOfMonth, is_date_in_month, DateOk, MonthOk, first, length
<1> QED
    BY <1>3, <1>6, <1>7 DEF first, last

\* The weeks begin and end with the month.
LEMMA EndFacts ==
    ASSUME NEW m, m.year \in Int, MonthOk(m), NEW begin
    PROVE  LET W == month_weeks(m, begin)
           IN  /\ Len(W) \in 4..6
               /\ W[1][1] = FirstDay(m)
               /\ W[Len(W)][2] = LastDay(m)
<1> DEFINE W     == month_weeks(m, begin)
           first == SysDays(FirstDay(m))
           last  == SysDays(LastDay(m))
           from  == Origin(m, begin)
           n     == (last - from) \div 7 + 1
<1>1. /\ n \in 4..6 /\ Len(W) = n
      /\ from \in Int /\ first - from \in 0..6 /\ last - first \in 27..30
      /\ \A k \in 1..n :
           /\ W[k][1] = DayOfMonth(m, Greatest(from + 7 * (k - 1), first))
           /\ W[k][2] = DayOfMonth(m, Least(from + 7 * (k - 1) + 6, last))
    BY WeekFacts
<1>2. first \in Int /\ last \in Int
  <2>1. first \in Int /\ MonthLength(m.year, m.month) \in 28..31
        /\ last = first + MonthLength(m.year, m.month) - 1
      BY DaysOfMonth
  <2> HIDE DEF first, last
  <2> QED
      BY <2>1
<1>3. DayOfMonth(m, first) = FirstDay(m) /\ DayOfMonth(m, last) = LastDay(m)
    BY <1>2, DayFacts
<1> HIDE DEF W, first, last, from
<1>4. /\ Greatest(from + 7 * (1 - 1), first) = first
      /\ Least(from + 7 * (n - 1) + 6, last) = last
    BY <1>1, <1>2 DEF Greatest, Least
<1>5. 1 \in 1..n /\ n \in 1..n
    BY <1>1
<1> QED
    BY <1>1, <1>3, <1>4, <1>5 DEF W

\* MonthWeeks has its own copy of every operator; they are the same.
SameAsMonths ==
    /\ Months!Weeks = month_weeks(month, start)
    /\ Months!FirstDay(month) = FirstDay(month)
    /\ Months!LastDay(month) = LastDay(month)
    /\ \A d : /\ Months!SysDays(d) = SysDays(d)
              /\ Months!is_date_in_month(d, month) = is_date_in_month(d, month)
              /\ Months!DayOfWeek(d) = WeekdayFrom(SysDays(d), start)

LEMMA SameMonths == SameAsMonths
<1>1. Months!Weeks = month_weeks(month, start)
    BY DEF Months!Weeks, Months!month_weeks, month_weeks, Months!SysDays, SysDays,
           Months!DaysBefore, DaysBefore, Months!FirstDay, FirstDay,
           Months!LastDay, LastDay, Months!MonthLength, MonthLength,
           Months!IsLeap, IsLeap, Months!WeekOffset, WeekOffset,
           Months!Weekday, Weekday, Months!configured_weekday, configured_weekday,
           Months!ClippedWeek, ClippedWeek, Months!DayOfMonth, DayOfMonth,
           Months!Greatest, Greatest, Months!Least, Least
<1>2. /\ Months!FirstDay(month) = FirstDay(month)
      /\ Months!LastDay(month) = LastDay(month)
    BY DEF Months!FirstDay, FirstDay, Months!LastDay, LastDay,
           Months!MonthLength, MonthLength, Months!IsLeap, IsLeap
<1>3. ASSUME NEW d
      PROVE  /\ Months!SysDays(d) = SysDays(d)
             /\ Months!is_date_in_month(d, month) = is_date_in_month(d, month)
  <2>1. Months!SysDays(d) = SysDays(d)
      BY DEF Months!SysDays, SysDays, Months!DaysBefore, DaysBefore
  <2>2. Months!is_date_in_month(d, month) = is_date_in_month(d, month)
      BY DEF Months!is_date_in_month, is_date_in_month, Months!DateOk, DateOk,
             Months!YearOk, YearOk, Months!MonthLength, MonthLength, Months!IsLeap, IsLeap
  <2> QED
      BY <2>1, <2>2
<1>4. ASSUME NEW d PROVE Months!DayOfWeek(d) = WeekdayFrom(SysDays(d), start)
    BY <1>3 DEF Months!DayOfWeek, WeekdayFrom, Months!Weekday, Weekday,
                Months!configured_weekday, configured_weekday
<1> QED
    BY <1>1, <1>2, <1>3, <1>4 DEF SameAsMonths

\* The property of one month, put together from the closed form of its weeks.
LEMMA TilesTheMonth ==
    ASSUME month.year \in Int, MonthOk(month)
    PROVE  WeeksTileTheMonth
<1> DEFINE W     == month_weeks(month, start)
           first == SysDays(FirstDay(month))
           last  == SysDays(LastDay(month))
           from  == Origin(month, start)
           n     == (last - from) \div 7 + 1
           lo(k) == Greatest(from + 7 * (k - 1), first)
           hi(k) == Least(from + 7 * (k - 1) + 6, last)
<1>1. first \in Int /\ last \in Int
  <2>1. first \in Int /\ MonthLength(month.year, month.month) \in 28..31
        /\ last = first + MonthLength(month.year, month.month) - 1
      BY DaysOfMonth
  <2> HIDE DEF first, last
  <2> QED
      BY <2>1
<1>2. /\ n \in 4..6 /\ DOMAIN W = 1..n /\ Len(W) = n
      /\ from \in Int /\ first - from \in 0..6 /\ last - first \in 27..30
      /\ \A k \in 1..n : /\ W[k][1] = DayOfMonth(month, lo(k))
                         /\ W[k][2] = DayOfMonth(month, hi(k))
    BY WeekFacts
<1>3. \A x \in Int : WeekdayFrom(x, start) = (x - from) % 7
    BY WeekdayFacts
<1>4. /\ \A x \in Int : SysDays(DayOfMonth(month, x)) = x
      /\ DayOfMonth(month, first) = FirstDay(month)
      /\ DayOfMonth(month, last) = LastDay(month)
      /\ \A x \in first..last : is_date_in_month(DayOfMonth(month, x), month)
    BY <1>1, DayFacts
<1> HIDE DEF W, first, last, from
<1>5. ASSUME NEW k \in 1..n
      PROVE  /\ lo(k) \in first..last /\ hi(k) \in first..last /\ lo(k) <= hi(k)
             /\ lo(k) - from \in 7 * (k - 1)..(7 * (k - 1) + 6)
             /\ hi(k) - from \in 7 * (k - 1)..(7 * (k - 1) + 6)
             /\ k > 1 => lo(k) = from + 7 * (k - 1) /\ lo(k) = hi(k - 1) + 1
    BY <1>1, <1>2 DEF Greatest, Least
<1>6. ASSUME NEW k \in 1..n, NEW x \in 7 * (k - 1)..(7 * (k - 1) + 6)
      PROVE  x % 7 = x - 7 * (k - 1)
  <2>1. k \in Int /\ x \in Int /\ 7 * (k - 1) <= x /\ x <= 7 * (k - 1) + 6
      BY <1>2
  <2> HIDE DEF n
  <2> QED
      BY <2>1
<1> HIDE DEF lo, hi, n
<1>7. ASSUME NEW k \in 1..n
      PROVE  /\ SysDays(W[k][1]) = lo(k) /\ SysDays(W[k][2]) = hi(k)
             /\ WeekdayFrom(SysDays(W[k][1]), start) = lo(k) - from - 7 * (k - 1)
             /\ WeekdayFrom(SysDays(W[k][2]), start) = hi(k) - from - 7 * (k - 1)
             /\ is_date_in_month(W[k][1], month) /\ is_date_in_month(W[k][2], month)
  <2>1. lo(k) \in Int /\ hi(k) \in Int
      BY <1>1, <1>5
  <2>2. SysDays(W[k][1]) = lo(k) /\ SysDays(W[k][2]) = hi(k)
      BY <1>2, <1>4, <2>1
  <2>3. (lo(k) - from) % 7 = lo(k) - from - 7 * (k - 1)
      BY <1>5, <1>6
  <2>4. (hi(k) - from) % 7 = hi(k) - from - 7 * (k - 1)
      BY <1>5, <1>6
  <2>5. is_date_in_month(W[k][1], month) /\ is_date_in_month(W[k][2], month)
      BY <1>2, <1>4, <1>5
  <2> QED
      BY <1>3, <2>1, <2>2, <2>3, <2>4, <2>5
<1>8. Len(W) \in 4..6 /\ W[1][1] = FirstDay(month) /\ W[Len(W)][2] = LastDay(month)
    BY EndFacts DEF W
<1>9. ASSUME NEW k \in DOMAIN W
      PROVE  /\ \A d \in {1, 2} : is_date_in_month(W[k][d], month)
             /\ SysDays(W[k][1]) <= SysDays(W[k][2])
             /\ SysDays(W[k][2]) - SysDays(W[k][1])
                   = WeekdayFrom(SysDays(W[k][2]), start)
                       - WeekdayFrom(SysDays(W[k][1]), start)
             /\ k > 1 => /\ SysDays(W[k][1]) = SysDays(W[k - 1][2]) + 1
                         /\ WeekdayFrom(SysDays(W[k][1]), start) = 0
  <2>1. k \in 1..n
      BY <1>2
  <2>2. lo(k) \in Int /\ hi(k) \in Int /\ lo(k) <= hi(k)
      BY <1>1, <1>5, <2>1
  <2>3. hi(k) - lo(k) = (hi(k) - from - 7 * (k - 1)) - (lo(k) - from - 7 * (k - 1))
      BY <1>2, <2>1, <2>2
  <2>4. ASSUME k > 1
        PROVE  /\ SysDays(W[k][1]) = SysDays(W[k - 1][2]) + 1
               /\ WeekdayFrom(SysDays(W[k][1]), start) = 0
    <3>1. k - 1 \in 1..n
        BY <1>2, <2>1, <2>4
    <3>2. lo(k) = from + 7 * (k - 1) /\ lo(k) = hi(k - 1) + 1
        BY <1>5, <2>1, <2>4
    <3>3. lo(k) - from - 7 * (k - 1) = 0
        BY <1>2, <2>1, <3>2
    <3> QED
        BY <1>7, <2>1, <3>1, <3>2, <3>3
  <2> QED
      BY <1>7, <2>1, <2>2, <2>3, <2>4
<1> QED
    BY <1>8, <1>9, SameMonths DEF SameAsMonths, WeeksTileTheMonth, Months!WeeksTileTheMonth, W

InputOK == /\ month \in [year : Years, month : 1..12]
           /\ intervals \subseteq Interval
           /\ typed \in Seq(Int)

\* What the instance enumerates is typed.
LEMMA InputsTyped == MCSpec => []InputOK
<1>1. MCInit => InputOK
  <2> SUFFICES ASSUME MCInit PROVE InputOK
      OBVIOUS
  <2> QED
      BY DEF MCInit, Init, Months!Init, InputOK
<1>2. InputOK /\ [MCNext]_inputs => InputOK'
  <2> SUFFICES ASSUME InputOK, [MCNext]_inputs PROVE InputOK'
      OBVIOUS
  <2>2. CASE typed' \in Texts /\ UNCHANGED <<intervals, month, start>>
    <3>1. Texts \subseteq Seq(Int)
      <4>1. TypedDates \subseteq Int \X Int \X Int
          BY DEF TypedDates
      <4>2. TypedTimes \subseteq Int \X Int
          BY DEF TypedTimes
      <4>3. \A a, b, c \in Int : /\ <<a>> \in Seq(Int) /\ <<a, b>> \in Seq(Int)
                                 /\ <<a, b, c>> \in Seq(Int)
          OBVIOUS
      <4>4. TypedDates \subseteq Seq(Int)
        <5> SUFFICES ASSUME NEW t \in TypedDates PROVE t \in Seq(Int)
            OBVIOUS
        <5>1. t = <<t[1], t[2], t[3]>> /\ t[1] \in Int /\ t[2] \in Int /\ t[3] \in Int
            BY <4>1
        <5> QED
            BY <4>3, <5>1
      <4>5. TypedTimes \subseteq Seq(Int)
        <5> SUFFICES ASSUME NEW t \in TypedTimes PROVE t \in Seq(Int)
            OBVIOUS
        <5>1. t = <<t[1], t[2]>> /\ t[1] \in Int /\ t[2] \in Int
            BY <4>2
        <5> QED
            BY <4>3, <5>1
      <4> DEFINE months == {<<2026>>, <<2026, 8>>}
      <4>6. months \subseteq Seq(Int)
          BY <4>3
      <4>7. Texts = (months \cup TypedDates) \cup TypedTimes
          BY DEF Texts
      <4> HIDE DEF months
      <4> QED
          BY <4>4, <4>5, <4>6, <4>7
    <3> QED
        BY <2>2, <3>1 DEF InputOK
  <2>3. CASE Next /\ UNCHANGED <<month, start, typed>>
      BY <2>3 DEF Next, InputOK
  <2>4. CASE UNCHANGED inputs
      BY <2>4 DEF inputs, InputOK
  <2> QED
      BY <2>2, <2>3, <2>4 DEF MCNext
<1> QED
    BY <1>1, <1>2, PTL DEF MCSpec

\* The display weeks of every month of every year cut it into whole calendar
\* weeks, whichever day a week starts with (month_weeks).
THEOREM MonthsAreTiled == MCSpec => []WeeksTileTheMonth
<1>1. InputOK => WeeksTileTheMonth
    BY TilesTheMonth, YearsAssumption DEF InputOK, MonthOk
<1> QED
    BY <1>1, InputsTyped, PTL

-----------------------------------------------------------------------------
(* What users type                                                         *)

\* The fields of a triple and of a sequence of two.
LEMMA TripleFields ==
    ASSUME NEW A, NEW B, NEW C, NEW t, t \in A \X B \X C
    PROVE  t[1] \in A /\ t[2] \in B /\ t[3] \in C
    OBVIOUS

\* The fields of std::chrono hold what fits them.
LEMMA NarrowFits ==
    ASSUME NEW t, t \in Text!Short \X Text!Byte \X Text!Byte
    PROVE  Text!Narrowed(t) = [year |-> t[1], month |-> t[2], day |-> t[3]]
<1>1. t[1] \in Text!Short /\ t[2] \in Text!Byte /\ t[3] \in Text!Byte
    BY TripleFields
<1>2. ASSUME NEW y \in Text!Short PROVE Text!NarrowYear(y) = y
  <2> DEFINE least == -(2^15)
             most  == 2^15 - 1
  <2>1. least \in Int /\ most \in Int
      OBVIOUS
  <2>2. least = -32768 /\ most = 32767
      OBVIOUS
  <2>3. Text!Short = least..most
      BY DEF Text!Short
  <2> HIDE DEF least, most
  <2>4. y \in Int /\ least <= y /\ y <= most
      BY <2>1, <2>3
  <2> QED
      BY <2>2, <2>4 DEF Text!NarrowYear
<1>3. ASSUME NEW n \in Text!Byte PROVE Text!NarrowByte(n) = n
    BY DEF Text!NarrowByte, Text!Byte
<1> QED
    BY <1>1, <1>2, <1>3 DEF Text!Narrowed

\* InputParsing has its own copy of DateOk.
LEMMA SameDates == \A d : Text!DateOk(d) = DateOk(d)
    BY DEF Text!DateOk, DateOk, Text!YearOk, YearOk, Text!MonthLength, MonthLength,
           Text!IsLeap, IsLeap

\* parse_date, for any three integers.
LEMMA DatesTakenAsTyped ==
    ASSUME NEW t \in Seq(Int), Len(t) = 3
    PROVE  LET date == [year |-> t[1], month |-> t[2], day |-> t[3]]
           IN  /\ \A taken \in Text!parse_date(t) : DateOk(taken)
               /\ t \in Text!Short \X Text!Byte \X Text!Byte =>
                     Text!parse_date(t) = {d \in {date} : DateOk(d)}
<1> DEFINE accepted(date) == {d \in {date} : DateOk(d)}
<1>1. Text!parse_date(t) = accepted(Text!Narrowed(t))
    BY SameDates DEF Text!parse_date
<1>2. \A date : \A taken \in accepted(date) : DateOk(taken)
    OBVIOUS
<1> HIDE DEF accepted
<1>3. \A taken \in Text!parse_date(t) : DateOk(taken)
    BY <1>1, <1>2
<1>4. t \in Text!Short \X Text!Byte \X Text!Byte =>
        Text!parse_date(t) = accepted([year |-> t[1], month |-> t[2], day |-> t[3]])
    BY <1>1, NarrowFits
<1> QED
    BY <1>3, <1>4 DEF accepted

LEMMA PairFields ==
    ASSUME NEW t \in Seq(Int), Len(t) = 2
    PROVE  t[1] \in Int /\ t[2] \in Int /\ t = <<t[1], t[2]>>
<1> DEFINE u == <<t[1], t[2]>>
<1>1. t[1] \in Int /\ t[2] \in Int
    OBVIOUS
<1>2. u \in Seq(Int) /\ Len(u) = 2 /\ u[1] = t[1] /\ u[2] = t[2]
    BY <1>1
<1> HIDE DEF u
<1>3. t = u
    BY <1>2
<1> QED
    BY <1>1, <1>3 DEF u

\* parse_time, for any two integers.
LEMMA TimesTakenAsTyped ==
    ASSUME NEW t \in Seq(Int), Len(t) = 2
    PROVE  Text!parse_time(t) = {m \in 0..minutes_per_day : Text!time_text(m) = t}
<1> DEFINE h == t[1]
           n == t[2]
           taken == h \in 0..24 /\ n \in 0..59 /\ (h = 24 => n = 0)
           shown(m) == Text!time_text(m) = t
           x == h * 60 + n
<1>1. h \in Int /\ n \in Int /\ t = <<h, n>>
    BY PairFields
<1>2. Text!parse_time(t) = IF taken THEN {x} ELSE {}
    BY DEF Text!parse_time
<1> HIDE DEF h, n
<1>3. minutes_per_day = 1440
    BY DEF minutes_per_day
<1>4. ASSUME NEW m \in 0..minutes_per_day PROVE shown(m) <=> taken /\ m = x
  <2>1. shown(m) <=> m \div 60 = h /\ m % 60 = n
      BY <1>1 DEF Text!time_text
  <2>2. m \in Int /\ 0 <= m /\ m <= 1440
      BY <1>3
  <2>3. (m \div 60 = h /\ m % 60 = n) <=> (taken /\ m = x)
      BY <1>1, <2>2
  <2> QED
      BY <2>1, <2>3
<1>5. taken => x \in 0..minutes_per_day
    BY <1>1, <1>3
<1> HIDE DEF taken, shown, x
<1>6. {m \in 0..minutes_per_day : shown(m)} = IF taken THEN {x} ELSE {}
    BY <1>4, <1>5
<1> QED
    BY <1>2, <1>6 DEF shown

\* Whatever integers are typed: a date that fits the fields is taken as typed or
\* refused if it does not exist, whatever is taken exists, and a time is taken
\* if and only if it is shown again as it was typed (parse_date, parse_time).
THEOREM TypedIsTaken == MCSpec => []TakenAsTyped
<1>1. ASSUME InputOK PROVE TakenAsTyped
  <2>1. typed \in Seq(Int)
      BY <1>1 DEF InputOK
  <2> QED
    <3>1. CASE Len(typed) = 3
        BY <2>1, <3>1, DatesTakenAsTyped DEF TakenAsTyped
    <3>2. CASE Len(typed) = 2
        BY <2>1, <3>2, TimesTakenAsTyped DEF TakenAsTyped
    <3> QED
        BY <3>1, <3>2 DEF TakenAsTyped
<1> QED
    BY <1>1, InputsTyped, PTL

-----------------------------------------------------------------------------
(* The heatmap of a week                                                   *)

slot  == Config.slot_minutes
begin == Config.start_minute
Rows  == Slots(Config)
Cols  == SysDays(LastDate) - SysDays(FirstDate) + 1

\* A valid configuration is cut into whole slots.
LEMMA ConfigFacts ==
    /\ slot \in {15, 30, 60} /\ begin \in Nat /\ Config.end_minute \in Nat
    /\ Rows \in Nat \ {0}
    /\ begin + Rows * slot = Config.end_minute
<1> DEFINE length == Config.end_minute - Config.start_minute
<1>1. /\ slot \in {15, 30, 60} /\ begin \in Nat /\ Config.end_minute \in Nat
      /\ length \in Nat /\ length > 0 /\ length % slot = 0
      /\ Config.end_minute = begin + length
  <2>1. is_valid_calendar_config(Config)
      BY WeekPlanAssumption DEF ValidHeatmapInput, Calendar
  <2>2. Config.start_minute \in Int /\ Config.end_minute \in Int
      BY WeekPlanAssumption
  <2>3. /\ slot \in {15, 30, 60} /\ length % slot = 0 /\ begin >= 0
        /\ begin < Config.end_minute
      BY <2>1 DEF is_valid_calendar_config, slot, begin
  <2>4. begin \in Int /\ length = Config.end_minute - begin
      BY <2>2 DEF begin
  <2> HIDE DEF length
  <2> QED
      BY <2>2, <2>3, <2>4
<1>2. Rows = length \div slot
    BY DEF Rows, Slots, slot
<1> HIDE DEF length
<1>3. CASE slot = 15
    BY <1>1, <1>2, <1>3
<1>4. CASE slot = 30
    BY <1>1, <1>2, <1>4
<1>5. CASE slot = 60
    BY <1>1, <1>2, <1>5
<1> QED
    BY <1>1, <1>3, <1>4, <1>5

\* The dates of a week are counted by their days.
LEMMA DateFacts ==
    /\ Cols \in Nat \ {0}
    /\ SysDays(FirstDate) \in Int
    /\ \A q \in Int : SysDays([FirstDate EXCEPT !.day = @ + q]) = SysDays(FirstDate) + q
    /\ [FirstDate EXCEPT !.day = @ + 0] = FirstDate
    /\ [FirstDate EXCEPT !.day = @ + (Cols - 1)] = LastDate
<1> DEFINE m == [year |-> FirstDate.year, month |-> FirstDate.month]
           a == FirstDate.day
           b == LastDate.day
           base == SysDays(FirstDay(m))
           At(d) == [year |-> m.year, month |-> m.month, day |-> d]
<1>1. /\ FirstDate \in [year : Int, month : Int, day : Int]
      /\ LastDate \in [year : Int, month : Int, day : Int]
      /\ FirstDate.year = LastDate.year /\ FirstDate.month = LastDate.month
      /\ FirstDate.month \in 1..12 /\ YearOk(FirstDate.year)
      /\ DateLeq(FirstDate, LastDate)
    BY WeekPlanAssumption DEF ValidHeatmapInput, is_date_in_month, DateOk
<1>2. a \in Int /\ b \in Int /\ a <= b
    BY <1>1 DEF DateLeq, DateKey
<1>3. m.year \in Int /\ MonthOk(m)
    BY <1>1 DEF MonthOk
<1>4. base \in Int /\ \A d \in Int : SysDays(At(d)) = base + d - 1
    BY <1>3, DaysOfMonth
<1>5. FirstDate = At(a) /\ LastDate = At(b)
    BY <1>1
<1>6. \A q : [FirstDate EXCEPT !.day = @ + q] = At(a + q)
    BY <1>1
<1> HIDE DEF m, a, b, At, base
<1>7. SysDays(FirstDate) = base + a - 1 /\ SysDays(LastDate) = base + b - 1
    BY <1>2, <1>4, <1>5
<1>8. Cols = b - a + 1
    BY <1>2, <1>4, <1>7 DEF Cols
<1>9. ASSUME NEW q \in Int PROVE SysDays([FirstDate EXCEPT !.day = @ + q]) = SysDays(FirstDate) + q
  <2>1. SysDays(At(a + q)) = base + (a + q) - 1
      BY <1>2, <1>4
  <2> QED
      BY <1>2, <1>4, <1>6, <1>7, <2>1
<1>10. a + 0 = a /\ a + (Cols - 1) = b /\ Cols \in Nat \ {0}
    BY <1>2, <1>8
<1>11. [FirstDate EXCEPT !.day = @ + 0] = FirstDate
  <2>1. [FirstDate EXCEPT !.day = @ + 0] = At(a + 0)
      BY <1>6
  <2> QED
      BY <1>5, <1>10, <2>1
<1>12. [FirstDate EXCEPT !.day = @ + (Cols - 1)] = LastDate
  <2>1. [FirstDate EXCEPT !.day = @ + (Cols - 1)] = At(a + (Cols - 1))
      BY <1>6
  <2> QED
      BY <1>5, <1>10, <2>1
<1> QED
    BY <1>2, <1>4, <1>7, <1>9, <1>10, <1>11, <1>12

\* Division with remainder by any divisor; quotient and remainder are unique.
LEMMA DivFacts ==
    ASSUME NEW n \in Nat \ {0}, NEW a \in Nat
    PROVE  /\ a \div n \in Nat /\ a % n \in 0..(n - 1)
           /\ a = n * (a \div n) + (a % n)
    OBVIOUS

LEMMA DivUnique ==
    ASSUME NEW n \in Nat \ {0}, NEW q \in Nat, NEW r \in 0..(n - 1)
    PROVE  (n * q + r) \div n = q /\ (n * q + r) % n = r
    OBVIOUS

Col(k) == (k - 1) \div Rows
Row(k) == (k - 1) % Rows

\* The k-th cell is the slot Row(k) of the day Col(k).
LEMMA CellIndex ==
    ASSUME NEW k \in 1..(Cols * Rows)
    PROVE  /\ Col(k) \in 0..(Cols - 1) /\ Row(k) \in 0..(Rows - 1)
           /\ k - 1 = Rows * Col(k) + Row(k)
<1> DEFINE n == Rows
           c == Cols
           q == Col(k)
           r == Row(k)
<1>1. n \in Nat \ {0} /\ c \in Nat \ {0}
    BY ConfigFacts, DateFacts
<1>2. k - 1 \in Nat /\ k - 1 < c * n
    BY <1>1
<1>3. q \in Nat /\ r \in 0..(n - 1) /\ k - 1 = n * q + r
    BY <1>1, <1>2, DivFacts DEF Col, Row
<1> HIDE DEF n, c, q, r
<1>4. q < c
  <2> SUFFICES ASSUME q >= c PROVE FALSE
      BY <1>1, <1>3
  <2>1. n * q >= n * c
      BY <1>1, <1>3
  <2>2. n * c = c * n /\ n * c \in Int /\ n * q \in Int
      BY <1>1, <1>3
  <2> QED
      BY <1>1, <1>2, <1>3, <2>1, <2>2
<1> QED
    BY <1>1, <1>3, <1>4 DEF q, r, n, c

\* The cell before a cell is the one before it on its day, or the last one of
\* the day before.
LEMMA CellBefore ==
    ASSUME NEW k \in 1..(Cols * Rows), k > 1
    PROVE  /\ k - 1 \in 1..(Cols * Rows)
           /\ Row(k) > 0 => Col(k - 1) = Col(k) /\ Row(k - 1) = Row(k) - 1
           /\ Row(k) = 0 => Col(k - 1) = Col(k) - 1 /\ Row(k - 1) = Rows - 1
<1> DEFINE n == Rows
           q == Col(k)
           r == Row(k)
<1>1. n \in Nat \ {0} /\ Cols * Rows \in Nat
    BY ConfigFacts, DateFacts
<1>2. q \in Nat /\ r \in 0..(n - 1) /\ k - 1 = n * q + r
    BY <1>1, CellIndex, DateFacts
<1>3. k - 1 \in 1..(Cols * Rows)
    BY <1>1
<1> HIDE DEF q, r, n
<1>4. ASSUME r > 0 PROVE (k - 1 - 1) \div n = q /\ (k - 1 - 1) % n = r - 1
  <2>1. r - 1 \in 0..(n - 1) /\ k - 1 - 1 = n * q + (r - 1)
      BY <1>1, <1>2, <1>4
  <2>2. (n * q + (r - 1)) \div n = q /\ (n * q + (r - 1)) % n = r - 1
      BY <1>1, <1>2, <2>1, DivUnique
  <2> QED
      BY <2>1, <2>2
<1>5. ASSUME r = 0 PROVE (k - 1 - 1) \div n = q - 1 /\ (k - 1 - 1) % n = n - 1
  <2>1. q # 0
      BY <1>1, <1>2, <1>5
  <2>2. q - 1 \in Nat /\ n - 1 \in 0..(n - 1)
      BY <1>1, <1>2, <2>1
  <2>3. n * q = n * (q - 1) + n
      BY <1>1, <1>2
  <2>4. n * (q - 1) \in Int /\ k - 1 - 1 = n * (q - 1) + (n - 1)
      BY <1>1, <1>2, <1>5, <2>3
  <2> QED
      BY <1>1, <2>2, <2>4, DivUnique
<1> QED
    BY <1>3, <1>4, <1>5 DEF q, r, n, Col, Row

\* The cells that aggregate_week makes, by day and slot.
LEMMA CellsAre ==
    /\ Cols * Rows \in Nat
    /\ DOMAIN Map.cells = 1..(Cols * Rows) /\ Len(Map.cells) = Cols * Rows
    /\ \A k \in 1..(Cols * Rows) :
         /\ Map.cells[k].date = [FirstDate EXCEPT !.day = @ + Col(k)]
         /\ Map.cells[k].start = begin + Row(k) * slot
         /\ Map.cells[k].end = begin + Row(k) * slot + slot
         /\ Map.cells[k].count
              = available_count(Calendar, intervals, Map.cells[k].date, Row(k))
<1> DEFINE days == Days(FirstDate, LastDate)
           cell(k) ==
              [date  |-> days[Col(k) + 1],
               start |-> SlotStart(Config, Row(k)),
               end   |-> SlotStart(Config, Row(k)) + slot,
               count |-> available_count(Calendar, intervals, days[Col(k) + 1], Row(k))]
<1>1. Cols * Rows \in Nat
  <2>1. Cols \in Nat
      BY DateFacts
  <2>2. Rows \in Nat
      BY ConfigFacts
  <2> QED
      BY <2>1, <2>2
<1>2. days = [n \in 1..Cols |-> [FirstDate EXCEPT !.day = @ + n - 1]]
    BY DEF Days, Cols
<1>3. Len(days) = Cols
    BY <1>2, DateFacts
<1>4. Map.cells = [k \in 1..(Cols * Rows) |-> cell(k)]
    BY <1>3 DEF Map, aggregate_week, Calendar, Rows, Row, Col, slot
<1>5. ASSUME NEW k \in 1..(Cols * Rows)
      PROVE  days[Col(k) + 1] = [FirstDate EXCEPT !.day = @ + Col(k)]
  <2>1. Col(k) \in 0..(Cols - 1) /\ Cols \in Nat
      BY CellIndex, DateFacts
  <2>2. Col(k) + 1 \in 1..Cols
      BY <2>1
  <2>3. FirstDate.day \in Int
      BY WeekPlanAssumption
  <2>4. FirstDate.day + (Col(k) + 1) - 1 = FirstDate.day + Col(k)
      BY <2>1, <2>3
  <2> QED
      BY <1>2, <2>2, <2>4
<1> HIDE DEF days
<1> QED
    BY <1>1, <1>4, <1>5 DEF SlotStart, begin, slot

\* They tile the week.
LEMMA CellsTiled == CellsTile(Map.cells)
<1> DEFINE cells == Map.cells
           size  == Cols * Rows
           Date(q) == [FirstDate EXCEPT !.day = @ + q]
<1>1. /\ slot \in {15, 30, 60} /\ begin \in Nat /\ Config.end_minute \in Nat
      /\ Rows \in Nat \ {0} /\ begin + Rows * slot = Config.end_minute
    BY ConfigFacts
<1>2. /\ Cols \in Nat \ {0}
      /\ \A q \in Int : SysDays(Date(q)) = SysDays(FirstDate) + q
      /\ Date(0) = FirstDate /\ Date(Cols - 1) = LastDate
    BY DateFacts
<1>3. /\ size \in Nat /\ DOMAIN cells = 1..size /\ Len(cells) = size
      /\ \A k \in 1..size : /\ cells[k].date = Date(Col(k))
                            /\ cells[k].start = begin + Row(k) * slot
                            /\ cells[k].end = begin + Row(k) * slot + slot
    BY CellsAre
<1>4. \A k \in 1..size : Col(k) \in 0..(Cols - 1) /\ Row(k) \in 0..(Rows - 1)
    BY CellIndex
<1>5. size >= 1
    BY <1>1, <1>2
<1>6. Col(1) = 0 /\ Row(1) = 0
  <2>1. 1 - 1 = Rows * 0 + 0 /\ 0 \in 0..(Rows - 1)
      BY <1>1
  <2> QED
      BY <1>1, <2>1, DivUnique DEF Col, Row
<1>7. Col(size) = Cols - 1
  <2>1. size - 1 = Rows * (Cols - 1) + (Rows - 1)
      BY <1>1, <1>2
  <2>2. Cols - 1 \in Nat /\ Rows - 1 \in 0..(Rows - 1)
      BY <1>1, <1>2
  <2>3. (Rows * (Cols - 1) + (Rows - 1)) \div Rows = Cols - 1
      BY <1>1, <2>2, DivUnique
  <2> QED
      BY <2>1, <2>3 DEF Col
<1>8. \A k \in 1..size : k > 1 =>
         /\ k - 1 \in 1..size
         /\ Row(k) > 0 => Col(k - 1) = Col(k) /\ Row(k - 1) = Row(k) - 1
         /\ Row(k) = 0 => Col(k - 1) = Col(k) - 1 /\ Row(k - 1) = Rows - 1
    BY CellBefore
<1>9. SysDays(FirstDate) \in Int
    BY DateFacts
<1> HIDE DEF cells, size, Date
<1>10. cells[1].date = FirstDate /\ cells[Len(cells)].date = LastDate
    BY <1>2, <1>3, <1>5, <1>6, <1>7
<1>11. ASSUME NEW k \in 1..size, Row(k) > 0
       PROVE  k > 1 /\ cells[k - 1].date = cells[k].date /\ cells[k].start = cells[k - 1].end
  <2>1. k > 1
      BY <1>3, <1>6, <1>11
  <2>2. k - 1 \in 1..size /\ Col(k - 1) = Col(k) /\ Row(k - 1) = Row(k) - 1
      BY <1>8, <1>11, <2>1
  <2>3. (Row(k) - 1) * slot + slot = Row(k) * slot
      BY <1>1, <1>4
  <2>4. (Row(k) - 1) * slot \in Int
      BY <1>1, <1>4
  <2> QED
      BY <1>1, <1>3, <2>1, <2>2, <2>3, <2>4
<1>12. ASSUME NEW k \in 1..size, Row(k) = 0
       PROVE  /\ cells[k].start = begin
              /\ k > 1 => /\ cells[k - 1].end = Config.end_minute
                          /\ SysDays(cells[k].date) = SysDays(cells[k - 1].date) + 1
                          /\ cells[k - 1].date # cells[k].date
  <2>1. cells[k].start = begin
      BY <1>1, <1>3, <1>12
  <2>2. ASSUME k > 1
        PROVE  /\ cells[k - 1].end = Config.end_minute
               /\ SysDays(cells[k].date) = SysDays(cells[k - 1].date) + 1
    <3>1. k - 1 \in 1..size /\ Col(k - 1) = Col(k) - 1 /\ Row(k - 1) = Rows - 1
        BY <1>8, <1>12, <2>2
    <3>2. (Rows - 1) * slot + slot = Rows * slot /\ (Rows - 1) * slot \in Int
        BY <1>1
    <3>3. cells[k - 1].end = begin + (Rows - 1) * slot + slot
        BY <1>3, <3>1
    <3>4. cells[k - 1].end = Config.end_minute
        BY <1>1, <3>2, <3>3
    <3>5. Col(k) \in Int /\ Col(k) - 1 \in Int
        BY <1>2, <1>4
    <3>6. /\ SysDays(cells[k].date) = SysDays(FirstDate) + Col(k)
          /\ SysDays(cells[k - 1].date) = SysDays(FirstDate) + (Col(k) - 1)
        BY <1>2, <1>3, <3>1, <3>5
    <3> QED
        BY <1>9, <3>4, <3>5, <3>6
  <2>3. ASSUME k > 1 PROVE cells[k - 1].date # cells[k].date
    <3>1. k - 1 \in 1..size /\ Col(k - 1) \in Int
        BY <1>2, <1>4, <1>8, <2>3
    <3>2. SysDays(cells[k - 1].date) \in Int
      <4> DEFINE c == Col(k - 1)
      <4>1. cells[k - 1].date = Date(c) /\ c \in Int
          BY <1>3, <3>1
      <4> HIDE DEF c
      <4>2. SysDays(Date(c)) = SysDays(FirstDate) + c
          BY <1>2, <4>1
      <4> QED
          BY <1>9, <4>1, <4>2
    <3> QED
        BY <2>2, <2>3, <3>2
  <2> QED
      BY <2>1, <2>2, <2>3
<1>13. ASSUME NEW k \in DOMAIN cells
       PROVE  IF k > 1 /\ cells[k - 1].date = cells[k].date
              THEN cells[k].start = cells[k - 1].end
              ELSE /\ cells[k].start = Config.start_minute
                   /\ k > 1 => /\ cells[k - 1].end = Config.end_minute
                               /\ SysDays(cells[k].date) = SysDays(cells[k - 1].date) + 1
  <2>1. k \in 1..size
      BY <1>3
  <2>2. CASE Row(k) > 0
      BY <1>11, <2>1, <2>2
  <2>3. CASE Row(k) = 0
      BY <1>12, <2>1, <2>3 DEF begin
  <2>4. Row(k) > 0 \/ Row(k) = 0
      BY <1>1, <1>4, <2>1
  <2> QED
      BY <2>2, <2>3, <2>4
<1> QED
    BY <1>10, <1>13 DEF CellsTile, cells

\* A span in whole slots that touches a slot holds all of it.
LEMMA TouchesIsCovers ==
    ASSUME NEW s \in Offered, NEW i \in Nat, NEW x, x = begin + i * slot,
           NEW v, v.span = s, SlotStart(Config, i) = x
    PROVE  /\ s.start \in Int /\ s.end \in Int /\ x \in Int
           /\ Covers(Config, v, i) <=> s.start < x + slot /\ s.end > x
           /\ Covers(Config, v, i) <=> s.start <= x /\ x + slot <= s.end
<1>1. /\ s.start \in begin..Config.end_minute /\ s.end \in begin..Config.end_minute
      /\ (s.start - begin) % slot = 0 /\ (s.end - begin) % slot = 0
    BY WeekPlanAssumption DEF Aligned, begin, slot
<1>2. slot \in {15, 30, 60} /\ begin \in Nat /\ Config.end_minute \in Nat
    BY ConfigFacts
<1>3. /\ s.start \in Int /\ s.end \in Int /\ s.start >= begin
      /\ s.end <= Config.end_minute
    BY <1>1, <1>2
<1>4. Covers(Config, v, i) <=> s.start < x + slot /\ s.end > x
    BY <1>2, <1>3 DEF Covers, Greatest, Least, begin, slot
<1>5. x \in Int
    BY <1>2
<1>6. (s.start < x + slot /\ s.end > x) <=> (s.start <= x /\ x + slot <= s.end)
  <2>1. CASE slot = 15
      BY <1>1, <1>2, <1>3, <2>1
  <2>2. CASE slot = 30
      BY <1>1, <1>2, <1>3, <2>2
  <2>3. CASE slot = 60
      BY <1>1, <1>2, <1>3, <2>3
  <2> QED
      BY <1>2, <2>1, <2>2, <2>3
<1> QED
    BY <1>3, <1>4, <1>5, <1>6

\* The members who are free from one minute to another.
FreeMembers(date, from, to) ==
    {p \in Members : \A m \in from..(to - 1) : Free(p, date, m)}

\* The count of a cell, whatever intervals overlap or meet its edges.
LEMMA CountsMembers ==
    ASSUME intervals \subseteq Interval, NEW date, NEW i \in Nat
    PROVE  available_count(Calendar, intervals, date, i)
             = Cardinality(FreeMembers(date, begin + i * slot, begin + i * slot + slot))
<1> DEFINE x == begin + i * slot
           Counted == {v \in intervals : /\ v.calendar = Calendar.id
                                         /\ v.date = date
                                         /\ Covers(Calendar.config, v, i)}
           Whole(p) == \A m \in x..((x + slot) - 1) : Free(p, date, m)
<1>1. x \in Int /\ slot \in Nat /\ slot > 0
    BY ConfigFacts
<1>2. Calendar.id = 1 /\ Calendar.config = Config
    BY DEF Calendar
<1>3. ASSUME NEW v \in intervals, v.calendar = 1
      PROVE  /\ v.participant \in Members /\ v.span.start \in Int /\ v.span.end \in Int
             /\ Covers(Config, v, i) <=> v.span.start <= x /\ x + slot <= v.span.end
  <2>1. v.participant \in Members /\ v.span \in Offered
      BY <1>3 DEF Interval
  <2>2. SlotStart(Config, i) = x
      BY DEF SlotStart, begin, slot
  <2> QED
      BY <2>1, <2>2, TouchesIsCovers
<1> HIDE DEF x
<1>4. ASSUME NEW v \in Counted PROVE v.participant \in Members /\ Whole(v.participant)
  <2>1. /\ v \in intervals /\ v.calendar = 1 /\ v.date = date /\ Covers(Config, v, i)
      BY <1>2
  <2>2. /\ v.participant \in Members /\ v.span.start \in Int /\ v.span.end \in Int
        /\ v.span.start <= x /\ x + slot <= v.span.end
      BY <1>3, <2>1
  <2>3. ASSUME NEW m \in x..((x + slot) - 1) PROVE Free(v.participant, date, m)
    <3>1. v.span.start <= m /\ m < v.span.end
        BY <1>1, <2>2
    <3> QED
        BY <1>2, <2>1, <3>1 DEF Free
  <2> QED
      BY <2>2, <2>3
<1>5. ASSUME NEW p \in Members, Whole(p) PROVE \E v \in Counted : v.participant = p
  <2> SUFFICES \E v \in intervals : /\ v.calendar = 1 /\ v.date = date
                                     /\ Covers(Config, v, i) /\ v.participant = p
      BY <1>2
  <2>1. x \in x..((x + slot) - 1)
      BY <1>1
  <2>2. PICK v \in intervals : /\ v.calendar = 1 /\ v.participant = p /\ v.date = date
                               /\ v.span.start <= x /\ x < v.span.end
      BY <1>2, <1>5, <2>1 DEF Free
  <2>3. Covers(Config, v, i)
    <3>1. SlotStart(Config, i) = x
        BY DEF SlotStart, begin, slot, x
    <3>2. v.span \in Offered
        BY <2>2 DEF Interval
    <3>3. /\ v.span.start \in Int /\ v.span.end \in Int
          /\ Covers(Config, v, i) <=> v.span.start < x + slot /\ v.span.end > x
        BY <1>1, <3>1, <3>2, TouchesIsCovers DEF x
    <3> QED
        BY <1>1, <2>2, <3>3
  <2> QED
      BY <2>2, <2>3
<1>6. \A p : p \in FreeMembers(date, x, x + slot) <=> p \in Members /\ Whole(p)
    BY Zenon DEF FreeMembers
<1> HIDE DEF Counted, Whole
<1>7. {v.participant : v \in Counted} = FreeMembers(date, x, x + slot)
    BY <1>4, <1>5, <1>6
<1>8. available_count(Calendar, intervals, date, i)
        = Cardinality({v.participant : v \in Counted})
    BY DEF available_count, Counted
<1> QED
    BY <1>7, <1>8 DEF x

\* The property of one set of intervals.
LEMMA WholeSlotsCounted ==
    ASSUME intervals \subseteq Interval
    PROVE  CellsCountWholeSlots
<1> DEFINE cells == Map.cells
           right(c) == c.count = Cardinality(FreeMembers(c.date, c.start, c.end))
<1>1. ASSUME NEW k \in 1..(Cols * Rows) PROVE right(cells[k])
  <2>1. Row(k) \in Nat
    <3>1. Row(k) \in 0..(Rows - 1) /\ Rows \in Nat
        BY CellIndex, ConfigFacts
    <3> QED
        BY <3>1
  <2>2. /\ cells[k].start = begin + Row(k) * slot
        /\ cells[k].end = begin + Row(k) * slot + slot
        /\ cells[k].count = available_count(Calendar, intervals, cells[k].date, Row(k))
      BY CellsAre
  <2>3. \A date : available_count(Calendar, intervals, date, Row(k))
                = Cardinality(FreeMembers(date, begin + Row(k) * slot,
                                          begin + Row(k) * slot + slot))
      BY <2>1, CountsMembers
  <2> HIDE DEF cells
  <2> QED
      BY <2>2, <2>3
<1>2. \A c \in Range(cells) : right(c)
  <2>1. DOMAIN cells = 1..(Cols * Rows)
      BY CellsAre
  <2> HIDE DEF cells, right
  <2> QED
      BY <1>1, <2>1 DEF Range
<1> HIDE DEF cells
<1> QED
    BY <1>2, CellsTiled DEF CellsCountWholeSlots, FreeMembers, cells

\* Every cell of the heatmap counts exactly the members who are free in every
\* minute of its slot, and the cells tile the week, for any valid configuration,
\* any week of its month and any intervals in whole slots (aggregate_week).
THEOREM HeatmapCountsSlots == MCSpec => []CellsCountWholeSlots
<1>1. InputOK => CellsCountWholeSlots
    BY WholeSlotsCounted DEF InputOK
<1> QED
    BY <1>1, InputsTyped, PTL

-----------------------------------------------------------------------------
(* Finite sets: what stands in for induction over them, their order, and   *)
(* sums                                                                    *)

\* A set of finite sets has a member none of whose elements can be taken away.
LEMMA SmallestSubset ==
    ASSUME NEW D, IsFiniteSet(D), NEW T \in SUBSET (SUBSET D), T # {}
    PROVE  \E s \in T : \A x \in s : s \ {x} \notin T
<1> DEFINE Sizes == {Cardinality(s) : s \in T}
<1>1. ASSUME NEW s \in T PROVE IsFiniteSet(s) /\ Cardinality(s) \in Nat
    BY FS_Subset, FS_CardinalityType
<1>2. Sizes \in SUBSET Nat /\ Sizes # {}
    BY <1>1
<1>3. \A s \in T : Cardinality(s) \in Sizes
    OBVIOUS
<1>4. \A n \in Sizes : \E s \in T : Cardinality(s) = n
    OBVIOUS
<1> HIDE DEF Sizes
<1>5. PICK n \in Sizes : \A k \in Sizes : n <= k
    BY <1>2, LeastNatural
<1>6. PICK s \in T : Cardinality(s) = n
    BY <1>4
<1>7. ASSUME NEW x \in s PROVE s \ {x} \notin T
  <2>1. Cardinality(s \ {x}) = n - 1
      BY <1>1, <1>6, FS_RemoveElement
  <2>2. n \in Nat
      BY <1>2
  <2> QED
      BY <1>3, <1>5, <2>1, <2>2
<1> QED
    BY <1>7

\* R orders the elements of S strictly and totally.
TotalOrder(S, R) ==
    /\ \A x \in S : <<x, x>> \notin R
    /\ \A x, y \in S : x # y => <<x, y>> \in R \/ <<y, x>> \in R
    /\ \A x, y, z \in S : <<x, y>> \in R /\ <<y, z>> \in R => <<x, z>> \in R

\* The number of elements before x.
Before(S, R, x) == Cardinality({y \in S : <<y, x>> \in R})

\* In a finite set these are the numbers from 0 on, each of one element.
LEMMA OrderCounts ==
    ASSUME NEW S, IsFiniteSet(S), NEW R, TotalOrder(S, R)
    PROVE  /\ Cardinality(S) \in Nat
           /\ \A x \in S : Before(S, R, x) \in 0..(Cardinality(S) - 1)
           /\ \A x, y \in S : <<x, y>> \in R <=> Before(S, R, x) < Before(S, R, y)
           /\ \A n \in 0..(Cardinality(S) - 1) : \E x \in S : Before(S, R, x) = n
<1> DEFINE N == Cardinality(S)
           low(x) == {y \in S : <<y, x>> \in R}
           b == [x \in S |-> Before(S, R, x)]
           T == Range(b)
<1>1. N \in Nat
    BY FS_CardinalityType
<1>2. ASSUME NEW x \in S
      PROVE  IsFiniteSet(low(x)) /\ Before(S, R, x) = Cardinality(low(x))
             /\ Before(S, R, x) \in Nat /\ low(x) \in SUBSET S
  <2>1. low(x) \in SUBSET S
      OBVIOUS
  <2> HIDE DEF low
  <2>2. IsFiniteSet(low(x)) /\ Cardinality(low(x)) \in Nat
      BY <2>1, FS_Subset, FS_CardinalityType
  <2> QED
      BY <2>1, <2>2 DEF Before, low
<1>3. ASSUME NEW x \in S PROVE Before(S, R, x) \in 0..(N - 1)
  <2>1. x \notin low(x)
      BY DEF TotalOrder
  <2>2. low(x) \in SUBSET S
      OBVIOUS
  <2> HIDE DEF low
  <2>3. Cardinality(low(x)) <= N /\ (N = Cardinality(low(x)) => S = low(x))
      BY <2>2, FS_Subset
  <2>4. Cardinality(low(x)) # N
      BY <2>1, <2>3
  <2> QED
      BY <1>1, <1>2, <2>3, <2>4
<1>4. ASSUME NEW x \in S, NEW y \in S, <<x, y>> \in R
      PROVE  Before(S, R, x) < Before(S, R, y)
  <2>1. low(x) \subseteq low(y) /\ x \in low(y) /\ x \notin low(x)
      BY <1>4 DEF TotalOrder
  <2> HIDE DEF low
  <2>2. /\ Cardinality(low(x)) <= Cardinality(low(y))
        /\ Cardinality(low(y)) = Cardinality(low(x)) => low(y) = low(x)
      BY <1>2, <2>1, FS_Subset
  <2> QED
      BY <1>2, <2>1, <2>2
<1>5. ASSUME NEW x \in S, NEW y \in S, Before(S, R, x) < Before(S, R, y)
      PROVE  <<x, y>> \in R
  <2> DEFINE i == Before(S, R, x)
             j == Before(S, R, y)
  <2>1. i \in Nat /\ j \in Nat /\ i < j
      BY <1>2, <1>5
  <2>2. <<y, x>> \in R => j < i
      BY <1>4
  <2>3. x = y => i = j
      OBVIOUS
  <2> HIDE DEF i, j
  <2>4. ~(<<y, x>> \in R) /\ x # y
      BY <2>1, <2>2, <2>3
  <2> QED
      BY <2>4 DEF TotalOrder
<1>6. T = 0..(N - 1)
  <2>1. \A x, y \in S : b[x] = b[y] => x = y
    <3> SUFFICES ASSUME NEW x \in S, NEW y \in S, b[x] = b[y], x # y PROVE FALSE
        OBVIOUS
    <3> DEFINE i == Before(S, R, x)
               j == Before(S, R, y)
    <3>1. i \in Nat /\ j \in Nat /\ i = j
        BY <1>2
    <3>2. i < j \/ j < i
        BY <1>4 DEF TotalOrder
    <3> HIDE DEF i, j
    <3> QED
        BY <3>1, <3>2
  <2>2. b \in [S -> 0..(N - 1)]
      BY <1>3
  <2> HIDE DEF b
  <2>3. b \in Injection(S, 0..(N - 1))
      BY <2>1, <2>2, Fun_IsInj
  <2>4. IsFiniteSet(0..(N - 1)) /\ Cardinality(0..(N - 1)) = N
      BY <1>1, FS_Interval
  <2>5. b \in Surjection(S, 0..(N - 1))
      BY <2>3, <2>4, FS_Injection
  <2> QED
      BY <2>5, Fun_SurjectionProperties
<1>7. \A n \in 0..(N - 1) : \E x \in S : Before(S, R, x) = n
    BY <1>6 DEF Range
<1> QED
    BY <1>1, <1>3, <1>4, <1>5, <1>7

\* A function on the subsets of a finite set that takes out one element after
\* the other exists: what the folds of the model are.
Foldable(D, V, base, c, op) ==
    /\ IsFiniteSet(D) /\ base \in V /\ op \in [D \X V -> V]
    /\ \A s \in SUBSET D : s # {} => c[s] \in s

IsFold(g, D, V, base, c, op) ==
    /\ g \in [SUBSET D -> V]
    /\ \A s \in SUBSET D :
          g[s] = IF s = {} THEN base ELSE op[<<c[s], g[s \ {c[s]}]>>]

\* The closed form of each size gives that of the next.
LEMMA FoldExists ==
    ASSUME NEW D, NEW V, NEW base, NEW c, NEW op, Foldable(D, V, base, c, op)
    PROVE  \E g : IsFold(g, D, V, base, c, op)
<1>0. /\ IsFiniteSet(D) /\ base \in V /\ op \in [D \X V -> V]
      /\ \A s \in SUBSET D : s # {} => c[s] \in s
    BY DEF Foldable
<1> DEFINE Small(n) == {s \in SUBSET D : Cardinality(s) <= n}
           Eq(g, h, s) == h[s] = IF s = {} THEN base ELSE op[<<c[s], g[s \ {c[s]}]>>]
           Ok(n) == \E g \in [Small(n) -> V] : \A s \in Small(n) : Eq(g, g, s)
           T == {n \in Nat : ~Ok(n)}
<1>1. ASSUME NEW s \in SUBSET D PROVE IsFiniteSet(s) /\ Cardinality(s) \in Nat
    BY <1>0, FS_Subset, FS_CardinalityType
<1>2. Ok(0)
  <2> DEFINE g == [s \in Small(0) |-> base]
  <2>1. \A s \in Small(0) : s = {}
    <3> SUFFICES ASSUME NEW s \in Small(0) PROVE s = {}
        OBVIOUS
    <3>1. Cardinality(s) = 0
        BY <1>1
    <3> QED
        BY <1>1, <3>1, FS_EmptySet
  <2> HIDE DEF Small
  <2>2. g \in [Small(0) -> V] /\ \A s \in Small(0) : Eq(g, g, s)
      BY <1>0, <2>1
  <2> QED
      BY <2>2
<1>3. ASSUME NEW n \in Nat, Ok(n) PROVE Ok(n + 1)
  <2>1. PICK g \in [Small(n) -> V] : \A s \in Small(n) : Eq(g, g, s)
      BY <1>3
  <2> DEFINE value(s) == IF s = {} THEN base ELSE op[<<c[s], g[s \ {c[s]}]>>]
             h == [s \in Small(n + 1) |-> value(s)]
  <2>2. ASSUME NEW s \in Small(n + 1), s # {}
        PROVE  c[s] \in s /\ c[s] \in D /\ s \ {c[s]} \in Small(n)
    <3>1. s \in SUBSET D /\ c[s] \in s /\ Cardinality(s) <= n + 1
        BY <1>0, <2>2
    <3>2. Cardinality(s \ {c[s]}) = Cardinality(s) - 1
        BY <1>1, <3>1, FS_RemoveElement
    <3>3. Cardinality(s) \in Nat
        BY <1>1
    <3> QED
        BY <3>1, <3>2, <3>3
  <2>3. \A s \in Small(n) : s \in Small(n + 1)
    <3> SUFFICES ASSUME NEW s \in Small(n) PROVE Cardinality(s) <= n + 1
        OBVIOUS
    <3> QED
        BY <1>1
  <2> HIDE DEF Small
  <2>4. \A s \in Small(n) : h[s] = g[s]
      BY <2>1, <2>3
  <2>5. \A s \in Small(n + 1) : value(s) \in V
      BY <1>0, <2>2
  <2>6. h \in [Small(n + 1) -> V]
      BY <2>5
  <2>7. ASSUME NEW s \in Small(n + 1) PROVE Eq(h, h, s)
    <3>1. s # {} => h[s \ {c[s]}] = g[s \ {c[s]}]
        BY <2>2, <2>4
    <3>2. h[s] = value(s)
        OBVIOUS
    <3> HIDE DEF h
    <3> QED
        BY <3>1, <3>2
  <2> QED
      BY <2>6, <2>7
<1>4. \A n \in Nat : Ok(n)
  <2> HIDE DEF Ok
  <2> SUFFICES ASSUME T # {} PROVE FALSE
      OBVIOUS
  <2>1. T \in SUBSET Nat
      OBVIOUS
  <2>2. PICK n \in T : \A k \in T : n <= k
    <3> HIDE DEF T
    <3> QED
        BY <2>1, LeastNatural
  <2>3. n \in Nat /\ ~Ok(n) /\ n # 0
      BY <1>2
  <2>4. n - 1 \in Nat /\ n - 1 + 1 = n /\ ~(n <= n - 1)
      BY <2>3
  <2>5. Ok(n - 1)
      BY <2>2, <2>4
  <2> QED
      BY <1>3, <2>3, <2>4, <2>5
<1>5. Small(Cardinality(D)) = SUBSET D
  <2> SUFFICES ASSUME NEW s \in SUBSET D PROVE Cardinality(s) <= Cardinality(D)
      OBVIOUS
  <2> QED
      BY <1>0, FS_Subset
<1>6. Ok(Cardinality(D))
    BY <1>0, <1>4, FS_CardinalityType
<1> QED
    BY <1>5, <1>6 DEF IsFold

\* The function that SumOf folds with, on every set of arguments.
SumTo(f) == CHOOSE g : g = [s \in SUBSET DOMAIN f |->
    IF s = {} THEN 0
    ELSE f[CHOOSE x \in s : TRUE] + g[s \ {CHOOSE x \in s : TRUE}]]

SumsUp(sum, f, D) ==
    /\ sum \in [SUBSET D -> Int]
    /\ sum[{}] = 0
    /\ \A s \in SUBSET D : s # {} => \E x \in s : sum[s] = f[x] + sum[s \ {x}]

\* SumOf is that function on the whole set.
LEMMA SumIsFold ==
    ASSUME NEW D, IsFiniteSet(D), NEW f \in [D -> Int]
    PROVE  SumOf(f) = SumTo(f)[D] /\ SumsUp(SumTo(f), f, D)
<1> DEFINE c == [s \in SUBSET D |-> CHOOSE x \in s : TRUE]
           op == [p \in D \X Int |-> f[p[1]] + p[2]]
           sum == SumTo(f)
           F(g) == [s \in SUBSET DOMAIN f |->
                       IF s = {} THEN 0
                       ELSE f[CHOOSE x \in s : TRUE] + g[s \ {CHOOSE x \in s : TRUE}]]
<1>1. DOMAIN f = D
    OBVIOUS
<1>2. \A s \in SUBSET D : s # {} => c[s] \in s /\ c[s] = CHOOSE x \in s : TRUE
    OBVIOUS
<1>3. op \in [D \X Int -> Int] /\ \A x \in D, n \in Int : op[<<x, n>>] = f[x] + n
    OBVIOUS
<1>4. PICK g : IsFold(g, D, Int, 0, c, op)
  <2>1. Foldable(D, Int, 0, c, op)
    <3> HIDE DEF c, op
    <3> QED
      BY <1>2, <1>3 DEF Foldable
  <2> HIDE DEF c, op
  <2> QED
      BY <2>1, FoldExists
<1>41. /\ g \in [SUBSET D -> Int]
       /\ \A s \in SUBSET D :
             g[s] = IF s = {} THEN 0 ELSE op[<<c[s], g[s \ {c[s]}]>>]
    BY <1>4 DEF IsFold
<1>5. g = F(g)
  <2>1. ASSUME NEW s \in SUBSET D, s # {}
        PROVE  g[s] = f[CHOOSE x \in s : TRUE] + g[s \ {CHOOSE x \in s : TRUE}]
    <3>1. c[s] \in D /\ s \ {c[s]} \in SUBSET D
        BY <1>2, <2>1
    <3> HIDE DEF c, op
    <3>2. g[s] = f[c[s]] + g[s \ {c[s]}]
        BY <1>3, <1>41, <2>1, <3>1
    <3> QED
        BY <1>2, <2>1, <3>2
  <2>2. \A s \in SUBSET D : g[s] = F(g)[s]
      BY <1>1, <1>41, <2>1
  <2> QED
      BY <1>1, <1>41, <2>2
<1>6. sum = F(sum)
  <2>1. \E h : h = F(h)
      BY <1>5
  <2>2. sum = CHOOSE h : h = F(h)
      BY DEF SumTo
  <2> HIDE DEF sum, F
  <2> QED
      BY <2>1, <2>2
<1> HIDE DEF c, op, sum
<1>7. /\ \A s \in SUBSET D : s # {} =>
             c[s] \in s /\ sum[s] = f[c[s]] + sum[s \ {c[s]}]
      /\ sum[{}] = 0
      /\ DOMAIN sum = SUBSET D
  <2>1. sum = [s \in SUBSET D |-> IF s = {} THEN 0
                 ELSE f[CHOOSE x \in s : TRUE] + sum[s \ {CHOOSE x \in s : TRUE}]]
      BY <1>1, <1>6
  <2> HIDE DEF F
  <2> QED
      BY <1>2, <2>1
<1>8. \A s \in SUBSET D : sum[s] \in Int
  <2> DEFINE T == {s \in SUBSET D : sum[s] \notin Int}
  <2> SUFFICES ASSUME T # {} PROVE FALSE
      OBVIOUS
  <2>1. T \in SUBSET (SUBSET D)
      OBVIOUS
  <2>2. PICK s \in T : \A x \in s : s \ {x} \notin T
    <3> HIDE DEF T
    <3> QED
        BY <2>1, SmallestSubset
  <2>3. s \in SUBSET D /\ s # {}
    <3>1. sum[s] \notin Int /\ 0 \in Int
        OBVIOUS
    <3> QED
        BY <1>7, <3>1
  <2>4. c[s] \in s /\ sum[s] = f[c[s]] + sum[s \ {c[s]}]
      BY <1>7, <2>3
  <2>5. s \ {c[s]} \in SUBSET D /\ f[c[s]] \in Int
      BY <2>3, <2>4
  <2>6. sum[s \ {c[s]}] \in Int
      BY <2>2, <2>4, <2>5
  <2> QED
      BY <2>2, <2>4, <2>5, <2>6
<1>9. sum \in [SUBSET D -> Int]
  <2>1. sum = [s \in SUBSET D |-> sum[s]]
      BY <1>1, <1>6
  <2> QED
      BY <1>8, <2>1
<1>10. SumOf(f) = sum[D]
    BY <1>1 DEF SumOf, FoldFunction, FoldFunctionOnSet, MapThenFoldSet, sum, SumTo
<1> QED
    BY <1>7, <1>9, <1>10 DEF sum, SumsUp

\* A sum of integers is one.
LEMMA SumIsInt ==
    ASSUME NEW D, IsFiniteSet(D), NEW f \in [D -> Int]
    PROVE  SumOf(f) \in Int
<1>1. SumOf(f) = SumTo(f)[D] /\ SumsUp(SumTo(f), f, D) /\ D \in SUBSET D
    BY SumIsFold
<1> QED
    BY <1>1 DEF SumsUp

\* Whichever element is taken out, the sum is the same.
LEMMA SumTakesAny ==
    ASSUME NEW D, IsFiniteSet(D), NEW f \in [D -> Int]
    PROVE  \A s \in SUBSET D : \A x \in s :
              SumTo(f)[s] = f[x] + SumTo(f)[s \ {x}]
<1> DEFINE sum == SumTo(f)
           T == {s \in SUBSET D : \E x \in s : sum[s] # f[x] + sum[s \ {x}]}
<1>1. /\ \A s \in SUBSET D : sum[s] \in Int
      /\ \A s \in SUBSET D : s # {} => \E x \in s : sum[s] = f[x] + sum[s \ {x}]
  <2>1. SumsUp(sum, f, D)
      BY SumIsFold
  <2> HIDE DEF sum
  <2> QED
      BY <2>1 DEF SumsUp
<1> HIDE DEF sum
<1> SUFFICES ASSUME T # {} PROVE FALSE
    BY DEF sum
<1>2. T \in SUBSET (SUBSET D)
    OBVIOUS
<1>3. PICK s \in T : \A x \in s : s \ {x} \notin T
  <2> HIDE DEF T
  <2> QED
      BY <1>2, SmallestSubset
<1>4. PICK x \in s : sum[s] # f[x] + sum[s \ {x}]
    OBVIOUS
<1>5. PICK y \in s : sum[s] = f[y] + sum[s \ {y}]
    BY <1>1, <1>4
<1>6. x # y /\ x \in D /\ y \in D /\ x \in s \ {y} /\ y \in s \ {x}
    BY <1>4, <1>5
<1>7. s \ {y} \in SUBSET D /\ s \ {x} \in SUBSET D /\ s \ {x, y} \in SUBSET D
    OBVIOUS
<1>8. sum[s \ {y}] = f[x] + sum[(s \ {y}) \ {x}]
    BY <1>3, <1>6, <1>7
<1>9. sum[s \ {x}] = f[y] + sum[(s \ {x}) \ {y}]
    BY <1>3, <1>6, <1>7
<1>10. (s \ {y}) \ {x} = s \ {x, y} /\ (s \ {x}) \ {y} = s \ {x, y}
    OBVIOUS
<1>11. f[x] \in Int /\ f[y] \in Int /\ sum[s \ {x, y}] \in Int
    BY <1>1, <1>6, <1>7
<1>12. /\ sum[s \ {y}] = f[x] + sum[s \ {x, y}]
       /\ sum[s \ {x}] = f[y] + sum[s \ {x, y}]
    BY <1>8, <1>9, <1>10
<1> HIDE DEF T
<1> QED
    BY <1>4, <1>5, <1>11, <1>12

\* A sum does not depend on what its terms are numbered by.
LEMMA SumRenumbered ==
    ASSUME NEW D, IsFiniteSet(D), NEW E, IsFiniteSet(E), NEW h \in Bijection(D, E),
           NEW f \in [D -> Int], NEW g \in [E -> Int], \A x \in D : f[x] = g[h[x]]
    PROVE  SumOf(f) = SumOf(g) /\ SumOf(f) \in Int
<1> DEFINE a == SumTo(f)
           b == SumTo(g)
           img(s) == {h[x] : x \in s}
           T == {s \in SUBSET D : a[s] # b[img(s)]}
<1>1. /\ h \in [D -> E] /\ \A x, y \in D : h[x] = h[y] => x = y
      /\ \A y \in E : \E x \in D : h[x] = y
    BY Fun_BijectionProperties
<1>2. /\ SumOf(f) = a[D] /\ SumOf(g) = b[E] /\ a[{}] = 0 /\ b[{}] = 0
      /\ \A s \in SUBSET D : a[s] \in Int
  <2>1. SumOf(f) = a[D] /\ SumsUp(a, f, D) /\ SumOf(g) = b[E] /\ SumsUp(b, g, E)
      BY SumIsFold
  <2> HIDE DEF a, b
  <2> QED
      BY <2>1 DEF SumsUp
<1>3. /\ \A s \in SUBSET D : \A x \in s : a[s] = f[x] + a[s \ {x}]
      /\ \A s \in SUBSET E : \A x \in s : b[s] = g[x] + b[s \ {x}]
    BY SumTakesAny
<1> HIDE DEF a, b
<1>4. T = {}
  <2> SUFFICES ASSUME T # {} PROVE FALSE
      OBVIOUS
  <2>1. T \in SUBSET (SUBSET D)
      OBVIOUS
  <2>2. PICK s \in T : \A x \in s : s \ {x} \notin T
    <3> HIDE DEF T
    <3> QED
        BY <2>1, SmallestSubset
  <2>3. img({}) = {}
      OBVIOUS
  <2>4. s # {}
      BY <1>2, <2>3
  <2>5. PICK x \in s : TRUE
      BY <2>4
  <2>6. s \in SUBSET D /\ x \in D /\ s \ {x} \in SUBSET D
      OBVIOUS
  <2>7. img(s \ {x}) = img(s) \ {h[x]} /\ h[x] \in img(s) /\ img(s) \in SUBSET E
      BY <1>1, <2>6
  <2>8. a[s \ {x}] = b[img(s \ {x})]
      BY <2>2, <2>6
  <2>9. a[s] = f[x] + a[s \ {x}] /\ b[img(s)] = g[h[x]] + b[img(s) \ {h[x]}]
      BY <1>3, <2>6, <2>7
  <2>10. a[s] # b[img(s)]
      OBVIOUS
  <2> HIDE DEF img, T
  <2> QED
      BY <2>6, <2>7, <2>8, <2>9, <2>10
<1>5. img(D) = E
    BY <1>1
<1> QED
    BY <1>2, <1>4, <1>5

-----------------------------------------------------------------------------
(* The selection loop of rank_best_windows                                 *)

\* Numbers up to a bound have a greatest one.
LEMMA GreatestOf ==
    ASSUME NEW N \in Nat, NEW s \in SUBSET (1..N), s # {}
    PROVE  \E x \in s : \A y \in s : x >= y
<1> DEFINE T == {k \in Nat : \E x \in s : k = N - x}
<1>1. ASSUME NEW x \in s PROVE x \in Int /\ N - x \in T
    OBVIOUS
<1>2. T \in SUBSET Nat /\ T # {}
    BY <1>1
<1>3. PICK t \in T : \A u \in T : t <= u
  <2> HIDE DEF T
  <2> QED
      BY <1>2, LeastNatural
<1>4. PICK x \in s : t = N - x
    OBVIOUS
<1> HIDE DEF T
<1>5. ASSUME NEW y \in s PROVE x >= y
  <2>1. N - x <= N - y /\ x \in Int /\ y \in Int
      BY <1>1, <1>3, <1>4
  <2> QED
      BY <2>1
<1> QED
    BY <1>5

\* One round of the loop.
Select(limit, duration, selected, w) ==
    IF \/ limit > 0 /\ Len(selected) = limit
       \/ \E k \in DOMAIN selected : TooSimilar(selected[k], w, duration)
    THEN selected
    ELSE Append(selected, w)

\* What is selected after each round.
Rounds(sel, R, N, limit, duration) ==
    /\ sel[0] = << >>
    /\ \A n \in 1..N : sel[n] = Select(limit, duration, sel[n - 1], R[n])

\* The fold goes through the windows in their order.
LEMMA SelectionIsALoop ==
    ASSUME NEW map, NEW d, NEW limit, NEW C, NEW N \in Nat, NEW R \in [1..N -> C],
           R = Ordered(Candidates(map, d), RankOrder(Candidates(map, d)))
    PROVE  \E sel : /\ Rounds(sel, R, N, limit, d)
                    /\ rank_best_windows(map, d, limit) = sel[N]
<1> DEFINE D == 1..N
           V == Seq(C)
           top(s) == CHOOSE x \in s : \A y \in s : x >= y
           c == [s \in SUBSET D |-> top(s)]
           op == [p \in D \X V |-> Select(limit, d, p[2], R[p[1]])]
           F(g) == [s \in SUBSET DOMAIN R |->
                       IF s = {} THEN << >> ELSE Select(limit, d, g[s \ {top(s)}], R[top(s)])]
           iter == CHOOSE g : g = F(g)
<1>1. rank_best_windows(map, d, limit) = iter[DOMAIN R]
    BY DEF rank_best_windows, FoldLeft, MapThenFoldSet, Max, Select
<1>2. DOMAIN R = D
    OBVIOUS
<1>3. ASSUME NEW s \in SUBSET D, s # {}
      PROVE  top(s) \in s /\ \A y \in s : top(s) >= y
  <2>1. \E x \in s : \A y \in s : x >= y
      BY <1>3, GreatestOf
  <2> QED
      BY <2>1
<1>4. \A s \in SUBSET D : s # {} => c[s] \in s /\ c[s] = top(s)
    BY <1>3
<1>5. ASSUME NEW p \in D \X V PROVE Select(limit, d, p[2], R[p[1]]) \in V
  <2>1. p[2] \in Seq(C) /\ R[p[1]] \in C
      OBVIOUS
  <2> QED
      BY <2>1 DEF Select
<1>6. PICK g : IsFold(g, D, V, << >>, c, op)
  <2>1. IsFiniteSet(D)
      BY FS_Interval
  <2>2. << >> \in V /\ op \in [D \X V -> V]
      BY <1>5
  <2>3. Foldable(D, V, << >>, c, op)
    <3> HIDE DEF c, op, V, D
    <3> QED
        BY <1>4, <2>1, <2>2 DEF Foldable
  <2> HIDE DEF c, op, V, D
  <2> QED
      BY <2>3, FoldExists
<1>7. g = F(g)
  <2>1. /\ g \in [SUBSET D -> V]
        /\ \A s \in SUBSET D :
              g[s] = IF s = {} THEN << >> ELSE op[<<c[s], g[s \ {c[s]}]>>]
      BY <1>6 DEF IsFold
  <2>2. \A x \in D, v \in V : op[<<x, v>>] = Select(limit, d, v, R[x])
      OBVIOUS
  <2> HIDE DEF c, op, V, D, top
  <2>3. ASSUME NEW s \in SUBSET D, s # {}
        PROVE  g[s] = Select(limit, d, g[s \ {top(s)}], R[top(s)])
    <3>1. c[s] = top(s) /\ c[s] \in D /\ s \ {c[s]} \in SUBSET D
        BY <1>4, <2>3
    <3>2. g[s \ {c[s]}] \in V
        BY <2>1, <3>1
    <3> QED
        BY <2>1, <2>2, <2>3, <3>1, <3>2
  <2>4. \A s \in SUBSET D : g[s] = F(g)[s]
      BY <1>2, <2>1, <2>3
  <2> QED
      BY <1>2, <2>1, <2>4
<1>8. iter = F(iter)
  <2> HIDE DEF F
  <2> QED
      BY <1>7
<1> HIDE DEF iter, c, op
<1>9. iter = [s \in SUBSET D |->
                 IF s = {} THEN << >> ELSE Select(limit, d, iter[s \ {top(s)}], R[top(s)])]
    BY <1>2, <1>8
<1> HIDE DEF F
<1>10. ASSUME NEW n \in 1..N PROVE top(1..n) = n /\ (1..n) \ {n} = 1..(n - 1)
  <2>1. 1..n \in SUBSET D /\ n \in 1..n
      OBVIOUS
  <2>2. top(1..n) \in 1..n /\ \A y \in 1..n : top(1..n) >= y
      BY <1>3, <2>1
  <2>3. (1..n) \ {n} = 1..(n - 1)
      OBVIOUS
  <2> HIDE DEF top
  <2> QED
      BY <2>1, <2>2, <2>3
<1> DEFINE sel == [n \in 0..N |-> iter[1..n]]
<1>11. Rounds(sel, R, N, limit, d)
  <2>1. sel[0] = << >>
    <3>1. 1..0 = {} /\ 0 \in 0..N
        OBVIOUS
    <3> QED
        BY <1>9, <3>1
  <2>2. ASSUME NEW n \in 1..N PROVE sel[n] = Select(limit, d, sel[n - 1], R[n])
    <3>1. 1..n \in SUBSET D /\ 1..n # {} /\ n \in 0..N /\ n - 1 \in 0..N
      <4>1. n \in 1..n
          OBVIOUS
      <4>2. 1..n \in SUBSET D
          OBVIOUS
      <4>3. n \in 0..N /\ n - 1 \in 0..N
          OBVIOUS
      <4> HIDE DEF D, sel
      <4> QED
          BY <4>1, <4>2, <4>3
    <3>2. top(1..n) = n /\ (1..n) \ {n} = 1..(n - 1)
        BY <1>10
    <3> HIDE DEF D, top
    <3>3. iter[1..n] = Select(limit, d, iter[(1..n) \ {n}], R[n])
        BY <1>9, <3>1, <3>2
    <3> QED
        BY <3>1, <3>2, <3>3
  <2> HIDE DEF sel
  <2> QED
      BY <2>1, <2>2 DEF Rounds
<1>12. rank_best_windows(map, d, limit) = sel[N]
    BY <1>1, <1>2
<1> QED
    BY <1>11, <1>12

\* What holds of the windows selected from the first n: they are of those n, in
\* the limit and no two of them similar; the first of all is selected; and
\* one that is not is too similar to an earlier one, or comes after the limit.
Selected(S, C, R, n, limit, d) ==
    /\ S \in Seq(C)
    /\ limit > 0 => Len(S) <= limit
    /\ \A i \in 1..Len(S) : \E k \in 1..n : S[i] = R[k]
    /\ \A i, j \in 1..Len(S) : i < j => ~TooSimilar(S[i], S[j], d)
    /\ n > 0 => Len(S) > 0 /\ S[1] = R[1]
    /\ \A m \in 1..n :
         \/ \E i \in 1..Len(S) : S[i] = R[m]
         \/ \E i \in 1..Len(S) : \E k \in 1..(m - 1) :
               S[i] = R[k] /\ TooSimilar(S[i], R[m], d)
         \/ /\ limit > 0 /\ Len(S) = limit
            /\ \E k \in 1..(m - 1) : S[limit] = R[k]

\* A round takes the next window or leaves it out for one of the reasons.
LEMMA RoundKeepsSelected ==
    ASSUME NEW C, NEW R, NEW limit \in Nat, NEW d, NEW n \in Nat, NEW S,
           R[n + 1] \in C, Selected(S, C, R, n, limit, d)
    PROVE  Selected(Select(limit, d, S, R[n + 1]), C, R, n + 1, limit, d)
<1> DEFINE w == R[n + 1]
           Z == Select(limit, d, S, w)
           full == limit > 0 /\ Len(S) = limit
           similar == \E k \in DOMAIN S : TooSimilar(S[k], w, d)
<1>1. S \in Seq(C) /\ Len(S) \in Nat /\ DOMAIN S = 1..Len(S)
    BY DEF Selected
<1>2. 1..(n + 1) = 1..n \cup {n + 1} /\ \A k \in 1..n : k \in 1..(n + 1)
    OBVIOUS
<1>3. CASE full \/ similar
  <2>1. Z = S
      BY <1>3 DEF Select
  <2>2. n > 0
    <3>1. Len(S) > 0
      <4>1. CASE full
          BY <4>1
      <4>2. CASE similar
        <5>1. PICK k \in 1..Len(S) : TRUE
            BY <1>1, <4>2
        <5> QED
            BY <1>1, <5>1
      <4> QED
          BY <1>3, <4>1, <4>2
    <3>2. 1 \in 1..Len(S)
        BY <1>1, <3>1
    <3> QED
        BY <3>2 DEF Selected
  <2>3. \/ \E i \in 1..Len(S) : \E k \in 1..n : S[i] = R[k] /\ TooSimilar(S[i], w, d)
        \/ full /\ \E k \in 1..n : S[limit] = R[k]
    <3>1. CASE full
      <4>1. limit \in 1..Len(S)
          BY <1>1, <3>1
      <4> QED
          BY <3>1, <4>1 DEF Selected
    <3>2. CASE similar
      <4>1. PICK i \in 1..Len(S) : TooSimilar(S[i], w, d)
          BY <1>1, <3>2
      <4>2. \E k \in 1..n : S[i] = R[k]
          BY <4>1 DEF Selected
      <4> QED
          BY <4>1, <4>2
    <3> QED
        BY <1>3, <3>1, <3>2
  <2> HIDE DEF Z, similar
  <2>4. ASSUME NEW m \in 1..(n + 1)
        PROVE  \/ \E i \in 1..Len(S) : S[i] = R[m]
               \/ \E i \in 1..Len(S) : \E k \in 1..(m - 1) :
                     S[i] = R[k] /\ TooSimilar(S[i], R[m], d)
               \/ full /\ \E k \in 1..(m - 1) : S[limit] = R[k]
    <3>1. CASE m = n + 1
      <4>1. R[m] = w /\ m - 1 = n
          BY <3>1
      <4> HIDE DEF w
      <4> QED
          BY <2>3, <4>1
    <3>2. CASE m \in 1..n
        BY <3>2 DEF Selected
    <3> QED
        BY <1>2, <3>1, <3>2
  <2>5. \A i \in 1..Len(S) : \E k \in 1..(n + 1) : S[i] = R[k]
      BY <1>2 DEF Selected
  <2>6. Len(S) > 0 /\ S[1] = R[1]
      BY <2>2 DEF Selected
  <2>7. /\ limit > 0 => Len(S) <= limit
        /\ \A i, j \in 1..Len(S) : i < j => ~TooSimilar(S[i], S[j], d)
      BY DEF Selected
  <2>8. Selected(S, C, R, n + 1, limit, d)
      BY <1>1, <2>4, <2>5, <2>6, <2>7 DEF Selected
  <2> QED
      BY <2>1, <2>8 DEF Z
<1>4. CASE ~full /\ ~similar
  <2> DEFINE l == Len(S)
  <2>1. Z = Append(S, w)
      BY <1>4 DEF Select
  <2>2. /\ Z \in Seq(C) /\ Len(Z) = l + 1 /\ Z[l + 1] = w
        /\ \A i \in 1..l : Z[i] = S[i]
      BY <1>1, <2>1
  <2>3. \A i \in 1..l : ~TooSimilar(S[i], w, d)
      BY <1>1, <1>4
  <2>4. limit > 0 => l + 1 <= limit
    <3>1. limit > 0 => l <= limit /\ l # limit
        BY <1>4 DEF Selected
    <3>2. l \in Nat
        BY <1>1
    <3> HIDE DEF l
    <3> QED
        BY <3>1, <3>2
  <2>5. l \in Nat /\ l + 1 \in 1..(l + 1) /\ n + 1 \in 1..(n + 1)
        /\ \A i \in 1..(l + 1) : i \in 1..l \/ i = l + 1
      BY <1>1
  <2> HIDE DEF Z, w, full, similar, l
  <2>6. \A i \in 1..(l + 1) : \E k \in 1..(n + 1) : Z[i] = R[k]
    <3>1. \A i \in 1..l : \E k \in 1..n : S[i] = R[k]
        BY DEF Selected, l
    <3>2. Z[l + 1] = R[n + 1]
        BY <2>2 DEF w
    <3> QED
        BY <1>2, <2>2, <2>5, <3>1, <3>2
  <2>7. \A i, j \in 1..(l + 1) : i < j => ~TooSimilar(Z[i], Z[j], d)
    <3> SUFFICES ASSUME NEW i \in 1..(l + 1), NEW j \in 1..(l + 1), i < j
                 PROVE  ~TooSimilar(Z[i], Z[j], d)
        OBVIOUS
    <3>1. i \in 1..l
        BY <2>5
    <3>2. CASE j \in 1..l
        BY <2>2, <3>1, <3>2 DEF Selected, l
    <3>3. CASE j = l + 1
        BY <2>2, <2>3, <3>1, <3>3
    <3> QED
        BY <2>5, <3>2, <3>3
  <2>8. Z[1] = R[1]
    <3>1. CASE n = 0
      <4>1. l = 0
        <5> SUFFICES ASSUME l # 0 PROVE FALSE
            OBVIOUS
        <5>1. 1 \in 1..l
            BY <2>5
        <5> QED
            BY <3>1, <5>1 DEF Selected, l
      <4> QED
          BY <2>2, <3>1, <4>1 DEF w
    <3>2. CASE n > 0
      <4>1. l > 0 /\ S[1] = R[1]
          BY <3>2 DEF Selected, l
      <4>2. 1 \in 1..l
          BY <2>5, <4>1
      <4> QED
          BY <2>2, <4>1, <4>2
    <3> QED
        BY <3>1, <3>2
  <2>9. ASSUME NEW m \in 1..(n + 1)
        PROVE  \/ \E i \in 1..(l + 1) : Z[i] = R[m]
               \/ \E i \in 1..(l + 1) : \E k \in 1..(m - 1) :
                     Z[i] = R[k] /\ TooSimilar(Z[i], R[m], d)
    <3>1. CASE m = n + 1
        BY <2>2, <2>5, <3>1 DEF w
    <3>2. CASE m \in 1..n
      <4>1. ~(limit > 0 /\ l = limit)
          BY <1>4 DEF full, l
      <4>2. \/ \E i \in 1..l : S[i] = R[m]
            \/ \E i \in 1..l : \E k \in 1..(m - 1) :
                  S[i] = R[k] /\ TooSimilar(S[i], R[m], d)
          BY <3>2, <4>1 DEF Selected, l
      <4>3. \A i \in 1..l : i \in 1..(l + 1)
          BY <2>5
      <4> QED
          BY <2>2, <4>2, <4>3
    <3> QED
        BY <1>2, <3>1, <3>2
  <2>10. limit > 0 => Len(Z) <= limit
      BY <2>2, <2>4
  <2>11. Len(Z) > 0
      BY <2>2, <2>5
  <2>12. Selected(Z, C, R, n + 1, limit, d)
      BY <2>2, <2>6, <2>7, <2>8, <2>9, <2>10, <2>11 DEF Selected
  <2> QED
      BY <2>12 DEF Z, w
<1> HIDE DEF full, similar
<1> QED
    BY <1>3, <1>4

\* So it is after every round.
LEMMA RoundsSelect ==
    ASSUME NEW C, NEW N \in Nat, NEW R \in [1..N -> C], NEW limit \in Nat, NEW d,
           NEW sel, Rounds(sel, R, N, limit, d)
    PROVE  Selected(sel[N], C, R, N, limit, d)
<1> DEFINE T == {n \in Nat : n <= N /\ ~Selected(sel[n], C, R, n, limit, d)}
<1> SUFFICES ASSUME T # {} PROVE FALSE
    OBVIOUS
<1>1. T \in SUBSET Nat
    OBVIOUS
<1>2. PICK n \in T : \A k \in T : n <= k
  <2> HIDE DEF T
  <2> QED
      BY <1>1, LeastNatural
<1>3. n \in Nat /\ n <= N /\ ~Selected(sel[n], C, R, n, limit, d)
    OBVIOUS
<1>4. n # 0
  <2>1. Selected(<< >>, C, R, 0, limit, d)
      BY DEF Selected
  <2> QED
      BY <1>3, <2>1 DEF Rounds
<1>5. n - 1 \in Nat /\ n - 1 <= N /\ n - 1 + 1 = n /\ n \in 1..N /\ ~(n <= n - 1)
    BY <1>3, <1>4
<1>6. Selected(sel[n - 1], C, R, n - 1, limit, d)
    BY <1>2, <1>5
<1>7. sel[n] = Select(limit, d, sel[n - 1], R[n]) /\ R[n] \in C
    BY <1>5 DEF Rounds
<1> HIDE DEF T
<1> DEFINE p == n - 1
<1>8. Selected(Select(limit, d, sel[p], R[p + 1]), C, R, p + 1, limit, d)
  <2>1. p \in Nat /\ R[p + 1] \in C /\ Selected(sel[p], C, R, p, limit, d)
      BY <1>5, <1>6, <1>7
  <2> HIDE DEF p
  <2> QED
      BY <2>1, RoundKeepsSelected
<1> QED
    BY <1>3, <1>5, <1>7, <1>8

-----------------------------------------------------------------------------
(* The cells of a day                                                      *)

\* Times of slots are ordered as their numbers.
LEMMA SlotTimes ==
    ASSUME NEW a \in Int, NEW b \in Int
    PROVE  /\ begin + a * slot \in Int /\ a * slot \in Int
           /\ a < b <=> begin + a * slot < begin + b * slot
           /\ begin + a * slot = begin + b * slot => a = b
<1>1. slot \in {15, 30, 60} /\ begin \in Nat
    BY ConfigFacts
<1>2. CASE slot = 15
    BY <1>1, <1>2
<1>3. CASE slot = 30
    BY <1>1, <1>3
<1>4. CASE slot = 60
    BY <1>1, <1>4
<1> QED
    BY <1>1, <1>2, <1>3, <1>4

DateAt(q) == [FirstDate EXCEPT !.day = @ + q]

\* The days of the week have different dates.
LEMMA DatesDiffer ==
    /\ \A q, r \in Int : DateAt(q) = DateAt(r) => q = r
    /\ \A q \in Int : DateKey(DateAt(q)) = DateKey(FirstDate) + q
    /\ DateKey(FirstDate) \in Int
<1>1. SysDays(FirstDate) \in Int
      /\ \A q \in Int : SysDays(DateAt(q)) = SysDays(FirstDate) + q
    BY DateFacts DEF DateAt
<1>2. ASSUME NEW q \in Int, NEW r \in Int, DateAt(q) = DateAt(r) PROVE q = r
  <2>1. SysDays(FirstDate) + q = SysDays(FirstDate) + r
      BY <1>1, <1>2
  <2> QED
      BY <1>1, <2>1
<1>3. FirstDate \in [year : Int, month : Int, day : Int]
    BY WeekPlanAssumption
<1>4. DateKey(FirstDate) \in Int
    BY <1>3 DEF DateKey
<1>5. ASSUME NEW q \in Int PROVE DateKey(DateAt(q)) = DateKey(FirstDate) + q
  <2>1. /\ DateAt(q).year = FirstDate.year /\ DateAt(q).month = FirstDate.month
        /\ DateAt(q).day = FirstDate.day + q
      BY <1>3 DEF DateAt
  <2>2. FirstDate.year \in Int /\ FirstDate.month \in Int /\ FirstDate.day \in Int
      BY <1>3
  <2> QED
      BY <2>1, <2>2 DEF DateKey
<1> QED
    BY <1>2, <1>4, <1>5

\* K is the cells of a date, in the order of their slots.
IsDay(K, date) ==
    /\ DOMAIN K = 1..Rows /\ Len(K) = Rows
    /\ \A n \in 1..Rows : /\ K[n] \in Range(Map.cells)
                          /\ K[n].date = date
                          /\ K[n].start = begin + (n - 1) * slot
                          /\ K[n].end = begin + n * slot
                          /\ K[n].count \in 0..Cardinality(Members)
    /\ \A c \in Range(Map.cells) : c.date = date => \E n \in 1..Rows : c = K[n]

\* A cell counts no more than all members.
LEMMA CountsBounded ==
    ASSUME intervals \subseteq Interval, NEW k \in 1..(Cols * Rows)
    PROVE  Map.cells[k].count \in 0..Cardinality(Members)
<1>1. Row(k) \in Nat
  <2>1. Row(k) \in 0..(Rows - 1) /\ Rows \in Nat
      BY CellIndex, ConfigFacts
  <2> QED
      BY <2>1
<1> DEFINE F == FreeMembers(Map.cells[k].date, begin + Row(k) * slot,
                            begin + Row(k) * slot + slot)
<1>2. Map.cells[k].count = available_count(Calendar, intervals, Map.cells[k].date, Row(k))
    BY CellsAre
<1>3. \A date : available_count(Calendar, intervals, date, Row(k))
        = Cardinality(FreeMembers(date, begin + Row(k) * slot,
                            begin + Row(k) * slot + slot))
    BY <1>1, CountsMembers
<1>4. Map.cells[k].count = Cardinality(F)
    BY <1>2, <1>3
<1>5. F \in SUBSET Members
    BY DEF FreeMembers
<1>6. IsFiniteSet(Members)
    BY WeekPlanAssumption
<1> HIDE DEF F
<1>7. /\ Cardinality(F) \in Nat /\ Cardinality(Members) \in Nat
      /\ Cardinality(F) <= Cardinality(Members)
    BY <1>5, <1>6, FS_Subset, FS_CardinalityType
<1> QED
    BY <1>4, <1>7

\* CellsOf puts the cells of a date into the order of their slots.
LEMMA CellsOfDay ==
    ASSUME intervals \subseteq Interval, NEW q \in 0..(Cols - 1)
    PROVE  IsDay(CellsOf(Map, DateAt(q)), DateAt(q))
<1> DEFINE cells == Map.cells
           size == Cols * Rows
           date == DateAt(q)
           S == {c \in Range(cells) : c.date = date}
           at(n) == cells[Rows * q + n]
           P == {p \in S \X S : p[1].start < p[2].start}
           low(x) == {y \in S : <<y, x>> \in P}
           K == CellsOf(Map, date)
<1>0. \A x, y \in S : <<y, x>> \in P <=> y.start < x.start
  <2> HIDE DEF S
  <2> QED
      OBVIOUS
<1> HIDE DEF P
<1>1. Rows \in Nat \ {0} /\ Cols \in Nat \ {0} /\ q \in Nat /\ q <= Cols - 1
    BY ConfigFacts, DateFacts
<1>2. /\ size \in Nat /\ DOMAIN cells = 1..size
      /\ \A k \in 1..size :
           /\ cells[k].date = DateAt(Col(k))
           /\ cells[k].start = begin + Row(k) * slot
           /\ cells[k].end = begin + Row(k) * slot + slot
    BY CellsAre DEF DateAt
<1>3. \A k \in 1..size : cells[k].count \in 0..Cardinality(Members)
    BY CountsBounded
<1>4. ASSUME NEW n \in 1..Rows
      PROVE  Rows * q + n \in 1..size /\ Col(Rows * q + n) = q /\ Row(Rows * q + n) = n - 1
  <2>1. Rows * q + n \in 1..(Cols * Rows)
    <3>1. Rows * q \in Nat /\ Cols * Rows \in Nat
        BY <1>1
    <3>2. Rows * q + Rows <= Cols * Rows
      <4>1. Rows * (q + 1) <= Rows * Cols
          BY <1>1
      <4>2. Rows * (q + 1) = Rows * q + Rows /\ Rows * Cols = Cols * Rows
          BY <1>1
      <4> QED
          BY <4>1, <4>2
    <3> QED
        BY <1>1, <3>1, <3>2
  <2>2. n - 1 \in 0..(Rows - 1) /\ Rows * q + n - 1 = Rows * q + (n - 1)
      BY <1>1
  <2>3. (Rows * q + (n - 1)) \div Rows = q /\ (Rows * q + (n - 1)) % Rows = n - 1
      BY <1>1, <2>2, DivUnique
  <2> DEFINE k == Rows * q + n
  <2>4. k - 1 = Rows * q + (n - 1)
    <3>1. Rows * q \in Int /\ n \in Int
        BY <1>1
    <3> HIDE DEF K, low, S, at, cells, size
    <3> QED
        BY <3>1
  <2> HIDE DEF k
  <2>5. Col(k) = q /\ Row(k) = n - 1
      BY <2>3, <2>4 DEF Col, Row
  <2> QED
      BY <2>1, <2>5 DEF k
<1>5. ASSUME NEW k \in 1..size, Col(k) = q
      PROVE  \E n \in 1..Rows : k = Rows * q + n
  <2>1. Row(k) \in 0..(Rows - 1) /\ k - 1 = Rows * q + Row(k)
      BY <1>5, CellIndex
  <2>2. Row(k) + 1 \in 1..Rows /\ k = Rows * q + (Row(k) + 1)
    <3>1. Rows * q \in Int /\ k \in Int /\ Row(k) \in Int
        BY <1>1, <1>2, <2>1
    <3> QED
        BY <1>1, <2>1, <3>1
  <2> QED
      BY <2>2
<1>6. \A k \in 1..size : Col(k) \in Int
    BY <1>1, CellIndex
<1> HIDE DEF cells, size
<1>7. ASSUME NEW n \in 1..Rows
      PROVE  /\ at(n) \in S /\ at(n) \in Range(cells)
             /\ at(n).date = date
             /\ at(n).start = begin + (n - 1) * slot
             /\ at(n).end = begin + n * slot
             /\ at(n).count \in 0..Cardinality(Members)
  <2>1. /\ at(n).date = date /\ at(n).start = begin + (n - 1) * slot
        /\ at(n).end = begin + (n - 1) * slot + slot
        /\ at(n).count \in 0..Cardinality(Members)
      BY <1>2, <1>3, <1>4
  <2>2. begin + (n - 1) * slot + slot = begin + n * slot
    <3>1. slot \in {15, 30, 60} /\ begin \in Nat /\ n \in Int
        BY <1>1, ConfigFacts
    <3>2. (n - 1) * slot + slot = n * slot
        BY <3>1
    <3> QED
        BY <3>1, <3>2
  <2>3. at(n) \in Range(cells)
      BY <1>2, <1>4 DEF Range
  <2> QED
      BY <2>1, <2>2, <2>3
<1>8. ASSUME NEW c \in S PROVE \E n \in 1..Rows : c = at(n)
  <2>1. PICK k \in 1..size : c = cells[k]
      BY <1>2 DEF Range
  <2>2. DateAt(Col(k)) = DateAt(q)
      BY <1>2, <2>1
  <2>3. Col(k) = q
      BY <1>1, <1>6, <2>2, DatesDiffer
  <2> QED
      BY <1>5, <2>1, <2>3
<1> HIDE DEF at, S
<1>9. ASSUME NEW m \in 1..Rows, NEW n \in 1..Rows
      PROVE  /\ at(m).start < at(n).start <=> m < n
             /\ at(m) = at(n) => m = n
  <2>1. m - 1 \in Int /\ n - 1 \in Int /\ (m - 1 < n - 1 <=> m < n) /\ (m - 1 = n - 1 => m = n)
      BY <1>1
  <2>2. /\ m - 1 < n - 1 <=> begin + (m - 1) * slot < begin + (n - 1) * slot
        /\ begin + (m - 1) * slot = begin + (n - 1) * slot => m - 1 = n - 1
      BY <2>1, SlotTimes
  <2> QED
      BY <1>7, <2>1, <2>2
<1>10. ASSUME NEW n \in 1..Rows
       PROVE  IsFiniteSet(low(at(n))) /\ Cardinality(low(at(n))) = n - 1
  <2> DEFINE h == [m \in 1..(n - 1) |-> at(m)]
             L == low(at(n))
  <2>1. n - 1 \in Int /\ n \in Int /\ \A m \in 1..(n - 1) : m \in 1..Rows /\ m < n
      BY <1>1
  <2>2. h \in [1..(n - 1) -> L]
      BY <1>0, <1>7, <1>9, <2>1
  <2>3. \A a, b \in 1..(n - 1) : h[a] = h[b] => a = b
      BY <1>9, <2>1
  <2>4. ASSUME NEW y \in L PROVE \E m \in 1..(n - 1) : h[m] = y
    <3>1. PICK m \in 1..Rows : y = at(m)
        BY <1>8
    <3>2. m < n
        BY <1>0, <1>7, <1>9, <3>1
    <3>3. m \in 1..(n - 1)
        BY <1>1, <2>1, <3>2
    <3> QED
        BY <3>1, <3>3
  <2> HIDE DEF h, L
  <2>5. h \in Bijection(1..(n - 1), L)
      BY <2>2, <2>3, <2>4, Fun_IsBij
  <2>6. IsFiniteSet(1..(n - 1)) /\ Cardinality(1..(n - 1)) = n - 1
      BY <2>1, FS_Interval
  <2>7. ExistsBijection(1..(n - 1), L)
      BY <2>5 DEF ExistsBijection
  <2>8. IsFiniteSet(L) /\ Cardinality(L) = n - 1
      BY <2>6, <2>7, FS_Bijection
  <2> QED
      BY <2>8 DEF L
<1>11. Cardinality(S) = Rows
  <2> DEFINE h == [m \in 1..Rows |-> at(m)]
  <2>1. h \in [1..Rows -> S] /\ \A a, b \in 1..Rows : h[a] = h[b] => a = b
      BY <1>7, <1>9
  <2>2. \A y \in S : \E m \in 1..Rows : h[m] = y
      BY <1>8
  <2> HIDE DEF h
  <2>3. h \in Bijection(1..Rows, S)
      BY <2>1, <2>2, Fun_IsBij
  <2>4. IsFiniteSet(1..Rows) /\ Cardinality(1..Rows) = Rows
      BY <1>1, FS_Interval
  <2> QED
      BY <2>3, <2>4, FS_Bijection DEF ExistsBijection
<1>12. K = [n \in 1..Rows |-> CHOOSE x \in S : Cardinality(low(x)) = n - 1]
    BY <1>11 DEF CellsOf, Ordered, S, P, cells
<1>13. ASSUME NEW n \in 1..Rows
       PROVE  (CHOOSE x \in S : Cardinality(low(x)) = n - 1) = at(n)
  <2>1. at(n) \in S /\ Cardinality(low(at(n))) = n - 1
      BY <1>7, <1>10
  <2>2. ASSUME NEW x \in S, Cardinality(low(x)) = n - 1 PROVE x = at(n)
    <3>1. PICK m \in 1..Rows : x = at(m)
        BY <1>8
    <3>2. m - 1 = n - 1
        BY <1>10, <2>2, <3>1
    <3>3. m = n
        BY <1>1, <3>2
    <3> QED
        BY <3>1, <3>3
  <2> HIDE DEF low
  <2> QED
      BY <2>1, <2>2
<1>14. \A n \in 1..Rows : K[n] = at(n)
    BY <1>12, <1>13
<1>15. DOMAIN K = 1..Rows /\ Len(K) = Rows
    BY <1>1, <1>12
<1>16. \A c \in Range(cells) : c.date = date => c \in S
    BY DEF S
<1> HIDE DEF K, low
<1> QED
    BY <1>7, <1>8, <1>14, <1>15, <1>16 DEF IsDay, cells, K

-----------------------------------------------------------------------------
(* The windows of a day                                                    *)

\* The lengths asked for are whole numbers of slots.
LEMMA LengthFacts ==
    ASSUME NEW d \in Lengths
    PROVE  /\ d \div slot \in Nat \ {0}
           /\ (d \div slot) * slot = d
           /\ d \in Nat /\ d > 0
<1>1. d \in Int /\ d > 0 /\ d % slot = 0
    BY WeekPlanAssumption DEF ValidDuration, slot
<1>2. slot \in {15, 30, 60}
    BY ConfigFacts
<1>3. CASE slot = 15
    BY <1>1, <1>3
<1>4. CASE slot = 30
    BY <1>1, <1>4
<1>5. CASE slot = 60
    BY <1>1, <1>5
<1> QED
    BY <1>2, <1>3, <1>4, <1>5

LeastIn(f) == CHOOSE v \in Range(f) : \A w \in Range(f) : v <= w

\* Numbers from 0 on have a least one.
LEMMA LeastOfRange ==
    ASSUME NEW n \in Nat \ {0}, NEW f \in [1..n -> Nat]
    PROVE  /\ \E j \in 1..n : f[j] = LeastIn(f)
           /\ \A j \in 1..n : LeastIn(f) <= f[j]
<1>1. Range(f) \in SUBSET Nat
    BY DEF Range
<1>2. \A j \in 1..n : f[j] \in Range(f)
    BY DEF Range
<1>3. \A v \in Range(f) : \E j \in 1..n : f[j] = v
    BY DEF Range
<1>4. 1 \in 1..n
    OBVIOUS
<1>5. \E v \in Range(f) : \A w \in Range(f) : v <= w
    BY <1>1, <1>2, <1>4, LeastNatural
<1> QED
    BY <1>2, <1>3, <1>5 DEF LeastIn

\* The window of n cells from the i-th cell of a date on.
IsWindow(w, K, date, i, n) ==
    /\ w.date = date
    /\ w.start = begin + (i - 1) * slot
    /\ w.end = w.start + n * slot
    /\ w.start \in Int
    /\ \E j \in 1..n : K[i + j - 1].count = w.minimum
    /\ \A j \in 1..n : w.minimum <= K[i + j - 1].count
    /\ w.minimum \in 0..Cardinality(Members)
    /\ w.sum = SumOf([j \in 1..n |-> K[i + j - 1].count])
    /\ w.sum \in Int /\ w.variance \in Int

\* Every run of slots within the day is one.
LEMMA WindowFacts ==
    ASSUME NEW K, NEW date, IsDay(K, date), NEW n \in Nat \ {0}, NEW i \in 1..(Rows - n + 1)
    PROVE  /\ IsWindow(Window(K, i, n), K, date, i, n)
           /\ Consecutive(K, i, n)
           /\ \A j \in 1..n : i + j - 1 \in 1..Rows
<1> DEFINE w == Window(K, i, n)
           M == Cardinality(Members)
           f == [j \in 1..n |-> K[i + j - 1].count]
           g == [j \in 1..n |-> f[j] * f[j]]
<1>1. /\ n \in Nat \ {0}
      /\ Rows \in Nat \ {0} /\ slot \in {15, 30, 60} /\ begin \in Nat
    BY ConfigFacts
<1>2. M \in Nat
    BY WeekPlanAssumption, FS_CardinalityType
<1>3. /\ w = [date |-> K[i].date, start |-> K[i].start, end |-> K[i + n - 1].end,
              minimum |-> CHOOSE v \in Range(f) : \A u \in Range(f) : v <= u,
              sum |-> SumOf(f), variance |-> n * SumOf(g) - SumOf(f) * SumOf(f)]
    BY DEF Window
<1> HIDE DEF w, M
<1>4. i \in Nat \ {0} /\ i <= Rows - n + 1
    BY <1>1
<1>5. \A j \in 1..n : i + j - 1 \in 1..Rows
    BY <1>1, <1>4
<1>6. i \in 1..Rows /\ i + n - 1 \in 1..Rows
    BY <1>1, <1>4
<1>7. \A k \in 1..Rows : /\ K[k].date = date
                          /\ K[k].start = begin + (k - 1) * slot
                          /\ K[k].end = begin + k * slot
                          /\ K[k].count \in 0..M
    BY DEF IsDay, M
<1>8. f \in [1..n -> 0..M]
    BY <1>5, <1>7
<1>9. f \in [1..n -> Nat] /\ f \in [1..n -> Int] /\ \A j \in 1..n : f[j] \in 0..M
  <2> HIDE DEF f
  <2>1. \A x \in 0..M : x \in Nat /\ x \in Int
      BY <1>2
  <2> QED
      BY <1>8, <2>1
<1>10. /\ \E j \in 1..n : f[j] = w.minimum
       /\ \A j \in 1..n : w.minimum <= f[j]
  <2>1. w.minimum = LeastIn(f)
      BY <1>3 DEF LeastIn
  <2> HIDE DEF f
  <2> QED
      BY <1>1, <1>9, <2>1, LeastOfRange
<1>11. w.minimum \in 0..M
    BY <1>9, <1>10
<1>12. SumOf(f) \in Int /\ SumOf(g) \in Int
  <2>1. g \in [1..n -> Int]
      BY <1>9
  <2>2. IsFiniteSet(1..n)
      BY <1>1, FS_Interval
  <2> HIDE DEF f, g
  <2> QED
      BY <1>9, <2>1, <2>2, SumIsInt
<1>13. w.sum = SumOf(f) /\ w.sum \in Int /\ w.variance \in Int
  <2> HIDE DEF f, g
  <2>1. w.sum = SumOf(f) /\ w.variance = n * SumOf(g) - SumOf(f) * SumOf(f)
      BY <1>3
  <2> QED
      BY <1>1, <1>12, <2>1
<1>14. w.date = date /\ w.start = begin + (i - 1) * slot /\ w.end = begin + (i + n - 1) * slot
  <2> HIDE DEF f, g
  <2> QED
      BY <1>3, <1>6, <1>7
<1>15. w.start \in Int /\ w.end = w.start + n * slot
  <2>1. (i - 1) * slot \in Int /\ (i + n - 1) * slot = (i - 1) * slot + n * slot
      BY <1>1, <1>4
  <2> QED
      BY <1>1, <1>14, <2>1
<1>16. Consecutive(K, i, n)
  <2> SUFFICES ASSUME NEW j \in 1..(n - 1) PROVE K[i + j - 1].end = K[i + j].start
      BY DEF Consecutive
  <2>1. i + j - 1 \in 1..Rows /\ i + j \in 1..Rows
      BY <1>1, <1>4
  <2>2. K[i + j - 1].end = begin + (i + j - 1) * slot
      BY <1>7, <2>1
  <2>3. K[i + j].start = begin + (i + j - 1) * slot
      BY <1>7, <2>1
  <2> QED
      BY <2>2, <2>3
<1> QED
    BY <1>5, <1>10, <1>11, <1>13, <1>14, <1>15, <1>16 DEF IsWindow, w, M

WindowAt(q, i, d) == Window(CellsOf(Map, DateAt(q)), i, d \div slot)

\* The candidates are the windows that fit into a day of the week.
LEMMA CandidatesAre ==
    ASSUME intervals \subseteq Interval, NEW d \in Lengths
    PROVE  /\ \A w \in Candidates(Map, d) :
                \E q \in 0..(Cols - 1), i \in 1..(Rows - (d \div slot) + 1) :
                   w = WindowAt(q, i, d)
           /\ \A q \in 0..(Cols - 1), i \in 1..(Rows - (d \div slot) + 1) :
                WindowAt(q, i, d) \in Candidates(Map, d)
<1> DEFINE n == d \div slot
           Dates == {c.date : c \in Range(Map.cells)}
           Fit(K) == {k \in 1..(Len(K) - n + 1) : Consecutive(K, k, n)}
<1>1. Map.slot_minutes = slot
    BY DEF Map, aggregate_week, Calendar, slot
<1>2. Candidates(Map, d)
        = UNION {{Window(CellsOf(Map, date), i, n) : i \in Fit(CellsOf(Map, date))}
                    : date \in Dates}
    BY <1>1 DEF Candidates
<1>3. Rows \in Nat \ {0} /\ Cols \in Nat \ {0}
    BY ConfigFacts, DateFacts
<1>4. \A q \in 0..(Cols - 1) : IsDay(CellsOf(Map, DateAt(q)), DateAt(q))
    BY CellsOfDay
<1>5. ASSUME NEW q \in 0..(Cols - 1)
      PROVE  Fit(CellsOf(Map, DateAt(q))) = 1..(Rows - n + 1)
  <2> DEFINE K == CellsOf(Map, DateAt(q))
  <2>1. IsDay(K, DateAt(q))
      BY <1>4
  <2> HIDE DEF K
  <2>2. Len(K) = Rows
      BY <2>1 DEF IsDay
  <2>3. \A i \in 1..(Rows - n + 1) : Consecutive(K, i, n)
      BY <2>1, LengthFacts, WindowFacts
  <2>4. Fit(K) = 1..(Rows - n + 1)
    <3> HIDE DEF n
    <3> QED
        BY <2>2, <2>3
  <2> QED
      BY <2>4 DEF K
<1>6. ASSUME NEW q \in 0..(Cols - 1) PROVE DateAt(q) \in Dates
  <2> DEFINE K == CellsOf(Map, DateAt(q))
  <2>1. 1 \in 1..Rows
      BY <1>3
  <2>2. IsDay(K, DateAt(q))
      BY <1>4
  <2> HIDE DEF K
  <2>3. K[1] \in Range(Map.cells) /\ K[1].date = DateAt(q)
      BY <2>1, <2>2 DEF IsDay
  <2> QED
      BY <2>3
<1>7. ASSUME NEW date \in Dates PROVE \E q \in 0..(Cols - 1) : date = DateAt(q)
  <2> DEFINE cells == Map.cells
  <2>1. /\ DOMAIN cells = 1..(Cols * Rows)
        /\ \A k \in 1..(Cols * Rows) : cells[k].date = DateAt(Col(k))
      BY CellsAre DEF DateAt
  <2>2. \A k \in 1..(Cols * Rows) : Col(k) \in 0..(Cols - 1)
      BY CellIndex
  <2>3. PICK c \in Range(cells) : date = c.date
      OBVIOUS
  <2> HIDE DEF cells
  <2>4. PICK k \in DOMAIN cells : c = cells[k]
      BY DEF Range
  <2> QED
      BY <2>1, <2>2, <2>3, <2>4
<1> HIDE DEF Fit, Dates
<1>8. ASSUME NEW w \in Candidates(Map, d)
      PROVE  \E q \in 0..(Cols - 1), i \in 1..(Rows - n + 1) : w = WindowAt(q, i, d)
  <2>1. PICK date \in Dates : \E i \in Fit(CellsOf(Map, date)) :
                                 w = Window(CellsOf(Map, date), i, n)
      BY <1>2
  <2>2. PICK q \in 0..(Cols - 1) : date = DateAt(q)
      BY <1>7
  <2>3. PICK i \in 1..(Rows - n + 1) : w = Window(CellsOf(Map, DateAt(q)), i, n)
      BY <1>5, <2>1, <2>2
  <2> QED
      BY <2>3 DEF WindowAt
<1>9. ASSUME NEW q \in 0..(Cols - 1), NEW i \in 1..(Rows - n + 1)
      PROVE  WindowAt(q, i, d) \in Candidates(Map, d)
  <2>1. i \in Fit(CellsOf(Map, DateAt(q))) /\ DateAt(q) \in Dates
      BY <1>5, <1>6
  <2> HIDE DEF n
  <2> QED
      BY <1>2, <2>1 DEF WindowAt, n
<1> QED
    BY <1>8, <1>9

\* The order of windows, spelled out.
LEMMA RanksMeans ==
    ASSUME NEW a, NEW b
    PROVE  RanksBefore(a, b) <=>
              \/ -a.minimum < -b.minimum
              \/ /\ -a.minimum = -b.minimum
                 /\ \/ -a.sum < -b.sum
                    \/ /\ -a.sum = -b.sum
                       /\ \/ a.variance < b.variance
                          \/ /\ a.variance = b.variance
                             /\ \/ DateKey(a.date) < DateKey(b.date)
                                \/ /\ DateKey(a.date) = DateKey(b.date)
                                   /\ a.start < b.start
<1> DEFINE x == RankKey(a)
           y == RankKey(b)
           First(n) == \A m \in 1..(n - 1) : x[m] = y[m]
<1>1. /\ x[1] = -a.minimum /\ x[2] = -a.sum /\ x[3] = a.variance
      /\ x[4] = DateKey(a.date) /\ x[5] = a.start
    BY DEF RankKey
<1>2. /\ y[1] = -b.minimum /\ y[2] = -b.sum /\ y[3] = b.variance
      /\ y[4] = DateKey(b.date) /\ y[5] = b.start
    BY DEF RankKey
<1>3. RanksBefore(a, b) <=> \E n \in 1..5 : x[n] < y[n] /\ First(n)
    BY DEF RanksBefore
<1> HIDE DEF x, y
<1>4. /\ First(1)
      /\ First(2) <=> x[1] = y[1]
      /\ First(3) <=> x[1] = y[1] /\ x[2] = y[2]
      /\ First(4) <=> x[1] = y[1] /\ x[2] = y[2] /\ x[3] = y[3]
      /\ First(5) <=> x[1] = y[1] /\ x[2] = y[2] /\ x[3] = y[3] /\ x[4] = y[4]
    OBVIOUS
<1> HIDE DEF First
<1>5. RanksBefore(a, b) <=> \/ x[1] < y[1] /\ First(1)
                            \/ x[2] < y[2] /\ First(2)
                            \/ x[3] < y[3] /\ First(3)
                            \/ x[4] < y[4] /\ First(4)
                            \/ x[5] < y[5] /\ First(5)
  <2>1. \A n : n \in 1..5 <=> n = 1 \/ n = 2 \/ n = 3 \/ n = 4 \/ n = 5
      OBVIOUS
  <2> QED
      BY <1>3, <2>1
<1> QED
    BY <1>1, <1>2, <1>4, <1>5

\* The order of the windows is total: the last two keys tell any two apart.
LEMMA WindowsOrdered ==
    ASSUME intervals \subseteq Interval, NEW d \in Lengths
    PROVE  /\ IsFiniteSet(Candidates(Map, d))
           /\ TotalOrder(Candidates(Map, d), RankOrder(Candidates(Map, d)))
           /\ \A a, b \in Candidates(Map, d) :
                 <<a, b>> \in RankOrder(Candidates(Map, d)) <=> RanksBefore(a, b)
<1> DEFINE C == Candidates(Map, d)
           n == d \div slot
           Typed(w) == /\ w.minimum \in Int /\ w.sum \in Int /\ w.variance \in Int
                       /\ DateKey(w.date) \in Int /\ w.start \in Int
           P == (0..(Cols - 1)) \X (1..(Rows - n + 1))
           h == [p \in P |-> WindowAt(p[1], p[2], d)]
<1>1. n \in Nat \ {0} /\ Rows \in Nat \ {0} /\ Cols \in Nat \ {0}
    BY LengthFacts, ConfigFacts, DateFacts
<1>2. /\ \A w \in C : \E q \in 0..(Cols - 1), i \in 1..(Rows - n + 1) : w = WindowAt(q, i, d)
      /\ \A q \in 0..(Cols - 1), i \in 1..(Rows - n + 1) : WindowAt(q, i, d) \in C
    BY CandidatesAre
<1>3. ASSUME NEW q \in 0..(Cols - 1), NEW i \in 1..(Rows - n + 1)
      PROVE  LET w == WindowAt(q, i, d)
             IN  /\ Typed(w) /\ w.date = DateAt(q) /\ w.start = begin + (i - 1) * slot
                 /\ DateKey(w.date) = DateKey(FirstDate) + q
  <2> DEFINE w == WindowAt(q, i, d)
             M == Cardinality(Members)
  <2>1. IsDay(CellsOf(Map, DateAt(q)), DateAt(q))
      BY CellsOfDay
  <2>2. /\ w.date = DateAt(q) /\ w.start = begin + (i - 1) * slot /\ w.start \in Int
        /\ w.minimum \in 0..M /\ w.sum \in Int /\ w.variance \in Int
    <3>1. IsWindow(w, CellsOf(Map, DateAt(q)), DateAt(q), i, n)
        BY <1>1, <2>1, WindowFacts DEF WindowAt
    <3> HIDE DEF w
    <3> QED
        BY <3>1 DEF IsWindow
  <2>3. DateKey(DateAt(q)) = DateKey(FirstDate) + q /\ DateKey(FirstDate) \in Int /\ q \in Int
      BY <1>1, DatesDiffer
  <2>4. M \in Nat
      BY WeekPlanAssumption, FS_CardinalityType
  <2> HIDE DEF w, M
  <2>5. DateKey(w.date) = DateKey(FirstDate) + q
      BY <2>2, <2>3
  <2>6. w.minimum \in Int
      BY <2>2, <2>4
  <2>7. DateKey(w.date) \in Int
      BY <2>3, <2>5
  <2> QED
      BY <2>2, <2>5, <2>6, <2>7 DEF w
<1>4. IsFiniteSet(C)
  <2>1. IsFiniteSet(P)
    <3>1. IsFiniteSet(0..(Cols - 1)) /\ IsFiniteSet(1..(Rows - n + 1))
        BY <1>1, FS_Interval
    <3> QED
        BY <3>1, FS_Product
  <2>2. h \in [P -> C] /\ \A w \in C : \E p \in P : h[p] = w
    <3> HIDE DEF C, n
    <3>1. \A p \in P : p[1] \in 0..(Cols - 1) /\ p[2] \in 1..(Rows - n + 1)
        OBVIOUS
    <3>2. \A q \in 0..(Cols - 1), i \in 1..(Rows - n + 1) : <<q, i>> \in P
        OBVIOUS
    <3>3. h \in [P -> C]
        BY <1>2, <3>1
    <3>4. ASSUME NEW w \in C PROVE \E p \in P : h[p] = w
      <4>1. PICK q \in 0..(Cols - 1), i \in 1..(Rows - n + 1) : w = WindowAt(q, i, d)
          BY <1>2
      <4>2. h[<<q, i>>] = w
          BY <3>2, <4>1
      <4> QED
          BY <3>2, <4>2
    <3> QED
        BY <3>3, <3>4
  <2> HIDE DEF h, C, P
  <2>3. h \in Surjection(P, C)
      BY <2>2, Fun_IsSurj
  <2> QED
      BY <2>1, <2>3, FS_Surjection
<1> HIDE DEF C, n
<1>5. \A w \in C : Typed(w)
    BY <1>2, <1>3
<1>6. ASSUME NEW a \in C, NEW b \in C, DateKey(a.date) = DateKey(b.date), a.start = b.start
      PROVE  a = b
  <2>1. PICK q \in 0..(Cols - 1), i \in 1..(Rows - n + 1) : a = WindowAt(q, i, d)
      BY <1>2
  <2>2. PICK r \in 0..(Cols - 1), j \in 1..(Rows - n + 1) : b = WindowAt(r, j, d)
      BY <1>2
  <2>3. DateKey(FirstDate) + q = DateKey(FirstDate) + r
        /\ begin + (i - 1) * slot = begin + (j - 1) * slot
      BY <1>3, <1>6, <2>1, <2>2
  <2>4. q = r
      BY <1>1, <2>3, DatesDiffer
  <2>5. i - 1 \in Int /\ j - 1 \in Int /\ i \in Int /\ j \in Int
      BY <1>1
  <2>6. i - 1 = j - 1
      BY <2>3, <2>5, SlotTimes
  <2>7. i = j
      BY <2>5, <2>6
  <2> QED
      BY <2>1, <2>2, <2>4, <2>7
<1>7. ASSUME NEW a \in C, NEW b \in C PROVE <<a, b>> \in RankOrder(C) <=> RanksBefore(a, b)
    BY DEF RankOrder
<1> HIDE DEF Typed
<1>8. \A a \in C : ~RanksBefore(a, a)
    BY <1>5, RanksMeans DEF Typed
<1>9. \A a, b \in C : a # b => RanksBefore(a, b) \/ RanksBefore(b, a)
  <2> SUFFICES ASSUME NEW a \in C, NEW b \in C, a # b
               PROVE  RanksBefore(a, b) \/ RanksBefore(b, a)
      OBVIOUS
  <2>1. DateKey(a.date) # DateKey(b.date) \/ a.start # b.start
      BY <1>6
  <2> QED
      BY <1>5, <2>1, RanksMeans DEF Typed
<1>10. \A a, b, c \in C : RanksBefore(a, b) /\ RanksBefore(b, c) => RanksBefore(a, c)
  <2> SUFFICES ASSUME NEW a \in C, NEW b \in C, NEW c \in C,
                      RanksBefore(a, b), RanksBefore(b, c)
               PROVE  RanksBefore(a, c)
      OBVIOUS
  <2>1. Typed(a) /\ Typed(b) /\ Typed(c)
      BY <1>5
  <2> QED
      BY <2>1, RanksMeans DEF Typed
<1>11. TotalOrder(C, RankOrder(C))
    BY <1>7, <1>8, <1>9, <1>10 DEF TotalOrder
<1> QED
    BY <1>4, <1>7, <1>11 DEF C

-----------------------------------------------------------------------------
(* The cells of a window, and what a candidate says of them                *)

\* The cells within n slots of the i-th cell of a day are those that follow it
\* on that day.
LEMMA CellsInAre ==
    ASSUME NEW K, NEW date, IsDay(K, date), NEW n \in Nat \ {0}, NEW i \in 1..Rows
    PROVE  LET X == CellsIn(Map, <<date, begin + (i - 1) * slot>>, n * slot)
           IN  /\ \A c \in X : \E m \in 1..Rows : c = K[m] /\ i <= m /\ m <= i + n - 1
               /\ \A m \in 1..Rows : i <= m /\ m <= i + n - 1 => K[m] \in X
<1> DEFINE X == CellsIn(Map, <<date, begin + (i - 1) * slot>>, n * slot)
           In(c) == /\ begin + (i - 1) * slot <= c.start
                    /\ c.end <= begin + (i - 1) * slot + n * slot
<1>1. \A c : c \in X <=> c \in Range(Map.cells) /\ c.date = date /\ In(c)
    BY DEF CellsIn
<1>2. slot \in {15, 30, 60} /\ begin \in Nat /\ Rows \in Nat \ {0}
    BY ConfigFacts
<1>3. ASSUME NEW m \in 1..Rows PROVE In(K[m]) <=> i <= m /\ m <= i + n - 1
  <2>1. K[m].start = begin + (m - 1) * slot /\ K[m].end = begin + m * slot
      BY DEF IsDay
  <2>2. i \in Int /\ m \in Int
      BY <1>2
  <2> HIDE DEF In
  <2>3. In(K[m]) <=> /\ begin + (i - 1) * slot <= begin + (m - 1) * slot
                     /\ begin + m * slot <= begin + (i - 1) * slot + n * slot
      BY <2>1 DEF In
  <2>4. CASE slot = 15
      BY <1>2, <2>2, <2>3, <2>4
  <2>5. CASE slot = 30
      BY <1>2, <2>2, <2>3, <2>5
  <2>6. CASE slot = 60
      BY <1>2, <2>2, <2>3, <2>6
  <2> QED
      BY <1>2, <2>4, <2>5, <2>6
<1> HIDE DEF X, In
<1>4. ASSUME NEW c \in X
      PROVE  \E m \in 1..Rows : c = K[m] /\ i <= m /\ m <= i + n - 1
  <2>1. PICK m \in 1..Rows : c = K[m]
      BY <1>1 DEF IsDay
  <2> QED
      BY <1>1, <1>3, <2>1
<1>5. ASSUME NEW m \in 1..Rows, i <= m, m <= i + n - 1 PROVE K[m] \in X
    BY <1>1, <1>3, <1>5 DEF IsDay
<1> QED
    BY <1>4, <1>5 DEF X

\* Different slots of a day have different cells.
LEMMA CellsDiffer ==
    ASSUME NEW K, NEW date, IsDay(K, date), NEW a \in 1..Rows, NEW b \in 1..Rows, K[a] = K[b]
    PROVE  a = b
<1>1. begin + (a - 1) * slot = begin + (b - 1) * slot
    BY DEF IsDay
<1>2. a \in Int /\ b \in Int /\ a - 1 \in Int /\ b - 1 \in Int
    BY ConfigFacts
<1>3. a - 1 = b - 1
    BY <1>1, <1>2, SlotTimes
<1> QED
    BY <1>2, <1>3

\* There are n of them unless the day ends before.
LEMMA CellsInCounted ==
    ASSUME NEW K, NEW date, IsDay(K, date), NEW n \in Nat \ {0}, NEW i \in 1..Rows
    PROVE  LET X == CellsIn(Map, <<date, begin + (i - 1) * slot>>, n * slot)
           IN  /\ IsFiniteSet(X) /\ Cardinality(X) \in Nat
               /\ i <= Rows - n + 1 =>
                     [j \in 1..n |-> K[i + j - 1]] \in Bijection(1..n, X)
               /\ i <= Rows - n + 1 <=> Cardinality(X) = n
<1> DEFINE X == CellsIn(Map, <<date, begin + (i - 1) * slot>>, n * slot)
           k == IF i <= Rows - n + 1 THEN n ELSE Rows - i + 1
           h == [j \in 1..k |-> K[i + j - 1]]
<1>1. Rows \in Nat \ {0} /\ i \in Nat /\ i >= 1 /\ i <= Rows
    BY ConfigFacts
<1>2. k \in Nat /\ (i <= Rows - n + 1 <=> k = n)
    BY <1>1
<1>3. \A m \in Int : i <= m /\ m <= i + n - 1 /\ m <= Rows <=> i <= m /\ m <= i + k - 1
    BY <1>1
<1>4. /\ \A c \in X : \E m \in 1..Rows : c = K[m] /\ i <= m /\ m <= i + n - 1
      /\ \A m \in 1..Rows : i <= m /\ m <= i + n - 1 => K[m] \in X
    BY CellsInAre
<1> HIDE DEF X, k
<1>5. ASSUME NEW j \in 1..k PROVE i + j - 1 \in 1..Rows /\ K[i + j - 1] \in X
  <2>1. i + j - 1 \in Int /\ i <= i + j - 1 /\ i + j - 1 <= i + k - 1
      BY <1>1, <1>2
  <2>2. i + j - 1 <= i + n - 1 /\ i + j - 1 <= Rows
      BY <1>3, <2>1
  <2>3. i + j - 1 \in 1..Rows
      BY <1>1, <2>1, <2>2
  <2> QED
      BY <1>4, <2>1, <2>2, <2>3
<1>6. \A a, b \in 1..k : h[a] = h[b] => a = b
  <2> SUFFICES ASSUME NEW a \in 1..k, NEW b \in 1..k, h[a] = h[b] PROVE a = b
      OBVIOUS
  <2>1. i + a - 1 = i + b - 1
      BY <1>5, CellsDiffer
  <2> QED
      BY <1>1, <1>2, <2>1
<1>7. ASSUME NEW c \in X PROVE \E j \in 1..k : h[j] = c
  <2>1. PICK m \in 1..Rows : c = K[m] /\ i <= m /\ m <= i + n - 1
      BY <1>4
  <2>2. m \in Int /\ m <= Rows /\ m <= i + k - 1
      BY <1>1, <1>3, <2>1
  <2>3. m - i + 1 \in 1..k /\ i + (m - i + 1) - 1 = m
      BY <1>1, <1>2, <2>1, <2>2
  <2> QED
      BY <2>1, <2>3
<1>8. h \in [1..k -> X]
    BY <1>5
<1>9. h \in Bijection(1..k, X)
  <2> HIDE DEF h
  <2> QED
      BY <1>6, <1>7, <1>8, Fun_IsBij
<1>10. IsFiniteSet(1..k) /\ Cardinality(1..k) = k
    BY <1>2, FS_Interval
<1>11. IsFiniteSet(X) /\ Cardinality(X) = k
  <2> HIDE DEF h
  <2> QED
      BY <1>9, <1>10, FS_Bijection DEF ExistsBijection
<1> QED
    BY <1>2, <1>9, <1>11 DEF X

\* What a candidate says of its window is true: its least count and the sum.
LEMMA CandidateFacts ==
    ASSUME intervals \subseteq Interval, NEW d \in Lengths, NEW w \in Candidates(Map, d)
    PROVE  LET v == <<w.date, w.start>>
           IN  /\ v \in Windows(Map, d)
               /\ w.end = w.start + d /\ w.start \in Int
               /\ Worst(Map, v, d) = w.minimum
               /\ Total(Map, v, d) = w.sum
               /\ w.minimum \in Int /\ w.sum \in Int
<1> DEFINE n == d \div slot
           M == Cardinality(Members)
           v == <<w.date, w.start>>
           X == CellsIn(Map, v, d)
<1>1. /\ n \in Nat \ {0} /\ n * slot = d /\ d \in Nat
      /\ Rows \in Nat \ {0} /\ Cols \in Nat \ {0}
    BY LengthFacts, ConfigFacts, DateFacts
<1>2. M \in Nat
    BY WeekPlanAssumption, FS_CardinalityType
<1>3. Map.slot_minutes = slot
    BY DEF Map, aggregate_week, Calendar, slot
<1>4. PICK q \in 0..(Cols - 1), i \in 1..(Rows - n + 1) : w = WindowAt(q, i, d)
    BY CandidatesAre
<1> DEFINE date == DateAt(q)
           K == CellsOf(Map, date)
           f == [j \in 1..n |-> K[i + j - 1].count]
           g == [c \in X |-> c.count]
           h == [j \in 1..n |-> K[i + j - 1]]
<1>5. IsDay(K, date)
    BY CellsOfDay
<1>6. IsWindow(w, K, date, i, n) /\ \A j \in 1..n : i + j - 1 \in 1..Rows
  <2> HIDE DEF n
  <2> QED
      BY <1>1, <1>4, <1>5, WindowFacts DEF WindowAt, n
<1> HIDE DEF K, n, date, M
<1>7. i \in 1..Rows /\ i <= Rows - n + 1
    BY <1>1
<1>8. /\ w.date = date /\ w.start = begin + (i - 1) * slot /\ w.end = w.start + d
      /\ w.start \in Int /\ w.sum \in Int /\ w.minimum \in 0..M
    BY <1>1, <1>6 DEF IsWindow, M
<1>9. X = CellsIn(Map, <<date, begin + (i - 1) * slot>>, n * slot)
    BY <1>1, <1>8
<1>10. /\ IsFiniteSet(X) /\ Cardinality(X) = n
       /\ h \in Bijection(1..n, X)
  <2> DEFINE Y == CellsIn(Map, <<date, begin + (i - 1) * slot>>, n * slot)
  <2>1. /\ IsFiniteSet(Y) /\ Cardinality(Y) = n
        /\ [j \in 1..n |-> K[i + j - 1]] \in Bijection(1..n, Y)
      BY <1>1, <1>5, <1>7, CellsInCounted
  <2>2. X = Y
      BY <1>9
  <2> HIDE DEF X, Y
  <2> QED
      BY <2>1, <2>2
<1>11. v \in Windows(Map, d)
  <2>1. K[i] \in Range(Map.cells) /\ K[i].date = date /\ K[i].start = begin + (i - 1) * slot
      BY <1>5, <1>7 DEF IsDay
  <2>2. v \in {<<c.date, c.start>> : c \in Range(Map.cells)}
      BY <1>8, <2>1
  <2>3. Cardinality(CellsIn(Map, v, d)) * Map.slot_minutes = d
      BY <1>1, <1>3, <1>10
  <2> QED
      BY <2>2, <2>3 DEF Windows
<1> HIDE DEF X
<1>12. /\ \A c \in X : \E j \in 1..n : c = K[i + j - 1]
       /\ \A j \in 1..n : K[i + j - 1] \in X
  <2>1. h \in [1..n -> X] /\ \A c \in X : \E j \in 1..n : h[j] = c
    <3> DEFINE D == 1..n
    <3> HIDE DEF h
    <3>1. h \in Bijection(D, X)
        BY <1>10
    <3> HIDE DEF D
    <3>2. h \in [D -> X] /\ \A c \in X : \E j \in D : h[j] = c
        BY <3>1, Fun_BijectionProperties
    <3> QED
        BY <3>2 DEF D
  <2>2. \A j \in 1..n : h[j] = K[i + j - 1]
      OBVIOUS
  <2> HIDE DEF h
  <2> QED
      BY <2>1, <2>2
<1>13. \A j \in 1..n : K[i + j - 1].count \in 0..M
    BY <1>5, <1>6 DEF IsDay, M
<1>14. Worst(Map, v, d) = w.minimum
  <2> DEFINE P(m) == (\E c \in X : c.count = m) /\ \A c \in X : c.count >= m
  <2>1. Worst(Map, v, d) = CHOOSE m \in 0..M : P(m)
      BY DEF Worst, X, M
  <2>2. P(w.minimum)
    <3>1. \E j \in 1..n : K[i + j - 1].count = w.minimum
        BY <1>6 DEF IsWindow
    <3>2. \A j \in 1..n : w.minimum <= K[i + j - 1].count
        BY <1>6 DEF IsWindow
    <3>3. ASSUME NEW c \in X PROVE c.count >= w.minimum
      <4>1. PICK j \in 1..n : c = K[i + j - 1]
          BY <1>12
      <4>2. w.minimum <= c.count /\ c.count \in 0..M
          BY <1>13, <3>2, <4>1
      <4> QED
          BY <1>2, <1>8, <4>2
    <3> QED
        BY <1>12, <3>1, <3>3
  <2>3. ASSUME NEW a \in 0..M, NEW b \in 0..M, P(a), P(b) PROVE a = b
    <3>1. a <= b /\ b <= a
        BY <1>2, <2>3
    <3> QED
        BY <1>2, <3>1
  <2> HIDE DEF P
  <2> QED
      BY <1>8, <2>1, <2>2, <2>3
<1>15. Total(Map, v, d) = w.sum
  <2>1. \A c \in X : c.count \in Int
      BY <1>2, <1>12, <1>13
  <2>2. f \in [1..n -> Int] /\ g \in [X -> Int]
      BY <1>2, <1>13, <2>1
  <2>3. \A j \in 1..n : f[j] = g[h[j]]
      BY <1>12
  <2>4. IsFiniteSet(1..n)
      BY <1>1, FS_Interval
  <2>5. w.sum = SumOf(f) /\ Total(Map, v, d) = SumOf(g)
      BY <1>6 DEF IsWindow, Total, X
  <2> HIDE DEF f, g, h
  <2>6. SumOf(f) = SumOf(g)
    <3> DEFINE D == 1..n
    <3>1. /\ IsFiniteSet(D) /\ IsFiniteSet(X) /\ h \in Bijection(D, X)
          /\ f \in [D -> Int] /\ g \in [X -> Int] /\ \A j \in D : f[j] = g[h[j]]
        BY <1>10, <2>2, <2>3, <2>4
    <3> HIDE DEF D
    <3> QED
        BY <3>1, SumRenumbered
  <2> QED
      BY <2>5, <2>6
<1>16. w.minimum \in Int
    BY <1>2, <1>8
<1> QED
    BY <1>8, <1>11, <1>14, <1>15, <1>16

\* Every window of the heatmap is a candidate.
LEMMA WindowsAre ==
    ASSUME intervals \subseteq Interval, NEW d \in Lengths, NEW v \in Windows(Map, d)
    PROVE  \E w \in Candidates(Map, d) : v = <<w.date, w.start>>
<1> DEFINE n == d \div slot
           cells == Map.cells
<1>1. /\ n \in Nat \ {0} /\ n * slot = d
      /\ Rows \in Nat \ {0} /\ slot \in {15, 30, 60}
    BY LengthFacts, ConfigFacts
<1>2. Map.slot_minutes = slot
    BY DEF Map, aggregate_week, Calendar, slot
<1>3. /\ v \in {<<c.date, c.start>> : c \in Range(cells)}
      /\ Cardinality(CellsIn(Map, v, d)) * slot = d
    BY <1>2 DEF Windows
<1>4. PICK c \in Range(cells) : v = <<c.date, c.start>>
    BY <1>3
<1>5. /\ DOMAIN cells = 1..(Cols * Rows)
      /\ \A k \in 1..(Cols * Rows) : cells[k].date = DateAt(Col(k))
    BY CellsAre DEF DateAt
<1> HIDE DEF cells
<1>6. PICK k \in 1..(Cols * Rows) : c = cells[k]
    BY <1>4, <1>5 DEF Range
<1> DEFINE q == Col(k)
           date == DateAt(q)
           K == CellsOf(Map, date)
<1>7. q \in 0..(Cols - 1) /\ c.date = date
    BY <1>5, <1>6, CellIndex
<1>8. IsDay(K, date)
    BY <1>7, CellsOfDay
<1> HIDE DEF K, n
<1>9. PICK i \in 1..Rows : c = K[i]
    BY <1>4, <1>7, <1>8 DEF IsDay, cells
<1>10. v = <<date, begin + (i - 1) * slot>>
    BY <1>4, <1>7, <1>8, <1>9 DEF IsDay
<1>11. Cardinality(CellsIn(Map, v, d)) = n
  <2> DEFINE m == Cardinality(CellsIn(Map, <<date, begin + (i - 1) * slot>>, n * slot))
  <2>1. m \in Nat
      BY <1>1, <1>8, CellsInCounted
  <2>2. m = Cardinality(CellsIn(Map, v, d))
      BY <1>1, <1>10
  <2> HIDE DEF m
  <2>3. m * slot = n * slot
      BY <1>1, <1>3, <2>2
  <2>4. m = n
    <3>1. CASE slot = 15
        BY <1>1, <2>1, <2>3, <3>1
    <3>2. CASE slot = 30
        BY <1>1, <2>1, <2>3, <3>2
    <3>3. CASE slot = 60
        BY <1>1, <2>1, <2>3, <3>3
    <3> QED
        BY <1>1, <3>1, <3>2, <3>3
  <2> QED
      BY <2>2, <2>4
<1>12. i <= Rows - n + 1
  <2> DEFINE Y == CellsIn(Map, <<date, begin + (i - 1) * slot>>, n * slot)
             m == Cardinality(Y)
  <2>1. Cardinality(Y) = n => i <= Rows - n + 1
      BY <1>1, <1>8, CellsInCounted
  <2>2. m = n
      BY <1>1, <1>10, <1>11
  <2> HIDE DEF Y
  <2> QED
      BY <2>1, <2>2
<1>13. i \in 1..(Rows - n + 1)
    BY <1>1, <1>12
<1> DEFINE w == WindowAt(q, i, d)
<1>14. w \in Candidates(Map, d)
    BY <1>7, <1>13, CandidatesAre DEF n
<1>15. w = Window(K, i, n)
    BY DEF WindowAt, K, n
<1>16. w.date = date /\ w.start = begin + (i - 1) * slot
  <2> HIDE DEF w
  <2>1. IsWindow(Window(K, i, n), K, date, i, n)
      BY <1>1, <1>8, <1>13, WindowFacts
  <2> QED
      BY <1>15, <2>1 DEF IsWindow
<1> HIDE DEF w
<1> QED
    BY <1>10, <1>14, <1>16


-----------------------------------------------------------------------------
(* The answers of a call                                                   *)

\* R lists the windows of a call, each before those it ranks before.
Listed(R, N, d) ==
    /\ N \in Nat /\ R \in [1..N -> Candidates(Map, d)]
    /\ \A w \in Candidates(Map, d) : \E m \in 1..N : R[m] = w
    /\ \A i, j \in 1..N : i < j => RanksBefore(R[i], R[j])

\* The answers of a call are what the loop selects from the list.
LEMMA AnswersAre ==
    ASSUME intervals \subseteq Interval, NEW d \in Lengths, NEW limit \in Limits
    PROVE  \E R, N : /\ Listed(R, N, d)
                     /\ Selected(rank_best_windows(Map, d, limit),
                                 Candidates(Map, d), R, N, limit, d)
<1> DEFINE C == Candidates(Map, d)
           N == Cardinality(C)
           O == RankOrder(Candidates(Map, d))
           R == Ordered(C, O)
<1>1. /\ IsFiniteSet(C) /\ TotalOrder(C, O)
      /\ \A a, b \in C : <<a, b>> \in O <=> RanksBefore(a, b)
    BY WindowsOrdered
<1>2. limit \in Nat
    BY WeekPlanAssumption
<1> HIDE DEF C, O
<1>3. /\ N \in Nat
      /\ \A x \in C : Before(C, O, x) \in 0..(N - 1)
      /\ \A x, y \in C : <<x, y>> \in O <=> Before(C, O, x) < Before(C, O, y)
      /\ \A m \in 0..(N - 1) : \E x \in C : Before(C, O, x) = m
    BY <1>1, OrderCounts
<1> DEFINE at(m) == CHOOSE x \in C : Before(C, O, x) = m - 1
<1>4. DOMAIN R = 1..N /\ (\A m \in 1..N : R[m] = at(m)) /\ R = [m \in 1..N |-> R[m]]
  <2>1. R = [m \in 1..N |-> at(m)]
      BY DEF Ordered, Before
  <2> HIDE DEF R, N, at
  <2> QED
      BY <2>1
<1> HIDE DEF R, N
<1>5. ASSUME NEW m \in 1..N PROVE R[m] \in C /\ Before(C, O, R[m]) = m - 1
  <2>1. m - 1 \in 0..(N - 1)
      BY <1>3
  <2>2. \E x \in C : Before(C, O, x) = m - 1
      BY <1>3, <2>1
  <2> QED
      BY <1>4, <2>2
<1>6. R \in [1..N -> C]
    BY <1>4, <1>5
<1>7. \A i, j \in 1..N : i < j => RanksBefore(R[i], R[j])
  <2> SUFFICES ASSUME NEW i \in 1..N, NEW j \in 1..N, i < j PROVE RanksBefore(R[i], R[j])
      OBVIOUS
  <2>1. Before(C, O, R[i]) < Before(C, O, R[j])
      BY <1>3, <1>5
  <2> QED
      BY <1>1, <1>3, <1>5, <2>1
<1>8. \A w \in C : \E m \in 1..N : R[m] = w
  <2> SUFFICES ASSUME NEW w \in C PROVE \E m \in 1..N : R[m] = w
      OBVIOUS
  <2>1. Before(C, O, w) \in 0..(N - 1)
      BY <1>3
  <2> DEFINE m == Before(C, O, w) + 1
  <2>2. m \in 1..N /\ m - 1 = Before(C, O, w)
      BY <1>3, <2>1
  <2> HIDE DEF m
  <2>3. R[m] \in C /\ Before(C, O, R[m]) = Before(C, O, w)
      BY <1>5, <2>2
  <2>4. ~(<<R[m], w>> \in O) /\ ~(<<w, R[m]>> \in O)
      BY <1>3, <2>1, <2>3
  <2>5. R[m] = w
      BY <1>1, <2>3, <2>4 DEF TotalOrder
  <2> QED
      BY <2>2, <2>5
<1>9. Listed(R, N, d)
    BY <1>3, <1>6, <1>7, <1>8 DEF Listed, C
<1>10. PICK sel : /\ Rounds(sel, R, N, limit, d)
                  /\ rank_best_windows(Map, d, limit) = sel[N]
  <2>1. R = Ordered(Candidates(Map, d), RankOrder(Candidates(Map, d)))
      BY DEF R, C, O
  <2>2. N \in Nat
      BY <1>3
  <2> QED
      BY <1>6, <2>1, <2>2, SelectionIsALoop
<1>11. Selected(sel[N], C, R, N, limit, d)
    BY <1>2, <1>3, <1>6, <1>10, RoundsSelect
<1> QED
    BY <1>9, <1>10, <1>11 DEF C

\* What the first answer is.
LEMMA FirstAnswerIsBest ==
    ASSUME intervals \subseteq Interval
    PROVE  FirstIsBest
<1> SUFFICES ASSUME NEW d \in Lengths, NEW limit \in Limits
             PROVE  LET answers == rank_best_windows(Map, d, limit)
                        best    == << answers[1].date, answers[1].start >>
                    IN  /\ (answers = << >>) = (Windows(Map, d) = {})
                        /\ answers # << >> =>
                             /\ best \in Windows(Map, d)
                             /\ answers[1].end = best[2] + d
                             /\ answers[1].minimum = Worst(Map, best, d)
                             /\ \A w \in Windows(Map, d) :
                                  \/ Worst(Map, w, d) < Worst(Map, best, d)
                                  \/ /\ Worst(Map, w, d) = Worst(Map, best, d)
                                     /\ Total(Map, w, d) <= Total(Map, best, d)
    BY DEF FirstIsBest
<1> DEFINE answers == rank_best_windows(Map, d, limit)
           best    == << answers[1].date, answers[1].start >>
           C == Candidates(Map, d)
<1>1. PICK R, N : Listed(R, N, d) /\ Selected(answers, C, R, N, limit, d)
    BY AnswersAre
<1>2. /\ N \in Nat /\ R \in [1..N -> C]
      /\ \A w \in C : \E m \in 1..N : R[m] = w
      /\ \A i, j \in 1..N : i < j => RanksBefore(R[i], R[j])
    BY <1>1 DEF Listed
<1>3. /\ answers \in Seq(C)
      /\ \A i \in 1..Len(answers) : \E k \in 1..N : answers[i] = R[k]
      /\ N > 0 => Len(answers) > 0 /\ answers[1] = R[1]
    BY <1>1 DEF Selected
<1>4. \A w \in C : <<w.date, w.start>> \in Windows(Map, d)
    BY CandidateFacts
<1>5. \A v \in Windows(Map, d) : \E w \in C : v = <<w.date, w.start>>
    BY WindowsAre
<1> HIDE DEF answers, C
<1>6. answers = << >> <=> N = 0
  <2>1. Len(answers) > 0 <=> N > 0
    <3>1. ASSUME Len(answers) > 0 PROVE N > 0
      <4>1. 1 \in 1..Len(answers)
          BY <1>3, <3>1
      <4>2. PICK k \in 1..N : answers[1] = R[k]
          BY <1>3, <4>1
      <4> QED
          BY <1>2, <4>2
    <3> QED
        BY <1>3, <3>1
  <2>2. answers = << >> <=> Len(answers) = 0
      BY <1>3
  <2>3. Len(answers) \in Nat
      BY <1>3
  <2> QED
      BY <1>2, <2>1, <2>2, <2>3
<1>7. Windows(Map, d) = {} <=> N = 0
  <2>1. ASSUME NEW v \in Windows(Map, d) PROVE N # 0
    <3>1. PICK w \in C : v = <<w.date, w.start>>
        BY <1>5
    <3>2. PICK m \in 1..N : R[m] = w
        BY <1>2
    <3> QED
        BY <1>2, <3>2
  <2>2. ASSUME N # 0 PROVE Windows(Map, d) # {}
    <3>1. 1 \in 1..N
        BY <1>2, <2>2
    <3> QED
        BY <1>2, <1>4, <3>1
  <2> QED
      BY <2>1, <2>2
<1>8. ASSUME N # 0
      PROVE  /\ best \in Windows(Map, d)
             /\ answers[1].end = best[2] + d
             /\ answers[1].minimum = Worst(Map, best, d)
             /\ \A v \in Windows(Map, d) :
                  \/ Worst(Map, v, d) < Worst(Map, best, d)
                  \/ /\ Worst(Map, v, d) = Worst(Map, best, d)
                     /\ Total(Map, v, d) <= Total(Map, best, d)
  <2> DEFINE first == answers[1]
  <2>1. 1 \in 1..N /\ first = R[1] /\ first \in C
      BY <1>2, <1>3, <1>8
  <2> HIDE DEF first
  <2>2. best = <<first.date, first.start>>
      BY DEF first
  <2>3. /\ best \in Windows(Map, d)
        /\ first.end = first.start + d
        /\ Worst(Map, best, d) = first.minimum
        /\ Total(Map, best, d) = first.sum
        /\ first.minimum \in Int /\ first.sum \in Int
      BY <2>1, <2>2, CandidateFacts DEF C
  <2>4. best[2] = first.start
      BY <2>2
  <2> HIDE DEF best
  <2>5. ASSUME NEW v \in Windows(Map, d)
        PROVE  \/ Worst(Map, v, d) < Worst(Map, best, d)
               \/ /\ Worst(Map, v, d) = Worst(Map, best, d)
                  /\ Total(Map, v, d) <= Total(Map, best, d)
    <3>1. PICK w \in C : v = <<w.date, w.start>>
        BY <1>5
    <3>2. /\ Worst(Map, v, d) = w.minimum
          /\ Total(Map, v, d) = w.sum
          /\ w.minimum \in Int /\ w.sum \in Int
        BY <3>1, CandidateFacts DEF C
    <3>3. PICK m \in 1..N : R[m] = w
        BY <1>2
    <3>4. \/ w.minimum < first.minimum
          \/ w.minimum = first.minimum /\ w.sum <= first.sum
      <4>1. CASE m = 1
          BY <2>1, <2>3, <3>3, <4>1
      <4>2. CASE m # 1
        <5>1. RanksBefore(first, w)
            BY <1>2, <2>1, <3>3, <4>2
        <5>2. \/ -first.minimum < -w.minimum
              \/ -first.minimum = -w.minimum /\ -first.sum <= -w.sum
            BY <2>3, <3>2, <5>1, RanksMeans
        <5> QED
            BY <2>3, <3>2, <5>2
      <4> QED
          BY <4>1, <4>2
    <3> QED
        BY <2>3, <3>2, <3>4
  <2> QED
      BY <2>3, <2>4, <2>5 DEF first
<1> QED
    BY <1>6, <1>7, <1>8 DEF answers

\* Windows of one length that share less than half of it start more than half
\* of it apart.
LEMMA StartsApart ==
    ASSUME NEW d \in Nat, NEW a, NEW b, a.date = b.date,
           a.start \in Int, b.start \in Int, a.end = a.start + d, b.end = b.start + d,
           ~TooSimilar(a, b, d)
    PROVE  2 * (b.start - a.start) > d \/ 2 * (a.start - b.start) > d
<1> DEFINE x == a.start
           y == b.start
<1>1. ~(Greatest(0, Least(x + d, y + d) - Greatest(x, y)) * 2 >= d)
    BY DEF TooSimilar, Overlap
<1> HIDE DEF x, y
<1>2. x \in Int /\ y \in Int
    BY DEF x, y
<1>3. 2 * (y - x) > d \/ 2 * (x - y) > d
    BY <1>1, <1>2 DEF Greatest, Least
<1> QED
    BY <1>3 DEF x, y

\* What the others are, and what is left out.
LEMMA AnswersAreDistinct ==
    ASSUME intervals \subseteq Interval
    PROVE  DistinctAndMaximal
<1> SUFFICES ASSUME NEW d \in Lengths, NEW limit \in Limits
             PROVE  LET answers == rank_best_windows(Map, d, limit)
                    IN  /\ \A i, j \in DOMAIN answers :
                             i < j /\ answers[i].date = answers[j].date =>
                                \/ 2 * (answers[j].start - answers[i].start) > d
                                \/ 2 * (answers[i].start - answers[j].start) > d
                        /\ limit > 0 => Len(answers) <= limit
                        /\ \A w \in Candidates(Map, d) \ Range(answers) :
                             \/ \E i \in DOMAIN answers : /\ RanksBefore(answers[i], w)
                                                          /\ TooSimilar(answers[i], w, d)
                             \/ Len(answers) = limit /\ RanksBefore(answers[limit], w)
    BY DEF DistinctAndMaximal
<1> DEFINE answers == rank_best_windows(Map, d, limit)
           C == Candidates(Map, d)
<1>1. PICK R, N : Listed(R, N, d) /\ Selected(answers, C, R, N, limit, d)
    BY AnswersAre
<1>2. /\ N \in Nat /\ R \in [1..N -> C]
      /\ \A w \in C : \E m \in 1..N : R[m] = w
      /\ \A i, j \in 1..N : i < j => RanksBefore(R[i], R[j])
    BY <1>1 DEF Listed
<1>3. /\ answers \in Seq(C)
      /\ limit > 0 => Len(answers) <= limit
      /\ \A i, j \in 1..Len(answers) : i < j => ~TooSimilar(answers[i], answers[j], d)
    BY <1>1 DEF Selected
<1>4. \A m \in 1..N :
         \/ \E i \in 1..Len(answers) : answers[i] = R[m]
         \/ \E i \in 1..Len(answers) : \E k \in 1..(m - 1) :
               answers[i] = R[k] /\ TooSimilar(answers[i], R[m], d)
         \/ /\ limit > 0 /\ Len(answers) = limit
            /\ \E k \in 1..(m - 1) : answers[limit] = R[k]
    BY <1>1 DEF Selected
<1> HIDE DEF answers
<1>5. DOMAIN answers = 1..Len(answers)
    BY <1>3
<1>6. ASSUME NEW i \in DOMAIN answers, NEW j \in DOMAIN answers,
             i < j, answers[i].date = answers[j].date
      PROVE  \/ 2 * (answers[j].start - answers[i].start) > d
             \/ 2 * (answers[i].start - answers[j].start) > d
  <2> DEFINE a == answers[i]
             b == answers[j]
  <2>1. a \in C /\ b \in C
      BY <1>3, <1>5
  <2>2. ~TooSimilar(a, b, d)
      BY <1>3, <1>5, <1>6
  <2>3. a.date = b.date
      BY <1>6
  <2> HIDE DEF a, b
  <2>4. a.start \in Int /\ a.end = a.start + d /\ b.start \in Int /\ b.end = b.start + d
      BY <2>1, CandidateFacts
  <2>5. 2 * (b.start - a.start) > d \/ 2 * (a.start - b.start) > d
      BY <2>2, <2>3, <2>4, LengthFacts, StartsApart
  <2> QED
      BY <2>5 DEF a, b
<1>7. ASSUME NEW w \in C \ Range(answers)
      PROVE  \/ \E i \in DOMAIN answers : /\ RanksBefore(answers[i], w)
                                          /\ TooSimilar(answers[i], w, d)
             \/ Len(answers) = limit /\ RanksBefore(answers[limit], w)
  <2> HIDE DEF C
  <2>1. PICK m \in 1..N : R[m] = w
      BY <1>2
  <2>2. \A i \in 1..Len(answers) : answers[i] # R[m]
      BY <1>5, <2>1 DEF Range
  <2>3. \A k \in 1..(m - 1) : RanksBefore(R[k], w)
      BY <1>2, <2>1
  <2>4. CASE \E i \in 1..Len(answers) : \E k \in 1..(m - 1) :
                answers[i] = R[k] /\ TooSimilar(answers[i], R[m], d)
    <3>1. PICK i \in 1..Len(answers) : \E k \in 1..(m - 1) :
                answers[i] = R[k] /\ TooSimilar(answers[i], R[m], d)
        BY <2>4
    <3> QED
        BY <1>5, <2>1, <2>3, <3>1
  <2>5. CASE /\ limit > 0 /\ Len(answers) = limit
             /\ \E k \in 1..(m - 1) : answers[limit] = R[k]
      BY <2>3, <2>5
  <2> QED
      BY <1>4, <2>2, <2>4, <2>5
<1> QED
    BY <1>3, <1>6, <1>7 DEF answers

\* The first of the best times is the most conservative window of the week: no
\* other has a larger minimum, nor the same and a larger average, and there is
\* an answer whenever any window of the length fits (rank_best_windows).
THEOREM BestIsFirst == MCSpec => []FirstIsBest
<1>1. InputOK => FirstIsBest
    BY FirstAnswerIsBest DEF InputOK
<1> QED
    BY <1>1, InputsTyped, PTL

\* No two best times share half of their time, no more are returned than asked
\* for, and every window left out ranks behind an answer that it is too similar
\* to or behind the last one of the limit (the loop of rank_best_windows).
THEOREM AnswersDistinct == MCSpec => []DistinctAndMaximal
<1>1. InputOK => DistinctAndMaximal
    BY AnswersAreDistinct DEF InputOK
<1> QED
    BY <1>1, InputsTyped, PTL
=============================================================================

----------------------------- MODULE DateProofs -----------------------------
(***************************************************************************)
(* The order of dates, and month_weeks in closed form.                     *)
(***************************************************************************)
EXTENDS ScheduleAlgorithms, TLAPS
LOCAL WF == INSTANCE WellFoundedInduction

\* A set of naturals has a least element: this stands in for induction.
LEMMA LeastNatural ==
    ASSUME NEW T \in SUBSET Nat, T # {}
    PROVE  \E x \in T : \A y \in T : x <= y
<1> DEFINE R == {pair \in Nat \X Nat : pair[1] < pair[2]}
<1>1. WF!IsWellFoundedOn(R, Nat)
    BY WF!NatLessThanWellFounded DEF WF!OpToRel
<1>2. \A m, n \in Nat : m < n => <<m, n>> \in R
    OBVIOUS
<1> HIDE DEF R
<1>3. PICK x \in T : \A y \in T : ~(<<y, x>> \in R)
    BY <1>1, WF!WFMin
<1>4. ASSUME NEW y \in T PROVE x <= y
  <2>1. x \in Nat /\ y \in Nat
      OBVIOUS
  <2>2. ~(y < x)
      BY <1>2, <1>3, <2>1
  <2> QED
      BY <2>1, <2>2
<1> QED
    BY <1>4

\* Dates of one year have a first one: a std::set of them has a begin().
LEMMA FirstOfDates ==
    ASSUME NEW S, S # {}, NEW y \in Int,
           \A d \in S : DateOk(d) /\ d.year = y /\ d.day \in Int
    PROVE  \E d \in S : \A e \in S : DateLeq(d, e)
<1> DEFINE key(d) == DateKey(d) - y * 512
           T == {key(d) : d \in S}
<1>1. ASSUME NEW d \in S PROVE DateKey(d) \in Int /\ key(d) \in Nat
  <2>1. d.year = y /\ d.month \in 1..12 /\ d.day \in Int /\ d.day >= 1
      BY DEF DateOk
  <2> QED
      BY <2>1 DEF DateKey
<1>2. T \in SUBSET Nat /\ T # {}
    BY <1>1
<1> HIDE DEF T
<1>3. PICK x \in T : \A z \in T : x <= z
    BY <1>2, LeastNatural
<1>4. PICK d \in S : x = key(d)
    BY <1>3 DEF T
<1>5. ASSUME NEW e \in S PROVE DateLeq(d, e)
  <2>1. key(d) <= key(e)
      BY <1>3, <1>4 DEF T
  <2> QED
      BY <1>1, <2>1 DEF DateLeq
<1> QED
    BY <1>5

-----------------------------------------------------------------------------
(* The display weeks of a month                                            *)

\* The days of a month are numbered in order, across years and leap days.
LEMMA DaysOfMonth ==
    ASSUME NEW month, month.year \in Int, MonthOk(month)
    PROVE  /\ SysDays(FirstDay(month)) \in Int
           /\ MonthLength(month.year, month.month) \in 28..31
           /\ \A d \in Int : SysDays([year |-> month.year, month |-> month.month, day |-> d])
                                = SysDays(FirstDay(month)) + d - 1
           /\ SysDays(LastDay(month))
                = SysDays(FirstDay(month)) + MonthLength(month.year, month.month) - 1
<1> DEFINE y == IF month.month > 2 THEN month.year ELSE month.year - 1
           m == (month.month + 9) % 12
           base == DaysBefore(y) + (153 * m + 2) \div 5
<1>1. month.month \in 1..12
    BY DEF MonthOk
<1>2. y \in Int /\ m \in 0..11
    BY <1>1
<1>3. base \in Int
  <2>1. DaysBefore(y) \in Int
      BY <1>2 DEF DaysBefore
  <2>2. (153 * m + 2) \div 5 \in Int
      BY <1>2
  <2> QED
      BY <2>1, <2>2
<1>4. \A d \in Int : SysDays([year |-> month.year, month |-> month.month, day |-> d])
                = base + d - 719469
    BY DEF SysDays
<1>5. MonthLength(month.year, month.month) \in 28..31
    BY <1>1 DEF MonthLength
<1> HIDE DEF base
<1>6. /\ SysDays(FirstDay(month)) = base + 1 - 719469
      /\ SysDays(LastDay(month)) = base + MonthLength(month.year, month.month) - 719469
    BY <1>4, <1>5 DEF FirstDay, LastDay
<1> QED
    BY <1>3, <1>4, <1>5, <1>6

\* A month starts less than a week after the start of a week.
LEMMA WeekOffsetFacts ==
    ASSUME NEW month, month.year \in Int, MonthOk(month), NEW start
    PROVE  WeekOffset(month, start) \in 0..6
<1>1. SysDays(FirstDay(month)) \in Int
    BY DaysOfMonth
<1>2. Weekday(SysDays(FirstDay(month))) \in 0..6
    BY <1>1 DEF Weekday
<1>3. configured_weekday(start) \in 0..1
    BY DEF configured_weekday
<1> QED
    BY <1>2, <1>3 DEF WeekOffset

\* How many weeks start at a cursor or after it.
WeeksFrom(month, cursor) ==
    IF cursor <= SysDays(LastDay(month))
    THEN (SysDays(LastDay(month)) - cursor) \div 7 + 1 ELSE 0

\* A sequence with one more element in front.
LEMMA FrontFacts ==
    ASSUME NEW x, NEW n \in Nat, NEW s, DOMAIN s = 1..n, s = [k \in 1..n |-> s[k]]
    PROVE  <<x>> \o s = [k \in 1..(n + 1) |-> IF k = 1 THEN x ELSE s[k - 1]]
<1> DEFINE S == {x} \cup {s[k] : k \in 1..n}
<1>1. s \in Seq(S) /\ Len(s) = n
    OBVIOUS
<1>2. <<x>> \in Seq(S) /\ Len(<<x>>) = 1
    OBVIOUS
<1> HIDE DEF S
<1> DEFINE t == <<x>> \o s
<1>3. t \in Seq(S) /\ Len(t) = n + 1 /\ \A k \in 1..(n + 1) : t[k] = IF k = 1 THEN x ELSE s[k - 1]
    BY <1>1, <1>2
<1>4. DOMAIN t = 1..(n + 1) /\ t = [k \in DOMAIN t |-> t[k]]
    BY <1>3
<1> HIDE DEF t
<1> QED
    BY <1>3, <1>4

\* The loop of month_weeks yields one week for every seven days from the start of
\* the week in which the month begins.  By the least number of weeks for which
\* the two could differ.
LEMMA MonthWeeksAre ==
    ASSUME NEW month, month.year \in Int, MonthOk(month), NEW start
    PROVE  LET from == SysDays(FirstDay(month)) - WeekOffset(month, start)
           IN  month_weeks(month, start) =
                [k \in 1..WeeksFrom(month, from) |-> ClippedWeek(month, from + 7 * (k - 1))]
<1> DEFINE last == SysDays(LastDay(month))
           W(c) == ClippedWeek(month, c)
           N(c) == WeeksFrom(month, c)
           closed(c) == [k \in 1..N(c) |-> W(c + 7 * (k - 1))]
           Step(f) == [c \in Int |-> IF c <= last THEN <<W(c)>> \o f[c + 7] ELSE << >>]
           from == SysDays(FirstDay(month)) - WeekOffset(month, start)
           loop == CHOOSE f : f = Step(f)
<1>1. last \in Int /\ from \in Int
    BY DaysOfMonth, WeekOffsetFacts
<1>2. month_weeks(month, start) = loop[from]
    BY DEF month_weeks
<1> HIDE DEF W, last, from
<1>3. \A c \in Int : /\ N(c) \in Nat
                     /\ c > last => N(c) = 0
                     /\ c <= last => N(c) = N(c + 7) + 1
    BY <1>1 DEF WeeksFrom, last
<1> HIDE DEF N
<1>4. \A c \in Int : closed(c) = IF c <= last THEN <<W(c)>> \o closed(c + 7) ELSE << >>
  <2>1. ASSUME NEW c \in Int, c > last PROVE closed(c) = << >>
    <3>1. N(c) = 0
        BY <1>3, <2>1
    <3> QED
        BY <3>1
  <2>2. ASSUME NEW c \in Int, c <= last PROVE closed(c) = <<W(c)>> \o closed(c + 7)
    <3> DEFINE s == closed(c + 7)
               n == N(c + 7)
    <3>1. n \in Nat /\ N(c) = n + 1
        BY <1>3, <2>2
    <3>2. DOMAIN s = 1..n /\ s = [k \in 1..n |-> s[k]]
        OBVIOUS
    <3>3. \A k \in 1..n : s[k] = W(c + 7 + 7 * (k - 1))
        OBVIOUS
    <3> HIDE DEF s
    <3>4. <<W(c)>> \o s = [k \in 1..(n + 1) |-> IF k = 1 THEN W(c) ELSE s[k - 1]]
        BY <3>1, <3>2, FrontFacts
    <3>5. \A k \in 1..(n + 1) : W(c + 7 * (k - 1)) = IF k = 1 THEN W(c) ELSE s[k - 1]
      <4>1. ASSUME NEW k \in 1..(n + 1), k # 1 PROVE s[k - 1] = W(c + 7 * (k - 1))
        <5>1. k - 1 \in 1..n /\ c + 7 + 7 * (k - 1 - 1) = c + 7 * (k - 1)
            BY <3>1, <4>1
        <5> QED
            BY <3>3, <5>1
      <4>2. c + 7 * (1 - 1) = c
          OBVIOUS
      <4> QED
          BY <4>1, <4>2
    <3>6. closed(c) = [k \in 1..(n + 1) |-> IF k = 1 THEN W(c) ELSE s[k - 1]]
        BY <3>1, <3>5
    <3> QED
        BY <3>4, <3>6 DEF s
  <2> HIDE DEF closed
  <2> QED
      BY <1>1, <2>1, <2>2
<1>5. loop = Step(loop)
  <2> DEFINE f == [c \in Int |-> closed(c)]
  <2> HIDE DEF closed
  <2>1. f = Step(f)
      BY <1>1, <1>4
  <2> HIDE DEF f, Step
  <2> QED
      BY <2>1
<1> HIDE DEF loop
<1>6. \A c \in Int : loop[c] = IF c <= last THEN <<W(c)>> \o loop[c + 7] ELSE << >>
    BY <1>5
<1> HIDE DEF closed, Step
<1>7. \A c \in Int : loop[c] = closed(c)
  <2> DEFINE T == {n \in Nat : \E c \in Int : N(c) = n /\ loop[c] # closed(c)}
  <2>1. SUFFICES ASSUME T # {} PROVE FALSE
      BY <1>1, <1>3
  <2>2. PICK n \in T : \A k \in T : n <= k
    <3>1. T \in SUBSET Nat
        OBVIOUS
    <3> HIDE DEF T
    <3> QED
        BY <2>1, <3>1, LeastNatural
  <2>3. PICK c \in Int : N(c) = n /\ loop[c] # closed(c)
      OBVIOUS
  <2>4. c <= last /\ loop[c + 7] # closed(c + 7)
      BY <1>1, <1>4, <1>6, <2>3
  <2>5. N(c + 7) \in Nat /\ N(c + 7) < n
      BY <1>3, <2>3, <2>4
  <2>6. N(c + 7) \in T
      BY <2>4, <2>5
  <2> QED
      BY <2>2, <2>5, <2>6
<1> QED
    BY <1>1, <1>2, <1>7 DEF closed, N, W, from

\* The calendar week in which a month begins.
Origin(m, begin) == SysDays(FirstDay(m)) - WeekOffset(m, begin)

\* A month has four to six weeks; the k-th starts and ends seven days after the
\* one before, clipped to the month.
LEMMA WeekFacts ==
    ASSUME NEW m, m.year \in Int, MonthOk(m), NEW begin
    PROVE  LET W     == month_weeks(m, begin)
               first == SysDays(FirstDay(m))
               last  == SysDays(LastDay(m))
               from  == Origin(m, begin)
               n     == (last - from) \div 7 + 1
           IN  /\ n \in 4..6 /\ DOMAIN W = 1..n /\ Len(W) = n
               /\ from \in Int /\ first - from \in 0..6 /\ last - first \in 27..30
               /\ \A k \in 1..n :
                    /\ W[k][1] = DayOfMonth(m, Greatest(from + 7 * (k - 1), first))
                    /\ W[k][2] = DayOfMonth(m, Least(from + 7 * (k - 1) + 6, last))
<1> DEFINE W     == month_weeks(m, begin)
           first == SysDays(FirstDay(m))
           last  == SysDays(LastDay(m))
           from  == Origin(m, begin)
           n     == (last - from) \div 7 + 1
<1>1. first \in Int /\ last \in Int /\ last - first \in 27..30
  <2>1. first \in Int /\ MonthLength(m.year, m.month) \in 28..31
        /\ last = first + MonthLength(m.year, m.month) - 1
      BY DaysOfMonth
  <2> HIDE DEF first, last
  <2> QED
      BY <2>1
<1>2. from \in Int /\ first - from \in 0..6
  <2>1. WeekOffset(m, begin) \in 0..6
      BY WeekOffsetFacts
  <2> HIDE DEF first
  <2> QED
      BY <1>1, <2>1 DEF Origin, first
<1>3. W = [k \in 1..WeeksFrom(m, from) |-> ClippedWeek(m, from + 7 * (k - 1))]
    BY MonthWeeksAre DEF Origin
<1>4. WeeksFrom(m, from) = n
  <2> HIDE DEF first, from
  <2> QED
      BY <1>1, <1>2 DEF WeeksFrom
<1> HIDE DEF W, from, first, last
<1>5. n \in 4..6
    BY <1>1, <1>2
<1>6. DOMAIN W = 1..n /\ Len(W) = n
    BY <1>3, <1>4, <1>5
<1>7. ASSUME NEW k \in 1..n
      PROVE  /\ W[k][1] = DayOfMonth(m, Greatest(from + 7 * (k - 1), first))
             /\ W[k][2] = DayOfMonth(m, Least(from + 7 * (k - 1) + 6, last))
  <2>1. W[k] = ClippedWeek(m, from + 7 * (k - 1))
      BY <1>3, <1>4
  <2> QED
      BY <2>1 DEF ClippedWeek, first, last
<1> QED
    BY <1>1, <1>2, <1>5, <1>6, <1>7 DEF W, from, first, last
=============================================================================

---------------------------- MODULE InputParsing ----------------------------
(***************************************************************************)
(* How the bot turns what users type into dates, months and times.         *)
(*                                                                         *)
(* A text is the sequence of the integers that sscanf reads from it; a     *)
(* text that does not match the format yields fewer of them.  Text after   *)
(* the last integer is never looked at, and an integer may be negative or  *)
(* longer than the field it is meant for.  A parser returns the set of its *)
(* result: empty where the code refuses the text.                          *)
(***************************************************************************)
EXTENDS LocalDates, Sequences

\* The constructors of std::chrono store what they get in a short and in two
\* unsigned chars.
Short == (-(2^15))..(2^15 - 1)
Byte  == 0..(2^8 - 1)

NarrowYear(y) == ((y + 2^15) % 2^16) - 2^15
NarrowByte(n) == n % 2^8

Narrowed(typed) == [year  |-> NarrowYear(typed[1]),
                    month |-> NarrowByte(typed[2]),
                    day   |-> NarrowByte(typed[3])]

\* Mutant: the result is not tested with ok().
ParseUntested(typed) == IF Len(typed) = 3 THEN {Narrowed(typed)} ELSE {}

parse_date(typed) ==
    IF Len(typed) = 3 THEN {d \in {Narrowed(typed)} : DateOk(d)} ELSE {}

\* Minutes since midnight; 24:00 is the end of the day.
parse_time(typed) ==
    IF /\ Len(typed) = 2
       /\ typed[1] \in 0..24
       /\ typed[2] \in 0..59
       /\ typed[1] = 24 => typed[2] = 0
    THEN {typed[1] * 60 + typed[2]}
    ELSE {}

time_text(minute) == <<minute \div 60, minute % 60>>

\* The month of a new calendar: create_calendar tests it, not the bot.
parse_month(typed) ==
    IF Len(typed) = 2
    THEN {[year |-> NarrowYear(typed[1]), month |-> NarrowByte(typed[2])]}
    ELSE {}
=============================================================================

------------------------------- MODULE MCBot -------------------------------
(***************************************************************************)
(* Instances of DiscordBot for TLC: calendars of February 2027, which has  *)
(* four weeks, with two members.                                           *)
(***************************************************************************)
EXTENDS BotProperties, TLC

CONSTANTS t1, t2, owner, guest, ch1

MCGuildOf == (ch1 :> "g1")

Feb(d) == [year |-> 2027, month |-> 2, day |-> d]
FirstOfFeb == <<2027, 2, 1>>
Six   == <<18, 0>>
Seven == <<19, 0>>

MCDates == {Feb(1), Feb(2), [Feb(1) EXCEPT !.month = 3]}
MCSpans == {[start |-> 1080, end |-> 1140]}
MCIdentities == {[mode |-> "anonymous", alias |-> NULL, name |-> "Name"]}

NewCalendarCommand ==
    [op |-> "create", user |-> owner, channel |-> ch1, title |-> 8,
     month |-> <<2027, 2>>, timezone |-> "UTC", start |-> 18, end |-> 20]
Adds(op, c, u, date) ==
    [op |-> op, calendar |-> c, user |-> u, name |-> "Name", date |-> date,
     start |-> Six, end |-> Seven]
Presses(op, u) == [op |-> op, calendar |-> 1, user |-> u]
Attendees(op, u, date) == [op |-> op, calendar |-> 1, user |-> u, date |-> date]

NoSuchMonth == [NewCalendarCommand EXCEPT !.month = <<2027, 13>>]

MCConfigs == {CommandConfig(NewCalendarCommand), CommandConfig(NoSuchMonth)}

\* What changes something, and what the changes are seen by.
Pressing == {Presses(op, guest) : op \in {"prev", "next", "clear", "mine", "press_best"}}
Asking   == {[op |-> "view", calendar |-> 1, week |-> 1],
             [op |-> "best", calendar |-> 1, week |-> 5, duration |-> 60],
             [op |-> "best", calendar |-> 1, week |-> 1, duration |-> 45],
             Attendees("attendees", owner, FirstOfFeb),
             Attendees("attendees_submit", guest, FirstOfFeb)}
\* What is refused, or answered at once.
Refused  == {[NewCalendarCommand EXCEPT !.month = <<2027>>],
             NoSuchMonth,
             Adds("add", 1, guest, <<2027, 2, 30>>),
             Adds("submit", 1, guest, <<2027, 3, 1>>),
             [Adds("add", 1, guest, FirstOfFeb) EXCEPT !.end = <<24, 30>>],
             Attendees("attendees", owner, <<2027, 2>>)}
            \cup {Presses(op, guest) : op \in {"press_add", "press_attendees",
                                               "press_unknown", "form_unknown"}}

Everything ==
    {NewCalendarCommand, Adds("add", 1, guest, FirstOfFeb),
     Adds("submit", 2, owner, <<2027, 2, 258>>)}
    \cup Pressing \cup Asking \cup Refused

\* At the last week of the month, and at the first one with a lost edit.
EndsOfMonth == {<<3, 3>>, <<0, 1>>}
AtFirstWeek == {<<0, 0>>}

\* Members add to one calendar.
Joining == {Adds("add", 1, u, FirstOfFeb) : u \in Users} \cup {NewCalendarCommand}
=============================================================================

---------------------------- MODULE BotProperties ----------------------------
(***************************************************************************)
(* What users may rely on when they see the bot's answers and pictures.    *)
(***************************************************************************)
EXTENDS DiscordBot

Stages == {"free", "created", "saved", "cleared", "calendar", "count", "heatmap",
           "reference", "referenced", "updated", "shown_week", "last_week",
           "best_week", "ranked", "listed", "titled", "mine", "ended"}

\* The tables, the calls, the handlers and the pictures have their types; the
\* weeks that handlers ask for and pictures show are of the range that clients may name.
BotTypeOK ==
    /\ TypeOK
    /\ DOMAIN task = Threads
    /\ \A t \in Threads :
          /\ DOMAIN task[t] = DOMAIN Free
          /\ task[t].at \in Stages
          /\ task[t].input \in Optional(Interactions)
          /\ task[t].calendar \in 0..MaxRowId
          /\ task[t].week \in Optional(Weeks)
          /\ task[t].ref \in Optional(MessageRow)
          /\ task[t].delivered \in BOOLEAN
          /\ task[t].member \in 0..MaxRowId
          /\ task[t].at = "free" => task[t] = Free /\ call[t] = Idle
    /\ \A c \in DOMAIN board :
          /\ c \in 1..seq["calendars"]
          /\ board[c].week \in Weeks
          /\ board[c].counted \subseteq 1..seq["participants"]
    /\ awaiting \subseteq DOMAIN board
    /\ alone \subseteq Threads
    /\ received \in 0..MaxInteractions

Ended(t) == task[t].at = "ended" /\ task[t].input # NULL

-----------------------------------------------------------------------------
\* The stored reference of a calendar leads to the message that was posted for
\* it, in its channel, at a week of its month, although it is stored by a
\* callback and rewritten by every update, of any number of calendars at a time
\* (handle_schedule, lines 310-328; update_public_message, lines 278-280).
ReferenceFindsItsMessage ==
    \A c \in DOMAIN messages :
        /\ messages[c].message = MessageOf(c)
        /\ messages[c].channel = calendars[c].channel
        /\ messages[c].guild = calendars[c].guild
        /\ messages[c].week < WeekCount(calendars[c])
        /\ c \in DOMAIN board

\* Whoever does something is answered (but for a form the bot does not know),
\* and "Availability saved." means that what was typed is stored, until its
\* member or calendar goes.  A second answer can only be the error that the
\* calendar's message is not known (yet): whenever it is, the whole update goes
\* through.  An error first means that nothing like it is stored, as long as
\* there are row ids (handle_schedule, handle_button, handle_form).
StoredAsTyped(i) ==
    {v \in DOMAIN intervals :
        /\ intervals[v].calendar = i.calendar
        /\ participants[intervals[v].participant].user = i.user
        /\ intervals[v].date \in parse_date(i.date)
        /\ intervals[v].span.start \in parse_time(i.start)
        /\ intervals[v].span.end \in parse_time(i.end)}

AnsweredAsDone ==
    \A t \in Threads : Ended(t) =>
        LET i == task[t].input
            said == task[t].said
        IN  /\ said = << >> <=> i.op = "form_unknown"
            /\ Len(said) <= 2
            /\ Len(said) = 2 => said[2] = "error" /\ task[t].ref = NULL
            /\ (/\ i.op \in {"add", "submit"} /\ said[1] = "saved"
                /\ task[t].member \in DOMAIN participants) =>
                  \E v \in StoredAsTyped(i) : intervals[v].participant = task[t].member
            /\ i.op \in {"add", "submit"} /\ t \in alone /\ said[1] = "error" =>
                  StoredAsTyped(i) = {} \/ ~CanDraw("intervals")

-----------------------------------------------------------------------------
\* A handler that had the bot to itself and updated the public message to the
\* end, with an edit that Discord delivered.
Refreshed(t) == /\ Ended(t)
               /\ t \in alone
               /\ task[t].ref # NULL
               /\ task[t].delivered

\* Then the picture shows the stored week and counts who is in the database,
\* whatever was lost or overtaken before (update_public_message).
AnsweredChangeIsShown ==
    \A t \in Threads : Refreshed(t) =>
        LET c == task[t].calendar
            week == month_weeks(calendars[c].config.month,
                                calendars[c].config.week_start)[messages[c].week + 1]
        IN  board[c] = [week |-> messages[c].week,
                        counted |-> {intervals[v].participant :
                                        v \in list_intervals(c, week[1], week[2])},
                        total |-> Cardinality(ParticipantsIn(c))]

\* Then only navigation has moved the week: by one, and not at all just at the
\* first or at the last week of the month (handle_button, lines 428-444).
OnlyNavigationMovesTheWeek ==
    \A t \in Threads : Refreshed(t) =>
        LET c == task[t].calendar
            from == task[t].ref.week
            to == messages[c].week
        IN  CASE task[t].input.op = "prev" -> from - to = IF from = 0 THEN 0 ELSE 1
              [] task[t].input.op = "next" ->
                    to - from = IF from = WeekCount(calendars[c]) - 1 THEN 0 ELSE 1
              [] OTHER -> to = from

\* Again and again every handler is through: each interaction is handled to its
\* end, or lost in a crash, and no handler waits for another or tries for ever.
EveryInteractionEnds == []<>(\A t \in Threads : task[t].at = "free")

\* While members only add, no picture is replaced by an older one of the same
\* week (docs/architecture.md:276: "Per-calendar serialization prevents older
\* output overwriting newer output.").
PictureNeverOlder ==
    [][\A c \in DOMAIN board :
          board'[c].week = board[c].week => board[c].counted \subseteq board'[c].counted
      ]_board
=============================================================================

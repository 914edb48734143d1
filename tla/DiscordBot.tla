----------------------------- MODULE DiscordBot -----------------------------
(***************************************************************************)
(* The handlers of DiscordBot over ScheduleService, and what Discord shows *)
(* of each calendar.                                                       *)
(*                                                                         *)
(* The library runs handlers and callbacks on the threads of its pool.  A  *)
(* handler is a sequence of calls of the service; what it does between two *)
(* of them - its tests, its replies and edits - belongs to the step that   *)
(* takes the answer of the first.  The requests for one message are sent   *)
(* to Discord in order, so an edit counts as shown when it is made, unless *)
(* it is lost: then only a line of the log says so.                        *)
(***************************************************************************)
EXTENDS ServiceProperties, InputParsing

CONSTANTS
    Interactions,    \* what users do
    MaxInteractions, \* bound of the model checker on how often
    DiscordMayFail,  \* whether Discord may refuse or lose a message or an edit
    LeftAt           \* weeks <<stored, shown>> at which calendar 1 was left

VARIABLES
    task,     \* what each thread handles
    board,    \* calendar id -> the picture its message shows
    awaiting, \* posted calendars whose reference has still to be fetched
    alone,    \* the threads whose handler has overlapped no other
    received  \* interactions so far

botVars == <<task, board, awaiting, alone, received>>

-----------------------------------------------------------------------------
(* Interactions.  Typed text is what InputParsing makes of it; the ranges  *)
(* are those that register_commands has Discord enforce.                   *)

Typed == Seq(Int)

CreateCommand == [op : {"create"}, user : Users, channel : Channels, title : 0..100,
                  month : Typed, timezone : STRING, start : 0..23, end : 1..24]
AddCommand  == [op : {"add", "submit"}, calendar : RowIds, user : Users,
                name : STRING, date : Typed, start : Typed, end : Typed]
ViewCommand == [op : {"view"}, calendar : RowIds, week : 1..6]
BestCommand == [op : {"best"}, calendar : RowIds, week : 1..6, duration : 15..720]
AttendeesCommand == [op : {"attendees", "attendees_submit"}, calendar : RowIds,
                     user : Users, date : Typed]
ClearCommand == [op : {"clear"}, calendar : RowIds, user : Users]
Press == [op : {"press_add", "press_attendees", "mine", "prev", "next",
                "press_best", "press_unknown", "form_unknown"},
          calendar : RowIds, user : Users]

Interaction == CreateCommand \cup AddCommand \cup ViewCommand \cup BestCommand
                \cup AttendeesCommand \cup ClearCommand \cup Press

\* The id that Discord gave the message of a calendar.
MessageOf(c) == 100 + c

ASSUME BotAssumption ==
    /\ Interactions \subseteq Interaction
    /\ NULL \notin Interactions
    /\ MaxInteractions \in Nat
    /\ DiscordMayFail \in BOOLEAN
    /\ LeftAt \subseteq Weeks \X Weeks
    /\ LeftAt # {} => 1 \in RowIds
    /\ 0..5 \subseteq Weeks
    /\ \A c \in RowIds : MessageOf(c) \in MessageIds

\* A thread: the call it waits for, what it handles, the calendar, the week to
\* show (NULL: the one that is shown), the reference it has read, its answers,
\* whether its edit was delivered and, a ghost, for whom it has saved (0: nobody).
Free == [at |-> "free", input |-> NULL, calendar |-> 0, week |-> NULL,
         ref |-> NULL, said |-> << >>, delivered |-> TRUE, member |-> 0]

-----------------------------------------------------------------------------
(* The calls that handlers make                                            *)

The(S) == CHOOSE x \in S : TRUE

CommandConfig(i) ==
    [month |-> The(parse_month(i.month)), timezone |-> i.timezone,
     start_minute |-> i.start * 60, end_minute |-> i.end * 60, slot_minutes |-> 30,
     week_start |-> "monday", modes |-> {"anonymous"}]

CreateCall(i) == [op |-> "create", user |-> i.user, channel |-> i.channel,
                  title |-> i.title, description |-> 0, config |-> CommandConfig(i)]

AddCall(i) ==
    [op |-> "add", calendar |-> i.calendar, user |-> i.user,
     identity |-> [mode |-> "anonymous", alias |-> NULL, name |-> i.name],
     dates |-> parse_date(i.date),
     span |-> [start |-> The(parse_time(i.start)), end |-> The(parse_time(i.end))]]

CallOf(op, c)     == [op |-> op, calendar |-> c]
UserCall(op, i)   == [op |-> op, calendar |-> i.calendar, user |-> i.user]
DayCall(i)        == [op |-> "day", calendar |-> i.calendar, user |-> i.user,
                      date |-> The(parse_date(i.date))]
HeatmapCall(c, w) == [op |-> "heatmap", calendar |-> c, week |-> w]

\* The numbers that commands count from 1.
WeekIndex(n) == IF n < 1 THEN 0 ELSE n - 1

\* The thread goes on as `now`, waiting for a call, or is through.
Waits(t, now, stage, r) ==
    /\ task' = [task EXCEPT ![t] = [now EXCEPT !.at = stage]]
    /\ call' = [call EXCEPT ![t] = Started(r)]

Ends(t, now) ==
    /\ task' = [task EXCEPT ![t] = [now EXCEPT !.at = "ended"]]
    /\ call' = [call EXCEPT ![t] = Idle]

Says(now, answer) == [now EXCEPT !.said = Append(@, answer)]

Replies(t, now, answer) == Ends(t, Says(now, answer))

BotOnly == UNCHANGED <<db, calendar_cache_, writes, received, alone>>
Silent  == BotOnly /\ UNCHANGED <<board, awaiting>>

-----------------------------------------------------------------------------
(* An interaction arrives: its texts are parsed before anything is called  *)

Unparsed(i) ==
    CASE i.op = "create" -> parse_month(i.month) = {}
      [] i.op \in {"add", "submit"} -> {} \in {parse_date(i.date), parse_time(i.start),
                                               parse_time(i.end)}
      [] i.op \in {"attendees", "attendees_submit"} -> parse_date(i.date) = {}
      [] OTHER -> FALSE

\* What is answered without any call, or not at all.
AnsweredAtOnce == {"press_add", "press_attendees", "press_unknown", "form_unknown"}

\* The first call of each handler that makes one, and the stage that awaits it.
Opening(i) ==
    CASE i.op = "create" -> <<"created", CreateCall(i)>>
      [] i.op \in {"add", "submit"} -> <<"saved", AddCall(i)>>
      [] i.op = "view" -> <<"calendar", CallOf("view", i.calendar)>>
      [] i.op = "best" -> <<"ranked", HeatmapCall(i.calendar, WeekIndex(i.week))>>
      [] i.op \in {"attendees", "attendees_submit"} -> <<"listed", DayCall(i)>>
      [] i.op = "clear" -> <<"cleared", UserCall("clear", i)>>
      [] i.op = "mine" -> <<"mine", UserCall("mine", i)>>
      [] i.op \in {"prev", "next"} -> <<"shown_week", CallOf("message", i.calendar)>>
      [] i.op = "press_best" -> <<"best_week", CallOf("message", i.calendar)>>

\* The texts and numbers of the interactions are among the values of the service.
ASSUME OpeningAssumption ==
    \A i \in Interactions :
        ~Unparsed(i) /\ i.op \notin AnsweredAtOnce => Opening(i)[2] \in Request

Arrived(i) ==
    [Free EXCEPT !.input = i,
                 !.calendar = IF i.op = "create" THEN 0 ELSE i.calendar,
                 !.week = CASE i.op = "view" -> WeekIndex(i.week)
                            [] i.op = "create" -> 0
                            [] OTHER -> NULL]

\* Ghost: which handlers have the bot to themselves.
Meets(t) == alone' = IF \A u \in Threads : task[u].at = "free" THEN {t} ELSE {}

Receive(t, i) ==
    /\ task[t].at = "free"
    /\ received < MaxInteractions
    /\ received' = received + 1
    /\ Meets(t)
    /\ CASE Unparsed(i) -> Replies(t, Arrived(i), "error")
         [] i.op \in {"press_add", "press_attendees"} -> Replies(t, Arrived(i), "modal")
         [] i.op = "press_unknown" -> Replies(t, Arrived(i), "unavailable")
         [] i.op = "form_unknown" -> Ends(t, Arrived(i))
         [] OTHER -> Waits(t, Arrived(i), Opening(i)[1], Opening(i)[2])
    /\ UNCHANGED <<db, calendar_cache_, writes, board, awaiting>>

-----------------------------------------------------------------------------
(* A call is answered                                                      *)

Got(t, stage) == /\ task[t].at = stage
                 /\ call[t].pc = "done"
                 /\ call[t].code = "ok"
Value(t) == call[t].value

\* Mutant: a call that fails is made again.
CatchRetries(t) ==
    /\ task[t].at # "referenced"
    /\ call[t].pc = "done"
    /\ call[t].code # "ok"
    /\ Waits(t, task[t], task[t].at, call[t].req)
    /\ Silent

\* catch: whatever was said before, the error is said too.
Catch(t) ==
    /\ task[t].at # "referenced"
    /\ call[t].pc = "done"
    /\ call[t].code # "ok"
    /\ Replies(t, task[t], "error")
    /\ Silent

-----------------------------------------------------------------------------
(* public_message: calendar(), week_count(), weekly_heatmap()              *)

public_message(t, now) == Waits(t, now, "calendar", CallOf("view", now.calendar))

GotCalendar(t) ==
    /\ Got(t, "calendar")
    /\ Waits(t, task[t], "count", CallOf("view", task[t].calendar))
    /\ Silent

GotCount(t) ==
    /\ Got(t, "count")
    /\ Waits(t, task[t], "heatmap", HeatmapCall(task[t].calendar, task[t].week))
    /\ Silent

Picture(t) == [week |-> task[t].week, counted |-> Value(t).counted,
               total |-> Value(t).total]

Created(t) ==
    /\ Got(t, "created")
    /\ public_message(t, [task[t] EXCEPT !.calendar = call[t].id])
    /\ Silent

\* The message of a new calendar is posted, and its reference is asked for.
Post(t) ==
    /\ Got(t, "heatmap")
    /\ task[t].input.op = "create"
    /\ Replies(t, task[t], "posted")
    /\ \/ /\ board' = Put(board, task[t].calendar, Picture(t))
          /\ awaiting' = awaiting \cup {task[t].calendar}
       \/ DiscordMayFail /\ UNCHANGED <<board, awaiting>>
    /\ BotOnly

Preview(t) ==
    /\ Got(t, "heatmap")
    /\ task[t].input.op = "view"
    /\ Replies(t, task[t], "preview")
    /\ Silent

-----------------------------------------------------------------------------
(* The reference to a message arrives in a callback of its own             *)

\* Mutant: the callback takes the calendar that was created last.
LatestReference(c) ==
    [guild |-> calendars[c].guild, channel |-> calendars[c].channel,
     message |-> MessageOf(seq["calendars"]), week |-> 0]

Reference(c) ==
    [guild |-> calendars[c].guild, channel |-> calendars[c].channel,
     message |-> MessageOf(c), week |-> 0]

Callback(t, c) ==
    /\ task[t].at = "free"
    /\ c \in awaiting
    /\ awaiting' = awaiting \ {c}
    /\ \/ /\ Meets(t)
          /\ Waits(t, [Free EXCEPT !.calendar = c], "referenced",
                   [op |-> "set_message", calendar |-> c, message |-> Reference(c)])
       \/ DiscordMayFail /\ UNCHANGED <<task, call, alone>>
    /\ UNCHANGED <<db, calendar_cache_, writes, board, received>>

\* No handler catches what this call throws.
Referenced(t) ==
    /\ task[t].at = "referenced"
    /\ call[t].pc = "done"
    /\ Ends(t, task[t])
    /\ Silent

-----------------------------------------------------------------------------
(* update_public_message: the reference, public_message, the edit and the  *)
(* reference with the week that is shown now                               *)

update_public_message(t, now, requested) ==
    Waits(t, [now EXCEPT !.week = requested], "reference",
          CallOf("message", now.calendar))

\* Mutant: an update goes to the first week.
FirstWeek(requested, ref) == IF requested = NULL THEN 0 ELSE requested

WeekToShow(requested, ref) == IF requested = NULL THEN ref.week ELSE requested

GotReference(t) ==
    /\ Got(t, "reference")
    /\ \/ /\ Value(t) = NULL
          /\ Replies(t, task[t], "error")
       \/ /\ Value(t) # NULL
          /\ public_message(t, [task[t] EXCEPT !.ref = Value(t),
                                               !.week = WeekToShow(@, Value(t))])
    /\ Silent

Updating == {"add", "submit", "clear", "prev", "next"}

\* Mutant: the reference is written back as it was read.
Unmoved(ref, week) == ref

Updated(ref, week) == [ref EXCEPT !.week = week]

Edit(t) ==
    /\ Got(t, "heatmap")
    /\ task[t].input.op \in Updating
    /\ \E delivered \in {TRUE} \cup {~DiscordMayFail} :
          /\ board' = IF delivered THEN Put(board, task[t].calendar, Picture(t)) ELSE board
          /\ Waits(t, [task[t] EXCEPT !.delivered = delivered], "updated",
                   [op |-> "set_message", calendar |-> task[t].calendar,
                    message |-> Updated(task[t].ref, task[t].week)])
    /\ UNCHANGED awaiting
    /\ BotOnly

EndUpdate(t) ==
    /\ Got(t, "updated")
    /\ Ends(t, task[t])
    /\ Silent

-----------------------------------------------------------------------------
(* Commands, buttons and forms that change something: the answer first,    *)
(* then the update                                                         *)

Saved(t) ==
    /\ Got(t, "saved")
    /\ update_public_message(t, [Says(task[t], "saved") EXCEPT !.member = call[t].pid],
                             NULL)
    /\ Silent

Cleared(t) ==
    /\ Got(t, "cleared")
    /\ update_public_message(t, Says(task[t], "cleared"), NULL)
    /\ Silent

\* Mutants: an unsigned week steps below 0; the last week is not a stop.
PrevUnchecked(week) == (week - 1) % 2^30
NextUnchecked(week, count) == week + 1

PrevWeek(week) == IF week = 0 THEN 0 ELSE week - 1
NextWeek(week, count) == IF week + 1 < count THEN week + 1 ELSE count - 1

GotShownWeek(t) ==
    /\ Got(t, "shown_week")
    /\ LET now == Says(task[t], "moving")
       IN  \/ /\ Value(t) = NULL
              /\ Replies(t, task[t], "error")
           \/ /\ Value(t) # NULL
              /\ task[t].input.op = "prev"
              /\ update_public_message(t, now, PrevWeek(Value(t).week))
           \/ /\ Value(t) # NULL
              /\ task[t].input.op = "next"
              /\ Waits(t, [now EXCEPT !.week = Value(t).week], "last_week",
                       CallOf("view", task[t].calendar))
    /\ Silent

WeekCount(calendar) ==
    Len(month_weeks(calendar.config.month, calendar.config.week_start))

GotLastWeek(t) ==
    /\ Got(t, "last_week")
    /\ update_public_message(t, task[t], NextWeek(task[t].week, WeekCount(Value(t))))
    /\ Silent

-----------------------------------------------------------------------------
(* Those that only look                                                    *)

GotBestWeek(t) ==
    /\ Got(t, "best_week")
    /\ Waits(t, task[t], "ranked",
             HeatmapCall(task[t].calendar,
                         IF Value(t) = NULL THEN 0 ELSE Value(t).week))
    /\ Silent

\* best_windows refuses a duration that is not a whole number of slots.
Duration(i) == IF i.op = "best" THEN i.duration ELSE 60

Ranking(t) ==
    /\ Got(t, "ranked")
    /\ Replies(t, task[t], IF ValidDuration(call[t].cal.config, Duration(task[t].input))
                           THEN "best" ELSE "error")
    /\ Silent

Listed(t) ==
    /\ Got(t, "listed")
    /\ Waits(t, task[t], "titled", CallOf("view", task[t].calendar))
    /\ Silent

Looked(t) ==
    /\ Got(t, "mine") \/ Got(t, "titled")
    /\ Replies(t, task[t], "list")
    /\ Silent

-----------------------------------------------------------------------------
(* The bot                                                                 *)

Leave(t) ==
    /\ task[t].at = "ended"
    /\ task' = [task EXCEPT ![t] = Free]
    /\ UNCHANGED call
    /\ Silent

\* What the handlers and the callbacks were doing is lost; Discord keeps the
\* messages.
Dies ==
    /\ Crash
    /\ task' = [t \in Threads |-> Free]
    /\ awaiting' = {}
    /\ UNCHANGED <<board, alone, received>>

\* A new database, or that of an earlier process: calendar 1, with nobody in
\* it, was paged to one of its weeks and may show another if an edit was lost.
LeftCalendar(row, week, shown) ==
    /\ {week, shown} \subseteq 0..(WeekCount(row) - 1)
    /\ guilds = {row.guild}
    /\ channels = [ch \in {row.channel} |-> row.guild]
    /\ calendars = [c \in {1} |-> row]
    /\ messages = [c \in {1} |-> [guild |-> row.guild, channel |-> row.channel,
                                  message |-> MessageOf(1), week |-> week]]
    /\ seq = [table \in Tables |-> IF table = "calendars" THEN 1 ELSE 0]
    /\ participants = << >> /\ intervals = << >>
    /\ events = << >> /\ attendance = << >>
    /\ board = [c \in {1} |-> [week |-> shown, counted |-> {}, total |-> 0]]

BotInit ==
    /\ \/ LeftAt = {} /\ RepoInit /\ board = << >>
       \/ \E row \in {Row(CreateCall(i)) : i \in {j \in Interactions :
                        j.op = "create" /\ ~Unparsed(j) /\ CreateAccepted(CreateCall(j))}},
             left \in LeftAt : LeftCalendar(row, left[1], left[2])
    /\ calendar_cache_ = << >>
    /\ call = [t \in Threads |-> Idle]
    /\ writes = 0
    /\ task = [t \in Threads |-> Free]
    /\ awaiting = {}
    /\ alone = {}
    /\ received = 0

Calls(t) == (Lookup(t) \/ Writing(t) \/ Reading(t)) /\ UNCHANGED botVars

Handle(t) == \/ Catch(t) \/ Created(t) \/ GotCalendar(t) \/ GotCount(t)
             \/ Post(t) \/ Preview(t) \/ Edit(t) \/ EndUpdate(t) \/ Referenced(t)
             \/ GotReference(t) \/ Saved(t) \/ Cleared(t) \/ GotShownWeek(t)
             \/ GotLastWeek(t) \/ GotBestWeek(t) \/ Ranking(t) \/ Listed(t)
             \/ Looked(t) \/ Leave(t)

Act(t) == Calls(t) \/ Handle(t)

BotNext == \/ Dies
           \/ \E t \in Threads : \/ Act(t)
                                 \/ \E i \in Interactions : Receive(t, i)
                                 \/ \E c \in awaiting : Callback(t, c)

BotSpec == BotInit /\ [][BotNext]_<<vars, botVars>>

\* A thread that handles something is scheduled again and again; nothing makes
\* a user act or Discord answer.
FairBotSpec == BotSpec /\ \A t \in Threads : WF_<<call, task>>(Act(t))
=============================================================================

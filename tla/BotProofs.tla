------------------------------ MODULE BotProofs ------------------------------
(***************************************************************************)
(* What holds of the bot for any number of threads, interactions and       *)
(* calendars, whatever Discord loses and whenever the process dies.        *)
(***************************************************************************)
EXTENDS BotProperties, ServiceSafety, SequenceTheorems

-----------------------------------------------------------------------------
(* What a handler relies on at each of its stages                          *)

\* The call that a handler waits for.
StageOp(at) ==
    CASE at = "created" -> "create"
      [] at = "saved" -> "add"
      [] at = "cleared" -> "clear"
      [] at \in {"calendar", "count", "last_week", "titled"} -> "view"
      [] at \in {"heatmap", "ranked"} -> "heatmap"
      [] at \in {"reference", "shown_week", "best_week"} -> "message"
      [] at \in {"referenced", "updated"} -> "set_message"
      [] at = "listed" -> "day"
      [] at = "mine" -> "mine"

Through == {"free", "ended"}

\* A reference that leads to the posted message of a calendar.
Leads(c, ref) ==
    /\ c \in DOMAIN calendars
    /\ c \in DOMAIN board
    /\ ref \in MessageRow
    /\ ref.message = MessageOf(c)
    /\ ref.channel = calendars[c].channel
    /\ ref.guild = calendars[c].guild
    /\ ref.week < WeekCount(calendars[c])

WeekOf(c, week) == c \in DOMAIN calendars /\ week < WeekCount(calendars[c])

\* What a call of the bot has read or answered, and what it is to write.
AnswerOK(c) ==
    /\ c.pc = "invalidate" => c.req.op \in WriteOps
    /\ c.req.op = "create" /\ c.pc = "invalidate" => c.id \in DOMAIN calendars
    /\ c.req.op = "create" /\ c.pc = "done" /\ c.code = "ok" =>
            c.id \in DOMAIN calendars
    /\ c.req.op = "view" /\ c.pc = "done" /\ c.code = "ok" =>
            c.cal \in CalendarRow /\ c.value = c.cal
    /\ c.req.op = "message" /\ c.pc = "done" /\ c.code = "ok" =>
            c.value = NULL \/ Leads(c.req.calendar, c.value)
    /\ c.req.op = "heatmap" /\ c.pc = "heatmap_count" =>
            c.got \subseteq 1..seq["participants"]
    /\ c.req.op = "heatmap" /\ c.pc = "done" /\ c.code = "ok" =>
            c.value.counted \subseteq 1..seq["participants"]
    /\ c.req.op = "set_message" => Leads(c.req.calendar, c.req.message)

\* What a handler knows when it waits at a stage.
Prepared(now, stage) ==
    /\ stage = "created" => now.input.op = "create" /\ now.week # NULL
    /\ stage \in {"calendar", "count", "heatmap"} =>
          /\ now.week # NULL
          /\ now.input.op = "create" => now.calendar \in DOMAIN calendars
          /\ now.input.op \in Updating =>
                Leads(now.calendar, now.ref) /\ WeekOf(now.calendar, now.week)
    /\ stage = "reference" => now.week = NULL \/ WeekOf(now.calendar, now.week)
    /\ stage = "last_week" => now.week # NULL /\ WeekOf(now.calendar, now.week)

\* A handler and the call of its thread: one that is not through waits for the
\* call of its stage, about its calendar.
Fits(now, c) ==
    /\ now.at = "free" => now = Free
    /\ now.at \in Through => c = Idle
    /\ now.at \notin Through =>
          /\ c.pc # "idle"
          /\ c.req.op = StageOp(now.at)
          /\ now.at # "created" => c.req.calendar = now.calendar
          /\ AnswerOK(c)
    /\ Prepared(now, now.at)

TaskOK(now) ==
    /\ DOMAIN now = DOMAIN Free
    /\ now.at \in Stages
    /\ now.input \in Optional(Interactions)
    /\ now.calendar \in 0..MaxRowId
    /\ now.week \in Optional(Weeks)
    /\ now.ref \in Optional(MessageRow)
    /\ now.delivered \in BOOLEAN
    /\ now.member \in 0..MaxRowId

HandlersOK ==
    /\ DOMAIN task = Threads
    /\ \A t \in Threads : TaskOK(task[t]) /\ Fits(task[t], call[t])

\* Every calendar is of a month that exists, every stored reference leads to a
\* message, and every picture is one of a calendar.
PicturesOK ==
    /\ \A c \in DOMAIN calendars : is_valid_calendar_config(calendars[c].config)
    /\ \A c \in DOMAIN messages : Leads(c, messages[c])
    /\ \A c \in DOMAIN board :
          /\ c \in DOMAIN calendars
          /\ board[c].week \in Weeks
          /\ board[c].counted \subseteq 1..seq["participants"]
    /\ awaiting \subseteq DOMAIN board

GhostsOK == alone \subseteq Threads /\ received \in 0..MaxInteractions

TablesOK == ServiceInv /\ CopiesOld /\ ReferentialIntegrity

BotInv == TablesOK /\ HandlersOK /\ PicturesOK /\ GhostsOK

-----------------------------------------------------------------------------
(* What others know stays true while calendars and pictures only come.     *)

Grows ==
    /\ \A c \in DOMAIN calendars :
          /\ c \in DOMAIN calendars'
          /\ calendars'[c].guild = calendars[c].guild
          /\ calendars'[c].channel = calendars[c].channel
          /\ calendars'[c].config = calendars[c].config
    /\ DOMAIN board \subseteq DOMAIN board'
    /\ 1..seq["participants"] \subseteq 1..seq'["participants"]

\* The same of a reference of this state in the next one.
StillLeads(c, ref) ==
    /\ c \in DOMAIN calendars'
    /\ c \in DOMAIN board'
    /\ ref \in MessageRow
    /\ ref.message = MessageOf(c)
    /\ ref.channel = calendars'[c].channel
    /\ ref.guild = calendars'[c].guild
    /\ ref.week < WeekCount(calendars'[c])

LEMMA LeadsStays ==
    ASSUME Grows
    PROVE  /\ \A c, ref : Leads(c, ref) => StillLeads(c, ref)
           /\ \A c, week : WeekOf(c, week) =>
                c \in DOMAIN calendars' /\ week < WeekCount(calendars'[c])
<1>1. \A c \in DOMAIN calendars : WeekCount(calendars'[c]) = WeekCount(calendars[c])
    BY DEF Grows, WeekCount
<1> QED
    BY <1>1 DEF Grows, Leads, StillLeads, WeekOf

LEMMA FitsStays ==
    ASSUME Grows, NEW u, NEW now, NEW c, Fits(now, c), task'[u] = now, call'[u] = c
    PROVE  Fits(task[u], call[u])'
<1>1. AnswerOK(c) => AnswerOK(call[u])'
    BY LeadsStays DEF AnswerOK, Grows, Leads, StillLeads
<1>2. Prepared(task[u], task[u].at)'
    BY LeadsStays DEF Fits, Prepared, Grows, Leads, StillLeads, WeekOf
<1> QED
    BY <1>1, <1>2 DEF Fits

-----------------------------------------------------------------------------
(* What a handler's own step leaves behind                                 *)

\* The thread goes on with a handler and a call that fit each other.
GoesOn(t) ==
    /\ DOMAIN task' = Threads /\ DOMAIN call' = Threads
    /\ \A u \in Threads \ {t} : task'[u] = task[u] /\ call'[u] = call[u]
    /\ TaskOK(task'[t])
    /\ call'[t] = Idle \/ \E r \in Request : call'[t] = Started(r)
    /\ Fits(task'[t], call'[t])

LEMMA Threaded == BotInv => DOMAIN task = Threads /\ DOMAIN call = Threads
BY DEF BotInv, TablesOK, HandlersOK, ServiceInv, TypeOK

LEMMA NullIsNoNumber == NULL \notin Nat /\ NULL \notin Weeks
BY DomainAssumption

LEMMA EndsStep ==
    ASSUME BotInv, NEW t \in Threads, NEW now, TaskOK(now), Ends(t, now)
    PROVE  GoesOn(t)
<1> DEFINE then == [now EXCEPT !.at = "ended"]
<1>1. /\ DOMAIN then = DOMAIN Free /\ then.at = "ended"
      /\ then.input = now.input /\ then.calendar = now.calendar
      /\ then.week = now.week /\ then.ref = now.ref /\ then.delivered = now.delivered
      /\ then.member = now.member
    BY DEF TaskOK, Free
<1>2. /\ task' = [task EXCEPT ![t] = then] /\ call' = [call EXCEPT ![t] = Idle]
      /\ DOMAIN task = Threads /\ DOMAIN call = Threads
    BY Threaded DEF Ends
<1> HIDE DEF then
<1>3. TaskOK(then)
    BY <1>1 DEF TaskOK, Stages
<1>4. Fits(then, Idle)
    BY <1>1 DEF Fits, Prepared, Through
<1> QED
    BY <1>2, <1>3, <1>4 DEF GoesOn

LEMMA SaysFacts ==
    ASSUME NEW now, NEW answer, TaskOK(now)
    PROVE  /\ TaskOK(Says(now, answer))
           /\ Says(now, answer).at = now.at
           /\ Says(now, answer).input = now.input
           /\ Says(now, answer).calendar = now.calendar
           /\ Says(now, answer).week = now.week
           /\ Says(now, answer).ref = now.ref
BY DEF TaskOK, Free, Says

\* What has just started has read and answered nothing.
LEMMA StartedAnswer ==
    ASSUME NEW r \in Request, r.op = "set_message" => Leads(r.calendar, r.message)
    PROVE  Started(r).pc # "idle" /\ Started(r).req = r /\ AnswerOK(Started(r))
<1>1. Started(r).req = r /\ Started(r).pc \in {"create", "lookup"}
    BY DEF Started, Idle
<1> QED
    BY <1>1 DEF AnswerOK

LEMMA WaitsStep ==
    ASSUME BotInv, NEW t \in Threads, NEW now, NEW stage \in Stages \ Through,
           NEW r \in Request, TaskOK(now), Waits(t, now, stage, r),
           r.op = StageOp(stage),
           stage # "created" => r.calendar = now.calendar,
           r.op = "set_message" => Leads(r.calendar, r.message),
           Prepared(now, stage)
    PROVE  GoesOn(t)
<1> DEFINE then == [now EXCEPT !.at = stage]
<1>1. /\ DOMAIN then = DOMAIN Free /\ then.at = stage
      /\ then.input = now.input /\ then.calendar = now.calendar
      /\ then.week = now.week /\ then.ref = now.ref /\ then.delivered = now.delivered
      /\ then.member = now.member
    BY DEF TaskOK, Free
<1>2. /\ task' = [task EXCEPT ![t] = then]
      /\ call' = [call EXCEPT ![t] = Started(r)]
      /\ DOMAIN task = Threads /\ DOMAIN call = Threads
    BY Threaded DEF Waits
<1> HIDE DEF then
<1>3. TaskOK(then)
    BY <1>1 DEF TaskOK
<1>4. Prepared(then, stage)
    BY <1>1 DEF Prepared
<1>5. Fits(then, Started(r))
  <2>1. Started(r).pc # "idle" /\ Started(r).req = r /\ AnswerOK(Started(r))
      BY StartedAnswer
  <2> QED
      BY <1>1, <1>4, <2>1 DEF Fits, Through
<1> QED
    BY <1>2, <1>3, <1>5 DEF GoesOn

\* The calls that are made on the way.
LEMMA CallsMade ==
    ASSUME NEW c \in RowIds
    PROVE  /\ CallOf("view", c) \in Request /\ CallOf("view", c).op = "view"
           /\ CallOf("message", c) \in Request /\ CallOf("message", c).op = "message"
           /\ CallOf("view", c).calendar = c /\ CallOf("message", c).calendar = c
           /\ \A week \in Weeks : /\ HeatmapCall(c, week) \in Request
                                  /\ HeatmapCall(c, week).op = "heatmap"
                                  /\ HeatmapCall(c, week).calendar = c
<1>1. CallOf("view", c) \in ViewRequest /\ CallOf("message", c) \in ViewRequest
    BY DEF CallOf, ViewRequest
<1>2. \A week \in Weeks : HeatmapCall(c, week) \in HeatmapRequest
    BY DEF HeatmapCall, HeatmapRequest
<1> QED
    BY <1>1, <1>2 DEF Request, CallOf, HeatmapCall

\* The weeks of a calendar that was accepted, so of every stored one.
LEMMA WeeksOfRow ==
    ASSUME NEW row \in CalendarRow, is_valid_calendar_config(row.config)
    PROVE  WeekCount(row) \in 4..6
<1> DEFINE m == row.config.month
<1>1. MonthOk(m) /\ m.year \in Int
    BY DomainAssumption DEF is_valid_calendar_config, CalendarRow, CalendarConfig
<1>2. ASSUME NEW begin PROVE Len(month_weeks(m, begin)) \in 4..6
  <2> HIDE DEF m
  <2>1. Len(month_weeks(m, begin)) =
            (SysDays(LastDay(m)) - Origin(m, begin)) \div 7 + 1
      BY <1>1, WeekFacts
  <2>2. (SysDays(LastDay(m)) - Origin(m, begin)) \div 7 + 1 \in 4..6
      BY <1>1, WeekFacts
  <2> QED
      BY <2>1, <2>2
<1> QED
    BY <1>2 DEF WeekCount

LEMMA WeekCounts ==
    ASSUME BotInv, NEW c \in DOMAIN calendars
    PROVE  WeekCount(calendars[c]) \in 4..6
<1>1. calendars[c] \in CalendarRow /\ is_valid_calendar_config(calendars[c].config)
    BY DEF BotInv, TablesOK, ServiceInv, TypeOK, RepoTypeOK, PicturesOK
<1> QED
    BY <1>1, WeeksOfRow

LEMMA HandlerFacts ==
    ASSUME BotInv, NEW t \in Threads
    PROVE  /\ TaskOK(task[t]) /\ Fits(task[t], call[t])
           /\ CallOK(call[t]) /\ Shape(call[t])
           /\ task[t].at \notin Through =>
                 /\ call[t].req \in Request
                 /\ task[t].at # "created" =>
                        /\ task[t].calendar \in RowIds
                        /\ call[t].req.calendar = task[t].calendar
                        /\ call[t].id = task[t].calendar
<1>1. /\ TaskOK(task[t]) /\ Fits(task[t], call[t])
      /\ CallOK(call[t]) /\ Shape(call[t])
    BY DEF BotInv, TablesOK, HandlersOK, ServiceInv, TypeOK, CallsInShape
<1>2. ASSUME task[t].at \notin Through
      PROVE  /\ call[t].req \in Request
             /\ task[t].at # "created" => /\ task[t].calendar \in RowIds
                                          /\ call[t].req.calendar = task[t].calendar
                                          /\ call[t].id = task[t].calendar
  <2>1. call[t].pc # "idle" /\ call[t].req.op = StageOp(task[t].at)
      BY <1>1, <1>2 DEF Fits
  <2>2. call[t].req \in Request
      BY <1>1, <2>1 DEF Shape
  <2>3. ASSUME task[t].at # "created" PROVE call[t].req.op # "create"
      BY <1>1, <1>2, <2>1, <2>3 DEF TaskOK, Stages, Through, StageOp
  <2>4. task[t].at # "created" => call[t].req.calendar = task[t].calendar
      BY <1>1, <1>2 DEF Fits
  <2>5. call[t].req.op # "create" =>
            call[t].req.calendar \in RowIds /\ call[t].id = call[t].req.calendar
      BY <1>1, <2>1, <2>2, RequestFacts DEF Shape
  <2> QED
      BY <2>2, <2>3, <2>4, <2>5
<1> QED
    BY <1>1, <1>2

\* A handler that takes its answer.
LEMMA GotFacts ==
    ASSUME BotInv, NEW t \in Threads, NEW stage \in Stages \ Through, Got(t, stage)
    PROVE  /\ TaskOK(task[t]) /\ task[t].at = stage
           /\ call[t].req \in Request /\ call[t].req.op = StageOp(stage)
           /\ stage # "created" =>
                  /\ task[t].calendar \in RowIds
                  /\ call[t].req.calendar = task[t].calendar
                  /\ call[t].id = task[t].calendar
           /\ Prepared(task[t], stage)
           /\ AnswerOK(call[t])
           /\ call[t].pc = "done" /\ call[t].code = "ok"
BY HandlerFacts DEF Got, Fits

-----------------------------------------------------------------------------
(* An interaction arrives                                                  *)

LEMMA WeekIndexFacts ==
    \A n \in 1..6 : WeekIndex(n) \in Weeks /\ WeekIndex(n) # NULL
BY BotAssumption, NullIsNoNumber DEF WeekIndex

\* The fields of an interaction.
LEMMA InteractionFacts ==
    ASSUME NEW i \in Interactions
    PROVE  /\ i.op \in {"create", "add", "submit", "view", "best", "attendees",
                        "attendees_submit", "clear", "press_add", "press_attendees",
                        "mine", "prev", "next", "press_best", "press_unknown",
                        "form_unknown"}
           /\ i.op # "create" => i.calendar \in RowIds
           /\ i.op = "view" => i.week \in 1..6
<1>1. i \in Interaction
    BY BotAssumption
<1>2. CASE i \in CreateCommand
    BY <1>2 DEF CreateCommand
<1>3. CASE i \in AddCommand
    BY <1>3 DEF AddCommand
<1>4. CASE i \in ViewCommand
    BY <1>4 DEF ViewCommand
<1>5. CASE i \in BestCommand
    BY <1>5 DEF BestCommand
<1>6. CASE i \in AttendeesCommand
    BY <1>6 DEF AttendeesCommand
<1>7. CASE i \in ClearCommand
    BY <1>7 DEF ClearCommand
<1>8. CASE i \in Press
    BY <1>8 DEF Press
<1> QED
    BY <1>1, <1>2, <1>3, <1>4, <1>5, <1>6, <1>7, <1>8 DEF Interaction

LEMMA ArrivedFacts ==
    ASSUME NEW i \in Interactions
    PROVE  /\ TaskOK(Arrived(i)) /\ Arrived(i).input = i
           /\ i.op # "create" => Arrived(i).calendar = i.calendar
           /\ i.op \in {"create", "view"} => Arrived(i).week # NULL
<1>1. 0 \in Weeks /\ 0 # NULL
    BY BotAssumption, NullIsNoNumber
<1>2. /\ DOMAIN Arrived(i) = DOMAIN Free
      /\ Arrived(i).at = "free" /\ Arrived(i).input = i
      /\ Arrived(i).ref = NULL /\ Arrived(i).delivered = TRUE
      /\ Arrived(i).member = 0
      /\ Arrived(i).calendar = IF i.op = "create" THEN 0 ELSE i.calendar
      /\ Arrived(i).week = CASE i.op = "view" -> WeekIndex(i.week)
                             [] i.op = "create" -> 0
                             [] OTHER -> NULL
    BY DEF Arrived, Free
<1>3. Arrived(i).calendar \in 0..MaxRowId
    BY <1>2, InteractionFacts, RepositoryAssumption DEF RowIds
<1>4. /\ Arrived(i).week \in Optional(Weeks)
      /\ i.op \in {"create", "view"} => Arrived(i).week # NULL
    BY <1>1, <1>2, InteractionFacts, WeekIndexFacts DEF Optional
<1>5. Arrived(i).member \in 0..MaxRowId
    BY <1>2, RepositoryAssumption DEF RowIds
<1>6. TaskOK(Arrived(i))
    BY <1>2, <1>3, <1>4, <1>5 DEF TaskOK, Stages, Optional
<1> QED
    BY <1>2, <1>4, <1>6

\* The first call of a handler, and the stage that awaits it.
LEMMA OpeningFacts ==
    ASSUME NEW i \in Interactions, ~Unparsed(i),
           i.op \notin {"press_add", "press_attendees", "press_unknown", "form_unknown"}
    PROVE  /\ Opening(i)[1] \in Stages \ Through
           /\ Opening(i)[1] \notin {"count", "heatmap", "reference", "last_week",
                                    "updated"}
           /\ Opening(i)[2] \in Request
           /\ Opening(i)[2].op = StageOp(Opening(i)[1])
           /\ Opening(i)[2].op # "set_message"
           /\ Opening(i)[1] = "created" <=> i.op = "create"
           /\ Opening(i)[1] # "created" => Opening(i)[2].calendar = i.calendar
           /\ Opening(i)[1] = "calendar" => i.op = "view"
           /\ Opening(i)[1] \in {"saved", "cleared"} => i.op \in {"add", "submit", "clear"}
<1>1. Opening(i)[2] \in Request
    BY OpeningAssumption DEF AnsweredAtOnce
<1>2. CASE i.op = "create"
    BY <1>1, <1>2 DEF Opening, CreateCall, Stages, Through, StageOp
<1>3. CASE i.op \in {"add", "submit"}
    BY <1>1, <1>3 DEF Opening, AddCall, Stages, Through, StageOp
<1>4. CASE i.op = "view"
    BY <1>1, <1>4 DEF Opening, CallOf, Stages, Through, StageOp
<1>5. CASE i.op = "best"
    BY <1>1, <1>5 DEF Opening, HeatmapCall, Stages, Through, StageOp
<1>6. CASE i.op \in {"attendees", "attendees_submit"}
    BY <1>1, <1>6 DEF Opening, DayCall, Stages, Through, StageOp
<1>7. CASE i.op \in {"clear", "mine"}
    BY <1>1, <1>7 DEF Opening, UserCall, Stages, Through, StageOp
<1>8. CASE i.op \in {"prev", "next", "press_best"}
    BY <1>1, <1>8 DEF Opening, CallOf, Stages, Through, StageOp
<1> QED
    BY <1>1, <1>2, <1>3, <1>4, <1>5, <1>6, <1>7, <1>8, InteractionFacts

LEMMA ReceiveStep ==
    ASSUME BotInv, NEW t \in Threads, NEW i \in Interactions, Receive(t, i)
    PROVE  GoesOn(t)
<1>1. TaskOK(Arrived(i))
    BY ArrivedFacts
<1>2. ASSUME NEW answer, Replies(t, Arrived(i), answer) PROVE GoesOn(t)
    BY <1>1, <1>2, SaysFacts, EndsStep DEF Replies
<1>3. CASE Ends(t, Arrived(i))
    BY <1>1, <1>3, EndsStep
<1>4. ASSUME ~Unparsed(i),
             i.op \notin {"press_add", "press_attendees", "press_unknown", "form_unknown"},
             Waits(t, Arrived(i), Opening(i)[1], Opening(i)[2])
      PROVE  GoesOn(t)
  <2>1. Prepared(Arrived(i), Opening(i)[1])
      BY <1>4, ArrivedFacts, OpeningFacts DEF Prepared, Updating
  <2>2. Opening(i)[1] # "created" => Opening(i)[2].calendar = Arrived(i).calendar
      BY <1>4, ArrivedFacts, OpeningFacts
  <2> QED
      BY <1>1, <1>4, <2>1, <2>2, OpeningFacts, WaitsStep
<1> QED
    BY <1>2, <1>3, <1>4 DEF Receive

-----------------------------------------------------------------------------
(* The steps of a handler                                                  *)

LEMMA RepliesStep ==
    ASSUME BotInv, NEW t \in Threads, NEW answer,
           Replies(t, task[t], answer) \/ Ends(t, task[t])
    PROVE  GoesOn(t)
<1>1. TaskOK(task[t])
    BY HandlerFacts
<1> QED
    BY <1>1, SaysFacts, EndsStep DEF Replies

LEMMA EndingSteps ==
    ASSUME BotInv, NEW t \in Threads,
           \/ Catch(t) \/ Post(t) \/ Preview(t) \/ EndUpdate(t) \/ Referenced(t)
           \/ Ranking(t) \/ Looked(t)
    PROVE  GoesOn(t)
BY RepliesStep DEF Catch, Post, Preview, EndUpdate, Referenced, Ranking, Looked

LEMMA LeaveStep ==
    ASSUME BotInv, NEW t \in Threads, Leave(t)
    PROVE  GoesOn(t)
<1>1. call[t] = Idle
    BY HandlerFacts DEF Leave, Fits, Through
<1>2. DOMAIN task = Threads /\ DOMAIN call = Threads
    BY Threaded
<1>3. Fits(Free, Idle)
    BY DEF Fits, Prepared, Through, Free
<1>4. TaskOK(Free)
    BY RepositoryAssumption DEF TaskOK, Free, Stages, Optional
<1> QED
    BY <1>1, <1>2, <1>3, <1>4 DEF Leave, GoesOn

\* public_message, of a calendar and a week that its caller knows.
LEMMA PublicMessageStep ==
    ASSUME BotInv, NEW t \in Threads, NEW now, TaskOK(now), now.calendar \in RowIds,
           Prepared(now, "calendar"), public_message(t, now)
    PROVE  GoesOn(t)
<1> DEFINE r == CallOf("view", now.calendar)
<1>1. /\ r \in Request /\ r.op = "view" /\ r.calendar = now.calendar
      /\ Waits(t, now, "calendar", r)
    BY CallsMade DEF public_message
<1>2. "calendar" \in Stages \ Through /\ StageOp("calendar") = "view"
    BY DEF Stages, Through, StageOp
<1> QED
    BY <1>1, <1>2, WaitsStep

LEMMA CreatedStep ==
    ASSUME BotInv, NEW t \in Threads, Created(t)
    PROVE  GoesOn(t)
<1> DEFINE now == [task[t] EXCEPT !.calendar = call[t].id]
<1>1. /\ TaskOK(task[t]) /\ Prepared(task[t], "created") /\ AnswerOK(call[t])
      /\ call[t].req.op = "create" /\ call[t].pc = "done" /\ call[t].code = "ok"
    BY GotFacts DEF Created, Stages, Through, StageOp
<1>2. call[t].id \in DOMAIN calendars
    BY <1>1 DEF AnswerOK
<1>3. call[t].id \in RowIds /\ call[t].id \in 0..MaxRowId
    BY <1>2, RepositoryAssumption
    DEF BotInv, TablesOK, ServiceInv, TypeOK, RepoTypeOK, Tables, RowIds
<1>4. /\ DOMAIN now = DOMAIN Free
      /\ now.at = task[t].at /\ now.input = task[t].input
      /\ now.calendar = call[t].id /\ now.week = task[t].week
      /\ now.ref = task[t].ref /\ now.delivered = task[t].delivered
      /\ now.member = task[t].member
    BY <1>1 DEF TaskOK, Free
<1>5. public_message(t, now)
    BY DEF Created
<1> HIDE DEF now
<1>6. TaskOK(now)
    BY <1>1, <1>3, <1>4 DEF TaskOK
<1>7. Prepared(now, "calendar")
    BY <1>1, <1>2, <1>4 DEF Prepared, Updating
<1> QED
    BY <1>3, <1>4, <1>5, <1>6, <1>7, PublicMessageStep

\* A handler that waits for its next call as it is.
LEMMA NextCallStep ==
    ASSUME BotInv, NEW t \in Threads, NEW stage \in Stages \ Through, NEW r \in Request,
           task[t].at \notin Through, task[t].at # "created",
           Waits(t, task[t], stage, r),
           stage # "created", r.op = StageOp(stage), r.op # "set_message",
           r.calendar = task[t].calendar, Prepared(task[t], stage)
    PROVE  GoesOn(t)
BY HandlerFacts, WaitsStep

LEMMA DrawingSteps ==
    ASSUME BotInv, NEW t \in Threads, GotCalendar(t) \/ GotCount(t)
    PROVE  GoesOn(t)
<1>1. CASE GotCalendar(t)
  <2>1. task[t].at = "calendar" /\ Prepared(task[t], "calendar")
        /\ task[t].calendar \in RowIds
      BY <1>1, GotFacts DEF GotCalendar, Stages, Through
  <2>2. Prepared(task[t], "count")
      BY <2>1 DEF Prepared
  <2>3. "count" \in Stages \ Through /\ StageOp("count") = "view"
      BY DEF Stages, Through, StageOp
  <2> QED
      BY <1>1, <2>1, <2>2, <2>3, CallsMade, NextCallStep DEF GotCalendar, Through
<1>2. CASE GotCount(t)
  <2>1. task[t].at = "count" /\ Prepared(task[t], "count") /\ TaskOK(task[t])
        /\ task[t].calendar \in RowIds
      BY <1>2, GotFacts DEF GotCount, Stages, Through
  <2>2. Prepared(task[t], "heatmap") /\ task[t].week \in Weeks
      BY <2>1 DEF Prepared, TaskOK, Optional
  <2>3. "heatmap" \in Stages \ Through /\ StageOp("heatmap") = "heatmap"
      BY DEF Stages, Through, StageOp
  <2> QED
      BY <1>2, <2>1, <2>2, <2>3, CallsMade, NextCallStep DEF GotCount, Through
<1> QED
    BY <1>1, <1>2

\* update_public_message, to the week that is shown or to one of the month.
LEMMA UpdateStep ==
    ASSUME BotInv, NEW t \in Threads, NEW now, TaskOK(now), now.calendar \in RowIds,
           NEW week \in Optional(Weeks), week = NULL \/ WeekOf(now.calendar, week),
           update_public_message(t, now, week)
    PROVE  GoesOn(t)
<1> DEFINE then == [now EXCEPT !.week = week]
           r == CallOf("message", now.calendar)
<1>1. /\ DOMAIN then = DOMAIN Free
      /\ then.at = now.at /\ then.input = now.input
      /\ then.calendar = now.calendar /\ then.week = week
      /\ then.ref = now.ref /\ then.delivered = now.delivered
      /\ then.member = now.member
    BY DEF TaskOK, Free
<1>2. Waits(t, then, "reference", r)
    BY DEF update_public_message
<1>3. r \in Request /\ r.op = "message" /\ r.calendar = now.calendar
    BY CallsMade
<1> HIDE DEF then, r
<1>4. TaskOK(then)
    BY <1>1 DEF TaskOK
<1>5. Prepared(then, "reference")
    BY <1>1 DEF Prepared
<1>6. "reference" \in Stages \ Through /\ StageOp("reference") = "message"
    BY DEF Stages, Through, StageOp
<1> QED
    BY <1>1, <1>2, <1>3, <1>4, <1>5, <1>6, WaitsStep

LEMMA ChangedSteps ==
    ASSUME BotInv, NEW t \in Threads, Saved(t) \/ Cleared(t)
    PROVE  GoesOn(t)
<1>1. TaskOK(task[t]) /\ task[t].calendar \in RowIds /\ call[t].pid \in 0..MaxRowId
    BY HandlerFacts, GotFacts DEF Saved, Cleared, Stages, Through, CallOK
<1>2. CASE Saved(t)
  <2> DEFINE said == Says(task[t], "saved")
             now == [said EXCEPT !.member = call[t].pid]
  <2>1. TaskOK(said) /\ said.calendar = task[t].calendar
      BY <1>1, SaysFacts
  <2> HIDE DEF said
  <2>2. TaskOK(now) /\ now.calendar = task[t].calendar
      BY <1>1, <2>1 DEF TaskOK, Free
  <2>3. update_public_message(t, now, NULL)
      BY <1>2 DEF Saved, said
  <2> HIDE DEF now
  <2> QED
      BY <1>1, <2>2, <2>3, UpdateStep DEF Optional
<1>3. CASE Cleared(t)
  <2>1. update_public_message(t, Says(task[t], "cleared"), NULL)
      BY <1>3 DEF Cleared
  <2> QED
      BY <1>1, <2>1, SaysFacts, UpdateStep DEF Optional
<1> QED
    BY <1>2, <1>3

\* What a "message" call has answered.
LEMMA ReferenceFacts ==
    ASSUME BotInv, NEW t \in Threads,
           Got(t, "reference") \/ Got(t, "shown_week") \/ Got(t, "best_week"),
           Value(t) # NULL
    PROVE  /\ Leads(task[t].calendar, Value(t))
           /\ Value(t) \in MessageRow
           /\ WeekOf(task[t].calendar, Value(t).week)
           /\ Value(t).week \in Weeks
<1>1. /\ AnswerOK(call[t]) /\ call[t].pc = "done" /\ call[t].code = "ok"
      /\ call[t].req.op = "message" /\ call[t].req.calendar = task[t].calendar
    BY GotFacts DEF Stages, Through, StageOp
<1>2. Leads(task[t].calendar, Value(t))
    BY <1>1 DEF AnswerOK, Value
<1> QED
    BY <1>2 DEF Leads, WeekOf, MessageRow

LEMMA GotReferenceStep ==
    ASSUME BotInv, NEW t \in Threads, GotReference(t)
    PROVE  GoesOn(t)
<1>1. /\ TaskOK(task[t]) /\ task[t].calendar \in RowIds
      /\ Prepared(task[t], "reference") /\ Got(t, "reference")
    BY GotFacts DEF GotReference, Stages, Through
<1>2. CASE Value(t) = NULL
    BY <1>2, RepliesStep DEF GotReference
<1>3. CASE Value(t) # NULL
  <2> DEFINE c == task[t].calendar
             week == WeekToShow(task[t].week, Value(t))
             now == [task[t] EXCEPT !.ref = Value(t), !.week = week]
  <2>1. public_message(t, now)
      BY <1>3 DEF GotReference
  <2>2. Leads(c, Value(t)) /\ Value(t) \in MessageRow
      BY <1>1, <1>3, ReferenceFacts
  <2>3. week \in Weeks /\ week # NULL /\ WeekOf(c, week)
    <3>1. CASE task[t].week = NULL
        BY <1>1, <1>3, <3>1, ReferenceFacts, NullIsNoNumber DEF WeekToShow
    <3>2. CASE task[t].week # NULL
        BY <1>1, <3>2 DEF WeekToShow, Prepared, TaskOK, Optional
    <3> QED
        BY <3>1, <3>2
  <2> HIDE DEF week
  <2>4. /\ DOMAIN now = DOMAIN Free
        /\ now.at = task[t].at /\ now.input = task[t].input
        /\ now.calendar = c /\ now.week = week
        /\ now.ref = Value(t) /\ now.delivered = task[t].delivered
        /\ now.member = task[t].member
      BY <1>1 DEF TaskOK, Free
  <2> HIDE DEF now
  <2>5. TaskOK(now)
      BY <1>1, <2>2, <2>3, <2>4 DEF TaskOK, Optional
  <2>6. Prepared(now, "calendar")
      BY <2>2, <2>3, <2>4 DEF Prepared, Leads
  <2> QED
      BY <1>1, <2>1, <2>4, <2>5, <2>6, PublicMessageStep
<1> QED
    BY <1>2, <1>3

LEMMA GotShownWeekStep ==
    ASSUME BotInv, NEW t \in Threads, GotShownWeek(t)
    PROVE  GoesOn(t)
<1> DEFINE now == Says(task[t], "moving")
           c == task[t].calendar
           shown == Value(t).week
<1>1. /\ Got(t, "shown_week") /\ TaskOK(now) /\ now.calendar = c /\ c \in RowIds
      /\ now.input = task[t].input
    BY GotFacts, SaysFacts DEF GotShownWeek, Stages, Through
<1>2. CASE Replies(t, task[t], "error")
    BY <1>2, RepliesStep
<1>3. ASSUME Value(t) # NULL
      PROVE  shown \in Weeks /\ shown \in Nat /\ WeekOf(c, shown)
    BY <1>1, <1>3, ReferenceFacts, DomainAssumption
<1>4. ASSUME Value(t) # NULL
      PROVE  c \in DOMAIN calendars /\ WeekCount(calendars[c]) \in 4..6
    BY <1>3, <1>4, WeekCounts DEF WeekOf
<1>5. ASSUME Value(t) # NULL, update_public_message(t, now, PrevWeek(shown))
      PROVE  GoesOn(t)
  <2>1. PrevWeek(shown) \in 0..5 /\ PrevWeek(shown) < WeekCount(calendars[c])
      BY <1>3, <1>4, <1>5 DEF PrevWeek, WeekOf
  <2>2. PrevWeek(shown) \in Optional(Weeks) /\ WeekOf(c, PrevWeek(shown))
      BY <1>4, <1>5, <2>1, BotAssumption DEF Optional, WeekOf
  <2> HIDE DEF now, shown
  <2> QED
      BY <1>1, <1>5, <2>2, UpdateStep
<1>6. ASSUME Value(t) # NULL,
             Waits(t, [now EXCEPT !.week = shown], "last_week", CallOf("view", c))
      PROVE  GoesOn(t)
  <2> DEFINE then == [now EXCEPT !.week = shown]
  <2>1. /\ DOMAIN then = DOMAIN Free
        /\ then.at = now.at /\ then.input = now.input
        /\ then.calendar = c /\ then.week = shown
        /\ then.ref = now.ref /\ then.delivered = now.delivered
        /\ then.member = now.member
      BY <1>1 DEF TaskOK, Free
  <2>2. Waits(t, then, "last_week", CallOf("view", c))
      BY <1>6
  <2> HIDE DEF then, now, shown
  <2>3. TaskOK(then)
      BY <1>1, <1>3, <1>6, <2>1 DEF TaskOK, Optional
  <2>4. Prepared(then, "last_week")
      BY <1>3, <1>6, <2>1, NullIsNoNumber DEF Prepared
  <2>5. "last_week" \in Stages \ Through /\ StageOp("last_week") = "view"
      BY DEF Stages, Through, StageOp
  <2> QED
      BY <1>1, <2>1, <2>2, <2>3, <2>4, <2>5, CallsMade, WaitsStep
<1> QED
    BY <1>2, <1>5, <1>6 DEF GotShownWeek

\* The number of weeks comes from a copy of the calendar, which is right about it.
LEMMA LastWeekFacts ==
    ASSUME BotInv, NEW t \in Threads, GotLastWeek(t)
    PROVE  /\ TaskOK(task[t]) /\ task[t].calendar \in RowIds
           /\ Prepared(task[t], "last_week")
           /\ task[t].calendar \in DOMAIN calendars
           /\ WeekCount(Value(t)) = WeekCount(calendars[task[t].calendar])
           /\ WeekCount(Value(t)) \in 4..6
<1> DEFINE c == task[t].calendar
<1>1. /\ TaskOK(task[t]) /\ c \in RowIds /\ call[t].id = c
      /\ Prepared(task[t], "last_week") /\ AnswerOK(call[t])
      /\ call[t].req.op = "view" /\ call[t].pc = "done" /\ call[t].code = "ok"
    BY GotFacts DEF GotLastWeek, Stages, Through, StageOp
<1>2. c \in DOMAIN calendars /\ WeekCount(calendars[c]) \in 4..6
    BY <1>1, WeekCounts DEF Prepared, WeekOf
<1>3. WeekCount(Value(t)) = WeekCount(calendars[c])
  <2>1. Value(t) = call[t].cal /\ call[t].cal \in CalendarRow /\ call[t].cal # NULL
      BY <1>1, ServiceAssumption DEF AnswerOK, Value
  <2>2. OldRow(c, call[t].cal)
      BY <1>1, <2>1 DEF BotInv, TablesOK, CopiesOld, HeldRowsAreOld
  <2>3. calendars[c].config = call[t].cal.config
      BY <1>2, <2>2 DEF OldRow, Later
  <2> QED
      BY <2>1, <2>3 DEF WeekCount
<1> QED
    BY <1>1, <1>2, <1>3

LEMMA GotLastWeekStep ==
    ASSUME BotInv, NEW t \in Threads, GotLastWeek(t)
    PROVE  GoesOn(t)
<1> DEFINE c == task[t].calendar
           count == WeekCount(Value(t))
           next == NextWeek(task[t].week, count)
<1>1. /\ TaskOK(task[t]) /\ c \in RowIds /\ Prepared(task[t], "last_week")
      /\ c \in DOMAIN calendars /\ count = WeekCount(calendars[c]) /\ count \in 4..6
    BY LastWeekFacts
<1>2. task[t].week \in Nat
    BY <1>1, DomainAssumption DEF TaskOK, Prepared, Optional
<1>3. next \in 0..5 /\ next < WeekCount(calendars[c])
  <2> HIDE DEF count
  <2> QED
      BY <1>1, <1>2 DEF NextWeek
<1>4. next \in Optional(Weeks) /\ WeekOf(c, next)
    BY <1>1, <1>3, BotAssumption DEF Optional, WeekOf
<1>5. update_public_message(t, task[t], next)
    BY DEF GotLastWeek
<1> HIDE DEF next, count
<1> QED
    BY <1>1, <1>4, <1>5, UpdateStep

LEMMA LookingSteps ==
    ASSUME BotInv, NEW t \in Threads, GotBestWeek(t) \/ Listed(t)
    PROVE  GoesOn(t)
<1>1. CASE GotBestWeek(t)
  <2> DEFINE week == IF Value(t) = NULL THEN 0 ELSE Value(t).week
  <2>1. task[t].at = "best_week" /\ task[t].calendar \in RowIds
      BY <1>1, GotFacts DEF GotBestWeek, Stages, Through
  <2>2. week \in Weeks
      BY <1>1, ReferenceFacts, BotAssumption DEF GotBestWeek
  <2>3. Waits(t, task[t], "ranked", HeatmapCall(task[t].calendar, week))
      BY <1>1 DEF GotBestWeek
  <2>4. /\ "ranked" \in Stages \ Through /\ StageOp("ranked") = "heatmap"
        /\ Prepared(task[t], "ranked")
      BY DEF Stages, Through, StageOp, Prepared
  <2> HIDE DEF week
  <2> QED
      BY <2>1, <2>2, <2>3, <2>4, CallsMade, NextCallStep DEF Through
<1>2. CASE Listed(t)
  <2>1. task[t].at = "listed" /\ task[t].calendar \in RowIds
      BY <1>2, GotFacts DEF Listed, Stages, Through
  <2>2. /\ "titled" \in Stages \ Through /\ StageOp("titled") = "view"
        /\ Prepared(task[t], "titled")
      BY DEF Stages, Through, StageOp, Prepared
  <2> QED
      BY <1>2, <2>1, <2>2, CallsMade, NextCallStep DEF Listed, Through
<1> QED
    BY <1>1, <1>2

\* The reference is written back with the week that is shown now.
LEMMA EditStep ==
    ASSUME BotInv, NEW t \in Threads, Edit(t)
    PROVE  GoesOn(t)
<1> DEFINE c == task[t].calendar
           message == Updated(task[t].ref, task[t].week)
           r == [op |-> "set_message", calendar |-> c, message |-> message]
<1>1. PICK delivered \in BOOLEAN :
            Waits(t, [task[t] EXCEPT !.delivered = delivered], "updated", r)
    BY BotAssumption DEF Edit
<1>2. /\ TaskOK(task[t]) /\ c \in RowIds /\ Prepared(task[t], "heatmap")
      /\ task[t].input.op \in Updating
    BY GotFacts DEF Edit, Stages, Through
<1>3. Leads(c, task[t].ref) /\ WeekOf(c, task[t].week) /\ task[t].week \in Weeks
    BY <1>2 DEF Prepared, TaskOK, Optional
<1>4. message \in MessageRow /\ Leads(c, message)
    BY <1>3 DEF Leads, WeekOf, Updated, MessageRow
<1>5. r \in Request /\ r.op = "set_message" /\ r.calendar = c /\ r.message = message
  <2> HIDE DEF message
  <2>1. r \in MessageRequest
      BY <1>2, <1>4 DEF MessageRequest
  <2> QED
      BY <2>1 DEF Request
<1> DEFINE now == [task[t] EXCEPT !.delivered = delivered]
<1>6. TaskOK(now) /\ now.calendar = c
    BY <1>2 DEF TaskOK, Free
<1>7. /\ "updated" \in Stages \ Through /\ StageOp("updated") = "set_message"
      /\ Prepared(now, "updated")
    BY DEF Stages, Through, StageOp, Prepared
<1>8. Waits(t, now, "updated", r)
    BY <1>1
<1> HIDE DEF now, r, message
<1> QED
    BY <1>4, <1>5, <1>6, <1>7, <1>8, WaitsStep

\* The callback stores the reference of the calendar that was posted.
LEMMA CallbackStep ==
    ASSUME BotInv, NEW t \in Threads, NEW c \in awaiting, Callback(t, c),
           ~(UNCHANGED <<task, call>>)
    PROVE  GoesOn(t)
<1> DEFINE r == [op |-> "set_message", calendar |-> c, message |-> Reference(c)]
           now == [Free EXCEPT !.calendar = c]
<1>1. Waits(t, now, "referenced", r)
    BY DEF Callback
<1>2. c \in DOMAIN board /\ c \in DOMAIN calendars
    BY DEF BotInv, PicturesOK
<1>3. c \in RowIds /\ calendars[c] \in CalendarRow
    BY <1>2, RepositoryAssumption
    DEF BotInv, TablesOK, ServiceInv, TypeOK, RepoTypeOK, Tables, RowIds
<1>4. Reference(c) \in MessageRow /\ Leads(c, Reference(c))
  <2>1. 0 \in Weeks /\ MessageOf(c) \in MessageIds /\ 0 < WeekCount(calendars[c])
      BY <1>2, <1>3, WeekCounts, BotAssumption
  <2> QED
      BY <1>2, <1>3, <2>1 DEF Reference, MessageRow, CalendarRow, Leads
<1>5. r \in Request /\ r.op = "set_message" /\ r.calendar = c /\ r.message = Reference(c)
  <2>1. r \in MessageRequest
      BY <1>3, <1>4 DEF MessageRequest
  <2> QED
      BY <2>1 DEF Request
<1>6. TaskOK(now) /\ now.calendar = c
    BY <1>3, RepositoryAssumption DEF TaskOK, Free, Stages, Optional, RowIds
<1>7. /\ "referenced" \in Stages \ Through /\ StageOp("referenced") = "set_message"
      /\ Prepared(now, "referenced")
    BY DEF Stages, Through, StageOp, Prepared
<1> HIDE DEF now, r
<1> QED
    BY <1>1, <1>4, <1>5, <1>6, <1>7, WaitsStep

LEMMA HandleStep ==
    ASSUME BotInv, NEW t \in Threads, Handle(t)
    PROVE  GoesOn(t)
BY EndingSteps, LeaveStep, CreatedStep, DrawingSteps, ChangedSteps, GotReferenceStep,
   GotShownWeekStep, GotLastWeekStep, LookingSteps, EditStep
DEF Handle

\* A handler's own step keeps what all handlers rely on.
LEMMA HandlersGoOn ==
    ASSUME BotInv, NEW t \in Threads, GoesOn(t), Grows
    PROVE  HandlersOK'
<1>1. ASSUME NEW u \in Threads PROVE TaskOK(task'[u]) /\ Fits(task[u], call[u])'
  <2>1. TaskOK(task'[u]) /\ Fits(task'[u], call'[u])
      BY HandlerFacts DEF GoesOn
  <2> QED
      BY <2>1, FitsStays
<1> QED
    BY <1>1 DEF GoesOn, HandlersOK, TaskOK

\* It leaves the tables and the copies of them alone.
LEMMA TablesGoOn ==
    ASSUME BotInv, NEW t \in Threads, GoesOn(t),
           UNCHANGED <<db, calendar_cache_, writes>>
    PROVE  TablesOK'
<1>1. CallOK(call'[t]) /\ Shape(call'[t]) /\ call'[t].cal = NULL
  <2>1. CASE call'[t] = Idle
      BY <2>1, RepositoryAssumption
      DEF CallOK, Shape, Idle, Steps, Optional, Codes, Ops, AfterLookup
  <2>2. ASSUME NEW r \in Request, call'[t] = Started(r)
        PROVE  CallOK(call'[t]) /\ Shape(call'[t]) /\ call'[t].cal = NULL
    <3>1. Started(r).cal = NULL
        BY DEF Started, Idle
    <3> QED
        BY <2>2, <3>1, StartedFacts
  <2> QED
      BY <2>1, <2>2 DEF GoesOn
<1>2. \A u \in Threads : /\ CallOK(call'[u]) /\ Shape(call'[u])
                         /\ u # t => call'[u] = call[u]
    BY <1>1, HandlerFacts DEF GoesOn
<1>3. /\ TypeOK /\ CallsInShape /\ CopiesOld /\ ReferentialIntegrity
      /\ DOMAIN call' = Threads
      /\ UNCHANGED <<guilds, channels, calendars, participants, intervals, messages,
                     events, attendance, seq, calendar_cache_, writes>>
    BY DEF BotInv, TablesOK, ServiceInv, GoesOn, db
<1>4. ServiceInv'
    BY <1>2, <1>3 DEF ServiceInv, TypeOK, CallsInShape, RepoTypeOK
<1>5. CopiesOld'
    BY <1>1, <1>2, <1>3 DEF CopiesOld, CachedRowsAreOld, HeldRowsAreOld, OldRow
<1>6. ReferentialIntegrity'
    BY <1>3 DEF ReferentialIntegrity
<1> QED
    BY <1>4, <1>5, <1>6 DEF TablesOK

-----------------------------------------------------------------------------
(* The steps of the calls                                                  *)

\* No handler deletes a calendar, closes one or asks who takes part in public.
LEMMA WaitingFacts ==
    ASSUME BotInv, NEW t \in Threads, Calls(t)
    PROVE  /\ task[t].at \notin Through
           /\ call[t].pc \notin {"idle", "done"}
           /\ call[t].req.op \notin {"state", "delete", "public"}
           /\ call[t].req.op # "create" => call[t].id = call[t].req.calendar
           /\ AnswerOK(call[t])
<1>1. call[t].pc \notin {"idle", "done"}
  <2>1. CASE Lookup(t)
      BY <2>1 DEF Lookup, CacheHit, CacheMiss, FindCalendar, FillCache
  <2>2. CASE Writing(t)
      BY <2>2 DEF Writing, CreateCalendar, AddAvailability, StoreDate, ClearMyData,
                  ChangeState, DeleteCalendar, SetCalendarMessage, Invalidate
  <2>3. CASE Reading(t)
      BY <2>3 DEF Reading, ViewCalendar, CalendarMessage, FindMine, MySchedule,
                  FindAttendees, DayParticipants, FindWeek, WeeklyHeatmap,
                  PublicParticipants
  <2> QED
      BY <2>1, <2>2, <2>3 DEF Calls
<1>2. TaskOK(task[t]) /\ Fits(task[t], call[t]) /\ Shape(call[t])
    BY HandlerFacts
<1>3. task[t].at \notin Through
    BY <1>1, <1>2 DEF Fits, Idle
<1>4. call[t].req.op \notin {"state", "delete", "public"}
  <2>1. call[t].req.op = StageOp(task[t].at) /\ task[t].at \in Stages \ Through
      BY <1>2, <1>3 DEF Fits, TaskOK
  <2> QED
      BY <2>1 DEF StageOp, Stages, Through
<1> QED
    BY <1>1, <1>2, <1>3, <1>4 DEF Fits, Shape

LEMMA CallsGrow ==
    ASSUME BotInv, NEW t \in Threads, Calls(t)
    PROVE  Grows
<1>1. Step(t) /\ RepoTypeOK /\ ServiceInv
    BY DEF Calls, Step, Work, BotInv, TablesOK, ServiceInv, TypeOK
<1>2. [RepoStep]_db
    BY <1>1, ServiceStep DEF Next
<1>3. DOMAIN calendars \subseteq DOMAIN calendars'
  <2>1. StepCases(t)
      BY <1>1, CasesOfStep
  <2>2. CASE Reads(t)
      BY <2>2 DEF Reads, db
  <2>3. CASE Creates(t)
    <3>1. \/ calendars' = calendars
          \/ calendars' = Put(calendars, NextId("calendars"), Row(call[t].req))
        BY <2>3 DEF Creates, create_calendar, CreateCalendarFails
    <3> QED
        BY <3>1 DEF Put
  <2>4. CASE Joins(t) \/ Stores(t) \/ Clears(t) \/ Posts(t)
      BY <2>4
      DEF Joins, Upserts, UpsertUndone, db, Stores, Clears, Posts, upsert_participant,
          add_interval, clear_participant, set_calendar_message
  <2>5. CASE Manages(t)
    <3>1. call[t].req.op \in {"state", "delete"}
        BY <2>5, HandlerFacts DEF Manages, Shape, Ops
    <3> QED
        BY <3>1, WaitingFacts
  <2> QED
      BY <2>1, <2>2, <2>3, <2>4, <2>5 DEF StepCases
<1>4. \A c \in DOMAIN calendars : Later(calendars[c], calendars'[c])
    BY <1>1, <1>2, <1>3, RowsStep DEF RowsKept
<1>5. 1..seq["participants"] \subseteq 1..seq'["participants"]
  <2>1. seq'["participants"] >= seq["participants"]
      BY <1>1, <1>2, SeqStep DEF Tables
  <2>2. seq["participants"] \in Int /\ seq'["participants"] \in Int
      BY <1>1, <1>2, TypeStep DEF RepoTypeOK, Tables
  <2> QED
      BY <2>1, <2>2
<1>6. board' = board
    BY DEF Calls, botVars
<1> QED
    BY <1>3, <1>4, <1>5, <1>6 DEF Grows, Later

\* A call whose step reads and answers nothing that a handler relies on.
LEMMA AnswerStays ==
    ASSUME BotInv, NEW t \in Threads, Calls(t),
           call'[t].req = call[t].req,
           \/ call'[t].pc \notin {"invalidate", "done", "heatmap_count"}
           \/ call'[t].pc = "invalidate" /\ call[t].req.op \in WriteOps \ {"create"}
           \/ call'[t].pc = "done" /\ call'[t].code # "ok"
           \/ /\ call'[t].pc = "done"
              /\ call[t].req.op \notin {"create", "view", "message", "heatmap"}
    PROVE  AnswerOK(call[t])'
<1>1. Grows /\ AnswerOK(call[t])
    BY CallsGrow, WaitingFacts
<1>2. call[t].req.op = "set_message" =>
            StillLeads(call[t].req.calendar, call[t].req.message)
    BY <1>1, LeadsStays DEF AnswerOK
<1> QED
    BY <1>2 DEF AnswerOK, StillLeads, Leads

LEMMA LookupAnswer ==
    ASSUME BotInv, NEW t \in Threads, Calls(t), Lookup(t)
    PROVE  call'[t].req = call[t].req /\ call'[t].pc # "idle" /\ AnswerOK(call[t])'
<1>1. /\ TypeOK /\ DOMAIN call = Threads /\ DOMAIN call[t] = DOMAIN Idle
      /\ call[t].req \in Request
    BY HandlerFacts, WaitingFacts, Threaded
    DEF BotInv, TablesOK, ServiceInv, CallOK
<1>2. call[t].req.op \in Ops
    BY <1>1, RequestFacts
<1>3. call'[t].req = call[t].req
      /\ \/ call'[t].pc \in {"find", "fill", call[t].req.op}
         \/ call'[t].pc = "done" /\ call'[t].code # "ok"
  <2>1. CASE CacheHit(t)
      BY <1>1, <2>1, IdleFields DEF CacheHit
  <2>2. CASE CacheMiss(t) \/ FillCache(t)
      BY <1>1, <2>2, GotoFacts, IdleFields DEF CacheMiss, FillCache, SameBut
  <2>3. CASE FindCalendar(t) /\ Answer(t, "calendar_not_found", NULL)
      BY <1>1, <2>3, AnswerFacts, IdleFields DEF SameBut
  <2>4. CASE /\ FindCalendar(t)
             /\ call' = [call EXCEPT ![t].cal = calendars[call[t].id], ![t].pc = "fill"]
      BY <1>1, <2>4, IdleFields
  <2> QED
      BY <2>1, <2>2, <2>3, <2>4 DEF Lookup, FindCalendar
<1>4. call'[t].pc # "idle"
    BY <1>2, <1>3 DEF Ops
<1>5. \/ call'[t].pc \notin {"invalidate", "done", "heatmap_count"}
      \/ call'[t].pc = "done" /\ call'[t].code # "ok"
    BY <1>2, <1>3 DEF Ops
<1> QED
    BY <1>3, <1>4, <1>5, AnswerStays

LEMMA WritingAnswer ==
    ASSUME BotInv, NEW t \in Threads, Calls(t), Writing(t)
    PROVE  call'[t].req = call[t].req /\ call'[t].pc # "idle" /\ AnswerOK(call[t])'
<1>1. /\ TypeOK /\ DOMAIN call = Threads /\ DOMAIN call[t] = DOMAIN Idle
      /\ Shape(call[t])
      /\ call[t].req.op \notin {"state", "delete", "public"}
      /\ AnswerOK(call[t])
    BY HandlerFacts, WaitingFacts, Threaded
    DEF BotInv, TablesOK, ServiceInv, CallOK
<1>2. ASSUME NEW code, NEW value, Answer(t, code, value)
      PROVE  /\ call'[t].req = call[t].req /\ call'[t].pc = "done"
             /\ call'[t].code = code /\ call'[t].id = call[t].id
    BY <1>1, <1>2, AnswerFacts, IdleFields DEF SameBut
<1>3. ASSUME NEW step, Goto(t, step)
      PROVE  call'[t].req = call[t].req /\ call'[t].pc = step
    BY <1>1, <1>3, GotoFacts, IdleFields DEF SameBut
<1>4. CASE CreateCalendar(t)
  <2>1. call[t].req.op = "create"
      BY <1>1, <1>4 DEF CreateCalendar, Shape, Ops
  <2>2. ASSUME NEW code, code # "ok", Answer(t, code, NULL)
        PROVE  call'[t].req = call[t].req /\ call'[t].pc # "idle" /\ AnswerOK(call[t])'
      BY <1>2, <2>2, AnswerStays
  <2>3. ASSUME create_calendar(Row(call[t].req)),
               call' = [call EXCEPT ![t].id = NextId("calendars"), ![t].pc = "invalidate"]
        PROVE  call'[t].req = call[t].req /\ call'[t].pc # "idle" /\ AnswerOK(call[t])'
    <3>1. /\ call'[t].req = call[t].req /\ call'[t].pc = "invalidate"
          /\ call'[t].id = NextId("calendars")
        BY <1>1, <2>3, IdleFields
    <3>2. NextId("calendars") \in DOMAIN calendars'
        BY <2>3 DEF create_calendar, Put
    <3> QED
        BY <2>1, <3>1, <3>2 DEF AnswerOK, WriteOps
  <2> QED
      BY <1>4, <2>2, <2>3 DEF CreateCalendar
<1>5. CASE AddAvailability(t)
  <2>1. call[t].req.op = "add"
      BY <1>1, <1>5 DEF AddAvailability, Shape, Ops
  <2>2. ASSUME NEW code, NEW value, Answer(t, code, value)
        PROVE  call'[t].req = call[t].req /\ call'[t].pc # "idle" /\ AnswerOK(call[t])'
      BY <1>2, <2>1, <2>2, AnswerStays
  <2>3. ASSUME call' = [call EXCEPT ![t].pid = UpsertId(Member(t)),
                                    ![t].todo = call[t].req.dates, ![t].pc = "store"]
        PROVE  call'[t].req = call[t].req /\ call'[t].pc # "idle" /\ AnswerOK(call[t])'
    <3>1. call'[t].req = call[t].req /\ call'[t].pc = "store"
        BY <1>1, <2>3, IdleFields
    <3> QED
        BY <3>1, AnswerStays
  <2> QED
      BY <1>5, <2>2, <2>3 DEF AddAvailability
<1>6. CASE StoreDate(t)
  <2>1. call[t].req.op = "add"
      BY <1>1, <1>6 DEF StoreDate, Shape
  <2>2. CASE Answer(t, "database_error", NULL)
      BY <1>2, <2>2, AnswerStays
  <2>3. CASE LET left == call[t].todo \ {NextDate(call[t].todo)}
             IN  call' = [call EXCEPT ![t].todo = left,
                             ![t].pc = IF left = {} THEN "invalidate" ELSE "store"]
    <3>1. call'[t].req = call[t].req /\ call'[t].pc \in {"invalidate", "store"}
        BY <1>1, <2>3, IdleFields
    <3> QED
        BY <2>1, <3>1, AnswerStays DEF WriteOps
  <2> QED
      BY <1>6, <2>2, <2>3 DEF StoreDate
<1>7. CASE ClearMyData(t)
  <2>1. call[t].req.op = "clear"
      BY <1>1, <1>7 DEF ClearMyData, Shape, Ops
  <2>2. CASE Goto(t, "invalidate")
      BY <1>3, <2>1, <2>2, AnswerStays DEF WriteOps
  <2>3. CASE Answer(t, "database_error", NULL)
      BY <1>2, <2>3, AnswerStays
  <2> QED
      BY <1>7, <2>2, <2>3 DEF ClearMyData, Write
<1>8. CASE ChangeState(t) \/ DeleteCalendar(t)
    BY <1>1, <1>8 DEF ChangeState, DeleteCalendar, Shape, Ops
<1>9. CASE SetCalendarMessage(t)
  <2>1. call[t].req.op = "set_message"
      BY <1>1, <1>9 DEF SetCalendarMessage, Shape, Ops
  <2>2. PICK code : Answer(t, code, NULL)
      BY <1>9 DEF SetCalendarMessage
  <2> QED
      BY <1>2, <2>1, <2>2, AnswerStays
<1>10. CASE Invalidate(t)
  <2>1. /\ call[t].req.op \in WriteOps /\ call[t].pc = "invalidate"
        /\ Answer(t, "ok", NULL)
      BY <1>1, <1>10 DEF Invalidate, AnswerOK
  <2>2. CASE call[t].req.op = "create"
    <3>1. /\ call'[t].req = call[t].req /\ call'[t].pc = "done"
          /\ call'[t].id = call[t].id
        BY <1>2, <2>1
    <3>2. call[t].id \in DOMAIN calendars'
        BY <1>1, <2>1, <2>2, CallsGrow DEF AnswerOK, Grows
    <3> QED
        BY <2>2, <3>1, <3>2 DEF AnswerOK
  <2>3. CASE call[t].req.op # "create"
      BY <1>2, <2>1, <2>3, AnswerStays DEF WriteOps
  <2> QED
      BY <2>2, <2>3
<1> QED
    BY <1>4, <1>5, <1>6, <1>7, <1>8, <1>9, <1>10 DEF Writing

\* Those who are counted take part.
LEMMA ReadingAnswer ==
    ASSUME BotInv, NEW t \in Threads, Calls(t), Reading(t)
    PROVE  call'[t].req = call[t].req /\ call'[t].pc # "idle" /\ AnswerOK(call[t])'
<1>1. /\ TypeOK /\ CallsInShape /\ DOMAIN call = Threads /\ DOMAIN call[t] = DOMAIN Idle
      /\ Shape(call[t])
      /\ call[t].req.op \notin {"state", "delete", "public"}
      /\ AnswerOK(call[t])
    BY HandlerFacts, WaitingFacts, Threaded
    DEF BotInv, TablesOK, ServiceInv, CallOK
<1>2. ASSUME NEW code, NEW value, Answer(t, code, value)
      PROVE  /\ call'[t].req = call[t].req /\ call'[t].pc = "done"
             /\ call'[t].code = code /\ call'[t].value = value
             /\ call'[t].cal = call[t].cal
    BY <1>1, <1>2, AnswerFacts, IdleFields DEF SameBut
<1>3. ASSUME NEW got, NEW step, call' = [call EXCEPT ![t].pc = step, ![t].got = got]
      PROVE  call'[t].req = call[t].req /\ call'[t].pc = step /\ call'[t].got = got
    BY <1>1, <1>3, IdleFields
<1>4. UNCHANGED <<calendars, participants, intervals, messages, seq>>
    BY <1>1, ReadingStep DEF Quiet, db
<1>5. CASE ViewCalendar(t)
  <2>1. /\ call[t].pc = "view" /\ call[t].req.op = "view"
        /\ call[t].cal \in CalendarRow /\ Answer(t, "ok", call[t].cal)
      BY <1>1, <1>5 DEF ViewCalendar, Shape, Ops, AfterLookup
  <2> QED
      BY <1>2, <2>1 DEF AnswerOK
<1>6. CASE CalendarMessage(t)
  <2>1. call[t].req.op = "message" /\ call[t].id = call[t].req.calendar
      BY <1>1, <1>6 DEF CalendarMessage, Shape, Ops
  <2>2. PICK value : /\ Answer(t, "ok", value)
                     /\ value = NULL \/ Leads(call[t].id, value)
      BY <1>6 DEF CalendarMessage, BotInv, PicturesOK
  <2>3. value = NULL \/ StillLeads(call[t].id, value)
      BY <2>2, CallsGrow, LeadsStays
  <2> QED
      BY <1>2, <2>1, <2>2, <2>3 DEF AnswerOK, StillLeads, Leads
<1>7. CASE FindMine(t) \/ MySchedule(t)
  <2>1. call[t].req.op = "mine"
      BY <1>1, <1>7 DEF FindMine, MySchedule, Shape, Ops
  <2>2. CASE \E value : Answer(t, "ok", value)
      BY <1>2, <2>1, <2>2, AnswerStays
  <2>3. ASSUME NEW p, call' = [call EXCEPT ![t].pid = p, ![t].pc = "mine_list"]
        PROVE  call'[t].req = call[t].req /\ call'[t].pc # "idle" /\ AnswerOK(call[t])'
    <3>1. call'[t].req = call[t].req /\ call'[t].pc = "mine_list"
        BY <1>1, <2>3, IdleFields
    <3> QED
        BY <3>1, AnswerStays
  <2> QED
      BY <1>7, <2>2, <2>3 DEF FindMine, MySchedule
<1>8. CASE FindAttendees(t) \/ DayParticipants(t)
  <2>1. call[t].req.op = "day"
      BY <1>1, <1>8 DEF FindAttendees, DayParticipants, Shape, Ops
  <2>2. CASE \E code, value : Answer(t, code, value)
      BY <1>2, <2>1, <2>2, AnswerStays
  <2>3. ASSUME NEW got, call' = [call EXCEPT ![t].pc = "day_list", ![t].got = got]
        PROVE  call'[t].req = call[t].req /\ call'[t].pc # "idle" /\ AnswerOK(call[t])'
    <3>1. call'[t].req = call[t].req /\ call'[t].pc = "day_list"
        BY <1>3, <2>3
    <3> QED
        BY <3>1, AnswerStays
  <2>4. CASE DayParticipants(t)
      BY <2>2, <2>4 DEF DayParticipants
  <2>5. CASE FindAttendees(t)
    <3>1. \/ \E code : Answer(t, code, NULL)
          \/ \E got : call' = [call EXCEPT ![t].pc = "day_list", ![t].got = got]
        BY <2>5 DEF FindAttendees
    <3> QED
        BY <2>2, <2>3, <3>1
  <2> QED
      BY <1>8, <2>4, <2>5
<1>9. CASE FindWeek(t)
  <2>1. call[t].req.op = "heatmap"
      BY <1>1, <1>9 DEF FindWeek, Shape, Ops
  <2>2. CASE Answer(t, "invalid_input", NULL)
      BY <1>2, <2>2, AnswerStays
  <2>3. ASSUME NEW first, NEW last,
               NEW got \in Delivered(list_intervals(call[t].id, first, last)),
               call' = [call EXCEPT ![t].pc = "heatmap_count",
                                    ![t].got = {intervals[i].participant : i \in got}]
        PROVE  call'[t].req = call[t].req /\ call'[t].pc # "idle" /\ AnswerOK(call[t])'
    <3> DEFINE members == {intervals[i].participant : i \in got}
    <3>1. got \subseteq DOMAIN intervals
        BY DeliveredFacts DEF list_intervals
    <3>2. members \subseteq DOMAIN participants
        BY <3>1 DEF BotInv, TablesOK, ReferentialIntegrity
    <3>3. members \subseteq 1..seq'["participants"]
        BY <1>1, <1>4, <3>2 DEF TypeOK, RepoTypeOK
    <3>4. call' = [call EXCEPT ![t].pc = "heatmap_count", ![t].got = members]
        BY <2>3
    <3> HIDE DEF members
    <3>5. /\ call'[t].req = call[t].req /\ call'[t].pc = "heatmap_count"
          /\ call'[t].got = members
        BY <1>3, <3>4
    <3> QED
        BY <2>1, <3>3, <3>5 DEF AnswerOK
  <2>4. \/ Answer(t, "invalid_input", NULL)
        \/ \E first, last : \E got \in Delivered(list_intervals(call[t].id, first, last)) :
              call' = [call EXCEPT ![t].pc = "heatmap_count",
                                   ![t].got = {intervals[i].participant : i \in got}]
      BY <1>9 DEF FindWeek
  <2> QED
      BY <2>2, <2>3, <2>4
<1>10. CASE WeeklyHeatmap(t)
  <2>1. call[t].pc = "heatmap_count" /\ call[t].req.op = "heatmap"
      BY <1>1, <1>10 DEF WeeklyHeatmap, Shape
  <2>2. call[t].got \subseteq 1..seq'["participants"]
      BY <1>1, <1>4, <2>1 DEF AnswerOK
  <2>3. PICK total : Answer(t, "ok", [counted |-> call[t].got, total |-> total])
      BY <1>10 DEF WeeklyHeatmap
  <2> DEFINE value == [counted |-> call[t].got, total |-> total]
  <2>4. value.counted = call[t].got /\ Answer(t, "ok", value)
      BY <2>3
  <2> HIDE DEF value
  <2> QED
      BY <1>2, <2>1, <2>2, <2>4 DEF AnswerOK
<1>11. CASE PublicParticipants(t)
    BY <1>1, <1>11 DEF PublicParticipants, Shape, Ops
<1> QED
    BY <1>5, <1>6, <1>7, <1>8, <1>9, <1>10, <1>11 DEF Reading

\* The month of a new calendar exists, and only references that lead to the
\* message of their calendar are stored.
LEMMA PicturesCalled ==
    ASSUME BotInv, NEW t \in Threads, Calls(t)
    PROVE  PicturesOK'
<1>1. Grows /\ board' = board /\ awaiting' = awaiting
    BY CallsGrow DEF Calls, botVars
<1>2. Shape(call[t]) /\ AnswerOK(call[t]) /\ call[t].req.op \notin {"state", "delete"}
    BY HandlerFacts, WaitingFacts
<1>3. StepCases(t) /\ ~Manages(t)
  <2>1. StepCases(t)
      BY CasesOfStep DEF Calls, Step, Work, BotInv, TablesOK
  <2>2. ~Manages(t)
      BY <1>2 DEF Manages, Shape, Ops
  <2> QED
      BY <2>1, <2>2
<1>4. ASSUME NEW c \in DOMAIN calendars'
      PROVE  is_valid_calendar_config(calendars'[c].config)
  <2>1. CASE c \in DOMAIN calendars
      BY <1>1, <2>1 DEF Grows, BotInv, PicturesOK
  <2>2. CASE c \notin DOMAIN calendars
    <3>1. ~Reads(t)
        BY <2>2 DEF Reads, db
    <3>2. ~Joins(t) /\ ~Clears(t) /\ ~Posts(t)
        BY <2>2
        DEF Joins, Upserts, UpsertUndone, db, Clears, Posts, upsert_participant,
            clear_participant, set_calendar_message
    <3>3. ~Stores(t)
        BY <2>2 DEF Stores, add_interval
    <3>4. Creates(t)
        BY <1>3, <3>1, <3>2, <3>3 DEF StepCases
    <3>5. CreateCalendar(t)
      <4>1. call[t].pc = "create" /\ call[t].req.op = "create"
          BY <1>2, <3>4 DEF Creates, Shape, Ops
      <4>2. ~Lookup(t)
          BY <4>1 DEF Lookup, CacheHit, CacheMiss, FindCalendar, FillCache
      <4>3. ~Reading(t)
          BY <4>1 DEF Reading, ViewCalendar, CalendarMessage, FindMine, MySchedule,
                      FindAttendees, DayParticipants, FindWeek, WeeklyHeatmap,
                      PublicParticipants
      <4> QED
          BY <4>1, <4>2, <4>3 DEF Calls, Writing, AddAvailability, StoreDate, ClearMyData,
                     ChangeState, DeleteCalendar, SetCalendarMessage, Invalidate
    <3>6. CreateAccepted(call[t].req)
        BY <2>2, <3>5 DEF CreateCalendar, db
    <3>7. calendars' = Put(calendars, NextId("calendars"), Row(call[t].req))
        BY <2>2, <3>4 DEF Creates, create_calendar, CreateCalendarFails
    <3>8. calendars'[c].config = call[t].req.config
        BY <2>2, <3>7 DEF Put, Row
    <3> QED
        BY <3>6, <3>8 DEF CreateAccepted
  <2> QED
      BY <2>1, <2>2
<1>5. ASSUME NEW c \in DOMAIN messages' PROVE StillLeads(c, messages'[c])
  <2>1. CASE messages' = messages
      BY <1>1, <1>5, <2>1, LeadsStays DEF BotInv, PicturesOK
  <2>2. CASE Posts(t)
    <3>1. /\ call[t].req.op = "set_message" /\ call[t].id = call[t].req.calendar
          /\ messages' = Put(messages, call[t].id, call[t].req.message)
        BY <1>2, <2>2 DEF Posts, Shape, Ops, set_calendar_message
    <3>2. c # call[t].id => c \in DOMAIN messages /\ messages'[c] = messages[c]
        BY <3>1 DEF Put
    <3>3. CASE c = call[t].id
      <4>1. messages'[c] = call[t].req.message /\ Leads(c, call[t].req.message)
          BY <1>2, <3>1, <3>3 DEF AnswerOK, Put
      <4> QED
          BY <1>1, <4>1, LeadsStays
    <3> QED
        BY <1>1, <3>2, <3>3, LeadsStays DEF BotInv, PicturesOK
  <2> QED
      BY <1>3, <2>1, <2>2
      DEF StepCases, Reads, db, Creates, create_calendar, CreateCalendarFails, Joins,
          Upserts, UpsertUndone, upsert_participant, Stores, add_interval, Clears,
          clear_participant
<1>6. ASSUME NEW c \in DOMAIN board
      PROVE  /\ c \in DOMAIN calendars' /\ board[c].week \in Weeks
             /\ board[c].counted \subseteq 1..seq'["participants"]
    BY <1>1 DEF BotInv, PicturesOK, Grows
<1>7. awaiting \subseteq DOMAIN board
    BY DEF BotInv, PicturesOK
<1> QED
    BY <1>1, <1>4, <1>5, <1>6, <1>7 DEF PicturesOK, StillLeads, Leads

LEMMA CallsStep ==
    ASSUME BotInv, NEW t \in Threads, Calls(t)
    PROVE  BotInv'
<1>1. /\ ServiceInv /\ CopiesOld /\ ReferentialIntegrity /\ RepoTypeOK
      /\ Next /\ Step(t)
    BY DEF BotInv, TablesOK, ServiceInv, TypeOK, Calls, Step, Work, Next
<1>2. TablesOK'
    BY <1>1, ServiceStep, CopiesOldStep, RefsStep DEF TablesOK
<1>3. Grows /\ task' = task /\ alone' = alone /\ received' = received
    BY CallsGrow DEF Calls, botVars
<1>4. AnswerOK(call[t])' /\ call'[t].req = call[t].req /\ call'[t].pc # "idle"
    BY LookupAnswer, WritingAnswer, ReadingAnswer DEF Calls
<1>5. ASSUME NEW u \in Threads PROVE TaskOK(task[u]) /\ Fits(task[u], call[u])'
  <2>1. TaskOK(task[u]) /\ Fits(task[u], call[u])
      BY HandlerFacts
  <2>2. CASE u = t
    <3>1. task[t].at \notin Through
        BY WaitingFacts
    <3>2. Prepared(task[t], task[t].at)'
        BY <1>3, <2>1, <2>2, LeadsStays
        DEF Fits, Prepared, Grows, Leads, StillLeads, WeekOf
    <3> QED
        BY <1>3, <1>4, <2>1, <2>2, <3>1, <3>2 DEF Fits, Through
  <2>3. CASE u # t
    <3>1. call'[u] = call[u]
        BY <1>1, <2>3, ThreadStep DEF OwnStep, SameBut
    <3> QED
        BY <1>3, <2>1, <3>1, FitsStays
  <2> QED
      BY <2>1, <2>2, <2>3
<1>6. HandlersOK'
    BY <1>3, <1>5, Threaded DEF HandlersOK, TaskOK
<1>7. GhostsOK'
    BY <1>3 DEF BotInv, GhostsOK
<1> QED
    BY <1>2, <1>6, <1>7, PicturesCalled DEF BotInv

-----------------------------------------------------------------------------
(* The pictures, as handlers and callbacks draw them                       *)

LEMMA PicturesGoOn ==
    ASSUME BotInv, UNCHANGED db, DOMAIN board \subseteq DOMAIN board',
           awaiting' \subseteq DOMAIN board',
           \A c \in DOMAIN board' : /\ c \in DOMAIN calendars
                                    /\ board'[c].week \in Weeks
                                    /\ board'[c].counted \subseteq 1..seq["participants"]
    PROVE  Grows /\ PicturesOK'
<1>1. UNCHANGED <<calendars, messages, seq>>
    BY DEF db
<1>2. Grows
    BY <1>1 DEF Grows
<1>3. \A c \in DOMAIN messages' : StillLeads(c, messages'[c])
    BY <1>1, <1>2, LeadsStays DEF BotInv, PicturesOK
<1> QED
    BY <1>1, <1>2, <1>3 DEF BotInv, PicturesOK, StillLeads, Leads

\* A step that draws nothing and at most waits for one reference less.
LEMMA NothingDrawn ==
    ASSUME BotInv, UNCHANGED <<db, board>>, awaiting' \subseteq awaiting
    PROVE  Grows /\ PicturesOK'
<1>1. /\ awaiting \subseteq DOMAIN board /\ board' = board
      /\ \A c \in DOMAIN board : /\ c \in DOMAIN calendars
                                 /\ board[c].week \in Weeks
                                 /\ board[c].counted \subseteq 1..seq["participants"]
    BY DEF BotInv, PicturesOK
<1> QED
    BY <1>1, PicturesGoOn

\* A handler draws the week it was asked for, of a calendar that exists.
LEMMA PictureDrawn ==
    ASSUME BotInv, NEW t \in Threads, Post(t) \/ Edit(t)
    PROVE  Grows /\ PicturesOK'
<1> DEFINE c == task[t].calendar
<1>1. /\ TaskOK(task[t]) /\ Prepared(task[t], "heatmap") /\ AnswerOK(call[t])
      /\ call[t].req.op = "heatmap" /\ call[t].pc = "done" /\ call[t].code = "ok"
    BY GotFacts DEF Post, Edit, Stages, Through, StageOp
<1>2. c \in DOMAIN calendars
    BY <1>1 DEF Post, Edit, Prepared, Leads
<1>3. Picture(t).week \in Weeks /\ Picture(t).counted \subseteq 1..seq["participants"]
    BY <1>1 DEF Picture, Value, Prepared, TaskOK, Optional, AnswerOK
<1>4. /\ awaiting \subseteq DOMAIN board
      /\ \A k \in DOMAIN board : /\ k \in DOMAIN calendars
                                 /\ board[k].week \in Weeks
                                 /\ board[k].counted \subseteq 1..seq["participants"]
    BY DEF BotInv, PicturesOK
<1>5. UNCHANGED db
    BY DEF Post, Edit, BotOnly
<1>6. CASE board' = Put(board, c, Picture(t)) /\ awaiting' \subseteq awaiting \cup {c}
  <2> HIDE DEF c
  <2>1. /\ DOMAIN board' = DOMAIN board \cup {c}
        /\ board'[c] = Picture(t)
        /\ \A k \in DOMAIN board : k # c => board'[k] = board[k]
      BY <1>6 DEF Put
  <2> QED
      BY <1>2, <1>3, <1>4, <1>5, <1>6, <2>1, PicturesGoOn
<1>7. CASE UNCHANGED <<board, awaiting>>
    BY <1>5, <1>7, NothingDrawn
<1> QED
    BY <1>6, <1>7 DEF Post, Edit

LEMMA HandleKeeps ==
    ASSUME BotInv, NEW t \in Threads, Handle(t)
    PROVE  BotInv'
<1>1. GoesOn(t)
    BY HandleStep
<1>2. Grows /\ PicturesOK'
  <2>1. CASE Post(t) \/ Edit(t)
      BY <2>1, PictureDrawn
  <2>2. CASE Silent
      BY <2>2, NothingDrawn DEF Silent, BotOnly
  <2> QED
      BY <2>1, <2>2
      DEF Handle, Catch, Created, GotCalendar, GotCount, Preview, EndUpdate, Referenced,
          GotReference, Saved, Cleared, GotShownWeek, GotLastWeek, GotBestWeek, Ranking,
          Listed, Looked, Leave
<1>3. UNCHANGED <<db, calendar_cache_, writes, received, alone>>
    BY DEF Handle, Catch, Created, GotCalendar, GotCount, Post, Preview, Edit, EndUpdate,
           Referenced, GotReference, Saved, Cleared, GotShownWeek, GotLastWeek,
           GotBestWeek, Ranking, Listed, Looked, Leave, Silent, BotOnly
<1>4. TablesOK' /\ HandlersOK'
    BY <1>1, <1>2, <1>3, TablesGoOn, HandlersGoOn
<1>5. GhostsOK'
    BY <1>3 DEF BotInv, GhostsOK
<1> QED
    BY <1>2, <1>4, <1>5 DEF BotInv

LEMMA ReceiveKeeps ==
    ASSUME BotInv, NEW t \in Threads, NEW i \in Interactions, Receive(t, i)
    PROVE  BotInv'
<1>1. GoesOn(t)
    BY ReceiveStep
<1>2. UNCHANGED <<db, calendar_cache_, writes, board, awaiting>>
    BY DEF Receive
<1>3. Grows /\ PicturesOK'
    BY <1>2, NothingDrawn
<1>4. TablesOK' /\ HandlersOK'
    BY <1>1, <1>2, <1>3, TablesGoOn, HandlersGoOn
<1>5. GhostsOK'
    BY BotAssumption DEF Receive, Meets, BotInv, GhostsOK
<1> QED
    BY <1>3, <1>4, <1>5 DEF BotInv

LEMMA CallbackKeeps ==
    ASSUME BotInv, NEW t \in Threads, NEW c \in awaiting, Callback(t, c)
    PROVE  BotInv'
<1>1. UNCHANGED <<db, calendar_cache_, writes, board, received>> /\ awaiting' \subseteq awaiting
    BY DEF Callback
<1>2. Grows /\ PicturesOK'
    BY <1>1, NothingDrawn
<1>3. GhostsOK'
    BY <1>1 DEF Callback, Meets, BotInv, GhostsOK
<1>4. CASE ~(UNCHANGED <<task, call>>)
    BY <1>1, <1>2, <1>3, <1>4, CallbackStep, TablesGoOn, HandlersGoOn DEF BotInv
<1>5. CASE UNCHANGED <<task, call>>
  <2>1. UNCHANGED vars
      BY <1>1, <1>5 DEF vars
  <2>2. TablesOK'
      BY <2>1, ServiceStep, CopiesOldStep, RefsStep
      DEF BotInv, TablesOK, ServiceInv, TypeOK
  <2>3. HandlersOK'
    <3>1. \A u \in Threads : TaskOK(task[u]) /\ Fits(task[u], call[u])'
        BY <1>2, <1>5, HandlerFacts, FitsStays
    <3> QED
        BY <1>5, <3>1, Threaded DEF HandlersOK, TaskOK
  <2> QED
      BY <1>2, <1>3, <2>2, <2>3 DEF BotInv
<1> QED
    BY <1>4, <1>5

LEMMA DiesKeeps ==
    ASSUME BotInv, Dies
    PROVE  BotInv'
<1>1. /\ Next
      /\ task' = [t \in Threads |-> Free] /\ call' = [t \in Threads |-> Idle]
      /\ UNCHANGED <<db, board, alone, received>> /\ awaiting' = {}
    BY DEF Dies, Crash, Next
<1>2. TablesOK'
    BY <1>1, ServiceStep, CopiesOldStep, RefsStep
    DEF BotInv, TablesOK, ServiceInv, TypeOK
<1>3. PicturesOK'
    BY <1>1, NothingDrawn
<1>4. HandlersOK'
  <2>1. TaskOK(Free)
      BY RepositoryAssumption DEF TaskOK, Free, Stages, Optional
  <2>2. Fits(Free, Idle)'
      BY DEF Fits, Prepared, Through, Free
  <2> QED
      BY <1>1, <2>1, <2>2 DEF HandlersOK, TaskOK, Fits, Prepared, Through, Free
<1>5. GhostsOK'
    BY <1>1 DEF BotInv, GhostsOK
<1> QED
    BY <1>2, <1>3, <1>4, <1>5 DEF BotInv

LEMMA BotStep == BotInv /\ [BotNext]_<<vars, botVars>> => BotInv'
<1> SUFFICES ASSUME BotInv, [BotNext]_<<vars, botVars>> PROVE BotInv'
    OBVIOUS
<1>1. CASE BotNext
    BY <1>1, DiesKeeps, CallsStep, HandleKeeps, ReceiveKeeps, CallbackKeeps
    DEF BotNext, Act
<1>2. CASE UNCHANGED <<vars, botVars>>
  <2>1. UNCHANGED vars /\ UNCHANGED botVars
      BY <1>2
  <2>2. TablesOK'
      BY <2>1, ServiceStep, CopiesOldStep, RefsStep
      DEF BotInv, TablesOK, ServiceInv, TypeOK
  <2>3. UNCHANGED <<db, call, task, board, awaiting, alone, received>>
      BY <2>1 DEF vars, botVars
  <2>4. Grows /\ PicturesOK'
      BY <2>3, NothingDrawn
  <2>5. HandlersOK'
    <3>1. \A u \in Threads : TaskOK(task[u]) /\ Fits(task[u], call[u])'
        BY <2>3, <2>4, HandlerFacts, FitsStays
    <3> QED
        BY <2>3, <3>1, Threaded DEF HandlersOK, TaskOK
  <2>6. GhostsOK'
      BY <2>3 DEF BotInv, GhostsOK
  <2> QED
      BY <2>2, <2>4, <2>5, <2>6 DEF BotInv
<1> QED
    BY <1>1, <1>2

-----------------------------------------------------------------------------
(* The beginning: a new database, or what an earlier process left          *)

\* What an earlier process left: its calendar and the reference of its message.
LEMMA LeftOK ==
    ASSUME NEW i \in Interactions, i.op = "create", ~Unparsed(i),
           CreateAccepted(CreateCall(i)), NEW left \in LeftAt,
           LeftCalendar(Row(CreateCall(i)), left[1], left[2]), awaiting = {}
    PROVE  RepoTypeOK /\ ReferentialIntegrity /\ PicturesOK
<1> DEFINE row == Row(CreateCall(i))
           ref == [guild |-> row.guild, channel |-> row.channel,
                   message |-> MessageOf(1), week |-> left[1]]
<1>1. CreateCall(i) \in CreateRequest
  <2>1. CreateCall(i) \in Request /\ CreateCall(i).op = "create"
      BY OpeningAssumption DEF Opening, AnsweredAtOnce, CreateCall
  <2> QED
      BY <2>1, RequestFacts
<1>2. row \in CalendarRow /\ is_valid_calendar_config(row.config)
  <2>1. row \in CalendarRow
      BY <1>1, DomainAssumption DEF Row, CalendarRow, CreateRequest, CalendarStates
  <2>2. row.config = CreateCall(i).config
      BY DEF Row
  <2> QED
      BY <2>1, <2>2 DEF CreateAccepted
<1>3. left[1] \in Weeks /\ left[2] \in Weeks /\ left[1] < WeekCount(row)
  <2>1. left[1] \in 0..(WeekCount(row) - 1) /\ WeekCount(row) \in 4..6
      BY <1>2, WeeksOfRow DEF LeftCalendar
  <2> HIDE DEF row
  <2> QED
      BY <2>1, BotAssumption
<1>4. 1 \in RowIds /\ 1 \in 0..MaxRowId /\ MessageOf(1) \in MessageIds
    BY BotAssumption, RepositoryAssumption DEF RowIds
<1>5. /\ guilds = {row.guild}
      /\ channels = [ch \in {row.channel} |-> row.guild]
      /\ calendars = [c \in {1} |-> row] /\ messages = [c \in {1} |-> ref]
      /\ seq = [table \in Tables |-> IF table = "calendars" THEN 1 ELSE 0]
      /\ board = [c \in {1} |-> [week |-> left[2], counted |-> {}, total |-> 0]]
      /\ participants = << >> /\ intervals = << >>
      /\ events = << >> /\ attendance = << >>
    BY DEF LeftCalendar
<1>6. row.guild \in Guilds /\ row.channel \in Channels
    BY <1>2 DEF CalendarRow
<1>7. ref \in MessageRow
    BY <1>3, <1>4, <1>6 DEF MessageRow
<1> HIDE DEF row
<1>8. /\ ref.message = MessageOf(1) /\ ref.channel = row.channel
      /\ ref.guild = row.guild /\ ref.week = left[1]
    OBVIOUS
<1> HIDE DEF ref
<1>9. RepoTypeOK
  <2>1. seq \in [Tables -> 0..MaxRowId] /\ seq["calendars"] = 1
    <3>1. /\ seq = [table \in Tables |-> IF table = "calendars" THEN 1 ELSE 0]
          /\ 0 \in 0..MaxRowId /\ "calendars" \in Tables
        BY <1>5, RepositoryAssumption DEF Tables
    <3> QED
        BY <1>4, <3>1
  <2>2. /\ DOMAIN calendars \subseteq 1..seq["calendars"]
        /\ calendars \in [DOMAIN calendars -> CalendarRow]
        /\ messages \in [DOMAIN messages -> MessageRow]
      BY <1>2, <1>5, <1>7, <2>1
  <2>3. /\ guilds \subseteq Guilds /\ DOMAIN channels \subseteq Channels
        /\ channels \in [DOMAIN channels -> Guilds]
      BY <1>5, <1>6
  <2> QED
      BY <1>5, <2>1, <2>2, <2>3 DEF RepoTypeOK
<1>10. ReferentialIntegrity
    BY <1>5 DEF ReferentialIntegrity
<1>11. PicturesOK
  <2>1. DOMAIN calendars = {1} /\ DOMAIN messages = {1} /\ DOMAIN board = {1}
        /\ calendars[1] = row /\ messages[1] = ref
        /\ board[1].week = left[2] /\ board[1].counted = {}
      BY <1>5
  <2> QED
      BY <1>2, <1>3, <1>7, <1>8, <2>1 DEF PicturesOK, Leads
<1> QED
    BY <1>9, <1>10, <1>11

LEMMA BotBegins == BotInit => BotInv
<1> SUFFICES ASSUME BotInit PROVE BotInv
    OBVIOUS
<1>1. /\ calendar_cache_ = << >> /\ call = [t \in Threads |-> Idle] /\ writes = 0
      /\ task = [t \in Threads |-> Free] /\ awaiting = {} /\ alone = {} /\ received = 0
    BY DEF BotInit
<1>2. RepoTypeOK /\ ReferentialIntegrity /\ PicturesOK
  <2>1. CASE RepoInit /\ board = << >>
      BY <1>1, <2>1, TypeInit DEF RepoInit, ReferentialIntegrity, PicturesOK
  <2>2. ASSUME NEW i \in Interactions, i.op = "create", ~Unparsed(i),
               CreateAccepted(CreateCall(i)), NEW left \in LeftAt,
               LeftCalendar(Row(CreateCall(i)), left[1], left[2])
        PROVE  RepoTypeOK /\ ReferentialIntegrity /\ PicturesOK
      BY <1>1, <2>2, LeftOK
  <2> QED
      BY <2>1, <2>2 DEF BotInit
<1>3. TablesOK
  <2>1. CallOK(Idle) /\ Shape(Idle)
      BY RepositoryAssumption
      DEF CallOK, Shape, Idle, Steps, Optional, Codes, Ops, AfterLookup
  <2>2. ServiceInv
      BY <1>1, <1>2, <2>1, ServiceAssumption DEF ServiceInv, TypeOK, CallsInShape
  <2>3. CopiesOld
      BY <1>1 DEF Idle, CopiesOld, CachedRowsAreOld, HeldRowsAreOld
  <2> QED
      BY <1>2, <2>2, <2>3 DEF TablesOK
<1>4. HandlersOK
  <2>1. TaskOK(Free)
      BY RepositoryAssumption DEF TaskOK, Free, Stages, Optional
  <2>2. Fits(Free, Idle)
      BY DEF Fits, Prepared, Through, Free
  <2> QED
      BY <1>1, <2>1, <2>2 DEF HandlersOK
<1>5. GhostsOK
    BY <1>1, BotAssumption DEF GhostsOK
<1> QED
    BY <1>2, <1>3, <1>4, <1>5 DEF BotInv

LEMMA BotAlways == BotSpec => []BotInv
BY BotBegins, BotStep, PTL DEF BotSpec

\* The tables, the calls, the handlers and the pictures keep their types, with
\* any number of handlers under way; above all, no handler asks for a week, and
\* no picture shows one, outside of the range that clients may name.
THEOREM BotTypeCorrect == BotSpec => []BotTypeOK
<1>1. BotInv => BotTypeOK
  <2> SUFFICES ASSUME BotInv PROVE BotTypeOK
      OBVIOUS
  <2>1. TypeOK /\ DOMAIN task = Threads /\ alone \subseteq Threads
        /\ received \in 0..MaxInteractions /\ awaiting \subseteq DOMAIN board
      BY DEF BotInv, TablesOK, ServiceInv, HandlersOK, PicturesOK, GhostsOK
  <2>2. \A t \in Threads : TaskOK(task[t]) /\ Fits(task[t], call[t])
      BY HandlerFacts
  <2>3. \A c \in DOMAIN board : /\ c \in 1..seq["calendars"]
                               /\ board[c].week \in Weeks
                               /\ board[c].counted \subseteq 1..seq["participants"]
      BY <2>1 DEF BotInv, PicturesOK, TypeOK, RepoTypeOK
  <2> QED
      BY <2>1, <2>2, <2>3 DEF BotTypeOK, TaskOK, Fits, Through
<1> QED
    BY <1>1, BotAlways, PTL

\* However callbacks, updates and crashes are interleaved, and whatever Discord
\* loses, the stored reference of every calendar leads to the message that was
\* posted for it, at a week of its month.
THEOREM ReferenceLeads == BotSpec => []ReferenceFindsItsMessage
<1>1. BotInv => ReferenceFindsItsMessage
    BY DEF BotInv, PicturesOK, Leads, ReferenceFindsItsMessage
<1> QED
    BY <1>1, BotAlways, PTL

-----------------------------------------------------------------------------
(* A handler that overlaps no other, on a disk that does not fail, finds   *)
(* everything as it left it.                                               *)

SpanOf(c, week) == month_weeks(calendars[c].config.month,
                               calendars[c].config.week_start)[week + 1]

\* Who is counted in a week of a calendar, and the picture of that.
CountedIn(c, week) == {intervals[v].participant :
                        v \in list_intervals(c, SpanOf(c, week)[1], SpanOf(c, week)[2])}
Shown(c, week) == [week |-> week, counted |-> CountedIn(c, week),
                   total |-> Cardinality(ParticipantsIn(c))]

\* What a call has read is what is stored, and it fails for no reason.
Fresh(c) ==
    /\ c.req.op \in {"view", "set_message"} /\ c.id \in DOMAIN calendars => c.code = "ok"
    /\ c.req.op = "heatmap" /\ WeekOf(c.id, c.req.week) =>
          /\ c.code = "ok"
          /\ c.pc = "heatmap_count" => c.got = CountedIn(c.id, c.req.week)
          /\ c.pc = "done" => c.value = [counted |-> CountedIn(c.id, c.req.week),
                                         total |-> Cardinality(ParticipantsIn(c.id))]
    /\ c.req.op = "message" /\ c.pc = "done" /\ c.code = "ok" /\ c.value # NULL =>
          c.id \in DOMAIN messages /\ c.value = messages[c.id]
    /\ c.req.op = "set_message" =>
          /\ c.pc # "invalidate"
          /\ c.pc = "done" /\ c.code = "ok" =>
                c.id \in DOMAIN messages /\ messages[c.id] = c.req.message

\* The week that an operation moves to.
Target(op, c, from) ==
    CASE op = "prev" -> PrevWeek(from)
      [] op = "next" -> NextWeek(from, WeekCount(calendars[c]))
      [] OTHER -> from

Turning == {"prev", "next"}

\* What a handler knows of the week and of the picture at each of its stages.
Knows(now, c) ==
    /\ now.at \in {"saved", "cleared"} => now.input.op \in Updating \ Turning
    /\ now.at = "last_week" =>
          /\ now.input.op = "next"
          /\ now.calendar \in DOMAIN messages
          /\ now.week = messages[now.calendar].week
    /\ now.at = "reference" =>
          /\ now.input.op \in Updating
          /\ IF now.input.op \in Turning
             THEN /\ now.calendar \in DOMAIN messages
                  /\ now.week = Target(now.input.op, now.calendar,
                                       messages[now.calendar].week)
             ELSE now.week = NULL
    /\ now.at \in {"calendar", "count", "heatmap"} /\ now.input.op \in Updating =>
          now.ref # NULL
    /\ now.at = "updated" => now.ref # NULL
    /\ now.ref # NULL =>
          /\ now.at \in {"calendar", "count", "heatmap", "updated", "ended"}
          /\ now.input.op \in Updating
          /\ WeekOf(now.calendar, now.ref.week)
          /\ now.week = Target(now.input.op, now.calendar, now.ref.week)
          /\ now.at = "heatmap" => c.req.week = now.week
          /\ now.at = "updated" => c.req.message.week = now.week
          /\ now.at \in {"updated", "ended"} /\ now.delivered =>
                board[now.calendar] = Shown(now.calendar, now.week)
          /\ now.at = "ended" =>
                /\ now.calendar \in DOMAIN messages
                /\ messages[now.calendar].week = now.week
    /\ now.at \notin Through => Fresh(c)

AloneKnows ==
    \A t \in alone : task[t].at # "free" =>
        /\ \A u \in Threads \ {t} : task[u].at = "free"
        /\ Knows(task[t], call[t])

\* Nothing of this changes while the tables that it is read from do not.
LEMMA PictureSame ==
    ASSUME UNCHANGED <<calendars, participants, intervals>>
    PROVE  \A c, week : /\ CountedIn(c, week)' = CountedIn(c, week)
                        /\ Shown(c, week)' = Shown(c, week)
                        /\ WeekOf(c, week)' = WeekOf(c, week)
                        /\ ParticipantsIn(c)' = ParticipantsIn(c)
<1>1. \A c, week : SpanOf(c, week)' = SpanOf(c, week)
    BY DEF SpanOf
<1>2. \A c, first, last : list_intervals(c, first, last)' = list_intervals(c, first, last)
    BY DEF list_intervals
<1>3. \A c, week : CountedIn(c, week)' = CountedIn(c, week)
    BY <1>1, <1>2 DEF CountedIn
<1>4. \A c : ParticipantsIn(c)' = ParticipantsIn(c)
    BY DEF ParticipantsIn
<1> QED
    BY <1>3, <1>4 DEF Shown, WeekOf, WeekCount

LEMMA StaysOnTarget ==
    ASSUME UNCHANGED db
    PROVE  /\ UNCHANGED <<calendars, participants, intervals, messages>>
           /\ \A op, c, from : Target(op, c, from)' = Target(op, c, from)
           /\ \A c, week : /\ WeekOf(c, week)' = WeekOf(c, week)
                          /\ Shown(c, week)' = Shown(c, week)
<1>1. UNCHANGED <<calendars, participants, intervals, messages>>
    BY DEF db
<1>2. \A op, c, from : Target(op, c, from)' = Target(op, c, from)
    BY <1>1 DEF Target, WeekCount
<1> QED
    BY <1>1, <1>2, PictureSame

LEMMA KnowsSame ==
    ASSUME UNCHANGED <<db, board>>, NEW t, NEW now, NEW c, Knows(now, c),
           task'[t] = now, call'[t] = c
    PROVE  Knows(task[t], call[t])'
<1>1. UNCHANGED <<calendars, participants, intervals, messages, board>>
    BY DEF db
<1>2. Fresh(c) => Fresh(call[t])'
    BY <1>1, PictureSame DEF Fresh
<1>3. \A op, k, from : Target(op, k, from)' = Target(op, k, from)
    BY <1>1 DEF Target, WeekCount
<1> QED
    BY <1>1, <1>2, <1>3, PictureSame DEF Knows

-----------------------------------------------------------------------------
(* What a call reads while nobody else writes                             *)

LEMMA LookupFresh ==
    ASSUME BotInv, ~DiskMayFail, NEW t \in Threads, Calls(t), Lookup(t), Fresh(call[t])
    PROVE  Fresh(call[t])'
<1>1. /\ TypeOK /\ DOMAIN call = Threads /\ DOMAIN call[t] = DOMAIN Idle
      /\ Shape(call[t]) /\ call[t].req.op \in Ops
    BY HandlerFacts, WaitingFacts, Threaded, RequestFacts
    DEF BotInv, TablesOK, ServiceInv, CallOK
<1>2. UNCHANGED db /\ call'[t].req = call[t].req
    BY <1>1, LookupStep, LookupAnswer DEF BotInv, TablesOK, ServiceInv
<1>3. \/ /\ call'[t].pc \in {"find", "fill", call[t].req.op}
         /\ call'[t].code = call[t].code /\ call'[t].id = call[t].id
      \/ /\ call'[t].pc = "done" /\ call'[t].code # "ok"
         /\ call'[t].id = call[t].id /\ call[t].id \notin DOMAIN calendars
  <2>1. CASE CacheHit(t)
      BY <1>1, <2>1, IdleFields DEF CacheHit
  <2>2. CASE CacheMiss(t) \/ FillCache(t)
      BY <1>1, <2>2, GotoFacts, IdleFields DEF CacheMiss, FillCache, SameBut
  <2>3. CASE /\ call[t].id \notin DOMAIN calendars
             /\ Answer(t, "calendar_not_found", NULL)
      BY <1>1, <2>3, AnswerFacts, IdleFields DEF SameBut
  <2>4. CASE call' = [call EXCEPT ![t].cal = calendars[call[t].id], ![t].pc = "fill"]
      BY <1>1, <2>4, IdleFields
  <2> QED
      BY <2>1, <2>2, <2>3, <2>4 DEF Lookup, FindCalendar
<1>4. UNCHANGED <<calendars, messages>>
    BY <1>2 DEF db
<1>5. call[t].req.op \notin {"invalidate", "done", "heatmap_count", "find", "fill"}
    BY <1>1 DEF Ops
<1> QED
    BY <1>2, <1>3, <1>4, <1>5 DEF Fresh, WeekOf, WeekCount

LEMMA ReadingFresh ==
    ASSUME BotInv, ~DiskMayFail, NEW t \in Threads, Calls(t), Reading(t), Fresh(call[t])
    PROVE  Fresh(call[t])'
<1>1. /\ TypeOK /\ CallsInShape /\ DOMAIN call = Threads /\ DOMAIN call[t] = DOMAIN Idle
      /\ Shape(call[t]) /\ call[t].req \in Request /\ call[t].req.op \in Ops
    BY HandlerFacts, WaitingFacts, Threaded, RequestFacts
    DEF BotInv, TablesOK, ServiceInv, CallOK
<1>2. UNCHANGED db /\ call'[t].req = call[t].req
    BY <1>1, ReadingStep, ReadingAnswer DEF Quiet
<1>3. UNCHANGED <<calendars, participants, intervals, messages>>
    BY <1>2 DEF db
<1>4. ASSUME NEW code, NEW value, Answer(t, code, value)
      PROVE  /\ call'[t].pc = "done" /\ call'[t].code = code
             /\ call'[t].value = value /\ call'[t].id = call[t].id
    BY <1>1, <1>4, AnswerFacts, IdleFields DEF SameBut
<1>5. CASE ViewCalendar(t)
  <2>1. call[t].req.op = "view" /\ call'[t].code = "ok"
      BY <1>1, <1>4, <1>5 DEF ViewCalendar, Shape, Ops
  <2> QED
      BY <1>2, <2>1 DEF Fresh
<1>6. CASE CalendarMessage(t)
  <2>1. call[t].req.op = "message"
      BY <1>1, <1>6 DEF CalendarMessage, Shape, Ops
  <2>2. \/ call[t].id \in DOMAIN messages /\ Answer(t, "ok", messages[call[t].id])
        \/ Answer(t, "ok", NULL)
      BY <1>6 DEF CalendarMessage
  <2> QED
      BY <1>2, <1>3, <1>4, <2>1, <2>2 DEF Fresh
<1>7. CASE call[t].req.op \notin {"view", "message", "heatmap", "set_message"}
    BY <1>2, <1>7 DEF Fresh
<1>8. CASE FindWeek(t)
  <2> DEFINE k == call[t].id
             week == call[t].req.week
             counted == CountedIn(k, week)
  <2>1. call[t].req.op = "heatmap" /\ call[t].pc = "heatmap" /\ week \in Nat
      BY <1>1, <1>8, RequestFacts, DomainAssumption
      DEF FindWeek, Shape, Ops, HeatmapRequest
  <2>2. ASSUME WeekOf(k, week)
        PROVE  /\ call'[t].pc = "heatmap_count" /\ call'[t].got = counted
               /\ call'[t].code = call[t].code /\ call'[t].id = k
    <3>1. call[t].cal.config = calendars[k].config
      <4>1. call[t].cal \in CalendarRow /\ call[t].cal # NULL
          BY <1>1, <2>1, ServiceAssumption DEF Shape, AfterLookup, Ops
      <4>2. OldRow(k, call[t].cal)
          BY <4>1 DEF BotInv, TablesOK, CopiesOld, HeldRowsAreOld
      <4> QED
          BY <2>2, <4>2 DEF OldRow, Later, WeekOf
    <3> DEFINE weeks == month_weeks(calendars[k].config.month, calendars[k].config.week_start)
               rows == list_intervals(k, weeks[week + 1][1], weeks[week + 1][2])
    <3>2. week + 1 \in DOMAIN weeks
        BY <2>1, <2>2 DEF WeekOf, WeekCount
    <3>3. \E got \in Delivered(rows) :
              call' = [call EXCEPT ![t].pc = "heatmap_count",
                                   ![t].got = {intervals[i].participant : i \in got}]
        BY <1>8, <3>1, <3>2 DEF FindWeek
    <3>4. Delivered(rows) = {rows}
        BY DEF Delivered
    <3>5. counted = {intervals[i].participant : i \in rows}
        BY DEF CountedIn, SpanOf
    <3>6. call' = [call EXCEPT ![t].pc = "heatmap_count", ![t].got = counted]
        BY <3>3, <3>4, <3>5
    <3> HIDE DEF counted, k
    <3> QED
        BY <1>1, <3>6, IdleFields DEF k
  <2>3. call'[t].id = k
    <3>1. \/ \E code : Answer(t, code, NULL)
          \/ \E got : call' = [call EXCEPT ![t].pc = "heatmap_count", ![t].got = got]
        BY <1>8 DEF FindWeek
    <3> QED
        BY <1>1, <1>4, <3>1, IdleFields
  <2> HIDE DEF counted
  <2>4. Fresh(call[t])' <=>
            (WeekOf(k, week) => /\ call'[t].code = "ok"
                                /\ call'[t].pc = "heatmap_count" => call'[t].got = counted
                                /\ call'[t].pc = "done" => call'[t].value =
                                      [counted |-> counted,
                                       total |-> Cardinality(ParticipantsIn(k))])
      BY <1>2, <1>3, <2>1, <2>3, PictureSame DEF Fresh, counted
  <2> QED
      BY <2>1, <2>2, <2>4 DEF Fresh
<1>9. CASE WeeklyHeatmap(t)
  <2>1. call[t].req.op = "heatmap" /\ call[t].pc = "heatmap_count"
      BY <1>1, <1>9 DEF WeeklyHeatmap, Shape
  <2>2. Answer(t, "ok", [counted |-> call[t].got,
                         total |-> Cardinality(ParticipantsIn(call[t].id))])
      BY <1>9 DEF WeeklyHeatmap
  <2>3. /\ call'[t].pc = "done" /\ call'[t].code = "ok" /\ call'[t].id = call[t].id
        /\ call'[t].value = [counted |-> call[t].got,
                             total |-> Cardinality(ParticipantsIn(call[t].id))]
      BY <1>4, <2>2
  <2> QED
      BY <1>2, <1>3, <2>1, <2>3, PictureSame DEF Fresh
<1> QED
  <2>1. CASE \/ FindMine(t) \/ MySchedule(t) \/ FindAttendees(t) \/ DayParticipants(t)
             \/ PublicParticipants(t)
      BY <1>1, <1>7, <2>1
      DEF FindMine, MySchedule, FindAttendees, DayParticipants, PublicParticipants,
          Shape, Ops
  <2> QED
      BY <1>5, <1>6, <1>8, <1>9, <2>1 DEF Reading

LEMMA WritingFresh ==
    ASSUME BotInv, ~DiskMayFail, NEW t \in Threads, Calls(t), Writing(t), Fresh(call[t])
    PROVE  Fresh(call[t])'
<1>1. /\ TypeOK /\ DOMAIN call = Threads /\ DOMAIN call[t] = DOMAIN Idle
      /\ Shape(call[t]) /\ AnswerOK(call[t])
    BY HandlerFacts, WaitingFacts, Threaded
    DEF BotInv, TablesOK, ServiceInv, CallOK
<1>2. call'[t].req = call[t].req
    BY WritingAnswer
<1>3. CASE call[t].req.op \notin {"view", "message", "heatmap", "set_message"}
    BY <1>2, <1>3 DEF Fresh
<1>4. CASE SetCalendarMessage(t)
  <2>1. call[t].req.op = "set_message"
      BY <1>1, <1>4 DEF SetCalendarMessage, Shape, Ops
  <2>2. CASE set_calendar_message(call[t].id, call[t].req.message) /\ Answer(t, "ok", NULL)
    <3>1. call'[t].pc = "done" /\ call'[t].code = "ok" /\ call'[t].id = call[t].id
        BY <1>1, <2>2, AnswerFacts, IdleFields DEF SameBut
    <3>2. messages' = Put(messages, call[t].id, call[t].req.message)
        BY <2>2 DEF set_calendar_message
    <3>3. call[t].id \in DOMAIN messages' /\ messages'[call[t].id] = call[t].req.message
        BY <3>2 DEF Put
    <3> QED
        BY <1>2, <2>1, <3>1, <3>3 DEF Fresh
  <2>3. CASE /\ call[t].id \notin DOMAIN calendars /\ UNCHANGED db
             /\ Answer(t, "database_error", NULL)
    <3>1. /\ call'[t].pc = "done" /\ call'[t].code = "database_error"
          /\ call'[t].id = call[t].id /\ calendars' = calendars
        BY <1>1, <2>3, AnswerFacts, IdleFields DEF SameBut, db
    <3> QED
        BY <1>2, <2>1, <2>3, <3>1 DEF Fresh
  <2> QED
      BY <1>4, <2>2, <2>3 DEF SetCalendarMessage
<1>5. CASE Invalidate(t)
    BY <1>1, <1>3, <1>5 DEF Invalidate, AnswerOK, WriteOps, Fresh
<1> QED
  <2>1. CASE \/ CreateCalendar(t) \/ AddAvailability(t) \/ StoreDate(t)
             \/ ClearMyData(t) \/ ChangeState(t) \/ DeleteCalendar(t)
      BY <1>1, <1>3, <2>1
      DEF CreateCalendar, AddAvailability, StoreDate, ClearMyData, ChangeState,
          DeleteCalendar, Shape, Ops
  <2> QED
      BY <1>4, <1>5, <2>1 DEF Writing

\* The tables that a call which only looks, or stores a reference, leaves alone.
LEMMA CallsLeave ==
    ASSUME BotInv, NEW t \in Threads, Calls(t)
    PROVE  /\ call[t].req.op \in {"view", "message", "heatmap"} => UNCHANGED db
           /\ call[t].req.op = "set_message" =>
                    UNCHANGED <<calendars, participants, intervals>>
<1>1. StepCases(t) /\ Shape(call[t])
    BY HandlerFacts, CasesOfStep DEF Calls, Step, Work, BotInv, TablesOK
<1>2. CASE Reads(t)
    BY <1>2 DEF Reads, db
<1>3. CASE Posts(t)
    BY <1>1, <1>3 DEF Posts, set_calendar_message, Shape, Ops
<1>4. CASE Creates(t) \/ Joins(t) \/ Stores(t) \/ Clears(t) \/ Manages(t)
    BY <1>1, <1>4 DEF Creates, Joins, Stores, Clears, Manages, Shape, Ops
<1> QED
    BY <1>1, <1>2, <1>3, <1>4 DEF StepCases

\* A handler that knows nothing of a reference.
LEMMA KnowsNothing ==
    ASSUME NEW t, task'[t].ref = NULL,
           task'[t].at \notin {"last_week", "reference", "calendar", "count", "heatmap",
                               "updated"},
           task'[t].at \in {"saved", "cleared"} => task'[t].input.op \in Updating \ Turning,
           task'[t].at \in Through \/ Fresh(call[t])'
    PROVE  Knows(task[t], call[t])'
BY DEF Knows

LEMMA CallsKnow ==
    ASSUME BotInv, ~DiskMayFail, NEW t \in Threads, Calls(t), Knows(task[t], call[t])
    PROVE  Knows(task[t], call[t])'
<1>1. /\ task[t].at \in Stages \ Through /\ call[t].req.op = StageOp(task[t].at)
      /\ task' = task /\ board' = board
    BY HandlerFacts, WaitingFacts DEF Fits, TaskOK, Calls, botVars
<1>2. call'[t].req = call[t].req /\ Fresh(call[t])'
  <2>1. Fresh(call[t])
      BY <1>1 DEF Knows
  <2> QED
      BY <2>1, LookupAnswer, WritingAnswer, ReadingAnswer, LookupFresh, WritingFresh,
         ReadingFresh DEF Calls
<1>3. CASE task[t].at \in {"last_week", "reference", "calendar", "count", "heatmap"}
  <2>1. call[t].req.op \in {"view", "message", "heatmap"}
      BY <1>1, <1>3 DEF StageOp
  <2>2. UNCHANGED <<calendars, participants, intervals, messages>>
      BY <2>1, CallsLeave DEF db
  <2>3. \A op, k, from : Target(op, k, from)' = Target(op, k, from)
      BY <2>2 DEF Target, WeekCount
  <2> QED
      BY <1>1, <1>2, <1>3, <2>2, <2>3, PictureSame DEF Knows
<1>4. CASE task[t].at = "updated"
  <2>1. UNCHANGED <<calendars, participants, intervals>>
      BY <1>1, <1>4, CallsLeave DEF StageOp
  <2>2. \A op, k, from : Target(op, k, from)' = Target(op, k, from)
      BY <2>1 DEF Target, WeekCount
  <2> QED
      BY <1>1, <1>2, <1>4, <2>1, <2>2, PictureSame DEF Knows
<1>5. CASE task[t].at \notin {"last_week", "reference", "calendar", "count", "heatmap",
                              "updated"}
  <2>1. task[t].ref = NULL
      BY <1>1, <1>5 DEF Knows, Through
  <2>2. task[t].at \in {"saved", "cleared"} => task[t].input.op \in Updating \ Turning
      BY DEF Knows
  <2> QED
      BY <1>1, <1>2, <1>5, <2>1, <2>2, KnowsNothing
<1> QED
    BY <1>3, <1>4, <1>5

-----------------------------------------------------------------------------
(* What its own steps tell a handler                                       *)

\* A handler that goes on, or ends.
LEMMA WaitsLeaves ==
    ASSUME BotInv, NEW t \in Threads, NEW now, NEW stage, NEW r, TaskOK(now),
           Waits(t, now, stage, r)
    PROVE  /\ task'[t].at = stage /\ task'[t].input = now.input
           /\ task'[t].calendar = now.calendar /\ task'[t].week = now.week
           /\ task'[t].ref = now.ref /\ task'[t].delivered = now.delivered
           /\ call'[t].req = r /\ Fresh(call[t])'
<1>1. /\ task' = [task EXCEPT ![t] = [now EXCEPT !.at = stage]]
      /\ call' = [call EXCEPT ![t] = Started(r)]
      /\ DOMAIN task = Threads /\ DOMAIN call = Threads
    BY Threaded DEF Waits
<1>2. call'[t] = Started(r)
    BY <1>1
<1>3. /\ Started(r).req = r /\ Started(r).pc \in {"create", "lookup"}
      /\ Started(r).code = "ok"
    BY DEF Started, Idle
<1> QED
    BY <1>1, <1>2, <1>3 DEF TaskOK, Free, Fresh

LEMMA EndsLeaves ==
    ASSUME BotInv, NEW t \in Threads, NEW now, TaskOK(now), Ends(t, now)
    PROVE  /\ task'[t].at = "ended" /\ task'[t].input = now.input
           /\ task'[t].calendar = now.calendar /\ task'[t].week = now.week
           /\ task'[t].ref = now.ref /\ task'[t].delivered = now.delivered
BY Threaded DEF Ends, TaskOK, Free

LEMMA RepliesLeaves ==
    ASSUME BotInv, NEW t \in Threads, NEW now, TaskOK(now), NEW answer,
           Replies(t, now, answer)
    PROVE  /\ task'[t].at = "ended" /\ task'[t].input = now.input
           /\ task'[t].ref = now.ref
BY SaysFacts, EndsLeaves DEF Replies

\* A handler that has read no reference ends.
LEMMA EndsUnread ==
    ASSUME BotInv, NEW t \in Threads, NEW now, TaskOK(now), now.ref = NULL,
           Ends(t, now) \/ \E answer : Replies(t, now, answer)
    PROVE  Knows(task[t], call[t])'
BY EndsLeaves, RepliesLeaves, KnowsNothing DEF Through

\* One that has read it gets no error, while calendar and week exist.
LEMMA NoErrorWithReference ==
    ASSUME BotInv, NEW t \in Threads, Knows(task[t], call[t]), task[t].ref # NULL,
           call[t].pc = "done"
    PROVE  call[t].code = "ok"
<1>1. /\ task[t].at \in {"calendar", "count", "heatmap", "updated"}
      /\ call[t].req.op = StageOp(task[t].at)
      /\ call[t].id = task[t].calendar
  <2>1. task[t].at \notin Through
      BY HandlerFacts DEF Fits, Idle
  <2> QED
      BY <2>1, HandlerFacts DEF Knows, Fits, Through
<1>2. Prepared(task[t], task[t].at) /\ Fresh(call[t])
    BY <1>1, HandlerFacts DEF Fits, Knows, Through
<1>3. task[t].calendar \in DOMAIN calendars
    BY DEF Knows, WeekOf
<1>4. task[t].at = "heatmap" =>
            call[t].req.week = task[t].week /\ WeekOf(task[t].calendar, task[t].week)
    BY <1>2 DEF Knows, Prepared
<1> QED
    BY <1>1, <1>2, <1>3, <1>4 DEF Fresh, StageOp

LEMMA CatchKnows ==
    ASSUME BotInv, NEW t \in Threads, Catch(t), Knows(task[t], call[t])
    PROVE  Knows(task[t], call[t])'
<1>1. task[t].ref = NULL
    BY NoErrorWithReference DEF Catch
<1> QED
    BY <1>1, HandlerFacts, EndsUnread DEF Catch

\* public_message, by a handler that updates or does not.
LEMMA DrawingKnows ==
    ASSUME BotInv, NEW t \in Threads, Knows(task[t], call[t]),
           Created(t) \/ GotCalendar(t) \/ GotCount(t)
    PROVE  Knows(task[t], call[t])'
<1>1. UNCHANGED <<db, board>>
    BY DEF Created, GotCalendar, GotCount, Silent, BotOnly
<1>2. TaskOK(task[t])
    BY HandlerFacts
<1>3. CASE Created(t)
  <2> DEFINE now == [task[t] EXCEPT !.calendar = call[t].id]
  <2>1. task[t].input.op = "create" /\ task[t].ref = NULL /\ call[t].id \in 0..MaxRowId
      BY <1>2, <1>3, HandlerFacts, GotFacts
      DEF Created, Got, Fits, Prepared, Knows, Through, CallOK
  <2>2. TaskOK(now) /\ now.input = task[t].input /\ now.ref = task[t].ref
      BY <1>2, <2>1 DEF TaskOK, Free
  <2>3. Waits(t, now, "calendar", CallOf("view", now.calendar))
      BY <1>3 DEF Created, public_message
  <2> HIDE DEF now
  <2>4. /\ task'[t].at = "calendar" /\ task'[t].input.op = "create"
        /\ task'[t].ref = NULL /\ Fresh(call[t])'
      BY <2>1, <2>2, <2>3, WaitsLeaves
  <2> QED
      BY <2>4 DEF Knows, Updating
<1>4. CASE GotCalendar(t)
  <2>1. Waits(t, task[t], "count", CallOf("view", task[t].calendar))
      BY <1>4 DEF GotCalendar
  <2>2. /\ task'[t].at = "count" /\ task'[t].input = task[t].input
        /\ task'[t].calendar = task[t].calendar /\ task'[t].week = task[t].week
        /\ task'[t].ref = task[t].ref /\ Fresh(call[t])'
      BY <1>2, <2>1, WaitsLeaves
  <2>3. task[t].at = "calendar"
      BY <1>4 DEF GotCalendar, Got
  <2> QED
      BY <1>1, <2>2, <2>3, StaysOnTarget DEF Knows, Through
<1>5. CASE GotCount(t)
  <2> DEFINE r == HeatmapCall(task[t].calendar, task[t].week)
  <2>1. Waits(t, task[t], "heatmap", r) /\ r.week = task[t].week
      BY <1>5 DEF GotCount, HeatmapCall
  <2> HIDE DEF r
  <2>2. /\ task'[t].at = "heatmap" /\ task'[t].input = task[t].input
        /\ task'[t].calendar = task[t].calendar /\ task'[t].week = task[t].week
        /\ task'[t].ref = task[t].ref /\ Fresh(call[t])' /\ call'[t].req = r
      BY <1>2, <2>1, WaitsLeaves
  <2>3. task[t].at = "count"
      BY <1>5 DEF GotCount, Got
  <2> QED
      BY <1>1, <2>1, <2>2, <2>3, StaysOnTarget DEF Knows, Through
<1> QED
    BY <1>3, <1>4, <1>5

LEMMA EndingKnows ==
    ASSUME BotInv, NEW t \in Threads, Knows(task[t], call[t]),
           Post(t) \/ Preview(t) \/ Referenced(t) \/ Ranking(t) \/ Looked(t)
    PROVE  Knows(task[t], call[t])'
<1>1. task[t].ref = NULL
    BY DEF Knows, Post, Preview, Referenced, Ranking, Looked, Got, Updating
<1> QED
    BY <1>1, HandlerFacts, EndsUnread DEF Post, Preview, Referenced, Ranking, Looked

LEMMA LookingKnows ==
    ASSUME BotInv, NEW t \in Threads, Knows(task[t], call[t]),
           GotBestWeek(t) \/ Listed(t)
    PROVE  Knows(task[t], call[t])'
<1>1. task[t].ref = NULL
    BY DEF Knows, GotBestWeek, Listed, Got
<1>2. PICK stage, r : stage \in {"ranked", "titled"} /\ Waits(t, task[t], stage, r)
    BY DEF GotBestWeek, Listed
<1> QED
    BY <1>1, <1>2, HandlerFacts, WaitsLeaves, KnowsNothing

\* update_public_message.
LEMMA UpdateLeaves ==
    ASSUME BotInv, NEW t \in Threads, NEW now, TaskOK(now),
           NEW week \in Optional(Weeks), update_public_message(t, now, week)
    PROVE  /\ task'[t].at = "reference" /\ task'[t].input = now.input
           /\ task'[t].calendar = now.calendar /\ task'[t].week = week
           /\ task'[t].ref = now.ref /\ Fresh(call[t])'
<1> DEFINE then == [now EXCEPT !.week = week]
<1>1. /\ TaskOK(then) /\ then.input = now.input /\ then.calendar = now.calendar
      /\ then.week = week /\ then.ref = now.ref
    BY DEF TaskOK, Free
<1>2. Waits(t, then, "reference", CallOf("message", now.calendar))
    BY DEF update_public_message
<1> HIDE DEF then
<1> QED
    BY <1>1, <1>2, WaitsLeaves

LEMMA ChangedKnows ==
    ASSUME BotInv, NEW t \in Threads, Knows(task[t], call[t]), Saved(t) \/ Cleared(t)
    PROVE  Knows(task[t], call[t])'
<1>1. /\ TaskOK(task[t]) /\ call[t].pid \in 0..MaxRowId /\ NULL \in Optional(Weeks)
      /\ task[t].ref = NULL /\ task[t].input.op \in Updating \ Turning
    BY HandlerFacts DEF Saved, Cleared, Got, Knows, CallOK, Optional
<1>2. PICK now : /\ update_public_message(t, now, NULL) /\ TaskOK(now)
                 /\ now.input = task[t].input /\ now.ref = NULL
  <2>1. CASE Saved(t)
    <3> DEFINE said == Says(task[t], "saved")
               now == [said EXCEPT !.member = call[t].pid]
    <3>1. TaskOK(said) /\ said.input = task[t].input /\ said.ref = NULL
        BY <1>1, SaysFacts
    <3> HIDE DEF said
    <3>2. TaskOK(now) /\ now.input = task[t].input /\ now.ref = NULL
        BY <1>1, <3>1 DEF TaskOK, Free
    <3>3. update_public_message(t, now, NULL)
        BY <2>1 DEF Saved, said
    <3> QED
        BY <3>2, <3>3
  <2>2. CASE Cleared(t)
      BY <1>1, <2>2, SaysFacts DEF Cleared
  <2> QED
      BY <2>1, <2>2
<1>3. /\ task'[t].at = "reference" /\ task'[t].input = task[t].input
      /\ task'[t].week = NULL /\ task'[t].ref = NULL /\ Fresh(call[t])'
    BY <1>1, <1>2, UpdateLeaves
<1> QED
    BY <1>1, <1>3 DEF Knows

\* What an answered "message" call has read is what is stored.
LEMMA ReadReference ==
    ASSUME BotInv, NEW t \in Threads, Knows(task[t], call[t]),
           Got(t, "reference") \/ Got(t, "shown_week"), Value(t) # NULL
    PROVE  task[t].calendar \in DOMAIN messages /\ Value(t) = messages[task[t].calendar]
<1>1. /\ call[t].req.op = "message" /\ call[t].id = task[t].calendar
      /\ call[t].pc = "done" /\ call[t].code = "ok"
    BY GotFacts DEF Stages, Through, StageOp
<1>2. Fresh(call[t])
    BY DEF Knows, Got, Through
<1> QED
    BY <1>1, <1>2 DEF Fresh, Value

\* The weeks that navigation leads to are numbers.
LEMMA TargetIsWeek ==
    ASSUME BotInv, NEW c \in DOMAIN calendars, NEW from \in Nat,
           from < WeekCount(calendars[c]), NEW op \in Updating
    PROVE  Target(op, c, from) \in Weeks /\ Target(op, c, from) # NULL
<1>1. WeekCount(calendars[c]) \in 4..6
    BY WeekCounts
<1>2. Target(op, c, from) \in 0..5
  <2> DEFINE count == WeekCount(calendars[c])
  <2>1. count \in 4..6 /\ from < count
      BY <1>1
  <2> HIDE DEF count
  <2>2. PrevWeek(from) \in 0..5 /\ NextWeek(from, count) \in 0..5 /\ from \in 0..5
      BY <2>1 DEF PrevWeek, NextWeek
  <2> QED
      BY <2>2 DEF Target, count
<1> QED
    BY <1>2, BotAssumption, NullIsNoNumber

\* A handler that knows where to go, and one that has read from where.
LEMMA TowardsWeek ==
    ASSUME UNCHANGED db, NEW t, NEW c \in DOMAIN messages,
           NEW from, from = messages[c].week,
           task'[t].at = "reference", task'[t].input.op \in Turning,
           task'[t].calendar = c, task'[t].week = Target(task'[t].input.op, c, from),
           task'[t].ref = NULL, Fresh(call[t])'
    PROVE  Knows(task[t], call[t])'
<1>1. UNCHANGED messages /\ \A op : Target(op, c, from)' = Target(op, c, from)
    BY StaysOnTarget
<1> QED
    BY <1>1 DEF Knows, Updating, Turning

LEMMA WithReference ==
    ASSUME UNCHANGED db, NEW t, NEW c, NEW ref, WeekOf(c, ref.week),
           task'[t].at = "calendar", task'[t].input.op \in Updating,
           task'[t].calendar = c, task'[t].ref = ref, ref # NULL,
           task'[t].week = Target(task'[t].input.op, c, ref.week), Fresh(call[t])'
    PROVE  Knows(task[t], call[t])'
<1>1. WeekOf(c, ref.week)'
    BY StaysOnTarget
<1>2. \A op, from : Target(op, c, from)' = Target(op, c, from)
    BY StaysOnTarget
<1> QED
    BY <1>1, <1>2 DEF Knows

LEMMA GotReferenceKnows ==
    ASSUME BotInv, NEW t \in Threads, Knows(task[t], call[t]), GotReference(t)
    PROVE  Knows(task[t], call[t])'
<1> DEFINE c == task[t].calendar
           from == Value(t).week
           op == task[t].input.op
<1>1. /\ TaskOK(task[t]) /\ Got(t, "reference") /\ task[t].at = "reference"
      /\ task[t].ref = NULL /\ op \in Updating
    BY HandlerFacts DEF GotReference, Got, Knows
<1>2. CASE Value(t) = NULL
    BY <1>1, <1>2, EndsUnread DEF GotReference
<1>3. CASE Value(t) # NULL
  <2> DEFINE week == WeekToShow(task[t].week, Value(t))
             now == [task[t] EXCEPT !.ref = Value(t), !.week = week]
  <2>1. /\ c \in DOMAIN messages /\ Value(t) = messages[c]
        /\ Value(t) \in MessageRow /\ WeekOf(c, from) /\ from \in Nat
      BY <1>1, <1>3, ReadReference, ReferenceFacts, DomainAssumption
  <2>2. Target(op, c, from) \in Weeks /\ Target(op, c, from) # NULL
      BY <1>1, <2>1, TargetIsWeek DEF WeekOf
  <2>3. week = Target(op, c, from)
    <3>1. CASE op \in Turning
      <4>1. task[t].week = Target(op, c, from)
          BY <1>1, <2>1, <3>1 DEF Knows
      <4> QED
          BY <2>2, <4>1 DEF WeekToShow
    <3>2. CASE op \notin Turning
      <4>1. task[t].week = NULL
          BY <1>1, <3>2 DEF Knows
      <4> QED
          BY <3>2, <4>1 DEF WeekToShow, Target, Turning
    <3> QED
        BY <3>1, <3>2
  <2>4. Waits(t, now, "calendar", CallOf("view", now.calendar))
      BY <1>3 DEF GotReference, public_message
  <2> HIDE DEF week
  <2>5. /\ TaskOK(now) /\ now.input = task[t].input /\ now.calendar = c
        /\ now.week = week /\ now.ref = Value(t)
      BY <1>1, <2>1, <2>2, <2>3 DEF TaskOK, Free, Optional
  <2> HIDE DEF now
  <2>6. /\ task'[t].at = "calendar" /\ task'[t].input = task[t].input
        /\ task'[t].calendar = c /\ task'[t].week = week
        /\ task'[t].ref = Value(t) /\ Fresh(call[t])'
      BY <2>4, <2>5, WaitsLeaves
  <2>7. UNCHANGED db
      BY DEF GotReference, Silent, BotOnly
  <2> QED
      BY <1>1, <1>3, <2>1, <2>3, <2>6, <2>7, WithReference
<1> QED
    BY <1>2, <1>3

LEMMA GotShownWeekKnows ==
    ASSUME BotInv, NEW t \in Threads, Knows(task[t], call[t]), GotShownWeek(t)
    PROVE  Knows(task[t], call[t])'
<1> DEFINE now == Says(task[t], "moving")
           c == task[t].calendar
           shown == Value(t).week
<1>1. /\ TaskOK(task[t]) /\ Got(t, "shown_week") /\ task[t].at = "shown_week"
      /\ task[t].ref = NULL
    BY HandlerFacts DEF GotShownWeek, Got, Knows
<1>2. /\ TaskOK(now) /\ now.input = task[t].input /\ now.calendar = c
      /\ now.ref = NULL
    BY <1>1, SaysFacts
<1> HIDE DEF now
<1>3. UNCHANGED db
    BY DEF GotShownWeek, Silent, BotOnly
<1>4. CASE Replies(t, task[t], "error")
    BY <1>1, <1>4, EndsUnread
<1>5. ASSUME Value(t) # NULL
      PROVE  /\ c \in DOMAIN messages /\ Value(t) = messages[c]
             /\ shown \in Weeks /\ shown \in Nat /\ WeekOf(c, shown)
    BY <1>1, <1>5, ReadReference, ReferenceFacts, DomainAssumption
<1>6. ASSUME Value(t) # NULL, task[t].input.op = "prev",
             update_public_message(t, now, PrevWeek(shown))
      PROVE  Knows(task[t], call[t])'
  <2>1. PrevWeek(shown) = Target("prev", c, shown)
      BY DEF Target
  <2>2. PrevWeek(shown) \in Optional(Weeks)
      BY <1>5, <1>6, <2>1, TargetIsWeek DEF WeekOf, Updating, Optional
  <2>3. /\ task'[t].at = "reference" /\ task'[t].input = task[t].input
        /\ task'[t].calendar = c /\ task'[t].week = Target("prev", c, shown)
        /\ task'[t].ref = NULL /\ Fresh(call[t])'
      BY <1>2, <1>6, <2>1, <2>2, UpdateLeaves
  <2> QED
      BY <1>3, <1>5, <1>6, <2>3, TowardsWeek DEF Turning
<1>7. ASSUME Value(t) # NULL, task[t].input.op = "next",
             Waits(t, [now EXCEPT !.week = shown], "last_week", CallOf("view", c))
      PROVE  Knows(task[t], call[t])'
  <2> DEFINE then == [now EXCEPT !.week = shown]
  <2>1. /\ TaskOK(then) /\ then.input = task[t].input /\ then.calendar = c
        /\ then.week = shown /\ then.ref = NULL
      BY <1>2, <1>5, <1>7 DEF TaskOK, Free, Optional
  <2>2. Waits(t, then, "last_week", CallOf("view", c))
      BY <1>7
  <2> HIDE DEF then, shown
  <2>3. /\ task'[t].at = "last_week" /\ task'[t].input = task[t].input
        /\ task'[t].calendar = c /\ task'[t].week = shown
        /\ task'[t].ref = NULL /\ Fresh(call[t])'
      BY <2>1, <2>2, WaitsLeaves
  <2>4. c \in DOMAIN messages' /\ shown = messages'[c].week
      BY <1>3, <1>5, <1>7, StaysOnTarget DEF shown
  <2> QED
      BY <1>7, <2>3, <2>4 DEF Knows
<1> QED
    BY <1>4, <1>6, <1>7 DEF GotShownWeek, now

LEMMA GotLastWeekKnows ==
    ASSUME BotInv, NEW t \in Threads, Knows(task[t], call[t]), GotLastWeek(t)
    PROVE  Knows(task[t], call[t])'
<1> DEFINE c == task[t].calendar
           next == NextWeek(task[t].week, WeekCount(Value(t)))
<1>1. /\ TaskOK(task[t]) /\ task[t].at = "last_week" /\ task[t].ref = NULL
      /\ task[t].input.op = "next"
      /\ c \in DOMAIN messages /\ task[t].week = messages[c].week
    BY HandlerFacts DEF GotLastWeek, Got, Knows
<1>2. c \in DOMAIN calendars /\ WeekCount(Value(t)) = WeekCount(calendars[c])
    BY LastWeekFacts
<1>3. task[t].week \in Nat /\ task[t].week < WeekCount(calendars[c])
  <2>1. Prepared(task[t], "last_week")
      BY <1>1, HandlerFacts DEF Fits
  <2> QED
      BY <1>1, <2>1, DomainAssumption DEF Prepared, WeekOf, TaskOK, Optional
<1>4. next = Target("next", c, task[t].week)
    BY <1>2 DEF Target
<1>5. next \in Optional(Weeks)
    BY <1>2, <1>3, <1>4, TargetIsWeek DEF Updating, Optional
<1>6. update_public_message(t, task[t], next) /\ UNCHANGED db
    BY DEF GotLastWeek, Silent, BotOnly
<1> HIDE DEF next
<1>7. /\ task'[t].at = "reference" /\ task'[t].input = task[t].input
      /\ task'[t].calendar = c /\ task'[t].week = next
      /\ task'[t].ref = NULL /\ Fresh(call[t])'
    BY <1>1, <1>5, <1>6, UpdateLeaves
<1> QED
    BY <1>1, <1>4, <1>6, <1>7, TowardsWeek DEF Turning

\* The edit shows who is counted now, in the week that is written back.
LEMMA EditKnows ==
    ASSUME BotInv, NEW t \in Threads, Knows(task[t], call[t]), Edit(t)
    PROVE  Knows(task[t], call[t])'
<1> DEFINE message == Updated(task[t].ref, task[t].week)
           r == [op |-> "set_message", calendar |-> task[t].calendar, message |-> message]
<1>1. /\ TaskOK(task[t]) /\ task[t].at = "heatmap" /\ task[t].input.op \in Updating
      /\ task[t].ref # NULL
      /\ WeekOf(task[t].calendar, task[t].ref.week)
      /\ task[t].week = Target(task[t].input.op, task[t].calendar, task[t].ref.week)
      /\ call[t].req.week = task[t].week /\ Fresh(call[t])
    BY HandlerFacts DEF Edit, Got, Knows, Through
<1>2. PICK delivered \in BOOLEAN :
            /\ board' = IF delivered THEN Put(board, task[t].calendar, Picture(t)) ELSE board
            /\ Waits(t, [task[t] EXCEPT !.delivered = delivered], "updated", r)
    BY BotAssumption DEF Edit
<1>3. UNCHANGED db
    BY DEF Edit, BotOnly
<1>4. /\ call[t].id = task[t].calendar /\ WeekOf(task[t].calendar, task[t].week)
      /\ call[t].req.op = "heatmap" /\ call[t].pc = "done" /\ call[t].code = "ok"
    BY GotFacts DEF Edit, Stages, Through, StageOp, Prepared
<1>5. Picture(t) = Shown(task[t].calendar, task[t].week)
  <2>1. Value(t) = [counted |-> CountedIn(task[t].calendar, task[t].week),
                    total |-> Cardinality(ParticipantsIn(task[t].calendar))]
      BY <1>1, <1>4 DEF Fresh, Value
  <2>2. /\ Value(t).counted = CountedIn(task[t].calendar, task[t].week)
        /\ Value(t).total = Cardinality(ParticipantsIn(task[t].calendar))
      BY <2>1
  <2> QED
      BY <2>2 DEF Picture, Shown
<1>6. message.week = task[t].week
  <2>1. task[t].ref \in MessageRow
      BY <1>1 DEF TaskOK, Optional
  <2> QED
      BY <2>1 DEF Updated, MessageRow
<1> DEFINE now == [task[t] EXCEPT !.delivered = delivered]
<1>7. /\ TaskOK(now) /\ now.input = task[t].input /\ now.calendar = task[t].calendar
      /\ now.week = task[t].week /\ now.ref = task[t].ref /\ now.delivered = delivered
    BY <1>1 DEF TaskOK, Free
<1>8. Waits(t, now, "updated", r) /\ r.message = message
    BY <1>2
<1> HIDE DEF now, r, message
<1>9. /\ task'[t].at = "updated" /\ task'[t].input = task[t].input
      /\ task'[t].calendar = task[t].calendar /\ task'[t].week = task[t].week
      /\ task'[t].ref = task[t].ref /\ task'[t].delivered = delivered
      /\ call'[t].req = r /\ Fresh(call[t])'
    BY <1>7, <1>8, WaitsLeaves
<1>10. delivered => board'[task[t].calendar] = Shown(task[t].calendar, task[t].week)
    BY <1>2, <1>5 DEF Put
<1>11. /\ \A c, week : WeekOf(c, week)' = WeekOf(c, week)
       /\ \A c, week : Shown(c, week)' = Shown(c, week)
       /\ \A op, c, from : Target(op, c, from)' = Target(op, c, from)
    BY <1>3, StaysOnTarget
<1> QED
    BY <1>1, <1>6, <1>8, <1>9, <1>10, <1>11 DEF Knows, Updating, Turning, Through

LEMMA EndUpdateKnows ==
    ASSUME BotInv, NEW t \in Threads, Knows(task[t], call[t]), EndUpdate(t)
    PROVE  Knows(task[t], call[t])'
<1>1. /\ TaskOK(task[t]) /\ task[t].at = "updated" /\ task[t].ref # NULL
      /\ call[t].req.message.week = task[t].week /\ Fresh(call[t])
    BY HandlerFacts DEF EndUpdate, Got, Knows, Through
<1>2. /\ call[t].id = task[t].calendar /\ call[t].req.op = "set_message"
      /\ call[t].pc = "done" /\ call[t].code = "ok"
    BY GotFacts DEF EndUpdate, Stages, Through, StageOp
<1>3. /\ task[t].calendar \in DOMAIN messages
      /\ messages[task[t].calendar].week = task[t].week
    BY <1>1, <1>2 DEF Fresh
<1>4. UNCHANGED db /\ board' = board /\ Ends(t, task[t])
    BY DEF EndUpdate, Silent, BotOnly
<1>5. /\ task'[t].at = "ended" /\ task'[t].input = task[t].input
      /\ task'[t].calendar = task[t].calendar /\ task'[t].week = task[t].week
      /\ task'[t].ref = task[t].ref /\ task'[t].delivered = task[t].delivered
    BY <1>1, <1>4, EndsLeaves
<1>6. /\ UNCHANGED messages
      /\ \A c, week : WeekOf(c, week)' = WeekOf(c, week)
      /\ \A c, week : Shown(c, week)' = Shown(c, week)
      /\ \A op, c, from : Target(op, c, from)' = Target(op, c, from)
    BY <1>4, StaysOnTarget
<1> QED
    BY <1>1, <1>3, <1>4, <1>5, <1>6 DEF Knows, Through

LEMMA HandleKnows ==
    ASSUME BotInv, NEW t \in Threads, Knows(task[t], call[t]), Handle(t)
    PROVE  task'[t].at = "free" \/ Knows(task[t], call[t])'
<1>1. Leave(t) => task'[t].at = "free"
    BY Threaded DEF Leave, Free
<1> QED
    BY <1>1, CatchKnows, DrawingKnows, EndingKnows, LookingKnows, ChangedKnows,
       GotReferenceKnows, GotShownWeekKnows, GotLastWeekKnows, EditKnows, EndUpdateKnows
    DEF Handle

\* A handler begins: it knows nothing yet.
LEMMA ArrivedKnows ==
    ASSUME BotInv, NEW t \in Threads, NEW i \in Interactions, Receive(t, i)
    PROVE  Knows(task[t], call[t])'
<1>1. /\ TaskOK(Arrived(i)) /\ Arrived(i).input = i
      /\ Arrived(i).ref = NULL
    BY ArrivedFacts DEF Arrived, Free
<1>2. ASSUME ~Unparsed(i),
             i.op \notin {"press_add", "press_attendees", "press_unknown", "form_unknown"},
             Waits(t, Arrived(i), Opening(i)[1], Opening(i)[2])
      PROVE  Knows(task[t], call[t])'
  <2>1. /\ task'[t].at = Opening(i)[1] /\ task'[t].input = i
        /\ task'[t].ref = NULL /\ Fresh(call[t])'
      BY <1>1, <1>2, WaitsLeaves
  <2>2. /\ Opening(i)[1] \notin {"count", "heatmap", "reference", "last_week", "updated"}
        /\ Opening(i)[1] \in {"saved", "cleared"} => i.op \in {"add", "submit", "clear"}
        /\ Opening(i)[1] = "calendar" => i.op = "view"
      BY <1>2, OpeningFacts
  <2>3. {"add", "submit", "clear"} \subseteq Updating \ Turning /\ "view" \notin Updating
      BY DEF Updating, Turning
  <2> QED
      BY <2>1, <2>2, <2>3 DEF Knows
<1> QED
    BY <1>1, <1>2, EndsUnread DEF Receive

LEMMA CalledBackKnows ==
    ASSUME BotInv, NEW t \in Threads, NEW c \in awaiting, Callback(t, c)
    PROVE  Knows(task[t], call[t])' \/ UNCHANGED <<task, call, alone>>
<1> DEFINE now == [Free EXCEPT !.calendar = c]
           r == [op |-> "set_message", calendar |-> c, message |-> Reference(c)]
<1>1. ASSUME Waits(t, now, "referenced", r)
      PROVE  Knows(task[t], call[t])'
  <2>1. c \in 0..MaxRowId
      BY RepositoryAssumption
      DEF BotInv, TablesOK, ServiceInv, TypeOK, RepoTypeOK, Tables, PicturesOK
  <2>2. TaskOK(now) /\ now.ref = NULL
      BY <2>1, RepositoryAssumption DEF TaskOK, Free, Stages, Optional
  <2> HIDE DEF now, r
  <2>3. task'[t].at = "referenced" /\ task'[t].ref = NULL /\ Fresh(call[t])'
      BY <1>1, <2>2, WaitsLeaves
  <2> QED
      BY <2>3, KnowsNothing
<1> QED
    BY <1>1 DEF Callback

-----------------------------------------------------------------------------
\* Whoever acts has something to do, so whoever overlaps no other acts alone.
LEMMA ActsBusy ==
    ASSUME BotInv, NEW u \in Threads, Act(u)
    PROVE  /\ task[u].at # "free"
           /\ alone' = alone
           /\ \A v \in Threads \ {u} : task'[v] = task[v]
<1>1. CASE Calls(u)
    BY <1>1, WaitingFacts DEF Calls, botVars, Through
<1>2. CASE Handle(u)
  <2>1. ASSUME call[u].pc = "done" PROVE task[u].at # "free"
      BY <2>1, HandlerFacts DEF Fits, Through, Idle
  <2>2. task[u].at # "free"
      BY <1>2, <2>1
      DEF Handle, Catch, Created, GotCalendar, GotCount, Post, Preview, Edit, EndUpdate,
          Referenced, GotReference, Saved, Cleared, GotShownWeek, GotLastWeek,
          GotBestWeek, Ranking, Listed, Looked, Leave, Got
  <2>3. alone' = alone
      BY <1>2
      DEF Handle, Catch, Created, GotCalendar, GotCount, Post, Preview, Edit, EndUpdate,
          Referenced, GotReference, Saved, Cleared, GotShownWeek, GotLastWeek,
          GotBestWeek, Ranking, Listed, Looked, Leave, Silent, BotOnly
  <2> QED
      BY <1>2, <2>2, <2>3, HandleStep DEF GoesOn
<1> QED
    BY <1>1, <1>2 DEF Act

LEMMA AloneStep ==
    ASSUME ~DiskMayFail
    PROVE  BotInv /\ AloneKnows /\ [BotNext]_<<vars, botVars>> => AloneKnows'
<1> SUFFICES ASSUME BotInv, AloneKnows, [BotNext]_<<vars, botVars>>
             PROVE  AloneKnows'
    OBVIOUS
<1>1. CASE Dies
  <2>1. \A t \in Threads : task'[t].at = "free"
      BY <1>1 DEF Dies, Free
  <2>2. alone' \subseteq Threads
      BY <1>1 DEF Dies, BotInv, GhostsOK
  <2> QED
      BY <2>1, <2>2 DEF AloneKnows
<1>2. ASSUME UNCHANGED <<task, call, alone, db, board>>
      PROVE  AloneKnows'
  <2>1. ASSUME NEW t \in alone, Knows(task[t], call[t]) PROVE Knows(task[t], call[t])'
      BY <1>2, <2>1, KnowsSame
  <2> QED
      BY <1>2, <2>1 DEF AloneKnows
<1>3. ASSUME NEW u \in Threads, Act(u)
      PROVE  AloneKnows'
  <2> SUFFICES ASSUME NEW t \in alone', task'[t].at # "free"
               PROVE  /\ \A v \in Threads \ {t} : task'[v].at = "free"
                      /\ Knows(task[t], call[t])'
      BY DEF AloneKnows
  <2>1. /\ task[u].at # "free" /\ t \in alone /\ t \in Threads
        /\ \A v \in Threads \ {u} : task'[v] = task[v]
      BY <1>3, ActsBusy DEF BotInv, GhostsOK
  <2>2. t = u
      BY <2>1 DEF AloneKnows
  <2>3. Knows(task[t], call[t]) /\ \A v \in Threads \ {t} : task'[v].at = "free"
      BY <2>1, <2>2 DEF AloneKnows
  <2> QED
      BY <1>3, <2>1, <2>2, <2>3, CallsKnow, HandleKnows DEF Act
<1>4. ASSUME NEW u \in Threads, Meets(u), Knows(task[u], call[u])',
             \A v \in Threads \ {u} : task'[v] = task[v]
      PROVE  AloneKnows'
    BY <1>4 DEF Meets, AloneKnows
<1>5. ASSUME NEW u \in Threads, NEW i \in Interactions, Receive(u, i)
      PROVE  AloneKnows'
  <2>1. Meets(u) /\ \A v \in Threads \ {u} : task'[v] = task[v]
      BY <1>5, ReceiveStep DEF Receive, GoesOn
  <2> QED
      BY <1>4, <1>5, <2>1, ArrivedKnows
<1>6. ASSUME NEW u \in Threads, NEW c \in awaiting, Callback(u, c)
      PROVE  AloneKnows'
  <2>1. UNCHANGED <<db, board>>
      BY <1>6 DEF Callback
  <2>2. CASE UNCHANGED <<task, call, alone>>
      BY <1>2, <2>1, <2>2
  <2>3. CASE ~(UNCHANGED <<task, call, alone>>)
    <3>1. Meets(u) /\ \A v \in Threads \ {u} : task'[v] = task[v]
        BY <1>6, <2>3, Threaded DEF Callback, Waits
    <3> QED
        BY <1>4, <1>6, <2>3, <3>1, CalledBackKnows
  <2> QED
      BY <2>2, <2>3
<1>7. CASE UNCHANGED <<vars, botVars>>
    BY <1>2, <1>7 DEF vars, botVars
<1> QED
    BY <1>1, <1>3, <1>5, <1>6, <1>7 DEF BotNext

LEMMA AloneAlways ==
    ASSUME ~DiskMayFail
    PROVE  BotSpec => [](BotInv /\ AloneKnows)
<1>1. BotInit => AloneKnows
    BY DEF BotInit, AloneKnows
<1> QED
    BY <1>1, BotAlways, AloneStep, PTL DEF BotSpec

\* What a handler knows when it has updated the message to the end.
LEMMA RefreshedFacts ==
    ASSUME BotInv, AloneKnows, NEW t \in Threads, Refreshed(t)
    PROVE  /\ task[t].calendar \in DOMAIN messages
           /\ WeekOf(task[t].calendar, task[t].ref.week)
           /\ task[t].ref.week \in Nat
           /\ task[t].input.op \in Updating
           /\ board[task[t].calendar] =
                    Shown(task[t].calendar, messages[task[t].calendar].week)
           /\ messages[task[t].calendar].week =
                    Target(task[t].input.op, task[t].calendar, task[t].ref.week)
<1>1. /\ t \in alone /\ task[t].at = "ended" /\ task[t].ref # NULL /\ task[t].delivered
      /\ Knows(task[t], call[t])
    BY DEF Refreshed, Ended, AloneKnows
<1>2. task[t].ref.week \in Nat
    BY <1>1, HandlerFacts, DomainAssumption DEF TaskOK, Optional, MessageRow
<1> QED
    BY <1>1, <1>2 DEF Knows

\* Whatever was lost or overtaken before, and with any number of threads and
\* members: who changes something while nobody else does, and gets the edit
\* through, sees the stored week and everybody who is counted in it. (If the
\* disk fails, a list may be cut short and the picture with it.)
THEOREM ChangeIsShown ==
    ASSUME ~DiskMayFail
    PROVE  BotSpec => []AnsweredChangeIsShown
<1>1. ASSUME BotInv, AloneKnows PROVE AnsweredChangeIsShown
  <2> SUFFICES ASSUME NEW t \in Threads, Refreshed(t)
               PROVE  board[task[t].calendar] =
                        Shown(task[t].calendar, messages[task[t].calendar].week)
      BY DEF AnsweredChangeIsShown, Shown, CountedIn, SpanOf
  <2> QED
      BY <1>1, RefreshedFacts
<1> QED
    BY <1>1, AloneAlways, PTL

\* And only "Previous week" and "Next week" have moved the week, by one and never
\* out of the month. (A reference that a failing disk does not store leaves the
\* week where it was, so the assumption is needed.)
THEOREM NavigationMovesTheWeek ==
    ASSUME ~DiskMayFail
    PROVE  BotSpec => []OnlyNavigationMovesTheWeek
<1>1. ASSUME BotInv, AloneKnows PROVE OnlyNavigationMovesTheWeek
  <2> SUFFICES ASSUME NEW t \in Threads, Refreshed(t)
               PROVE  LET c == task[t].calendar
                          from == task[t].ref.week
                          to == messages[c].week
                      IN  CASE task[t].input.op = "prev" ->
                                    from - to = IF from = 0 THEN 0 ELSE 1
                            [] task[t].input.op = "next" ->
                                    to - from = IF from = WeekCount(calendars[c]) - 1
                                                THEN 0 ELSE 1
                            [] OTHER -> to = from
      BY DEF OnlyNavigationMovesTheWeek
  <2> DEFINE c == task[t].calendar
             from == task[t].ref.week
             to == messages[c].week
             count == WeekCount(calendars[c])
             op == task[t].input.op
  <2>1. /\ from \in Nat /\ from < count /\ count \in 4..6
        /\ to = Target(op, c, from)
      BY <1>1, RefreshedFacts, WeekCounts DEF WeekOf
  <2>2. Target(op, c, from) = CASE op = "prev" -> PrevWeek(from)
                                [] op = "next" -> NextWeek(from, count)
                                [] OTHER -> from
      BY DEF Target
  <2> HIDE DEF from, to, count, op
  <2>3. op = "prev" => from - to = IF from = 0 THEN 0 ELSE 1
      BY <2>1, <2>2 DEF PrevWeek
  <2>4. op = "next" => to - from = IF from = count - 1 THEN 0 ELSE 1
      BY <2>1, <2>2 DEF NextWeek
  <2>5. op \notin {"prev", "next"} => to = from
      BY <2>1, <2>2
  <2> QED
      BY <2>3, <2>4, <2>5 DEF from, to, count, op
<1> QED
    BY <1>1, AloneAlways, PTL

-----------------------------------------------------------------------------
(* What is proved of the service holds under the handlers too              *)

\* Beside the tables: whom the calls store for, and what they have stored.
StoresOK == /\ CallsKnowTheirMember /\ (DiskMayFail \/ IntervalsPlaced)
            /\ SavedSoFar /\ StoresAccepted /\ IntervalsInRange

\* A step of the service, or one of a handler that leaves the tables alone.
LEMMA BotSteps ==
    ASSUME BotInv, [BotNext]_<<vars, botVars>>
    PROVE  \/ [Next]_vars
           \/ /\ UNCHANGED <<db, calendar_cache_, writes>>
              /\ \E t \in Threads : GoesOn(t)
<1>1. CASE Dies
    BY <1>1 DEF Dies, Next
<1>2. ASSUME NEW t \in Threads, Calls(t) PROVE Next
    BY <1>2 DEF Calls, Next, Step, Work
<1>3. ASSUME NEW t \in Threads, Handle(t)
      PROVE  GoesOn(t) /\ UNCHANGED <<db, calendar_cache_, writes>>
  <2>1. UNCHANGED <<db, calendar_cache_, writes>>
      BY <1>3
      DEF Handle, Catch, Created, GotCalendar, GotCount, Post, Preview, Edit, EndUpdate,
          Referenced, GotReference, Saved, Cleared, GotShownWeek, GotLastWeek,
          GotBestWeek, Ranking, Listed, Looked, Leave, Silent, BotOnly
  <2> QED
      BY <1>3, <2>1, HandleStep
<1>4. ASSUME NEW t \in Threads, NEW i \in Interactions, Receive(t, i)
      PROVE  GoesOn(t) /\ UNCHANGED <<db, calendar_cache_, writes>>
    BY <1>4, ReceiveStep DEF Receive
<1>5. ASSUME NEW t \in Threads, NEW c \in awaiting, Callback(t, c)
      PROVE  /\ UNCHANGED <<db, calendar_cache_, writes>>
             /\ GoesOn(t) \/ UNCHANGED call
    BY <1>5, CallbackStep DEF Callback
<1>6. CASE UNCHANGED <<vars, botVars>>
    BY <1>6
<1> QED
  <2>1. ASSUME UNCHANGED <<db, calendar_cache_, writes>>, UNCHANGED call
        PROVE  UNCHANGED vars
      BY <2>1 DEF vars, db
  <2> QED
      BY <1>1, <1>2, <1>3, <1>4, <1>5, <1>6, <2>1 DEF BotNext, Act

\* A call that has just started has stored nothing and is for nobody yet.
LEMMA StoresGoOn ==
    ASSUME BotInv, StoresOK, NEW t \in Threads, GoesOn(t),
           UNCHANGED <<db, calendar_cache_, writes>>
    PROVE  StoresOK'
<1>1. /\ call'[t].pid = 0 /\ call'[t].pc \in {"idle", "lookup", "create"}
      /\ \A u \in Threads \ {t} : call'[u] = call[u]
  <2>1. \A r : Started(r).pid = 0 /\ Started(r).pc \in {"lookup", "create"}
      BY DEF Started, Idle
  <2> QED
      BY <2>1 DEF GoesOn, Idle
<1>2. UNCHANGED <<calendars, participants, intervals, seq>>
    BY DEF db
<1>3. CallsKnowTheirMember' /\ StoresAccepted'
    BY <1>1, <1>2 DEF StoresOK, CallsKnowTheirMember, StoresAccepted
<1>4. (DiskMayFail \/ IntervalsPlaced)' /\ IntervalsInRange'
    BY <1>2 DEF StoresOK, IntervalsPlaced, IntervalsInRange
<1>5. SavedSoFar'
  <2>1. \A d : \A u \in Threads \ {t} : Stored(u, d)' = Stored(u, d)
      BY <1>1, <1>2 DEF Stored
  <2> QED
      BY <1>1, <1>2, <2>1 DEF StoresOK, SavedSoFar
<1> QED
    BY <1>3, <1>4, <1>5 DEF StoresOK

LEMMA StoresStep ==
    BotInv /\ StoresOK /\ [BotNext]_<<vars, botVars>> => StoresOK'
<1> SUFFICES ASSUME BotInv, StoresOK, [BotNext]_<<vars, botVars>> PROVE StoresOK'
    OBVIOUS
<1>1. SafeInv
    BY DEF BotInv, TablesOK, StoresOK, SafeInv
<1>2. CASE [Next]_vars
  <2>1. SafeInv' /\ SavedSoFar' /\ StoresAccepted' /\ IntervalsInRange'
      BY <1>1, <1>2, SafeStep, SavedStep, StoresAcceptedStep, InRangeStep DEF StoresOK
  <2> QED
      BY <2>1 DEF StoresOK, SafeInv
<1> QED
    BY <1>2, BotSteps, StoresGoOn

LEMMA StoresBegin == BotInit => StoresOK
<1> SUFFICES ASSUME BotInit PROVE StoresOK
    OBVIOUS
<1>1. \A t \in Threads : call[t] = Idle
    BY DEF BotInit
<1>2. intervals = << >> /\ participants = << >>
    BY DEF BotInit, RepoInit, LeftCalendar
<1> QED
    BY <1>1, <1>2
    DEF StoresOK, CallsKnowTheirMember, IntervalsPlaced, SavedSoFar, StoresAccepted,
        IntervalsInRange, Idle

-----------------------------------------------------------------------------
(* What a handler has said so far                                          *)

Opened  == {"created", "saved", "cleared", "shown_week", "best_week", "ranked",
            "listed", "titled", "mine"}
Drawing == {"calendar", "count", "heatmap"}
Midway  == {"last_week", "reference", "updated"}
AddOps  == {"add", "submit"}

\* Whoever m denotes is the member that typed i, and as long as he takes part,
\* what he typed is stored.
Kept(m, i) == m # 0 =>
    /\ MemberId(m, i.calendar, i.user)
    /\ m \in DOMAIN participants =>
          \E v \in StoredAsTyped(i) : intervals[v].participant = m

\* The answers of a handler that is through: one, or the error after it.
AnsweredOnce(now) ==
    /\ now.said = << >> <=> now.input.op = "form_unknown"
    /\ Len(now.said) <= 2
    /\ Len(now.said) = 2 => now.said[2] = "error" /\ now.ref = NULL

SaidOnce(said) == \E first \in {"saved", "cleared", "moving"} : said = <<first>>

\* What a handler has said at each stage, and that it gets no error any more
\* once it has a reference.
SaidAt(now) ==
    /\ now.at \in Opened => now.said = << >>
    /\ now.at \in Drawing /\ now.input.op \notin Updating =>
            now.said = << >> /\ now.ref = NULL
    /\ now.at \in Drawing \cup Midway /\ now.input.op \in Updating =>
            SaidOnce(now.said)
    /\ now.at = "ended" /\ now.input # NULL => AnsweredOnce(now)

\* Whose handler it is, and the call that it has made for him.
AskedAt(now, c) ==
    /\ now.at \notin {"free", "referenced", "ended"} =>
            now.input # NULL /\ now.input.op # "form_unknown"
    /\ now.at = "referenced" => now.input = NULL
    /\ now.at \in Opened /\ now.input.op \in AddOps => now.at = "saved"
    /\ now.at \in {"cleared", "shown_week"} \cup Midway => now.input.op \in Updating
    /\ now.at = "created" => c.req = CreateCall(now.input)
    /\ now.at = "saved" => /\ now.input.op \in AddOps
                           /\ ~Unparsed(now.input)
                           /\ c.req = AddCall(now.input)

TrustsAt(now, c) ==
    now.ref # NULL =>
        /\ now.at \in Drawing \cup {"updated", "ended"}
        /\ now.at # "ended" => c.code = "ok"
        /\ now.at = "heatmap" => c.req.week = now.week

SavedAt(now) ==
    now.input # NULL /\ now.input.op \in AddOps /\ now.said # << >>
        /\ now.said[1] = "saved" => Kept(now.member, now.input)

Honest(now, c) == SaidAt(now) /\ AskedAt(now, c) /\ TrustsAt(now, c) /\ SavedAt(now)

AllHonest == \A t \in Threads : Honest(task[t], call[t])

\* A call about a calendar that exists, and a week that it has, gets no error.
LEMMA NoError ==
    ASSUME BotInv, ~DiskMayFail, NEW t \in Threads, Calls(t), call[t].code = "ok",
           call[t].id \in DOMAIN calendars,
           \/ call[t].req.op \in {"view", "set_message"}
           \/ call[t].req.op = "heatmap" /\ WeekOf(call[t].id, call[t].req.week)
    PROVE  call'[t].code = "ok"
<1>1. /\ TypeOK /\ CallsInShape /\ DOMAIN call = Threads /\ DOMAIN call[t] = DOMAIN Idle
      /\ Shape(call[t]) /\ call[t].req \in Request
    BY HandlerFacts, WaitingFacts, Threaded
    DEF BotInv, TablesOK, ServiceInv, CallOK
<1>2. ASSUME NEW value, Answer(t, "ok", value) PROVE call'[t].code = "ok"
    BY <1>1, <1>2, AnswerFacts
<1>3. ASSUME NEW step, Goto(t, step) PROVE call'[t].code = "ok"
    BY <1>1, <1>3, GotoFacts, IdleFields DEF SameBut
<1>4. CASE Lookup(t)
  <2>1. CASE CacheHit(t)
      BY <1>1, <2>1, IdleFields DEF CacheHit
  <2>2. CASE CacheMiss(t) \/ FillCache(t)
      BY <1>3, <2>2 DEF CacheMiss, FillCache
  <2>3. CASE FindCalendar(t)
    <3>1. call' = [call EXCEPT ![t].cal = calendars[call[t].id], ![t].pc = "fill"]
        BY <2>3 DEF FindCalendar
    <3> QED
        BY <1>1, <3>1, IdleFields
  <2> QED
      BY <1>4, <2>1, <2>2, <2>3 DEF Lookup
<1>5. CASE Writing(t)
  <2>1. CASE SetCalendarMessage(t)
      BY <1>2, <2>1 DEF SetCalendarMessage
  <2>2. CASE Invalidate(t)
      BY <1>2, <2>2 DEF Invalidate
  <2> QED
      BY <1>1, <1>5, <2>1, <2>2
      DEF Writing, CreateCalendar, AddAvailability, StoreDate, ClearMyData, ChangeState,
          DeleteCalendar, Shape, Ops
<1>6. CASE Reading(t)
  <2>1. CASE ViewCalendar(t) \/ CalendarMessage(t) \/ WeeklyHeatmap(t)
      BY <1>2, <2>1 DEF ViewCalendar, CalendarMessage, WeeklyHeatmap
  <2>2. CASE FindWeek(t)
    <3> DEFINE k == call[t].id
    <3>1. call[t].req.op = "heatmap" /\ call[t].pc = "heatmap" /\ call[t].req.week \in Nat
        BY <1>1, <2>2, RequestFacts, DomainAssumption
        DEF FindWeek, Shape, Ops, HeatmapRequest
    <3>2. call[t].cal.config = calendars[k].config
      <4>1. call[t].cal \in CalendarRow /\ call[t].cal # NULL
          BY <1>1, <3>1, ServiceAssumption DEF Shape, AfterLookup, Ops
      <4>2. OldRow(k, call[t].cal)
          BY <4>1 DEF BotInv, TablesOK, CopiesOld, HeldRowsAreOld
      <4> QED
          BY <4>2 DEF OldRow, Later
    <3>3. call[t].req.week + 1 \in DOMAIN month_weeks(calendars[k].config.month,
                                                      calendars[k].config.week_start)
        BY <3>1 DEF WeekOf, WeekCount
    <3>4. \E got : call' = [call EXCEPT ![t].pc = "heatmap_count", ![t].got = got]
        BY <2>2, <3>2, <3>3 DEF FindWeek
    <3> QED
        BY <1>1, <3>4, IdleFields
  <2> QED
      BY <1>1, <1>6, <2>1, <2>2
      DEF Reading, FindMine, MySchedule, FindAttendees, DayParticipants,
          PublicParticipants, Shape, Ops
<1> QED
    BY <1>4, <1>5, <1>6 DEF Calls

\* What is kept stays, whoever stores or clears: a member that is there was
\* there before, and then his intervals stay.
LEMMA KeptSame ==
    ASSUME UNCHANGED db
    PROVE  \A m, i : Kept(m, i)' = Kept(m, i)
<1>1. UNCHANGED <<participants, intervals, seq>>
    BY DEF db
<1>2. \A i : StoredAsTyped(i)' = StoredAsTyped(i)
    BY <1>1 DEF StoredAsTyped
<1> QED
    BY <1>1, <1>2 DEF Kept, MemberId

LEMMA KeptStays ==
    ASSUME BotInv, StoresOK, [BotNext]_<<vars, botVars>>, NEW m, NEW i, Kept(m, i)
    PROVE  Kept(m, i)'
<1> SUFFICES ASSUME [Next]_vars, m # 0 PROVE Kept(m, i)'
    BY BotSteps, KeptSame DEF Kept
<1>1. SafeInv /\ ServiceInv
    BY DEF BotInv, TablesOK, StoresOK, SafeInv
<1>2. RepoTypeOK /\ RepoTypeOK' /\ [RepoStep]_db
    BY <1>1, ServiceStep DEF ServiceInv, TypeOK
<1>3. MemberId(m, i.calendar, i.user)
    BY DEF Kept
<1>4. StaysMemberId(m, i.calendar, i.user)
    BY <1>2, <1>3, MemberIdStays
<1>5. ASSUME m \in DOMAIN participants'
      PROVE  \E v \in StoredAsTyped(i)' : intervals'[v].participant = m
  <2>1. m \in DOMAIN participants
    <3>1. [MeaningKept]_db
        BY <1>2, MeaningStep
    <3>2. m \in Nat /\ m <= seq["participants"] /\ seq["participants"] \in Nat
        BY <1>2, <1>3 DEF MemberId, RepoTypeOK, Tables
    <3> QED
        BY <1>5, <3>1, <3>2 DEF MeaningKept, db
  <2>2. PICK v \in StoredAsTyped(i) : intervals[v].participant = m
      BY <2>1 DEF Kept
  <2>3. v \in DOMAIN intervals' /\ intervals'[v] = intervals[v]
    <3>1. CASE Crash \/ UNCHANGED vars
        BY <2>2, <3>1 DEF Crash, vars, db, StoredAsTyped
    <3>2. ASSUME NEW t \in Threads, Step(t)
          PROVE  v \in DOMAIN intervals' /\ intervals'[v] = intervals[v]
      <4>1. ~Astray(v)
          BY <1>3, <2>1, <2>2 DEF MemberId, StoredAsTyped, Astray
      <4> QED
          BY <1>1, <1>5, <2>2, <3>2, <4>1, IntervalsStay DEF StoredAsTyped
    <3> QED
        BY <3>1, <3>2 DEF Next
  <2>4. participants'[m].user = i.user
      BY <1>4, <1>5 DEF StaysMemberId
  <2>5. v \in StoredAsTyped(i)'
      BY <2>2, <2>3, <2>4 DEF StoredAsTyped
  <2> QED
      BY <2>2, <2>3, <2>5
<1> QED
    BY <1>4, <1>5 DEF Kept, MemberId, StaysMemberId

HasFields(now) == DOMAIN now = DOMAIN Free

LEMMA TaskFields == ASSUME BotInv, NEW t \in Threads PROVE HasFields(task[t])
BY HandlerFacts DEF TaskOK, HasFields

\* Waiting for a call, or being through, leaves a handler as it was else.
LEMMA WaitsAs ==
    ASSUME BotInv, NEW t \in Threads, NEW now, NEW stage, NEW r, HasFields(now),
           Waits(t, now, stage, r)
    PROVE  /\ task'[t].at = stage /\ task'[t].input = now.input
           /\ task'[t].calendar = now.calendar /\ task'[t].week = now.week
           /\ task'[t].ref = now.ref /\ task'[t].said = now.said
           /\ task'[t].member = now.member
           /\ call'[t].req = r /\ call'[t].code = "ok"
<1>1. /\ task' = [task EXCEPT ![t] = [now EXCEPT !.at = stage]]
      /\ call' = [call EXCEPT ![t] = Started(r)]
      /\ DOMAIN task = Threads /\ DOMAIN call = Threads
    BY Threaded DEF Waits
<1>2. call'[t] = Started(r)
    BY <1>1
<1>3. Started(r).req = r /\ Started(r).code = "ok"
    BY DEF Started, Idle
<1> QED
    BY <1>1, <1>2, <1>3 DEF HasFields, Free

LEMMA EndsAs ==
    ASSUME BotInv, NEW t \in Threads, NEW now, HasFields(now), Ends(t, now)
    PROVE  /\ task'[t].at = "ended" /\ task'[t].input = now.input
           /\ task'[t].ref = now.ref /\ task'[t].said = now.said
           /\ task'[t].member = now.member
BY Threaded DEF Ends, HasFields, Free

LEMMA SaysAs ==
    ASSUME NEW now, NEW answer, HasFields(now)
    PROVE  /\ HasFields(Says(now, answer))
           /\ Says(now, answer).input = now.input
           /\ Says(now, answer).calendar = now.calendar
           /\ Says(now, answer).week = now.week
           /\ Says(now, answer).ref = now.ref
           /\ Says(now, answer).member = now.member
           /\ Says(now, answer).said = Append(now.said, answer)
BY DEF HasFields, Free, Says

LEMMA RepliesAs ==
    ASSUME BotInv, NEW t \in Threads, NEW now, HasFields(now), NEW answer,
           Replies(t, now, answer)
    PROVE  /\ task'[t].at = "ended" /\ task'[t].input = now.input
           /\ task'[t].ref = now.ref /\ task'[t].member = now.member
           /\ task'[t].said = Append(now.said, answer)
BY SaysAs, EndsAs DEF Replies

LEMMA Answers ==
    ASSUME NEW first, NEW answer, NEW said, said = Append(<<first>>, answer)
    PROVE  /\ <<first>> # << >> /\ <<first>>[1] = first
           /\ said # << >> /\ Len(said) = 2 /\ said[1] = first /\ said[2] = answer
<1>1. <<first>> \in Seq({first, answer}) /\ Len(<<first>>) = 1
    OBVIOUS
<1> QED
    BY <1>1, AppendProperties

\* A handler that ends with what it had said, or with one more answer.
LEMMA OneAnswer ==
    ASSUME BotInv, UNCHANGED db, NEW t \in Threads, NEW answer,
           Replies(t, task[t], answer), Honest(task[t], call[t]),
           task[t].ref = NULL, task[t].input # NULL, task[t].input.op # "form_unknown",
           \/ task[t].said = << >> /\ answer # "saved"
           \/ SaidOnce(task[t].said) /\ answer = "error"
    PROVE  Honest(task[t], call[t])'
<1>1. /\ task'[t].at = "ended" /\ task'[t].input = task[t].input
      /\ task'[t].ref = NULL /\ task'[t].member = task[t].member
      /\ task'[t].said = Append(task[t].said, answer)
    BY TaskFields, RepliesAs
<1>2. CASE task[t].said = << >> /\ answer # "saved"
  <2>1. task'[t].said = <<answer>> /\ Len(<<answer>>) = 1
      BY <1>1, <1>2
  <2> QED
      BY <1>1, <1>2, <2>1
      DEF Honest, SaidAt, AskedAt, TrustsAt, SavedAt, AnsweredOnce, Opened, Drawing,
          Midway
<1>3. CASE SaidOnce(task[t].said) /\ answer = "error"
  <2>1. PICK first : task[t].said = <<first>>
      BY <1>3 DEF SaidOnce
  <2>2. /\ Len(task'[t].said) = 2
        /\ task[t].said # << >> /\ task[t].said[1] = first
        /\ task'[t].said # << >> /\ task'[t].said[1] = first
        /\ task'[t].said[2] = "error"
      BY <1>1, <1>3, <2>1, Answers
  <2>3. SavedAt(task[t])'
      BY <1>1, <2>2, KeptSame DEF Honest, SavedAt
  <2> QED
      BY <1>1, <2>2, <2>3
      DEF Honest, SaidAt, AskedAt, TrustsAt, AnsweredOnce, Opened, Drawing, Midway
<1> QED
    BY <1>2, <1>3

LEMMA CatchHonest ==
    ASSUME BotInv, NEW t \in Threads, Catch(t), Honest(task[t], call[t])
    PROVE  Honest(task[t], call[t])'
<1>1. task[t].at \in Stages \ (Through \cup {"referenced"})
    BY HandlerFacts DEF Catch, Fits, TaskOK, Idle
<1>2. task[t].ref = NULL
    BY <1>1 DEF Catch, Honest, TrustsAt, Through
<1>3. task[t].input # NULL /\ task[t].input.op # "form_unknown"
    BY <1>1 DEF Honest, AskedAt, Through
<1>4. \/ task[t].said = << >>
      \/ SaidOnce(task[t].said)
    BY <1>1
    DEF Honest, SaidAt, AskedAt, Stages, Through, Opened, Drawing, Midway
<1> QED
    BY <1>2, <1>3, <1>4, OneAnswer DEF Catch, Silent, BotOnly

\* Between two calls a handler says nothing.
LEMMA DrawingHonest ==
    ASSUME BotInv, NEW t \in Threads, Honest(task[t], call[t]),
           Created(t) \/ GotCalendar(t) \/ GotCount(t)
    PROVE  Honest(task[t], call[t])'
<1>1. HasFields(task[t]) /\ UNCHANGED db
    BY TaskFields DEF Created, GotCalendar, GotCount, Silent, BotOnly
<1>2. CASE Created(t)
  <2> DEFINE now == [task[t] EXCEPT !.calendar = call[t].id]
  <2>1. /\ task[t].at = "created" /\ Prepared(task[t], "created")
      BY <1>2, GotFacts DEF Created, Got, Stages, Through
  <2>2. /\ HasFields(now) /\ now.input = task[t].input /\ now.said = task[t].said
        /\ now.ref = task[t].ref /\ now.member = task[t].member
      BY <1>1, <2>1 DEF HasFields, Free
  <2>3. public_message(t, now)
      BY <1>2 DEF Created
  <2> HIDE DEF now
  <2>4. /\ task'[t].at = "calendar" /\ task'[t].input = task[t].input
        /\ task'[t].said = task[t].said /\ task'[t].ref = task[t].ref
      BY <2>2, <2>3, WaitsAs DEF public_message
  <2>5. task[t].input.op = "create" /\ task[t].said = << >> /\ task[t].ref = NULL
        /\ task[t].input # NULL
      BY <2>1
      DEF Prepared, Honest, SaidAt, TrustsAt, AskedAt, Opened, Drawing
  <2> QED
      BY <2>4, <2>5
      DEF Honest, SaidAt, AskedAt, TrustsAt, SavedAt, Opened, Drawing, Midway, Updating,
          AddOps
<1>3. CASE GotCalendar(t) \/ GotCount(t)
  <2> DEFINE r == IF task[t].at = "calendar" THEN CallOf("view", task[t].calendar)
                  ELSE HeatmapCall(task[t].calendar, task[t].week)
             stage == IF task[t].at = "calendar" THEN "count" ELSE "heatmap"
  <2>1. Waits(t, task[t], stage, r) /\ task[t].at \in {"calendar", "count"}
      BY <1>3 DEF GotCalendar, GotCount, Got
  <2>2. /\ task'[t].at = stage /\ task'[t].input = task[t].input
        /\ task'[t].week = task[t].week /\ task'[t].ref = task[t].ref
        /\ task'[t].said = task[t].said /\ task'[t].member = task[t].member
        /\ call'[t].req = r /\ call'[t].code = "ok"
      BY <1>1, <2>1, WaitsAs
  <2>3. /\ stage \in {"count", "heatmap"}
        /\ stage = "heatmap" => r.week = task[t].week
      BY <2>1 DEF HeatmapCall
  <2> HIDE DEF r, stage
  <2>4. SavedAt(task[t])'
      BY <1>1, <2>2, KeptSame DEF Honest, SavedAt
  <2> QED
      BY <2>1, <2>2, <2>3, <2>4
      DEF Honest, SaidAt, AskedAt, TrustsAt, Opened, Drawing, Midway
<1> QED
    BY <1>2, <1>3

LEMMA LookingHonest ==
    ASSUME BotInv, NEW t \in Threads, Honest(task[t], call[t]),
           Post(t) \/ Preview(t) \/ Ranking(t) \/ Looked(t)
    PROVE  Honest(task[t], call[t])'
<1>1. UNCHANGED db
    BY DEF Post, Preview, Ranking, Looked, Silent, BotOnly
<1>2. PICK answer : Replies(t, task[t], answer) /\ answer # "saved"
    BY DEF Post, Preview, Ranking, Looked
<1>3. \/ task[t].at \in {"ranked", "mine", "titled"}
      \/ task[t].at = "heatmap" /\ task[t].input.op \in {"create", "view"}
    BY DEF Post, Preview, Ranking, Looked, Got
<1>4. /\ task[t].said = << >> /\ task[t].ref = NULL
      /\ task[t].input # NULL /\ task[t].input.op # "form_unknown"
    BY <1>3
    DEF Honest, SaidAt, AskedAt, TrustsAt, Opened, Drawing, Updating
<1> QED
    BY <1>1, <1>2, <1>4, OneAnswer

LEMMA NextCallHonest ==
    ASSUME BotInv, NEW t \in Threads, Honest(task[t], call[t]),
           GotBestWeek(t) \/ Listed(t)
    PROVE  Honest(task[t], call[t])'
<1>1. PICK stage \in {"ranked", "titled"}, r \in {call'[t].req} :
            /\ Waits(t, task[t], stage, r)
            /\ task[t].at \in {"best_week", "listed"}
  <2>1. \A stage, r : Waits(t, task[t], stage, r) => call'[t].req = r
      BY TaskFields, WaitsAs
  <2> QED
      BY <2>1 DEF GotBestWeek, Listed, Got
<1>2. /\ task'[t].at = stage /\ task'[t].input = task[t].input
      /\ task'[t].ref = task[t].ref /\ task'[t].said = task[t].said
    BY <1>1, TaskFields, WaitsAs
<1>3. /\ task[t].said = << >> /\ task[t].ref = NULL
      /\ task[t].input # NULL /\ task[t].input.op \notin AddOps \cup {"form_unknown"}
    BY <1>1 DEF Honest, SaidAt, AskedAt, TrustsAt, Opened, Drawing
<1> QED
    BY <1>1, <1>2, <1>3
    DEF Honest, SaidAt, AskedAt, TrustsAt, SavedAt, Opened, Drawing, Midway

\* A callback says nothing to anybody; an update has said all before it ends.
LEMMA ReferencedHonest ==
    ASSUME BotInv, NEW t \in Threads, Honest(task[t], call[t]), Referenced(t)
    PROVE  Honest(task[t], call[t])'
<1>1. /\ task'[t].at = "ended" /\ task'[t].input = task[t].input
      /\ task'[t].ref = task[t].ref
    BY TaskFields, EndsAs DEF Referenced
<1>2. task[t].input = NULL /\ task[t].ref = NULL
    BY DEF Referenced, Honest, AskedAt, TrustsAt, Drawing
<1> QED
    BY <1>1, <1>2
    DEF Honest, SaidAt, AskedAt, TrustsAt, SavedAt, Opened, Drawing, Midway

LEMMA EndUpdateHonest ==
    ASSUME BotInv, NEW t \in Threads, Honest(task[t], call[t]), EndUpdate(t)
    PROVE  Honest(task[t], call[t])'
<1>1. /\ task'[t].at = "ended" /\ task'[t].input = task[t].input
      /\ task'[t].ref = task[t].ref /\ task'[t].said = task[t].said
      /\ task'[t].member = task[t].member
    BY TaskFields, EndsAs DEF EndUpdate
<1>2. SaidOnce(task[t].said) /\ task[t].input.op \in Updating
    BY DEF EndUpdate, Got, Honest, SaidAt, AskedAt, Midway
<1>3. SavedAt(task[t])'
    BY <1>1, KeptSame DEF Honest, SavedAt, EndUpdate, Silent, BotOnly
<1>4. AnsweredOnce(task'[t])
  <2>1. Len(task'[t].said) = 1 /\ task'[t].said # << >>
      BY <1>1, <1>2 DEF SaidOnce
  <2> QED
      BY <1>1, <1>2, <2>1 DEF AnsweredOnce, Updating
<1> QED
    BY <1>1, <1>3, <1>4
    DEF Honest, SaidAt, AskedAt, TrustsAt, AnsweredOnce, Opened, Drawing, Midway

LEMMA KeptAs ==
    ASSUME UNCHANGED db, NEW t, NEW m, NEW i, Kept(m, i),
           task'[t].member = m, task'[t].input = i
    PROVE  SavedAt(task[t])'
<1>1. Kept(m, i)'
    BY KeptSame
<1> QED
    BY <1>1 DEF SavedAt, Kept, MemberId, StoredAsTyped

LEMMA UpdatesAs ==
    ASSUME BotInv, NEW t \in Threads, NEW now, HasFields(now), NEW week,
           update_public_message(t, now, week)
    PROVE  /\ task'[t].at = "reference" /\ task'[t].input = now.input
           /\ task'[t].ref = now.ref /\ task'[t].said = now.said
           /\ task'[t].member = now.member
<1> DEFINE then == [now EXCEPT !.week = week]
<1>1. /\ HasFields(then) /\ then.input = now.input /\ then.ref = now.ref
      /\ then.said = now.said /\ then.member = now.member
    BY DEF HasFields, Free
<1>2. Waits(t, then, "reference", CallOf("message", now.calendar))
    BY DEF update_public_message
<1> HIDE DEF then
<1> QED
    BY <1>1, <1>2, WaitsAs

\* Whoever has been told something goes on to update the public message.
LEMMA Updates ==
    ASSUME UNCHANGED db, NEW t, task'[t].at = "reference", task'[t].ref = NULL,
           SaidOnce(task'[t].said), task'[t].input # NULL,
           task'[t].input.op \in Updating, SavedAt(task[t])'
    PROVE  Honest(task[t], call[t])'
BY DEF Honest, SaidAt, AskedAt, TrustsAt, Opened, Drawing, Midway, Updating

\* "Availability saved." is said when every date of the call is stored.
LEMMA SavedIsKept ==
    ASSUME BotInv, StoresOK, ~DiskMayFail, NEW t \in Threads, Got(t, "saved"),
           Honest(task[t], call[t])
    PROVE  Kept(call[t].pid, task[t].input)
<1> DEFINE i == task[t].input
           m == call[t].pid
<1>1. /\ call[t].req = AddCall(i) /\ i.op \in AddOps /\ ~Unparsed(i)
      /\ call[t].pc = "done" /\ call[t].code = "ok"
      /\ call[t].id = call[t].req.calendar /\ CallOK(call[t])
    BY GotFacts, HandlerFacts DEF Honest, AskedAt, Got, Stages, Through
<1>6. call[t].lost = 0
    BY SoundDisk DEF BotInv, TablesOK, NoneLost
<1>2. /\ call[t].req.op = "add" /\ call[t].req.user = i.user
      /\ call[t].id = i.calendar /\ call[t].req.dates = parse_date(i.date)
      /\ call[t].req.span.start = The(parse_time(i.start))
      /\ call[t].req.span.end = The(parse_time(i.end))
    BY <1>1 DEF AddCall
<1>3. /\ parse_date(i.date) # {} /\ call[t].req.span.start \in parse_time(i.start)
      /\ call[t].req.span.end \in parse_time(i.end)
    BY <1>1, <1>2 DEF Unparsed, The, AddOps
<1> SUFFICES ASSUME m # 0
             PROVE  /\ MemberId(m, i.calendar, i.user)
                    /\ m \in DOMAIN participants =>
                          \E v \in StoredAsTyped(i) : intervals[v].participant = m
    BY DEF Kept
<1>4. MemberId(m, i.calendar, i.user)
  <2>1. m \in 0..MaxRowId /\ MaxRowId \in Nat /\ seq["participants"] \in Nat
      BY <1>1, RepositoryAssumption
      DEF CallOK, BotInv, TablesOK, ServiceInv, TypeOK, RepoTypeOK, Tables
  <2> QED
      BY <1>2, <1>6, <2>1 DEF StoresOK, CallsKnowTheirMember, MemberId
<1>5. ASSUME m \in DOMAIN participants
      PROVE  \E v \in StoredAsTyped(i) : intervals[v].participant = m
  <2>1. PICK d : d \in parse_date(i.date)
      BY <1>3
  <2>2. Stored(t, d)
      BY <1>1, <1>2, <1>5, <1>6, <2>1 DEF StoresOK, SavedSoFar
  <2>3. PICK v \in DOMAIN intervals :
            /\ intervals[v].calendar = i.calendar /\ intervals[v].participant = m
            /\ intervals[v].date = d /\ intervals[v].span = call[t].req.span
      BY <1>2, <2>2 DEF Stored
  <2>4. participants[m].user = i.user
      BY <1>4, <1>5 DEF MemberId
  <2> QED
      BY <1>3, <2>1, <2>3, <2>4 DEF StoredAsTyped
<1> QED
    BY <1>4, <1>5

LEMMA ChangedHonest ==
    ASSUME BotInv, StoresOK, ~DiskMayFail, NEW t \in Threads, Honest(task[t], call[t]),
           Saved(t) \/ Cleared(t)
    PROVE  Honest(task[t], call[t])'
<1>1. HasFields(task[t]) /\ UNCHANGED db
    BY TaskFields DEF Saved, Cleared, Silent, BotOnly
<1>2. /\ task[t].said = << >> /\ task[t].ref = NULL /\ task[t].input # NULL
      /\ task[t].input.op \in Updating
    BY DEF Saved, Cleared, Got, Honest, SaidAt, AskedAt, TrustsAt, Opened, Drawing,
           AddOps, Updating
<1>3. CASE Saved(t)
  <2> DEFINE says == Says(task[t], "saved")
             now == [says EXCEPT !.member = call[t].pid]
  <2>1. /\ HasFields(says) /\ says.input = task[t].input /\ says.ref = NULL
        /\ says.said = <<"saved">>
      BY <1>1, <1>2, SaysAs
  <2>2. /\ HasFields(now) /\ now.input = task[t].input /\ now.ref = NULL
        /\ now.said = <<"saved">> /\ now.member = call[t].pid
    <3> HIDE DEF says
    <3> QED
        BY <1>1, <2>1 DEF HasFields, Free
  <2>3. update_public_message(t, now, NULL)
      BY <1>3 DEF Saved
  <2> HIDE DEF now, says
  <2>4. /\ task'[t].at = "reference" /\ task'[t].input = task[t].input
        /\ task'[t].ref = NULL /\ task'[t].said = <<"saved">>
        /\ task'[t].member = call[t].pid
      BY <1>1, <2>2, <2>3, UpdatesAs
  <2>5. SavedAt(task[t])'
      BY <1>1, <1>3, <2>4, SavedIsKept, KeptAs DEF Saved
  <2> QED
      BY <1>1, <1>2, <2>4, <2>5, Updates DEF SaidOnce
<1>4. CASE Cleared(t)
  <2> DEFINE now == Says(task[t], "cleared")
  <2>1. /\ HasFields(now) /\ now.input = task[t].input /\ now.ref = NULL
        /\ now.said = <<"cleared">>
      BY <1>1, <1>2, SaysAs
  <2>2. update_public_message(t, now, NULL)
      BY <1>4 DEF Cleared
  <2> HIDE DEF now
  <2>3. /\ task'[t].at = "reference" /\ task'[t].input = task[t].input
        /\ task'[t].ref = NULL /\ task'[t].said = <<"cleared">>
      BY <1>1, <2>1, <2>2, UpdatesAs
  <2>4. <<"cleared">>[1] # "saved"
      OBVIOUS
  <2> QED
      BY <1>1, <1>2, <2>3, <2>4, Updates DEF SavedAt, SaidOnce
<1> QED
    BY <1>3, <1>4

LEMMA GotReferenceHonest ==
    ASSUME BotInv, NEW t \in Threads, Honest(task[t], call[t]), GotReference(t)
    PROVE  Honest(task[t], call[t])'
<1>1. HasFields(task[t]) /\ UNCHANGED db
    BY TaskFields DEF GotReference, Silent, BotOnly
<1>2. /\ SaidOnce(task[t].said) /\ task[t].ref = NULL /\ task[t].input # NULL
      /\ task[t].input.op \in Updating
    BY DEF GotReference, Got, Honest, SaidAt, AskedAt, TrustsAt, Drawing, Midway
<1>3. CASE Replies(t, task[t], "error")
    BY <1>1, <1>2, <1>3, OneAnswer DEF Updating
<1>4. CASE Value(t) # NULL /\ ~Replies(t, task[t], "error")
  <2> DEFINE ref == Value(t)
             now == [task[t] EXCEPT !.ref = ref, !.week = WeekToShow(@, ref)]
  <2>1. /\ HasFields(now) /\ now.input = task[t].input /\ now.said = task[t].said
        /\ now.member = task[t].member
      BY <1>1 DEF HasFields, Free
  <2>2. public_message(t, now)
      BY <1>4 DEF GotReference
  <2> HIDE DEF now, ref
  <2>3. /\ task'[t].at = "calendar" /\ task'[t].input = task[t].input
        /\ task'[t].said = task[t].said /\ task'[t].member = task[t].member
        /\ call'[t].code = "ok"
      BY <2>1, <2>2, WaitsAs DEF public_message
  <2>4. SavedAt(task[t])'
      BY <1>1, <2>3, KeptSame DEF Honest, SavedAt
  <2> QED
      BY <1>2, <2>3, <2>4
      DEF Honest, SaidAt, AskedAt, TrustsAt, Opened, Drawing, Midway, Updating
<1> QED
    BY <1>3, <1>4 DEF GotReference

LEMMA GotShownWeekHonest ==
    ASSUME BotInv, NEW t \in Threads, Honest(task[t], call[t]), GotShownWeek(t)
    PROVE  Honest(task[t], call[t])'
<1> DEFINE now == Says(task[t], "moving")
<1>1. HasFields(task[t]) /\ UNCHANGED db
    BY TaskFields DEF GotShownWeek, Silent, BotOnly
<1>2. /\ task[t].said = << >> /\ task[t].ref = NULL /\ task[t].input # NULL
      /\ task[t].input.op \in Updating
    BY DEF GotShownWeek, Got, Honest, SaidAt, AskedAt, TrustsAt, Opened, Drawing
<1>3. /\ HasFields(now) /\ now.input = task[t].input /\ now.ref = NULL
      /\ now.said = <<"moving">>
    BY <1>1, <1>2, SaysAs
<1>4. CASE Replies(t, task[t], "error")
    BY <1>1, <1>2, <1>4, OneAnswer DEF Updating
<1>5. ASSUME NEW stage \in {"reference", "last_week"},
             task'[t].at = stage, task'[t].input = task[t].input,
             task'[t].ref = NULL, task'[t].said = <<"moving">>
      PROVE  Honest(task[t], call[t])'
  <2>1. <<"moving">>[1] # "saved" /\ SaidOnce(task'[t].said)
      BY <1>5 DEF SaidOnce
  <2> QED
      BY <1>2, <1>5, <2>1
      DEF Honest, SaidAt, AskedAt, TrustsAt, SavedAt, Opened, Drawing, Midway, Updating
<1> HIDE DEF now
<1>6. ASSUME NEW week, update_public_message(t, now, week)
      PROVE  Honest(task[t], call[t])'
    BY <1>3, <1>5, <1>6, UpdatesAs
<1>7. ASSUME NEW week, NEW r, Waits(t, [now EXCEPT !.week = week], "last_week", r)
      PROVE  Honest(task[t], call[t])'
  <2> DEFINE then == [now EXCEPT !.week = week]
  <2>1. /\ HasFields(then) /\ then.input = task[t].input /\ then.ref = NULL
        /\ then.said = <<"moving">>
      BY <1>3 DEF HasFields, Free
  <2>2. Waits(t, then, "last_week", r)
      BY <1>7
  <2> HIDE DEF then
  <2> QED
      BY <1>5, <2>1, <2>2, WaitsAs
<1> QED
    BY <1>4, <1>6, <1>7 DEF GotShownWeek, now

LEMMA GotLastWeekHonest ==
    ASSUME BotInv, NEW t \in Threads, Honest(task[t], call[t]), GotLastWeek(t)
    PROVE  Honest(task[t], call[t])'
<1>1. HasFields(task[t]) /\ UNCHANGED db
    BY TaskFields DEF GotLastWeek, Silent, BotOnly
<1>2. /\ SaidOnce(task[t].said) /\ task[t].ref = NULL /\ task[t].input # NULL
      /\ task[t].input.op \in Updating
    BY DEF GotLastWeek, Got, Honest, SaidAt, AskedAt, TrustsAt, Drawing, Midway
<1>3. /\ task'[t].at = "reference" /\ task'[t].input = task[t].input
      /\ task'[t].ref = NULL /\ task'[t].said = task[t].said
      /\ task'[t].member = task[t].member
    BY <1>1, <1>2, UpdatesAs DEF GotLastWeek
<1>4. SavedAt(task[t])'
    BY <1>1, <1>3, KeptSame DEF Honest, SavedAt
<1> QED
    BY <1>1, <1>2, <1>3, <1>4, Updates

LEMMA EditHonest ==
    ASSUME BotInv, NEW t \in Threads, Honest(task[t], call[t]), Edit(t)
    PROVE  Honest(task[t], call[t])'
<1>1. HasFields(task[t]) /\ UNCHANGED db
    BY TaskFields DEF Edit, BotOnly
<1>2. /\ SaidOnce(task[t].said) /\ task[t].input # NULL
      /\ task[t].input.op \in Updating
    BY DEF Edit, Got, Honest, SaidAt, AskedAt, Drawing
<1>3. PICK delivered, r :
            Waits(t, [task[t] EXCEPT !.delivered = delivered], "updated", r)
    BY DEF Edit
<1> DEFINE now == [task[t] EXCEPT !.delivered = delivered]
<1>4. /\ HasFields(now) /\ now.input = task[t].input /\ now.ref = task[t].ref
      /\ now.said = task[t].said /\ now.member = task[t].member
    BY <1>1 DEF HasFields, Free
<1>5. Waits(t, now, "updated", r)
    BY <1>3
<1> HIDE DEF now
<1>6. /\ task'[t].at = "updated" /\ task'[t].input = task[t].input
      /\ task'[t].said = task[t].said /\ task'[t].member = task[t].member
      /\ call'[t].code = "ok"
    BY <1>4, <1>5, WaitsAs
<1>7. SavedAt(task[t])'
    BY <1>1, <1>6, KeptSame DEF Honest, SavedAt
<1> QED
    BY <1>2, <1>6, <1>7
    DEF Honest, SaidAt, AskedAt, TrustsAt, Opened, Drawing, Midway, Updating

\* A thread that handles nothing has said nothing.
LEMMA FreeHonest ==
    ASSUME NEW t, task'[t] = Free
    PROVE  Honest(task[t], call[t])'
<1>1. task'[t].at = "free" /\ task'[t].input = NULL /\ task'[t].ref = NULL
    BY DEF Free
<1> QED
    BY <1>1 DEF Honest, SaidAt, AskedAt, TrustsAt, SavedAt, Opened, Drawing, Midway

LEMMA HandleHonest ==
    ASSUME BotInv, StoresOK, ~DiskMayFail, NEW t \in Threads, Honest(task[t], call[t]),
           Handle(t)
    PROVE  Honest(task[t], call[t])'
<1>1. CASE Leave(t)
  <2>1. task'[t] = Free
      BY <1>1, Threaded DEF Leave
  <2> QED
      BY <2>1, FreeHonest
<1> QED
    BY <1>1, CatchHonest, DrawingHonest, LookingHonest, NextCallHonest, ReferencedHonest,
       EndUpdateHonest, ChangedHonest, GotReferenceHonest, GotShownWeekHonest,
       GotLastWeekHonest, EditHonest DEF Handle

LEMMA ArrivedHonest ==
    ASSUME BotInv, NEW t \in Threads, NEW i \in Interactions, Receive(t, i)
    PROVE  Honest(task[t], call[t])'
<1>1. /\ HasFields(Arrived(i)) /\ Arrived(i).input = i /\ i # NULL
      /\ Arrived(i).ref = NULL /\ Arrived(i).said = << >>
    BY BotAssumption DEF Arrived, Free, HasFields
<1>2. ASSUME NEW answer, answer # "saved", i.op # "form_unknown",
             Replies(t, Arrived(i), answer)
      PROVE  Honest(task[t], call[t])'
  <2>1. /\ task'[t].at = "ended" /\ task'[t].input = i /\ task'[t].ref = NULL
        /\ task'[t].said = <<answer>>
      BY <1>1, <1>2, RepliesAs
  <2>2. Len(task'[t].said) = 1 /\ task'[t].said[1] = answer /\ task'[t].said # << >>
      BY <2>1
  <2> QED
      BY <1>1, <1>2, <2>1, <2>2
      DEF Honest, SaidAt, AskedAt, TrustsAt, SavedAt, AnsweredOnce, Opened, Drawing,
          Midway
<1>3. CASE i.op = "form_unknown" /\ Ends(t, Arrived(i))
  <2>1. /\ task'[t].at = "ended" /\ task'[t].input = i /\ task'[t].ref = NULL
        /\ task'[t].said = << >> /\ Len(<< >>) = 0
      BY <1>1, <1>3, EndsAs
  <2> QED
      BY <1>1, <1>3, <2>1
      DEF Honest, SaidAt, AskedAt, TrustsAt, SavedAt, AnsweredOnce, Opened, Drawing,
          Midway
<1>4. ASSUME ~Unparsed(i), i.op \notin AnsweredAtOnce,
             Waits(t, Arrived(i), Opening(i)[1], Opening(i)[2])
      PROVE  Honest(task[t], call[t])'
  <2>1. /\ task'[t].at = Opening(i)[1] /\ task'[t].input = i /\ task'[t].ref = NULL
        /\ task'[t].said = << >> /\ call'[t].req = Opening(i)[2]
      BY <1>1, <1>4, WaitsAs
  <2>2. /\ Opening(i)[1] \in Opened \cup {"calendar"}
        /\ i.op \in AddOps <=> Opening(i)[1] = "saved"
        /\ Opening(i)[1] = "saved" => Opening(i)[2] = AddCall(i)
        /\ Opening(i)[1] = "created" => Opening(i)[2] = CreateCall(i)
        /\ Opening(i)[1] \in {"cleared", "shown_week"} => i.op \in Updating
        /\ Opening(i)[1] = "calendar" => i.op \notin Updating
      BY <1>4, InteractionFacts
      DEF Opening, Opened, AddOps, Updating, AnsweredAtOnce
  <2> QED
      BY <1>1, <1>4, <2>1, <2>2
      DEF Honest, SaidAt, AskedAt, TrustsAt, SavedAt, Opened, Drawing, Midway,
          AnsweredAtOnce
<1> QED
  <2>1. Unparsed(i) => i.op # "form_unknown"
      BY DEF Unparsed
  <2> QED
      BY <1>2, <1>3, <1>4, <2>1 DEF Receive, AnsweredAtOnce

LEMMA CalledBackHonest ==
    ASSUME BotInv, NEW t \in Threads, NEW c \in awaiting, Callback(t, c)
    PROVE  Honest(task[t], call[t])' \/ UNCHANGED <<task, call>>
<1> DEFINE now == [Free EXCEPT !.calendar = c]
<1>1. /\ HasFields(now) /\ now.input = NULL /\ now.ref = NULL
    BY DEF HasFields, Free
<1>2. ASSUME NEW r, Waits(t, now, "referenced", r)
      PROVE  Honest(task[t], call[t])'
  <2> HIDE DEF now
  <2>1. task'[t].at = "referenced" /\ task'[t].input = NULL /\ task'[t].ref = NULL
      BY <1>1, <1>2, WaitsAs
  <2> QED
      BY <2>1
      DEF Honest, SaidAt, AskedAt, TrustsAt, SavedAt, Opened, Drawing, Midway
<1> QED
    BY <1>2 DEF Callback

\* What a handler has said stays true whatever its call and the others do.
LEMMA StaysHonest ==
    ASSUME BotInv, StoresOK, [BotNext]_<<vars, botVars>>, NEW u,
           Honest(task[u], call[u]), task'[u] = task[u],
           task[u].at \notin Through => call'[u].req = call[u].req,
           task[u].at \notin Through /\ task[u].ref # NULL => call'[u].code = "ok"
    PROVE  Honest(task[u], call[u])'
<1>1. SavedAt(task[u])'
    BY KeptStays DEF Honest, SavedAt
<1> QED
    BY <1>1
    DEF Honest, SaidAt, AskedAt, TrustsAt, Through, Opened, Drawing, Midway, AnsweredOnce

LEMMA CallsHonest ==
    ASSUME BotInv, StoresOK, ~DiskMayFail, [BotNext]_<<vars, botVars>>,
           NEW t \in Threads, Calls(t), Honest(task[t], call[t])
    PROVE  Honest(task[t], call[t])'
<1>1. task' = task /\ task[t].at \notin Through
    BY WaitingFacts DEF Calls, botVars
<1>2. call'[t].req = call[t].req
    BY LookupAnswer, WritingAnswer, ReadingAnswer DEF Calls
<1>3. ASSUME task[t].ref # NULL
      PROVE  call'[t].code = "ok"
  <2>1. /\ task[t].at \in Drawing \cup {"updated"} /\ call[t].code = "ok"
        /\ task[t].at = "heatmap" => call[t].req.week = task[t].week
        /\ task[t].at \in Drawing => task[t].input.op \in Updating
      BY <1>1, <1>3 DEF Honest, SaidAt, TrustsAt, Through
  <2>2. /\ call[t].req.op = StageOp(task[t].at) /\ Prepared(task[t], task[t].at)
        /\ AnswerOK(call[t]) /\ call[t].id = task[t].calendar
        /\ call[t].req.calendar = task[t].calendar
      BY <1>1, <2>1, HandlerFacts DEF Fits, Drawing
  <2>3. CASE task[t].at \in Drawing
    <3>1. call[t].id \in DOMAIN calendars /\ WeekOf(call[t].id, task[t].week)
        BY <2>1, <2>2, <2>3 DEF Prepared, Drawing, Leads
    <3> QED
        BY <1>1, <2>1, <2>2, <2>3, <3>1, NoError DEF StageOp, Drawing
  <2>4. CASE task[t].at = "updated"
    <3>1. call[t].req.op = "set_message"
        BY <2>2, <2>4 DEF StageOp
    <3>2. call[t].id \in DOMAIN calendars
        BY <2>2, <3>1 DEF AnswerOK, Leads
    <3> QED
        BY <2>1, <3>1, <3>2, NoError
  <2> QED
      BY <2>1, <2>3, <2>4
<1> QED
    BY <1>1, <1>2, <1>3, StaysHonest

LEMMA CallsAlone ==
    ASSUME BotInv, NEW t \in Threads, Calls(t)
    PROVE  /\ Step(t) /\ ServiceInv /\ task' = task
           /\ \A u \in Threads \ {t} : call'[u] = call[u]
<1>1. Step(t) /\ ServiceInv
    BY DEF BotInv, TablesOK, Calls, Step, Work
<1> QED
    BY <1>1, ThreadStep DEF OwnStep, SameBut, Calls, botVars

LEMMA HonestStep ==
    ASSUME ~DiskMayFail
    PROVE  BotInv /\ StoresOK /\ AllHonest /\ [BotNext]_<<vars, botVars>> => AllHonest'
<1> SUFFICES ASSUME BotInv, StoresOK, AllHonest, [BotNext]_<<vars, botVars>>,
                    NEW u \in Threads
             PROVE  Honest(task[u], call[u])'
    BY DEF AllHonest
<1>1. Honest(task[u], call[u])
    BY DEF AllHonest
<1>2. ASSUME task'[u] = task[u], call'[u] = call[u] PROVE Honest(task[u], call[u])'
  <2>1. task[u].at \notin Through /\ task[u].ref # NULL => call[u].code = "ok"
      BY <1>1 DEF Honest, TrustsAt, Through
  <2> QED
      BY <1>1, <1>2, <2>1, StaysHonest
<1>3. CASE Dies
    BY <1>3, FreeHonest DEF Dies
<1>4. ASSUME NEW t \in Threads, Act(t)
      PROVE  Honest(task[u], call[u])'
  <2>1. CASE Calls(t)
    <3>1. task' = task /\ (t # u => call'[u] = call[u])
        BY <2>1, CallsAlone
    <3> QED
        BY <1>1, <1>2, <2>1, <3>1, CallsHonest
  <2>2. CASE Handle(t)
    <3>1. t # u => task'[u] = task[u] /\ call'[u] = call[u]
        BY <2>2, HandleStep DEF GoesOn
    <3> QED
        BY <1>1, <1>2, <2>2, <3>1, HandleHonest
  <2> QED
      BY <1>4, <2>1, <2>2 DEF Act
<1>5. ASSUME NEW t \in Threads, NEW i \in Interactions, Receive(t, i)
      PROVE  Honest(task[u], call[u])'
  <2>1. t # u => task'[u] = task[u] /\ call'[u] = call[u]
      BY <1>5, ReceiveStep DEF GoesOn
  <2> QED
      BY <1>2, <1>5, <2>1, ArrivedHonest
<1>6. ASSUME NEW t \in Threads, NEW c \in awaiting, Callback(t, c)
      PROVE  Honest(task[u], call[u])'
  <2>1. CASE UNCHANGED <<task, call>>
      BY <1>2, <2>1
  <2>2. CASE ~(UNCHANGED <<task, call>>)
    <3>1. t # u => task'[u] = task[u] /\ call'[u] = call[u]
        BY <1>6, <2>2, CallbackStep DEF GoesOn
    <3> QED
        BY <1>2, <1>6, <2>2, <3>1, CalledBackHonest
  <2> QED
      BY <2>1, <2>2
<1>7. CASE UNCHANGED <<vars, botVars>>
    BY <1>2, <1>7 DEF vars, botVars
<1> QED
    BY <1>3, <1>4, <1>5, <1>6, <1>7 DEF BotNext

LEMMA HonestBegins == BotInit => AllHonest
<1> SUFFICES ASSUME BotInit, NEW t \in Threads PROVE Honest(task[t], call[t])
    BY DEF AllHonest
<1>1. task[t].at = "free" /\ task[t].input = NULL /\ task[t].ref = NULL
    BY DEF BotInit, Free
<1> QED
    BY <1>1 DEF Honest, SaidAt, AskedAt, TrustsAt, SavedAt, Opened, Drawing, Midway

-----------------------------------------------------------------------------
(* Every calendar of the bot is open and anonymous                         *)

BotRow(row) == row.state = "open" /\ row.config.modes = {"anonymous"}

BotRows ==
    /\ \A c \in DOMAIN calendars : BotRow(calendars[c])
    /\ \A c \in DOMAIN calendar_cache_ : BotRow(calendar_cache_[c])
    /\ \A t \in Threads : call[t].cal # NULL => BotRow(call[t].cal)

LEMMA CommandRow ==
    ASSUME NEW i
    PROVE  BotRow(Row(CreateCall(i)))
BY DEF BotRow, Row, CreateCall, CommandConfig

\* What a call stores of a new calendar is what the command asks for.
LEMMA RowsCalled ==
    ASSUME BotInv, AllHonest, BotRows, NEW t \in Threads, Calls(t)
    PROVE  \A c \in DOMAIN calendars' : BotRow(calendars'[c])
<1>1. Grows /\ ServiceInv /\ Step(t)
    BY CallsGrow DEF Calls, Step, Work, BotInv, TablesOK
<1>2. Shape(call[t]) /\ call[t].req.op \notin {"state", "delete"}
    BY HandlerFacts, WaitingFacts
<1>3. StepCases(t) /\ ~Manages(t)
    BY <1>1, <1>2, CasesOfStep DEF Manages, Shape, Ops
<1> TAKE c \in DOMAIN calendars'
<1>4. CASE c \in DOMAIN calendars
  <2>1. calendars'[c].config = calendars[c].config
      BY <1>1, <1>4 DEF Grows
  <2>2. calendars'[c].state = calendars[c].state
      BY <1>1, <1>3, <1>4, StateKept
  <2> QED
      BY <1>4, <2>1, <2>2 DEF BotRows, BotRow
<1>5. CASE c \notin DOMAIN calendars
  <2>1. ~Reads(t)
      BY <1>5 DEF Reads, db
  <2>2. ~Joins(t) /\ ~Clears(t) /\ ~Posts(t)
      BY <1>5
      DEF Joins, Upserts, UpsertUndone, db, Clears, Posts, upsert_participant,
          clear_participant, set_calendar_message
  <2>3. ~Stores(t)
      BY <1>5 DEF Stores, add_interval
  <2>4. Creates(t)
      BY <1>3, <2>1, <2>2, <2>3 DEF StepCases
  <2>5. calendars' = Put(calendars, NextId("calendars"), Row(call[t].req))
      BY <1>5, <2>4 DEF Creates, create_calendar, CreateCalendarFails
  <2>6. call[t].req.op = "create" /\ task[t].at \in Stages \ Through
      BY <1>2, <2>4, HandlerFacts, WaitingFacts DEF Creates, Shape, Ops, TaskOK
  <2>7. task[t].at = "created"
      BY <2>6, HandlerFacts DEF Fits, StageOp, Stages, Through
  <2>8. call[t].req = CreateCall(task[t].input)
      BY <2>7 DEF AllHonest, Honest, AskedAt
  <2> QED
      BY <1>5, <2>5, <2>8, CommandRow DEF Put
<1> QED
    BY <1>4, <1>5

LEMMA RowsStay ==
    ASSUME BotInv, AllHonest, BotRows, NEW t \in Threads, Calls(t)
    PROVE  BotRows'
<1>1. /\ ServiceInv /\ Step(t)
      /\ \A u \in Threads \ {t} : call'[u] = call[u]
    BY CallsAlone
<1>2. \A c \in DOMAIN calendars' : BotRow(calendars'[c])
    BY RowsCalled
<1>3. \A c \in DOMAIN calendar_cache_' : BotRow(calendar_cache_'[c])
  <2>1. CASE UNCHANGED calendar_cache_
      BY <2>1 DEF BotRows
  <2>2. CASE FillCache(t) /\ call[t].cal # NULL
    <3>1. calendar_cache_' = Put(calendar_cache_, call[t].id, call[t].cal)
        BY <2>2 DEF FillCache
    <3> QED
        BY <2>2, <3>1 DEF Put, BotRows
  <2>3. CASE calendar_cache_' = Without(calendar_cache_, {call[t].id})
    <3>1. \A c \in DOMAIN calendar_cache_' :
              c \in DOMAIN calendar_cache_ /\ calendar_cache_'[c] = calendar_cache_[c]
      <4> DEFINE gone == {call[t].id}
      <4>1. calendar_cache_' = Without(calendar_cache_, gone)
          BY <2>3
      <4> HIDE DEF gone
      <4> QED
          BY <4>1, WithoutKeeps
    <3> QED
        BY <3>1 DEF BotRows
  <2> QED
      BY <1>1, <2>1, <2>2, <2>3, CacheCases
<1>4. ASSUME NEW u \in Threads, call'[u].cal # NULL PROVE BotRow(call'[u].cal)
  <2>1. CASE u # t \/ call'[u].cal = call[u].cal
      BY <1>1, <1>4, <2>1 DEF BotRows
  <2>2. CASE u = t /\ TakesCopy(t)
      BY <1>4, <2>2 DEF TakesCopy, BotRows
  <2>3. Forgets(t) => call'[t].cal = NULL
      BY DEF Forgets
  <2>4. \/ call'[t].cal = call[t].cal \/ TakesCopy(t) \/ Forgets(t)
    <3>1. StepCases(t)
        BY <1>1, CasesOfStep
    <3> QED
        BY <3>1, IdleFields
        DEF StepCases, Reads, Keeps, FindsMember, Creates, Joins, Stores, Clears, Manages,
            Posts, SameBut
  <2> QED
      BY <1>4, <2>1, <2>2, <2>3, <2>4
<1> QED
    BY <1>2, <1>3, <1>4 DEF BotRows

LEMMA RowsGoOn ==
    ASSUME BotRows, UNCHANGED <<db, calendar_cache_>>, NEW t \in Threads, GoesOn(t)
    PROVE  BotRows'
<1>1. UNCHANGED <<calendars, calendar_cache_>>
    BY DEF db
<1>2. call'[t].cal = NULL
  <2>1. \A r : Started(r).cal = NULL
      BY DEF Started, Idle
  <2> QED
      BY <2>1 DEF GoesOn, Idle
<1>3. \A u \in Threads \ {t} : call'[u] = call[u]
    BY DEF GoesOn
<1> QED
    BY <1>1, <1>2, <1>3 DEF BotRows

LEMMA BotRowsStep ==
    BotInv /\ AllHonest /\ BotRows /\ [BotNext]_<<vars, botVars>> => BotRows'
<1> SUFFICES ASSUME BotInv, AllHonest, BotRows, [BotNext]_<<vars, botVars>>
             PROVE  BotRows'
    OBVIOUS
<1>1. CASE Dies
  <2>1. calendar_cache_' = << >> /\ UNCHANGED calendars
      BY <1>1 DEF Dies, Crash, db
  <2>2. \A t \in Threads : call'[t].cal = NULL
      BY <1>1 DEF Dies, Crash, Idle
  <2> QED
      BY <2>1, <2>2 DEF BotRows
<1>2. ASSUME UNCHANGED <<db, calendar_cache_, call>> PROVE BotRows'
    BY <1>2 DEF db, BotRows
<1>3. CASE UNCHANGED <<vars, botVars>>
    BY <1>2, <1>3 DEF vars
<1>4. ASSUME NEW t \in Threads, Act(t) PROVE BotRows'
  <2>1. CASE Calls(t)
      BY <2>1, RowsStay
  <2>2. CASE Handle(t)
    <3>1. UNCHANGED <<db, calendar_cache_>>
        BY <2>2
        DEF Handle, Catch, Created, GotCalendar, GotCount, Post, Preview, Edit, EndUpdate,
            Referenced, GotReference, Saved, Cleared, GotShownWeek, GotLastWeek,
            GotBestWeek, Ranking, Listed, Looked, Leave, Silent, BotOnly
    <3> QED
        BY <2>2, <3>1, HandleStep, RowsGoOn
  <2> QED
      BY <1>4, <2>1, <2>2 DEF Act
<1>5. ASSUME NEW t \in Threads, NEW i \in Interactions, Receive(t, i) PROVE BotRows'
  <2>1. UNCHANGED <<db, calendar_cache_>>
      BY <1>5 DEF Receive
  <2> QED
      BY <1>5, <2>1, ReceiveStep, RowsGoOn
<1>6. ASSUME NEW t \in Threads, NEW c \in awaiting, Callback(t, c) PROVE BotRows'
  <2>1. UNCHANGED <<db, calendar_cache_>>
      BY <1>6 DEF Callback
  <2> QED
      BY <1>2, <1>6, <2>1, CallbackStep, RowsGoOn
<1> QED
    BY <1>1, <1>3, <1>4, <1>5, <1>6 DEF BotNext

LEMMA RowsBegin == BotInit => BotRows
<1> SUFFICES ASSUME BotInit PROVE BotRows
    OBVIOUS
<1>1. calendar_cache_ = << >> /\ \A t \in Threads : call[t].cal = NULL
    BY DEF BotInit, Idle
<1>2. ASSUME NEW c \in DOMAIN calendars PROVE BotRow(calendars[c])
  <2>1. CASE RepoInit
      BY <1>2, <2>1 DEF RepoInit
  <2>2. ASSUME NEW i, NEW week, NEW shown, LeftCalendar(Row(CreateCall(i)), week, shown)
        PROVE  BotRow(calendars[c])
    <3>1. calendars = [k \in {1} |-> Row(CreateCall(i))]
        BY <2>2 DEF LeftCalendar
    <3> QED
        BY <1>2, <3>1, CommandRow
  <2> QED
      BY <2>1, <2>2 DEF BotInit
<1> QED
    BY <1>1, <1>2 DEF BotRows

-----------------------------------------------------------------------------
(* An error first means that nothing is stored                             *)

Nothing(i) == StoredAsTyped(i) = {} \/ ~CanDraw("intervals")

\* What a handler knows of its member and of his intervals when nobody else acts.
Candid(now, c) ==
    /\ now.at = "saved" /\ c.pc = "store" => c.pid \in DOMAIN participants
    /\ now.at = "saved" /\ c.pc = "done" /\ c.code # "ok" => Nothing(now.input)
    /\ (/\ now.at = "ended" /\ now.input # NULL /\ now.input.op \in AddOps
        /\ now.said # << >> /\ now.said[1] = "error") => Nothing(now.input)

AllCandid ==
    \A t \in alone : task[t].at # "free" =>
        /\ \A u \in Threads \ {t} : task[u].at = "free"
        /\ Candid(task[t], call[t])

LEMMA NothingSame ==
    ASSUME UNCHANGED db
    PROVE  \A i : Nothing(i)' = Nothing(i)
<1>1. UNCHANGED <<participants, intervals, seq>>
    BY DEF db
<1> QED
    BY <1>1 DEF Nothing, StoredAsTyped, CanDraw

\* What is typed means one date, and one time each, if anything.
LEMMA ParsedOnce ==
    ASSUME NEW typed
    PROVE  /\ \A x, y \in parse_date(typed) : x = y
           /\ \A x, y \in parse_time(typed) : x = y
BY DEF parse_date, parse_time

\* The call that a handler makes to save, and his intervals if he has any.
LEMMA SavingFacts ==
    ASSUME BotInv, AllHonest, NEW t \in Threads, task[t].at = "saved"
    PROVE  LET i == task[t].input
               r == call[t].req
           IN  /\ r = AddCall(i) /\ r \in Request /\ r.op = "add"
               /\ r.user = i.user /\ call[t].id = i.calendar
               /\ r.identity.mode = "anonymous" /\ r.identity.alias = NULL
               /\ r.dates = parse_date(i.date) /\ r.dates # {}
               /\ r.span.start \in parse_time(i.start)
               /\ r.span.end \in parse_time(i.end)
               /\ Shape(call[t])
<1> DEFINE i == task[t].input
           r == call[t].req
<1>1. /\ r = AddCall(i) /\ i.op \in AddOps /\ ~Unparsed(i)
      /\ r \in Request /\ call[t].id = r.calendar /\ Shape(call[t])
  <2>1. Honest(task[t], call[t])
      BY DEF AllHonest
  <2>2. /\ r \in Request /\ r.calendar = task[t].calendar
        /\ call[t].id = task[t].calendar /\ Shape(call[t])
      BY HandlerFacts DEF Through
  <2> QED
      BY <2>1, <2>2 DEF Honest, AskedAt
<1>2. /\ r.op = "add" /\ r.calendar = i.calendar /\ r.user = i.user
      /\ r.identity.mode = "anonymous" /\ r.identity.alias = NULL
      /\ r.dates = parse_date(i.date)
      /\ r.span.start = The(parse_time(i.start))
      /\ r.span.end = The(parse_time(i.end))
    BY <1>1 DEF AddCall
<1>3. /\ parse_date(i.date) # {} /\ parse_time(i.start) # {} /\ parse_time(i.end) # {}
    BY <1>1 DEF Unparsed, AddOps
<1> QED
    BY <1>1, <1>2, <1>3 DEF The

\* If he has one, he takes part in the calendar, and what he typed is accepted.
LEMMA SavedBefore ==
    ASSUME BotInv, StoresOK, AllHonest, BotRows, ~DiskMayFail, NEW t \in Threads,
           task[t].at = "saved", NEW v \in StoredAsTyped(task[t].input)
    PROVE  /\ call[t].id \in DOMAIN calendars
           /\ call[t].req.span.start = intervals[v].span.start
           /\ call[t].req.span.end = intervals[v].span.end
           /\ InHours(calendars[call[t].id].config, call[t].req.span)
           /\ \A d \in call[t].req.dates :
                is_date_in_month(d, calendars[call[t].id].config.month)
           /\ Matching(Member(t)) # {}
<1> DEFINE i == task[t].input
           r == call[t].req
           p == intervals[v].participant
           config == calendars[call[t].id].config
<1>1. /\ r.user = i.user /\ call[t].id = i.calendar
      /\ r.dates = parse_date(i.date)
      /\ r.span.start \in parse_time(i.start)
      /\ r.span.end \in parse_time(i.end)
    BY SavingFacts
<1>2. /\ v \in DOMAIN intervals /\ intervals[v].calendar = call[t].id
      /\ participants[p].user = i.user
      /\ intervals[v].date \in parse_date(i.date)
      /\ intervals[v].span.start \in parse_time(i.start)
      /\ intervals[v].span.end \in parse_time(i.end)
    BY <1>1 DEF StoredAsTyped
<1>3. /\ call[t].id \in DOMAIN calendars /\ p \in DOMAIN participants
      /\ participants[p].calendar = call[t].id
    BY <1>2 DEF BotInv, TablesOK, ReferentialIntegrity, StoresOK, IntervalsPlaced
<1>4. /\ r.span.start = intervals[v].span.start /\ r.span.end = intervals[v].span.end
      /\ \A d \in r.dates : d = intervals[v].date
    BY <1>1, <1>2, ParsedOnce
<1>5. /\ InHours(config, intervals[v].span)
      /\ is_date_in_month(intervals[v].date, config.month)
    BY <1>2 DEF StoresOK, IntervalsInRange
<1>6. InHours(config, r.span)
    BY <1>4, <1>5 DEF InHours
<1>7. p \in Matching(Member(t))
    BY <1>1, <1>2, <1>3 DEF Matching, Member, Same
<1> QED
    BY <1>3, <1>4, <1>5, <1>6, <1>7

LEMMA HoursOfDay ==
    ASSUME NEW config, is_valid_calendar_config(config)
    PROVE  config.start_minute >= 0 /\ config.end_minute <= 1440
<1>1. config.start_minute >= 0 /\ config.end_minute <= minutes_per_day
    BY DEF is_valid_calendar_config
<1>2. minutes_per_day = 1440
    BY DEF minutes_per_day
<1> QED
    BY <1>1, <1>2

\* So the call has no reason to fail before the intervals have no ids left.
LEMMA SavingFails ==
    ASSUME BotInv, StoresOK, AllHonest, BotRows, ~DiskMayFail, NEW t \in Threads,
           Calls(t), task[t].at = "saved", Candid(task[t], call[t]),
           call'[t].pc = "done", call'[t].code # "ok"
    PROVE  UNCHANGED db /\ Nothing(task[t].input)
<1> DEFINE r == call[t].req
           cal == call[t].cal
<1>1. /\ r \in Request /\ r.op = "add" /\ Shape(call[t])
      /\ r.identity.mode = "anonymous" /\ r.identity.alias = NULL /\ r.dates # {}
    BY SavingFacts
<1>2. TypeOK /\ ServiceInv /\ call[t].pc \notin {"idle", "done"}
    BY WaitingFacts DEF BotInv, TablesOK, ServiceInv
<1>3. \/ FindCalendar(t) /\ UNCHANGED db /\ call[t].id \notin DOMAIN calendars
      \/ AddAvailability(t)
      \/ StoreDate(t)
  <2>1. ASSUME NEW value, Answer(t, "ok", value) PROVE FALSE
      BY <1>2, <2>1, AnswerFacts
  <2>2. ASSUME NEW step, step # "done", Goto(t, step) PROVE FALSE
      BY <1>2, <2>2, GotoFacts
  <2>3. CASE Lookup(t)
    <3>1. ~CacheHit(t)
      <4>1. CacheHit(t) => call'[t].pc = r.op
          BY <1>2, IdleFields DEF CacheHit, TypeOK, CallOK
      <4> QED
          BY <1>1, <4>1
    <3>2. ~CacheMiss(t) /\ ~FillCache(t)
        BY <1>1, <2>2 DEF CacheMiss, FillCache
    <3>3. FindCalendar(t) /\ UNCHANGED db
        BY <2>3, <3>1, <3>2 DEF Lookup, FindCalendar, Quiet
    <3>4. call[t].id \notin DOMAIN calendars
      <4>1. CASE call' = [call EXCEPT ![t].cal = calendars[call[t].id], ![t].pc = "fill"]
          BY <1>2, <4>1, IdleFields DEF TypeOK, CallOK
      <4> QED
          BY <3>3, <4>1 DEF FindCalendar
    <3> QED
        BY <3>3, <3>4
  <2>4. CASE Writing(t)
    <3>1. ~Invalidate(t)
        BY <2>1 DEF Invalidate
    <3> QED
        BY <1>1, <2>4, <3>1
        DEF Writing, CreateCalendar, ClearMyData, ChangeState, DeleteCalendar,
            SetCalendarMessage, Shape, Ops
  <2>5. ~Reading(t)
      BY <1>1
      DEF Reading, ViewCalendar, CalendarMessage, FindMine, MySchedule, FindAttendees,
          DayParticipants, FindWeek, WeeklyHeatmap, PublicParticipants, Shape, Ops
  <2> QED
      BY <2>3, <2>4, <2>5 DEF Calls
<1>4. ASSUME call[t].pc = "add", NEW v \in StoredAsTyped(task[t].input)
      PROVE  AddAccepted(cal, r) /\ CanUpsert(Member(t))
  <2>1. cal \in CalendarRow /\ cal # NULL
      BY <1>1, <1>4, ServiceAssumption DEF Shape, AfterLookup, Ops
  <2>2. /\ call[t].id \in DOMAIN calendars /\ Matching(Member(t)) # {}
        /\ InHours(calendars[call[t].id].config, r.span)
        /\ \A d \in r.dates : is_date_in_month(d, calendars[call[t].id].config.month)
      BY <1>4, SavedBefore
  <2>3. cal.config = calendars[call[t].id].config
      BY <2>1, <2>2 DEF BotInv, TablesOK, CopiesOld, HeldRowsAreOld, OldRow, Later
  <2>4. cal.state = "open" /\ cal.config.modes = {"anonymous"}
      BY <2>1 DEF BotRows, BotRow
  <2>5. AddAccepted(cal, r)
      BY <1>1, <2>2, <2>3, <2>4, AcceptedFacts
  <2>6. Member(t).calendar = call[t].id /\ alias_key(Member(t)) = NULL
      BY <1>1 DEF Member, alias_key
  <2> QED
      BY <2>2, <2>5, <2>6 DEF CanUpsert, AliasFree
<1>5. CASE FindCalendar(t) /\ UNCHANGED db /\ call[t].id \notin DOMAIN calendars
    BY <1>5, SavedBefore DEF Nothing
<1>6. CASE AddAvailability(t)
  <2>1. call[t].pc = "add"
      BY <1>6 DEF AddAvailability
  <2>2. ~Joins(t)
      BY DEF Joins
  <2>3. UNCHANGED db
      BY <1>2, <1>6, <2>2, AddCases
  <2>4. ~AddAccepted(cal, r) \/ ~CanUpsert(Member(t))
    <3>1. ASSUME call' = [call EXCEPT ![t].pid = UpsertId(Member(t)),
                                      ![t].todo = call[t].req.dates,
                                      ![t].pc = "store"]
          PROVE  FALSE
        BY <1>2, <3>1, IdleFields DEF TypeOK, CallOK
    <3> QED
        BY <1>6, <3>1 DEF AddAvailability
  <2> QED
      BY <1>4, <2>1, <2>3, <2>4 DEF Nothing
<1>7. CASE StoreDate(t)
  <2>1. call[t].pc = "store" /\ call[t].pid \in DOMAIN participants
      BY <1>7 DEF StoreDate, Candid
  <2>2. ~Stores(t)
      BY DEF Stores
  <2>3. UNCHANGED db
      BY <1>2, <1>7, <2>2, StoreCases
  <2>4. ~CanAddInterval(Interval(t))
    <3>1. ~(add_interval(Interval(t)) /\ UNCHANGED db)
      <4>1. add_interval(Interval(t)) => seq' # seq
        <5>1. seq["intervals"] \in Nat /\ "intervals" \in DOMAIN seq
            BY <1>2 DEF TypeOK, RepoTypeOK, Tables
        <5> QED
            BY <5>1 DEF add_interval, Draw
      <4> QED
          BY <4>1 DEF db
    <3> QED
        BY <1>7, <2>3, <3>1 DEF StoreDate
  <2>5. ASSUME NEW v \in StoredAsTyped(task[t].input), CanDraw("intervals") PROVE FALSE
    <3>1. /\ call[t].id \in DOMAIN calendars
          /\ InHours(calendars[call[t].id].config, r.span)
        BY <2>5, SavedBefore
    <3>2. SpanOk(r.span)
      <4> DEFINE config == calendars[call[t].id].config
      <4>1. config.start_minute \in Int /\ config.end_minute \in Int
          BY <1>2, <3>1, DomainAssumption
          DEF TypeOK, RepoTypeOK, CalendarRow, CalendarConfig
      <4>2. config.start_minute >= 0 /\ config.end_minute <= 1440
        <5>1. is_valid_calendar_config(config)
            BY <3>1 DEF BotInv, PicturesOK
        <5> QED
            BY <5>1, HoursOfDay
      <4>3. r.span.start \in Int /\ r.span.end \in Int
          BY <1>1, RequestFacts, DomainAssumption DEF AddRequest, Span
      <4> HIDE DEF config
      <4> QED
          BY <3>1, <4>1, <4>2, <4>3 DEF InHours, SpanOk, config
    <3> QED
        BY <2>1, <2>4, <2>5, <3>1, <3>2 DEF CanAddInterval, Interval
  <2> QED
      BY <2>3, <2>5 DEF Nothing
<1> QED
    BY <1>3, <1>5, <1>6, <1>7

LEMMA CallsCandid ==
    ASSUME BotInv, StoresOK, AllHonest, BotRows, ~DiskMayFail, NEW t \in Threads,
           Calls(t), Candid(task[t], call[t])
    PROVE  Candid(task[t], call[t])'
<1>1. /\ task' = task /\ task[t].at \notin Through
      /\ ServiceInv /\ Step(t) /\ call'[t].req = call[t].req
    BY CallsAlone, WaitingFacts, LookupAnswer, WritingAnswer, ReadingAnswer DEF Calls
<1>2. ASSUME task[t].at = "saved", call'[t].pc = "store"
      PROVE  call'[t].pid \in DOMAIN participants'
  <2>1. call'[t].req.op = "add"
      BY <1>1, <1>2, SavingFacts
  <2>2. Joins(t) \/ Stores(t) \/ Invalidate(t)
      BY <1>1, <1>2, <2>1, SavingCases
  <2>3. CASE Joins(t)
    <3>1. participants' = Put(participants, call'[t].pid, Member(t))
        BY <2>3 DEF Joins, Upserts, upsert_participant
    <3> QED
        BY <3>1 DEF Put
  <2>4. CASE Stores(t)
    <3>1. call[t].pc = "store" /\ call'[t].pid = call[t].pid
          /\ participants' = participants
        BY <2>4, IdleFields DEF Stores, SameBut, add_interval
    <3> QED
        BY <1>2, <3>1 DEF Candid
  <2>5. ~Invalidate(t)
    <3>1. TypeOK
        BY <1>1 DEF ServiceInv
    <3> QED
        BY <1>2, <3>1, AnswerFacts DEF Invalidate
  <2> QED
      BY <2>2, <2>3, <2>4, <2>5
<1>3. ASSUME task[t].at = "saved", call'[t].pc = "done", call'[t].code # "ok"
      PROVE  Nothing(task[t].input)'
  <2>1. UNCHANGED db /\ Nothing(task[t].input)
      BY <1>3, SavingFails
  <2>2. \A i : Nothing(i)' = Nothing(i)
      BY <2>1, NothingSame
  <2> QED
      BY <1>1, <2>1, <2>2 DEF Nothing, StoredAsTyped, CanDraw
<1> QED
    BY <1>1, <1>2, <1>3 DEF Candid, Through

\* An error that comes first has been caught while saving, or before it.
LEMMA FirstError ==
    ASSUME BotInv, NEW t \in Threads, Handle(t), Honest(task[t], call[t]),
           task'[t].at = "ended", task'[t].input # NULL, task'[t].input.op \in AddOps,
           task'[t].said # << >>, task'[t].said[1] = "error"
    PROVE  Catch(t) /\ task[t].at = "saved" /\ task'[t].input = task[t].input
<1>1. ASSUME NEW now, NEW stage, NEW r, Waits(t, now, stage, r) PROVE FALSE
  <2>1. call'[t] = Started(r)
      BY <1>1, Threaded DEF Waits
  <2>2. call'[t] = Idle
      BY HandleStep DEF GoesOn, Fits, Through
  <2>3. Started(r).pc # "idle" /\ Idle.pc = "idle"
      BY DEF Started, Idle
  <2> QED
      BY <2>1, <2>2, <2>3
<1>2. HasFields(task[t]) /\ task[t].at \in Stages
    BY TaskFields, HandlerFacts DEF TaskOK
<1>3. ASSUME NEW answer, Replies(t, task[t], answer)
      PROVE  /\ task'[t].input = task[t].input
             /\ task'[t].said = Append(task[t].said, answer)
    BY <1>2, <1>3, RepliesAs
<1>4. ASSUME SaidOnce(task[t].said), NEW answer, Replies(t, task[t], answer) PROVE FALSE
  <2>1. PICK first \in {"saved", "cleared", "moving"} : task[t].said = <<first>>
      BY <1>4 DEF SaidOnce
  <2>2. task'[t].said[1] = first
      BY <1>3, <1>4, <2>1, Answers
  <2> QED
      BY <2>1, <2>2
<1>5. CASE Catch(t)
  <2>1. Replies(t, task[t], "error") /\ task[t].at # "referenced"
      BY <1>5 DEF Catch
  <2>2. task[t].at \in Stages \ (Through \cup {"referenced"})
      BY <1>2, <1>5, HandlerFacts DEF Catch, Fits, Idle
  <2>3. ~SaidOnce(task[t].said) /\ task[t].input.op \in AddOps
      BY <1>3, <1>4, <2>1
  <2>4. task[t].at \in Opened
      BY <2>2, <2>3
      DEF Honest, SaidAt, AskedAt, Stages, Through, Opened, Drawing, Midway, AddOps,
          Updating
  <2> QED
      BY <1>3, <1>5, <2>1, <2>3, <2>4 DEF Honest, AskedAt
<1>6. CASE Post(t) \/ Preview(t)
    BY <1>3, <1>6 DEF Post, Preview, AddOps
<1>7. CASE Ranking(t) \/ Looked(t)
  <2>1. /\ task[t].at \in Opened \ {"saved"}
        /\ \E answer : Replies(t, task[t], answer)
      BY <1>7 DEF Ranking, Looked, Got, Opened
  <2> QED
      BY <1>3, <2>1 DEF Honest, AskedAt
<1>8. CASE EndUpdate(t)
  <2>1. SaidOnce(task[t].said)
      BY <1>8 DEF EndUpdate, Got, Honest, SaidAt, AskedAt, Midway
  <2>2. task'[t].said = task[t].said
      BY <1>2, <1>8, EndsAs DEF EndUpdate
  <2> QED
      BY <2>1, <2>2 DEF SaidOnce
<1>9. CASE Referenced(t)
  <2>1. task'[t].input = task[t].input
      BY <1>2, <1>9, EndsAs DEF Referenced
  <2> QED
      BY <1>9, <2>1 DEF Referenced, Honest, AskedAt
<1>10. CASE GotReference(t)
  <2>1. Replies(t, task[t], "error")
      BY <1>1, <1>10 DEF GotReference, public_message
  <2>2. SaidOnce(task[t].said)
      BY <1>10 DEF GotReference, Got, Honest, SaidAt, AskedAt, Midway
  <2> QED
      BY <1>4, <2>1, <2>2
<1>11. CASE GotShownWeek(t)
  <2>1. Replies(t, task[t], "error") /\ task[t].at = "shown_week"
      BY <1>1, <1>11 DEF GotShownWeek, Got, update_public_message
  <2> QED
      BY <1>3, <2>1 DEF Honest, AskedAt, Opened
<1>12. CASE Leave(t)
  <2>1. task'[t].at = "free"
      BY <1>12, Threaded DEF Leave, Free
  <2> QED
      BY <2>1
<1> QED
    BY <1>1, <1>5, <1>6, <1>7, <1>8, <1>9, <1>10, <1>11, <1>12
    DEF Handle, Created, GotCalendar, GotCount, Edit, Saved, Cleared, GotLastWeek,
        GotBestWeek, Listed, public_message, update_public_message

\* Where a handler goes on, its call has not come that far.
LEMMA CandidGoesOn ==
    ASSUME NEW t \in Threads, GoesOn(t),
           (/\ task'[t].at = "ended" /\ task'[t].input # NULL
            /\ task'[t].input.op \in AddOps
            /\ task'[t].said # << >> /\ task'[t].said[1] = "error")
                => Nothing(task[t].input)'
    PROVE  Candid(task[t], call[t])'
<1>1. call'[t].pc \notin {"store", "done"}
  <2>1. \A r : Started(r).pc \notin {"store", "done"}
      BY DEF Started, Idle
  <2> QED
      BY <2>1 DEF GoesOn, Idle
<1> QED
    BY <1>1 DEF Candid

LEMMA HandleCandid ==
    ASSUME BotInv, NEW t \in Threads, Handle(t), Honest(task[t], call[t]),
           Candid(task[t], call[t])
    PROVE  Candid(task[t], call[t])'
<1>1. ASSUME task'[t].at = "ended", task'[t].input # NULL, task'[t].input.op \in AddOps,
             task'[t].said # << >>, task'[t].said[1] = "error"
      PROVE  Nothing(task[t].input)'
  <2>1. Catch(t) /\ task[t].at = "saved" /\ task'[t].input = task[t].input
      BY <1>1, FirstError
  <2>2. UNCHANGED db /\ Nothing(task[t].input)
      BY <2>1 DEF Catch, Silent, BotOnly, Candid
  <2>3. \A i : Nothing(i)' = Nothing(i)
      BY <2>2, NothingSame
  <2> QED
      BY <2>1, <2>2, <2>3 DEF Nothing, StoredAsTyped, CanDraw
<1> QED
    BY <1>1, HandleStep, CandidGoesOn

\* Nothing can be stored as typed that has no meaning.
LEMMA ArrivedCandid ==
    ASSUME BotInv, NEW t \in Threads, NEW i \in Interactions, Receive(t, i)
    PROVE  Candid(task[t], call[t])'
<1>1. GoesOn(t)
    BY ReceiveStep
<1>2. ASSUME task'[t].at = "ended", task'[t].input.op \in AddOps
      PROVE  Nothing(task[t].input)'
  <2>1. HasFields(Arrived(i)) /\ Arrived(i).input = i
      BY DEF Arrived, Free, HasFields
  <2>2. ASSUME NEW stage, NEW r, Waits(t, Arrived(i), stage, r) PROVE FALSE
    <3>1. call'[t] = Started(r) /\ call'[t] = Idle
        BY <1>1, <1>2, <2>2, Threaded DEF Waits, GoesOn, Fits, Through
    <3>2. Started(r).pc # "idle" /\ Idle.pc = "idle"
        BY DEF Started, Idle
    <3> QED
        BY <3>1, <3>2
  <2>3. task'[t].input = i
      BY <2>1, <2>2, RepliesAs, EndsAs DEF Receive
  <2>4. Unparsed(i) /\ i.op \in AddOps
      BY <1>2, <2>2, <2>3 DEF Receive, AddOps
  <2>5. {} \in {parse_date(i.date), parse_time(i.start), parse_time(i.end)}
      BY <2>4 DEF Unparsed, AddOps
  <2> QED
      BY <2>3, <2>5 DEF Nothing, StoredAsTyped
<1> QED
    BY <1>1, <1>2, CandidGoesOn

LEMMA CalledBackCandid ==
    ASSUME BotInv, NEW t \in Threads, NEW c \in awaiting, Callback(t, c)
    PROVE  Candid(task[t], call[t])' \/ UNCHANGED <<task, call, alone>>
<1>1. CASE UNCHANGED <<task, call, alone>>
    BY <1>1
<1>2. ASSUME NEW now, NEW r, Waits(t, now, "referenced", r), HasFields(now)
      PROVE  Candid(task[t], call[t])'
  <2>1. task'[t].at = "referenced"
      BY <1>2, WaitsAs
  <2> QED
      BY <2>1 DEF Candid
<1>3. HasFields([Free EXCEPT !.calendar = c])
    BY DEF HasFields, Free
<1> QED
    BY <1>1, <1>2, <1>3 DEF Callback

LEMMA CandidStep ==
    ASSUME ~DiskMayFail
    PROVE  /\ BotInv /\ StoresOK /\ AllHonest /\ BotRows /\ AllCandid
           /\ [BotNext]_<<vars, botVars>>
           => AllCandid'
<1> SUFFICES ASSUME BotInv, StoresOK, AllHonest, BotRows, AllCandid,
                    [BotNext]_<<vars, botVars>>
             PROVE  AllCandid'
    OBVIOUS
<1>1. CASE Dies
  <2>1. \A t \in Threads : task'[t].at = "free"
      BY <1>1 DEF Dies, Free
  <2>2. alone' \subseteq Threads
      BY <1>1 DEF Dies, BotInv, GhostsOK
  <2> QED
      BY <2>1, <2>2 DEF AllCandid
<1>2. ASSUME UNCHANGED <<task, call, alone, db>>
      PROVE  AllCandid'
  <2>1. \A i : Nothing(i)' = Nothing(i)
      BY <1>2, NothingSame
  <2>2. ASSUME NEW t \in alone, Candid(task[t], call[t]) PROVE Candid(task[t], call[t])'
    <3>1. participants' = participants
        BY <1>2 DEF db
    <3>2. Nothing(task[t].input)' = Nothing(task[t].input)
        BY <1>2, <2>1 DEF db, Nothing, StoredAsTyped, CanDraw
    <3> QED
        BY <1>2, <2>2, <3>1, <3>2 DEF Candid
  <2> QED
      BY <1>2, <2>2 DEF AllCandid
<1>3. ASSUME NEW u \in Threads, Act(u)
      PROVE  AllCandid'
  <2> SUFFICES ASSUME NEW t \in alone', task'[t].at # "free"
               PROVE  /\ \A v \in Threads \ {t} : task'[v].at = "free"
                      /\ Candid(task[t], call[t])'
      BY DEF AllCandid
  <2>1. /\ task[u].at # "free" /\ t \in alone /\ t \in Threads
        /\ \A v \in Threads \ {u} : task'[v] = task[v]
      BY <1>3, ActsBusy DEF BotInv, GhostsOK
  <2>2. t = u
      BY <2>1 DEF AllCandid
  <2>3. Candid(task[t], call[t]) /\ \A v \in Threads \ {t} : task'[v].at = "free"
      BY <2>1, <2>2 DEF AllCandid
  <2>4. Honest(task[t], call[t])
      BY <2>1 DEF AllHonest
  <2> QED
      BY <1>3, <2>1, <2>2, <2>3, <2>4, CallsCandid, HandleCandid DEF Act
<1>4. ASSUME NEW u \in Threads, Meets(u), Candid(task[u], call[u])',
             \A v \in Threads \ {u} : task'[v] = task[v]
      PROVE  AllCandid'
    BY <1>4 DEF Meets, AllCandid
<1>5. ASSUME NEW u \in Threads, NEW i \in Interactions, Receive(u, i)
      PROVE  AllCandid'
  <2>1. Meets(u) /\ \A v \in Threads \ {u} : task'[v] = task[v]
      BY <1>5, ReceiveStep DEF Receive, GoesOn
  <2> QED
      BY <1>4, <1>5, <2>1, ArrivedCandid
<1>6. ASSUME NEW u \in Threads, NEW c \in awaiting, Callback(u, c)
      PROVE  AllCandid'
  <2>1. UNCHANGED db
      BY <1>6 DEF Callback
  <2>2. CASE UNCHANGED <<task, call, alone>>
      BY <1>2, <2>1, <2>2
  <2>3. CASE ~(UNCHANGED <<task, call, alone>>)
    <3>1. Meets(u) /\ \A v \in Threads \ {u} : task'[v] = task[v]
        BY <1>6, <2>3, Threaded DEF Callback, Waits
    <3> QED
        BY <1>4, <1>6, <2>3, <3>1, CalledBackCandid
  <2> QED
      BY <2>2, <2>3
<1>7. CASE UNCHANGED <<vars, botVars>>
    BY <1>2, <1>7 DEF vars, botVars
<1> QED
    BY <1>1, <1>3, <1>5, <1>6, <1>7 DEF BotNext

\* Whoever does something is answered, and the answers are true: who is told that
\* his availability is saved has it stored as he typed it until he or his calendar
\* goes, whoever else adds and clears meanwhile; an error after it only says that
\* the message of the calendar is not known; and an error first, to a handler that
\* ran alone, that nothing of it is stored as long as there are row ids. (A disk
\* that fails is a reason for an error at any time.)
THEOREM AnsweredTruly ==
    ASSUME ~DiskMayFail
    PROVE  BotSpec => []AnsweredAsDone
<1>1. BotInit => AllCandid
    BY DEF BotInit, AllCandid
<1>2. ASSUME BotInv, AllHonest, AllCandid PROVE AnsweredAsDone
  <2> SUFFICES ASSUME NEW t \in Threads, Ended(t)
               PROVE  LET i == task[t].input
                          said == task[t].said
                      IN  /\ said = << >> <=> i.op = "form_unknown"
                          /\ Len(said) <= 2
                          /\ Len(said) = 2 => said[2] = "error" /\ task[t].ref = NULL
                          /\ (/\ i.op \in {"add", "submit"} /\ said[1] = "saved"
                              /\ task[t].member \in DOMAIN participants) =>
                                \E v \in StoredAsTyped(i) :
                                    intervals[v].participant = task[t].member
                          /\ i.op \in {"add", "submit"} /\ t \in alone
                                /\ said[1] = "error" =>
                                StoredAsTyped(i) = {} \/ ~CanDraw("intervals")
      BY DEF AnsweredAsDone
  <2>1. task[t].at = "ended" /\ task[t].input # NULL /\ Honest(task[t], call[t])
      BY <1>2 DEF Ended, AllHonest
  <2>2. AnsweredOnce(task[t])
      BY <2>1 DEF Honest, SaidAt
  <2>3. ASSUME task[t].input.op \in AddOps PROVE task[t].said # << >>
      BY <2>2, <2>3 DEF AnsweredOnce, AddOps
  <2>4. ASSUME task[t].input.op \in AddOps, task[t].said[1] = "saved",
               task[t].member \in DOMAIN participants
        PROVE  \E v \in StoredAsTyped(task[t].input) :
                    intervals[v].participant = task[t].member
    <3>1. Kept(task[t].member, task[t].input)
        BY <2>1, <2>3, <2>4 DEF Honest, SavedAt
    <3>2. task[t].member # 0
        BY <1>2, <2>4 DEF BotInv, TablesOK, ServiceInv, TypeOK, RepoTypeOK
    <3> QED
        BY <2>4, <3>1, <3>2 DEF Kept
  <2>5. ASSUME task[t].input.op \in AddOps, t \in alone, task[t].said[1] = "error"
        PROVE  StoredAsTyped(task[t].input) = {} \/ ~CanDraw("intervals")
      BY <1>2, <2>1, <2>3, <2>5 DEF AllCandid, Candid, Nothing
  <2> QED
      BY <2>2, <2>4, <2>5 DEF AnsweredOnce, AddOps
<1> QED
    BY <1>1, <1>2, BotAlways, StoresBegin, StoresStep, HonestBegins, HonestStep,
       RowsBegin, BotRowsStep, CandidStep, PTL DEF BotSpec
=============================================================================

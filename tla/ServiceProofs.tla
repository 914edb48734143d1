---------------------------- MODULE ServiceProofs ----------------------------
(***************************************************************************)
(* What holds of the service for every number of threads, members,         *)
(* calendars and calls, whatever fails and whenever the process dies.      *)
(***************************************************************************)
EXTENDS ServiceProperties, RepositoryProofs, DateProofs

-----------------------------------------------------------------------------
(* Calls as records: what the updates of a thread's call leave alone.      *)

SameBut(t, fields) ==
    /\ DOMAIN call' = DOMAIN call
    /\ \A u \in Threads \ {t} : call'[u] = call[u]
    /\ DOMAIN call'[t] = DOMAIN Idle
    /\ \A k \in DOMAIN Idle \ fields : call'[t][k] = call[t][k]

LEMMA IdleFields ==
    DOMAIN Idle = {"pc", "req", "id", "cal", "pid", "todo", "got", "code", "value",
                   "lost"}
BY DEF Idle

LEMMA AnswerFacts ==
    ASSUME TypeOK, NEW t \in Threads, NEW code, NEW value, Answer(t, code, value)
    PROVE  /\ SameBut(t, {"pc", "code", "value"})
           /\ call'[t].pc = "done" /\ call'[t].code = code /\ call'[t].value = value
<1>1. DOMAIN call = Threads /\ DOMAIN call[t] = DOMAIN Idle
    BY DEF TypeOK, CallOK
<1> QED
    BY <1>1, IdleFields DEF Answer, SameBut

LEMMA GotoFacts ==
    ASSUME TypeOK, NEW t \in Threads, NEW step, Goto(t, step)
    PROVE  SameBut(t, {"pc"}) /\ call'[t].pc = step
<1>1. DOMAIN call = Threads /\ DOMAIN call[t] = DOMAIN Idle
    BY DEF TypeOK, CallOK
<1> QED
    BY <1>1, IdleFields DEF Goto, SameBut

-----------------------------------------------------------------------------
(* The first of the dates that are left.                                   *)

LEMMA NextDateFacts ==
    ASSUME NEW S \in SUBSET Date, S # {}, NEW month, month.year \in Int,
           \A d \in S : is_date_in_month(d, month)
    PROVE  NextDate(S) \in S
<1>1. \A d \in S : DateOk(d) /\ d.year = month.year /\ d.day \in Int
    BY DEF is_date_in_month, Date
<1>2. \E d \in S : \A e \in S : DateLeq(d, e)
    BY <1>1, FirstOfDates
<1> QED
    BY <1>2 DEF NextDate

-----------------------------------------------------------------------------
(* What a call relies on at each of its steps.                             *)

Ops == {"create", "add", "clear", "state", "delete", "set_message", "view",
        "message", "mine", "day", "heatmap", "public"}

\* The steps that work with the copy that require_calendar returned.
AfterLookup == (Ops \ {"create"})
                    \cup {"fill", "store", "mine_list", "day_list", "heatmap_count"}

\* A thread that is idle holds nothing; a call is about the calendar it names;
\* it is at a step of its own operation, with what the steps before have read.
Shape(c) ==
    /\ c.pc = "idle" => c.pid = 0 /\ c.cal = NULL /\ c.lost = 0
    /\ c.pc # "idle" => /\ c.req \in Request
                        /\ c.req.op # "create" => c.id = c.req.calendar
    /\ c.pc \in {"lookup", "find", "fill"} => c.req.op # "create"
    /\ c.pc = "create" => c.cal = NULL
    /\ c.pc \in Ops => c.req.op = c.pc
    /\ c.pc \in AfterLookup => c.cal \in CalendarRow
    /\ c.pid # 0 => c.req.op \in {"add", "mine"}
    /\ c.lost # 0 => DiskMayFail /\ c.req.op = "add"
    /\ c.pc = "mine_list" => c.req.op = "mine" /\ c.pid \in RowIds
    /\ c.pc = "day_list" => c.req.op = "day"
    /\ c.pc = "heatmap_count" => c.req.op = "heatmap"
    /\ c.pc = "store" =>
          /\ c.req.op = "add"
          /\ c.pid \in RowIds
          /\ c.todo # {} /\ c.todo \subseteq c.req.dates
          /\ \A d \in c.todo : is_date_in_month(d, c.cal.config.month)

CallsInShape == \A t \in Threads : Shape(call[t])

CacheOK == /\ DOMAIN calendar_cache_ \subseteq RowIds
           /\ calendar_cache_ \in [DOMAIN calendar_cache_ -> CalendarRow]

\* What a step of thread t leaves behind: the calls of the others, and a call of
\* its own that is typed and in shape.
OwnStep(t) == /\ SameBut(t, DOMAIN Idle)
              /\ CallOK(call'[t])
              /\ Shape(call'[t])

\* The fields of the requests.
LEMMA RequestFacts ==
    ASSUME NEW r \in Request
    PROVE  /\ r \in Request /\ r # NULL
           /\ r.op \in Ops
           /\ r.op = "create" => r \in CreateRequest
           /\ r.op = "add" => r \in AddRequest
           /\ r.op = "day" => r \in DayRequest
           /\ r.op = "heatmap" => r \in HeatmapRequest
           /\ r.op = "state" => r \in StateRequest
           /\ r.op = "set_message" => r \in MessageRequest
           /\ r.op \in {"mine", "clear", "delete"} => r \in UserRequest
           /\ r.op # "create" => r.calendar \in RowIds
<1>1. r \in Request /\ r # NULL
    BY ServiceAssumption
<1>2. CASE r \in CreateRequest
    BY <1>1, <1>2 DEF CreateRequest, Ops
<1>3. CASE r \in AddRequest
    BY <1>1, <1>3 DEF AddRequest, Ops
<1>4. CASE r \in DayRequest
    BY <1>1, <1>4 DEF DayRequest, Ops
<1>5. CASE r \in HeatmapRequest
    BY <1>1, <1>5 DEF HeatmapRequest, Ops
<1>6. CASE r \in StateRequest
    BY <1>1, <1>6 DEF StateRequest, Ops
<1>7. CASE r \in MessageRequest
    BY <1>1, <1>7 DEF MessageRequest, Ops
<1>8. CASE r \in UserRequest
    BY <1>1, <1>8 DEF UserRequest, Ops
<1>9. CASE r \in ViewRequest
    BY <1>1, <1>9 DEF ViewRequest, Ops
<1> QED
    BY <1>1, <1>2, <1>3, <1>4, <1>5, <1>6, <1>7, <1>8, <1>9 DEF Request

\* What is known of the call of a thread that executes one.
LEMMA CallFacts ==
    ASSUME TypeOK, CallsInShape, NEW t \in Threads
    PROVE  /\ CallOK(call[t]) /\ Shape(call[t])
           /\ call[t].pc # "idle" =>
                /\ call[t].req \in Request
                /\ call[t].req.op # "create" =>
                        call[t].id = call[t].req.calendar /\ call[t].id \in RowIds
<1>1. CallOK(call[t]) /\ Shape(call[t])
    BY DEF TypeOK, CallsInShape
<1> QED
    BY <1>1, RequestFacts DEF Shape

LEMMA AnswerStep ==
    ASSUME TypeOK, CallsInShape, NEW t \in Threads, call[t].pc # "idle",
           NEW code \in Codes, NEW value, Answer(t, code, value)
    PROVE  OwnStep(t)
<1>1. /\ SameBut(t, {"pc", "code", "value"})
      /\ call'[t].pc = "done" /\ call'[t].code = code
    BY AnswerFacts
<1>2. /\ call'[t].req = call[t].req /\ call'[t].id = call[t].id
      /\ call'[t].cal = call[t].cal /\ call'[t].pid = call[t].pid
      /\ call'[t].todo = call[t].todo /\ call'[t].got = call[t].got
      /\ call'[t].lost = call[t].lost
    BY <1>1, IdleFields DEF SameBut
<1>3. CallOK(call[t]) /\ Shape(call[t])
    BY CallFacts
<1>4. CallOK(call'[t])
    BY <1>1, <1>2, <1>3 DEF CallOK, Steps, SameBut
<1>5. Shape(call'[t])
    BY <1>1, <1>2, <1>3 DEF Shape, Ops, AfterLookup
<1>6. SameBut(t, DOMAIN Idle)
    BY <1>1 DEF SameBut
<1> QED
    BY <1>4, <1>5, <1>6 DEF OwnStep

LEMMA GotoStep ==
    ASSUME TypeOK, CallsInShape, NEW t \in Threads, call[t].pc # "idle",
           NEW step \in Steps, Goto(t, step),
           \/ step = "invalidate"
           \/ step = "find" /\ call[t].req.op # "create"
           \/ step = call[t].req.op /\ step # "create" /\ call[t].cal \in CalendarRow
    PROVE  OwnStep(t)
<1>1. SameBut(t, {"pc"}) /\ call'[t].pc = step
    BY GotoFacts
<1>2. /\ call'[t].req = call[t].req /\ call'[t].id = call[t].id
      /\ call'[t].cal = call[t].cal /\ call'[t].pid = call[t].pid
      /\ call'[t].todo = call[t].todo /\ call'[t].got = call[t].got
      /\ call'[t].code = call[t].code /\ call'[t].lost = call[t].lost
    BY <1>1, IdleFields DEF SameBut
<1>3. CallOK(call[t]) /\ Shape(call[t])
    BY CallFacts
<1>4. CallOK(call'[t])
    BY <1>1, <1>2, <1>3 DEF CallOK, SameBut
<1>5. call[t].req.op \in Ops
    BY <1>3, RequestFacts DEF Shape
<1>6. Shape(call'[t])
    BY <1>1, <1>2, <1>3, <1>5 DEF Shape, Ops, AfterLookup
<1>7. SameBut(t, DOMAIN Idle)
    BY <1>1 DEF SameBut
<1> QED
    BY <1>4, <1>6, <1>7 DEF OwnStep

-----------------------------------------------------------------------------
(* The steps that write nothing but their own call and the cache.          *)

\* A call that starts, whoever makes it.
LEMMA StartedFacts ==
    ASSUME NEW r \in Request
    PROVE  CallOK(Started(r)) /\ Shape(Started(r))
<1>1. r.op # "create" => r.calendar \in RowIds
    BY RequestFacts
<1>2. /\ DOMAIN Started(r) = DOMAIN Idle
      /\ Started(r).req = r
      /\ Started(r).pc = IF r.op = "create" THEN "create" ELSE "lookup"
      /\ Started(r).id = IF r.op = "create" THEN 0 ELSE r.calendar
      /\ Started(r).cal = NULL /\ Started(r).pid = 0 /\ Started(r).todo = {}
      /\ Started(r).got = {} /\ Started(r).code = "ok" /\ Started(r).lost = 0
    BY DEF Started, Idle
<1>3. CallOK(Started(r))
    BY <1>1, <1>2, RepositoryAssumption DEF CallOK, Steps, Optional, Codes, RowIds
<1>4. Shape(Started(r))
    BY <1>2 DEF Shape, Ops, AfterLookup
<1> QED
    BY <1>3, <1>4

LEMMA BeginStep ==
    ASSUME TypeOK, NEW t \in Threads, NEW r \in Requests, Begin(t, r)
    PROVE  OwnStep(t) /\ UNCHANGED <<db, calendar_cache_>> /\ writes' \in 0..MaxWrites
<1>1. DOMAIN call = Threads /\ call' = [call EXCEPT ![t] = Started(r)]
    BY DEF TypeOK, Begin
<1>2. call'[t] = Started(r) /\ SameBut(t, DOMAIN Idle)
    BY <1>1 DEF SameBut, Started, Idle
<1>3. CallOK(Started(r)) /\ Shape(Started(r))
    BY ServiceAssumption, StartedFacts
<1>4. writes' \in 0..MaxWrites
    BY ServiceAssumption DEF Begin, TypeOK
<1> QED
    BY <1>2, <1>3, <1>4 DEF OwnStep, Begin

LEMMA ReturnStep ==
    ASSUME TypeOK, NEW t \in Threads, Return(t)
    PROVE  OwnStep(t) /\ Quiet
<1>1. call' = [call EXCEPT ![t] = Idle] /\ DOMAIN call = Threads
    BY DEF Return, TypeOK
<1>2. call'[t] = Idle /\ SameBut(t, DOMAIN Idle)
    BY <1>1 DEF SameBut
<1>3. CallOK(Idle) /\ Shape(Idle)
    BY RepositoryAssumption
    DEF CallOK, Shape, Idle, Steps, Optional, Codes, Ops, AfterLookup
<1> QED
    BY <1>2, <1>3 DEF OwnStep, Return

LEMMA LookupStep ==
    ASSUME TypeOK, CallsInShape, NEW t \in Threads, Lookup(t)
    PROVE  OwnStep(t) /\ UNCHANGED <<db, writes>> /\ CacheOK'
<1>1. /\ DOMAIN call = Threads /\ DOMAIN call[t] = DOMAIN Idle
      /\ CallOK(call[t]) /\ Shape(call[t])
      /\ CacheOK
    BY CallFacts DEF TypeOK, CallOK, CacheOK
<1>2. call[t].pc # "idle" /\ call[t].pc # "create" /\ call[t].req.op \in Ops \ {"create"}
    BY <1>1, RequestFacts DEF Lookup, CacheHit, CacheMiss, FindCalendar, FillCache, Shape
<1>3. call[t].req.op \in Steps \ {"store", "mine_list", "idle"}
    BY <1>2 DEF Ops, Steps
<1>4. ASSUME NEW row \in CalendarRow, NEW step,
             step \in {call[t].req.op, "fill"},
             call' = [call EXCEPT ![t].cal = row, ![t].pc = step]
      PROVE  OwnStep(t)
  <2>1. /\ DOMAIN call' = DOMAIN call
        /\ \A u \in Threads \ {t} : call'[u] = call[u]
        /\ call'[t] = [call[t] EXCEPT !.cal = row, !.pc = step]
      BY <1>1, <1>4
  <2>2. /\ DOMAIN call'[t] = DOMAIN Idle
        /\ call'[t].pc = step /\ call'[t].req = call[t].req
        /\ call'[t].id = call[t].id /\ call'[t].cal = row
        /\ call'[t].pid = call[t].pid /\ call'[t].todo = call[t].todo
        /\ call'[t].got = call[t].got /\ call'[t].code = call[t].code
        /\ call'[t].lost = call[t].lost
      BY <1>1, <2>1, IdleFields
  <2>3. CallOK(call'[t])
      BY <1>1, <1>3, <1>4, <2>2 DEF CallOK, Optional, Steps
  <2>4. Shape(call'[t])
      BY <1>1, <1>2, <1>3, <1>4, <2>2 DEF Shape, Ops, AfterLookup
  <2> QED
      BY <2>1, <2>2, <2>3, <2>4 DEF OwnStep, SameBut
<1>5. CASE CacheHit(t)
  <2>1. calendar_cache_[call[t].id] \in CalendarRow
      BY <1>1, <1>5 DEF CacheHit, CacheOK
  <2> QED
      BY <1>1, <1>4, <1>5, <2>1 DEF CacheHit, Quiet, CacheOK
<1>6. CASE CacheMiss(t)
    BY <1>1, <1>2, <1>6, GotoStep DEF CacheMiss, Quiet, CacheOK, Steps
<1>7. CASE FindCalendar(t)
  <2>1. CASE call[t].id \in DOMAIN calendars /\
             call' = [call EXCEPT ![t].cal = calendars[call[t].id], ![t].pc = "fill"]
    <3>1. calendars[call[t].id] \in CalendarRow
        BY <2>1 DEF TypeOK, RepoTypeOK
    <3> QED
        BY <1>1, <1>4, <1>7, <2>1, <3>1 DEF FindCalendar, Quiet, CacheOK
  <2>2. CASE Answer(t, "calendar_not_found", NULL)
      BY <1>1, <1>2, <1>7, <2>2, AnswerStep DEF FindCalendar, Quiet, CacheOK, Codes
  <2> QED
      BY <1>7, <2>1, <2>2 DEF FindCalendar
<1>8. CASE FillCache(t)
  <2>1. call[t].id \in RowIds /\ call[t].cal \in CalendarRow
      BY <1>1, <1>2, <1>8, CallFacts DEF FillCache, Shape, AfterLookup
  <2>2. CacheOK'
    <3>1. calendar_cache_' = Put(calendar_cache_, call[t].id, call[t].cal)
        BY <1>8 DEF FillCache
    <3>2. DOMAIN calendar_cache_' = DOMAIN calendar_cache_ \cup {call[t].id}
        BY <3>1 DEF Put
    <3>3. calendar_cache_' \in [DOMAIN calendar_cache_' -> CalendarRow]
        BY <1>1, <2>1, <3>1, PutType DEF CacheOK
    <3> QED
        BY <1>1, <2>1, <3>2, <3>3 DEF CacheOK
  <2> QED
      BY <1>2, <1>3, <1>8, <2>1, <2>2, GotoStep DEF FillCache
<1> QED
    BY <1>5, <1>6, <1>7, <1>8 DEF Lookup

\* A list delivers rows that it finds.
LEMMA DeliveredFacts ==
    ASSUME NEW rows, NEW got \in Delivered(rows)
    PROVE  got \subseteq rows
BY DEF Delivered

LEMMA ReadingStep ==
    ASSUME TypeOK, CallsInShape, NEW t \in Threads, Reading(t)
    PROVE  OwnStep(t) /\ Quiet
<1>1. /\ DOMAIN call = Threads /\ DOMAIN call[t] = DOMAIN Idle
      /\ CallOK(call[t]) /\ Shape(call[t])
    BY CallFacts DEF TypeOK, CallOK
<1>2. call[t].pc # "idle" /\ Quiet
    BY DEF Reading, ViewCalendar, CalendarMessage, FindMine, MySchedule,
           FindAttendees, DayParticipants, FindWeek, WeeklyHeatmap, PublicParticipants
<1>3. \A code \in Codes : \A value : Answer(t, code, value) => OwnStep(t)
    BY <1>2, AnswerStep
<1>4. "ok" \in Codes /\ "invalid_input" \in Codes /\ "permission_denied" \in Codes
    BY DEF Codes
<1>5. \A i \in DOMAIN intervals : intervals[i].participant \in RowIds
    BY DEF TypeOK, RepoTypeOK, IntervalRow
<1>6. ASSUME NEW got \in SUBSET RowIds, NEW step,
             call' = [call EXCEPT ![t].pc = step, ![t].got = got],
             \/ call[t].pc = "day" /\ step = "day_list"
             \/ call[t].pc = "heatmap" /\ step = "heatmap_count"
      PROVE  OwnStep(t)
  <2>1. /\ DOMAIN call' = DOMAIN call
        /\ \A u \in Threads \ {t} : call'[u] = call[u]
        /\ call'[t] = [call[t] EXCEPT !.pc = step, !.got = got]
      BY <1>1, <1>6
  <2>2. /\ DOMAIN call'[t] = DOMAIN Idle
        /\ call'[t].pc = step /\ call'[t].req = call[t].req
        /\ call'[t].id = call[t].id /\ call'[t].cal = call[t].cal
        /\ call'[t].pid = call[t].pid /\ call'[t].todo = call[t].todo
        /\ call'[t].got = got /\ call'[t].code = call[t].code
        /\ call'[t].lost = call[t].lost
      BY <1>1, <2>1, IdleFields
  <2>3. CallOK(call'[t])
      BY <1>1, <1>6, <2>2 DEF CallOK, Steps
  <2>4. Shape(call'[t])
      BY <1>1, <1>6, <2>2 DEF Shape, Ops, AfterLookup
  <2> QED
      BY <2>1, <2>2, <2>3, <2>4 DEF OwnStep, SameBut
<1>7. ASSUME NEW p \in RowIds, call[t].pc = "mine",
             call' = [call EXCEPT ![t].pid = p, ![t].pc = "mine_list"]
      PROVE  OwnStep(t)
  <2>1. /\ DOMAIN call' = DOMAIN call
        /\ \A u \in Threads \ {t} : call'[u] = call[u]
        /\ call'[t] = [call[t] EXCEPT !.pid = p, !.pc = "mine_list"]
      BY <1>1, <1>7
  <2>2. /\ DOMAIN call'[t] = DOMAIN Idle
        /\ call'[t].pc = "mine_list" /\ call'[t].req = call[t].req
        /\ call'[t].id = call[t].id /\ call'[t].cal = call[t].cal
        /\ call'[t].pid = p /\ call'[t].todo = call[t].todo
        /\ call'[t].got = call[t].got /\ call'[t].code = call[t].code
        /\ call'[t].lost = call[t].lost
      BY <1>1, <2>1, IdleFields
  <2>3. CallOK(call'[t])
      BY <1>1, <1>7, <2>2, RepositoryAssumption DEF CallOK, Steps, RowIds
  <2>4. Shape(call'[t])
      BY <1>1, <1>7, <2>2 DEF Shape, Ops, AfterLookup
  <2> QED
      BY <2>1, <2>2, <2>3, <2>4 DEF OwnStep, SameBut
<1>8. CASE ViewCalendar(t) \/ CalendarMessage(t)
    BY <1>2, <1>3, <1>4, <1>8 DEF ViewCalendar, CalendarMessage
<1>9. CASE MySchedule(t) \/ DayParticipants(t)
    BY <1>2, <1>3, <1>4, <1>9 DEF MySchedule, DayParticipants
<1>10. CASE WeeklyHeatmap(t) \/ PublicParticipants(t)
    BY <1>2, <1>3, <1>4, <1>10 DEF WeeklyHeatmap, PublicParticipants
<1>11. CASE FindMine(t)
  <2>1. find_participant(call[t].id, call[t].req.user) \subseteq RowIds
      BY RepositoryAssumption
      DEF find_participant, TypeOK, RepoTypeOK, RowIds, Tables
  <2> QED
      BY <1>2, <1>3, <1>4, <1>7, <1>11, <2>1 DEF FindMine
<1>12. ASSUME NEW cid, NEW first, NEW last,
              NEW got \in Delivered(list_intervals(cid, first, last))
       PROVE  {intervals[i].participant : i \in got} \in SUBSET RowIds
  <2>1. got \subseteq DOMAIN intervals
      BY DeliveredFacts DEF list_intervals
  <2> QED
      BY <1>5, <2>1
<1>13. CASE FindAttendees(t)
  <2>1. call[t].pc = "day"
      BY <1>13 DEF FindAttendees
  <2>2. \/ \E code \in Codes : Answer(t, code, NULL)
        \/ \E got \in Delivered(list_intervals(call[t].id, call[t].req.date,
                                               call[t].req.date)) :
              call' = [call EXCEPT ![t].pc = "day_list",
                            ![t].got = {intervals[i].participant : i \in got}]
      BY <1>4, <1>13 DEF FindAttendees
  <2> QED
      BY <1>2, <1>3, <1>6, <1>12, <2>1, <2>2
<1>14. CASE FindWeek(t)
  <2>1. call[t].pc = "heatmap"
      BY <1>14 DEF FindWeek
  <2>2. \/ \E code \in Codes : Answer(t, code, NULL)
        \/ \E first, last :
              \E got \in Delivered(list_intervals(call[t].id, first, last)) :
                 call' = [call EXCEPT ![t].pc = "heatmap_count",
                            ![t].got = {intervals[i].participant : i \in got}]
      BY <1>4, <1>14 DEF FindWeek
  <2> QED
      BY <1>2, <1>3, <1>6, <1>12, <2>1, <2>2
<1> QED
    BY <1>8, <1>9, <1>10, <1>11, <1>13, <1>14 DEF Reading

-----------------------------------------------------------------------------
(* The steps that write: each is one statement of the repository, on behalf *)
(* of a call that stays typed and in shape.                                 *)

WriteStep(t) == OwnStep(t) /\ [RepoStep]_db /\ UNCHANGED writes /\ CacheOK'

\* A statement that fails, a check that refuses: the call ends, nothing changes.
LEMMA RefuseStep ==
    ASSUME TypeOK, CallsInShape, NEW t \in Threads, call[t].pc # "idle",
           NEW code \in Codes, Answer(t, code, NULL), UNCHANGED db, DbOnly
    PROVE  WriteStep(t)
BY AnswerStep DEF WriteStep, TypeOK, CacheOK, DbOnly

\* A statement that succeeds, and the call that moves on to its invalidation.
LEMMA CommitStep ==
    ASSUME TypeOK, CallsInShape, NEW t \in Threads, call[t].pc # "idle",
           RepoStep, Goto(t, "invalidate"), DbOnly
    PROVE  WriteStep(t)
BY GotoStep DEF WriteStep, TypeOK, CacheOK, DbOnly, Steps

LEMMA CreateCalendarStep ==
    ASSUME TypeOK, CallsInShape, NEW t \in Threads, CreateCalendar(t)
    PROVE  WriteStep(t)
<1> DEFINE r == call[t].req
<1>1. /\ DOMAIN call = Threads /\ DOMAIN call[t] = DOMAIN Idle
      /\ CallOK(call[t]) /\ Shape(call[t])
      /\ call[t].pc = "create"
    BY CallFacts DEF TypeOK, CallOK, CreateCalendar
<1>2. r \in CreateRequest /\ r \in Request /\ r.op = "create"
    BY <1>1, RequestFacts DEF Shape, Ops
<1>3. Row(r) \in NewCalendar /\ Row(r).guild = GuildOf[Row(r).channel]
    BY <1>2 DEF Row, NewCalendar, CreateRequest, Guilds
<1>4. CASE \E code \in Codes : Answer(t, code, NULL) /\ UNCHANGED db
    BY <1>1, <1>4, RefuseStep DEF CreateCalendar
<1>5. CASE CreateCalendarFails(Row(r)) /\ Answer(t, "database_error", NULL)
  <2>1. RepoStep
      BY <1>3, <1>5 DEF RepoStep, CalendarStep
  <2> QED
      BY <1>1, <1>5, <2>1, AnswerStep
      DEF CreateCalendar, WriteStep, TypeOK, CacheOK, DbOnly, Codes
<1>6. CASE /\ create_calendar(Row(r))
           /\ call' = [call EXCEPT ![t].id = NextId("calendars"),
                                   ![t].pc = "invalidate"]
  <2>1. RepoStep
      BY <1>3, <1>6 DEF RepoStep, CalendarStep
  <2>2. NextId("calendars") \in RowIds
      BY <1>6, DrawFacts DEF create_calendar, TypeOK, RepoTypeOK, Tables
  <2>3. /\ DOMAIN call' = DOMAIN call
        /\ \A u \in Threads \ {t} : call'[u] = call[u]
        /\ call'[t] = [call[t] EXCEPT !.id = NextId("calendars"), !.pc = "invalidate"]
      BY <1>1, <1>6
  <2>4. /\ DOMAIN call'[t] = DOMAIN Idle
        /\ call'[t].pc = "invalidate" /\ call'[t].req = call[t].req
        /\ call'[t].id = NextId("calendars") /\ call'[t].cal = call[t].cal
        /\ call'[t].pid = call[t].pid /\ call'[t].todo = call[t].todo
        /\ call'[t].got = call[t].got /\ call'[t].code = call[t].code
        /\ call'[t].lost = call[t].lost
      BY <1>1, <2>3, IdleFields
  <2>5. CallOK(call'[t])
      BY <1>1, <2>2, <2>4, RepositoryAssumption DEF CallOK, Steps, RowIds
  <2>6. Shape(call'[t])
      BY <1>1, <1>2, <2>4 DEF Shape, Ops, AfterLookup
  <2>7. CacheOK' /\ UNCHANGED writes
      BY DEF CreateCalendar, DbOnly, TypeOK, CacheOK
  <2> QED
      BY <2>1, <2>3, <2>4, <2>5, <2>6, <2>7 DEF WriteStep, OwnStep, SameBut
<1> QED
    BY <1>4, <1>5, <1>6 DEF CreateCalendar, Codes

\* The member that add_availability upserts is a row, and so is its id.
LEMMA MemberFacts ==
    ASSUME TypeOK, CallsInShape, NEW t \in Threads, call[t].pc = "add"
    PROVE  /\ Member(t) \in ParticipantRow
           /\ call[t].req \in AddRequest
           /\ CanUpsert(Member(t)) => UpsertId(Member(t)) \in RowIds
<1>1. /\ call[t].req \in AddRequest /\ call[t].id = call[t].req.calendar
      /\ call[t].id \in RowIds
    BY CallFacts, RequestFacts DEF Shape, Ops
<1>2. Member(t) \in ParticipantRow
    BY <1>1 DEF Member, ParticipantRow, AddRequest
<1>3. ASSUME CanUpsert(Member(t)) PROVE UpsertId(Member(t)) \in RowIds
  <2>1. DOMAIN participants \subseteq RowIds
      BY RepositoryAssumption DEF TypeOK, RepoTypeOK, RowIds, Tables
  <2>2. CASE Matching(Member(t)) # {}
      BY <2>1, <2>2, UpsertIdFacts DEF Matching
  <2>3. CASE Matching(Member(t)) = {}
    <3>1. CanDraw("participants") /\ seq["participants"] \in 0..MaxRowId
        BY <1>3, <2>3 DEF CanUpsert, TypeOK, RepoTypeOK, Tables
    <3>2. NextId("participants") \in RowIds
        BY <3>1, RepositoryAssumption DEF CanDraw, NextId, RowIds
    <3> QED
        BY <2>3, <3>2, UpsertIdFacts
  <2> QED
      BY <2>2, <2>3
<1> QED
    BY <1>1, <1>2, <1>3

\* The errors of the checks, which are not those of the database.
OwnCodes == Codes \ {"ok", "alias_already_used"}

\* Five checks, each with a code; the last one is about the dates.
LEMMA ChecksFacts ==
    ASSUME NEW c, NEW r
    PROVE  /\ DOMAIN AddChecks(c, r) = 1..5
           /\ \A k \in 1..5 : AddChecks(c, r)[k].code \in OwnCodes
           /\ AddChecks(c, r)[1].holds <=> c.state = "open"
           /\ AddChecks(c, r)[5].holds <=>
                 /\ r.dates # {}
                 /\ \A d \in r.dates : is_date_in_month(d, c.config.month)
<1>1. DOMAIN AddChecks(c, r) = 1..5
    BY DEF AddChecks
<1>2. /\ AddChecks(c, r)[1].code = "calendar_closed"
      /\ AddChecks(c, r)[2].code = "permission_denied"
      /\ AddChecks(c, r)[3].code = "invalid_input"
      /\ AddChecks(c, r)[4].code = "invalid_time_range"
      /\ AddChecks(c, r)[5].code = "invalid_input"
    BY DEF AddChecks
<1>3. \A k \in 1..5 : AddChecks(c, r)[k].code \in OwnCodes
  <2>1. \A k \in 1..5 : k = 1 \/ k = 2 \/ k = 3 \/ k = 4 \/ k = 5
      OBVIOUS
  <2> QED
      BY <1>2, <2>1 DEF Codes, OwnCodes
<1>4. /\ AddChecks(c, r)[1].holds <=> c.state = "open"
      /\ AddChecks(c, r)[5].holds <=>
            /\ r.dates # {}
            /\ \A d \in r.dates : is_date_in_month(d, c.config.month)
    BY Zenon DEF AddChecks
<1> QED
    BY <1>1, <1>3, <1>4

LEMMA ErrorFacts ==
    ASSUME NEW c, NEW r, ~AddAccepted(c, r)
    PROVE  AddError(c, r) \in OwnCodes
<1> DEFINE checks == AddChecks(c, r)
           fails(k) == ~checks[k].holds /\ \A j \in 1..(k - 1) : checks[j].holds
<1>1. DOMAIN checks = 1..5 /\ \A k \in 1..5 : checks[k].code \in OwnCodes
    BY ChecksFacts
<1>2. \E k \in 1..5 : ~checks[k].holds
    BY <1>1 DEF AddAccepted
<1> HIDE DEF checks
<1>3. \E k \in 1..5 : fails(k)
    BY <1>2
<1>4. (CHOOSE k \in DOMAIN checks : fails(k)) \in 1..5
    BY <1>1, <1>3
<1> QED
    BY <1>1, <1>4 DEF AddError, checks

\* What the upsert of add_availability does, and the id it returns if no such
\* member is stored then.
Upserts(t) == \/ upsert_participant(Member(t))
              \/ DiskMayFail /\ UpsertUndone(Member(t))

LostId(t) == IF UpsertId(Member(t)) \in DOMAIN participants' THEN 0
             ELSE UpsertId(Member(t))

LEMMA UpsertCases ==
    ASSUME NEW t \in Threads, Upserts(t)
    PROVE  /\ CanUpsert(Member(t))
           /\ \/ upsert_participant(Member(t)) /\ LostId(t) = 0
              \/ DiskMayFail /\ UNCHANGED db
           /\ LostId(t) # 0 => DiskMayFail
           /\ LostId(t) \in {0, UpsertId(Member(t))}
<1>1. ASSUME upsert_participant(Member(t)) PROVE LostId(t) = 0
    BY <1>1 DEF upsert_participant, Put, LostId
<1>2. CanUpsert(Member(t))
    BY DEF Upserts, upsert_participant, UpsertUndone
<1>3. LostId(t) \in {0, UpsertId(Member(t))}
    BY DEF LostId
<1> QED
    BY <1>1, <1>2, <1>3 DEF Upserts, UpsertUndone

LEMMA AddAvailabilityStep ==
    ASSUME TypeOK, CallsInShape, NEW t \in Threads, AddAvailability(t)
    PROVE  WriteStep(t)
<1>1. /\ DOMAIN call = Threads /\ DOMAIN call[t] = DOMAIN Idle
      /\ CallOK(call[t]) /\ Shape(call[t])
      /\ call[t].pc = "add"
    BY CallFacts DEF TypeOK, CallOK, AddAvailability
<1>2. call[t].req \in AddRequest /\ Member(t) \in ParticipantRow
    BY <1>1, MemberFacts
<1>3. CASE \E code \in Codes : Answer(t, code, NULL) /\ UNCHANGED db
    BY <1>1, <1>3, RefuseStep DEF AddAvailability
<1>4. CASE /\ AddAccepted(call[t].cal, call[t].req)
           /\ Upserts(t)
           /\ call' = [call EXCEPT ![t].pid = UpsertId(Member(t)),
                                   ![t].todo = call[t].req.dates,
                                   ![t].pc = "store",
                                   ![t].lost = LostId(t)]
  <2>1. /\ call[t].req.dates # {}
        /\ \A d \in call[t].req.dates : is_date_in_month(d, call[t].cal.config.month)
      BY <1>4, ChecksFacts DEF AddAccepted
  <2>2. /\ UpsertId(Member(t)) \in RowIds /\ call[t].req.dates \subseteq Dates
        /\ LostId(t) \in {0, UpsertId(Member(t))}
        /\ LostId(t) # 0 => DiskMayFail
      BY <1>1, <1>2, <1>4, UpsertCases, MemberFacts DEF AddRequest
  <2>3. /\ DOMAIN call' = DOMAIN call
        /\ \A u \in Threads \ {t} : call'[u] = call[u]
        /\ call'[t] = [call[t] EXCEPT !.pid = UpsertId(Member(t)),
                                      !.todo = call[t].req.dates, !.pc = "store",
                                      !.lost = LostId(t)]
      BY <1>1, <1>4
  <2>4. /\ DOMAIN call'[t] = DOMAIN Idle
        /\ call'[t].pc = "store" /\ call'[t].req = call[t].req
        /\ call'[t].id = call[t].id /\ call'[t].cal = call[t].cal
        /\ call'[t].pid = UpsertId(Member(t)) /\ call'[t].todo = call[t].req.dates
        /\ call'[t].got = call[t].got /\ call'[t].code = call[t].code
        /\ call'[t].lost = LostId(t)
      BY <1>1, <2>3, IdleFields
  <2>5. CallOK(call'[t])
      BY <1>1, <2>2, <2>4, RepositoryAssumption DEF CallOK, Steps, RowIds
  <2>6. Shape(call'[t])
      BY <1>1, <2>1, <2>2, <2>4 DEF Shape, Ops, AfterLookup
  <2>7. [RepoStep]_db
      BY <1>2, <1>4, UpsertCases DEF RepoStep, ParticipantStep
  <2>8. CacheOK' /\ UNCHANGED writes
      BY DEF AddAvailability, DbOnly, TypeOK, CacheOK
  <2> QED
      BY <2>3, <2>4, <2>5, <2>6, <2>7, <2>8 DEF WriteStep, OwnStep, SameBut
<1> QED
    BY <1>3, <1>4, ErrorFacts DEF AddAvailability, Upserts, LostId, Codes, OwnCodes

\* The row that the next date of a call becomes.
LEMMA IntervalFacts ==
    ASSUME TypeOK, CallsInShape, NEW t \in Threads, call[t].pc = "store"
    PROVE  /\ call[t].req \in AddRequest
           /\ NextDate(call[t].todo) \in call[t].todo
           /\ Interval(t) \in IntervalRow
<1>1. /\ CallOK(call[t]) /\ Shape(call[t])
      /\ call[t].req \in AddRequest /\ call[t].id \in RowIds
    BY CallFacts, RequestFacts DEF Shape
<1>2. NextDate(call[t].todo) \in call[t].todo
  <2>1. call[t].cal \in CalendarRow
      BY <1>1 DEF Shape, AfterLookup
  <2>2. call[t].cal.config.month.year \in Int
    <3>1. call[t].cal.config \in CalendarConfig
        BY <2>1, DomainAssumption DEF CalendarRow
    <3> QED
        BY <3>1 DEF CalendarConfig
  <2>3. call[t].todo \in SUBSET Date
      BY <1>1, DomainAssumption DEF CallOK
  <2> QED
      BY <1>1, <2>2, <2>3, NextDateFacts DEF Shape
<1>3. Interval(t) \in IntervalRow
  <2>1. NextDate(call[t].todo) \in Dates
      BY <1>1, <1>2 DEF CallOK
  <2>2. call[t].req.span \in Spans /\ call[t].pid \in RowIds
      BY <1>1 DEF AddRequest, Shape
  <2> QED
      BY <1>1, <2>1, <2>2 DEF Interval, IntervalRow
<1> QED
    BY <1>1, <1>2, <1>3

LEMMA StoreDateStep ==
    ASSUME TypeOK, CallsInShape, NEW t \in Threads, StoreDate(t)
    PROVE  WriteStep(t)
<1> DEFINE left == call[t].todo \ {NextDate(call[t].todo)}
           step == IF left = {} THEN "invalidate" ELSE "store"
<1>1. /\ DOMAIN call = Threads /\ DOMAIN call[t] = DOMAIN Idle
      /\ CallOK(call[t]) /\ Shape(call[t])
      /\ call[t].pc = "store"
    BY CallFacts DEF TypeOK, CallOK, StoreDate
<1>2. CASE Answer(t, "database_error", NULL) /\ UNCHANGED db
    BY <1>1, <1>2, RefuseStep DEF StoreDate, Codes
<1>3. CASE /\ add_interval(Interval(t))
           /\ call' = [call EXCEPT ![t].todo = left, ![t].pc = step]
  <2>1. RepoStep
      BY <1>1, <1>3, IntervalFacts DEF RepoStep, IntervalStep
  <2>2. left \subseteq call[t].todo
      OBVIOUS
  <2>3. step \in {"invalidate", "store"} /\ (step = "store" => left # {})
      OBVIOUS
  <2> HIDE DEF left, step
  <2>4. /\ DOMAIN call' = DOMAIN call
        /\ \A u \in Threads \ {t} : call'[u] = call[u]
        /\ call'[t] = [call[t] EXCEPT !.todo = left, !.pc = step]
      BY <1>1, <1>3
  <2>5. /\ DOMAIN call'[t] = DOMAIN Idle
        /\ call'[t].pc = step /\ call'[t].req = call[t].req
        /\ call'[t].id = call[t].id /\ call'[t].cal = call[t].cal
        /\ call'[t].pid = call[t].pid /\ call'[t].todo = left
        /\ call'[t].got = call[t].got /\ call'[t].code = call[t].code
        /\ call'[t].lost = call[t].lost
      BY <1>1, <2>4, IdleFields
  <2>6. CallOK(call'[t])
      BY <1>1, <2>2, <2>3, <2>5 DEF CallOK, Steps
  <2>7. Shape(call'[t])
      BY <1>1, <2>2, <2>3, <2>5 DEF Shape, Ops, AfterLookup
  <2>8. CacheOK' /\ UNCHANGED writes
      BY DEF StoreDate, DbOnly, TypeOK, CacheOK
  <2> QED
      BY <2>1, <2>4, <2>5, <2>6, <2>7, <2>8 DEF WriteStep, OwnStep, SameBut
<1> QED
    BY <1>2, <1>3 DEF StoreDate

LEMMA WritingStep ==
    ASSUME TypeOK, CallsInShape, NEW t \in Threads, Writing(t)
    PROVE  WriteStep(t)
<1>1. /\ CallOK(call[t]) /\ Shape(call[t])
      /\ call[t].pc # "idle" => /\ call[t].req \in Request
                                /\ call[t].req.op # "create" => call[t].id \in RowIds
    BY CallFacts
<1>2. CASE ClearMyData(t)
  <2>1. /\ call[t].pc = "clear" /\ call[t].id \in RowIds
        /\ call[t].req.user \in Users
      BY <1>1, <1>2, RequestFacts DEF ClearMyData, Shape, Ops, UserRequest
  <2>2. clear_participant(call[t].id, call[t].req.user) => RepoStep
      BY <2>1 DEF RepoStep, ParticipantStep
  <2> QED
      BY <1>2, <2>1, <2>2, RefuseStep, CommitStep DEF ClearMyData, Write, Codes
<1>3. CASE ChangeState(t)
  <2>1. /\ call[t].pc = "state" /\ call[t].id \in RowIds
        /\ call[t].req.state \in CalendarStates
      BY <1>1, <1>3, RequestFacts DEF ChangeState, Shape, Ops, StateRequest
  <2>2. update_calendar_state(call[t].id, call[t].req.state) => RepoStep
      BY <2>1 DEF RepoStep, CalendarStep
  <2> QED
      BY <1>3, <2>1, <2>2, RefuseStep, CommitStep DEF ChangeState, Write, Codes
<1>4. CASE DeleteCalendar(t)
  <2>1. call[t].pc = "delete" /\ call[t].id \in RowIds
      BY <1>1, <1>4, RequestFacts DEF DeleteCalendar, Shape, Ops
  <2>2. delete_calendar(call[t].id) => RepoStep
      BY <2>1 DEF RepoStep, CalendarStep
  <2> QED
      BY <1>4, <2>1, <2>2, RefuseStep, CommitStep DEF DeleteCalendar, Write, Codes
<1>5. CASE SetCalendarMessage(t)
  <2>1. /\ call[t].pc = "set_message" /\ call[t].id \in RowIds
        /\ call[t].req.message \in MessageRow
      BY <1>1, <1>5, RequestFacts DEF SetCalendarMessage, Shape, Ops, MessageRequest
  <2>2. CASE /\ set_calendar_message(call[t].id, call[t].req.message)
             /\ Answer(t, "ok", NULL)
    <3>1. RepoStep
        BY <2>1, <2>2 DEF RepoStep, CalendarStep
    <3> QED
        BY <1>5, <2>1, <2>2, <3>1, AnswerStep
        DEF SetCalendarMessage, WriteStep, TypeOK, CacheOK, DbOnly, Codes
  <2>3. CASE Answer(t, "database_error", NULL) /\ UNCHANGED db
      BY <1>5, <2>1, <2>3, RefuseStep DEF SetCalendarMessage, Codes
  <2> QED
      BY <1>5, <2>2, <2>3 DEF SetCalendarMessage
<1>6. CASE Invalidate(t)
  <2>1. OwnStep(t)
      BY <1>6, AnswerStep DEF Invalidate, Codes
  <2>2. CacheOK'
      BY <1>6, WithoutType DEF Invalidate, TypeOK, CacheOK
  <2> QED
      BY <1>6, <2>1, <2>2 DEF Invalidate, WriteStep
<1> QED
    BY <1>2, <1>3, <1>4, <1>5, <1>6, CreateCalendarStep, AddAvailabilityStep, StoreDateStep
    DEF Writing

-----------------------------------------------------------------------------
(* Every step of the service is a step of the repository or leaves the     *)
(* tables alone, and keeps the types and the shape of the calls.           *)

ServiceInv == TypeOK /\ CallsInShape

LEMMA ThreadStep ==
    ASSUME ServiceInv, NEW t \in Threads, Step(t)
    PROVE  OwnStep(t) /\ [RepoStep]_db /\ CacheOK' /\ writes' \in 0..MaxWrites
<1>1. TypeOK /\ CallsInShape /\ CacheOK /\ writes \in 0..MaxWrites
    BY DEF ServiceInv, TypeOK, CacheOK
<1>2. CASE Lookup(t)
    BY <1>1, <1>2, LookupStep
<1>3. CASE Writing(t)
    BY <1>1, <1>3, WritingStep DEF WriteStep
<1>4. CASE Reading(t) \/ Return(t)
    BY <1>1, <1>4, ReadingStep, ReturnStep DEF Quiet, CacheOK
<1>5. ASSUME NEW r \in Requests, Begin(t, r)
      PROVE  OwnStep(t) /\ [RepoStep]_db /\ CacheOK' /\ writes' \in 0..MaxWrites
    BY <1>1, <1>5, BeginStep DEF CacheOK
<1> QED
    BY <1>2, <1>3, <1>4, <1>5 DEF Step, Work

LEMMA ServiceStep == ServiceInv /\ [Next]_vars => ServiceInv' /\ [RepoStep]_db
<1> SUFFICES ASSUME ServiceInv, [Next]_vars PROVE ServiceInv' /\ [RepoStep]_db
    OBVIOUS
<1>1. RepoTypeOK /\ ([RepoStep]_db => RepoTypeOK')
    BY TypeStep DEF ServiceInv, TypeOK
<1>2. ASSUME NEW t \in Threads, Step(t) PROVE ServiceInv' /\ [RepoStep]_db
  <2>1. OwnStep(t) /\ [RepoStep]_db /\ CacheOK' /\ writes' \in 0..MaxWrites
      BY <1>2, ThreadStep
  <2>2. DOMAIN call' = Threads /\ \A u \in Threads : CallOK(call'[u]) /\ Shape(call'[u])
      BY <2>1 DEF OwnStep, SameBut, ServiceInv, TypeOK, CallsInShape
  <2> QED
      BY <1>1, <2>1, <2>2 DEF ServiceInv, TypeOK, CallsInShape, CacheOK
<1>3. CASE Crash
  <2>1. CallOK(Idle) /\ Shape(Idle)
      BY RepositoryAssumption
      DEF CallOK, Shape, Idle, Steps, Optional, Codes, Ops, AfterLookup
  <2>2. DOMAIN call' = Threads /\ \A u \in Threads : CallOK(call'[u]) /\ Shape(call'[u])
      BY <1>3, <2>1 DEF Crash
  <2> QED
      BY <1>1, <1>3, <2>2 DEF Crash, ServiceInv, TypeOK, CallsInShape, CacheOK
<1>4. CASE UNCHANGED vars
  <2>1. db' = db /\ call' = call /\ calendar_cache_' = calendar_cache_ /\ writes' = writes
      BY <1>4 DEF vars
  <2> QED
      BY <1>1, <2>1 DEF ServiceInv, TypeOK, CallsInShape
<1> QED
    BY <1>2, <1>3, <1>4 DEF Next

LEMMA ServiceInit == Init => ServiceInv
<1> SUFFICES ASSUME Init PROVE ServiceInv
    OBVIOUS
<1>1. RepoTypeOK
    BY TypeInit DEF Init
<1>2. CallOK(Idle) /\ Shape(Idle)
    BY RepositoryAssumption
    DEF CallOK, Shape, Idle, Steps, Optional, Codes, Ops, AfterLookup
<1> QED
    BY <1>1, <1>2, ServiceAssumption DEF Init, ServiceInv, TypeOK, CallsInShape

\* The tables, the cache and the calls have their types, and every call is at a
\* step of its own operation.
THEOREM ServiceCorrect == Spec => []ServiceInv
BY ServiceInit, ServiceStep, PTL DEF Spec

\* The calls of the service, interleaved, failing and cut off as they are, use
\* the repository only as RepoSpec says: what is proved of it holds here.
THEOREM ServiceUsesRepository == Spec => RepoSpec
<1>1. Init => RepoInit
    BY DEF Init
<1>2. ServiceInv /\ [Next]_vars => [RepoStep]_db
    BY ServiceStep
<1> QED
    BY <1>1, <1>2, ServiceCorrect, PTL DEF Spec, RepoSpec

\* So no row of a deleted calendar or member is left, and no two records of one
\* member, also with any number of calls in progress.
THEOREM ServiceKeepsTables == Spec => [](ReferentialIntegrity /\ UniqueKeys)
BY ServiceUsesRepository, RefsHold, KeysUnique, PTL

-----------------------------------------------------------------------------
(* What is left of a table when rows are deleted.                          *)

LEMMA WithoutKeeps ==
    ASSUME NEW f, NEW keys, NEW g, g = Without(f, keys)
    PROVE  /\ DOMAIN g = DOMAIN f \ keys
           /\ \A k \in DOMAIN g : k \in DOMAIN f /\ g[k] = f[k]
<1>1. /\ DOMAIN Without(f, keys) = DOMAIN f \ keys
      /\ \A k \in DOMAIN f \ keys : Without(f, keys)[k] = f[k]
    BY WithoutFacts
<1> QED
    BY <1>1

LEMMA WithoutLeaves ==
    ASSUME NEW f, NEW keys, NEW g, g = Without(f, keys), NEW k \in DOMAIN f, k \notin keys
    PROVE  k \in DOMAIN g /\ g[k] = f[k]
<1>1. /\ DOMAIN Without(f, keys) = DOMAIN f \ keys
      /\ \A j \in DOMAIN f \ keys : Without(f, keys)[j] = f[j]
    BY WithoutFacts
<1> QED
    BY <1>1

-----------------------------------------------------------------------------
(* What one step of a thread does to its call and to the tables.           *)

\* The call goes on with the calendar, the copy and the member it has.
Keeps(t) == SameBut(t, {"pc", "code", "value", "todo", "got"})

\* A call starts or returns.
Forgets(t) == /\ SameBut(t, DOMAIN Idle)
              /\ call'[t].cal = NULL /\ call'[t].pid = 0 /\ call'[t].lost = 0
              /\ call'[t].pc \in {"idle", "create", "lookup"}

TakesCopy(t) ==
    /\ SameBut(t, {"pc", "cal"})
    /\ \/ /\ call[t].id \in DOMAIN calendar_cache_
          /\ call'[t].cal = calendar_cache_[call[t].id]
       \/ /\ call[t].id \in DOMAIN calendars
          /\ call'[t].cal = calendars[call[t].id]

FindsMember(t) ==
    /\ SameBut(t, {"pc", "pid"})
    /\ call'[t].pid \in find_participant(call[t].id, call[t].req.user)
    /\ call'[t].pc = "mine_list"

\* A step that leaves the tables alone.
Reads(t) == /\ UNCHANGED db
            /\ Keeps(t) \/ Forgets(t) \/ TakesCopy(t) \/ FindsMember(t)

\* A step that executes a statement: which one, with which values, and where the
\* call goes from there.
Creates(t) ==
    /\ call[t].pc = "create"
    /\ call[t].cal = NULL /\ call[t].pid = 0
    /\ \/ create_calendar(Row(call[t].req)) /\ SameBut(t, {"pc", "id"})
       \/ CreateCalendarFails(Row(call[t].req)) /\ Keeps(t)

Joins(t) ==
    /\ call[t].pc = "add"
    /\ AddAccepted(call[t].cal, call[t].req)
    /\ Upserts(t)
    /\ SameBut(t, {"pc", "pid", "todo", "lost"})
    /\ call'[t].pid = UpsertId(Member(t))
    /\ call'[t].lost = LostId(t)
    /\ call'[t].pc = "store"
    /\ call'[t].todo = call[t].req.dates

Stores(t) ==
    /\ call[t].pc = "store"
    /\ add_interval(Interval(t))
    /\ SameBut(t, {"pc", "todo"})
    /\ call'[t].todo = call[t].todo \ {NextDate(call[t].todo)}
    /\ call'[t].pc = IF call'[t].todo = {} THEN "invalidate" ELSE "store"

Clears(t) == /\ call[t].pc = "clear"
             /\ clear_participant(call[t].id, call[t].req.user)
             /\ SameBut(t, {"pc"})

Manages(t) ==
    /\ IsOwner(t)
    /\ \/ /\ call[t].pc = "state"
          /\ update_calendar_state(call[t].id, call[t].req.state)
       \/ /\ call[t].pc = "delete"
          /\ delete_calendar(call[t].id)
    /\ SameBut(t, {"pc"})
    /\ call'[t].pc = "invalidate"

Posts(t) == /\ call[t].pc = "set_message"
            /\ set_calendar_message(call[t].id, call[t].req.message)
            /\ Keeps(t)

StepCases(t) == \/ Reads(t) \/ Creates(t) \/ Joins(t) \/ Stores(t) \/ Clears(t)
                \/ Manages(t) \/ Posts(t)

LEMMA ReadCases ==
    ASSUME ServiceInv, NEW t \in Threads,
           Lookup(t) \/ Reading(t) \/ Return(t) \/ Invalidate(t)
               \/ \E r \in Requests : Begin(t, r)
    PROVE  Reads(t)
<1>1. TypeOK /\ DOMAIN call = Threads /\ DOMAIN call[t] = DOMAIN Idle
    BY DEF ServiceInv, TypeOK, CallOK
<1>2. ASSUME NEW code, NEW value, Answer(t, code, value) PROVE Keeps(t)
    BY <1>1, <1>2, AnswerFacts DEF Keeps, SameBut
<1>3. ASSUME NEW step, Goto(t, step) PROVE Keeps(t)
    BY <1>1, <1>3, GotoFacts DEF Keeps, SameBut
<1>4. ASSUME NEW row, NEW step,
             call' = [call EXCEPT ![t].cal = row, ![t].pc = step]
      PROVE  SameBut(t, {"pc", "cal"}) /\ call'[t].cal = row
    BY <1>1, <1>4, IdleFields DEF SameBut
<1>5. ASSUME NEW p, call' = [call EXCEPT ![t].pid = p, ![t].pc = "mine_list"]
      PROVE  SameBut(t, {"pc", "pid"}) /\ call'[t].pid = p /\ call'[t].pc = "mine_list"
    BY <1>1, <1>5, IdleFields DEF SameBut
<1>6. ASSUME NEW got, NEW step, call' = [call EXCEPT ![t].pc = step, ![t].got = got]
      PROVE  Keeps(t)
    BY <1>1, <1>6, IdleFields DEF Keeps, SameBut
<1>7. CASE CacheHit(t)
    BY <1>4, <1>7 DEF CacheHit, Reads, TakesCopy, Quiet
<1>8. CASE CacheMiss(t) \/ FillCache(t) \/ Invalidate(t)
    BY <1>2, <1>3, <1>8 DEF CacheMiss, FillCache, Invalidate, Reads, Quiet
<1>9. CASE FindCalendar(t)
    BY <1>2, <1>4, <1>9 DEF FindCalendar, Reads, TakesCopy, Quiet
<1>10. CASE Return(t)
  <2>1. call' = [call EXCEPT ![t] = Idle]
      BY <1>10 DEF Return
  <2> QED
      BY <1>1, <1>10, <2>1 DEF Return, Reads, Forgets, SameBut, Quiet, Idle
<1>11. ASSUME NEW r \in Requests, Begin(t, r) PROVE Reads(t)
  <2>1. call' = [call EXCEPT ![t] = Started(r)] /\ UNCHANGED db
      BY <1>11 DEF Begin
  <2>2. /\ DOMAIN Started(r) = DOMAIN Idle
        /\ Started(r).cal = NULL /\ Started(r).pid = 0 /\ Started(r).lost = 0
        /\ Started(r).pc \in {"create", "lookup"}
      BY DEF Started, Idle
  <2> QED
      BY <1>1, <2>1, <2>2 DEF Reads, Forgets, SameBut
<1>12. CASE FindMine(t)
    BY <1>2, <1>5, <1>12 DEF FindMine, Reads, FindsMember, Quiet
<1>13. CASE FindAttendees(t)
  <2>1. \/ \E code : Answer(t, code, NULL)
        \/ \E got : call' = [call EXCEPT ![t].pc = "day_list", ![t].got = got]
      BY <1>13 DEF FindAttendees
  <2> QED
      BY <1>2, <1>6, <1>13, <2>1 DEF FindAttendees, Reads, Quiet
<1>14. CASE FindWeek(t)
  <2>1. \/ Answer(t, "invalid_input", NULL)
        \/ \E got : call' = [call EXCEPT ![t].pc = "heatmap_count", ![t].got = got]
      BY <1>14 DEF FindWeek
  <2> QED
      BY <1>2, <1>6, <1>14, <2>1 DEF FindWeek, Reads, Quiet
<1>15. CASE ViewCalendar(t) \/ CalendarMessage(t) \/ MySchedule(t)
    BY <1>2, <1>15 DEF ViewCalendar, CalendarMessage, MySchedule, Reads, Quiet
<1>16. CASE DayParticipants(t) \/ WeeklyHeatmap(t) \/ PublicParticipants(t)
    BY <1>2, <1>16 DEF DayParticipants, WeeklyHeatmap, PublicParticipants, Reads, Quiet
<1> QED
    BY <1>7, <1>8, <1>9, <1>10, <1>11, <1>12, <1>13, <1>14, <1>15, <1>16
    DEF Lookup, Reading

\* add_availability stores its member or answers with an error.
LEMMA AddCases ==
    ASSUME ServiceInv, NEW t \in Threads, AddAvailability(t)
    PROVE  \/ Joins(t)
           \/ \E code \in Codes \ {"ok"} : Answer(t, code, NULL) /\ UNCHANGED db
<1>1. TypeOK /\ DOMAIN call = Threads /\ DOMAIN call[t] = DOMAIN Idle
    BY DEF ServiceInv, TypeOK, CallOK
<1>2. ASSUME call' = [call EXCEPT ![t].pid = UpsertId(Member(t)),
                                  ![t].todo = call[t].req.dates,
                                  ![t].pc = "store",
                                  ![t].lost = LostId(t)]
      PROVE  /\ SameBut(t, {"pc", "pid", "todo", "lost"})
             /\ call'[t].pid = UpsertId(Member(t)) /\ call'[t].pc = "store"
             /\ call'[t].lost = LostId(t)
             /\ call'[t].todo = call[t].req.dates
  <2>1. /\ DOMAIN call' = DOMAIN call
        /\ \A u \in Threads \ {t} : call'[u] = call[u]
        /\ call'[t] = [call[t] EXCEPT !.pid = UpsertId(Member(t)),
                          !.todo = call[t].req.dates, !.pc = "store",
                          !.lost = LostId(t)]
      BY <1>1, <1>2
  <2> QED
      BY <1>1, <2>1, IdleFields DEF SameBut
<1>3. /\ "alias_already_used" \in Codes \ {"ok"}
      /\ "database_error" \in Codes \ {"ok"}
    BY DEF Codes
<1> QED
    BY <1>2, <1>3, ErrorFacts DEF AddAvailability, Joins, Upserts, LostId, OwnCodes

\* The next date is stored, or the call ends with an error.
LEMMA StoreCases ==
    ASSUME ServiceInv, NEW t \in Threads, StoreDate(t)
    PROVE  \/ Stores(t)
           \/ Answer(t, "database_error", NULL) /\ UNCHANGED db
<1> DEFINE left == call[t].todo \ {NextDate(call[t].todo)}
           step == IF left = {} THEN "invalidate" ELSE "store"
<1>1. TypeOK /\ DOMAIN call = Threads /\ DOMAIN call[t] = DOMAIN Idle
    BY DEF ServiceInv, TypeOK, CallOK
<1>2. ASSUME call' = [call EXCEPT ![t].todo = left, ![t].pc = step]
      PROVE  /\ SameBut(t, {"pc", "todo"})
             /\ call'[t].todo = left /\ call'[t].pc = step
  <2> HIDE DEF left, step
  <2>1. /\ DOMAIN call' = DOMAIN call
        /\ \A u \in Threads \ {t} : call'[u] = call[u]
        /\ call'[t] = [call[t] EXCEPT !.todo = left, !.pc = step]
      BY <1>1, <1>2
  <2> QED
      BY <1>1, <2>1, IdleFields DEF SameBut
<1> QED
    BY <1>2 DEF StoreDate, Stores

LEMMA WriteCases ==
    ASSUME ServiceInv, NEW t \in Threads, Writing(t)
    PROVE  StepCases(t)
<1>1. TypeOK /\ DOMAIN call = Threads /\ DOMAIN call[t] = DOMAIN Idle
    BY DEF ServiceInv, TypeOK, CallOK
<1>2. Shape(call[t])
    BY DEF ServiceInv, CallsInShape
<1>3. ASSUME NEW code, NEW value, Answer(t, code, value) PROVE Keeps(t)
    BY <1>1, <1>3, AnswerFacts DEF Keeps, SameBut
<1>4. ASSUME NEW code, NEW value, Answer(t, code, value), UNCHANGED db
      PROVE  Reads(t)
    BY <1>3, <1>4 DEF Reads
<1>5. ASSUME NEW step, Goto(t, step)
      PROVE  SameBut(t, {"pc"}) /\ call'[t].pc = step
    BY <1>1, <1>5, GotoFacts
<1>6. CASE CreateCalendar(t)
  <2>1. call[t].pc = "create" /\ call[t].cal = NULL /\ call[t].pid = 0
      BY <1>2, <1>6 DEF CreateCalendar, Shape, Ops
  <2>2. ASSUME call' = [call EXCEPT ![t].id = NextId("calendars"),
                                    ![t].pc = "invalidate"]
        PROVE  SameBut(t, {"pc", "id"})
    <3>1. /\ DOMAIN call' = DOMAIN call
          /\ \A u \in Threads \ {t} : call'[u] = call[u]
          /\ call'[t] = [call[t] EXCEPT !.id = NextId("calendars"), !.pc = "invalidate"]
        BY <1>1, <2>2
    <3> QED
        BY <1>1, <3>1, IdleFields DEF SameBut
  <2> QED
      BY <1>3, <1>4, <1>6, <2>1, <2>2 DEF CreateCalendar, Creates, StepCases
<1>7. CASE AddAvailability(t)
    BY <1>4, <1>7, AddCases DEF StepCases
<1>8. CASE StoreDate(t)
    BY <1>4, <1>8, StoreCases DEF StepCases
<1>9. CASE ClearMyData(t)
    BY <1>4, <1>5, <1>9 DEF ClearMyData, Write, Clears, StepCases
<1>10. CASE ChangeState(t) \/ DeleteCalendar(t)
    BY <1>4, <1>5, <1>10 DEF ChangeState, DeleteCalendar, Write, Manages, StepCases
<1>11. CASE SetCalendarMessage(t)
    BY <1>3, <1>4, <1>11 DEF SetCalendarMessage, Posts, StepCases
<1>12. CASE Invalidate(t)
    BY <1>12, ReadCases DEF StepCases
<1> QED
    BY <1>6, <1>7, <1>8, <1>9, <1>10, <1>11, <1>12 DEF Writing

LEMMA CasesOfStep ==
    ASSUME ServiceInv, NEW t \in Threads, Step(t)
    PROVE  StepCases(t)
BY ReadCases, WriteCases DEF Step, Work, StepCases

-----------------------------------------------------------------------------
(* A copy of a row, however old, is right about all that never changes.    *)

OldRow(id, row) ==
    /\ id \in 1..seq["calendars"]
    /\ id \in DOMAIN calendars => Later(row, calendars[id])

\* The same of a row of this state in the next one.
StaysOld(id, row) ==
    /\ id \in 1..seq'["calendars"]
    /\ id \in DOMAIN calendars' => Later(row, calendars'[id])

CachedRowsAreOld ==
    \A c \in DOMAIN calendar_cache_ : OldRow(c, calendar_cache_[c])
HeldRowsAreOld ==
    \A t \in Threads : call[t].cal # NULL => OldRow(call[t].id, call[t].cal)

CopiesOld == CachedRowsAreOld /\ HeldRowsAreOld

\* The cache gets its rows from the calls.
LEMMA CacheCases ==
    ASSUME NEW t \in Threads, Step(t), ServiceInv
    PROVE  \/ UNCHANGED calendar_cache_
           \/ FillCache(t) /\ call[t].cal # NULL /\ UNCHANGED db
           \/ Invalidate(t) /\ calendar_cache_' = Without(calendar_cache_, {call[t].id})
<1>1. ASSUME FillCache(t) PROVE call[t].cal # NULL /\ UNCHANGED db
  <2>1. call[t].cal \in CalendarRow
      BY <1>1 DEF FillCache, ServiceInv, CallsInShape, Shape, AfterLookup
  <2> QED
      BY <1>1, <2>1, ServiceAssumption DEF FillCache
<1>2. CASE Lookup(t)
    BY <1>1, <1>2 DEF Lookup, CacheHit, CacheMiss, FindCalendar, Quiet
<1>3. CASE Writing(t)
    BY <1>3 DEF Writing, CreateCalendar, AddAvailability, StoreDate, ClearMyData,
                ChangeState, DeleteCalendar, SetCalendarMessage, Invalidate, DbOnly
<1>4. CASE Reading(t)
    BY <1>4 DEF Reading, ViewCalendar, CalendarMessage, FindMine, MySchedule,
                FindAttendees, DayParticipants, FindWeek, WeeklyHeatmap,
                PublicParticipants, Quiet
<1>5. CASE Return(t) \/ \E r \in Requests : Begin(t, r)
    BY <1>5 DEF Return, Begin, Quiet
<1> QED
    BY <1>2, <1>3, <1>4, <1>5 DEF Step, Work

\* Rows get older, never younger.
LEMMA OldRowStays ==
    ASSUME RepoTypeOK, RepoTypeOK', [RepoStep]_db, NEW id, NEW row \in CalendarRow,
           OldRow(id, row)
    PROVE  StaysOld(id, row)
<1>1. RowsKept /\ seq'["calendars"] >= seq["calendars"]
    BY RowsStep, SeqStep DEF Tables
<1>2. seq["calendars"] \in Int /\ seq'["calendars"] \in Int
    BY DEF RepoTypeOK, Tables
<1>3. id \in 1..seq'["calendars"]
    BY <1>1, <1>2 DEF OldRow
<1>4. ASSUME id \in DOMAIN calendars' PROVE Later(row, calendars'[id])
  <2>1. id \in DOMAIN calendars /\ Later(calendars[id], calendars'[id])
      BY <1>1, <1>2, <1>4 DEF RowsKept, OldRow
  <2>2. calendars[id] \in CalendarRow /\ calendars'[id] \in CalendarRow
      BY <1>4, <2>1 DEF RepoTypeOK
  <2> QED
      BY <2>1, <2>2, LaterFacts DEF OldRow
<1> QED
    BY <1>3, <1>4 DEF StaysOld

LEMMA CurrentRowIsOld ==
    ASSUME RepoTypeOK, NEW id \in DOMAIN calendars
    PROVE  calendars[id] \in CalendarRow /\ OldRow(id, calendars[id])
BY LaterFacts DEF RepoTypeOK, OldRow

LEMMA CopiesOldStep == ServiceInv /\ CopiesOld /\ [Next]_vars => CopiesOld'
<1> SUFFICES ASSUME ServiceInv, CopiesOld, [Next]_vars PROVE CopiesOld'
    OBVIOUS
<1>1. /\ ServiceInv' /\ [RepoStep]_db
      /\ TypeOK /\ RepoTypeOK /\ RepoTypeOK'
    BY ServiceStep DEF ServiceInv, TypeOK
<1>2. /\ \A c \in DOMAIN calendar_cache_ : calendar_cache_[c] \in CalendarRow
      /\ \A t \in Threads : call[t].cal # NULL => call[t].cal \in CalendarRow
    BY <1>1 DEF TypeOK, CallOK, Optional
<1>3. /\ \A c \in DOMAIN calendar_cache_ : StaysOld(c, calendar_cache_[c])
      /\ \A t \in Threads : call[t].cal # NULL => StaysOld(call[t].id, call[t].cal)
    BY <1>1, <1>2, OldRowStays DEF CopiesOld, CachedRowsAreOld, HeldRowsAreOld
<1>4. /\ (\A c \in DOMAIN calendar_cache_' : StaysOld(c, calendar_cache_'[c]))
                => CachedRowsAreOld'
      /\ (\A t \in Threads : call'[t].cal # NULL => StaysOld(call'[t].id, call'[t].cal))
                => HeldRowsAreOld'
    BY DEF CachedRowsAreOld, HeldRowsAreOld, StaysOld, OldRow
<1>5. ASSUME NEW t \in Threads, Step(t) PROVE CopiesOld'
  <2>1. CachedRowsAreOld'
    <3>1. CASE UNCHANGED calendar_cache_
        BY <1>3, <1>4, <3>1
    <3>2. CASE FillCache(t) /\ call[t].cal # NULL
      <4>1. calendar_cache_' = Put(calendar_cache_, call[t].id, call[t].cal)
          BY <3>2 DEF FillCache
      <4> QED
          BY <1>3, <1>4, <3>2, <4>1 DEF Put
    <3>3. CASE calendar_cache_' = Without(calendar_cache_, {call[t].id})
      <4>1. \A c \in DOMAIN calendar_cache_' :
                c \in DOMAIN calendar_cache_ /\ calendar_cache_'[c] = calendar_cache_[c]
        <5> DEFINE gone == {call[t].id}
        <5>1. calendar_cache_' = Without(calendar_cache_, gone)
            BY <3>3
        <5> HIDE DEF gone
        <5> QED
            BY <5>1, WithoutKeeps
      <4> QED
          BY <1>3, <1>4, <4>1
    <3> QED
        BY <1>5, <3>1, <3>2, <3>3, CacheCases
  <2>2. ASSUME NEW u \in Threads, u # t, call'[u].cal # NULL
        PROVE  StaysOld(call'[u].id, call'[u].cal)
    <3>1. call'[u] = call[u]
        BY <1>5, <2>2, ThreadStep DEF OwnStep, SameBut
    <3> QED
        BY <1>3, <2>2, <3>1
  <2>3. CASE call'[t].cal = NULL
      BY <1>4, <2>1, <2>2, <2>3 DEF CopiesOld
  <2>4. CASE call'[t].id = call[t].id /\ call'[t].cal = call[t].cal
      BY <1>3, <1>4, <2>1, <2>2, <2>4 DEF CopiesOld
  <2>5. CASE TakesCopy(t) /\ UNCHANGED db
    <3>1. call'[t].id = call[t].id
        BY <2>5, IdleFields DEF TakesCopy, SameBut
    <3>2. CASE /\ call[t].id \in DOMAIN calendar_cache_
               /\ call'[t].cal = calendar_cache_[call[t].id]
        BY <1>3, <1>4, <2>1, <2>2, <3>1, <3>2 DEF CopiesOld
    <3>3. CASE /\ call[t].id \in DOMAIN calendars
               /\ call'[t].cal = calendars[call[t].id]
      <4>1. StaysOld(call[t].id, call'[t].cal)
          BY <1>1, <3>3, CurrentRowIsOld, OldRowStays
      <4> QED
          BY <1>4, <2>1, <2>2, <3>1, <4>1 DEF CopiesOld
    <3> QED
        BY <2>5, <3>2, <3>3 DEF TakesCopy
  <2> QED
    <3>1. StepCases(t)
        BY <1>5, CasesOfStep
    <3>2. CASE Reads(t)
        BY <2>3, <2>4, <2>5, <3>2, IdleFields
        DEF Reads, Keeps, Forgets, FindsMember, SameBut
    <3>3. CASE Creates(t)
        BY <2>3, <2>4, <3>3, IdleFields DEF Creates, Keeps, SameBut
    <3>4. CASE Joins(t) \/ Stores(t) \/ Clears(t) \/ Manages(t) \/ Posts(t)
        BY <2>4, <3>4, IdleFields
        DEF Joins, Stores, Clears, Manages, Posts, Keeps, SameBut
    <3> QED
        BY <3>1, <3>2, <3>3, <3>4 DEF StepCases
<1>6. CASE Crash
    BY <1>4, <1>6 DEF Crash, Idle, CopiesOld
<1>7. CASE UNCHANGED vars
    BY <1>3, <1>4, <1>7 DEF vars, CopiesOld
<1> QED
    BY <1>5, <1>6, <1>7 DEF Next

\* Every copy is that of a row its calendar once had, and so is every copy that
\* CopiesAreOldRows speaks of.
LEMMA OldCopies == ServiceInv /\ CopiesOld => CopiesAreOldRows
<1> SUFFICES ASSUME ServiceInv, CopiesOld, NEW copy \in Copies
             PROVE  /\ copy[1] \in 1..seq["calendars"]
                    /\ copy[1] \in DOMAIN calendars =>
                         LET row == calendars[copy[1]]
                         IN  /\ [copy[2] EXCEPT !.state = row.state,
                                                !.revision = row.revision] = row
                             /\ copy[2].revision <= row.revision
    BY DEF CopiesAreOldRows
<1>1. OldRow(copy[1], copy[2]) /\ copy[2] \in CalendarRow
  <2>1. CASE \E c \in DOMAIN calendar_cache_ : copy = <<c, calendar_cache_[c]>>
      BY <2>1 DEF CopiesOld, CachedRowsAreOld, ServiceInv, TypeOK
  <2>2. CASE \E t \in Threads : call[t].cal # NULL /\ copy = <<call[t].id, call[t].cal>>
      BY <2>2 DEF CopiesOld, HeldRowsAreOld, ServiceInv, TypeOK, CallOK, Optional
  <2> QED
      BY <2>1, <2>2 DEF Copies
<1>2. ASSUME NEW row \in CalendarRow, NEW old \in CalendarRow, Later(old, row)
      PROVE  /\ [old EXCEPT !.state = row.state, !.revision = row.revision] = row
             /\ old.revision <= row.revision
    BY <1>2 DEF Later, CalendarRow
<1>3. \A c \in DOMAIN calendars : calendars[c] \in CalendarRow
    BY DEF ServiceInv, TypeOK, RepoTypeOK
<1> QED
    BY <1>1, <1>2, <1>3 DEF OldRow

LEMMA CopiesOldInit == Init => CopiesOld
BY DEF Init, Idle, CopiesOld, CachedRowsAreOld, HeldRowsAreOld

\* However long a call holds its copy of a calendar, and however long the cache
\* does, the copy names the creator, the month and the rules of the calendar
\* rightly and is at most too old: the checks of the service may use it.
THEOREM CopiesAreOld == Spec => []CopiesAreOldRows
<1>1. Spec => [](ServiceInv /\ CopiesOld)
    BY ServiceCorrect, CopiesOldInit, CopiesOldStep, PTL DEF Spec
<1> QED
    BY <1>1, OldCopies, PTL
=============================================================================

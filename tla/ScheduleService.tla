-------------------------- MODULE ScheduleService --------------------------
(***************************************************************************)
(* ScheduleService over SQLiteScheduleRepository, with its calendar cache. *)
(*                                                                         *)
(* The bot runs its handlers on several threads, all on one service.  A    *)
(* thread executes one call at a time; between two critical sections (of   *)
(* cache_mutex_ or of the repository's mutex_) any other thread may run,   *)
(* so a call is a sequence of steps, one for each critical section.  Tests *)
(* on the thread's own copies belong to the step that follows them.        *)
(***************************************************************************)
EXTENDS Repository, ScheduleAlgorithms

CONSTANTS
    Threads,     \* the threads that execute handlers
    Requests,    \* the calls that clients make
    MaxWrites,   \* bound of the model checker on calls that may write
    DiskMayFail, \* whether any statement may fail
    MayCrash     \* whether the process may die and be started again

VARIABLES
    calendar_cache_, \* calendar id -> CalendarRow
    call,            \* what each thread is executing
    writes           \* calls that may write, made so far

vars == <<db, calendar_cache_, call, writes>>

-----------------------------------------------------------------------------
(* Calls                                                                   *)

\* title and description are the lengths of the texts.
CreateRequest == [op : {"create"}, user : Users, channel : Channels,
                  title : Nat, description : Nat, config : Configs]
AddRequest == [op : {"add"}, calendar : RowIds, user : Users,
               identity : Identities, dates : SUBSET Dates, span : Spans]
DayRequest == [op : {"day"}, calendar : RowIds, user : Users, date : Dates]
HeatmapRequest == [op : {"heatmap"}, calendar : RowIds, week : Weeks]
StateRequest == [op : {"state"}, calendar : RowIds, user : Users,
                 state : CalendarStates]
MessageRequest == [op : {"set_message"}, calendar : RowIds, message : MessageRow]
UserRequest == [op : {"mine", "clear", "delete"}, calendar : RowIds, user : Users]
ViewRequest == [op : {"view", "message", "public"}, calendar : RowIds]

Request == CreateRequest \cup AddRequest \cup DayRequest \cup HeatmapRequest
            \cup StateRequest \cup MessageRequest \cup UserRequest
            \cup ViewRequest

ASSUME ServiceAssumption ==
    /\ Requests \subseteq Request
    /\ NULL \notin Request \cup CalendarRow
    /\ MaxWrites \in Nat
    /\ DiskMayFail \in BOOLEAN
    /\ MayCrash \in BOOLEAN

WriteOps == {"create", "add", "state", "set_message", "clear", "delete"}

\* What the answer of a call is: ok with a value, or the code of a DomainError.
Codes == {"ok", "calendar_not_found", "permission_denied", "invalid_time_range",
          "invalid_input", "alias_already_used", "calendar_closed",
          "database_error"}

\* A thread: the step it is at, its call, the calendar id and the copy of the
\* row it works with, a participant id it has read, the dates it has still to
\* store, a set it has read, and its answer.  0 is no id.  lost is history, which
\* no step reads: an id that its upsert returned and did not store.
Idle == [pc |-> "idle", req |-> NULL, id |-> 0, cal |-> NULL, pid |-> 0,
         todo |-> {}, got |-> {}, code |-> "ok", value |-> NULL, lost |-> 0]

\* A call ends; its answer stays until Return.
Answer(t, code, value) ==
    call' = [call EXCEPT ![t].pc = "done", ![t].code = code, ![t].value = value]

Goto(t, step) == call' = [call EXCEPT ![t].pc = step]

Quiet   == UNCHANGED <<db, calendar_cache_, writes>>
DbOnly  == UNCHANGED <<calendar_cache_, writes>>

\* A call as it starts: every one but create_calendar looks its calendar up.
Started(r) == [Idle EXCEPT !.req = r,
                           !.pc = IF r.op = "create" THEN "create" ELSE "lookup",
                           !.id = IF r.op = "create" THEN 0 ELSE r.calendar]

Begin(t, r) ==
    /\ call[t].pc = "idle"
    /\ writes' = IF r.op \in WriteOps THEN writes + 1 ELSE writes
    /\ writes' <= MaxWrites
    /\ call' = [call EXCEPT ![t] = Started(r)]
    /\ UNCHANGED <<db, calendar_cache_>>

Return(t) ==
    /\ call[t].pc = "done"
    /\ call' = [call EXCEPT ![t] = Idle]
    /\ Quiet

-----------------------------------------------------------------------------
(* require_calendar: the cache, else the repository, then the cache again  *)

CacheHit(t) ==
    /\ call[t].pc = "lookup"
    /\ call[t].id \in DOMAIN calendar_cache_
    /\ call' = [call EXCEPT ![t].cal = calendar_cache_[call[t].id],
                            ![t].pc = call[t].req.op]
    /\ Quiet

CacheMiss(t) ==
    /\ call[t].pc = "lookup"
    /\ call[t].id \notin DOMAIN calendar_cache_
    /\ Goto(t, "find")
    /\ Quiet

FindCalendar(t) ==
    /\ call[t].pc = "find"
    /\ \/ /\ call[t].id \in DOMAIN calendars
          /\ call' = [call EXCEPT ![t].cal = calendars[call[t].id],
                                  ![t].pc = "fill"]
       \/ /\ DiskMayFail \/ call[t].id \notin DOMAIN calendars
          /\ Answer(t, "calendar_not_found", NULL)
    /\ Quiet

FillCache(t) ==
    /\ call[t].pc = "fill"
    /\ calendar_cache_' = Put(calendar_cache_, call[t].id, call[t].cal)
    /\ Goto(t, call[t].req.op)
    /\ UNCHANGED <<db, writes>>

\* Mutant: the entry of the calendar stays.
InvalidateNothing(t) ==
    /\ call[t].pc = "invalidate"
    /\ Answer(t, "ok", NULL)
    /\ Quiet

\* The last step of every call that changes the planning data.
Invalidate(t) ==
    /\ call[t].pc = "invalidate"
    /\ calendar_cache_' = Without(calendar_cache_, {call[t].id})
    /\ Answer(t, "ok", NULL)
    /\ UNCHANGED <<db, writes>>

-----------------------------------------------------------------------------
(* create_calendar                                                         *)

validate_text(length, minimum, maximum) == length \in minimum..maximum

CreateAccepted(r) == /\ validate_text(r.title, 1, 100)
                     /\ validate_text(r.description, 0, 1000)
                     /\ is_valid_calendar_config(r.config)

Row(r) == [guild |-> GuildOf[r.channel], channel |-> r.channel, creator |-> r.user,
           config |-> r.config, state |-> "open", revision |-> 1]

CreateCalendar(t) ==
    /\ call[t].pc = "create"
    /\ LET r == call[t].req
       IN  \/ /\ ~CreateAccepted(r)
              /\ Answer(t, "invalid_input", NULL)
              /\ UNCHANGED db
           \/ /\ CreateAccepted(r)
              /\ create_calendar(Row(r))
              /\ call' = [call EXCEPT ![t].id = NextId("calendars"),
                                      ![t].pc = "invalidate"]
           \/ /\ CreateAccepted(r)
              /\ DiskMayFail \/ ~CanDraw("calendars")
              /\ CreateCalendarFails(Row(r)) \/ UNCHANGED db
              /\ Answer(t, "database_error", NULL)
    /\ DbOnly

-----------------------------------------------------------------------------
(* add_availability                                                        *)

Aligned(config, minute) == (minute - config.start_minute) % config.slot_minutes = 0

\* The checks of add_availability in their order, each with its error code.
AddChecks(c, r) ==
    << [code |-> "calendar_closed", holds |-> c.state = "open"],
       [code |-> "permission_denied", holds |-> r.identity.mode \in c.config.modes],
       [code |-> "invalid_input",
        holds |-> r.identity.mode = "alias" =>
                    /\ r.identity.alias # NULL
                    /\ validate_text(r.identity.alias.length, 1, 32)],
       [code |-> "invalid_time_range",
        holds |-> /\ r.span.start >= c.config.start_minute
                  /\ r.span.end <= c.config.end_minute
                  /\ r.span.start < r.span.end
                  /\ Aligned(c.config, r.span.start)
                  /\ Aligned(c.config, r.span.end)],
       [code |-> "invalid_input",
        holds |-> /\ r.dates # {}
                  /\ \A d \in r.dates : is_date_in_month(d, c.config.month)] >>

\* Mutants: the state of the calendar is not checked; the span is not.
AddAcceptedClosed(c, r) ==
    \A k \in DOMAIN AddChecks(c, r) \ {1} : AddChecks(c, r)[k].holds

AddAcceptedAnySpan(c, r) ==
    \A k \in DOMAIN AddChecks(c, r) \ {4} : AddChecks(c, r)[k].holds

AddAccepted(c, r) == \A k \in DOMAIN AddChecks(c, r) : AddChecks(c, r)[k].holds

AddError(c, r) ==
    LET checks == AddChecks(c, r)
        first == CHOOSE k \in DOMAIN checks :
                    ~checks[k].holds /\ \A j \in 1..(k - 1) : checks[j].holds
    IN  checks[first].code

Member(t) == [calendar |-> call[t].id, user |-> call[t].req.user,
              identity |-> call[t].req.identity]

\* The id that the upsert returns is taken for that of a stored member.
AddAvailability(t) ==
    /\ call[t].pc = "add"
    /\ LET accepted == AddAccepted(call[t].cal, call[t].req)
           id == UpsertId(Member(t))
       IN  \/ /\ ~accepted
              /\ Answer(t, AddError(call[t].cal, call[t].req), NULL)
              /\ UNCHANGED db
           \/ /\ accepted
              /\ \/ upsert_participant(Member(t))
                 \/ DiskMayFail /\ UpsertUndone(Member(t))
              /\ call' = [call EXCEPT ![t].pid = id,
                                      ![t].todo = call[t].req.dates,
                                      ![t].pc = "store",
                                      ![t].lost = IF id \in DOMAIN participants' THEN 0
                                                  ELSE id]
           \/ /\ accepted
              /\ DiskMayFail \/ ~CanUpsert(Member(t))
              /\ Answer(t, IF call[t].req.identity.alias # NULL
                           THEN "alias_already_used" ELSE "database_error", NULL)
              /\ UNCHANGED db
    /\ DbOnly

\* std::set iterates in the order of the dates.
NextDate(dates) == CHOOSE d \in dates : \A e \in dates : DateLeq(d, e)

Interval(t) == [calendar |-> call[t].id, participant |-> call[t].pid,
                date |-> NextDate(call[t].todo), span |-> call[t].req.span]

\* Mutants: the call ends after the first date; a failure is tried again.
StoreFirst(t) ==
    /\ call[t].pc = "store"
    /\ add_interval(Interval(t))
    /\ Goto(t, "invalidate")
    /\ DbOnly
StoreRetries(t) ==
    /\ call[t].pc = "store"
    /\ add_interval(Interval(t))
    /\ LET left == call[t].todo \ {NextDate(call[t].todo)}
       IN  call' = [call EXCEPT ![t].todo = left,
                                ![t].pc = IF left = {} THEN "invalidate" ELSE "store"]
    /\ DbOnly

\* One date, in a transaction of its own.
StoreDate(t) ==
    /\ call[t].pc = "store"
    /\ \/ /\ add_interval(Interval(t))
          /\ LET left == call[t].todo \ {NextDate(call[t].todo)}
             IN  call' = [call EXCEPT ![t].todo = left,
                                      ![t].pc = IF left = {} THEN "invalidate"
                                                ELSE "store"]
       \/ /\ DiskMayFail \/ ~CanAddInterval(Interval(t))
          /\ Answer(t, "database_error", NULL)
          /\ UNCHANGED db
    /\ DbOnly

-----------------------------------------------------------------------------
(* The other calls that write                                              *)

\* Mutant: whoever asks is taken for the owner.
Anyone(t) == call[t].cal # NULL

IsOwner(t) == call[t].cal.creator = call[t].req.user

\* The write succeeds and the call moves on, or it fails and the call ends.
Write(t, statement, step) ==
    \/ /\ statement
       /\ Goto(t, step)
    \/ /\ DiskMayFail
       /\ Answer(t, "database_error", NULL)
       /\ UNCHANGED db

ClearMyData(t) ==
    /\ call[t].pc = "clear"
    /\ Write(t, clear_participant(call[t].id, call[t].req.user), "invalidate")
    /\ DbOnly

ChangeState(t) ==
    /\ call[t].pc = "state"
    /\ IF IsOwner(t)
       THEN Write(t, update_calendar_state(call[t].id, call[t].req.state), "invalidate")
       ELSE Answer(t, "permission_denied", NULL) /\ UNCHANGED db
    /\ DbOnly

DeleteCalendar(t) ==
    /\ call[t].pc = "delete"
    /\ IF IsOwner(t)
       THEN Write(t, delete_calendar(call[t].id), "invalidate")
       ELSE Answer(t, "permission_denied", NULL) /\ UNCHANGED db
    /\ DbOnly

SetCalendarMessage(t) ==
    /\ call[t].pc = "set_message"
    /\ \/ /\ set_calendar_message(call[t].id, call[t].req.message)
          /\ Answer(t, "ok", NULL)
       \/ /\ DiskMayFail \/ call[t].id \notin DOMAIN calendars
          /\ Answer(t, "database_error", NULL)
          /\ UNCHANGED db
    /\ DbOnly

-----------------------------------------------------------------------------
(* The calls that read.  A read statement that fails is taken for its end: *)
(* what it has delivered so far is all there is.                           *)

\* What a list ordered by date and start may deliver of its rows.
Delivered(rows) ==
    LET Before(i, j) ==
            \/ DateKey(intervals[i].date) < DateKey(intervals[j].date)
            \/ /\ intervals[i].date = intervals[j].date
               /\ intervals[i].span.start <= intervals[j].span.start
    IN  IF DiskMayFail
        THEN {got \in SUBSET rows : \A i \in got, j \in rows \ got : Before(i, j)}
        ELSE {rows}

\* The same for the participants, whose names the model does not order.
DeliveredMembers(rows) == IF DiskMayFail THEN SUBSET rows ELSE {rows}

\* calendar() and week_count() use the copy and read nothing more.
ViewCalendar(t) ==
    /\ call[t].pc = "view"
    /\ Answer(t, "ok", call[t].cal)
    /\ Quiet

CalendarMessage(t) ==
    /\ call[t].pc = "message"
    /\ \/ /\ call[t].id \in DOMAIN messages
          /\ Answer(t, "ok", messages[call[t].id])
       \/ /\ DiskMayFail \/ call[t].id \notin DOMAIN messages
          /\ Answer(t, "ok", NULL)
    /\ Quiet

InMonth(t) == list_intervals(call[t].id, FirstDay(call[t].cal.config.month),
                             LastDay(call[t].cal.config.month))

\* my_schedule: the participant of the caller, then the rows of that id.
FindMine(t) ==
    /\ call[t].pc = "mine"
    /\ LET found == find_participant(call[t].id, call[t].req.user)
       IN  \/ /\ DiskMayFail \/ found = {}
              /\ Answer(t, "ok", {})
           \/ \E p \in found : call' = [call EXCEPT ![t].pid = p,
                                                     ![t].pc = "mine_list"]
    /\ Quiet

\* Mutant: the rows are not filtered by participant.
EverySchedule(t) ==
    /\ call[t].pc = "mine_list"
    /\ Answer(t, "ok", {intervals[i] : i \in InMonth(t)})
    /\ Quiet

MySchedule(t) ==
    /\ call[t].pc = "mine_list"
    /\ \E got \in Delivered(InMonth(t)) :
          Answer(t, "ok", {intervals[i] : i \in {v \in got :
                              intervals[v].participant = call[t].pid}})
    /\ Quiet

\* day_participants: the ids of a day's intervals, then the rows of those ids.
FindAttendees(t) ==
    /\ call[t].pc = "day"
    /\ LET r == call[t].req
       IN  CASE ~IsOwner(t) -> Answer(t, "permission_denied", NULL)
             [] IsOwner(t) /\ ~is_date_in_month(r.date, call[t].cal.config.month) ->
                    Answer(t, "invalid_input", NULL)
             [] OTHER ->
                    \E got \in Delivered(list_intervals(call[t].id, r.date, r.date)) :
                        call' = [call EXCEPT ![t].pc = "day_list",
                            ![t].got = {intervals[i].participant : i \in got}]
    /\ Quiet

DayParticipants(t) ==
    /\ call[t].pc = "day_list"
    /\ \E got \in DeliveredMembers(ParticipantsIn(call[t].id)) :
          Answer(t, "ok", {participants[p] : p \in got \cap call[t].got})
    /\ Quiet

\* weekly_heatmap and best_windows: the intervals of a week, then the number of
\* participants.  What aggregate_week does with them is in ScheduleAlgorithms and
\* WeekPlan; here only who is counted and out of how many matters.
FindWeek(t) ==
    /\ call[t].pc = "heatmap"
    /\ LET config == call[t].cal.config
           weeks == month_weeks(config.month, config.week_start)
           index == call[t].req.week + 1
       IN  IF index \notin DOMAIN weeks
           THEN Answer(t, "invalid_input", NULL)
           ELSE \E got \in Delivered(list_intervals(call[t].id, weeks[index][1],
                                                    weeks[index][2])) :
                    call' = [call EXCEPT ![t].pc = "heatmap_count",
                        ![t].got = {intervals[i].participant : i \in got}]
    /\ Quiet

WeeklyHeatmap(t) ==
    /\ call[t].pc = "heatmap_count"
    /\ \E total \in {Cardinality(ParticipantsIn(call[t].id))}
                        \cup (IF DiskMayFail THEN {0} ELSE {}) :
          Answer(t, "ok", [counted |-> call[t].got, total |-> total])
    /\ Quiet

\* public_participants: the names that the identity of each member allows.
PublicNames(cal, members) ==
    IF cal.config.modes = {"anonymous"} THEN {}
    ELSE {p.identity.alias.text :
            p \in {q \in members : q.identity.mode = "alias" /\ q.identity.alias # NULL}}
         \cup
         {p.identity.name :
            p \in {q \in members : q.identity.mode = "discord_name"
                                    /\ q.identity.name # NULL}}

PublicParticipants(t) ==
    /\ call[t].pc = "public"
    /\ \E got \in DeliveredMembers(ParticipantsIn(call[t].id)) :
          Answer(t, "ok", PublicNames(call[t].cal, {participants[p] : p \in got}))
    /\ Quiet

-----------------------------------------------------------------------------
(* The service                                                             *)

\* Memory is lost, the database keeps what was committed.
Crash ==
    /\ MayCrash
    /\ calendar_cache_' = << >>
    /\ call' = [t \in Threads |-> Idle]
    /\ UNCHANGED <<db, writes>>

Init ==
    /\ RepoInit
    /\ calendar_cache_ = << >>
    /\ call = [t \in Threads |-> Idle]
    /\ writes = 0

Lookup(t) == CacheHit(t) \/ CacheMiss(t) \/ FindCalendar(t) \/ FillCache(t)
Writing(t) == \/ CreateCalendar(t) \/ AddAvailability(t) \/ StoreDate(t)
              \/ ClearMyData(t) \/ ChangeState(t) \/ DeleteCalendar(t)
              \/ SetCalendarMessage(t) \/ Invalidate(t)
Reading(t) == \/ ViewCalendar(t) \/ CalendarMessage(t) \/ FindMine(t)
              \/ MySchedule(t) \/ FindAttendees(t) \/ DayParticipants(t)
              \/ FindWeek(t) \/ WeeklyHeatmap(t) \/ PublicParticipants(t)

\* A thread goes on with the call it executes.
Work(t) == Lookup(t) \/ Writing(t) \/ Reading(t) \/ Return(t)

Step(t) == Work(t) \/ \E r \in Requests : Begin(t, r)

Next == Crash \/ \E t \in Threads : Step(t)

Spec == Init /\ [][Next]_vars

\* Every thread that executes a call is scheduled again and again; nothing
\* makes a client call.
FairSpec == Spec /\ \A t \in Threads : WF_vars(Work(t))
=============================================================================

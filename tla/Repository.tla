----------------------------- MODULE Repository -----------------------------
(***************************************************************************)
(* SQLiteScheduleRepository: the tables of the schema of migrate() and one *)
(* action per method that writes.  Every method holds mutex_ from its      *)
(* first line to its last, so each is one atomic step.                     *)
(*                                                                         *)
(* A table is a function from the primary keys present to the rows.  An    *)
(* action is enabled exactly when its statement succeeds: a statement that *)
(* breaks a constraint throws database_error and changes nothing, which    *)
(* here is a stuttering step.  There are two exceptions: the statements of *)
(* CreateCalendarFails commit one by one, and an UpsertUndone succeeds in  *)
(* the eyes of its caller.                                                 *)
(***************************************************************************)
EXTENDS Domain, Functions

CONSTANTS
    Durations,  \* the event durations that clients name
    MaxRowId,   \* the largest rowid; AUTOINCREMENT fails (SQLITE_FULL) after it
    MaxRevision \* bound of the model checker on calendars.revision

ASSUME RepositoryAssumption ==
    /\ Durations \subseteq Int
    /\ MaxRowId \in Nat
    /\ MaxRevision \in Nat

VARIABLES
    guilds,       \* guild ids
    channels,     \* channel id -> guild id
    calendars,    \* calendar id -> CalendarRow
    participants, \* participant id -> ParticipantRow
    intervals,    \* interval id -> IntervalRow
    messages,     \* calendar id -> MessageRow
    events,       \* event id -> EventRow
    attendance,   \* <<event id, user>> -> response
    seq           \* sqlite_sequence: the last id handed out, per table

planning == <<guilds, channels, calendars, participants, intervals, messages>>
db == <<guilds, channels, calendars, participants, intervals, messages,
        events, attendance, seq>>

RowIds == 1..MaxRowId
Tables == {"calendars", "participants", "intervals", "events"}

CalendarRow ==
    [guild : Guilds, channel : Channels, creator : Users, config : Configs,
     state : CalendarStates, revision : Nat]
ParticipantRow ==
    [calendar : RowIds, user : Users, identity : Identities]
IntervalRow ==
    [calendar : RowIds, participant : RowIds, date : Dates, span : Spans]
MessageRow ==
    [guild : Guilds, channel : Channels, message : MessageIds, week : Weeks]
EventRow == [source : Optional(RowIds), creator : Users, duration : Int]

Put(f, key, row) == [k \in DOMAIN f \cup {key} |-> IF k = key THEN row ELSE f[k]]
Without(f, keys) == Restrict(f, DOMAIN f \ keys)

RepoInit ==
    /\ guilds = {}
    /\ channels = << >>
    /\ calendars = << >>
    /\ participants = << >>
    /\ intervals = << >>
    /\ messages = << >>
    /\ events = << >>
    /\ attendance = << >>
    /\ seq = [table \in Tables |-> 0]

-----------------------------------------------------------------------------
(* AUTOINCREMENT: ids grow and are never handed out twice.                 *)

CanDraw(table) == seq[table] < MaxRowId

\* Mutants: ids without AUTOINCREMENT, one more than the largest row of the
\* calendars or participants that is left; a sequence that does not advance.
ReusedId(table) ==
    LET rows == CASE table = "calendars" -> DOMAIN calendars
                  [] table = "participants" -> DOMAIN participants
                  [] OTHER -> 1..seq[table]
    IN  CHOOSE n \in RowIds : /\ \A k \in rows : k < n
                              /\ \A m \in 1..(n - 1) : \E k \in rows : m <= k
DrawNothing(table) == UNCHANGED seq

NextId(table)  == seq[table] + 1
Draw(table)    == seq' = [seq EXCEPT ![table] = @ + 1]

-----------------------------------------------------------------------------
(* Calendars                                                               *)

\* Mutant: the channel is not inserted.
NoChannel(c) == UNCHANGED channels

PlaceGuild(c)   == guilds' = guilds \cup {c.guild}
PlaceChannel(c) == channels' = IF c.channel \in DOMAIN channels THEN channels
                               ELSE Put(channels, c.channel, c.guild)

\* INSERT OR IGNORE guild, INSERT OR IGNORE channel, INSERT calendar.
create_calendar(c) ==
    /\ CanDraw("calendars")
    /\ PlaceGuild(c)
    /\ PlaceChannel(c)
    /\ calendars' = Put(calendars, NextId("calendars"), c)
    /\ Draw("calendars")
    /\ UNCHANGED <<participants, intervals, messages, events, attendance>>

\* The second or the third statement fails: what precedes it is committed.
CreateCalendarFails(c) ==
    /\ PlaceGuild(c)
    /\ PlaceChannel(c) \/ UNCHANGED channels
    /\ UNCHANGED <<calendars, participants, intervals, messages, events,
                   attendance, seq>>

update_calendar_state(id, state) ==
    /\ calendars' = IF id \in DOMAIN calendars
                    THEN [calendars EXCEPT ![id].state = state,
                                           ![id].revision = @ + 1]
                    ELSE calendars
    /\ UNCHANGED <<guilds, channels, participants, intervals, messages, events,
                   attendance, seq>>

ParticipantsIn(id) == {p \in DOMAIN participants : participants[p].calendar = id}

\* Mutants: foreign keys are not enforced; the events are deleted as well.
DeleteCalendarOnly(id) ==
    /\ calendars' = Without(calendars, {id})
    /\ UNCHANGED <<guilds, channels, participants, intervals, messages, events,
                   attendance, seq>>
DeleteWithEvents(id) ==
    LET gone == {e \in DOMAIN events : events[e].source = id}
    IN  /\ calendars' = Without(calendars, {id})
        /\ participants' = Without(participants, ParticipantsIn(id))
        /\ intervals' = Without(intervals,
                {i \in DOMAIN intervals : intervals[i].calendar = id})
        /\ messages' = Without(messages, {id})
        /\ events' = Without(events, gone)
        /\ attendance' = Without(attendance, gone \X Users)
        /\ UNCHANGED <<guilds, channels, seq>>

\* ON DELETE CASCADE for the planning rows, ON DELETE SET NULL for the events.
delete_calendar(id) ==
    /\ calendars' = Without(calendars, {id})
    /\ participants' = Without(participants, ParticipantsIn(id))
    /\ intervals' = Without(intervals,
                        {i \in DOMAIN intervals :
                            \/ intervals[i].calendar = id
                            \/ intervals[i].participant \in ParticipantsIn(id)})
    /\ messages' = Without(messages, {id})
    /\ events' = [e \in DOMAIN events |->
                    IF events[e].source = id
                    THEN [events[e] EXCEPT !.source = NULL]
                    ELSE events[e]]
    /\ UNCHANGED <<guilds, channels, attendance, seq>>

-----------------------------------------------------------------------------
(* Participants and their intervals                                        *)

Same(p, q) == p.calendar = q.calendar /\ p.user = q.user

Matching(row)  == {p \in DOMAIN participants : Same(participants[p], row)}
\* The id that INSERT ... ON CONFLICT DO UPDATE ... RETURNING id returns.
UpsertId(row)  == IF Matching(row) = {} THEN NextId("participants")
                  ELSE CHOOSE p \in Matching(row) : TRUE

\* alias_key = lower(alias); NULLs never collide in a UNIQUE index.
alias_key(row) == IF row.identity.alias = NULL THEN NULL
                  ELSE row.identity.alias.key

\* Mutants: aliases are compared as written; with the own row as well.
AliasFreeAsWritten(row) ==
    row.identity.alias # NULL =>
        \A p \in ParticipantsIn(row.calendar) :
            participants[p].identity.alias = row.identity.alias
                => participants[p].user = row.user
AliasFreeFromAll(row) ==
    alias_key(row) # NULL =>
        \A p \in ParticipantsIn(row.calendar) :
            alias_key(participants[p]) # alias_key(row)

AliasFree(row) ==
    alias_key(row) # NULL =>
        \A p \in ParticipantsIn(row.calendar) :
            alias_key(participants[p]) = alias_key(row)
                => participants[p].user = row.user

CanUpsert(row) == /\ row.calendar \in DOMAIN calendars
                  /\ AliasFree(row)
                  /\ Matching(row) # {} \/ CanDraw("participants")

\* The commit fails as the statement, stepped to its row and no further, is
\* finalized, which nobody looks at: the row and its number are gone, and the id
\* is returned all the same.
UpsertUndone(row) == CanUpsert(row) /\ UNCHANGED db

\* An update also skips a number of the sequence; the model leaves that out,
\* since only the freshness of an id means anything.
upsert_participant(row) ==
    /\ CanUpsert(row)
    /\ participants' = Put(participants, UpsertId(row), row)
    /\ IF Matching(row) = {} THEN Draw("participants") ELSE UNCHANGED seq
    /\ UNCHANGED <<guilds, channels, calendars, intervals, messages, events,
                   attendance>>

\* CHECK(start_minute >= 0 AND end_minute <= 1440 AND start_minute < end_minute)
SpanOk(s) == s.start >= 0 /\ s.end <= 1440 /\ s.start < s.end

CanAddInterval(row) ==
    /\ row.calendar \in DOMAIN calendars
    /\ row.participant \in DOMAIN participants
    /\ SpanOk(row.span)
    /\ CanDraw("intervals")

\* One transaction: the row and the revision of its calendar.
add_interval(row) ==
    /\ CanAddInterval(row)
    /\ intervals' = Put(intervals, NextId("intervals"), row)
    /\ Draw("intervals")
    /\ calendars' = [calendars EXCEPT ![row.calendar].revision = @ + 1]
    /\ UNCHANGED <<guilds, channels, participants, messages, events, attendance>>

IntervalsOf(ps) == {i \in DOMAIN intervals : intervals[i].participant \in ps}

remove_interval(id, owner) ==
    /\ intervals' = Without(intervals, {id} \cap IntervalsOf({owner}))
    /\ UNCHANGED <<guilds, channels, calendars, participants, messages, events,
                   attendance, seq>>

\* Mutant: every member of the calendar is cleared.
ClearAll(cid, uid) ==
    LET gone == ParticipantsIn(cid)
    IN  /\ participants' = Without(participants, gone)
        /\ intervals' = Without(intervals, IntervalsOf(gone))
        /\ UNCHANGED <<guilds, channels, calendars, messages, events,
                       attendance, seq>>

clear_participant(cid, uid) ==
    LET gone == {p \in ParticipantsIn(cid) : participants[p].user = uid}
    IN  /\ participants' = Without(participants, gone)
        /\ intervals' = Without(intervals, IntervalsOf(gone))
        /\ UNCHANGED <<guilds, channels, calendars, messages, events,
                       attendance, seq>>

-----------------------------------------------------------------------------
(* The public message, the events and their attendance                     *)

set_calendar_message(cid, row) ==
    /\ cid \in DOMAIN calendars
    /\ messages' = Put(messages, cid, row)
    /\ UNCHANGED <<guilds, channels, calendars, participants, intervals, events,
                   attendance, seq>>

create_event(row) ==
    /\ row.source \in Optional(DOMAIN calendars)
    /\ row.duration > 0
    /\ CanDraw("events")
    /\ events' = Put(events, NextId("events"), row)
    /\ Draw("events")
    /\ UNCHANGED <<planning, attendance>>

set_attendance(eid, uid, response) ==
    /\ eid \in DOMAIN events
    /\ attendance' = Put(attendance, <<eid, uid>>, response)
    /\ UNCHANGED <<planning, events, seq>>

-----------------------------------------------------------------------------
(* The methods that read                                                   *)

find_participant(cid, uid) ==
    {p \in DOMAIN participants : Same(participants[p], [calendar |-> cid, user |-> uid])}

list_intervals(cid, first, last) ==
    {i \in DOMAIN intervals : /\ intervals[i].calendar = cid
                              /\ DateLeq(first, intervals[i].date)
                              /\ DateLeq(intervals[i].date, last)}

list_open_calendars(guild, channel) ==
    {c \in DOMAIN calendars : /\ calendars[c].guild = guild
                              /\ calendars[c].channel = channel
                              /\ calendars[c].state = "open"}

-----------------------------------------------------------------------------
(* What any client of the interface may do                                 *)

NewCalendar == [guild : Guilds, channel : Channels, creator : Users,
                config : Configs, state : {"open"}, revision : {1}]

CalendarStep ==
    \/ \E c \in NewCalendar : /\ c.guild = GuildOf[c.channel]
                              /\ create_calendar(c) \/ CreateCalendarFails(c)
    \/ \E id \in RowIds, state \in CalendarStates : update_calendar_state(id, state)
    \/ \E id \in RowIds : delete_calendar(id)
    \/ \E id \in RowIds, row \in MessageRow : set_calendar_message(id, row)

ParticipantStep ==
    \/ \E row \in ParticipantRow : upsert_participant(row)
    \/ \E id \in RowIds, u \in Users : clear_participant(id, u)

IntervalStep ==
    \/ \E row \in IntervalRow : add_interval(row)
    \/ \E id, owner \in RowIds : remove_interval(id, owner)

EventStep ==
    \/ \E source \in Optional(RowIds), u \in Users, duration \in Durations :
            create_event([source |-> source, creator |-> u, duration |-> duration])
    \/ \E id \in RowIds, u \in Users, r \in Responses : set_attendance(id, u, r)

RepoStep == CalendarStep \/ ParticipantStep \/ IntervalStep \/ EventStep

RepoSpec == RepoInit /\ [][RepoStep]_db

\* The instance TLC explores: revisions stop at MaxRevision.
WithinBounds == \A c \in DOMAIN calendars : calendars[c].revision <= MaxRevision
BoundedStep == RepoStep /\ WithinBounds'
BoundedSpec == RepoInit /\ [][BoundedStep]_db

-----------------------------------------------------------------------------
(* Properties                                                              *)

\* Every table holds rows of its schema under ids that were handed out.
RepoTypeOK ==
    /\ guilds \subseteq Guilds
    /\ DOMAIN channels \subseteq Channels
    /\ channels \in [DOMAIN channels -> Guilds]
    /\ seq \in [Tables -> 0..MaxRowId]
    /\ DOMAIN calendars \subseteq 1..seq["calendars"]
    /\ calendars \in [DOMAIN calendars -> CalendarRow]
    /\ DOMAIN participants \subseteq 1..seq["participants"]
    /\ participants \in [DOMAIN participants -> ParticipantRow]
    /\ DOMAIN intervals \subseteq 1..seq["intervals"]
    /\ intervals \in [DOMAIN intervals -> IntervalRow]
    /\ messages \in [DOMAIN messages -> MessageRow]
    /\ DOMAIN events \subseteq 1..seq["events"]
    /\ events \in [DOMAIN events -> EventRow]
    /\ attendance \in [DOMAIN attendance -> Responses]
    /\ DOMAIN attendance \subseteq (DOMAIN events) \X Users

\* No row refers to a row that is gone, whatever was deleted in which order
\* (the cascades of delete_calendar and clear_participant): a dangling interval
\* would be counted in a heatmap and belong to nobody who can clear it.
ReferentialIntegrity ==
    /\ \A p \in DOMAIN participants : participants[p].calendar \in DOMAIN calendars
    /\ \A i \in DOMAIN intervals :
          /\ intervals[i].calendar \in DOMAIN calendars
          /\ intervals[i].participant \in DOMAIN participants
    /\ DOMAIN messages \subseteq DOMAIN calendars
    /\ \A e \in DOMAIN events : events[e].source \in Optional(DOMAIN calendars)

\* A calendar is never stored before the guild and the channel it is posted in,
\* also when create_calendar stops between its three commits.
CalendarsPlaced ==
    \A c \in DOMAIN calendars :
        /\ calendars[c].guild \in guilds
        /\ calendars[c].channel \in DOMAIN channels
        /\ channels[calendars[c].channel] = calendars[c].guild

\* One record per member and calendar, and no two members of a calendar under
\* aliases that differ only in case, also after upserts that rename a member.
UniqueKeys ==
    \A p, q \in DOMAIN participants :
        p # q /\ participants[p].calendar = participants[q].calendar =>
            /\ participants[p].user # participants[q].user
            /\ alias_key(participants[p]) # NULL
                    => alias_key(participants[p]) # alias_key(participants[q])

\* An id never comes to denote another thing: it keeps its member (upsert
\* rewrites the identity only) and, once deleted, is never handed out again.
\* ScheduleService holds ids over several calls and relies on it.
MeaningKept ==
    /\ \A p \in DOMAIN participants' :
            IF p \in DOMAIN participants
            THEN Same(participants'[p], participants[p])
            ELSE p > seq["participants"]
    /\ \A c \in DOMAIN calendars' :
            IF c \in DOMAIN calendars
            THEN calendars'[c].creator = calendars[c].creator
            ELSE c > seq["calendars"]
IdsKeepTheirMeaning == [][MeaningKept]_db

\* Deleting a calendar or a member never takes an event or an answer to it
\* away: an event outlives its source calendar, which becomes NULL.
EventsKept ==
    /\ DOMAIN events \subseteq DOMAIN events'
    /\ DOMAIN attendance \subseteq DOMAIN attendance'
    /\ \A e \in DOMAIN events : events'[e].source \in {events[e].source, NULL}
EventsSurvive == [][EventsKept]_db
=============================================================================

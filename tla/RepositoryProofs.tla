-------------------------- MODULE RepositoryProofs --------------------------
(***************************************************************************)
(* What holds of the tables for every number of users, calendars and rows. *)
(***************************************************************************)
EXTENDS Repository, TLAPS

-----------------------------------------------------------------------------
(* Tables as functions                                                     *)

LEMMA PutFacts ==
    ASSUME NEW f, NEW key, NEW row
    PROVE  /\ DOMAIN Put(f, key, row) = DOMAIN f \cup {key}
           /\ Put(f, key, row)[key] = row
           /\ \A k \in DOMAIN f : k # key => Put(f, key, row)[k] = f[k]
    BY DEF Put

LEMMA PutType ==
    ASSUME NEW f, NEW key, NEW Rows, NEW row \in Rows, f \in [DOMAIN f -> Rows]
    PROVE  Put(f, key, row) \in [DOMAIN Put(f, key, row) -> Rows]
    BY DEF Put

LEMMA WithoutFacts ==
    ASSUME NEW f, NEW keys
    PROVE  /\ DOMAIN Without(f, keys) = DOMAIN f \ keys
           /\ \A k \in DOMAIN f \ keys : Without(f, keys)[k] = f[k]
    BY DEF Without, Restrict

LEMMA WithoutType ==
    ASSUME NEW f, NEW keys, NEW Rows, f \in [DOMAIN f -> Rows]
    PROVE  /\ DOMAIN Without(f, keys) \subseteq DOMAIN f
           /\ Without(f, keys) \in [DOMAIN Without(f, keys) -> Rows]
    BY DEF Without, Restrict

-----------------------------------------------------------------------------
(* Ids                                                                     *)

\* A drawn id is a row id above all that were drawn before.
LEMMA DrawFacts ==
    ASSUME seq \in [Tables -> 0..MaxRowId], NEW table \in Tables,
           CanDraw(table), Draw(table)
    PROVE  /\ NextId(table) \in RowIds
           /\ seq'[table] = NextId(table)
           /\ 1..seq[table] \subseteq 1..seq'[table]
           /\ NextId(table) \in 1..seq'[table]
           /\ NextId(table) \notin 1..seq[table]
           /\ \A other \in Tables \ {table} : seq'[other] = seq[other]
           /\ seq' \in [Tables -> 0..MaxRowId]
<1>1. /\ MaxRowId \in Nat
      /\ seq[table] \in 0..MaxRowId
      /\ seq[table] + 1 \in 1..MaxRowId
    BY RepositoryAssumption DEF CanDraw
<1>2. /\ seq' = [seq EXCEPT ![table] = seq[table] + 1]
      /\ seq'[table] = seq[table] + 1
      /\ \A other \in Tables \ {table} : seq'[other] = seq[other]
    BY DEF Draw
<1>3. seq' \in [Tables -> 0..MaxRowId]
    BY <1>1, <1>2
<1> QED
    BY <1>1, <1>2, <1>3 DEF NextId, RowIds

-----------------------------------------------------------------------------
(* Type correctness, table by table: what an action adds is a row.         *)

LEMMA TypeInit == RepoInit => RepoTypeOK
BY RepositoryAssumption
DEF RepoInit, RepoTypeOK, Tables

LEMMA TypeCreateCalendar ==
    ASSUME RepoTypeOK, NEW c \in NewCalendar, create_calendar(c)
    PROVE  RepoTypeOK'
<1>1. c \in CalendarRow
    BY DEF NewCalendar, CalendarRow, CalendarStates
<1>2. guilds' \subseteq Guilds
    BY <1>1 DEF RepoTypeOK, create_calendar, PlaceGuild, CalendarRow
<1>3. DOMAIN channels' \subseteq Channels /\ channels' \in [DOMAIN channels' -> Guilds]
  <2>1. c.channel \in Channels /\ c.guild \in Guilds
      BY <1>1 DEF CalendarRow
  <2>2. DOMAIN channels \subseteq Channels /\ channels \in [DOMAIN channels -> Guilds]
      BY DEF RepoTypeOK
  <2>3. channels' = channels \/ channels' = Put(channels, c.channel, c.guild)
      BY DEF create_calendar, PlaceChannel
  <2>4. CASE channels' = Put(channels, c.channel, c.guild)
    <3>1. DOMAIN channels' = DOMAIN channels \cup {c.channel}
        BY <2>4 DEF Put
    <3>2. channels' \in [DOMAIN channels' -> Guilds]
        BY <2>1, <2>2, <2>4, PutType
    <3> QED
        BY <2>1, <2>2, <3>1, <3>2
  <2> QED
      BY <2>2, <2>3, <2>4
<1>4. /\ seq' \in [Tables -> 0..MaxRowId]
      /\ \A other \in Tables \ {"calendars"} : seq'[other] = seq[other]
    BY DrawFacts DEF RepoTypeOK, create_calendar, Tables
<1>5. calendars' = Put(calendars, NextId("calendars"), c)
    BY DEF create_calendar
<1>6. DOMAIN calendars' \subseteq 1..seq'["calendars"]
  <2>1. /\ 1..seq["calendars"] \subseteq 1..seq'["calendars"]
        /\ NextId("calendars") \in 1..seq'["calendars"]
      BY DrawFacts DEF RepoTypeOK, create_calendar, Tables
  <2>2. DOMAIN calendars' = DOMAIN calendars \cup {NextId("calendars")}
      BY <1>5, PutFacts
  <2>3. DOMAIN calendars \subseteq 1..seq["calendars"]
      BY DEF RepoTypeOK
  <2> QED
      BY <2>1, <2>2, <2>3
<1>7. calendars' \in [DOMAIN calendars' -> CalendarRow]
    BY <1>1, <1>5, PutType DEF RepoTypeOK
<1> QED
    BY <1>2, <1>3, <1>4, <1>6, <1>7 DEF RepoTypeOK, create_calendar, Tables

LEMMA TypeCreateCalendarFails ==
    ASSUME RepoTypeOK, NEW c \in NewCalendar, CreateCalendarFails(c)
    PROVE  RepoTypeOK'
<1>1. c \in CalendarRow
    BY DEF NewCalendar, CalendarRow, CalendarStates
<1>2. guilds' \subseteq Guilds
    BY <1>1 DEF RepoTypeOK, CreateCalendarFails, PlaceGuild, CalendarRow
<1>3. DOMAIN channels' \subseteq Channels /\ channels' \in [DOMAIN channels' -> Guilds]
  <2>1. c.channel \in Channels /\ c.guild \in Guilds
      BY <1>1 DEF CalendarRow
  <2>2. DOMAIN channels \subseteq Channels /\ channels \in [DOMAIN channels -> Guilds]
      BY DEF RepoTypeOK
  <2>3. channels' = channels \/ channels' = Put(channels, c.channel, c.guild)
      BY DEF CreateCalendarFails, PlaceChannel
  <2>4. CASE channels' = Put(channels, c.channel, c.guild)
    <3>1. DOMAIN channels' = DOMAIN channels \cup {c.channel}
        BY <2>4 DEF Put
    <3>2. channels' \in [DOMAIN channels' -> Guilds]
        BY <2>1, <2>2, <2>4, PutType
    <3> QED
        BY <2>1, <2>2, <3>1, <3>2
  <2> QED
      BY <2>2, <2>3, <2>4
<1> QED
    BY <1>2, <1>3 DEF RepoTypeOK, CreateCalendarFails

LEMMA TypeUpdateState ==
    ASSUME RepoTypeOK, NEW id \in RowIds, NEW state \in CalendarStates,
           update_calendar_state(id, state)
    PROVE  RepoTypeOK'
<1>1. CASE id \in DOMAIN calendars
  <2>1. calendars[id] \in CalendarRow
      BY <1>1 DEF RepoTypeOK
  <2>2. [calendars[id] EXCEPT !.state = state,
                              !.revision = calendars[id].revision + 1] \in CalendarRow
    <3>1. /\ [calendars[id] EXCEPT !.state = state] \in CalendarRow
          /\ [calendars[id] EXCEPT !.state = state].revision \in Nat
        BY <2>1 DEF CalendarRow
    <3>2. \A row \in CalendarRow, n \in Nat :
             [row EXCEPT !.revision = n] \in CalendarRow
        BY DEF CalendarRow
    <3>3. calendars[id].revision + 1 \in Nat
        BY <2>1 DEF CalendarRow
    <3>4. [calendars[id] EXCEPT !.state = state, !.revision = calendars[id].revision + 1]
            = [[calendars[id] EXCEPT !.state = state]
                    EXCEPT !.revision = calendars[id].revision + 1]
        BY <2>1 DEF CalendarRow
    <3> QED
        BY <3>1, <3>2, <3>3, <3>4
  <2>3. /\ DOMAIN calendars' = DOMAIN calendars
        /\ calendars' \in [DOMAIN calendars -> CalendarRow]
      BY <1>1, <2>2 DEF RepoTypeOK, update_calendar_state
  <2> QED
      BY <2>3 DEF RepoTypeOK, update_calendar_state
<1>2. CASE id \notin DOMAIN calendars
    BY <1>2 DEF RepoTypeOK, update_calendar_state
<1> QED
    BY <1>1, <1>2

LEMMA TypeDeleteCalendar ==
    ASSUME RepoTypeOK, NEW id \in RowIds, delete_calendar(id)
    PROVE  RepoTypeOK'
<1>1. /\ DOMAIN calendars' \subseteq DOMAIN calendars
      /\ calendars' \in [DOMAIN calendars' -> CalendarRow]
  <2>1. PICK keys : calendars' = Without(calendars, keys)
      BY DEF delete_calendar
  <2> QED
      BY <2>1, WithoutType DEF RepoTypeOK
<1>2. /\ DOMAIN participants' \subseteq DOMAIN participants
      /\ participants' \in [DOMAIN participants' -> ParticipantRow]
  <2>1. PICK keys : participants' = Without(participants, keys)
      BY DEF delete_calendar
  <2> QED
      BY <2>1, WithoutType DEF RepoTypeOK
<1>3. /\ DOMAIN intervals' \subseteq DOMAIN intervals
      /\ intervals' \in [DOMAIN intervals' -> IntervalRow]
  <2>1. PICK keys : intervals' = Without(intervals, keys)
      BY DEF delete_calendar
  <2> QED
      BY <2>1, WithoutType DEF RepoTypeOK
<1>4. messages' \in [DOMAIN messages' -> MessageRow]
  <2>1. messages' = Without(messages, {id})
      BY DEF delete_calendar
  <2> QED
      BY <2>1, WithoutType DEF RepoTypeOK
<1>5. DOMAIN events' = DOMAIN events /\ events' \in [DOMAIN events -> EventRow]
  <2>1. \A e \in DOMAIN events :
            /\ events[e] \in EventRow
            /\ [events[e] EXCEPT !.source = NULL] \in EventRow
      BY DEF RepoTypeOK, EventRow, Optional
  <2> QED
      BY <2>1 DEF delete_calendar
<1> QED
    BY <1>1, <1>2, <1>3, <1>4, <1>5 DEF RepoTypeOK, delete_calendar

LEMMA TypeSetMessage ==
    ASSUME RepoTypeOK, NEW cid, NEW row \in MessageRow,
           set_calendar_message(cid, row)
    PROVE  RepoTypeOK'
<1>1. messages' \in [DOMAIN messages' -> MessageRow]
  <2>1. messages' = Put(messages, cid, row)
      BY DEF set_calendar_message
  <2> QED
      BY <2>1, PutType DEF RepoTypeOK
<1> QED
    BY <1>1 DEF RepoTypeOK, set_calendar_message

\* The id of an upsert is new or the id of the row it replaces.
LEMMA UpsertIdFacts ==
    ASSUME NEW row
    PROVE  IF Matching(row) = {} THEN UpsertId(row) = NextId("participants")
           ELSE UpsertId(row) \in Matching(row)
    BY DEF UpsertId

LEMMA TypeUpsert ==
    ASSUME RepoTypeOK, NEW row \in ParticipantRow, upsert_participant(row)
    PROVE  RepoTypeOK'
<1>1. participants' = Put(participants, UpsertId(row), row)
    BY DEF upsert_participant
<1>2. participants' \in [DOMAIN participants' -> ParticipantRow]
    BY <1>1, PutType DEF RepoTypeOK
<1>3. DOMAIN participants' = DOMAIN participants \cup {UpsertId(row)}
    BY <1>1 DEF Put
<1>4. DOMAIN participants \subseteq 1..seq["participants"]
    BY DEF RepoTypeOK
<1>5. CASE Matching(row) = {}
  <2>1. /\ seq' \in [Tables -> 0..MaxRowId]
        /\ \A other \in Tables \ {"participants"} : seq'[other] = seq[other]
        /\ 1..seq["participants"] \subseteq 1..seq'["participants"]
        /\ NextId("participants") \in 1..seq'["participants"]
      BY <1>5, DrawFacts
      DEF RepoTypeOK, upsert_participant, CanUpsert, Tables
  <2>2. DOMAIN participants' \subseteq 1..seq'["participants"]
      BY <1>3, <1>4, <1>5, <2>1, UpsertIdFacts
  <2> QED
      BY <1>2, <2>1, <2>2 DEF RepoTypeOK, upsert_participant, Tables
<1>6. CASE Matching(row) # {}
  <2>1. DOMAIN participants' = DOMAIN participants
      BY <1>3, <1>6, UpsertIdFacts DEF Matching
  <2> QED
      BY <1>2, <1>4, <1>6, <2>1 DEF RepoTypeOK, upsert_participant
<1> QED
    BY <1>5, <1>6

LEMMA TypeClear ==
    ASSUME RepoTypeOK, NEW cid, NEW uid, clear_participant(cid, uid)
    PROVE  RepoTypeOK'
<1>1. PICK gone : participants' = Without(participants, gone)
    BY DEF clear_participant
<1>2. PICK lost : intervals' = Without(intervals, lost)
    BY DEF clear_participant
<1>3. /\ DOMAIN participants' \subseteq DOMAIN participants
      /\ participants' \in [DOMAIN participants' -> ParticipantRow]
    BY <1>1, WithoutType DEF RepoTypeOK
<1>4. /\ DOMAIN intervals' \subseteq DOMAIN intervals
      /\ intervals' \in [DOMAIN intervals' -> IntervalRow]
    BY <1>2, WithoutType DEF RepoTypeOK
<1> QED
    BY <1>3, <1>4 DEF RepoTypeOK, clear_participant

LEMMA TypeAddInterval ==
    ASSUME RepoTypeOK, NEW row \in IntervalRow, add_interval(row)
    PROVE  RepoTypeOK'
<1>1. intervals' = Put(intervals, NextId("intervals"), row)
    BY DEF add_interval
<1>2. intervals' \in [DOMAIN intervals' -> IntervalRow]
    BY <1>1, PutType DEF RepoTypeOK
<1>3. /\ seq' \in [Tables -> 0..MaxRowId]
      /\ \A other \in Tables \ {"intervals"} : seq'[other] = seq[other]
      /\ 1..seq["intervals"] \subseteq 1..seq'["intervals"]
      /\ NextId("intervals") \in 1..seq'["intervals"]
    BY DrawFacts DEF RepoTypeOK, add_interval, CanAddInterval, Tables
<1>4. DOMAIN intervals' \subseteq 1..seq'["intervals"]
  <2>1. DOMAIN intervals' = DOMAIN intervals \cup {NextId("intervals")}
      BY <1>1 DEF Put
  <2>2. DOMAIN intervals \subseteq 1..seq["intervals"]
      BY DEF RepoTypeOK
  <2> QED
      BY <1>3, <2>1, <2>2
<1>5. DOMAIN calendars' = DOMAIN calendars /\ calendars' \in [DOMAIN calendars -> CalendarRow]
  <2>1. \A c \in DOMAIN calendars :
           [calendars[c] EXCEPT !.revision = calendars[c].revision + 1] \in CalendarRow
      BY DEF RepoTypeOK, CalendarRow
  <2>2. row.calendar \in DOMAIN calendars
      BY DEF add_interval, CanAddInterval
  <2> QED
      BY <2>1, <2>2 DEF RepoTypeOK, add_interval
<1> QED
    BY <1>2, <1>3, <1>4, <1>5 DEF RepoTypeOK, add_interval, Tables

LEMMA TypeRemoveInterval ==
    ASSUME RepoTypeOK, NEW id, NEW owner, remove_interval(id, owner)
    PROVE  RepoTypeOK'
<1>1. PICK lost : intervals' = Without(intervals, lost)
    BY DEF remove_interval
<1>2. /\ DOMAIN intervals' \subseteq DOMAIN intervals
      /\ intervals' \in [DOMAIN intervals' -> IntervalRow]
    BY <1>1, WithoutType DEF RepoTypeOK
<1> QED
    BY <1>2 DEF RepoTypeOK, remove_interval

LEMMA TypeCreateEvent ==
    ASSUME RepoTypeOK, NEW row \in EventRow, create_event(row)
    PROVE  RepoTypeOK'
<1>1. events' = Put(events, NextId("events"), row)
    BY DEF create_event
<1>2. events' \in [DOMAIN events' -> EventRow]
    BY <1>1, PutType DEF RepoTypeOK
<1>3. /\ seq' \in [Tables -> 0..MaxRowId]
      /\ \A other \in Tables \ {"events"} : seq'[other] = seq[other]
      /\ 1..seq["events"] \subseteq 1..seq'["events"]
      /\ NextId("events") \in 1..seq'["events"]
    BY DrawFacts DEF RepoTypeOK, create_event, Tables
<1>4. DOMAIN events' = DOMAIN events \cup {NextId("events")}
    BY <1>1 DEF Put
<1>5. DOMAIN events' \subseteq 1..seq'["events"]
  <2>1. DOMAIN events \subseteq 1..seq["events"]
      BY DEF RepoTypeOK
  <2> QED
      BY <1>3, <1>4, <2>1
<1> QED
    BY <1>2, <1>3, <1>4, <1>5 DEF RepoTypeOK, create_event, planning, Tables

LEMMA TypeSetAttendance ==
    ASSUME RepoTypeOK, NEW eid, NEW uid \in Users, NEW response \in Responses,
           set_attendance(eid, uid, response)
    PROVE  RepoTypeOK'
<1>1. attendance' = Put(attendance, <<eid, uid>>, response)
    BY DEF set_attendance
<1>2. attendance' \in [DOMAIN attendance' -> Responses]
    BY <1>1, PutType DEF RepoTypeOK
<1>3. DOMAIN attendance' = DOMAIN attendance \cup {<<eid, uid>>}
    BY <1>1 DEF Put
<1> QED
    BY <1>2, <1>3 DEF RepoTypeOK, set_attendance, planning

LEMMA TypeStep == RepoTypeOK /\ [RepoStep]_db => RepoTypeOK'
<1> SUFFICES ASSUME RepoTypeOK, [RepoStep]_db PROVE RepoTypeOK'
    OBVIOUS
<1>1. CASE CalendarStep
    BY <1>1, TypeCreateCalendar, TypeCreateCalendarFails, TypeUpdateState,
       TypeDeleteCalendar, TypeSetMessage
    DEF CalendarStep
<1>2. CASE ParticipantStep
    BY <1>2, TypeUpsert, TypeClear DEF ParticipantStep
<1>3. CASE IntervalStep
    BY <1>3, TypeAddInterval, TypeRemoveInterval DEF IntervalStep
<1>4. CASE EventStep
  <2>1. \A source \in Optional(RowIds), u \in Users, duration \in Durations :
           [source |-> source, creator |-> u, duration |-> duration] \in EventRow
      BY RepositoryAssumption DEF EventRow
  <2> QED
      BY <1>4, <2>1, TypeCreateEvent, TypeSetAttendance DEF EventStep
<1>5. CASE UNCHANGED db
    BY <1>5 DEF db, RepoTypeOK
<1> QED
    BY <1>1, <1>2, <1>3, <1>4, <1>5 DEF RepoStep

\* Every table holds rows of its schema under ids that were handed out, whatever
\* the clients of the repository do.
THEOREM RepoTypeCorrect == RepoSpec => []RepoTypeOK
<1>1. RepoInit => RepoTypeOK
    BY TypeInit
<1>2. RepoTypeOK /\ [RepoStep]_db => RepoTypeOK'
    BY TypeStep
<1> QED
    BY <1>1, <1>2, PTL DEF RepoSpec

-----------------------------------------------------------------------------
(* Referential integrity.  It is inductive together with RepoTypeOK, which *)
(* says that the tables are functions.                                     *)

LEMMA RefsCreateCalendar ==
    ASSUME ReferentialIntegrity, NEW c, create_calendar(c)
    PROVE  ReferentialIntegrity'
<1>1. DOMAIN calendars' = DOMAIN calendars \cup {NextId("calendars")}
    BY DEF create_calendar, Put
<1> QED
    BY <1>1 DEF ReferentialIntegrity, create_calendar, Optional

LEMMA RefsUpdateState ==
    ASSUME ReferentialIntegrity, NEW id, NEW state,
           update_calendar_state(id, state)
    PROVE  ReferentialIntegrity'
<1>1. DOMAIN calendars' = DOMAIN calendars
    BY DEF update_calendar_state
<1> QED
    BY <1>1 DEF ReferentialIntegrity, update_calendar_state, Optional

\* What is left refers to what is left: the participants and the messages of
\* other calendars, the intervals of other participants in other calendars.
LEMMA RefsDeleteCalendar ==
    ASSUME RepoTypeOK, ReferentialIntegrity, NEW id, delete_calendar(id)
    PROVE  ReferentialIntegrity'
<1>1. DOMAIN calendars' = DOMAIN calendars \ {id}
    BY WithoutFacts DEF delete_calendar
<1>2. /\ DOMAIN participants' = DOMAIN participants \ ParticipantsIn(id)
      /\ \A p \in DOMAIN participants' : participants'[p] = participants[p]
  <2>1. participants' = Without(participants, ParticipantsIn(id))
      BY DEF delete_calendar
  <2> QED
      BY <2>1 DEF Without, Restrict
<1>3. /\ DOMAIN intervals' \subseteq DOMAIN intervals
      /\ \A i \in DOMAIN intervals' :
            /\ intervals'[i] = intervals[i]
            /\ intervals[i].calendar # id
            /\ intervals[i].participant \notin ParticipantsIn(id)
  <2>1. PICK lost : /\ intervals' = Without(intervals, lost)
                    /\ \A i \in DOMAIN intervals \ lost :
                          /\ intervals[i].calendar # id
                          /\ intervals[i].participant \notin ParticipantsIn(id)
    <3> DEFINE lost == {i \in DOMAIN intervals :
                            \/ intervals[i].calendar = id
                            \/ intervals[i].participant \in ParticipantsIn(id)}
    <3>1. intervals' = Without(intervals, lost)
        BY DEF delete_calendar
    <3> QED
        BY <3>1
  <2> QED
      BY <2>1 DEF Without, Restrict
<1>4. DOMAIN messages' = DOMAIN messages \ {id}
    BY WithoutFacts DEF delete_calendar
<1>5. \A e \in DOMAIN events' :
         /\ e \in DOMAIN events
         /\ events'[e].source = IF events[e].source = id THEN NULL
                                ELSE events[e].source
    BY DEF delete_calendar, RepoTypeOK, EventRow
<1>6. \A p \in DOMAIN participants' : participants'[p].calendar \in DOMAIN calendars'
    BY <1>1, <1>2 DEF ReferentialIntegrity, ParticipantsIn
<1>7. \A i \in DOMAIN intervals' :
         /\ intervals'[i].calendar \in DOMAIN calendars'
         /\ intervals'[i].participant \in DOMAIN participants'
    BY <1>1, <1>2, <1>3 DEF ReferentialIntegrity
<1>8. \A e \in DOMAIN events' : events'[e].source \in Optional(DOMAIN calendars')
    BY <1>1, <1>5 DEF ReferentialIntegrity, Optional
<1> QED
    BY <1>1, <1>4, <1>6, <1>7, <1>8 DEF ReferentialIntegrity

LEMMA RefsSetMessage ==
    ASSUME ReferentialIntegrity, NEW cid, NEW row, set_calendar_message(cid, row)
    PROVE  ReferentialIntegrity'
<1>1. DOMAIN messages' = DOMAIN messages \cup {cid}
    BY DEF set_calendar_message, Put
<1> QED
    BY <1>1 DEF ReferentialIntegrity, set_calendar_message, Optional

LEMMA RefsUpsert ==
    ASSUME ReferentialIntegrity, NEW row, upsert_participant(row)
    PROVE  ReferentialIntegrity'
<1>1. participants' = Put(participants, UpsertId(row), row)
    BY DEF upsert_participant
<1>2. DOMAIN participants' = DOMAIN participants \cup {UpsertId(row)}
    BY <1>1 DEF Put
<1>3. \A p \in DOMAIN participants' :
         \/ participants'[p] = row
         \/ p \in DOMAIN participants /\ participants'[p] = participants[p]
    BY <1>1 DEF Put
<1>4. row.calendar \in DOMAIN calendars
    BY DEF upsert_participant, CanUpsert
<1> QED
    BY <1>2, <1>3, <1>4 DEF ReferentialIntegrity, upsert_participant, Optional

LEMMA RefsClear ==
    ASSUME ReferentialIntegrity, NEW cid, NEW uid, clear_participant(cid, uid)
    PROVE  ReferentialIntegrity'
<1> DEFINE gone == {p \in ParticipantsIn(cid) : participants[p].user = uid}
<1>1. /\ DOMAIN participants' = DOMAIN participants \ gone
      /\ \A p \in DOMAIN participants' : participants'[p] = participants[p]
  <2>1. participants' = Without(participants, gone)
      BY DEF clear_participant
  <2> QED
      BY <2>1 DEF Without, Restrict
<1>2. /\ DOMAIN intervals' \subseteq DOMAIN intervals
      /\ \A i \in DOMAIN intervals' : /\ intervals'[i] = intervals[i]
                                      /\ intervals[i].participant \notin gone
  <2>1. intervals' = Without(intervals, IntervalsOf(gone))
      BY DEF clear_participant
  <2> QED
      BY <2>1 DEF Without, Restrict, IntervalsOf
<1> HIDE DEF gone
<1> QED
    BY <1>1, <1>2 DEF ReferentialIntegrity, clear_participant, Optional

LEMMA RefsAddInterval ==
    ASSUME ReferentialIntegrity, NEW row, add_interval(row)
    PROVE  ReferentialIntegrity'
<1>1. \A i \in DOMAIN intervals' :
         \/ intervals'[i] = row
         \/ i \in DOMAIN intervals /\ intervals'[i] = intervals[i]
  <2>1. PICK key : intervals' = Put(intervals, key, row)
      BY DEF add_interval
  <2> QED
      BY <2>1 DEF Put
<1>2. DOMAIN calendars' = DOMAIN calendars
    BY DEF add_interval
<1>3. row.calendar \in DOMAIN calendars /\ row.participant \in DOMAIN participants
    BY DEF add_interval, CanAddInterval
<1> QED
    BY <1>1, <1>2, <1>3 DEF ReferentialIntegrity, add_interval, Optional

LEMMA RefsRemoveInterval ==
    ASSUME ReferentialIntegrity, NEW id, NEW owner, remove_interval(id, owner)
    PROVE  ReferentialIntegrity'
<1>1. /\ DOMAIN intervals' \subseteq DOMAIN intervals
      /\ \A i \in DOMAIN intervals' : intervals'[i] = intervals[i]
  <2>1. PICK lost : intervals' = Without(intervals, lost)
      BY DEF remove_interval
  <2> QED
      BY <2>1 DEF Without, Restrict
<1> QED
    BY <1>1 DEF ReferentialIntegrity, remove_interval, Optional

LEMMA RefsCreateEvent ==
    ASSUME ReferentialIntegrity, NEW row, create_event(row)
    PROVE  ReferentialIntegrity'
<1>1. \A e \in DOMAIN events' :
         \/ events'[e] = row
         \/ e \in DOMAIN events /\ events'[e] = events[e]
  <2>1. PICK key : events' = Put(events, key, row)
      BY DEF create_event
  <2> QED
      BY <2>1 DEF Put
<1>2. row.source \in Optional(DOMAIN calendars)
    BY DEF create_event
<1> QED
    BY <1>1, <1>2 DEF ReferentialIntegrity, create_event, planning, Optional

LEMMA RefsStep ==
    RepoTypeOK /\ ReferentialIntegrity /\ [RepoStep]_db => ReferentialIntegrity'
<1> SUFFICES ASSUME RepoTypeOK, ReferentialIntegrity, [RepoStep]_db
             PROVE  ReferentialIntegrity'
    OBVIOUS
<1>1. CASE CalendarStep
  <2>1. ASSUME NEW c \in NewCalendar, CreateCalendarFails(c)
        PROVE  ReferentialIntegrity'
      BY <2>1 DEF ReferentialIntegrity, CreateCalendarFails, Optional
  <2> QED
      BY <1>1, <2>1, RefsCreateCalendar, RefsUpdateState, RefsDeleteCalendar,
         RefsSetMessage
      DEF CalendarStep
<1>2. CASE ParticipantStep
    BY <1>2, RefsUpsert, RefsClear DEF ParticipantStep
<1>3. CASE IntervalStep
    BY <1>3, RefsAddInterval, RefsRemoveInterval DEF IntervalStep
<1>4. CASE EventStep
  <2>1. ASSUME NEW eid, NEW uid, NEW response, set_attendance(eid, uid, response)
        PROVE  ReferentialIntegrity'
      BY <2>1 DEF ReferentialIntegrity, set_attendance, planning, Optional
  <2> QED
      BY <1>4, <2>1, RefsCreateEvent DEF EventStep
<1>5. CASE UNCHANGED db
    BY <1>5 DEF db, ReferentialIntegrity, Optional
<1> QED
    BY <1>1, <1>2, <1>3, <1>4, <1>5 DEF RepoStep

\* No row ever refers to a row that is gone.
THEOREM RefsHold == RepoSpec => []ReferentialIntegrity
<1>1. RepoInit => ReferentialIntegrity
    BY DEF RepoInit, ReferentialIntegrity
<1>2. RepoTypeOK /\ ReferentialIntegrity /\ [RepoStep]_db => ReferentialIntegrity'
    BY RefsStep
<1> QED
    BY <1>1, <1>2, RepoTypeCorrect, PTL DEF RepoSpec

-----------------------------------------------------------------------------
(* The two UNIQUE constraints                                              *)

\* They survive whatever only removes participants.
LEMMA UniqueShrinks ==
    ASSUME UniqueKeys,
           DOMAIN participants' \subseteq DOMAIN participants,
           \A p \in DOMAIN participants' : participants'[p] = participants[p]
    PROVE  UniqueKeys'
    BY DEF UniqueKeys

\* The row that an upsert stores differs in both keys from all other rows of its
\* calendar: an old row with its user would have been the one replaced.
LEMMA UpsertIsAlone ==
    ASSUME UniqueKeys, NEW row, CanUpsert(row),
           NEW k \in DOMAIN participants, k # UpsertId(row),
           participants[k].calendar = row.calendar
    PROVE  /\ participants[k].user # row.user
           /\ alias_key(row) # NULL => alias_key(participants[k]) # alias_key(row)
<1>1. participants[k].user # row.user
  <2> SUFFICES ASSUME participants[k].user = row.user PROVE FALSE
      OBVIOUS
  <2>1. k \in Matching(row)
      BY DEF Matching, Same
  <2>2. UpsertId(row) \in Matching(row)
      BY <2>1, UpsertIdFacts
  <2> QED
      BY <2>2 DEF Matching, Same, UniqueKeys
<1>2. alias_key(row) # NULL => alias_key(participants[k]) # alias_key(row)
    BY <1>1 DEF CanUpsert, AliasFree, ParticipantsIn
<1> QED
    BY <1>1, <1>2

LEMMA UniqueUpsert ==
    ASSUME UniqueKeys, NEW row, upsert_participant(row)
    PROVE  UniqueKeys'
<1> DEFINE new == UpsertId(row)
<1>1. participants' = Put(participants, new, row) /\ CanUpsert(row)
    BY DEF upsert_participant
<1>2. /\ participants'[new] = row
      /\ \A k \in DOMAIN participants' :
            k # new => k \in DOMAIN participants /\ participants'[k] = participants[k]
    BY <1>1 DEF Put
<1>3. \A k \in DOMAIN participants' :
         k # new /\ participants'[k].calendar = row.calendar =>
            /\ participants'[k].user # row.user
            /\ alias_key(row) # NULL => alias_key(participants'[k]) # alias_key(row)
    BY <1>1, <1>2, UpsertIsAlone
<1> HIDE DEF new
<1> SUFFICES ASSUME NEW p \in DOMAIN participants', NEW q \in DOMAIN participants',
                    p # q, participants'[p].calendar = participants'[q].calendar
             PROVE  /\ participants'[p].user # participants'[q].user
                    /\ alias_key(participants'[p]) # NULL
                         => alias_key(participants'[p]) # alias_key(participants'[q])
    BY DEF UniqueKeys, alias_key
<1>4. CASE p = new
    BY <1>2, <1>3, <1>4
<1>5. CASE q = new
    BY <1>2, <1>3, <1>5
<1>6. CASE p # new /\ q # new
    BY <1>2, <1>6 DEF UniqueKeys
<1> QED
    BY <1>4, <1>5, <1>6

LEMMA UniqueStep ==
    UniqueKeys /\ [RepoStep]_db => UniqueKeys'
<1> SUFFICES ASSUME UniqueKeys, [RepoStep]_db PROVE UniqueKeys'
    OBVIOUS
<1>1. CASE UNCHANGED participants
    BY <1>1, UniqueShrinks
<1>2. ASSUME NEW id, delete_calendar(id) PROVE UniqueKeys'
  <2>1. participants' = Without(participants, ParticipantsIn(id))
      BY <1>2 DEF delete_calendar
  <2>2. /\ DOMAIN participants' \subseteq DOMAIN participants
        /\ \A p \in DOMAIN participants' : participants'[p] = participants[p]
      BY <2>1 DEF Without, Restrict
  <2> QED
      BY <2>2, UniqueShrinks
<1>3. ASSUME NEW cid, NEW uid, clear_participant(cid, uid) PROVE UniqueKeys'
  <2>1. PICK gone : participants' = Without(participants, gone)
      BY <1>3 DEF clear_participant
  <2>2. /\ DOMAIN participants' \subseteq DOMAIN participants
        /\ \A p \in DOMAIN participants' : participants'[p] = participants[p]
      BY <2>1 DEF Without, Restrict
  <2> QED
      BY <2>2, UniqueShrinks
<1>4. CASE CalendarStep
  <2>1. UNCHANGED participants \/ \E id \in RowIds : delete_calendar(id)
      BY <1>4 DEF CalendarStep, create_calendar, CreateCalendarFails,
                  update_calendar_state, set_calendar_message
  <2> QED
      BY <1>1, <1>2, <2>1
<1>5. CASE ParticipantStep
    BY <1>3, <1>5, UniqueUpsert DEF ParticipantStep
<1>6. CASE IntervalStep \/ EventStep \/ UNCHANGED db
  <2>1. UNCHANGED participants
      BY <1>6 DEF IntervalStep, EventStep, add_interval, remove_interval,
                  create_event, set_attendance, planning, db
  <2> QED
      BY <1>1, <2>1
<1> QED
    BY <1>4, <1>5, <1>6 DEF RepoStep

\* No two records of one member and no two aliases that differ only in case, in
\* any calendar, after any sequence of joins, renames and departures.
THEOREM KeysUnique == RepoSpec => []UniqueKeys
<1>1. RepoInit => UniqueKeys
    BY DEF RepoInit, UniqueKeys
<1>2. UniqueKeys /\ [RepoStep]_db => UniqueKeys'
    BY UniqueStep
<1> QED
    BY <1>1, <1>2, PTL DEF RepoSpec

-----------------------------------------------------------------------------
(* The meaning of ids                                                      *)

LEMMA MeaningUpsert ==
    ASSUME RepoTypeOK, NEW row, upsert_participant(row)
    PROVE  MeaningKept
<1>1. participants' = Put(participants, UpsertId(row), row)
    BY DEF upsert_participant
<1>2. calendars' = calendars
    BY DEF upsert_participant
<1>3. ASSUME NEW p \in DOMAIN participants'
      PROVE  IF p \in DOMAIN participants
             THEN Same(participants'[p], participants[p])
             ELSE p > seq["participants"]
  <2>1. CASE p # UpsertId(row)
      BY <1>1, <2>1 DEF Put, Same
  <2>2. CASE p = UpsertId(row) /\ Matching(row) # {}
    <3>1. participants'[p] = row
        BY <1>1, <2>2 DEF Put
    <3>2. p \in Matching(row)
        BY <2>2, UpsertIdFacts
    <3> QED
        BY <3>1, <3>2 DEF Matching, Same
  <2>3. CASE p = UpsertId(row) /\ Matching(row) = {}
    <3>1. p = seq["participants"] + 1
        BY <2>3, UpsertIdFacts DEF NextId
    <3>2. seq["participants"] \in Int /\ DOMAIN participants \subseteq 1..seq["participants"]
        BY DEF RepoTypeOK, Tables
    <3> QED
        BY <3>1, <3>2
  <2> QED
      BY <2>1, <2>2, <2>3
<1> QED
    BY <1>2, <1>3 DEF MeaningKept

LEMMA MeaningCreateCalendar ==
    ASSUME RepoTypeOK, NEW c, create_calendar(c)
    PROVE  MeaningKept
<1>1. calendars' = Put(calendars, NextId("calendars"), c)
    BY DEF create_calendar
<1>2. participants' = participants
    BY DEF create_calendar
<1>3. seq["calendars"] \in Int /\ DOMAIN calendars \subseteq 1..seq["calendars"]
    BY DEF RepoTypeOK, Tables
<1>4. NextId("calendars") = seq["calendars"] + 1
    BY DEF NextId
<1>5. ASSUME NEW k \in DOMAIN calendars'
      PROVE  IF k \in DOMAIN calendars
             THEN calendars'[k].creator = calendars[k].creator
             ELSE k > seq["calendars"]
  <2>1. CASE k = NextId("calendars")
      BY <1>3, <1>4, <2>1
  <2>2. CASE k # NextId("calendars")
      BY <1>1, <2>2 DEF Put
  <2> QED
      BY <2>1, <2>2
<1> QED
    BY <1>2, <1>5 DEF MeaningKept, Same

LEMMA MeaningShrinks ==
    ASSUME DOMAIN participants' \subseteq DOMAIN participants,
           \A p \in DOMAIN participants' : participants'[p] = participants[p],
           DOMAIN calendars' \subseteq DOMAIN calendars,
           \A c \in DOMAIN calendars' : calendars'[c].creator = calendars[c].creator
    PROVE  MeaningKept
    BY DEF MeaningKept, Same

LEMMA MeaningStep == RepoTypeOK /\ [RepoStep]_db => [MeaningKept]_db
<1> SUFFICES ASSUME RepoTypeOK, RepoStep PROVE MeaningKept
    OBVIOUS
<1>1. ASSUME NEW id, delete_calendar(id) PROVE MeaningKept
  <2>1. /\ participants' = Without(participants, ParticipantsIn(id))
        /\ calendars' = Without(calendars, {id})
      BY <1>1 DEF delete_calendar
  <2>2. /\ DOMAIN participants' \subseteq DOMAIN participants
        /\ \A p \in DOMAIN participants' : participants'[p] = participants[p]
        /\ DOMAIN calendars' \subseteq DOMAIN calendars
        /\ \A c \in DOMAIN calendars' : calendars'[c] = calendars[c]
      BY <2>1 DEF Without, Restrict
  <2> QED
      BY <2>2, MeaningShrinks
<1>2. ASSUME NEW cid, NEW uid, clear_participant(cid, uid) PROVE MeaningKept
  <2>1. PICK gone : participants' = Without(participants, gone)
      BY <1>2 DEF clear_participant
  <2>2. /\ DOMAIN participants' \subseteq DOMAIN participants
        /\ \A p \in DOMAIN participants' : participants'[p] = participants[p]
      BY <2>1 DEF Without, Restrict
  <2>3. calendars' = calendars
      BY <1>2 DEF clear_participant
  <2> QED
      BY <2>2, <2>3, MeaningShrinks
<1>3. ASSUME NEW id, NEW state, update_calendar_state(id, state) PROVE MeaningKept
  <2>1. /\ participants' = participants
        /\ DOMAIN calendars' = DOMAIN calendars
      BY <1>3 DEF update_calendar_state
  <2>2. ASSUME NEW c \in DOMAIN calendars
        PROVE  calendars'[c].creator = calendars[c].creator
    <3>1. calendars[c] \in CalendarRow
        BY DEF RepoTypeOK
    <3> QED
        BY <1>3, <3>1 DEF update_calendar_state, CalendarRow
  <2> QED
      BY <2>1, <2>2, MeaningShrinks
<1>4. ASSUME NEW row, add_interval(row) PROVE MeaningKept
  <2>1. /\ participants' = participants
        /\ DOMAIN calendars' = DOMAIN calendars
      BY <1>4 DEF add_interval
  <2>2. ASSUME NEW c \in DOMAIN calendars
        PROVE  calendars'[c].creator = calendars[c].creator
    <3>1. calendars[c] \in CalendarRow
        BY DEF RepoTypeOK
    <3> QED
        BY <1>4, <3>1 DEF add_interval, CalendarRow
  <2> QED
      BY <2>1, <2>2, MeaningShrinks
<1>5. CASE UNCHANGED <<participants, calendars>>
    BY <1>5, MeaningShrinks
<1>6. CASE CalendarStep
  <2>1. \/ \E c \in NewCalendar : create_calendar(c)
        \/ \E id \in RowIds, state \in CalendarStates : update_calendar_state(id, state)
        \/ \E id \in RowIds : delete_calendar(id)
        \/ UNCHANGED <<participants, calendars>>
      BY <1>6 DEF CalendarStep, CreateCalendarFails, set_calendar_message
  <2> QED
      BY <1>1, <1>3, <1>5, <2>1, MeaningCreateCalendar
<1>7. CASE ParticipantStep
    BY <1>2, <1>7, MeaningUpsert DEF ParticipantStep
<1>8. CASE IntervalStep
  <2>1. \/ \E row \in IntervalRow : add_interval(row)
        \/ UNCHANGED <<participants, calendars>>
      BY <1>8 DEF IntervalStep, remove_interval
  <2> QED
      BY <1>4, <1>5, <2>1
<1>9. CASE EventStep
  <2>1. UNCHANGED <<participants, calendars>>
      BY <1>9 DEF EventStep, create_event, set_attendance, planning
  <2> QED
      BY <1>5, <2>1
<1> QED
    BY <1>6, <1>7, <1>8, <1>9 DEF RepoStep

\* A participant id never comes to mean another member, a calendar id never
\* another calendar: what the service holds over several calls stays right.
THEOREM MeaningsKept == RepoSpec => IdsKeepTheirMeaning
<1>1. RepoTypeOK /\ [RepoStep]_db => [MeaningKept]_db
    BY MeaningStep
<1> QED
    BY <1>1, RepoTypeCorrect, PTL DEF RepoSpec, IdsKeepTheirMeaning

-----------------------------------------------------------------------------
(* Where calendars are.  PlaceChannel keeps the guild of a channel that is *)
(* already there, so a calendar is in the guild of its channel only because *)
(* every stored channel is in the guild it has on Discord.                  *)

ChannelsAtHome == \A ch \in DOMAIN channels : channels[ch] = GuildOf[ch]

Placed == CalendarsPlaced /\ ChannelsAtHome

\* Guilds and channels are only ever added, each channel in its own guild.
LEMMA PlaceFacts ==
    ASSUME ChannelsAtHome, NEW c, c.guild = GuildOf[c.channel],
           PlaceGuild(c), PlaceChannel(c)
    PROVE  /\ guilds \subseteq guilds' /\ c.guild \in guilds'
           /\ DOMAIN channels' = DOMAIN channels \cup {c.channel}
           /\ \A ch \in DOMAIN channels : channels'[ch] = channels[ch]
           /\ ChannelsAtHome'
<1>1. guilds' = guilds \cup {c.guild}
    BY DEF PlaceGuild
<1>2. CASE c.channel \in DOMAIN channels
  <2>1. channels' = channels
      BY <1>2 DEF PlaceChannel
  <2> QED
      BY <1>1, <1>2, <2>1 DEF ChannelsAtHome
<1>3. CASE c.channel \notin DOMAIN channels
  <2>1. channels' = Put(channels, c.channel, c.guild)
      BY <1>3 DEF PlaceChannel
  <2>2. /\ DOMAIN channels' = DOMAIN channels \cup {c.channel}
        /\ channels'[c.channel] = c.guild
        /\ \A ch \in DOMAIN channels : channels'[ch] = channels[ch]
      BY <1>3, <2>1 DEF Put
  <2>3. ASSUME NEW ch \in DOMAIN channels' PROVE channels'[ch] = GuildOf[ch]
      BY <2>2, <2>3 DEF ChannelsAtHome
  <2> QED
      BY <1>1, <2>2, <2>3 DEF ChannelsAtHome
<1> QED
    BY <1>2, <1>3

LEMMA PlacedCreateCalendar ==
    ASSUME Placed, NEW c, c.guild = GuildOf[c.channel], create_calendar(c)
    PROVE  Placed'
<1> DEFINE new == NextId("calendars")
<1>1. calendars' = Put(calendars, new, c)
    BY DEF create_calendar
<1>2. /\ DOMAIN calendars' = DOMAIN calendars \cup {new}
      /\ calendars'[new] = c
      /\ \A k \in DOMAIN calendars : k # new => calendars'[k] = calendars[k]
    BY <1>1 DEF Put
<1> HIDE DEF new
<1>3. /\ guilds \subseteq guilds' /\ c.guild \in guilds'
      /\ DOMAIN channels' = DOMAIN channels \cup {c.channel}
      /\ \A ch \in DOMAIN channels : channels'[ch] = channels[ch]
      /\ ChannelsAtHome'
    BY PlaceFacts DEF Placed, create_calendar
<1>4. ASSUME NEW k \in DOMAIN calendars'
      PROVE  /\ calendars'[k].guild \in guilds'
             /\ calendars'[k].channel \in DOMAIN channels'
             /\ channels'[calendars'[k].channel] = calendars'[k].guild
  <2>1. CASE k = new
      BY <1>2, <1>3, <2>1 DEF ChannelsAtHome
  <2>2. CASE k # new
      BY <1>2, <1>3, <2>2 DEF Placed, CalendarsPlaced
  <2> QED
      BY <2>1, <2>2
<1> QED
    BY <1>3, <1>4 DEF Placed, CalendarsPlaced

LEMMA PlacedCreateCalendarFails ==
    ASSUME Placed, NEW c, c.guild = GuildOf[c.channel], CreateCalendarFails(c)
    PROVE  Placed'
<1>1. calendars' = calendars
    BY DEF CreateCalendarFails
<1>2. /\ guilds \subseteq guilds'
      /\ DOMAIN channels \subseteq DOMAIN channels'
      /\ \A ch \in DOMAIN channels : channels'[ch] = channels[ch]
      /\ ChannelsAtHome'
  <2>1. PlaceGuild(c)
      BY DEF CreateCalendarFails
  <2>2. CASE PlaceChannel(c)
      BY <2>1, <2>2, PlaceFacts DEF Placed
  <2>3. CASE UNCHANGED channels
      BY <2>1, <2>3 DEF Placed, ChannelsAtHome, PlaceGuild
  <2> QED
      BY <2>2, <2>3 DEF CreateCalendarFails
<1> QED
    BY <1>1, <1>2 DEF Placed, CalendarsPlaced

\* Calendars that stay where they were, in places that are still there.
LEMMA PlacedStays ==
    ASSUME Placed, UNCHANGED <<guilds, channels>>,
           DOMAIN calendars' \subseteq DOMAIN calendars,
           \A c \in DOMAIN calendars' :
                /\ calendars'[c].guild = calendars[c].guild
                /\ calendars'[c].channel = calendars[c].channel
    PROVE  Placed'
    BY DEF Placed, CalendarsPlaced, ChannelsAtHome

LEMMA PlacedStep == RepoTypeOK /\ Placed /\ [RepoStep]_db => Placed'
<1> SUFFICES ASSUME RepoTypeOK, Placed, [RepoStep]_db PROVE Placed'
    OBVIOUS
<1>1. CASE UNCHANGED <<guilds, channels, calendars>>
    BY <1>1, PlacedStays
<1>2. ASSUME NEW id, NEW state, update_calendar_state(id, state) PROVE Placed'
  <2>1. \A c \in DOMAIN calendars : calendars[c] \in CalendarRow
      BY DEF RepoTypeOK
  <2>2. /\ UNCHANGED <<guilds, channels>>
        /\ DOMAIN calendars' = DOMAIN calendars
        /\ \A c \in DOMAIN calendars :
              /\ calendars'[c].guild = calendars[c].guild
              /\ calendars'[c].channel = calendars[c].channel
      BY <1>2, <2>1 DEF update_calendar_state, CalendarRow
  <2> QED
      BY <2>2, PlacedStays
<1>3. ASSUME NEW id, delete_calendar(id) PROVE Placed'
  <2>1. UNCHANGED <<guilds, channels>> /\ calendars' = Without(calendars, {id})
      BY <1>3 DEF delete_calendar
  <2> QED
      BY <2>1, PlacedStays DEF Without, Restrict
<1>4. ASSUME NEW row, add_interval(row) PROVE Placed'
  <2>1. \A c \in DOMAIN calendars : calendars[c] \in CalendarRow
      BY DEF RepoTypeOK
  <2>2. /\ UNCHANGED <<guilds, channels>>
        /\ DOMAIN calendars' = DOMAIN calendars
        /\ \A c \in DOMAIN calendars :
              /\ calendars'[c].guild = calendars[c].guild
              /\ calendars'[c].channel = calendars[c].channel
      BY <1>4, <2>1 DEF add_interval, CalendarRow
  <2> QED
      BY <2>2, PlacedStays
<1>5. CASE CalendarStep
  <2>1. \A id, row : set_calendar_message(id, row)
                        => UNCHANGED <<guilds, channels, calendars>>
      BY DEF set_calendar_message
  <2> QED
      BY <1>1, <1>2, <1>3, <1>5, <2>1, PlacedCreateCalendar, PlacedCreateCalendarFails
      DEF CalendarStep
<1>6. CASE IntervalStep
  <2>1. \A id, owner : remove_interval(id, owner)
                          => UNCHANGED <<guilds, channels, calendars>>
      BY DEF remove_interval
  <2> QED
      BY <1>1, <1>4, <1>6, <2>1 DEF IntervalStep
<1>7. CASE ParticipantStep \/ EventStep \/ UNCHANGED db
  <2>1. UNCHANGED <<guilds, channels, calendars>>
      BY <1>7 DEF ParticipantStep, EventStep, upsert_participant, clear_participant,
                  create_event, set_attendance, planning, db
  <2> QED
      BY <1>1, <2>1
<1> QED
    BY <1>5, <1>6, <1>7 DEF RepoStep

\* Every calendar is stored with its guild and its channel, and in the guild of
\* its channel, wherever create_calendar was cut off.
THEOREM CalendarsInPlace == RepoSpec => []CalendarsPlaced
<1>1. RepoInit => Placed
    BY DEF RepoInit, Placed, CalendarsPlaced, ChannelsAtHome
<1>2. RepoTypeOK /\ Placed /\ [RepoStep]_db => Placed'
    BY PlacedStep
<1>3. Placed => CalendarsPlaced
    BY DEF Placed
<1> QED
    BY <1>1, <1>2, <1>3, RepoTypeCorrect, PTL DEF RepoSpec

-----------------------------------------------------------------------------
(* Events                                                                  *)

LEMMA EventsStep == RepoTypeOK /\ [RepoStep]_db => [EventsKept]_db
<1> SUFFICES ASSUME RepoTypeOK, RepoStep PROVE EventsKept
    OBVIOUS
<1>1. CASE UNCHANGED <<events, attendance>>
    BY <1>1 DEF EventsKept
<1>2. ASSUME NEW id, delete_calendar(id) PROVE EventsKept
  <2>1. \A e \in DOMAIN events : events[e] \in EventRow
      BY DEF RepoTypeOK
  <2> QED
      BY <1>2, <2>1 DEF delete_calendar, EventsKept, EventRow
<1>3. ASSUME NEW row, create_event(row) PROVE EventsKept
  <2>1. attendance' = attendance /\ events' = Put(events, NextId("events"), row)
      BY <1>3 DEF create_event
  <2>2. NextId("events") \notin DOMAIN events
    <3>1. seq["events"] \in Int /\ DOMAIN events \subseteq 1..seq["events"]
        BY DEF RepoTypeOK, Tables
    <3> QED
        BY <3>1 DEF NextId
  <2> QED
      BY <2>1, <2>2 DEF EventsKept, Put
<1>4. ASSUME NEW eid, NEW uid, NEW response, set_attendance(eid, uid, response)
      PROVE  EventsKept
    BY <1>4 DEF set_attendance, EventsKept, Put
<1>5. CASE CalendarStep
  <2>1. \/ \E id \in RowIds : delete_calendar(id)
        \/ UNCHANGED <<events, attendance>>
      BY <1>5 DEF CalendarStep, create_calendar, CreateCalendarFails,
                  update_calendar_state, set_calendar_message
  <2> QED
      BY <1>1, <1>2, <2>1
<1>6. CASE ParticipantStep \/ IntervalStep
  <2>1. UNCHANGED <<events, attendance>>
      BY <1>6 DEF ParticipantStep, IntervalStep, upsert_participant,
                  clear_participant, add_interval, remove_interval
  <2> QED
      BY <1>1, <2>1
<1>7. CASE EventStep
    BY <1>3, <1>4, <1>7 DEF EventStep
<1> QED
    BY <1>5, <1>6, <1>7 DEF RepoStep

\* No event and no answer to one is ever lost, and an event keeps its source
\* calendar for as long as that exists.
THEOREM EventsOutlive == RepoSpec => EventsSurvive
<1>1. RepoTypeOK /\ [RepoStep]_db => [EventsKept]_db
    BY EventsStep
<1> QED
    BY <1>1, RepoTypeCorrect, PTL DEF RepoSpec, EventsSurvive

-----------------------------------------------------------------------------
(* Calendar rows: only the state and the revision of one ever change, and  *)
(* the revision only grows.                                                *)

Later(old, new) ==
    /\ new.guild = old.guild
    /\ new.channel = old.channel
    /\ new.creator = old.creator
    /\ new.config = old.config
    /\ new.revision >= old.revision

RowsKept ==
    \A c \in DOMAIN calendars' :
        IF c \in DOMAIN calendars THEN Later(calendars[c], calendars'[c])
        ELSE c > seq["calendars"]

LEMMA SeqStep ==
    RepoTypeOK /\ [RepoStep]_db => \A table \in Tables : seq'[table] >= seq[table]
<1> SUFFICES ASSUME RepoTypeOK, [RepoStep]_db, NEW table \in Tables
             PROVE  seq'[table] >= seq[table]
    OBVIOUS
<1>1. DOMAIN seq = Tables /\ \A other \in Tables : seq[other] \in Int
    BY DEF RepoTypeOK
<1>2. seq' = seq \/ \E other \in Tables : Draw(other)
    BY DEF RepoStep, CalendarStep, ParticipantStep, IntervalStep, EventStep,
           create_calendar, CreateCalendarFails, update_calendar_state,
           delete_calendar, set_calendar_message, upsert_participant,
           clear_participant, add_interval, remove_interval, create_event,
           set_attendance, planning, db, Tables
<1> QED
    BY <1>1, <1>2 DEF Draw

LEMMA LaterFacts ==
    /\ \A row \in CalendarRow : Later(row, row)
    /\ \A row1, row2, row3 \in CalendarRow :
            Later(row1, row2) /\ Later(row2, row3) => Later(row1, row3)
BY DEF Later, CalendarRow

LEMMA RowsStep == RepoTypeOK /\ [RepoStep]_db => RowsKept
<1> SUFFICES ASSUME RepoTypeOK, [RepoStep]_db PROVE RowsKept
    OBVIOUS
<1>1. /\ \A c \in DOMAIN calendars : calendars[c] \in CalendarRow
      /\ \A table \in Tables : seq[table] \in Int
      /\ DOMAIN calendars \subseteq 1..seq["calendars"]
      /\ "calendars" \in Tables
    BY DEF RepoTypeOK, Tables
<1>2. ASSUME DOMAIN calendars' \subseteq DOMAIN calendars,
             \A c \in DOMAIN calendars' : calendars'[c] = calendars[c],
             seq'["calendars"] = seq["calendars"]
      PROVE  RowsKept
    BY <1>1, <1>2, LaterFacts DEF RowsKept
<1>3. ASSUME NEW c, create_calendar(c) PROVE RowsKept
  <2>1. /\ calendars' = Put(calendars, seq["calendars"] + 1, c)
        /\ seq'["calendars"] = seq["calendars"] + 1
      BY <1>1, <1>3 DEF create_calendar, Draw, NextId, RepoTypeOK
  <2>2. ASSUME NEW k \in DOMAIN calendars', k \in DOMAIN calendars
        PROVE  calendars'[k] = calendars[k]
    <3>1. k # seq["calendars"] + 1
        BY <1>1, <2>2
    <3> QED
        BY <2>1, <2>2, <3>1 DEF Put
  <2>3. ASSUME NEW k \in DOMAIN calendars', k \notin DOMAIN calendars
        PROVE  k = seq["calendars"] + 1
      BY <2>1, <2>3 DEF Put
  <2> QED
      BY <1>1, <2>1, <2>2, <2>3, LaterFacts DEF RowsKept
<1>4. ASSUME NEW id, NEW state, update_calendar_state(id, state) PROVE RowsKept
  <2>1. \A c \in DOMAIN calendars : Later(calendars[c], calendars'[c])
      BY <1>1, <1>4, LaterFacts DEF update_calendar_state, Later, CalendarRow
  <2> QED
      BY <1>1, <1>4, <2>1 DEF update_calendar_state, RowsKept
<1>5. ASSUME NEW row, add_interval(row) PROVE RowsKept
  <2>1. \A c \in DOMAIN calendars : Later(calendars[c], calendars'[c])
      BY <1>1, <1>5, LaterFacts DEF add_interval, Later, CalendarRow
  <2>2. seq'["calendars"] = seq["calendars"]
      BY <1>1, <1>5 DEF add_interval, Draw, RepoTypeOK
  <2> QED
      BY <1>1, <1>5, <2>1, <2>2 DEF add_interval, RowsKept
<1>6. ASSUME NEW id, delete_calendar(id) PROVE RowsKept
  <2>1. calendars' = Without(calendars, {id}) /\ seq' = seq
      BY <1>6 DEF delete_calendar
  <2> QED
      BY <1>2, <2>1 DEF Without, Restrict
<1>7. CASE calendars' = calendars /\ seq'["calendars"] = seq["calendars"]
    BY <1>2, <1>7
<1>8. CASE CalendarStep
  <2>1. \A c : CreateCalendarFails(c) => calendars' = calendars /\ seq' = seq
      BY DEF CreateCalendarFails
  <2>2. \A id, row : set_calendar_message(id, row) => calendars' = calendars /\ seq' = seq
      BY DEF set_calendar_message
  <2> QED
      BY <1>3, <1>4, <1>6, <1>7, <1>8, <2>1, <2>2 DEF CalendarStep
<1>9. CASE ParticipantStep
  <2>1. \A row : upsert_participant(row) =>
            calendars' = calendars /\ seq'["calendars"] = seq["calendars"]
      BY <1>1 DEF upsert_participant, Draw, RepoTypeOK
  <2>2. \A id, u : clear_participant(id, u) => calendars' = calendars /\ seq' = seq
      BY DEF clear_participant
  <2> QED
      BY <1>7, <1>9, <2>1, <2>2 DEF ParticipantStep
<1>10. CASE IntervalStep
  <2>1. \A id, owner : remove_interval(id, owner) => calendars' = calendars /\ seq' = seq
      BY DEF remove_interval
  <2> QED
      BY <1>5, <1>7, <1>10, <2>1 DEF IntervalStep
<1>11. CASE EventStep \/ UNCHANGED db
  <2>1. calendars' = calendars /\ seq'["calendars"] = seq["calendars"]
      BY <1>1, <1>11 DEF EventStep, create_event, set_attendance, planning, Draw,
                         RepoTypeOK, db
  <2> QED
      BY <1>7, <2>1
<1> QED
    BY <1>8, <1>9, <1>10, <1>11 DEF RepoStep

=============================================================================

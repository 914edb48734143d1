------------------------- MODULE ServiceProperties -------------------------
(***************************************************************************)
(* What ScheduleService guarantees, and what it does not.                  *)
(***************************************************************************)
EXTENDS ScheduleService

Steps == {"idle", "lookup", "find", "fill", "invalidate", "store", "mine_list",
          "day_list", "heatmap_count", "done", "create", "add", "clear", "state",
          "delete", "set_message", "view", "message", "mine", "day", "heatmap",
          "public"}

CallOK(c) ==
    /\ DOMAIN c = DOMAIN Idle
    /\ c.pc \in Steps
    /\ c.req \in Optional(Request)
    /\ c.id \in 0..MaxRowId
    /\ c.cal \in Optional(CalendarRow)
    /\ c.pid \in 0..MaxRowId
    /\ c.todo \subseteq Dates
    /\ c.got \subseteq RowIds
    /\ c.code \in Codes
    /\ c.lost \in 0..MaxRowId

\* The tables, the cache and what the threads hold have their types.
TypeOK ==
    /\ RepoTypeOK
    /\ DOMAIN calendar_cache_ \subseteq RowIds
    /\ calendar_cache_ \in [DOMAIN calendar_cache_ -> CalendarRow]
    /\ writes \in 0..MaxWrites
    /\ DOMAIN call = Threads
    /\ \A t \in Threads : CallOK(call[t])

-----------------------------------------------------------------------------
(* Whose data a call touches                                               *)

\* A participant id that a call holds over several critical sections still is
\* the id of the caller in that calendar, or of nobody, whatever other calls
\* cleared, deleted and added meanwhile (add_availability, lines 77-88;
\* my_schedule, lines 105-114).  Only an upsert that was not committed returns an
\* id that may become another member's.
CallsKnowTheirMember ==
    \A t \in Threads : call[t].pid # 0 /\ call[t].lost = 0 =>
        /\ call[t].pid <= seq["participants"]
        /\ call[t].pid \in DOMAIN participants =>
              /\ participants[call[t].pid].calendar = call[t].id
              /\ participants[call[t].pid].user = call[t].req.user

\* Availability appears only as a call that is being executed asks for it: in
\* that calendar, at a date and span of the call, and for the member who calls.
\* For somebody else it appears only if the upsert of the call was not committed.
AddedAsWritten ==
    \A i \in DOMAIN intervals' \ DOMAIN intervals :
       LET row == intervals'[i]
       IN  \E t \in Threads :
             /\ call[t].pc = "store"
             /\ row.calendar = call[t].req.calendar
             /\ row.date \in call[t].req.dates
             /\ row.span = call[t].req.span
             /\ \/ call[t].lost # 0
                \/ /\ participants[row.participant].user = call[t].req.user
                   /\ participants[row.participant].calendar = row.calendar
OnlyAsWritten == [][AddedAsWritten]_vars

\* Availability is only ever entered under the name of the member who calls: each
\* can inspect "the availability they submitted" (README.md:43), and upsert and
\* intervals are one transaction (docs/architecture.md:172).
EnteredForTheCaller ==
    \A i \in DOMAIN intervals' \ DOMAIN intervals :
       \E t \in Threads :
          /\ call[t].pc = "store"
          /\ Same(participants[intervals'[i].participant], call[t].req)
OnlyForTheCaller == [][EnteredForTheCaller]_vars

\* Availability disappears only as the member it is stored under clears his data
\* in his calendar, or as the creator of its calendar, or of its member's, deletes
\* that calendar.
RemovedByRight ==
    \A i \in DOMAIN intervals \ DOMAIN intervals' :
       LET row == intervals[i]
           member == participants[row.participant]
       IN  \E t \in Threads :
             \/ /\ call[t].pc = "clear"
                /\ call[t].req.calendar = member.calendar
                /\ call[t].req.user = member.user
             \/ /\ call[t].pc = "delete"
                /\ call[t].req.calendar \in {row.calendar, member.calendar}
                /\ call[t].req.user = calendars[call[t].req.calendar].creator
OnlyRemovedByRight == [][RemovedByRight]_vars

\* Only its creator changes or deletes a calendar, or is told who takes part in
\* it, although the check reads a copy of the row that may be out of date
\* (change_state, delete_calendar, day_participants).
ManagedByOwner ==
    \A c \in DOMAIN calendars :
       /\ \/ c \in DOMAIN calendars' /\ calendars'[c].state = calendars[c].state
          \/ \E t \in Threads : /\ call[t].pc \in {"state", "delete"}
                                /\ call[t].req.calendar = c
                                /\ call[t].req.user = calendars[c].creator
       /\ \A t \in Threads :
             call[t].id = c /\ call[t].pc = "day" /\ call'[t].pc = "day_list"
                 => call[t].req.user = calendars[c].creator
OnlyOwnersManage == [][ManagedByOwner]_vars

\* my_schedule answers with rows of the caller only, although it first reads an
\* id and then the rows of that id (tests/unit/ScheduleServiceTests.cpp:
\* "private schedule returns only the requesting participant").
MineOnly ==
    \A t \in Threads : call[t].pc = "mine_list" /\ call'[t].pc = "done" =>
       \A row \in call'[t].value :
           /\ row.calendar = call[t].req.calendar
           /\ participants[row.participant].user = call[t].req.user
MineIsMine == [][MineOnly]_vars

-----------------------------------------------------------------------------
(* What an answer means                                                    *)

Stored(t, d) == \E i \in DOMAIN intervals :
    intervals[i] = [calendar |-> call[t].id, participant |-> call[t].pid,
                    date |-> d, span |-> call[t].req.span]

\* "Availability saved." means that every date of the call is stored, unless
\* the member was cleared or the calendar deleted since, or never stored.
SavedMeansStored ==
    \A t \in Threads :
        /\ call[t].req # NULL
        /\ call[t].req.op = "add"
        /\ call[t].pc = "done"
        /\ call[t].code = "ok"
        /\ call[t].pid \in DOMAIN participants
        /\ call[t].lost = 0
        => \A d \in call[t].req.dates : Stored(t, d)

\* Every stored interval lies within the hours of its calendar, on whole slots
\* and at a date of its month, although add_availability tests a copy of the row
\* that may be old (lines 57-74). aggregate_week relies on it: an interval that
\* reaches into a slot is counted as covering it.
InHours(config, span) ==
    /\ span.start >= config.start_minute
    /\ span.end <= config.end_minute
    /\ span.start < span.end
    /\ Aligned(config, span.start)
    /\ Aligned(config, span.end)

IntervalsInRange ==
    \A v \in DOMAIN intervals :
        LET config == calendars[intervals[v].calendar].config
        IN  /\ InHours(config, intervals[v].span)
            /\ is_date_in_month(intervals[v].date, config.month)

\* A call that answers with an error saved nothing
\* (docs/architecture.md:172, 252: upsert and intervals in one transaction).
FailedMeansNothingStored ==
    \A t \in Threads :
        /\ call[t].req # NULL
        /\ call[t].req.op = "add"
        /\ call[t].pc = "done"
        /\ call[t].code # "ok"
        /\ call[t].pid \in DOMAIN participants
        => \A d \in call[t].req.dates : ~Stored(t, d)

\* "Alias is already used in this calendar" is answered only if another member
\* uses it
\* (ScheduleService.cpp:80-81).
AliasErrorIsTrue ==
    [][\A t \in Threads :
          call[t].pc = "add" /\ call'[t].code = "alias_already_used" =>
              \E p \in ParticipantsIn(call[t].id) :
                  /\ participants[p].user # call[t].req.user
                  /\ alias_key(participants[p]) = alias_key(Member(t))]_vars

\* Of a heatmap's total participants at most all are available, so that cells
\* read "1/2" or "2/2" (README.md:37) and percentages do not exceed 100.
CountedWithinTotal ==
    \A t \in Threads :
        /\ call[t].req # NULL
        /\ call[t].req.op = "heatmap"
        /\ call[t].pc = "done"
        /\ call[t].code = "ok"
        => Cardinality(call[t].value.counted) <= call[t].value.total

\* Every call is answered, or lost in a crash: threads do not wait on each
\* other and add_availability runs out of dates.
EveryCallEnds == \A t \in Threads : call[t].pc # "idle" ~> call[t].pc = "idle"

-----------------------------------------------------------------------------
(* The cache                                                               *)

Copies == {<<c, calendar_cache_[c]>> : c \in DOMAIN calendar_cache_}
            \cup {<<call[t].id, call[t].cal>> :
                    t \in {u \in Threads : call[u].cal # NULL}}

\* A copy of a calendar, in the cache or in a call, however old: it is a row the
\* calendar once had, right about everything that never changes.  The ownership
\* and validity checks of the service rest on this.
CopiesAreOldRows ==
    \A copy \in Copies :
        /\ copy[1] \in 1..seq["calendars"]
        /\ copy[1] \in DOMAIN calendars =>
             LET row == calendars[copy[1]]
             IN  /\ [copy[2] EXCEPT !.state = row.state, !.revision = row.revision] = row
                 /\ copy[2].revision <= row.revision

\* When nothing is being executed the cache agrees with the database: it holds
\* no deleted calendar and no old state (docs/architecture.md:14, 284).
CacheSettles ==
    (\A t \in Threads : call[t].pc = "idle") =>
        \A c \in DOMAIN calendar_cache_ :
            /\ c \in DOMAIN calendars
            /\ calendar_cache_[c].state = calendars[c].state

\* Availability is added to open calendars only.
OpenedToAll ==
    \A i \in DOMAIN intervals' \ DOMAIN intervals :
       calendars[intervals'[i].calendar].state = "open"
OpenWhenAdded == [][OpenedToAll]_vars

-----------------------------------------------------------------------------
(* The service implements the book of availability                         *)

Issued == 1..seq["calendars"]
Owner  == [c \in DOMAIN calendars |-> calendars[c].creator]
Membership == {<<participants[p].calendar, participants[p].user>> :
                    p \in DOMAIN participants}
Offered(i) == << participants[intervals[i].participant].calendar,
                 participants[intervals[i].participant].user,
                 intervals[i].date, intervals[i].span >>
\* An interval that lies in another calendar than its member is no offer.
Astray(i) == participants[intervals[i].participant].calendar # intervals[i].calendar
Offers == {Offered(i) : i \in {v \in DOMAIN intervals : ~Astray(v)}}

Book == INSTANCE AvailabilityBook WITH
    Ids <- RowIds, issued <- Issued, owner <- Owner, members <- Membership,
    offers <- Offers

\* Whatever is interleaved, fails or crashes, members and availability change as
\* the book says: one fact, one member or one calendar at a time.  (Under whose
\* name a fact is entered is OnlyAsWritten's subject.)
ImplementsBook == Book!Spec
=============================================================================

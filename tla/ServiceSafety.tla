---------------------------- MODULE ServiceSafety ----------------------------
(***************************************************************************)
(* The safety properties of the service, for every value of the constants, *)
(* and that it implements AvailabilityBook.                                *)
(***************************************************************************)
EXTENDS ServiceProofs

-----------------------------------------------------------------------------
(* The id of its member stays right while a call holds it.                 *)

\* A member id that was right in this state is right in the next one.
MemberId(id, calendar, user) ==
    /\ id \in 1..seq["participants"]
    /\ id \in DOMAIN participants =>
            participants[id].calendar = calendar /\ participants[id].user = user

StaysMemberId(id, calendar, user) ==
    /\ id \in 1..seq'["participants"]
    /\ id \in DOMAIN participants' =>
            participants'[id].calendar = calendar /\ participants'[id].user = user

LEMMA MemberIdStays ==
    ASSUME RepoTypeOK, RepoTypeOK', [RepoStep]_db,
           NEW id, NEW calendar, NEW user, MemberId(id, calendar, user)
    PROVE  StaysMemberId(id, calendar, user)
<1>1. [MeaningKept]_db /\ seq'["participants"] >= seq["participants"]
    BY MeaningStep, SeqStep DEF Tables
<1>2. seq["participants"] \in Int /\ seq'["participants"] \in Int
    BY DEF RepoTypeOK, Tables
<1>3. CASE MeaningKept
    BY <1>1, <1>2, <1>3 DEF MeaningKept, MemberId, StaysMemberId, Same
<1>4. CASE UNCHANGED db
    BY <1>4 DEF db, MemberId, StaysMemberId
<1> QED
    BY <1>1, <1>3, <1>4

\* An upsert returns the id of the row it has written.
LEMMA WrittenMember ==
    ASSUME RepoTypeOK, RepoTypeOK', NEW row \in ParticipantRow, upsert_participant(row)
    PROVE  StaysMemberId(UpsertId(row), row.calendar, row.user)
<1>1. participants' = Put(participants, UpsertId(row), row)
    BY DEF upsert_participant
<1>2. /\ UpsertId(row) \in DOMAIN participants'
      /\ participants'[UpsertId(row)] = row
    BY <1>1 DEF Put
<1> QED
    BY <1>2 DEF StaysMemberId, RepoTypeOK

\* If the row is not written after all, the id is right unless it is lost.
LEMMA UndoneMember ==
    ASSUME RepoTypeOK, NEW row, UNCHANGED db, UpsertId(row) \in DOMAIN participants
    PROVE  StaysMemberId(UpsertId(row), row.calendar, row.user)
<1>1. DOMAIN participants \subseteq 1..seq["participants"] /\ seq["participants"] \in Int
    BY DEF RepoTypeOK, Tables
<1>2. UpsertId(row) # NextId("participants")
    BY <1>1 DEF NextId
<1>3. UpsertId(row) \in Matching(row)
    BY <1>2, UpsertIdFacts
<1> QED
    BY <1>1, <1>3 DEF Matching, Same, StaysMemberId, db

LEMMA UpsertedMember ==
    ASSUME ServiceInv, ServiceInv', NEW t \in Threads, Joins(t), call'[t].lost = 0
    PROVE  StaysMemberId(call'[t].pid, call[t].id, call[t].req.user)
<1>1. TypeOK /\ CallsInShape /\ RepoTypeOK /\ RepoTypeOK'
    BY DEF ServiceInv, TypeOK
<1>2. /\ Member(t) \in ParticipantRow
      /\ CanUpsert(Member(t)) => UpsertId(Member(t)) \in RowIds
    BY <1>1, MemberFacts DEF Joins
<1>3. /\ CanUpsert(Member(t))
      /\ upsert_participant(Member(t)) \/ UNCHANGED db
    BY UpsertCases DEF Joins
<1>4. UpsertId(Member(t)) \in DOMAIN participants'
    BY <1>2, <1>3, RepositoryAssumption DEF Joins, LostId, RowIds
<1>5. Member(t).calendar = call[t].id /\ Member(t).user = call[t].req.user
    BY DEF Member
<1>6. call'[t].pid = UpsertId(Member(t))
    BY DEF Joins
<1>7. CASE upsert_participant(Member(t))
    BY <1>1, <1>2, <1>5, <1>6, <1>7, WrittenMember
<1>8. CASE UNCHANGED db
  <2>1. UpsertId(Member(t)) \in DOMAIN participants
      BY <1>4, <1>8 DEF db
  <2>2. StaysMemberId(UpsertId(Member(t)), Member(t).calendar, Member(t).user)
      BY <1>1, <1>8, <2>1, UndoneMember
  <2> QED
      BY <1>5, <1>6, <2>2
<1> QED
    BY <1>3, <1>7, <1>8

LEMMA KnowMemberStep ==
    ServiceInv /\ CallsKnowTheirMember /\ [Next]_vars => CallsKnowTheirMember'
<1> SUFFICES ASSUME ServiceInv, CallsKnowTheirMember, [Next]_vars
             PROVE  CallsKnowTheirMember'
    OBVIOUS
<1>1. /\ ServiceInv' /\ [RepoStep]_db
      /\ TypeOK /\ RepoTypeOK /\ RepoTypeOK'
    BY ServiceStep DEF ServiceInv, TypeOK
<1>2. ASSUME NEW u \in Threads, call[u].pid # 0, call[u].lost = 0
      PROVE  StaysMemberId(call[u].pid, call[u].id, call[u].req.user)
  <2>1. call[u].pid \in Nat
      BY <1>1, RepositoryAssumption DEF TypeOK, CallOK
  <2>2. MemberId(call[u].pid, call[u].id, call[u].req.user)
      BY <1>1, <1>2, <2>1 DEF CallsKnowTheirMember, MemberId, RepoTypeOK, Tables
  <2> QED
      BY <1>1, <2>2, MemberIdStays
<1>3. (\A u \in Threads : call'[u].pid # 0 /\ call'[u].lost = 0 =>
            StaysMemberId(call'[u].pid, call'[u].id, call'[u].req.user))
                => CallsKnowTheirMember'
  <2>1. seq'["participants"] \in Int
      BY <1>1 DEF RepoTypeOK, Tables
  <2> QED
      BY <2>1 DEF CallsKnowTheirMember, StaysMemberId
<1>4. ASSUME NEW t \in Threads, Step(t) PROVE CallsKnowTheirMember'
  <2>1. ASSUME NEW u \in Threads, u # t, call'[u].pid # 0, call'[u].lost = 0
        PROVE  StaysMemberId(call'[u].pid, call'[u].id, call'[u].req.user)
    <3>1. call'[u] = call[u]
        BY <1>4, <2>1, ThreadStep DEF OwnStep, SameBut
    <3> QED
        BY <1>2, <2>1, <3>1
  <2>2. CASE call'[t].pid = 0
      BY <1>3, <2>1, <2>2
  <2>3. CASE /\ call'[t].pid = call[t].pid /\ call'[t].id = call[t].id
             /\ call'[t].req = call[t].req /\ call'[t].lost = call[t].lost
      BY <1>2, <1>3, <2>1, <2>3
  <2>4. CASE FindsMember(t) /\ UNCHANGED db
    <3>1. /\ call'[t].id = call[t].id /\ call'[t].req = call[t].req
          /\ call'[t].pid \in find_participant(call[t].id, call[t].req.user)
        BY <2>4, IdleFields DEF FindsMember, SameBut
    <3>2. StaysMemberId(call'[t].pid, call'[t].id, call'[t].req.user)
        BY <1>1, <2>4, <3>1
        DEF find_participant, Same, StaysMemberId, RepoTypeOK, db
    <3> QED
        BY <1>3, <2>1, <3>2
  <2>5. CASE Joins(t)
    <3>1. call'[t].id = call[t].id /\ call'[t].req = call[t].req
        BY <2>5, IdleFields DEF Joins, SameBut
    <3>2. call'[t].lost = 0 =>
              StaysMemberId(call'[t].pid, call'[t].id, call'[t].req.user)
        BY <1>1, <2>5, <3>1, UpsertedMember
    <3> QED
        BY <1>3, <2>1, <3>2
  <2> QED
    <3>1. StepCases(t)
        BY <1>4, CasesOfStep
    <3>2. CASE Reads(t)
        BY <2>2, <2>3, <2>4, <3>2, IdleFields
        DEF Reads, Keeps, Forgets, TakesCopy, SameBut
    <3>3. CASE Creates(t)
        BY <2>2, <3>3, IdleFields DEF Creates, Keeps, SameBut
    <3>4. CASE Stores(t) \/ Clears(t) \/ Manages(t) \/ Posts(t)
        BY <2>3, <3>4, IdleFields DEF Stores, Clears, Manages, Posts, Keeps, SameBut
    <3> QED
        BY <2>5, <3>1, <3>2, <3>3, <3>4 DEF StepCases
<1>5. CASE Crash
    BY <1>3, <1>5 DEF Crash, Idle
<1>6. CASE UNCHANGED vars
    BY <1>2, <1>3, <1>6 DEF vars
<1> QED
    BY <1>4, <1>5, <1>6 DEF Next

\* No upsert was lost.
NoneLost == \A t \in Threads : call[t].lost = 0

LEMMA SoundDisk == ServiceInv => (DiskMayFail \/ NoneLost)
BY DEF ServiceInv, CallsInShape, Shape, NoneLost

\* While add_availability stores the dates of its call, and while my_schedule
\* lists the rows of an id, the id they have read is nobody else's - unless it is
\* one that an upsert returned without storing it, which takes a disk that fails.
THEOREM MembersKnown ==
    Spec => [](CallsKnowTheirMember /\ (DiskMayFail \/ NoneLost))
<1>1. Init => CallsKnowTheirMember
    BY DEF Init, Idle, CallsKnowTheirMember
<1> QED
    BY <1>1, ServiceCorrect, KnowMemberStep, SoundDisk, PTL DEF Spec

-----------------------------------------------------------------------------
(* Where availability comes from and where it goes.                        *)

\* An interval lies in the calendar of its member.
IntervalsPlaced ==
    \A i \in DOMAIN intervals :
        participants[intervals[i].participant].calendar = intervals[i].calendar

\* All that the action properties rest on.
SafeInv == /\ ServiceInv
           /\ ReferentialIntegrity
           /\ CopiesOld
           /\ CallsKnowTheirMember
           /\ DiskMayFail \/ IntervalsPlaced

\* Rows that stay are not rewritten; a new one is the next date of a call.
LEMMA IntervalsKept ==
    ASSUME ServiceInv, NEW t \in Threads, Step(t), NEW i \in DOMAIN intervals'
    PROVE  \/ i \in DOMAIN intervals /\ intervals'[i] = intervals[i]
           \/ Stores(t) /\ i \notin DOMAIN intervals /\ intervals'[i] = Interval(t)
<1>1. StepCases(t)
    BY CasesOfStep
<1>2. CASE intervals' = intervals
    BY <1>2
<1>3. CASE Stores(t)
  <2>1. intervals' = Put(intervals, NextId("intervals"), Interval(t))
      BY <1>3 DEF Stores, add_interval
  <2>2. NextId("intervals") \notin DOMAIN intervals
    <3>1. DOMAIN intervals \subseteq 1..seq["intervals"] /\ seq["intervals"] \in Int
        BY DEF ServiceInv, TypeOK, RepoTypeOK, Tables
    <3> QED
        BY <3>1 DEF NextId
  <2> QED
      BY <1>3, <2>1, <2>2 DEF Put
<1>4. ASSUME NEW gone, intervals' = Without(intervals, gone)
      PROVE  i \in DOMAIN intervals /\ intervals'[i] = intervals[i]
    BY <1>4, WithoutKeeps
<1>5. CASE Clears(t)
    BY <1>4, <1>5 DEF Clears, clear_participant
<1>6. CASE Manages(t)
    BY <1>2, <1>4, <1>6 DEF Manages, update_calendar_state, delete_calendar
<1> QED
    BY <1>1, <1>2, <1>3, <1>5, <1>6
    DEF StepCases, Reads, Creates, Joins, Posts, create_calendar, CreateCalendarFails,
        Upserts, UpsertUndone, upsert_participant, set_calendar_message, db

\* The member of the row that a call stores is the caller, in its calendar, unless
\* the upsert was lost.
LEMMA StoredFor ==
    ASSUME ServiceInv, CallsKnowTheirMember, NEW t \in Threads, Stores(t)
    PROVE  /\ Interval(t).calendar = call[t].req.calendar
           /\ Interval(t).date \in call[t].req.dates
           /\ Interval(t).span = call[t].req.span
           /\ Interval(t).participant = call[t].pid
           /\ call[t].pid \in DOMAIN participants
           /\ call[t].lost = 0 =>
                /\ participants[call[t].pid].calendar = call[t].req.calendar
                /\ participants[call[t].pid].user = call[t].req.user
<1>1. TypeOK /\ CallsInShape /\ call[t].pc = "store" /\ Shape(call[t])
    BY DEF ServiceInv, CallsInShape, Stores
<1>2. /\ call[t].id = call[t].req.calendar
      /\ call[t].todo \subseteq call[t].req.dates
      /\ call[t].pid # 0
    BY <1>1, RepositoryAssumption DEF Shape, RowIds
<1>3. NextDate(call[t].todo) \in call[t].todo
    BY <1>1, IntervalFacts
<1>4. call[t].pid \in DOMAIN participants
    BY DEF Stores, add_interval, CanAddInterval, Interval
<1> QED
    BY <1>2, <1>3, <1>4 DEF Interval, CallsKnowTheirMember

LEMMA PlacedIntervalsStep ==
    SafeInv /\ [Next]_vars /\ ~DiskMayFail => IntervalsPlaced'
<1> SUFFICES ASSUME SafeInv, [Next]_vars, ~DiskMayFail PROVE IntervalsPlaced'
    OBVIOUS
<1>1. /\ ServiceInv /\ RepoTypeOK /\ [RepoStep]_db /\ ServiceInv'
      /\ ReferentialIntegrity /\ ReferentialIntegrity'
    BY ServiceStep, RefsStep DEF SafeInv, ServiceInv, TypeOK
<1>2. [MeaningKept]_db
    BY <1>1, MeaningStep
<1>3. ASSUME NEW i \in DOMAIN intervals', i \in DOMAIN intervals,
             intervals'[i] = intervals[i]
      PROVE  participants'[intervals'[i].participant].calendar = intervals'[i].calendar
  <2>1. /\ intervals[i].participant \in DOMAIN participants
        /\ intervals[i].participant \in DOMAIN participants'
      BY <1>1, <1>3 DEF ReferentialIntegrity
  <2>2. participants'[intervals[i].participant].calendar
            = participants[intervals[i].participant].calendar
      BY <1>2, <2>1 DEF MeaningKept, Same, db
  <2> QED
      BY <1>3, <2>2 DEF SafeInv, IntervalsPlaced
<1>4. ASSUME NEW t \in Threads, Step(t), NEW i \in DOMAIN intervals'
      PROVE  participants'[intervals'[i].participant].calendar = intervals'[i].calendar
  <2>1. CASE i \in DOMAIN intervals /\ intervals'[i] = intervals[i]
      BY <1>3, <1>4, <2>1
  <2>2. CASE Stores(t) /\ intervals'[i] = Interval(t)
    <3>1. participants' = participants
        BY <2>2 DEF Stores, add_interval
    <3> QED
        BY <2>2, <3>1, StoredFor, SoundDisk DEF SafeInv, NoneLost
  <2> QED
      BY <1>1, <1>4, <2>1, <2>2, IntervalsKept
<1>5. CASE Crash \/ UNCHANGED vars
  <2>1. db' = db
      BY <1>5 DEF Crash, vars
  <2> QED
      BY <2>1 DEF SafeInv, IntervalsPlaced, db
<1> QED
    BY <1>4, <1>5 DEF Next, IntervalsPlaced

LEMMA SafeStep == SafeInv /\ [Next]_vars => SafeInv'
<1> SUFFICES ASSUME SafeInv, [Next]_vars PROVE SafeInv'
    OBVIOUS
<1>1. ServiceInv' /\ [RepoStep]_db /\ RepoTypeOK
    BY ServiceStep DEF SafeInv, ServiceInv, TypeOK
<1>2. ReferentialIntegrity'
    BY <1>1, RefsStep DEF SafeInv
<1> QED
    BY <1>1, <1>2, CopiesOldStep, KnowMemberStep, PlacedIntervalsStep DEF SafeInv

LEMMA SafeInit == Init => SafeInv
BY ServiceInit, CopiesOldInit
DEF Init, RepoInit, Idle, SafeInv, ReferentialIntegrity, CallsKnowTheirMember,
    IntervalsPlaced

LEMMA Safe == Spec => []SafeInv
BY SafeInit, SafeStep, PTL DEF Spec

-----------------------------------------------------------------------------
(* The action properties.                                                  *)

LEMMA AddedStep == SafeInv /\ [Next]_vars => [AddedAsWritten]_vars
<1> SUFFICES ASSUME SafeInv, Next, NEW i \in DOMAIN intervals' \ DOMAIN intervals
             PROVE  \E t \in Threads :
                      /\ call[t].pc = "store"
                      /\ intervals'[i].calendar = call[t].req.calendar
                      /\ intervals'[i].date \in call[t].req.dates
                      /\ intervals'[i].span = call[t].req.span
                      /\ \/ call[t].lost # 0
                         \/ /\ participants[intervals'[i].participant].user
                                    = call[t].req.user
                            /\ participants[intervals'[i].participant].calendar
                                    = intervals'[i].calendar
    BY DEF AddedAsWritten
<1>1. ~Crash
    BY DEF Crash, db
<1>2. PICK t \in Threads : Step(t)
    BY <1>1 DEF Next
<1>3. Stores(t) /\ intervals'[i] = Interval(t)
    BY <1>2, IntervalsKept DEF SafeInv
<1>4. call[t].pc = "store"
    BY <1>3 DEF Stores
<1> QED
    BY <1>3, <1>4, StoredFor DEF SafeInv

LEMMA ForCallerStep ==
    SafeInv /\ [Next]_vars => (DiskMayFail \/ [EnteredForTheCaller]_vars)
<1> SUFFICES ASSUME SafeInv, ~DiskMayFail, Next,
                    NEW i \in DOMAIN intervals' \ DOMAIN intervals
             PROVE  \E t \in Threads :
                      /\ call[t].pc = "store"
                      /\ Same(participants[intervals'[i].participant], call[t].req)
    BY DEF EnteredForTheCaller
<1>1. ~Crash
    BY DEF Crash, db
<1>2. PICK t \in Threads : Step(t)
    BY <1>1 DEF Next
<1>3. Stores(t) /\ intervals'[i] = Interval(t)
    BY <1>2, IntervalsKept DEF SafeInv
<1>4. call[t].pc = "store" /\ call[t].lost = 0
    BY <1>3, SoundDisk DEF Stores, SafeInv, NoneLost
<1> QED
    BY <1>3, <1>4, StoredFor DEF SafeInv, Same

\* Availability is entered only by a call that asks for it, in its calendar, at a
\* date and span of it, however the calls of others interleave with it; and for
\* the member who calls, unless the disk has lost his upsert.
THEOREM AddsAsWritten == Spec => OnlyAsWritten
BY Safe, AddedStep, PTL DEF Spec, OnlyAsWritten

\* On a disk that does not fail availability is never entered under the name of
\* another member than the one who calls.
THEOREM AddsForTheCaller ==
    ASSUME ~DiskMayFail
    PROVE  Spec => OnlyForTheCaller
<1>1. SafeInv /\ [Next]_vars => [EnteredForTheCaller]_vars
    BY ForCallerStep
<1> QED
    BY <1>1, Safe, PTL DEF Spec, OnlyForTheCaller

\* Rows disappear only as a member is cleared or a calendar is deleted.
LEMMA IntervalsGone ==
    ASSUME ServiceInv, NEW t \in Threads, Step(t),
           NEW i \in DOMAIN intervals \ DOMAIN intervals'
    PROVE  \/ /\ Clears(t)
              /\ i \in IntervalsOf({p \in ParticipantsIn(call[t].id) :
                                        participants[p].user = call[t].req.user})
           \/ /\ Manages(t) /\ call[t].pc = "delete"
              /\ \/ intervals[i].calendar = call[t].id
                 \/ intervals[i].participant \in ParticipantsIn(call[t].id)
<1>1. StepCases(t)
    BY CasesOfStep
<1>2. intervals' # intervals
    OBVIOUS
<1>3. ASSUME Stores(t) PROVE FALSE
  <2>1. intervals' = Put(intervals, NextId("intervals"), Interval(t))
      BY <1>3 DEF Stores, add_interval
  <2> QED
      BY <2>1 DEF Put
<1>4. ASSUME NEW gone, intervals' = Without(intervals, gone) PROVE i \in gone
  <2>1. DOMAIN intervals' = DOMAIN intervals \ gone
      BY <1>4, WithoutKeeps
  <2> QED
      BY <2>1
<1>5. CASE Clears(t)
    BY <1>4, <1>5 DEF Clears, clear_participant
<1>6. CASE Manages(t)
  <2>1. CASE update_calendar_state(call[t].id, call[t].req.state)
      BY <1>2, <2>1 DEF update_calendar_state
  <2>2. CASE call[t].pc = "delete" /\ delete_calendar(call[t].id)
    <3>1. i \in {k \in DOMAIN intervals :
                    \/ intervals[k].calendar = call[t].id
                    \/ intervals[k].participant \in ParticipantsIn(call[t].id)}
        BY <1>4, <2>2 DEF delete_calendar
    <3> QED
        BY <1>6, <2>2, <3>1
  <2> QED
      BY <1>6, <2>1, <2>2 DEF Manages
<1> QED
    BY <1>1, <1>2, <1>3, <1>5, <1>6
    DEF StepCases, Reads, Creates, Joins, Posts, create_calendar, CreateCalendarFails,
        Upserts, UpsertUndone, upsert_participant, set_calendar_message, db

\* The copy by which a call was taken for the creator's names the creator.
LEMMA OwnerIsCreator ==
    ASSUME SafeInv, NEW t \in Threads, IsOwner(t), call[t].id \in DOMAIN calendars,
           call[t].pc \in Ops \ {"create"}
    PROVE  /\ call[t].req.user = calendars[call[t].id].creator
           /\ call[t].id = call[t].req.calendar
<1>1. call[t].cal \in CalendarRow
    BY DEF SafeInv, ServiceInv, CallsInShape, Shape, AfterLookup
<1>2. OldRow(call[t].id, call[t].cal)
    BY <1>1, ServiceAssumption DEF SafeInv, CopiesOld, HeldRowsAreOld
<1>3. call[t].id = call[t].req.calendar
    BY DEF SafeInv, ServiceInv, CallsInShape, Shape, Ops
<1> QED
    BY <1>2, <1>3 DEF OldRow, Later, IsOwner

LEMMA RemovedStep == SafeInv /\ [Next]_vars => [RemovedByRight]_vars
<1> SUFFICES ASSUME SafeInv, Next, NEW i \in DOMAIN intervals \ DOMAIN intervals',
                    NEW member, member = participants[intervals[i].participant]
             PROVE  \E t \in Threads :
                      \/ /\ call[t].pc = "clear"
                         /\ call[t].req.calendar = member.calendar
                         /\ call[t].req.user = member.user
                      \/ /\ call[t].pc = "delete"
                         /\ call[t].req.calendar
                                \in {intervals[i].calendar, member.calendar}
                         /\ call[t].req.user
                                = calendars[call[t].req.calendar].creator
    BY DEF RemovedByRight
<1>1. ~Crash
    BY DEF Crash, db
<1>2. PICK t \in Threads : Step(t)
    BY <1>1 DEF Next
<1>3. /\ intervals[i].calendar \in DOMAIN calendars
      /\ intervals[i].participant \in DOMAIN participants
      /\ member.calendar \in DOMAIN calendars
    BY DEF SafeInv, ReferentialIntegrity
<1>4. CASE /\ Clears(t)
           /\ i \in IntervalsOf({p \in ParticipantsIn(call[t].id) :
                                    participants[p].user = call[t].req.user})
  <2>1. member.calendar = call[t].id /\ member.user = call[t].req.user
      BY <1>4 DEF IntervalsOf, ParticipantsIn
  <2>2. call[t].pc = "clear" /\ call[t].id = call[t].req.calendar
      BY <1>4 DEF Clears, SafeInv, ServiceInv, CallsInShape, Shape, Ops
  <2> QED
      BY <2>1, <2>2
<1>5. CASE /\ Manages(t) /\ call[t].pc = "delete"
           /\ \/ intervals[i].calendar = call[t].id
              \/ intervals[i].participant \in ParticipantsIn(call[t].id)
  <2>1. call[t].id \in {intervals[i].calendar, member.calendar}
      BY <1>5 DEF ParticipantsIn
  <2> QED
      BY <1>3, <1>5, <2>1, OwnerIsCreator DEF Manages, Ops
<1> QED
    BY <1>2, <1>4, <1>5, IntervalsGone DEF SafeInv

\* Nobody's availability is taken away but by himself or by the creator of the
\* calendar it is in - also where a lost upsert has put it into another calendar
\* than that of the member it is stored under.
THEOREM RemovesByRight == Spec => OnlyRemovedByRight
BY Safe, RemovedStep, PTL DEF Spec, OnlyRemovedByRight

\* The state of a calendar changes only in a call that manages it.
LEMMA StateKept ==
    ASSUME ServiceInv, NEW t \in Threads, Step(t), NEW c \in DOMAIN calendars
    PROVE  \/ c \in DOMAIN calendars' /\ calendars'[c].state = calendars[c].state
           \/ Manages(t) /\ call[t].id = c
<1>1. StepCases(t)
    BY CasesOfStep
<1>2. CASE calendars' = calendars
    BY <1>2
<1>3. CASE Manages(t)
  <2>1. CASE update_calendar_state(call[t].id, call[t].req.state)
      BY <1>3, <2>1 DEF update_calendar_state
  <2>2. CASE delete_calendar(call[t].id)
    <3>1. calendars' = Without(calendars, {call[t].id})
        BY <2>2 DEF delete_calendar
    <3>2. c # call[t].id => c \in DOMAIN calendars' /\ calendars'[c] = calendars[c]
      <4> DEFINE gone == {call[t].id}
      <4>1. calendars' = Without(calendars, gone) /\ (c # call[t].id => c \notin gone)
          BY <3>1
      <4> HIDE DEF gone
      <4> QED
          BY <4>1, WithoutLeaves
    <3> QED
        BY <1>3, <3>2
  <2> QED
      BY <1>3, <2>1, <2>2 DEF Manages
<1>4. CASE Stores(t)
  <2>1. calendars' = [calendars EXCEPT ![Interval(t).calendar].revision = @ + 1]
      BY <1>4 DEF Stores, add_interval
  <2>2. calendars[c] \in CalendarRow
      BY DEF ServiceInv, TypeOK, RepoTypeOK
  <2> QED
      BY <2>1, <2>2 DEF CalendarRow
<1>5. ASSUME NEW row, create_calendar(row)
      PROVE  c \in DOMAIN calendars' /\ calendars'[c].state = calendars[c].state
  <2>1. calendars' = Put(calendars, NextId("calendars"), row)
      BY <1>5 DEF create_calendar
  <2>2. c # NextId("calendars")
    <3>1. c \in 1..seq["calendars"] /\ seq["calendars"] \in Int
        BY DEF ServiceInv, TypeOK, RepoTypeOK, Tables
    <3> QED
        BY <3>1 DEF NextId
  <2> QED
      BY <2>1, <2>2 DEF Put
<1> QED
    BY <1>1, <1>2, <1>3, <1>4, <1>5
    DEF StepCases, Reads, Creates, Joins, Clears, Posts, CreateCalendarFails,
        Upserts, UpsertUndone, upsert_participant, clear_participant,
        set_calendar_message, db

LEMMA ManagedStep == SafeInv /\ [Next]_vars => [ManagedByOwner]_vars
<1> SUFFICES ASSUME SafeInv, Next, NEW c \in DOMAIN calendars
             PROVE  /\ \/ /\ c \in DOMAIN calendars'
                          /\ calendars'[c].state = calendars[c].state
                       \/ \E t \in Threads : /\ call[t].pc \in {"state", "delete"}
                                             /\ call[t].req.calendar = c
                                             /\ call[t].req.user = calendars[c].creator
                    /\ \A t \in Threads :
                          call[t].id = c /\ call[t].pc = "day" /\ call'[t].pc = "day_list"
                              => call[t].req.user = calendars[c].creator
    BY DEF ManagedByOwner
<1>1. CASE Crash
    BY <1>1 DEF Crash, Idle, db
<1>2. ASSUME NEW t \in Threads, Step(t), Manages(t), call[t].id = c
      PROVE  /\ call[t].pc \in {"state", "delete"}
             /\ call[t].req.calendar = c
             /\ call[t].req.user = calendars[c].creator
    BY <1>2, OwnerIsCreator DEF Manages, Ops
<1>3. ASSUME NEW t \in Threads, Step(t), NEW u \in Threads,
             call[u].id = c, call[u].pc = "day", call'[u].pc = "day_list"
      PROVE  call[u].req.user = calendars[c].creator
  <2>1. u = t
      BY <1>3, ThreadStep DEF SafeInv, OwnStep, SameBut
  <2>2. FindAttendees(t)
      BY <1>3, <2>1
      DEF Step, Work, Lookup, Writing, Reading, Return, Begin, CacheHit, CacheMiss,
          FindCalendar, FillCache, CreateCalendar, AddAvailability, StoreDate,
          ClearMyData, ChangeState, DeleteCalendar, SetCalendarMessage, Invalidate,
          ViewCalendar, CalendarMessage, FindMine, MySchedule, DayParticipants,
          FindWeek, WeeklyHeatmap, PublicParticipants
  <2>3. ~IsOwner(t) => call'[t].pc = "done"
    <3>1. ~IsOwner(t) => Answer(t, "permission_denied", NULL)
        BY <2>2 DEF FindAttendees
    <3> QED
        BY <3>1, AnswerFacts DEF SafeInv, ServiceInv
  <2> QED
      BY <1>3, <2>1, <2>3, OwnerIsCreator DEF Ops
<1> QED
    BY <1>1, <1>2, <1>3, StateKept DEF Next, SafeInv

\* Only its creator closes, opens or deletes a calendar or learns who takes part
\* in it, although the check looks at a copy of the row.
THEOREM OwnersManage == Spec => OnlyOwnersManage
BY Safe, ManagedStep, PTL DEF Spec, OnlyOwnersManage

LEMMA MineStep == SafeInv /\ [Next]_vars => [MineOnly]_vars
<1> SUFFICES ASSUME SafeInv, Next, NEW t \in Threads, call[t].pc = "mine_list",
                    call'[t].pc = "done", NEW row \in call'[t].value
             PROVE  /\ row.calendar = call[t].req.calendar
                    /\ participants[row.participant].user = call[t].req.user
    BY DEF MineOnly
<1>1. ~Crash
    BY DEF Crash, Idle
<1>2. PICK u \in Threads : Step(u)
    BY <1>1 DEF Next
<1>3. u = t
    BY <1>2, ThreadStep DEF SafeInv, OwnStep, SameBut
<1>4. MySchedule(t)
    BY <1>2, <1>3, CallFacts
    DEF Step, Work, Lookup, Writing, Reading, Return, Begin, CacheHit, CacheMiss,
        FindCalendar, FillCache, CreateCalendar, AddAvailability, StoreDate,
        ClearMyData, ChangeState, DeleteCalendar, SetCalendarMessage, Invalidate,
        ViewCalendar, CalendarMessage, FindMine, FindAttendees, DayParticipants,
        FindWeek, WeeklyHeatmap, PublicParticipants
<1>5. PICK got \in Delivered(InMonth(t)) :
            Answer(t, "ok", {intervals[i] : i \in {v \in got :
                                intervals[v].participant = call[t].pid}})
    BY <1>4 DEF MySchedule
<1>6. PICK i \in got : intervals[i].participant = call[t].pid /\ row = intervals[i]
  <2>1. call'[t].value = {intervals[i] : i \in {v \in got :
                                intervals[v].participant = call[t].pid}}
      BY <1>5, AnswerFacts DEF SafeInv, ServiceInv
  <2> QED
      BY <2>1
<1>7. i \in DOMAIN intervals /\ intervals[i].calendar = call[t].id
    BY <1>5, DeliveredFacts DEF InMonth, list_intervals
<1>8. call[t].id = call[t].req.calendar /\ call[t].pid # 0 /\ call[t].lost = 0
    BY RepositoryAssumption DEF SafeInv, ServiceInv, CallsInShape, Shape, RowIds
<1>9. call[t].pid \in DOMAIN participants
    BY <1>6, <1>7 DEF SafeInv, ReferentialIntegrity
<1> QED
    BY <1>6, <1>7, <1>8, <1>9 DEF SafeInv, CallsKnowTheirMember

\* My Schedule shows the caller's rows and nobody else's, although the id of the
\* member is read in one critical section and the rows in another.
THEOREM MineIsOnlyMine == Spec => MineIsMine
BY Safe, MineStep, PTL DEF Spec, MineIsMine

-----------------------------------------------------------------------------
(* What is stored of a call that adds availability.                        *)

\* The dates that a call has done with are stored, for as long as its member is
\* there; when it goes on to its answer there are none left.
SavedSoFar ==
    \A t \in Threads :
        /\ \/ call[t].pc \in {"store", "invalidate"}
           \/ call[t].pc = "done" /\ call[t].code = "ok"
        /\ call[t].req.op = "add"
        => /\ call[t].pc # "store" => call[t].todo = {}
           /\ call[t].pid \in DOMAIN participants /\ call[t].lost = 0 =>
                 \A d \in call[t].req.dates \ call[t].todo : Stored(t, d)

\* A row in the calendar of its member stays as long as the member does.
LEMMA IntervalsStay ==
    ASSUME SafeInv, NEW t \in Threads, Step(t), NEW i \in DOMAIN intervals, ~Astray(i),
           intervals[i].participant \in DOMAIN participants'
    PROVE  i \in DOMAIN intervals' /\ intervals'[i] = intervals[i]
<1>1. i \in DOMAIN intervals'
  <2> SUFFICES ASSUME i \notin DOMAIN intervals' PROVE FALSE
      OBVIOUS
  <2>1. participants[intervals[i].participant].calendar = intervals[i].calendar
      BY DEF Astray
  <2>2. ASSUME NEW gone, participants' = Without(participants, gone)
        PROVE  intervals[i].participant \notin gone
    <3>1. DOMAIN participants' = DOMAIN participants \ gone
        BY <2>2, WithoutKeeps
    <3> QED
        BY <3>1
  <2>3. CASE /\ Clears(t)
             /\ i \in IntervalsOf({p \in ParticipantsIn(call[t].id) :
                                      participants[p].user = call[t].req.user})
      BY <2>2, <2>3 DEF Clears, clear_participant, IntervalsOf
  <2>4. CASE /\ Manages(t) /\ call[t].pc = "delete"
             /\ \/ intervals[i].calendar = call[t].id
                \/ intervals[i].participant \in ParticipantsIn(call[t].id)
    <3>1. participants' = Without(participants, ParticipantsIn(call[t].id))
        BY <2>4 DEF Manages, delete_calendar
    <3>2. intervals[i].participant \in DOMAIN participants
        BY DEF SafeInv, ReferentialIntegrity
    <3> QED
        BY <2>1, <2>2, <2>4, <3>1, <3>2 DEF ParticipantsIn
  <2> QED
      BY <2>3, <2>4, IntervalsGone DEF SafeInv
<1> QED
    BY <1>1, IntervalsKept DEF SafeInv

\* A member that is there after a step, and whose id a call held before it, was
\* there before it.
LEMMA MemberWasThere ==
    ASSUME SafeInv, [Next]_vars, NEW t \in Threads, call[t].lost = 0,
           call[t].pid \in DOMAIN participants'
    PROVE  call[t].pid \in DOMAIN participants
<1>1. ServiceInv' /\ [RepoStep]_db /\ RepoTypeOK /\ RepoTypeOK'
    BY ServiceStep DEF SafeInv, ServiceInv, TypeOK
<1>2. [MeaningKept]_db
    BY <1>1, MeaningStep
<1>3. call[t].pid # 0 /\ call[t].pid \in Int /\ seq["participants"] \in Int
    BY <1>1 DEF RepoTypeOK, Tables
<1>4. call[t].pid <= seq["participants"]
    BY <1>3 DEF SafeInv, CallsKnowTheirMember
<1> QED
    BY <1>2, <1>3, <1>4 DEF MeaningKept, db

\* How a call that adds availability gets to where SavedSoFar speaks of it.
LEMMA SavingCases ==
    ASSUME ServiceInv, NEW t \in Threads, Step(t), call'[t].req.op = "add",
           \/ call'[t].pc \in {"store", "invalidate"}
           \/ call'[t].pc = "done" /\ call'[t].code = "ok"
    PROVE  Joins(t) \/ Stores(t) \/ Invalidate(t)
<1>1. TypeOK /\ Shape(call[t])
    BY DEF ServiceInv, CallsInShape
<1>2. ASSUME NEW code, NEW value, Answer(t, code, value)
      PROVE  /\ call'[t].pc = "done" /\ call'[t].code = code
             /\ call'[t].req = call[t].req
    BY <1>1, <1>2, AnswerFacts, IdleFields DEF SameBut
<1>3. ASSUME NEW step, Goto(t, step)
      PROVE  call'[t].pc = step /\ call'[t].req = call[t].req
    BY <1>1, <1>3, GotoFacts, IdleFields DEF SameBut
<1>4. CASE Lookup(t)
  <2>1. ASSUME NEW row, NEW step, step \in {call[t].req.op, "fill"},
               call' = [call EXCEPT ![t].cal = row, ![t].pc = step]
        PROVE  FALSE
    <3>1. DOMAIN call = Threads /\ DOMAIN call[t] = DOMAIN Idle
        BY <1>1 DEF TypeOK, CallOK
    <3>2. call'[t].pc = step /\ call'[t].req = call[t].req
        BY <2>1, <3>1, IdleFields
    <3> QED
        BY <2>1, <3>2
  <2> QED
      BY <1>2, <1>3, <1>4, <2>1
      DEF Lookup, CacheHit, CacheMiss, FindCalendar, FillCache
<1>5. ASSUME ~Forgets(t) PROVE call'[t].req = call[t].req
  <2>1. StepCases(t)
      BY CasesOfStep
  <2> QED
      BY <1>5, <2>1, IdleFields
      DEF StepCases, Reads, Creates, Joins, Stores, Clears, Manages, Posts, Keeps,
          TakesCopy, FindsMember, SameBut
<1>6. call'[t].req = call[t].req
    BY <1>5 DEF Forgets
<1>7. CASE AddAvailability(t)
    BY <1>2, <1>7, AddCases
<1>8. CASE StoreDate(t)
    BY <1>2, <1>8, StoreCases
<1>9. CASE Writing(t)
    BY <1>1, <1>6, <1>7, <1>8, <1>9
    DEF Writing, CreateCalendar, ClearMyData, ChangeState, DeleteCalendar,
        SetCalendarMessage, Shape, Ops
<1>10. CASE Reading(t)
    BY <1>1, <1>6, <1>10
    DEF Reading, ViewCalendar, CalendarMessage, FindMine, MySchedule, FindAttendees,
        DayParticipants, FindWeek, WeeklyHeatmap, PublicParticipants, Shape, Ops
<1>11. CASE Return(t) \/ \E r \in Requests : Begin(t, r)
  <2>1. DOMAIN call = Threads
      BY <1>1 DEF TypeOK
  <2>2. Idle.pc = "idle" /\ \A r : Started(r).pc \in {"create", "lookup"}
      BY DEF Idle, Started
  <2> QED
      BY <1>11, <2>1, <2>2 DEF Return, Begin
<1> QED
    BY <1>4, <1>9, <1>10, <1>11 DEF Step, Work

LEMMA SavedStep == SafeInv /\ SavedSoFar /\ [Next]_vars => SavedSoFar'
<1> SUFFICES ASSUME SafeInv, SavedSoFar, [Next]_vars,
                    NEW u \in Threads, call'[u].req.op = "add",
                    \/ call'[u].pc \in {"store", "invalidate"}
                    \/ call'[u].pc = "done" /\ call'[u].code = "ok"
             PROVE  /\ call'[u].pc # "store" => call'[u].todo = {}
                    /\ call'[u].pid \in DOMAIN participants' /\ call'[u].lost = 0 =>
                          \A d \in call'[u].req.dates \ call'[u].todo : Stored(u, d)'
    BY DEF SavedSoFar
<1>1. ServiceInv /\ TypeOK /\ CallsInShape
    BY DEF SafeInv, ServiceInv
<1>2. ASSUME NEW d, NEW i \in DOMAIN intervals',
             intervals'[i] = [calendar |-> call'[u].id, participant |-> call'[u].pid,
                              date |-> d, span |-> call'[u].req.span]
      PROVE  Stored(u, d)'
    BY <1>2 DEF Stored
<1>3. ASSUME NEW t \in Threads, Step(t), call[u].pid \in DOMAIN participants',
             call[u].lost = 0,
             call'[u].pid = call[u].pid, call'[u].id = call[u].id,
             call'[u].req = call[u].req, NEW d, Stored(u, d)
      PROVE  Stored(u, d)'
  <2>1. PICK i \in DOMAIN intervals :
            intervals[i] = [calendar |-> call[u].id, participant |-> call[u].pid,
                            date |-> d, span |-> call[u].req.span]
      BY <1>3 DEF Stored
  <2>2. call[u].pid \in DOMAIN participants /\ call[u].pid # 0
      BY <1>1, <1>3, MemberWasThere DEF TypeOK, RepoTypeOK, Tables
  <2>3. ~Astray(i)
      BY <1>3, <2>1, <2>2 DEF SafeInv, CallsKnowTheirMember, Astray
  <2>4. i \in DOMAIN intervals' /\ intervals'[i] = intervals[i]
      BY <1>3, <2>1, <2>3, IntervalsStay
  <2> QED
      BY <1>2, <1>3, <2>1, <2>4
<1>4. ASSUME NEW t \in Threads, Step(t), call'[u] = call[u]
      PROVE  /\ call'[u].pc # "store" => call'[u].todo = {}
             /\ call'[u].pid \in DOMAIN participants' /\ call'[u].lost = 0 =>
                   \A d \in call'[u].req.dates \ call'[u].todo : Stored(u, d)'
  <2>1. /\ call[u].pc # "store" => call[u].todo = {}
        /\ call[u].pid \in DOMAIN participants /\ call[u].lost = 0 =>
              \A d \in call[u].req.dates \ call[u].todo : Stored(u, d)
      BY <1>4 DEF SavedSoFar
  <2> QED
      BY <1>3, <1>4, <2>1, MemberWasThere
<1>5. CASE Joins(u)
    BY <1>5, IdleFields DEF Joins, SameBut
<1>6. CASE Stores(u) /\ Step(u)
  <2> PICK next : next = NextDate(call[u].todo)
      OBVIOUS
  <2>1. /\ call'[u].pid = call[u].pid /\ call'[u].id = call[u].id
        /\ call'[u].req = call[u].req /\ call'[u].lost = call[u].lost
        /\ call'[u].todo = call[u].todo \ {next}
        /\ call'[u].pc # "store" => call'[u].todo = {}
        /\ call[u].pc = "store"
      BY <1>6, IdleFields DEF Stores, SameBut
  <2>2. call[u].pid \in DOMAIN participants
      BY <1>1, <1>6, StoredFor DEF SafeInv
  <2>3. call[u].lost = 0 => \A d \in call[u].req.dates \ call[u].todo : Stored(u, d)
      BY <2>1, <2>2 DEF SavedSoFar
  <2>4. Stored(u, next)'
    <3>1. /\ NextId("intervals") \in DOMAIN intervals'
          /\ intervals'[NextId("intervals")] = Interval(u)
      <4>1. intervals' = Put(intervals, NextId("intervals"), Interval(u))
          BY <1>6 DEF Stores, add_interval
      <4> QED
          BY <4>1 DEF Put
    <3> QED
        BY <1>2, <2>1, <3>1 DEF Interval
  <2>5. \A d \in call'[u].req.dates \ call'[u].todo :
            d = next \/ d \in call[u].req.dates \ call[u].todo
      BY <2>1
  <2>6. ASSUME call'[u].pid \in DOMAIN participants', call'[u].lost = 0,
               NEW d \in call[u].req.dates \ call[u].todo
        PROVE  Stored(u, d)'
      BY <1>3, <1>6, <2>1, <2>3, <2>6
  <2> QED
      BY <2>1, <2>4, <2>5, <2>6
<1>7. CASE Invalidate(u) /\ Step(u)
  <2>1. /\ call'[u].pid = call[u].pid /\ call'[u].id = call[u].id
        /\ call'[u].req = call[u].req /\ call'[u].todo = call[u].todo
        /\ call'[u].lost = call[u].lost /\ call[u].pc = "invalidate"
      BY <1>1, <1>7, AnswerFacts, IdleFields DEF Invalidate, SameBut
  <2>2. /\ call[u].todo = {}
        /\ call[u].pid \in DOMAIN participants /\ call[u].lost = 0 =>
              \A d \in call[u].req.dates \ call[u].todo : Stored(u, d)
      BY <2>1 DEF SavedSoFar
  <2> QED
      BY <1>3, <1>7, <2>1, <2>2, MemberWasThere
<1>8. ASSUME NEW t \in Threads, Step(t)
      PROVE  /\ call'[u].pc # "store" => call'[u].todo = {}
             /\ call'[u].pid \in DOMAIN participants' /\ call'[u].lost = 0 =>
                   \A d \in call'[u].req.dates \ call'[u].todo : Stored(u, d)'
  <2>1. CASE u = t
      BY <1>1, <1>5, <1>6, <1>7, <1>8, <2>1, SavingCases
  <2>2. CASE u # t
    <3>1. call'[u] = call[u]
        BY <1>1, <1>8, <2>2, ThreadStep DEF OwnStep, SameBut
    <3> QED
        BY <1>4, <1>8, <3>1
  <2> QED
      BY <2>1, <2>2
<1>9. CASE Crash
    BY <1>9 DEF Crash, Idle
<1>10. CASE UNCHANGED vars
  <2>1. call' = call /\ participants' = participants /\ intervals' = intervals
      BY <1>10 DEF vars, db
  <2> QED
      BY <2>1 DEF SavedSoFar, Stored
<1> QED
    BY <1>8, <1>9, <1>10 DEF Next

\* "Availability saved." is the truth: every date of the call is stored, until
\* the member or the calendar goes, or unless the member was lost at once.
THEOREM SavedIsStored == Spec => []SavedMeansStored
<1>1. Init => SavedSoFar
    BY DEF Init, Idle, SavedSoFar
<1>2. SafeInv /\ SavedSoFar => SavedMeansStored
    BY DEF SavedSoFar, SavedMeansStored
<1> QED
    BY <1>1, <1>2, Safe, SavedStep, PTL DEF Spec

-----------------------------------------------------------------------------
(* What is stored lies where its calendar allows it.                       *)

\* The checks of add_availability.
LEMMA AcceptedFacts ==
    ASSUME NEW c, NEW r
    PROVE  AddAccepted(c, r) <=>
                /\ c.state = "open"
                /\ r.identity.mode \in c.config.modes
                /\ r.identity.mode = "alias" =>
                        /\ r.identity.alias # NULL
                        /\ validate_text(r.identity.alias.length, 1, 32)
                /\ InHours(c.config, r.span)
                /\ r.dates # {}
                /\ \A d \in r.dates : is_date_in_month(d, c.config.month)
<1>1. AddAccepted(c, r) <=> \A k \in 1..5 : AddChecks(c, r)[k].holds
    BY ChecksFacts DEF AddAccepted
<1>2. \A k : k \in 1..5 <=> k = 1 \/ k = 2 \/ k = 3 \/ k = 4 \/ k = 5
    OBVIOUS
<1>3. AddChecks(c, r)[2].holds <=> r.identity.mode \in c.config.modes
    BY Zenon DEF AddChecks
<1>4. AddChecks(c, r)[3].holds <=>
            (r.identity.mode = "alias" =>
                /\ r.identity.alias # NULL
                /\ validate_text(r.identity.alias.length, 1, 32))
    BY Zenon DEF AddChecks
<1>5. AddChecks(c, r)[4].holds <=> InHours(c.config, r.span)
    BY Zenon DEF AddChecks, InHours
<1> QED
    BY <1>1, <1>2, <1>3, <1>4, <1>5, ChecksFacts

\* A call that stores dates has passed the checks.
StoresAccepted ==
    \A t \in Threads : call[t].pc = "store" => AddAccepted(call[t].cal, call[t].req)

LEMMA StoresAcceptedStep == SafeInv /\ StoresAccepted /\ [Next]_vars => StoresAccepted'
<1> SUFFICES ASSUME SafeInv, StoresAccepted, [Next]_vars,
                    NEW u \in Threads, call'[u].pc = "store"
             PROVE  AddAccepted(call'[u].cal, call'[u].req)
    BY DEF StoresAccepted
<1>1. ServiceInv
    BY DEF SafeInv
<1>2. CASE call'[u] = call[u]
    BY <1>2 DEF StoresAccepted
<1>3. ASSUME NEW t \in Threads, Step(t) PROVE AddAccepted(call'[u].cal, call'[u].req)
  <2>1. CASE u # t
      BY <1>1, <1>2, <1>3, <2>1, ThreadStep DEF OwnStep, SameBut
  <2>2. CASE u = t
    <3>1. call'[t].req.op = "add"
        BY <1>1, <1>3, <2>2, ThreadStep DEF OwnStep, Shape
    <3>2. Joins(t) \/ Stores(t) \/ Invalidate(t)
        BY <1>1, <1>3, <2>2, <3>1, SavingCases
    <3>3. CASE Joins(t)
        BY <2>2, <3>3, IdleFields DEF Joins, SameBut
    <3>4. CASE Stores(t)
        BY <2>2, <3>4, IdleFields DEF Stores, SameBut, StoresAccepted
    <3>5. CASE Invalidate(t)
        BY <1>1, <2>2, <3>5, AnswerFacts DEF Invalidate, ServiceInv
    <3> QED
        BY <3>2, <3>3, <3>4, <3>5
  <2> QED
      BY <2>1, <2>2
<1>4. CASE Crash
    BY <1>4 DEF Crash, Idle
<1>5. CASE UNCHANGED vars
    BY <1>2, <1>5 DEF vars
<1> QED
    BY <1>3, <1>4, <1>5 DEF Next

LEMMA InRangeStep ==
    SafeInv /\ StoresAccepted /\ IntervalsInRange /\ [Next]_vars => IntervalsInRange'
<1> SUFFICES ASSUME SafeInv, StoresAccepted, IntervalsInRange, [Next]_vars,
                    NEW i \in DOMAIN intervals'
             PROVE  LET config == calendars'[intervals'[i].calendar].config
                    IN  /\ InHours(config, intervals'[i].span)
                        /\ is_date_in_month(intervals'[i].date, config.month)
    BY DEF IntervalsInRange, InHours, Aligned
<1>1. /\ ServiceInv /\ RepoTypeOK /\ [RepoStep]_db
      /\ ReferentialIntegrity /\ ReferentialIntegrity'
    BY ServiceStep, RefsStep DEF SafeInv, ServiceInv, TypeOK
<1>2. /\ intervals'[i].calendar \in DOMAIN calendars'
      /\ \A c \in DOMAIN calendars' :
            c \in DOMAIN calendars => calendars'[c].config = calendars[c].config
    BY <1>1, RowsStep DEF ReferentialIntegrity, RowsKept, Later
<1>3. ASSUME i \in DOMAIN intervals, intervals'[i] = intervals[i]
      PROVE  LET config == calendars'[intervals'[i].calendar].config
             IN  /\ InHours(config, intervals'[i].span)
                 /\ is_date_in_month(intervals'[i].date, config.month)
  <2>1. intervals[i].calendar \in DOMAIN calendars
      BY <1>1, <1>3 DEF ReferentialIntegrity
  <2> QED
      BY <1>2, <1>3, <2>1 DEF IntervalsInRange
<1>4. ASSUME NEW t \in Threads, Stores(t), intervals'[i] = Interval(t)
      PROVE  LET config == calendars'[intervals'[i].calendar].config
             IN  /\ InHours(config, intervals'[i].span)
                 /\ is_date_in_month(intervals'[i].date, config.month)
  <2>1. /\ call[t].pc = "store"
        /\ call[t].id \in DOMAIN calendars
        /\ Interval(t).calendar = call[t].id /\ Interval(t).span = call[t].req.span
      BY <1>4 DEF Stores, add_interval, CanAddInterval, Interval
  <2>2. call[t].cal # NULL
      BY <1>1, <2>1, ServiceAssumption
      DEF ServiceInv, CallsInShape, Shape, AfterLookup
  <2>3. call[t].cal.config = calendars[call[t].id].config
      BY <2>1, <2>2 DEF SafeInv, CopiesOld, HeldRowsAreOld, OldRow, Later
  <2>4. AddAccepted(call[t].cal, call[t].req) /\ Interval(t).date \in call[t].req.dates
      BY <1>1, <1>4, <2>1, StoredFor DEF StoresAccepted, SafeInv
  <2> QED
      BY <1>2, <1>4, <2>1, <2>3, <2>4, AcceptedFacts
<1>5. CASE Crash \/ UNCHANGED vars
    BY <1>3, <1>5 DEF Crash, vars, db
<1> QED
    BY <1>1, <1>3, <1>4, <1>5, IntervalsKept DEF Next

\* Whatever copy of the calendar was tested, and whatever was interleaved: what
\* is stored lies within the hours of its calendar, in whole slots, at a date of
\* its month - as the heatmap assumes (WeekPlanAssumption).
THEOREM StoredInRange == Spec => []IntervalsInRange
<1>1. Init => StoresAccepted /\ IntervalsInRange
    BY DEF Init, RepoInit, Idle, StoresAccepted, IntervalsInRange
<1> QED
    BY <1>1, Safe, StoresAcceptedStep, InRangeStep, PTL DEF Spec

-----------------------------------------------------------------------------
(* The cache of a service that only one thread uses.                       *)

\* A cached row has the state of its calendar, unless the call that has just
\* changed or deleted the calendar is about to drop the row.
CacheFresh ==
    \A c \in DOMAIN calendar_cache_ :
        \/ c \in DOMAIN calendars /\ calendar_cache_[c].state = calendars[c].state
        \/ \E t \in Threads : call[t].pc = "invalidate" /\ call[t].id = c

\* The same of a row on its way into the cache.
FoundFresh ==
    \A t \in Threads : call[t].pc = "fill" =>
        /\ call[t].id \in DOMAIN calendars
        /\ call[t].cal.state = calendars[call[t].id].state

\* A copy is taken from the table or from the cache, and used as it was taken.
LEMMA LookupCases ==
    ASSUME ServiceInv, NEW t \in Threads, Step(t),
           call'[t].pc \in {"fill"} \cup (Ops \ {"create"})
    PROVE  /\ UNCHANGED calendars /\ call'[t].id = call[t].id
           /\ \/ /\ call'[t].pc = "fill"
                 /\ call[t].id \in DOMAIN calendars
                 /\ call'[t].cal = calendars[call[t].id]
              \/ /\ call'[t].pc # "fill" /\ call[t].pc = "lookup"
                 /\ call[t].id \in DOMAIN calendar_cache_
                 /\ call'[t].cal = calendar_cache_[call[t].id]
              \/ /\ call'[t].pc # "fill" /\ call[t].pc = "fill"
                 /\ call'[t].cal = call[t].cal
<1>1. TypeOK /\ CallsInShape /\ DOMAIN call = Threads /\ DOMAIN call[t] = DOMAIN Idle
    BY DEF ServiceInv, TypeOK, CallOK
<1>2. ASSUME NEW code, NEW value, Answer(t, code, value) PROVE FALSE
    BY <1>1, <1>2, AnswerFacts DEF Ops
<1>3. ASSUME NEW step, Goto(t, step)
      PROVE  /\ call'[t].pc = step /\ call'[t].id = call[t].id
             /\ call'[t].cal = call[t].cal
    BY <1>1, <1>3, GotoFacts, IdleFields DEF SameBut
<1>4. call[t].pc # "idle" => call[t].req.op # "fill"
    BY <1>1, CallFacts, RequestFacts DEF Ops
<1>5. CASE CacheHit(t)
  <2>1. call' = [call EXCEPT ![t].cal = calendar_cache_[call[t].id],
                             ![t].pc = call[t].req.op]
      BY <1>5 DEF CacheHit
  <2>2. /\ call'[t].id = call[t].id /\ call'[t].pc = call[t].req.op
        /\ call'[t].cal = calendar_cache_[call[t].id]
      BY <1>1, <2>1, IdleFields
  <2> QED
      BY <1>4, <1>5, <2>2 DEF CacheHit, Quiet, db
<1>6. CASE CacheMiss(t) \/ FillCache(t) \/ Invalidate(t)
    BY <1>2, <1>3, <1>4, <1>6 DEF CacheMiss, FillCache, Invalidate, Ops, db
<1>7. CASE FindCalendar(t)
  <2>1. call' = [call EXCEPT ![t].cal = calendars[call[t].id], ![t].pc = "fill"]
      BY <1>2, <1>7 DEF FindCalendar
  <2>2. /\ call'[t].id = call[t].id /\ call'[t].pc = "fill"
        /\ call'[t].cal = calendars[call[t].id]
      BY <1>1, <2>1, IdleFields
  <2> QED
      BY <1>2, <1>7, <2>2 DEF FindCalendar, Quiet, db
<1>8. CASE Return(t) \/ \E r \in Requests : Begin(t, r)
  <2>1. Idle.pc = "idle" /\ \A r : Started(r).pc \in {"create", "lookup"}
      BY DEF Idle, Started
  <2> QED
      BY <1>1, <1>8, <2>1 DEF Return, Begin, Ops
<1>9. CASE CreateCalendar(t)
  <2>1. call' = [call EXCEPT ![t].id = NextId("calendars"), ![t].pc = "invalidate"]
      BY <1>2, <1>9 DEF CreateCalendar
  <2>2. call'[t].pc = "invalidate"
      BY <1>1, <2>1, IdleFields
  <2> QED
      BY <2>2 DEF Ops
<1>10. CASE AddAvailability(t) \/ StoreDate(t)
    BY <1>2, <1>10, AddCases, StoreCases DEF Joins, Stores, Ops
<1>11. CASE ClearMyData(t) \/ ChangeState(t) \/ DeleteCalendar(t) \/ SetCalendarMessage(t)
    BY <1>2, <1>3, <1>11
    DEF ClearMyData, ChangeState, DeleteCalendar, SetCalendarMessage, Write, Ops
<1>12. CASE Reading(t)
  <2>1. ASSUME NEW got, NEW step, step \in {"day_list", "heatmap_count"},
               call' = [call EXCEPT ![t].pc = step, ![t].got = got]
        PROVE  FALSE
    <3>1. call'[t].pc = step
        BY <1>1, <2>1, IdleFields
    <3> QED
        BY <2>1, <3>1 DEF Ops
  <2>2. ASSUME NEW p, call' = [call EXCEPT ![t].pid = p, ![t].pc = "mine_list"]
        PROVE  FALSE
    <3>1. call'[t].pc = "mine_list"
        BY <1>1, <2>2, IdleFields
    <3> QED
        BY <3>1 DEF Ops
  <2> QED
      BY <1>2, <1>12, <2>1, <2>2
      DEF Reading, ViewCalendar, CalendarMessage, FindMine, MySchedule, FindAttendees,
          DayParticipants, FindWeek, WeeklyHeatmap, PublicParticipants
<1> QED
    BY <1>5, <1>6, <1>7, <1>8, <1>9, <1>10, <1>11, <1>12
    DEF Step, Work, Lookup, Writing

LEMMA FreshStep ==
    ASSUME \A t, u \in Threads : t = u
    PROVE  ServiceInv /\ CacheFresh /\ FoundFresh /\ [Next]_vars
                => CacheFresh' /\ FoundFresh'
<1> SUFFICES ASSUME ServiceInv, CacheFresh, FoundFresh, [Next]_vars
             PROVE  CacheFresh' /\ FoundFresh'
    OBVIOUS
<1>1. ASSUME NEW t \in Threads, Step(t) PROVE FoundFresh'
    BY <1>1, LookupCases DEF FoundFresh
<1>2. ASSUME NEW t \in Threads, Step(t),
             NEW c \in DOMAIN calendar_cache_'
      PROVE  \/ /\ c \in DOMAIN calendars'
                /\ calendar_cache_'[c].state = calendars'[c].state
             \/ call'[t].pc = "invalidate" /\ call'[t].id = c
  <2>1. CASE call[t].pc = "invalidate"
    <3>1. /\ UNCHANGED calendars
          /\ calendar_cache_' = Without(calendar_cache_, {call[t].id})
        BY <1>2, <2>1, CallFacts
        DEF Step, Work, Lookup, Writing, Reading, Return, Begin, CacheHit, CacheMiss,
            FindCalendar, FillCache, CreateCalendar, AddAvailability, StoreDate,
            ClearMyData, ChangeState, DeleteCalendar, SetCalendarMessage, Invalidate,
            ViewCalendar, CalendarMessage, FindMine, MySchedule, FindAttendees,
            DayParticipants, FindWeek, WeeklyHeatmap, PublicParticipants, db
    <3>2. c # call[t].id /\ c \in DOMAIN calendar_cache_
            /\ calendar_cache_'[c] = calendar_cache_[c]
      <4> DEFINE gone == {call[t].id}
      <4>1. calendar_cache_' = Without(calendar_cache_, gone) /\ call[t].id \in gone
          BY <3>1
      <4> HIDE DEF gone
      <4>2. DOMAIN calendar_cache_' = DOMAIN calendar_cache_ \ gone
          BY <4>1, WithoutKeeps
      <4>3. \A k \in DOMAIN calendar_cache_' : calendar_cache_'[k] = calendar_cache_[k]
          BY <4>1, WithoutKeeps
      <4> QED
          BY <1>2, <4>1, <4>2, <4>3
    <3> QED
        BY <2>1, <3>1, <3>2 DEF CacheFresh
  <2>2. CASE call[t].pc # "invalidate"
    <3>1. ASSUME NEW k \in DOMAIN calendar_cache_
          PROVE  k \in DOMAIN calendars /\ calendar_cache_[k].state = calendars[k].state
        BY <2>2 DEF CacheFresh
    <3>2. CASE FillCache(t) /\ UNCHANGED db
      <4>1. calendar_cache_' = Put(calendar_cache_, call[t].id, call[t].cal)
          BY <3>2 DEF FillCache
      <4>2. /\ call[t].id \in DOMAIN calendars
            /\ call[t].cal.state = calendars[call[t].id].state
          BY <3>2 DEF FillCache, FoundFresh
      <4> QED
          BY <1>2, <3>1, <3>2, <4>1, <4>2 DEF Put, db
    <3>3. CASE UNCHANGED calendar_cache_
      <4>1. c \in DOMAIN calendars /\ calendar_cache_'[c].state = calendars[c].state
          BY <1>2, <3>1, <3>3
      <4>2. Manages(t) => call'[t].pc = "invalidate" /\ call'[t].id = call[t].id
          BY IdleFields DEF Manages, SameBut
      <4> QED
          BY <1>2, <4>1, <4>2, StateKept
    <3> QED
        BY <1>2, <2>2, <3>2, <3>3, CacheCases DEF Invalidate
  <2> QED
      BY <2>1, <2>2
<1>3. ASSUME NEW t \in Threads, Step(t) PROVE CacheFresh'
    BY <1>2, <1>3 DEF CacheFresh
<1>4. CASE Crash
    BY <1>4 DEF Crash, Idle, CacheFresh, FoundFresh
<1>5. CASE UNCHANGED vars
    BY <1>5 DEF vars, db, CacheFresh, FoundFresh
<1> QED
    BY <1>1, <1>3, <1>4, <1>5 DEF Next

\* If calls come one after the other, the cache agrees with the database whenever
\* none is being executed, whatever failed and whenever the process died. (With
\* two threads it need not: a run of the checker shows how.)
THEOREM CacheOfOneThread ==
    ASSUME \A t, u \in Threads : t = u
    PROVE  Spec => []CacheSettles
<1>1. Init => CacheFresh /\ FoundFresh
    BY DEF Init, Idle, CacheFresh, FoundFresh
<1>2. CacheFresh => CacheSettles
    BY DEF CacheFresh, CacheSettles
<1> QED
    BY <1>1, <1>2, ServiceCorrect, FreshStep, PTL DEF Spec

\* What add_availability checks of its copy is true of the calendar, then and
\* until its dates are stored.
AddsToOpen ==
    \A t \in Threads :
        /\ call[t].pc = "add" =>
              /\ call[t].id \in DOMAIN calendars
              /\ call[t].cal.state = calendars[call[t].id].state
        /\ call[t].pc = "store" =>
              /\ call[t].id \in DOMAIN calendars
              /\ calendars[call[t].id].state = "open"

LEMMA AddsToOpenStep ==
    ASSUME \A t, u \in Threads : t = u
    PROVE  ServiceInv /\ CacheFresh /\ FoundFresh /\ AddsToOpen /\ [Next]_vars
                => AddsToOpen'
<1> SUFFICES ASSUME ServiceInv, CacheFresh, FoundFresh, AddsToOpen, [Next]_vars
             PROVE  AddsToOpen'
    OBVIOUS
<1>1. ASSUME NEW t \in Threads, Step(t), call'[t].pc = "add"
      PROVE  /\ call'[t].id \in DOMAIN calendars /\ UNCHANGED calendars
             /\ call'[t].cal.state = calendars[call'[t].id].state
  <2>1. call[t].pc = "lookup" /\ call[t].id \in DOMAIN calendar_cache_ =>
            /\ call[t].id \in DOMAIN calendars
            /\ calendar_cache_[call[t].id].state = calendars[call[t].id].state
      BY DEF CacheFresh
  <2> QED
      BY <1>1, <2>1, LookupCases DEF FoundFresh, Ops
<1>2. ASSUME NEW t \in Threads, Step(t), call'[t].pc = "store"
      PROVE  /\ call'[t].id \in DOMAIN calendars'
             /\ calendars'[call'[t].id].state = "open"
  <2>1. call'[t].req.op = "add"
      BY <1>2, ThreadStep DEF OwnStep, Shape
  <2>2. Invalidate(t) => call'[t].pc = "done"
      BY AnswerFacts DEF Invalidate, ServiceInv
  <2>3. Joins(t) \/ Stores(t)
      BY <1>2, <2>1, <2>2, SavingCases
  <2>4. call'[t].id = call[t].id /\ call[t].pc \in {"add", "store"}
      BY <2>3, IdleFields DEF Joins, Stores, SameBut
  <2>5. Joins(t) => call[t].cal.state = "open"
      BY ChecksFacts DEF Joins, AddAccepted
  <2>6. call[t].id \in DOMAIN calendars /\ calendars[call[t].id].state = "open"
      BY <2>3, <2>5 DEF AddsToOpen, Joins, Stores
  <2> QED
      BY <1>2, <2>4, <2>6, StateKept DEF Manages
<1>3. ASSUME NEW t \in Threads, Step(t) PROVE AddsToOpen'
    BY <1>1, <1>2, <1>3 DEF AddsToOpen
<1>4. CASE Crash
    BY <1>4 DEF Crash, Idle, AddsToOpen
<1>5. CASE UNCHANGED vars
    BY <1>5 DEF vars, db, AddsToOpen
<1> QED
    BY <1>3, <1>4, <1>5 DEF Next

LEMMA OpenedStep ==
    ServiceInv /\ AddsToOpen /\ [Next]_vars => [OpenedToAll]_vars
<1> SUFFICES ASSUME ServiceInv, AddsToOpen, Next,
                    NEW i \in DOMAIN intervals' \ DOMAIN intervals
             PROVE  calendars[intervals'[i].calendar].state = "open"
    BY DEF OpenedToAll
<1>1. ~Crash
    BY DEF Crash, db
<1>2. PICK t \in Threads : Step(t)
    BY <1>1 DEF Next
<1>3. Stores(t) /\ intervals'[i] = Interval(t)
    BY <1>2, IntervalsKept
<1> QED
    BY <1>3 DEF Stores, Interval, AddsToOpen

\* If calls come one after the other, availability is added to open calendars
\* only, although the cache is asked whether they are. (With two threads it may
\* be added to one that was closed meanwhile.)
THEOREM OneThreadAddsToOpen ==
    ASSUME \A t, u \in Threads : t = u
    PROVE  Spec => OpenWhenAdded
<1>1. Init => CacheFresh /\ FoundFresh /\ AddsToOpen
    BY DEF Init, Idle, CacheFresh, FoundFresh, AddsToOpen
<1> QED
    BY <1>1, ServiceCorrect, FreshStep, AddsToOpenStep, OpenedStep, PTL
    DEF Spec, OpenWhenAdded

-----------------------------------------------------------------------------
(* Why an upsert fails, if calls come one after the other                  *)

\* A call that has yet to store its member.
Joining(c) == c.pc \in {"lookup", "find", "fill", "add"} /\ c.req.op = "add"

\* Each member was added by a call of his own, so there is an id for the next.
IdsLeft ==
    /\ seq["participants"] <= writes
    /\ \A t \in Threads : Joining(call[t]) =>
            seq["participants"] < writes /\ call[t].code = "ok"

\* Who is about to join has just begun, or is still looking for the calendar.
LEMMA JoiningCases ==
    ASSUME ServiceInv, NEW t \in Threads, Step(t), Joining(call'[t])
    PROVE  /\ UNCHANGED db
           /\ \/ writes' = writes + 1 /\ call'[t].code = "ok"
              \/ /\ Joining(call[t])
                 /\ writes' = writes /\ call'[t].code = call[t].code
<1>1. TypeOK /\ CallsInShape /\ DOMAIN call = Threads /\ DOMAIN call[t] = DOMAIN Idle
    BY DEF ServiceInv, TypeOK, CallOK
<1>2. ASSUME NEW code, NEW value, Answer(t, code, value) PROVE FALSE
    BY <1>1, <1>2, AnswerFacts DEF Joining
<1>3. ASSUME NEW step, Goto(t, step)
      PROVE  /\ call'[t].pc = step /\ call'[t].req = call[t].req
             /\ call'[t].code = call[t].code
    BY <1>1, <1>3, GotoFacts, IdleFields DEF SameBut
<1>4. CASE Lookup(t)
  <2>1. ASSUME NEW row, NEW step, call' = [call EXCEPT ![t].cal = row, ![t].pc = step]
        PROVE  call'[t].req = call[t].req /\ call'[t].code = call[t].code
      BY <1>1, <2>1, IdleFields
  <2>2. call'[t].req = call[t].req /\ call'[t].code = call[t].code
      BY <1>2, <1>3, <1>4, <2>1
      DEF Lookup, CacheHit, CacheMiss, FindCalendar, FillCache
  <2> QED
      BY <1>4, <2>2
      DEF Lookup, CacheHit, CacheMiss, FindCalendar, FillCache, Joining, Quiet, DbOnly
<1>5. CASE Return(t)
  <2>1. Idle.pc = "idle"
      BY DEF Idle
  <2> QED
      BY <1>1, <1>5, <2>1 DEF Return, Joining
<1>6. ASSUME NEW r \in Requests, Begin(t, r)
      PROVE  UNCHANGED db /\ writes' = writes + 1 /\ call'[t].code = "ok"
  <2>1. Started(r).req = r /\ Started(r).code = "ok"
      BY DEF Started, Idle
  <2>2. r.op = "add"
      BY <1>1, <1>6, <2>1 DEF Begin, Joining
  <2> QED
      BY <1>1, <1>6, <2>1, <2>2 DEF Begin, WriteOps
<1>7. CASE CreateCalendar(t)
  <2>1. call' = [call EXCEPT ![t].id = NextId("calendars"), ![t].pc = "invalidate"]
      BY <1>2, <1>7 DEF CreateCalendar
  <2>2. call'[t].pc = "invalidate"
      BY <1>1, <2>1, IdleFields
  <2> QED
      BY <2>2 DEF Joining
<1>8. CASE AddAvailability(t) \/ StoreDate(t)
    BY <1>2, <1>8, AddCases, StoreCases DEF Joins, Stores, Joining
<1>9. CASE \/ ClearMyData(t) \/ ChangeState(t) \/ DeleteCalendar(t)
           \/ SetCalendarMessage(t) \/ Invalidate(t)
    BY <1>2, <1>3, <1>9
    DEF ClearMyData, ChangeState, DeleteCalendar, SetCalendarMessage, Invalidate,
        Write, Joining
<1>10. CASE Reading(t)
  <2>1. ASSUME NEW got, NEW step, step \in {"day_list", "heatmap_count"},
               call' = [call EXCEPT ![t].pc = step, ![t].got = got]
        PROVE  FALSE
    <3>1. call'[t].pc = step
        BY <1>1, <2>1, IdleFields
    <3> QED
        BY <2>1, <3>1 DEF Joining
  <2>2. ASSUME NEW p, call' = [call EXCEPT ![t].pid = p, ![t].pc = "mine_list"]
        PROVE  FALSE
    <3>1. call'[t].pc = "mine_list"
        BY <1>1, <2>2, IdleFields
    <3> QED
        BY <3>1 DEF Joining
  <2> QED
      BY <1>2, <1>10, <2>1, <2>2
      DEF Reading, ViewCalendar, CalendarMessage, FindMine, MySchedule, FindAttendees,
          DayParticipants, FindWeek, WeeklyHeatmap, PublicParticipants
<1> QED
    BY <1>4, <1>5, <1>6, <1>7, <1>8, <1>9, <1>10 DEF Step, Work, Writing

\* Only who joins draws an id of a member, and he draws one.
LEMMA IdsDrawn ==
    ASSUME ServiceInv, NEW t \in Threads, Step(t)
    PROVE  /\ seq'["participants"] <=
                seq["participants"] + IF Joining(call[t]) THEN 1 ELSE 0
           /\ writes' >= writes
<1>1. writes' >= writes /\ seq["participants"] \in Int /\ DOMAIN seq = Tables
  <2>1. writes \in Int /\ seq \in [Tables -> 0..MaxRowId]
      BY DEF ServiceInv, TypeOK, RepoTypeOK
  <2>2. CASE Lookup(t) \/ Return(t)
      BY <2>1, <2>2
      DEF Lookup, Return, CacheHit, CacheMiss, FindCalendar, FillCache, Quiet, Tables
  <2>3. CASE Writing(t)
      BY <2>1, <2>3
      DEF Writing, CreateCalendar, AddAvailability, StoreDate, ClearMyData,
          ChangeState, DeleteCalendar, SetCalendarMessage, Invalidate, DbOnly, Tables
  <2>4. CASE Reading(t)
    <3>1. UNCHANGED writes
        BY <2>4
        DEF Reading, ViewCalendar, CalendarMessage, FindMine, MySchedule,
            FindAttendees, DayParticipants, FindWeek, WeeklyHeatmap,
            PublicParticipants, Quiet
    <3> QED
        BY <2>1, <3>1 DEF Tables
  <2>5. CASE \E r \in Requests : Begin(t, r)
      BY <2>1, <2>5 DEF Begin, Tables
  <2> QED
      BY <2>2, <2>3, <2>4, <2>5 DEF Step, Work
<1>2. CASE Joins(t)
  <2>1. call[t].req.op = "add"
      BY <1>2, CallFacts DEF Joins, Shape, Ops, ServiceInv
  <2>2. seq' = seq \/ Draw("participants")
      BY <1>2 DEF Joins, Upserts, UpsertUndone, upsert_participant, db
  <2> QED
      BY <1>1, <1>2, <2>1, <2>2 DEF Joins, Joining, Draw, Tables
<1>3. CASE ~Joins(t)
  <2>1. seq' = seq \/ \E table \in Tables \ {"participants"} : Draw(table)
      BY <1>3, CasesOfStep
      DEF StepCases, Reads, Creates, Stores, Clears, Manages, Posts, create_calendar,
          CreateCalendarFails, add_interval, clear_participant,
          update_calendar_state, delete_calendar, set_calendar_message, planning, db,
          Tables
  <2> QED
      BY <1>1, <2>1 DEF Draw, Tables
<1> QED
    BY <1>1, <1>2, <1>3

LEMMA IdsLeftStep ==
    ASSUME \A t, u \in Threads : t = u
    PROVE  ServiceInv /\ IdsLeft /\ [Next]_vars => IdsLeft'
<1> SUFFICES ASSUME ServiceInv, IdsLeft, [Next]_vars PROVE IdsLeft'
    OBVIOUS
<1>1. seq["participants"] \in Int /\ writes \in Int
    BY DEF ServiceInv, TypeOK, RepoTypeOK, Tables
<1>2. ASSUME NEW t \in Threads, Step(t)
      PROVE  IdsLeft'
  <2>1. seq'["participants"] \in Int /\ writes' \in Int
      BY <1>2, ServiceStep DEF ServiceInv, TypeOK, RepoTypeOK, Tables, Next
  <2>2. seq'["participants"] <= writes'
      BY <1>1, <1>2, <2>1, IdsDrawn DEF IdsLeft
  <2>3. ASSUME Joining(call'[t])
        PROVE  seq'["participants"] < writes' /\ call'[t].code = "ok"
      BY <1>1, <1>2, <2>1, <2>3, JoiningCases DEF IdsLeft, db
  <2> QED
      BY <2>2, <2>3 DEF IdsLeft
<1>3. CASE Crash
    BY <1>3 DEF Crash, Idle, IdsLeft, Joining, db
<1>4. CASE UNCHANGED vars
    BY <1>4 DEF vars, db, IdsLeft, Joining
<1> QED
    BY <1>2, <1>3, <1>4 DEF Next

AliasTaken(t) ==
    call[t].pc = "add" /\ call'[t].code = "alias_already_used" =>
        \E p \in ParticipantsIn(call[t].id) :
            /\ participants[p].user # call[t].req.user
            /\ alias_key(participants[p]) = alias_key(Member(t))

LEMMA AliasStep ==
    ASSUME ~DiskMayFail, MaxWrites <= MaxRowId
    PROVE  ServiceInv /\ AddsToOpen /\ IdsLeft /\ [Next]_vars
                => [\A t \in Threads : AliasTaken(t)]_vars
<1> SUFFICES ASSUME ServiceInv, AddsToOpen, IdsLeft, Next, NEW t \in Threads,
                    call[t].pc = "add", call'[t].code = "alias_already_used"
             PROVE  \E p \in ParticipantsIn(call[t].id) :
                        /\ participants[p].user # call[t].req.user
                        /\ alias_key(participants[p]) = alias_key(Member(t))
    BY DEF AliasTaken
<1>1. call[t].req.op = "add" /\ call[t].code = "ok" /\ seq["participants"] < writes
  <2>1. call[t].req.op = "add"
      BY DEF ServiceInv, CallsInShape, Shape, Ops
  <2> QED
      BY <2>1 DEF IdsLeft, Joining
<1>2. AddAvailability(t)
  <2>1. ~Crash
      BY DEF Crash, Idle
  <2>2. PICK u \in Threads : Step(u)
      BY <2>1 DEF Next
  <2>3. u = t
      BY <1>1, <2>2, ThreadStep DEF OwnStep, SameBut
  <2> QED
      BY <2>2, <2>3
      DEF Step, Work, Lookup, Writing, Reading, Return, Begin, CacheHit, CacheMiss,
          FindCalendar, FillCache, CreateCalendar, StoreDate, ClearMyData,
          ChangeState, DeleteCalendar, SetCalendarMessage, Invalidate, ViewCalendar,
          CalendarMessage, FindMine, MySchedule, FindAttendees, DayParticipants,
          FindWeek, WeeklyHeatmap, PublicParticipants
<1>3. ~CanUpsert(Member(t))
  <2>1. ASSUME NEW code, Answer(t, code, NULL) PROVE call'[t].code = code
      BY <2>1, AnswerFacts DEF ServiceInv
  <2>2. ~AddAccepted(call[t].cal, call[t].req) =>
            AddError(call[t].cal, call[t].req) # "alias_already_used"
      BY ErrorFacts DEF OwnCodes
  <2>3. ~(call' = [call EXCEPT ![t].pid = UpsertId(Member(t)),
                               ![t].todo = call[t].req.dates,
                               ![t].pc = "store",
                               ![t].lost = LostId(t)])
    <3> SUFFICES ASSUME call' = [call EXCEPT ![t].pid = UpsertId(Member(t)),
                                             ![t].todo = call[t].req.dates,
                                             ![t].pc = "store",
                                             ![t].lost = LostId(t)]
                 PROVE  FALSE
        OBVIOUS
    <3>1. DOMAIN call = Threads /\ DOMAIN call[t] = DOMAIN Idle
        BY DEF ServiceInv, TypeOK, CallOK
    <3>2. call'[t] = [call[t] EXCEPT !.pid = UpsertId(Member(t)),
                          !.todo = call[t].req.dates, !.pc = "store",
                          !.lost = LostId(t)]
        BY <3>1
    <3>3. call'[t].code = call[t].code
        BY <3>1, <3>2, IdleFields
    <3> QED
        BY <1>1, <3>3
  <2>4. \/ /\ ~AddAccepted(call[t].cal, call[t].req)
           /\ Answer(t, AddError(call[t].cal, call[t].req), NULL)
        \/ call' = [call EXCEPT ![t].pid = UpsertId(Member(t)),
                                ![t].todo = call[t].req.dates,
                                ![t].pc = "store",
                                ![t].lost = LostId(t)]
        \/ ~CanUpsert(Member(t))
      BY <1>2 DEF AddAvailability, LostId
  <2>5. ~AddAccepted(call[t].cal, call[t].req) =>
            ~Answer(t, AddError(call[t].cal, call[t].req), NULL)
      BY <2>1, <2>2
  <2> QED
      BY <2>3, <2>4, <2>5
<1>4. call[t].id \in DOMAIN calendars /\ Member(t).calendar = call[t].id
    BY DEF AddsToOpen, Member
<1>5. CanDraw("participants")
  <2>1. seq \in [Tables -> 0..MaxRowId] /\ writes \in 0..MaxWrites
      BY DEF ServiceInv, TypeOK, RepoTypeOK
  <2>2. MaxRowId \in Int /\ MaxWrites \in Int
      BY RepositoryAssumption, ServiceAssumption
  <2> QED
      BY <1>1, <2>1, <2>2 DEF CanDraw, Tables
<1>6. ~AliasFree(Member(t))
    BY <1>3, <1>4, <1>5 DEF CanUpsert
<1> QED
    BY <1>4, <1>6 DEF AliasFree, Member

\* If calls come one after the other, and neither the disk fails nor the row ids
\* run out, whoever is told that an alias is used already is told the truth,
\* although every database error of the upsert is reported so. (With two threads
\* the calendar may be deleted before the upsert.)
THEOREM OneThreadAliasError ==
    ASSUME \A t, u \in Threads : t = u, ~DiskMayFail, MaxWrites <= MaxRowId
    PROVE  Spec => AliasErrorIsTrue
<1>1. Init => CacheFresh /\ FoundFresh /\ AddsToOpen /\ IdsLeft
    BY DEF Init, RepoInit, Idle, CacheFresh, FoundFresh, AddsToOpen, IdsLeft, Joining,
           Tables
<1> QED
    BY <1>1, ServiceCorrect, FreshStep, AddsToOpenStep, IdsLeftStep, AliasStep, PTL
    DEF Spec, AliasErrorIsTrue, AliasTaken

(***************************************************************************)
(* The service implements AvailabilityBook: every step of the service is   *)
(* one entry of the book or none, whatever is interleaved, fails or        *)
(* crashes.                                                                *)
(***************************************************************************)

-----------------------------------------------------------------------------
(* When a part of the book stays as it is.                                 *)

LEMMA OwnerSame ==
    ASSUME DOMAIN calendars' = DOMAIN calendars,
           \A c \in DOMAIN calendars : calendars'[c].creator = calendars[c].creator
    PROVE  Owner' = Owner
BY DEF Owner

LEMMA IssuedSame ==
    ASSUME seq'["calendars"] = seq["calendars"]
    PROVE  Issued' = Issued
BY DEF Issued

LEMMA MembershipSame ==
    ASSUME participants' = participants
    PROVE  Membership' = Membership
BY DEF Membership

\* An offer is what its row and its member say.
LEMMA OfferedSame ==
    ASSUME NEW i \in DOMAIN intervals, i \in DOMAIN intervals',
           intervals'[i] = intervals[i],
           Same(participants'[intervals[i].participant],
                participants[intervals[i].participant])
    PROVE  Offered(i)' = Offered(i) /\ (Astray(i)' <=> Astray(i))
BY DEF Offered, Astray, Same

\* The offers are compared one by one.
LEMMA OffersAre ==
    /\ \A o : o \in Offers <=> \E i \in DOMAIN intervals : ~Astray(i) /\ o = Offered(i)
    /\ \A o : o \in Offers' <=>
            \E i \in DOMAIN intervals' : ~Astray(i)' /\ o = Offered(i)'
BY DEF Offers

LEMMA OffersEqual ==
    ASSUME DOMAIN intervals' = DOMAIN intervals,
           \A i \in DOMAIN intervals :
                Offered(i)' = Offered(i) /\ (Astray(i)' <=> Astray(i))
    PROVE  Offers' = Offers
<1>1. \A o : o \in Offers' <=> o \in Offers
    BY OffersAre
<1> QED
    BY <1>1

LEMMA OffersSame ==
    ASSUME intervals' = intervals,
           \A i \in DOMAIN intervals :
                Same(participants'[intervals[i].participant],
                     participants[intervals[i].participant])
    PROVE  Offers' = Offers
<1>1. \A i \in DOMAIN intervals : Offered(i)' = Offered(i) /\ (Astray(i)' <=> Astray(i))
    BY OfferedSame
<1>2. DOMAIN intervals' = DOMAIN intervals
    OBVIOUS
<1> QED
    BY <1>1, <1>2, OffersEqual

LEMMA OffersUntouched ==
    ASSUME intervals' = intervals, participants' = participants
    PROVE  Offers' = Offers
BY OffersSame DEF Same

-----------------------------------------------------------------------------
(* Each statement is an entry.                                             *)

BookStep == [Book!Next]_(Book!vars)

LEMMA BookStutters ==
    ASSUME Issued' = Issued, Owner' = Owner, Membership' = Membership, Offers' = Offers
    PROVE  BookStep
BY DEF BookStep, Book!vars

LEMMA BookPublish ==
    ASSUME SafeInv, NEW row, row.creator \in Users, create_calendar(row)
    PROVE  BookStep
<1> PICK c : c = NextId("calendars")
    OBVIOUS
<1>1. /\ seq \in [Tables -> 0..MaxRowId] /\ "calendars" \in Tables
      /\ DOMAIN calendars \subseteq 1..seq["calendars"]
    BY DEF SafeInv, ServiceInv, TypeOK, RepoTypeOK, Tables
<1>2. c \in RowIds /\ c \notin Issued /\ seq'["calendars"] = c
    BY <1>1, DrawFacts DEF create_calendar, Issued
<1>3. Issued' = Issued \cup {c}
  <2>1. seq["calendars"] \in Nat /\ c = seq["calendars"] + 1
      BY <1>1, RepositoryAssumption DEF NextId
  <2> QED
      BY <1>2, <2>1 DEF Issued
<1>4. calendars' = Put(calendars, c, row)
    BY DEF create_calendar
<1>5. Owner' = [k \in DOMAIN Owner \cup {c} |-> IF k = c THEN row.creator ELSE Owner[k]]
    BY <1>4 DEF Put, Owner
<1>6. Membership' = Membership /\ Offers' = Offers
    BY MembershipSame, OffersUntouched DEF create_calendar
<1>7. Book!Publish(c, row.creator)
    BY <1>2, <1>3, <1>5, <1>6 DEF Book!Publish
<1> QED
    BY <1>2, <1>7 DEF BookStep, Book!Next

LEMMA BookJoin ==
    ASSUME SafeInv, NEW row \in ParticipantRow, upsert_participant(row)
    PROVE  BookStep
<1> PICK p : p = UpsertId(row)
    OBVIOUS
<1>1. participants' = Put(participants, p, row)
    BY DEF upsert_participant
<1>2. \A q \in DOMAIN participants : Same(participants'[q], participants[q])
  <2>1. RepoTypeOK /\ seq["participants"] \in Int
        /\ DOMAIN participants \subseteq 1..seq["participants"]
      BY DEF SafeInv, ServiceInv, TypeOK, RepoTypeOK, Tables
  <2>2. ASSUME NEW q \in DOMAIN participants, q # p
        PROVE  participants'[q] = participants[q]
      BY <1>1, <2>2 DEF Put
  <2>3. ASSUME p \in DOMAIN participants PROVE Same(participants'[p], participants[p])
    <3>1. p \in Matching(row)
        BY <2>1, <2>3, UpsertIdFacts DEF NextId
    <3> QED
        BY <1>1, <3>1 DEF Matching, Same, Put
  <2> QED
      BY <2>2, <2>3 DEF Same
<1>3. Membership' = Membership \cup {<<row.calendar, row.user>>}
  <2>1. /\ DOMAIN participants' = DOMAIN participants \cup {p}
        /\ participants'[p] = row
      BY <1>1 DEF Put
  <2> QED
      BY <1>2, <2>1 DEF Membership, Same
<1>4. Offers' = Offers
  <2>1. \A i \in DOMAIN intervals : intervals[i].participant \in DOMAIN participants
      BY DEF SafeInv, ReferentialIntegrity
  <2> QED
      BY <1>2, <2>1, OffersSame DEF upsert_participant
<1>5. Owner' = Owner /\ Issued' = Issued
  <2>1. seq'["calendars"] = seq["calendars"]
      BY DEF SafeInv, ServiceInv, TypeOK, RepoTypeOK, upsert_participant, Draw, Tables
  <2> QED
      BY <2>1, OwnerSame, IssuedSame DEF upsert_participant
<1>6. row.calendar \in DOMAIN Owner /\ row.calendar \in RowIds /\ row.user \in Users
    BY DEF upsert_participant, CanUpsert, Owner, ParticipantRow
<1>7. Book!Join(row.calendar, row.user)
    BY <1>3, <1>4, <1>5, <1>6 DEF Book!Join
<1> QED
    BY <1>6, <1>7 DEF BookStep, Book!Next

LEMMA BookOffer ==
    ASSUME SafeInv, NEW t \in Threads, Stores(t)
    PROVE  BookStep
<1> PICK n : n = NextId("intervals")
    OBVIOUS
<1> PICK row : row = Interval(t)
    OBVIOUS
<1> PICK member : member = participants[row.participant]
    OBVIOUS
<1> PICK c, u : c = row.calendar /\ u = member.user
    OBVIOUS
<1>1. /\ call[t].pc = "store" /\ add_interval(row)
      /\ ServiceInv /\ TypeOK /\ CallsInShape /\ CallsKnowTheirMember
    BY DEF Stores, SafeInv, ServiceInv
<1>2. row \in IntervalRow /\ c \in RowIds
    BY <1>1, IntervalFacts DEF IntervalRow
<1>3. row.participant \in DOMAIN participants /\ u \in Users
  <2>1. row.participant \in DOMAIN participants
      BY <1>1 DEF add_interval, CanAddInterval
  <2> QED
      BY <1>1, <2>1 DEF TypeOK, RepoTypeOK, ParticipantRow
<1>4. /\ intervals' = Put(intervals, n, row) /\ participants' = participants
      /\ calendars' = [calendars EXCEPT ![c].revision = @ + 1]
      /\ seq'["calendars"] = seq["calendars"]
  <2>1. seq \in [Tables -> 0..MaxRowId] /\ {"calendars", "intervals"} \subseteq Tables
      BY <1>1 DEF TypeOK, RepoTypeOK, Tables
  <2> QED
      BY <1>1, <2>1 DEF add_interval, Draw
<1>5. n \notin DOMAIN intervals
  <2>1. DOMAIN intervals \subseteq 1..seq["intervals"] /\ seq["intervals"] \in Int
      BY <1>1 DEF TypeOK, RepoTypeOK, Tables
  <2> QED
      BY <2>1 DEF NextId
<1>6. Owner' = Owner
  <2>1. \A k \in DOMAIN calendars : calendars[k] \in CalendarRow
      BY <1>1 DEF TypeOK, RepoTypeOK
  <2>2. \A k \in DOMAIN calendars : calendars'[k].creator = calendars[k].creator
      BY <1>4, <2>1 DEF CalendarRow
  <2> QED
      BY <1>4, <2>2, OwnerSame
<1>7. Issued' = Issued /\ Membership' = Membership
    BY <1>4, IssuedSame, MembershipSame
<1>8. /\ DOMAIN intervals' = DOMAIN intervals \cup {n} /\ intervals'[n] = row
      /\ \A i \in DOMAIN intervals : intervals'[i] = intervals[i]
    BY <1>4, <1>5 DEF Put
<1>9. \A i \in DOMAIN intervals : Offered(i)' = Offered(i) /\ (Astray(i)' <=> Astray(i))
    BY <1>4, <1>8, OfferedSame DEF Same
<1>10. CASE member.calendar = c
  <2>1. Offered(n)' = <<c, u, row.date, row.span>> /\ ~Astray(n)'
      BY <1>4, <1>8, <1>10 DEF Offered, Astray
  <2>2. \A o : o \in Offers' <=> o \in Offers \/ o = <<c, u, row.date, row.span>>
      BY <1>8, <1>9, <2>1, OffersAre
  <2>3. Offers' = Offers \cup {<<c, u, row.date, row.span>>}
      BY <2>2
  <2>4. <<c, u>> \in Membership
      BY <1>3, <1>10 DEF Membership
  <2>5. Book!Offer(c, u, row.date, row.span)
      BY <1>6, <1>7, <2>3, <2>4 DEF Book!Offer
  <2> QED
      BY <1>2, <1>3, <2>5 DEF BookStep, Book!Next, IntervalRow
<1>11. CASE member.calendar # c
  <2>1. Astray(n)'
      BY <1>4, <1>8, <1>11 DEF Astray
  <2>2. \A o : o \in Offers' <=> o \in Offers
      BY <1>8, <1>9, <2>1, OffersAre
  <2> QED
      BY <1>6, <1>7, <2>2, BookStutters
<1> QED
    BY <1>10, <1>11

LEMMA BookLeave ==
    ASSUME SafeInv, NEW c \in RowIds, NEW u \in Users, clear_participant(c, u)
    PROVE  BookStep
<1> PICK gone : gone = {p \in ParticipantsIn(c) : participants[p].user = u}
    OBVIOUS
<1> PICK lost : lost = IntervalsOf(gone)
    OBVIOUS
<1>1. /\ participants' = Without(participants, gone)
      /\ intervals' = Without(intervals, lost)
      /\ calendars' = calendars /\ seq' = seq
    BY DEF clear_participant
<1>2. /\ DOMAIN participants' = DOMAIN participants \ gone
      /\ \A p \in DOMAIN participants' : participants'[p] = participants[p]
      /\ DOMAIN intervals' = DOMAIN intervals \ lost
      /\ \A i \in DOMAIN intervals' : intervals'[i] = intervals[i]
  <2>1. /\ DOMAIN participants' = DOMAIN participants \ gone
        /\ \A p \in DOMAIN participants' : participants'[p] = participants[p]
      BY <1>1, WithoutKeeps
  <2>2. /\ DOMAIN intervals' = DOMAIN intervals \ lost
        /\ \A i \in DOMAIN intervals' : intervals'[i] = intervals[i]
      BY <1>1, WithoutKeeps
  <2> QED
      BY <2>1, <2>2
<1>3. \A i \in DOMAIN intervals :
        /\ intervals[i].participant \in DOMAIN participants
        /\ i \in lost <=> intervals[i].participant \in gone
    BY DEF SafeInv, ReferentialIntegrity, IntervalsOf
<1>4. \A p \in DOMAIN participants :
        p \in gone <=> participants[p].calendar = c /\ participants[p].user = u
    BY DEF ParticipantsIn
<1>5. Membership' = Membership \ {<<c, u>>}
    BY <1>2, <1>4 DEF Membership
<1>6. \A i \in DOMAIN intervals' : Offered(i)' = Offered(i) /\ (Astray(i)' <=> Astray(i))
    BY <1>2, <1>3, OfferedSame DEF Same
<1>7. \A i \in DOMAIN intervals :
        i \in lost <=> Offered(i)[1] = c /\ Offered(i)[2] = u
    BY <1>3, <1>4 DEF Offered
<1>8. Offers' = {o \in Offers : ~(o[1] = c /\ o[2] = u)}
  <2>1. \A o : o \in Offers' <=> o \in Offers /\ ~(o[1] = c /\ o[2] = u)
      BY <1>2, <1>6, <1>7, OffersAre
  <2> QED
      BY <2>1
<1>9. Owner' = Owner /\ Issued' = Issued
    BY <1>1, OwnerSame, IssuedSame
<1>10. Book!Leave(c, u)
    BY <1>5, <1>8, <1>9 DEF Book!Leave
<1> QED
    BY <1>10 DEF BookStep, Book!Next

LEMMA BookDiscard ==
    ASSUME SafeInv, NEW c \in RowIds, delete_calendar(c)
    PROVE  BookStep
<1> PICK gone : gone = ParticipantsIn(c)
    OBVIOUS
<1> PICK lost : lost = {i \in DOMAIN intervals :
                            \/ intervals[i].calendar = c
                            \/ intervals[i].participant \in gone}
    OBVIOUS
<1> PICK cs : cs = {c}
    OBVIOUS
<1>1. /\ participants' = Without(participants, gone)
      /\ intervals' = Without(intervals, lost)
      /\ calendars' = Without(calendars, cs)
      /\ seq' = seq
    BY DEF delete_calendar
<1>2. /\ DOMAIN participants' = DOMAIN participants \ gone
      /\ \A p \in DOMAIN participants' : participants'[p] = participants[p]
    BY <1>1, WithoutKeeps
<1>3. /\ DOMAIN intervals' = DOMAIN intervals \ lost
      /\ \A i \in DOMAIN intervals' : intervals'[i] = intervals[i]
    BY <1>1, WithoutKeeps
<1>4. /\ DOMAIN calendars' = DOMAIN calendars \ cs
      /\ \A k \in DOMAIN calendars' : calendars'[k] = calendars[k]
    BY <1>1, WithoutKeeps
<1>5. \A i \in DOMAIN intervals : intervals[i].participant \in DOMAIN participants
    BY DEF SafeInv, ReferentialIntegrity
<1>6. \A p \in DOMAIN participants : p \in gone <=> participants[p].calendar = c
    BY DEF ParticipantsIn
<1>7. \A i \in DOMAIN intervals :
        /\ intervals[i].participant \in gone => i \in lost
        /\ ~Astray(i) => (i \in lost <=> Offered(i)[1] = c)
    BY <1>5, <1>6 DEF Offered, Astray
<1>8. \A i \in DOMAIN intervals' : Offered(i)' = Offered(i) /\ (Astray(i)' <=> Astray(i))
    BY <1>2, <1>3, <1>5, <1>7, OfferedSame DEF Same
<1>9. Offers' = {o \in Offers : o[1] # c}
  <2>1. \A o : o \in Offers' <=> o \in Offers /\ o[1] # c
      BY <1>3, <1>7, <1>8, OffersAre
  <2> QED
      BY <2>1
<1>10. Membership' = {m \in Membership : m[1] # c}
    BY <1>2, <1>6 DEF Membership
<1>11. Owner' = [k \in DOMAIN Owner \ {c} |-> Owner[k]]
    BY <1>4 DEF Owner
<1>12. Issued' = Issued
    BY <1>1, IssuedSame
<1>13. Book!Discard(c)
    BY <1>9, <1>10, <1>11, <1>12 DEF Book!Discard
<1> QED
    BY <1>13 DEF BookStep, Book!Next

LEMMA BookUntouched ==
    ASSUME calendars' = calendars, participants' = participants,
           intervals' = intervals, seq' = seq
    PROVE  BookStep
BY OwnerSame, IssuedSame, MembershipSame, OffersUntouched, BookStutters

LEMMA BookState ==
    ASSUME SafeInv, NEW id, NEW state, update_calendar_state(id, state)
    PROVE  BookStep
<1>1. \A c \in DOMAIN calendars : calendars[c] \in CalendarRow
    BY DEF SafeInv, ServiceInv, TypeOK, RepoTypeOK
<1>2. /\ DOMAIN calendars' = DOMAIN calendars
      /\ \A c \in DOMAIN calendars : calendars'[c].creator = calendars[c].creator
    BY <1>1 DEF update_calendar_state, CalendarRow
<1>3. Owner' = Owner
    BY <1>2, OwnerSame
<1> QED
    BY <1>3, IssuedSame, MembershipSame, OffersUntouched, BookStutters
    DEF update_calendar_state

-----------------------------------------------------------------------------
(* Each step of the service is an entry.                                   *)

LEMMA ServiceWritesBook == SafeInv /\ [Next]_vars => BookStep
<1> SUFFICES ASSUME SafeInv, [Next]_vars PROVE BookStep
    OBVIOUS
<1>1. ServiceInv /\ TypeOK /\ CallsInShape
    BY DEF SafeInv, ServiceInv
<1>2. CASE UNCHANGED db
    BY <1>2, BookUntouched DEF db
<1>3. ASSUME NEW t \in Threads, Creates(t) PROVE BookStep
  <2>1. call[t].req \in CreateRequest
      BY <1>1, <1>3, CallFacts, RequestFacts DEF Creates, Shape, Ops
  <2>2. Row(call[t].req).creator \in Users
      BY <2>1 DEF Row, CreateRequest
  <2> QED
      BY <1>3, <2>2, BookPublish, BookUntouched DEF Creates, CreateCalendarFails
<1>4. ASSUME NEW t \in Threads, Joins(t) PROVE BookStep
    BY <1>1, <1>2, <1>4, MemberFacts, UpsertCases, BookJoin DEF Joins
<1>5. ASSUME NEW t \in Threads, Clears(t) PROVE BookStep
  <2>1. call[t].id \in RowIds /\ call[t].req.user \in Users
      BY <1>1, <1>5, CallFacts, RequestFacts DEF Clears, Shape, Ops, UserRequest
  <2> QED
      BY <1>5, <2>1, BookLeave DEF Clears
<1>6. ASSUME NEW t \in Threads, Manages(t) PROVE BookStep
  <2>1. call[t].id \in RowIds
      BY <1>1, <1>6, CallFacts DEF Manages, Shape, Ops
  <2> QED
      BY <1>6, <2>1, BookState, BookDiscard DEF Manages
<1>7. ASSUME NEW t \in Threads, Posts(t) PROVE BookStep
    BY <1>7, BookUntouched DEF Posts, set_calendar_message
<1>8. ASSUME NEW t \in Threads, Step(t) PROVE BookStep
    BY <1>1, <1>2, <1>3, <1>4, <1>5, <1>6, <1>7, <1>8, CasesOfStep, BookOffer
    DEF StepCases, Reads
<1> QED
    BY <1>2, <1>8 DEF Next, Crash, vars

LEMMA BookBegins == Init => Book!Init
BY DEF Init, RepoInit, Book!Init, Owner, Issued, Membership, Offers, Tables

\* The service implements the book: whatever is interleaved, whatever fails and
\* whenever the process dies, calendars, members and availability change by one
\* entry of the book at a time.
THEOREM ServiceKeepsBook == Spec => ImplementsBook
<1>1. SafeInv /\ [Next]_vars => [Book!Next]_(Book!vars)
    BY ServiceWritesBook DEF BookStep
<1> QED
    BY <1>1, BookBegins, Safe, PTL DEF Spec, ImplementsBook, Book!Spec

=============================================================================

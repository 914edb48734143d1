# A formal model of Horelac

Horelac is a Discord bot that collects availability in shared monthly
calendars. This directory specifies it in TLA+, checks the specifications with
TLC and proves with TLAPS, for every number of threads, users and rows, what
matters most about its database, service, start, render queue, algorithms and
the bot itself. The specifications are written from the C++ sources; where a document of the
repository says something else, that is listed under *Disagreements*.

Run from this directory:

    tlc -workers 4 -config ServiceMembers.cfg MCService
    tlapm ServiceSafety.tla

## 1. Inventory of the system

| Component | State | Operations | Correct when |
|---|---|---|---|
| Domain values (`domain/Models.hpp`, `Errors.hpp`) | none | none | - |
| Schedule algorithms (`domain/ScheduleAlgorithms.cpp`) | none, pure | `month_weeks`, `aggregate_week`, `rank_best_windows` | the weeks tile the month; a cell counts exactly those free for the whole slot; the ranking is conservative and its answers distinct |
| SQLite repository (`persistence/sqlite/SQLiteScheduleRepository.cpp`) | ten tables on disk; one connection behind `mutex_` | `create_calendar`, `update_calendar_state`, `delete_calendar`, `upsert_participant`, `add_interval`, `remove_interval`, `clear_participant`, `set_calendar_message`, `create_event`, `set_attendance`, readers, `migrate` | no dangling rows, unique members and aliases, ids never change their meaning, events outlive calendars |
| Schedule service (`services/ScheduleService.cpp`) | `calendar_cache_` behind `cache_mutex_`; what the calls on each thread have read so far | `create_calendar`, `add_availability`, `my_schedule`, `day_participants`, `set_calendar_message`, `calendar_message`, `calendar`, `week_count`, `clear_my_data`, `weekly_heatmap`, `best_windows`, `public_participants`, `change_state`, `delete_calendar` | no availability lost, invented, misattributed or shown to others; only owners manage; the cache agrees with the database; calls end |
| Render queue (`services/RenderQueue.cpp`) | `pending_` map behind `mutex_`; the worker's locals; a stop token | `mark_dirty`, `stop`, the worker's `run` | no mark lost, revisions in order, debounce respected, stop returns |
| Discord bot (`bot/DiscordBot.cpp`) | the frames of its handlers on the library's thread pool; the public messages on Discord | slash commands, buttons, forms, the callback that stores a message reference, `update_public_message` | answers are true, the reference leads to the calendar's message, the message shows the stored week and who is in the database, only navigation moves the week, handlers end, texts are taken as typed |
| Configuration and startup (`support/Config.cpp`, `main.cpp`, `migrate`) | the environment; how far `main` has come; the open transaction | `from_environment`, opening the database, `migrate`, serving | the schema is whole or absent, calls find it whole with foreign keys on, no start spoils the next one |
| Renderer (`render/cairo/`) | none | draws a heatmap as PNG | layout only |
| Localization (`support/Localization.cpp`) | a constant table | `text`, which nobody calls | - |

**How they interact.** `main` opens the repository, runs `migrate`, and hands it
by reference to one service, and that to one bot. The Discord library runs
handlers and callbacks on several threads, all on the same service: a handler is
a sequence of service calls with replies and edits in between, and nothing keeps
two handlers of one calendar apart. A service call is a
sequence of critical sections: `cache_mutex_` is taken for each look at the
cache, the repository's `mutex_` for each single method; nothing is held in
between. The repository is the only state that survives a crash. The render
queue has one worker and any number of callers; it is compiled into the program
but `main` does not use it yet. `change_state`, `delete_calendar`,
`public_participants` and the event methods are part of the interfaces, without
a command of the bot that reaches them yet.

**What is hard.**

* Interleaving: ids and rows that a call read may be gone, or changed, when it
  uses them (`add_availability`, `my_schedule`, `day_participants`,
  `weekly_heatmap`, `require_calendar`).
* Partial failure: `add_availability` and `create_calendar` consist of several
  transactions, and an upsert may report success though its commit failed.
* Crash: between any two critical sections, and between any two statements of
  the start. The container is started again (`restart: unless-stopped`).
* Failing reads: a statement that fails is taken for an empty result.
* Cascades and two UNIQUE constraints, only one of them handled by `ON CONFLICT`.
* Arithmetic at the edges of weeks, months, slots and windows.
* Timed waits on state that changes meanwhile (`RenderQueue::run`).
* Discord: a message reference arrives in a callback of its own, after users can
  already press the buttons, or never; edits may be lost, and updates of one
  message overtake each other.

`PROJECT.json` lists each hazard at its line with the properties that cover it.

## 2. Modules

| Module | Models | Lines of the code |
|---|---|---|
| `LocalDates` | civil dates (`std::chrono`), external | - |
| `Domain` | the records and enumerations | `Models.hpp`, `Errors.hpp` |
| `ScheduleAlgorithms` | the three algorithms as operators | `ScheduleAlgorithms.cpp` |
| `InputParsing` | what the bot makes of typed dates, months and times | `DiscordBot.cpp` 49-93, 292-299 |
| `MonthWeeks`, `WeekPlan`, `MCAlgorithms` | state machines that enumerate inputs of the algorithms and the parsers, and the reference definitions they are compared with | - |
| `Repository`, `MCRepository` | the tables, one action per writing method | `SQLiteScheduleRepository.cpp`, the schema |
| `RepositoryProofs` | theorems about `Repository` | - |
| `DateProofs`, `AlgorithmProofs` | theorems about the calendar weeks; about `MonthWeeks`, `WeekPlan` (with the lemmas on finite sets, sums and the selection that these need) and the parsers | - |
| `ScheduleService` | the service on any number of threads, over `Repository` | `ScheduleService.cpp` |
| `ServiceProperties`, `MCService` | its properties; the workloads | - |
| `ServiceProofs`, `ServiceSafety` | theorems about `ScheduleService`: types and copies; safety and the book | - |
| `Startup` | `main`, the configuration, the connection and `migrate` | `main.cpp`, `Config.cpp`, `SQLiteScheduleRepository.cpp` 92-157 |
| `Horelac`, `MCHorelac` | the program: `Startup` and `ScheduleService` on one database file | - |
| `HorelacProofs` | theorem about `Horelac` | - |
| `DiscordBot` | every handler and callback of the bot over `ScheduleService`, and the pictures on Discord | `DiscordBot.cpp` |
| `BotProperties`, `MCBot` | its properties; interactions | - |
| `BotProofs` | theorems about `DiscordBot` | - |
| `AvailabilityBook` | the abstract specification the service implements | - |
| `RenderQueue` | the queue, its worker and its clock | `RenderQueue.cpp` |
| `RenderQueueProofs` | theorems about `RenderQueue` | - |

**Repository.** A table is a function from the primary keys present to rows.
`seq` is `sqlite_sequence`: AUTOINCREMENT ids only grow. Every method holds
`mutex_` from first line to last, so a method is one action, enabled exactly
when its statement succeeds; a statement that breaks a constraint throws and
changes nothing. There are two exceptions. `create_calendar` is three statements
that commit separately, so `CreateCalendarFails` leaves a guild, or a guild and
a channel, behind. And `upsert_participant` steps its statement to the row with
the id only: it commits as the statement is finalized, and nobody looks whether
that succeeds. `UpsertUndone` is this case: the id is returned, the tables are
as they were, and the next upsert may draw the same id. An upsert that updates
also skips a sequence number in SQLite; the model leaves that out, since only
the freshness of ids matters. Texts are values with an identity, a key folded by
`lower()` and a length.

**ScheduleService.** `call[t]` holds what the thread's C++ frame holds: the
request, the id, the copy of the calendar row, the participant id, the dates
still to store, and the answer. `pc` names the next critical section. Each
action is one critical section together with the tests on the thread's own
copies that come before it. `require_calendar` is four steps (`CacheHit`,
`CacheMiss`, `FindCalendar`, `FillCache`); `add_availability` is one step for
the upsert and one for each date. When `DiskMayFail`, a write may fail with
`database_error`, and a read may stop at any row: the calendar or the reference
is then not found, a list is a prefix of itself (`Delivered`, or some of the
members where the order is by name: `DeliveredMembers`), a count is 0; and an
upsert may be undone behind the back of its call. `lost` is history and read by
properties only: the id of an upsert that was not stored, 0 for none. `Crash`
empties the cache and forgets all calls; the database keeps what was committed.

**AvailabilityBook.** What users are promised: who owns a calendar, who takes
part, who is available when. It is new, or was kept before. It changes by one
fact at a time, a member leaves with everything he offered, a calendar goes with
everything in it. The mapping (`Book` in `ServiceProperties`) reads the book off
the tables; every service step is a step of the book or a stutter. An interval
that a lost upsert has put under a member of another calendar (`Astray`) is no
offer of the book.

**Startup and Horelac.** `process` is how far `main` has come; a process exits
when the configuration is refused, when a statement fails (`StartMayFail`), or
when it is killed, and `Launch` starts the next one on the same file. `schema`
is what is committed and `staged` what the open transaction of `migrate` sees:
each `CREATE` of the script is a step (`CreateNext`), since none has `IF NOT
EXISTS` and a second run on half a schema would fail for ever. In `Horelac` the
service's threads act only while `process` is `"serving"`; a crash ends the
process and all calls together. The rows of the tables are those of `Repository`;
both they and `schema` survive as they were committed.

**DiscordBot.** `task[t]` is the frame of the handler on thread `t`: the
interaction, the calendar, the week to show, the reference it has read, its
answers so far. `at` names the service call it waits for; the call itself runs
through the steps of `ScheduleService`. The tests, replies and edits between two
calls belong to the step that takes the answer of the first. `Catch` is the
`catch` of the three handlers: an error is said after whatever was said before.
`board[c]` is the picture that the message of calendar `c` shows. `Post` and
`Edit` change it, unless Discord loses them; `awaiting` holds the posted
calendars whose reference is still to arrive (`Callback`). A typed text is the
sequence of the integers `sscanf` finds in it, and the parsers of `InputParsing`
narrow them to the widths of `std::chrono` before the validity test. A crash
loses handlers and callbacks; Discord keeps the messages. Two variables are
history: `alone`, which handlers have overlapped no other, and `member`, for
which participant a handler has saved.

**RenderQueue.** Each stretch of `run()` under the lock is one action: choosing
the entry that is due first and beginning to wait for it (`Select`), the end of
that wait (`Take`), choosing an entry that is due already, which `wait_until`
hands over without letting go of the lock (`TakeAtOnce`), the return of the
callback (`Render`), and the stop (`End`). A notification only wakes the worker
to evaluate its predicate, so it is not an action: the worker can act when the
predicate holds. The queue never compares revisions. The model lets its callers
mark the revisions of a calendar in order, each once, and `HandedGrows` rests on
that; a caller that marked after `clear_my_data` would not have a new revision
to mark with (see *Disagreements*).

## 3. Runs

| Run | Question | Instance |
|---|---|---|
| `repository` | Do constraints, cascades and ids keep the tables sound under any sequence of calls? | 1 user, 1 channel, 2 row ids per table, revisions to 2 |
| `algorithms` | Do the display weeks tile every month? Is typed text taken as typed? Does the heatmap count who is really free, and is the ranking right? | every month of nine years, both week starts; 432 dates and 162 times at the edges; 2 members, 4 slots on 2 days, every set of up to 3 intervals |
| `service_members` | Is availability kept, entered as asked and shown right, and do checks on stale copies let only owners manage, with concurrency, failing writes, lost commits of an upsert, cut off reads and crashes? Does the service implement the book? | a calendar left by an earlier process, with nobody or with misplaced availability in it, 2 users, 2 threads, 3 writing calls |
| `service_sequential` | Does the program serve again wherever it was cut off? Are cache, state check and alias error right without concurrency? Is everything stored on the grid of its calendar? Does every call end? | every environment, every operation, 1 thread; crashes at any point, and failing statements of the start |
| `bot` | Are answers true, is the reference right, does an undisturbed update show the database and move the week only as asked, does every handler end? | every kind of interaction, 2 at a time on 2 threads, on a calendar left at either end of its month, and on a new one; crashes, lost edits, posts and callbacks |
| `render_queue` | Is no mark lost, are revisions ordered, are marks served, does stop return? | 2 calendars, 3 revisions, debounce 2, clock to 7 |
| `stale_cache`, `torn_heatmap`, `partial_add`, `lost_upsert`, `debounce`, `stale_board` | see *Disagreements* | small instances of the above |

**Why the bounds are enough.**

* *Repository.* Two rows per table are the least with which a row is deleted
  while another stays, an id could be reused, and a calendar disappears under
  the participant of another. The theorems hold for every bound.
* *Algorithms.* Nine years include an ordinary leap year, years around a
  century that is not one (2100), a February of exactly four weeks and months
  of six. The spans share an edge, nest, overlap, and lie on a
  date outside the week; windows of one slot, two, three and more than fit
  (150 minutes) are asked for, with and without a limit. One calendar that is
  not shown contributes intervals that must be ignored. Typed dates lie at the
  ends of months, at February 29, at 0, -1 and 256 and more, where narrowing
  wraps; typed times at -1, 24:00, 24:01 and 60.
* *Service.* Two threads are what each race below needs: one call between two
  steps of another. `service_members` starts where an earlier process left a
  calendar with nobody in it, or two calendars, each with an interval that a lost
  upsert has put under a member of the other (`LeftAstray`). So three writing calls allow join, clear and join
  again, or delete and create: the shortest histories in which a reused id would
  matter. Reading calls are not bounded. One thread suffices with the start-up,
  which is sequential. `MaxRowId` and `MaxRevision` are above what the calls can
  use, except where an `add` runs at the limit of ids and must fail cleanly.
* *Bot.* Two interactions are enough for every pair to overlap, for a press
  before the callback, and for an update after one that was lost or died. The
  calendars have four weeks; what earlier interactions left is chosen in the
  initial states (`LeftAt`): the last week, and the first one with a picture
  that is a week ahead because an edit was lost. `AnsweredChangeIsShown` and
  `OnlyNavigationMovesTheWeek` speak of handlers that overlap no other; what
  overlapping ones do to the picture is `stale_board`.
* *Render queue.* Two calendars let one overtake the other, three revisions let a
  mark arrive during the wait and during the callback of one calendar, a clock
  of seven ticks lets the debounce of two pass three times.

**Properties that need care.** `OpenWhenAdded`, `AliasErrorIsTrue` and
`CacheSettles` are checked with one thread, as they do not hold with two: a
calendar may be closed between the test of its state and the write; the calendar
may be deleted under an upsert with an alias, and every database error of such
an upsert is reported as a taken alias. What they catch is therefore not these
two races, but a cache that is wrong without any, a state test that is missing,
and a mistake about aliases and their case. `EveryCallEnds` has one thread too:
row ids that run out and crashes cut its calls short, other calls do not.
`CallsKnowTheirMember`, `OnlyAsWritten` and `SavedMeansStored` except a call
whose upsert was not committed, by its `lost`; without failing disks there is
none (`MembersKnown`), and with one `lost_upsert` shows what comes of it. Cut
off reads are part of `service_members`, but no property there says that an
answer is complete: the program cannot tell, and promises nothing.
`CacheSettles` is a documented promise, and `CountedWithinTotal` too, so their
failure with two threads is a run of its own. `ServesAgain` does not say that a
start succeeds while the disk fails or somebody kills the process again and
again; it says that nothing else keeps the program down once its configuration
is good.

**Fairness.** `EveryCallEnds` assumes that each thread that executes a call is
scheduled again and again (`WF_vars(Work(t))`): the threads belong to the
operating system, and both mutexes are held for one statement only. The same
holds of the handlers in `EveryInteractionEnds` (`WF(Act(t))` for each thread).
`ServesAgain` assumes that `main` goes on and that the container is started
again (`WF_program(Launched)`; `docker-compose.yml:4`). Nothing is assumed about
users, or about Discord: it need not call back. Nothing makes a clock or a
caller of the render queue fair but `WF_vars(Tick)` (time passes) and
`WF_vars(Work)` (the worker is scheduled; `jthread` runs it until it ends; the
callback returns).

**Stopping.** `RenderQueue` really stops after `stop`; the enumeration of
`MCAlgorithms` ends when the inputs are used up. In `repository` the check for
deadlock says that some call is possible in every state. In the passing runs of the
service and the bot it says nothing, since a crash is always possible there; that
calls and handlers do not wait on each other is what `EveryCallEnds` and
`EveryInteractionEnds` show, whose fairness does not include crashes.

## 4. Disagreements

Each is a run that TLC ends with the behaviour named.

* `stale_cache` - `require_calendar` reads the row, another call deletes or
  closes the calendar and invalidates its entry, then the first one stores the
  old row in the cache. It stays there: the cache is not disposable as
  `docs/architecture.md:14` has it. `CopiesAreOldRows` and `OnlyOwnersManage`,
  checked and passing, show the damage is limited to the state and the revision.
* `torn_heatmap` - the heatmap's intervals and total come from two reads; a
  member who clears his data in between makes a cell read `1/0`.
* `partial_add` - an `add_availability` that fails on a later date has stored the
  earlier ones (`docs/architecture.md:172`, `252`). `SavedMeansStored` shows
  that the opposite does not happen. The bot passes one date per call, so only
  the participant can be left behind from there.
* `lost_upsert` - the owner's first `add_availability` upserts him; the commit of
  the upsert fails as its statement is finalized
  (`SQLiteScheduleRepository.cpp:207`), and he goes on with an id that is in no
  table. A guest joins, draws that id and is stored under it; the owner's dates are
  then stored as the guest's, who sees them in My Schedule (`README.md:43`;
  `docs/architecture.md:172` has upsert and intervals in one transaction). All other
  writes step to `SQLITE_DONE` and report the failure. `OnlyAsWritten` shows that
  nothing but a lost upsert misplaces availability.
* `debounce` - the worker waits until the due time it copied, though a mark during
  the wait has moved the entry's (`docs/architecture.md:276`).
* `stale_board` - two members add at the same time; the update that read the
  database first edits the message last, and the older picture stays. The
  `RenderQueue` that would prevent it is not used (`docs/architecture.md:276`).

Noted without a run:

* `docs/architecture.md:170` says that the repository validates that an interval
  and its participant are of one calendar; no method of the repository does. The
  service passes a matching pair (`OnlyAsWritten`), unless it holds the id of a
  lost upsert and a member of another calendar has drawn that: then the interval
  counts in neither calendar's heatmap as its member's, and disappears with either
  (`OnlyRemovedByRight`).
* `docs/architecture.md:284` has every successful mutation increment
  `calendars.revision`; `clear_participant` (line 217) and `upsert_participant` do
  not. Nothing compares revisions yet.
* `parse_date` refuses with "Date must be YYYY-MM-DD", yet it takes
  `2026-264-5` for 5 August 2026: 264 is narrowed to 8 before it is tested.
  `TakenAsTyped` therefore speaks of integers that fit their fields.
* A crash, or a lost answer, between posting a calendar and storing its
  reference leaves a message without a reference for good. Every later change is
  stored, and answered twice: "Availability saved.", then an error.
  `docs/architecture.md:16` calls the interactions restart-safe;
  `AnsweredAsDone` shows that this second answer is the worst that happens.
* `docs/architecture.md:222` has handlers acknowledge at once and defer the rest;
  the handlers answer after the work.

## 5. Proofs

Every theorem holds for all values of the constants that satisfy the named
assumptions of the modules, and tlapm checks it to the last leaf. TLC evaluates
the assumptions on the instances of the runs.

### Repository

`RepositoryProofs`, for every set of users, channels, configurations and
values, every bound on row ids, and unbounded revisions. Assumptions: those
of `Domain` and `Repository` (NULL is not one of the ids and values it
stands beside, durations are integers, bounds are naturals).

| Theorem | Argument |
|---|---|
| `RepoTypeCorrect` | `RepoTypeOK` is inductive. Besides types it says that the ids in a table do not exceed the table's sequence, which is what makes drawn ids fresh. |
| `RefsHold` | `ReferentialIntegrity` is inductive relative to `RepoTypeOK`. The cascade of `delete_calendar` takes intervals by calendar *or* by participant: with only one of the two it would not be inductive, because no constraint ties the calendar of an interval to that of its participant. |
| `KeysUnique` | `UniqueKeys` is inductive by itself. The core is `UpsertIsAlone`: a row other than the one replaced shares neither user nor alias key with the row stored, the user because `ON CONFLICT` would have matched it, the key because the other index would have refused. |
| `MeaningsKept` | an action property from `RepoTypeOK`: new ids exceed the sequence, an upsert replaces only a row of the same member, nothing else rewrites a member or a creator. |
| `CalendarsInPlace` | `CalendarsPlaced` is not inductive: nothing in it says that a channel row is of its own guild. `ChannelsAtHome` does, for the channels that `create_calendar` leaves behind when it is cut off. |
| `EventsOutlive` | an action property: only `delete_calendar` touches an event it does not create, and only its source. |

### Render queue

`RenderQueueProofs`, for every set of calendars, debounce and bound. The
inductive invariant is `QueueInv`: type correctness, `SelectedStays` and
`NewestIsKept` together with `EntriesFresh`, which neither of them can do
without: an entry holds the newest revision of its calendar, one that the
callback has not seen, and is due within one debounce from now. The bound on due
times keeps `SelectedStays` when a mark replaces the entry the worker waits for;
the unseen revision is what makes `HandOver` hand over a larger one.

| Theorem | Argument |
|---|---|
| `QueueTypeCorrect`, `SelectionSurvives`, `NothingIsLost` | conjuncts of `QueueInv` |
| `OrderIsKept` | only `TakeAtOnce` and `Take` start a callback, and `EntriesFresh` says that the entry they hand over is newer than what was handed over before. That marks come with growing revisions is part of `mark_dirty` in the model, so an assumption about the callers. |

### Start

`HorelacProofs`, for any number of starts and any way of ending them. `StartInv`
says for each place in `main` how far the script has come: `schema` is empty or
whole, and within `migrate`, `staged` is what is committed, or `schema_migrations`
and the first statements of the script, or - when the query of the version failed
on a migrated database - everything already, and then the next statement fails. Together
with `CallsWhileServing` (calls are executed only while `main` serves) it is
inductive, and `SchemaWhole` follows.

### Service

`ServiceProofs` and `ServiceSafety`, for every number of threads, every set of
requests, failing statements (`DiskMayFail`) and crashes (`MayCrash`).
Assumptions beside those of `Repository`: the requests are requests, and NULL is
neither a request nor a row of a calendar.

The invariant everything rests on is `ServiceInv`: `TypeOK`, and for each call
its `Shape`, what it relies on at its step - it is at a step of its own
operation, `id` is the calendar it names, it holds a copy of a calendar row
wherever it uses one, the dates still to store are dates of the request in the
month of the copy. `ServiceStep` shows that each step preserves it *and* is a
step of `RepoSpec` or leaves the tables alone (`ServiceUsesRepository`), so
what is proved of the repository need not be proved again.
`CasesOfStep` reduces the steps of a thread to seven kinds by what they change;
the later proofs speak of these kinds only.

| Theorem | Argument |
|---|---|
| `ServiceCorrect` | `ServiceInv` is inductive. |
| `ServiceUsesRepository`, `ServiceKeepsTables` | each step of `Spec` is `[RepoStep]_db`; then `RefsHold` and `KeysUnique` |
| `CopiesAreOld` | `CopiesOld`: each copy, in the cache or in a call, agrees with the row stored under its id - if there is one - in all but state and revision, and its revision is at most the stored one; the id was handed out. Stored rows change in those two columns only, and a copy of a deleted row stays harmless because its id is not used again. |
| `MembersKnown` | an id that a call has read was drawn (`MemberId`), and whatever row has it is the caller's; `MeaningsKept` keeps it so, also when the member leaves and comes back under a new id. The exception is the id of an upsert that was not stored (`UpsertCases`), which no call holds if the disk does not fail (`SoundDisk`). |
| `AddsAsWritten`, `RemovesByRight`, `OwnersManage`, `MineIsOnlyMine` | action properties from `SafeInv`: `ServiceInv`, `CopiesOld`, `CallsKnowTheirMember`, `ReferentialIntegrity` and, if the disk does not fail, `IntervalsPlaced` (an interval lies in the calendar of its member - which the schema does not say). They hold on a failing disk too, where the two ways of the cascade may be two. |
| `AddsForTheCaller` | under `~DiskMayFail`: then no call holds a lost id, and `AddsAsWritten` names the caller |
| `SavedIsStored` | `SavedSoFar`: of a call that stores, each date is still to do or is stored, unless the member is gone; and once the call has answered, all of them |
| `CacheOfOneThread`, `OneThreadAddsToOpen` | under the hypothesis that there is at most one thread: a cached row has the state of its calendar unless the call that has just changed it is about to drop the row (`CacheFresh`), and so has a row on its way into the cache (`FoundFresh`). With two threads both are false: `stale_cache` is the behaviour. |
| `OneThreadAliasError` | for calls one after the other, on a disk that does not fail and with row ids left (`MaxWrites <= MaxRowId`): at the upsert the calendar still exists (`AddsToOpen`) and there is an id for one more member, since each member there is was added by a call of his own (`IdsLeft`). So the only way left for the upsert to be refused is that another member has the alias. |
| `StoredInRange` | `IntervalsInRange`: what is stored is within the hours, the month and the slots of its calendar. The checks are made once, against a copy, and the rows written one after the other, so two more facts are needed: a call that stores has passed them (`StoresAccepted`), and the configuration in its copy is the stored one (`CopiesOld`). |
| `ServiceKeepsBook` | a refinement: `BookPublish`, `BookJoin`, `BookOffer`, `BookLeave` and `BookDiscard` show which step of `AvailabilityBook` a write of the service is; every other step leaves the mapped variables alone. An interval written under a lost id is an offer of the member who has that id by then, if he is of the same calendar, and otherwise none. |

### Bot

`BotProofs`, for every number of threads, every set of interactions, failing
statements, crashes, lost posts and edits, and callbacks that come in any order or
never. Assumptions beside those of the service: its requests are all requests
the handlers make and a bot starts with requests only (`BotAssumption`,
`OpeningAssumption`), and neither an interaction nor a message id is NULL. That a week the bot shows is
a week of its month comes from `WeekFacts` of `DateProofs`: no month has less than
four weeks or more than six.

The service's actions are steps of the bot too, so the proofs of `ServiceProofs`
are used as they are; what is new is the handlers' part of the state. The
inductive invariant `BotInv` has four parts:

* `TablesOK`: `ServiceInv` and the types of the tables.
* `HandlersOK`: at each stage, which call the handler awaits and about which
  calendar (`StageOp`, `Fits`), and what it has prepared for what comes after
  (`Prepared`); every reference that a handler holds, stores or has just been
  given leads to the message of its calendar (`Leads`, `AnswerOK`).
* `PicturesOK`: every message and every awaited callback belongs to a calendar
  that exists. No handler deletes one, so calendars and messages only grow
  (`Grows`), and what a handler knows of them it knows for good.
* `GhostsOK`: the types of the history variables.

`AnsweredChangeIsShown` and `OnlyNavigationMovesTheWeek` are about a handler that
overlaps no other over the six or seven calls it makes, and need more. `AloneKnows`
says of each handler that has overlapped no other that no other thread is at work, and what it
knows (`Knows`): the week it is going to at each stage (`Target`), that the call it
awaits has so far read what is stored (`Fresh`), that with a reference at hand
it gets no error, and that the heatmap it has been given is the one to be shown
(`Shown`). Both assume `~DiskMayFail`, and are false without it: a read that is cut
short is an answer to the handler like any other, and it draws the shorter list.

`AnsweredAsDone` relates what a handler has said to the tables, and is proved
under `~DiskMayFail` too. Its inductive invariant adds four parts:

* `StoresOK`: what is proved of the service's calls under its own steps
  (`CallsKnowTheirMember`, `SavedSoFar`, `StoresAccepted`, `IntervalsPlaced`,
  `IntervalsInRange`) holds between the steps of handlers as well.
* `AllHonest`: for each handler, whoever else is at work, what it has said at each
  stage (`SaidAt`), that the call it awaits is the one its input asks for (`AskedAt`),
  that it gets no error once it holds a reference (`TrustsAt`, which rests on
  `NoError`), and that what it called saved is kept as typed while its member
  takes part (`SavedAt`).
* `BotRows`: every calendar, stored or copied, is open and anonymous, as
  `/schedule` creates it. Without it an error could mean a closed calendar.
* `AllCandid`: of a handler alone at work, that an error it got or said first
  means that nothing as typed is stored, or that intervals have no row id left
  (`Nothing`). `SavingFails` is the core: were there such an interval, then by
  `IntervalsInRange` what was typed lies on the calendar's grid, by
  `IntervalsPlaced` the member exists, and no check or constraint could refuse.

| Theorem | Argument |
|---|---|
| `BotTypeCorrect`, `ReferenceLeads` | from `BotInv` |
| `ChangeIsShown`, `NavigationMovesTheWeek` | `BotInv /\ AloneKnows` is inductive when the disk does not fail. `CallsKnow` is the core: a step of the call that a lone handler awaits keeps `Fresh`, and the end of the call makes the answer true (`LookupFresh`, `ReadingFresh`, `WritingFresh`). A handler that begins while another is at work takes its solitude from it, and so nothing is left to show of either. |
| `AnsweredTruly` | `BotInv /\ StoresOK /\ AllHonest /\ BotRows /\ AllCandid`. "Saved" stays true over the steps of any others because a member's intervals stay as long as his id does (`IntervalsStay`, `KeptStays`); that an error means nothing is stored is claimed of lone handlers only, since another one of the same member may store the same. |

### Algorithms

`month_weeks` is a recursive function, and induction over it is out of the
prover's reach. `DateProofs` goes another way: `LeastNatural`, that a non-empty
set of naturals has a least member, comes from the well-foundedness of `<` and
no induction rule; `MonthWeeksAre` takes the least number of weeks for which the closed
form (the `k`-th week starts and ends seven days after the one before, clipped to
the month) could fail, and shows that it holds there too. All that follows uses
the closed form. The only assumption is that years are integers and `ok()`, as all shorts but the
least are.

The folds of `rank_best_windows` - the sums over the slots of a window, and the
selection - need induction over finite sets, which the same detour replaces: a
non-empty set of subsets of a finite set has a member that is smallest in it
(`SmallestSubset`), so what fails for some subset also fails for one that it does
not fail for when any one element is taken away. `FoldExists` shows that the function a fold chooses
exists at all, `SumRenumbered` that a sum does not depend on what its terms
are numbered by, and `SelectionIsALoop` that the fold of the selection is a
loop over the candidates in their order; `Selected` is its invariant. An order
is a numbering by how many come before (`Ordered`, `OrderCounts`), which takes
the place of `std::sort`.

The assumptions are those of `WeekPlan`: a valid configuration of integers, a
week in its month, offers in whole slots of the hours shown, finitely many
members, and lengths of whole slots, which the code refuses otherwise.

| Theorem | Argument |
|---|---|
| `MonthsAreTiled` | `WeekFacts`: a month has four to six weeks; then arithmetic modulo 7 on the days |
| `TypedIsTaken` | `NarrowFits`: narrowing to a width keeps the integers that fit it |
| `HeatmapCountsSlots` | `CellIndex` and `CellBefore`: the cell with number `k` is that of day `(k-1) \div Rows` and slot `(k-1) % Rows`, so the cells tile the week; `TouchesIsCovers`: an interval aligned to the slots that touches a slot covers it; `CountsMembers`: the fold over the intervals counts the members of the set. Alignment is an assumption of `WeekPlan`; `StoredInRange` shows that the service keeps it. |
| `BestIsFirst` | `CellsOfDay` and `CandidatesAre`: the candidates are the runs of `d / slot` slots that fit into a day; `CandidateFacts` and `WindowsAre`: they are the windows of the definition, which does not slide, with its minimum and sum; `WindowsOrdered`: the five keys of the sort order them totally, since date and start tell any two apart; `AnswersAre`: the first of them is the first answer |
| `AnswersDistinct` | `RoundKeepsSelected`: a round keeps `Selected` - no two answers similar, no more than the limit, and for each window not among them an earlier answer that it is too similar to, or the limit reached before it; `StartsApart`: what is not too similar starts more than half a length apart |

### Model-checked only

Every safety property that a passing run checks is stated by a theorem, for every value
of the constants. What is left:

* The six behaviours of section 4.
* Liveness - `EveryCallEnds`, `EveryInteractionEnds`, `ServesAgain`,
  `MarksAreServed`, `StopReturns` - is out of the prover's reach.
* That a record of doubles ranks as the exact fractions of the model do is not
  shown at all (section 6).

`AnsweredAsDone` was once stated without the participant for whom a handler has
saved (`member`): who was told "saved" has an interval as he typed it. Planning its
proof showed that this is false with three interactions - add, clear and add again
by one member, one more than the run has - as the first handler's member is gone
while it still draws.

## 6. Not modelled

* Renderer and localization: no behaviour over time.
* A read that fails in `prepare`, before it has a row, which throws: the caller
  ends with `database_error` there, as after a failed write.
* Of the bot: wording, the PNG, the limits of Discord (2000 characters in a
  message, three seconds to answer), the characters of ids (`parse_id` yields an
  id or none, the latter an unknown control). In its runs the disk does not
  fail; that is explored in the service's runs. No command deletes or closes a
  calendar, so these do not happen to it either.
* Of the configuration: settings that nothing reads, and the path of the
  database.
* The optional thresholds of `rank_best_windows`, which no caller passes, and
  the rounding of its doubles (the model compares exact fractions).
* Titles, locales, display modes, event times, timestamps: no decision reads
  them. `calendar_moderators` and `reminder_jobs`: no code uses them.

## 7. Plan

1. Done: all modules; the repository, the render queue, the start, the service
   with its book, all three algorithms, the parsers and the bot are proved about;
   every safety property has its theorem.

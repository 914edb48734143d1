----------------------------- MODULE MCService -----------------------------
(***************************************************************************)
(* Instances of ScheduleService for TLC: one channel, a calendar of August *)
(* 2026 with two slots a day, and workloads that each aim at one question. *)
(***************************************************************************)
EXTENDS ServiceProperties, TLC

CONSTANTS t1, t2, owner, guest, ch1

MCGuildOf == (ch1 :> "g1")

Aug(d) == [year |-> 2026, month |-> 8, day |-> d]
Evening == [start |-> 1080, end |-> 1140]
Night   == [start |-> 1110, end |-> 1170] \* not aligned to the slots

Config(modes) ==
    [month |-> [year |-> 2026, month |-> 8], timezone |-> "UTC",
     start_minute |-> 1080, end_minute |-> 1200, slot_minutes |-> 60,
     week_start |-> "monday", modes |-> modes]
OpenConfig == Config({"anonymous", "alias"})
BadConfig  == [OpenConfig EXCEPT !.end_minute = 1230]

Anonymous == [mode |-> "anonymous", alias |-> NULL, name |-> "Alpha"]
Alias1 == [text |-> "Ann", key |-> "ann", length |-> 3]
Alias2 == [text |-> "ANN", key |-> "ann", length |-> 3]
Masked1 == [mode |-> "alias", alias |-> Alias1, name |-> NULL]
Masked2 == [mode |-> "alias", alias |-> Alias2, name |-> NULL]
Unmasked == [mode |-> "alias", alias |-> NULL, name |-> NULL]

MCConfigs    == {OpenConfig, BadConfig}
MCDates      == {Aug(3), Aug(4), [Aug(1) EXCEPT !.month = 9]}
MCSpans      == {Evening, Night}
MCIdentities == {Anonymous, Masked1, Masked2, Unmasked}

-----------------------------------------------------------------------------
Create(u) == [op |-> "create", user |-> u, channel |-> ch1, title |-> 8,
              description |-> 0, config |-> OpenConfig]
Add(c, u, identity, dates) ==
    [op |-> "add", calendar |-> c, user |-> u, identity |-> identity,
     dates |-> dates, span |-> Evening]
Of(op, c, u) == [op |-> op, calendar |-> c, user |-> u]
View(op, c)  == [op |-> op, calendar |-> c]
SetState(c, u, state) == [op |-> "state", calendar |-> c, user |-> u, state |-> state]
Day(c, u)    == [op |-> "day", calendar |-> c, user |-> u, date |-> Aug(3)]
Week(c)      == [op |-> "heatmap", calendar |-> c, week |-> 1]
Post(c)      == [op |-> "set_message", calendar |-> c,
                 message |-> [guild |-> "g1", channel |-> ch1, message |-> 100 + c,
                              week |-> 0]]

\* Two members add, clear and look at their data while the calendar goes.
Members ==
    {Create(owner), Of("delete", 1, owner)}
    \cup {Add(1, owner, Anonymous, {Aug(3), Aug(4)}), Add(1, guest, Anonymous, {Aug(3)})}
    \cup {Of(op, 1, u) : op \in {"clear", "mine"}, u \in Users}

\* Members come and go in a calendar that its owner closes and deletes, others
\* try to manage it, and somebody looks at a second one.
Anybody ==
    {Create(guest), SetState(1, owner, "closed"), Day(1, guest)}
    \cup {Add(1, owner, Anonymous, {Aug(3), Aug(4)}), Add(1, guest, Anonymous, {Aug(3)})}
    \cup {Of("delete", 1, u) : u \in Users}
    \cup {Of(op, 1, guest) : op \in {"clear", "mine"}}
    \cup {Day(2, guest), Week(2), Post(2)} \cup {View(op, 2) : op \in {"message", "view", "public"}}

\* The database that an earlier process left: a calendar with nobody in it, or
\* two with the guest in both and two intervals led astray: each stored by a call
\* whose upsert was lost just before the guest's upsert drew the same id, while what
\* the guest's own calls were to store failed.
LeftEmpty ==
    /\ calendars = [c \in {1} |-> Row(Create(owner))]
    /\ seq = [table \in Tables |-> IF table = "calendars" THEN 1 ELSE 0]
    /\ participants = << >> /\ intervals = << >>
    /\ writes = 0

LeftAstray ==
    /\ calendars = [c \in {1, 2} |->
            [Row(Create(IF c = 1 THEN owner ELSE guest)) EXCEPT !.revision = 2]]
    /\ seq = [table \in Tables |-> IF table = "events" THEN 0 ELSE 2]
    /\ participants = [p \in {1, 2} |->
            [calendar |-> p, user |-> guest, identity |-> Anonymous]]
    /\ intervals = [i \in {1, 2} |->
            [calendar |-> 3 - i, participant |-> i, date |-> Aug(3), span |-> Evening]]
    /\ writes = MaxWrites - 1

LeftInit ==
    /\ LeftEmpty \/ LeftAstray
    /\ guilds = {MCGuildOf[ch1]}
    /\ channels = MCGuildOf
    /\ messages = << >> /\ events = << >> /\ attendance = << >>
    /\ calendar_cache_ = << >>
    /\ call = [t \in Threads |-> Idle]

LeftSpec == LeftInit /\ [][Next]_vars

\* Two calendars of different creators; both users try to manage both.
Owners ==
    {Create(u) : u \in Users}
    \cup {SetState(c, owner, "closed") : c \in {1, 2}}
    \cup {Of("delete", 1, u) : u \in Users}
    \cup {Day(1, u) : u \in Users}
    \cup {Add(1, guest, Anonymous, {Aug(3)})}

\* Every operation, with arguments that pass and arguments that do not.
Everything ==
    {Create(owner),
     [Create(owner) EXCEPT !.title = 0],
     [Create(owner) EXCEPT !.config = BadConfig],
     Add(1, guest, Masked1, {Aug(3), Aug(4)}),
     Add(1, owner, Masked2, {Aug(3)}),
     Add(1, guest, Unmasked, {Aug(3)}),
     Add(1, guest, Anonymous, {}),
     Add(1, guest, Anonymous, {[Aug(1) EXCEPT !.month = 9]}),
     [Add(1, guest, Anonymous, {Aug(3)}) EXCEPT !.span = Night],
     SetState(1, owner, "closed"), SetState(1, owner, "open"),
     SetState(1, guest, "closed"),
     Of("clear", 1, guest), Of("mine", 1, guest), Of("delete", 1, owner),
     Day(1, owner), Day(1, guest), Week(1), [Week(1) EXCEPT !.week = 6],
     Post(1), View("message", 1), View("view", 1), View("public", 1)}

\* A heatmap while members come and go.
Heatmaps ==
    {Create(owner), Week(1), Of("clear", 1, guest)}
    \cup {Add(1, u, Anonymous, {Aug(3)}) : u \in Users}

Symmetry == Permutations(Threads)
=============================================================================

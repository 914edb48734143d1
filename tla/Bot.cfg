SPECIFICATION FairBotSpec
CONSTANTS
    t1 = t1
    t2 = t2
    owner = owner
    guest = guest
    ch1 = ch1
    NULL = NULL
    Users = {owner, guest}
    Channels = {ch1}
    GuildOf <- MCGuildOf
    Configs <- MCConfigs
    Dates <- MCDates
    Spans <- MCSpans
    Identities <- MCIdentities
    MessageIds = {101, 102, 103}
    Weeks = {0, 1, 2, 3, 4, 5}
    Durations = {}
    MaxRowId = 3
    MaxRevision = 9
    Threads = {t1, t2}
    Requests = {}
    MaxWrites = 0
    DiskMayFail = FALSE
    MayCrash = TRUE
    Interactions <- Everything
    MaxInteractions = 2
    DiscordMayFail = TRUE
    LeftAt <- EndsOfMonth
INVARIANTS BotTypeOK ReferenceFindsItsMessage AnsweredAsDone AnsweredChangeIsShown OnlyNavigationMovesTheWeek
PROPERTIES EveryInteractionEnds

SPECIFICATION BoundedSpec
CONSTANTS
    u1 = u1
    ch1 = ch1
    NULL = NULL
    Users = {u1}
    Channels = {ch1}
    GuildOf <- MCGuildOf
    Configs <- MCConfigs
    Dates <- MCDates
    Spans <- MCSpans
    Identities <- MCAnonymous
    MessageIds = {101}
    Weeks = {0}
    Durations = {0, 60}
    MaxRowId = 2
    MaxRevision = 2
INVARIANTS RepoTypeOK ReferentialIntegrity CalendarsPlaced
PROPERTIES IdsKeepTheirMeaning EventsSurvive

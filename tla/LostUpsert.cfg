SPECIFICATION Spec
CONSTANTS
    t1 = t1
    t2 = t2
    owner = owner
    guest = guest
    ch1 = ch1
    NULL = NULL
    Users = {owner, guest}
    Channels = {ch1}
    GuildOf <- MCGuildOf
    Configs <- MCConfigs
    Dates <- MCDates
    Spans <- MCSpans
    Identities <- MCIdentities
    MessageIds = {101}
    Weeks = {0, 1}
    Durations = {}
    MaxRowId = 3
    MaxRevision = 9
    Threads = {t1, t2}
    Requests <- Members
    MaxWrites = 3
    DiskMayFail = TRUE
    MayCrash = FALSE
SYMMETRY Symmetry
PROPERTIES OnlyForTheCaller

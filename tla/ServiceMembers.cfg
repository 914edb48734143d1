SPECIFICATION LeftSpec
CONSTANTS
    t1 = t1
    t2 = t2
    owner = owner
    guest = guest
    ch1 = ch1
    NULL = NULL
    Users = {owner, guest}
    Channels = {ch1}
    GuildOf <- MCGuildOf
    Configs <- MCConfigs
    Dates <- MCDates
    Spans <- MCSpans
    Identities <- MCIdentities
    MessageIds = {101, 102}
    Weeks = {0, 1}
    Durations = {}
    MaxRowId = 3
    MaxRevision = 9
    Threads = {t1, t2}
    Requests <- Anybody
    MaxWrites = 3
    DiskMayFail = TRUE
    MayCrash = TRUE
SYMMETRY Symmetry
INVARIANTS CallsKnowTheirMember SavedMeansStored CopiesAreOldRows
PROPERTIES OnlyAsWritten OnlyRemovedByRight MineIsMine OnlyOwnersManage ImplementsBook

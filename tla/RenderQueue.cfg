SPECIFICATION FairSpec
CONSTANTS
    Ids = {1, 2}
    NoId = 0
    debounce_ = 2
    MaxRevision = 3
    MaxTime = 7
INVARIANTS TypeOK SelectedStays NewestIsKept
PROPERTIES HandedGrows MarksAreServed StopReturns
CHECK_DEADLOCK FALSE

SPECIFICATION Spec
CONSTANTS
    Ids = {1, 2}
    NoId = 0
    debounce_ = 2
    MaxRevision = 3
    MaxTime = 7
PROPERTIES DeadlineRespected
CHECK_DEADLOCK FALSE

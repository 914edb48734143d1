SPECIFICATION MCSpec
CONSTANTS
    Years = {2023, 2024, 2025, 2026, 2027, 2028, 2099, 2100, 2101}
    Members = {9, 10}
    Config <- MCConfig
    Offered <- MCOffered
    WeekDates <- MCWeekDates
    FirstDate <- MCFirst
    LastDate <- MCLast
    MaxIntervals = 3
    Lengths = {30, 60, 90, 150}
    Limits = {0, 2}
INVARIANTS WeeksTileTheMonth TakenAsTyped CellsCountWholeSlots FirstIsBest DistinctAndMaximal
CHECK_DEADLOCK FALSE

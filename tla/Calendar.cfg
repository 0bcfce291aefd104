SPECIFICATION Spec
CONSTANTS
    ResetDays <- AllDays
    FirstYear = 2023
    LastYear = 2025
INVARIANT PeriodIsSinceLastReset
CHECK_DEADLOCK FALSE

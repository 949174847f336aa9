SPECIFICATION Spec
CONSTANTS
    HourMinutes = 2
    DayHours = 4
    WeekDays = 3
    MonthsPerYear = 2
    MonthDays <- Months
    Specs <- DailySpec
    Zones <- ZonesWest
    MaxIterations = 111
    MaxNow = 104
    MaxLate = 1
INVARIANTS
    StopsOnlyIfNever
CHECK_DEADLOCK FALSE

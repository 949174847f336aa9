SPECIFICATION Spec
CONSTANTS
    HourMinutes = 2
    DayHours = 4
    WeekDays = 3
    MonthsPerYear = 2
    MonthDays <- Months
    Specs <- CronSpecs
    Zones <- ZonesChecked
    MaxIterations = 111
    MaxNow = 104
    MaxLate = 1
INVARIANTS
    TypeOK
    NothingSkipped
    StopsOnlyIfNever
PROPERTIES
    RestartsOnSchedule
CHECK_DEADLOCK FALSE

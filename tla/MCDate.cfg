CONSTANTS
  FirstTm <- MCFirstTm
  LastYear = 2500

SPECIFICATION CalendarSpec

\* The calendar ends with LastYear.
CHECK_DEADLOCK FALSE

INVARIANT
  DateIsTm

PROPERTY
  ConsecutiveDays

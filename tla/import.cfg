SPECIFICATION Spec
CONSTANTS
  a = a
  b = b
  Cells = {a, b}
  Days <- MCDays
  NoCell = NoCell
  BlockSize = 2
  YearOf <- MCYearOf
  Absent = Absent
  Torn = Torn
  Inputs <- MCInputs
  Later <- MCLater
INVARIANTS
  DeletionsCountedInPlace
  CacheIsTheHistory
  NeverAWrongCell
  WayCountsAsDocumented
  NothingIsLost
PROPERTY ImportIsExact
\* The processes that may be started are bounded.
CHECK_DEADLOCK FALSE

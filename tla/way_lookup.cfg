SPECIFICATION Spec
CONSTANTS
  a = a
  b = b
  Cells = {a, b}
  Days <- MCDays
  NoCell = NoCell
  BlockSize = 2
  YearOf <- MCYearOf
  Absent = Absent
  Torn = Torn
  Inputs <- MCLookup
  Later <- MCLater
INVARIANT LookupIsLastRecord
CHECK_DEADLOCK FALSE

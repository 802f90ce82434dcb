SPECIFICATION Spec
CONSTANTS
  Absent = Absent
  BlockSize = 2
  Span = 2
  DayMinutes = 3
  HourEdits = 2
  FarMeters = 2
  SpreadEdits = 2
  SpreadCells = 2
  SpreadArea = 2
  CellArea = 1
  CoverEdits = 2
  CoverTenths = 9
  Streams <- MCStreams
  TopTags <- MCTopTags
  Caps <- MCCaps
  LowRanking = 5
  Country <- MCCountry
  FlushRows = 2
  MaxCrashes = 1
INVARIANTS
  WindowsAreTheHour
  StoresAreTheStream
  FlagsAreTheFilters
  CountsCoverStream
  RankingRespectsTotals
  FilesAgree
PROPERTIES
  FlagsOnlyGrow
  FrozenColumns

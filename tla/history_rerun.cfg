SPECIFICATION Spec
CONSTANTS
  MaxSeq = 3
  Years = {"y1", "y2"}
  Touches <- MCTouches
  Feeds <- MCFeeds
  Times <- MCTimes
  StateTime <- MCStateTime
  BatchSpan = 2
  Caps = {0}
  Published0 = 3
  StaleMirror = FALSE
  TornFiles = FALSE
  MaxCrashes = 1
  MaxFailures = 0
INVARIANT
  HistoryFoldsOnce

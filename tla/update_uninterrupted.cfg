SPECIFICATION Spec
CONSTANTS
  MaxSeq = 3
  Years = {"y1", "y2"}
  Touches <- MCTouches
  Feeds <- MCFeeds
  Times <- MCTimes
  StateTime <- MCStateTime
  BatchSpan = 2
  Caps = {0, 1, 2}
  Published0 = 1
  StaleMirror = FALSE
  TornFiles = FALSE
  MaxCrashes = 0
  MaxFailures = 2
INVARIANTS
  AtRestIsExactPrefix
  TimestampCoversDiffs
PROPERTIES
  ImplementsExactlyOnce

SPECIFICATION FairSpec
CONSTANTS
  MaxSeq = 3
  Years = {"y1", "y2"}
  Touches <- MCTouches
  Feeds <- MCFeeds
  Times <- MCTimes
  StateTime <- MCStateTime
  BatchSpan = 2
  Caps = {0, 1}
  Published0 = 1
  StaleMirror = FALSE
  TornFiles = TRUE
  MaxCrashes = 2
  MaxFailures = 1
INVARIANTS
  TypeOK
  CommittedIsDurable
  StampsDelimitContent
  FarMovesSurvive
  MergeConsumesStaging
PROPERTIES
  ImplementsAtLeastOnce
  CatchesUp
CHECK_DEADLOCK FALSE

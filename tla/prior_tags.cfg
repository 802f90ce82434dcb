SPECIFICATION Spec
CONSTANTS
  NoEvent = NoEvent
  Absent = Absent
  Objects = {1, 2}
  Tags <- MCTags
  LengthLimit = 4
  MaxCrashes = 0
  Streams <- MCCopied
INVARIANT PriorTagsAreKnown
\* The versions end.
CHECK_DEADLOCK FALSE

SPECIFICATION Spec
CONSTANTS
  NoEvent = NoEvent
  Absent = Absent
  Objects = {1, 2}
  Tags <- MCTags
  LengthLimit = 4
  MaxCrashes = 1
  Streams <- MCStreams
INVARIANTS
  
  
  NoEventWithoutChange
  RenamesAreNoTypos
\* The versions end.
CHECK_DEADLOCK FALSE

\* Runs, crashes, compactions and a re-import over three nodes.
SPECIFICATION Spec
CONSTANTS
  n1 = n1
  n2 = n2
  n3 = n3
  a = a
  b = b
  c = c
  Nodes = {n1, n2, n3}
  Cells = {a, b, c}
  NoCell = NoCell
  Unread = Unread
  Stream <- MCStream
  Ends <- MCEnds
  CompactShare = 1
  MaxImports = 1
  PrepareCrashes = FALSE
INVARIANTS
  TypeOK
  SidecarIsUnambiguous
  MemoIsOfBase
  CacheHoldsCommitted
  PostIsTheStream
PROPERTIES
  PriorCellIsLastKnown
  ImplementsNodeMap
\* The stream is finite: once it is applied, the system stops.
CHECK_DEADLOCK FALSE

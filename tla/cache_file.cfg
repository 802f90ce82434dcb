\* Every file of up to six records with every set of refs to resolve, and with
\* every overlay and set of deletions to rebuild it.
SPECIFICATION Spec
CONSTANTS
  Ids <- MCIds
  BlockSize = 2
INVARIANTS
  SweepAnswersLookup
  RebuildIsThePostView
\* A sweep and a rebuild end.
CHECK_DEADLOCK FALSE

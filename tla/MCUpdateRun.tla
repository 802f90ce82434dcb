---------------------------- MODULE MCUpdateRun ----------------------------
(***************************************************************************)
(* Small instances of UpdateRun: three diffs over two years.  Diff 1 and 2 *)
(* lie two seconds apart and diff 3 three seconds after diff 2, so that    *)
(* with a span of 2 a batch ends at diff 2 or wherever a run ends.         *)
(***************************************************************************)
EXTENDS UpdateRunInvariants

MCTouches ==
  [d \in Seqs |->
     CASE d = 1 -> {<<"y1", "nodes">>, <<"y1", "ways">>}
       [] d = 2 -> {<<"y1", "nodes">>, <<"y2", "ways">>}
       [] d = 3 -> {<<"y2", "nodes">>, <<"y2", "ways">>}
       [] OTHER -> {}]

MCFeeds ==
  [d \in Seqs |->
     CASE d = 1 -> {"history", "counts", "cells", "tags", "moves"}
       [] d = 2 -> {"history", "counts", "tags", "langs"}
       [] d = 3 -> {"history", "counts", "cells", "moves"}
       [] OTHER -> {}]

MCTimes == [d \in Seqs |-> CASE d = 1 -> {10} [] d = 2 -> {11, 12} [] OTHER -> {15}]

MCStateTime == [n \in 0..MaxSeq |-> CASE n = 0 -> 9 [] n = 1 -> 10 [] n = 2 -> 12 [] OTHER -> 15]

\* The instance meets the hypothesis of TimestampCoversDiffsTheorem.
ASSUME MCTimesAssumption == TimesInOrder
=============================================================================

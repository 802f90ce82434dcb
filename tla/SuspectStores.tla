--------------------------- MODULE SuspectStores ---------------------------
(***************************************************************************)
(* The persisted bucket stores of the suspect filters (suspect_store,       *)
(* suspect_cell_store, suspect_tag_store, suspect_lang_store: one format,   *)
(* four record types). A store is a header stamped with the last diff folded*)
(* and blocks of at most BlockSize records in key order; a key is a tuple   *)
(* of numbers: <<uid, minute>>, <<uid, minute, cell>>, <<uid, minute, tag>>,*)
(* <<uid, day, language>>. A writer fills path.tmp and renames it, so a     *)
(* store is absent or whole.                                                *)
(***************************************************************************)
EXTENDS Integers, Sequences, FiniteSets, FiniteSetsExt, SequencesExt

CONSTANTS
  Absent,    \* no file under the name
  BlockSize  \* kRecordsPerBlock

ASSUME BlockSizeIsPositive == BlockSize \in Nat \ {0}

\* A file's records, and what a file holds that is there.
StoreRecords == [key : Seq(Int), count : Nat]
StoreFiles == [seq : Nat, size : Nat, blocks : Seq(Seq(StoreRecords))]

ASSUME AbsentIsNoStore == Absent \notin StoreFiles

\* The order of the records, a std::map's order of their keys.
Before(k, l) ==
  \E i \in 1..Len(k) : k[i] < l[i] /\ \A j \in 1..i-1 : k[j] = l[j]

\* A set's elements by rank: what iterating over the map gives.
InOrder(S, Less(_, _)) ==
  [i \in 1..Cardinality(S) |-> CHOOSE x \in S : Cardinality({y \in S : Less(y, x)}) = i - 1]

\* The elements of a sequence at the positions of a set.
At(s, positions) ==
  LET taken[n \in 0..Len(s)] ==
        IF n = 0 THEN <<>>
        ELSE IF n \in positions THEN Append(taken[n - 1], s[n]) ELSE taken[n - 1]
  IN  taken[Len(s)]

CountOf(counts, k) == IF k \in DOMAIN counts THEN counts[k] ELSE 0

-----------------------------------------------------------------------------
(* Writer *)

\* Blocks are cut every BlockSize records, finish() writes the partial last.
Written(counts, seq) ==
  LET keys == InOrder(DOMAIN counts, Before)
      last == (Len(keys) + BlockSize - 1) \div BlockSize
      cut(b) == SubSeq(keys, (b - 1) * BlockSize + 1, Min({b * BlockSize, Len(keys)}))
  IN  [seq |-> seq, size |-> Len(keys),
       blocks |-> [b \in 1..last |->
                     [j \in 1..Len(cut(b)) |-> [key |-> cut(b)[j], count |-> counts[cut(b)[j]]]]]]

-----------------------------------------------------------------------------
(* Reader *)

\* The records are numbered from 0; the block is found by division.
RecordAt(store, i) == store.blocks[i \div BlockSize + 1][(i % BlockSize) + 1]

\* What the block count of the header must be, or the reader throws.
Readable(store) == Len(store.blocks) = (store.size + BlockSize - 1) \div BlockSize

\* The records in file order: every reader walks 0..size-1.
Records(store) ==
  IF store = Absent THEN <<>> ELSE [i \in 1..store.size |-> RecordAt(store, i - 1)]

Contents(store) ==
  LET records == Records(store)
  IN  [k \in {records[i].key : i \in DOMAIN records} |->
         (CHOOSE r \in {records[i] : i \in DOMAIN records} : r.key = k).count]

\* 0 when there is no store.
AppliedSeqOf(store) == IF store = Absent THEN 0 ELSE store.seq

=============================================================================

------------------------ MODULE NodeStateProperties ------------------------
(***************************************************************************)
(* What the update and its passes rely on in the node state.               *)
(***************************************************************************)
EXTENDS NodeState

\* Every variable of the node state has its type.
TypeOK ==
  /\ committed \in Ends
  /\ history \in Ends \cup {NoHistory}
  /\ base \in [Nodes -> Cell0]
  /\ delta \in [modified : [Nodes -> Cell0], deleted : SUBSET Nodes]
  /\ overlay \in [Nodes -> Cell0]
  /\ deleted \in SUBSET Nodes
  /\ memo \in [Nodes -> Cell0 \cup {Unread}]
  /\ pc \in {"idle", "history", "sidecar", "nodes", "ways", "batch",
             "manifest", "rebuild", "drop"}
  /\ at \in 0..Last
  /\ batch \in [first : 0..Last, last : Ends \cup {0}]
  /\ counted \in Cell0
  /\ snapshot \in Ends
  /\ high \in Ends
  /\ imports \in 0..MaxImports

-----------------------------------------------------------------------------
\* The positions as of a place in the stream, for a dataset imported at
\* `snapshot`: later edits over the collapsed history.
AsOf(place) == Replay(Collapsed(snapshot), snapshot, place)

\* The positions on disk, as the next run would load them.  Between an import
\* and the end of prepare-update they are the imported ones.
Prepared == history = NoHistory /\ pc # "sidecar"
DiskView == IF Prepared THEN ViewOf(base, delta) ELSE Collapsed(snapshot)

\* A run is in memory, and no sidecar is ahead of the manifest.
Running == pc \in {"nodes", "ways", "batch"}
InStep == high = committed

\* A sidecar never both places and deletes a node: its writer requires it
\* (node_delta.hpp) and the order in which its two lists are read relies on it.
SidecarIsUnambiguous ==
  \A n \in Nodes : /\ n \in delta.deleted => delta.modified[n] = NoCell
                   /\ n \in deleted => overlay[n] = NoCell

\* A memoized base cell, absence included, is the one in the base file, however
\* the overlay and the deletions have changed since (base_memo_).
MemoIsOfBase ==
  pc # "drop" => \A n \in Nodes : memo[n] \in {Unread, base[n]}

\* The cache is never behind the manifest: whatever was interrupted, a node's
\* position on disk is the one at some place between the manifest's and the
\* furthest one a run recorded, and exactly the manifest's when they coincide
\* (persist before manifest before compaction).
CacheHoldsCommitted ==
  \A n \in Nodes : \E place \in committed..high : DiskView[n] = AsOf(place)[n]

\* The post view, which visible ways are counted at, is the stream's up to the
\* edits folded in, across batches, runs and compactions, unless an
\* interrupted run had recorded more than the manifest says.
PostIsTheStream ==
  Running /\ InStep => \A n \in Nodes : Post(n) = AsOf(at)[n]

\* A deletion is counted, and a modification compared for a far move, at the
\* position the node had just before that edit (NodeUpdateHandler::node).
PriorCellIsLastKnown ==
  [][\A n \in Nodes :
       /\ InStep
       /\ SetPosition \/ RemoveNode
       /\ Stream[at + 1].node = n
       /\ ~Stream[at + 1].fresh
       /\ AsOf(at)[n] # NoCell
       => counted' = AsOf(at)[n]]_vars

\* "Pre-update view for deleted ways (overlay else base = their last known
\* geometry)" (HOW_IT_WORKS.md): the nodes that a batch deletes, and does nothing
\* else to, answer the way pass with the position they had before the batch.
DeletedNodesKeepLastCell ==
  pc = "ways" /\ InStep =>
    \A n \in Nodes : \A i \in (batch.first + 1)..at :
      /\ EditsOf(n, batch.first, at) = {i} /\ Stream[i].cell = NoCell
      /\ AsOf(batch.first)[n] # NoCell
      => Pre(n) = AsOf(batch.first)[n]

\* The files and the manifest implement the map of positions: a run's edits
\* become durable at once, and crashes, compactions and reloads do not show.
Map == INSTANCE NodeMap WITH view <- DiskView
ImplementsNodeMap == Map!Spec
=============================================================================

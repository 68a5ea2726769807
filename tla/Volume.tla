------------------------------- MODULE Volume -------------------------------
(***************************************************************************)
(* What every file system reader speaks (rc-fs entry.rs): extents, where a *)
(* file's bytes are, entries and their paths, and the one mapping from     *)
(* cluster numbers to bytes of the device.                                 *)
(***************************************************************************)
EXTENDS Media, SequencesExt, FiniteSetsExt

CONSTANTS MaxDepth,        \* MAX_DEPTH of the directories walked
          MaxDirClusters   \* MAX_DIR_CLUSTERS of a chain

Extent(start, count) == [start |-> start, count |-> count, sparse |-> FALSE]
Sparse(count)        == [start |-> 0, count |-> count, sparse |-> TRUE]

Resident         == [where |-> "resident"]
Runs(extents)    == [where |-> "runs", extents |-> extents]
FirstOnly(c)     == [where |-> "first", cluster |-> c]
Unknown          == [where |-> "unknown"]

\* is_exact: known, not assumed.
IsExact(location) == location.where \in {"resident", "runs"}

\* The clusters of a list of extents, in order; a hole stands as 0.
ClustersOf(extents) ==
  FlattenSeq([i \in DOMAIN extents |->
    [k \in 1 .. extents[i].count |->
       IF extents[i].sparse THEN 0 ELSE extents[i].start + k - 1]])

\* Geometry: cluster first is at heap, and count of them have storage.
ClusterOffset(g, c) ==
  IF c < g.first \/ c - g.first >= g.count \/ g.bytes = 0
    THEN None ELSE (c - g.first) * g.bytes + g.heap

ClusterAt(g, offset) ==
  IF g.bytes = 0 \/ offset < g.heap \/ (offset - g.heap) \div g.bytes >= g.count
    THEN None ELSE (offset - g.heap) \div g.bytes + g.first

\* runs_from_clusters: neighbours are one extent.
RunsFromClusters(clusters) ==
  FoldLeft(LAMBDA runs, c :
    IF runs # <<>> /\ Last(runs).start + Last(runs).count = c
      THEN [runs EXCEPT ![Len(runs)].count = @ + 1]
      ELSE Append(runs, Extent(c, 1)),
    <<>>, clusters)

-----------------------------------------------------------------------------
(* Properties                                                              *)

\* Reading a file by its clusters and asking which cluster holds a byte are one
\* mapping: every byte of every cluster with storage belongs to that cluster, and
\* no other byte to any.  Scoring marks occupied clusters by the one and reads
\* candidates by the other.
GeometryIsOneMapping(g, offsets) ==
  /\ \A c \in g.first .. g.first + g.count - 1 : \A i \in 0 .. g.bytes - 1 :
       ClusterAt(g, ClusterOffset(g, c) + i) = c
  /\ \A o \in offsets :
       ClusterAt(g, o) # None =>
         ClusterOffset(g, ClusterAt(g, o)) \in o - g.bytes + 1 .. o
=============================================================================

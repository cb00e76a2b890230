\* One writer that may crash, a peer whose push and pull handlers overlap, losses.
\* The cluster is at rest once the edits and sequence numbers are used up.
SPECIFICATION Spec
CHECK_DEADLOCK FALSE
CONSTANTS
  Node <- Pair
  Slot = {s1, s2}
  Serial = {1}
  Writer = {1}
  Operator = {}
  Peers <- EachOther
  Pulling = {2}
  ReplicaOnly = {}
  Policy <- PerNode
  AllowedWriters = {}
  Crashing = {1}
  Lossy = TRUE
  SaveMayFail = FALSE
  MaxWrites = 2
  MaxSeq = 2
  MaxNet = 2
  MaxTime = 1
INVARIANT TypeOK
INVARIANT SeqIssued
 
SYMMETRY SlotSymmetry

\* One writer with overlapping edits and pushes, one peer that pulls and crashes, losses.
SPECIFICATION Spec
CHECK_DEADLOCK FALSE
CONSTANTS
  Node <- Pair
  Slot = {s1, s2}
  Serial = {2}
  Writer = {1}
  Operator = {}
  Peers <- EachOther
  Pulling = {2}
  ReplicaOnly = {}
  Policy <- PerNode
  AllowedWriters = {}
  Crashing = {2}
  Lossy = TRUE
  SaveMayFail = FALSE
  MaxWrites = 2
  MaxSeq = 2
  MaxNet = 2
  MaxTime = 1
INVARIANT AckedIsDurable
 
 
SYMMETRY SlotSymmetry

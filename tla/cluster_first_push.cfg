\* The peer pulls before the first edit of the writer.
SPECIFICATION Spec
CHECK_DEADLOCK FALSE
CONSTANTS
  Node <- Pair
  Slot = {s1}
  Serial = {1, 2}
  Writer = {1}
  Operator = {}
  Peers <- EachOther
  Pulling = {2}
  ReplicaOnly = {}
  Policy <- PerNode
  AllowedWriters = {}
  Crashing = {}
  Lossy = FALSE
  SaveMayFail = FALSE
  MaxWrites = 1
  MaxSeq = 2
  MaxNet = 2
  MaxTime = 1
INVARIANT FirstPushArrives

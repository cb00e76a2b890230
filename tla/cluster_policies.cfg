\* Nodes 1 and 2 under primary_writer with node 1 as the primary, node 3 under global_lww.
\* Node 2 is edited all the same, node 3 has an operator who pushes. Saves may fail.
SPECIFICATION Spec
CHECK_DEADLOCK FALSE
CONSTANTS
  Node <- Triple
  Slot = {s1}
  Serial = {1, 2, 3}
  Writer = {1, 2}
  Operator = {3}
  Peers <- AllOthers
  Pulling = {}
  ReplicaOnly = {}
  Policy <- TwoPolicies
  AllowedWriters = {1}
  Crashing = {2, 3}
  Lossy = FALSE
  SaveMayFail = TRUE
  MaxWrites = 2
  MaxSeq = 1
  MaxNet = 2
  MaxTime = 2
INVARIANT PrimaryWriterOnly
 

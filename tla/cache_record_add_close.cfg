\* "record add", then the process is stopped.
SPECIFICATION FairSpec
CHECK_DEADLOCK FALSE
CONSTANTS
  Key = {k1, k2}
  Goroutine = {g1, g2}
  Ops = {"recordAdd"}
  FirstRows = {k1}
  Stopping = TRUE
  MaxOps = 1
  MaxInit = 2
PROPERTY CloseFinishes

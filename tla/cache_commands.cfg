\* One goroutine performs every operation next to the workers; "record add" replaces
\* the channel and adds a worker.
SPECIFICATION FairSpec
CHECK_DEADLOCK FALSE
CONSTANTS
  Key = {k1, k2}
  Goroutine = {g1}
  Ops <- AllOps
  FirstRows = {k1}
  Stopping = FALSE
  MaxOps = 4
  MaxInit = 2
 
PROPERTY SignalsReceived

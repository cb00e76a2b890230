\* Two goroutines answer, clear and compact while the worker saves; the process may stop.
\* It ends with Close, with a panic, or rests when the operations are used up.
SPECIFICATION FairSpec
CHECK_DEADLOCK FALSE
CONSTANTS
  Key = {k1, k2}
  Goroutine = {g1, g2}
  Ops <- Persisted
  FirstRows = {k1}
  Stopping = TRUE
  MaxOps = 3
  MaxInit = 1
INVARIANT TypeOK
INVARIANT PersistPending
 
INVARIANT FlushedOnClose
PROPERTY CloseFinishes
PROPERTY FileCatchesUp

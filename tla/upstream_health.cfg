\* A server of any kind and one for all names, with probes, queries, answers, failures and
\* a session that edits the list.
SPECIFICATION FairSpec
CONSTANTS
  Endpoint = {e1, e2}
  NoEndpoint = NoEndpoint
  e1 = e1
  e2 = e2
  Lists <- MixedLists
  NewRows <- AddSecond
  Editor = {g1}
  Fallback = e2
  Threshold = 2
  MaxFailures = 2
  MaxEdits = 1
INVARIANT TypeOK
INVARIANT WhitelistOnly
 
 
INVARIANT ExcludedAfterStreak
PROPERTY ActiveComesBack

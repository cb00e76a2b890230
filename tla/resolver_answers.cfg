\* One question with every number of upstreams, which may be slow, and a record edit.
\* It rests when the question is answered.
SPECIFICATION FairSpec
CHECK_DEADLOCK FALSE
CONSTANTS
  Endpoint = {e1, e2}
  NoEndpoint = NoEndpoint
  e1 = e1
  e2 = e2
  Configs <- UpTo2
  Qtypes = {"A", "PTR", "MX"}
  Settings <- OffOrPlain
  Bogus = FALSE
  MayTimeOut = TRUE
  MaxQueries = 1
  MaxEdits = 1
PROPERTY AnsweredInTime

\* Two questions, two upstreams (or none) that may be slow or bogus, and a record edit.
\* It rests when the questions are used up.
SPECIFICATION Spec
CHECK_DEADLOCK FALSE
CONSTANTS
  Endpoint = {e1, e2}
  NoEndpoint = NoEndpoint
  e1 = e1
  e2 = e2
  Configs <- NoOr2
  Qtypes = {"A", "PTR"}
  Settings <- WithStrict
  Bogus = TRUE
  MayTimeOut = TRUE
  MaxQueries = 2
  MaxEdits = 1
INVARIANT TypeOK
INVARIANT Priority
INVARIANT SendersNeverBlock
INVARIANT NoneMeansNone
INVARIANT StrictRefusesBogus

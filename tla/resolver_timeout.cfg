\* One upstream that may be slower than the timeout.
SPECIFICATION FairSpec
CHECK_DEADLOCK FALSE
CONSTANTS
  Endpoint = {e1, e2}
  NoEndpoint = NoEndpoint
  e1 = e1
  e2 = e2
  Configs <- One
  Qtypes = {"A"}
  Settings <- Plain
  Bogus = FALSE
  MayTimeOut = TRUE
  MaxQueries = 1
  MaxEdits = 0
PROPERTY QuestionAnswered

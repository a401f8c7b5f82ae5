SPECIFICATION ClientsSpec
CONSTANTS
  None = None
  r1 = r1
  r2 = r2
  Req = {r1, r2}
  ChanCap = 1
  MaxFaults = 2
  MaxRetries = 1
  HeaderLen = 1
  QuestionLen = 2
  AnswerLen = 3
  RecvSize = 3
  q1 = q1
  Query = {q1}
  a = a
  b = b
  c = c
  Upstream = {a, b, c}
  Configs <- AllConfigs
INVARIANTS FreshConnection SomethingLeft DeferredIsLast
PROPERTIES HealthyConnectionsKept   QueriesEnd
CHECK_DEADLOCK FALSE

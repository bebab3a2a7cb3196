SPECIFICATION ServicesSpec
CONSTANTS
  p1 = p1
  p2 = p2
  bad = bad
  c1 = c1
  raw = raw
  g1 = g1
  g2 = g2
  w1 = w1
  Problems = {p1, p2}
  BadIds = {bad}
  Contents = {c1, raw}
  NoFormat = {raw}
  Callers = {g1, g2, w1}
  WebCallers = {w1}
  Denied = {g2}
  Batches <- MCBatches
  IdSets <- MCIdSets
  FlagArguments <- MCFlagArguments
  Parts = 2
  MaxRequests = 2
  NoProblem = NoProblem
  Torn = Torn
  NoCall = NoCall
  ProblemDirs <- MCProblemDirs
  GroupOrder <- MCGroupOrder
  NumericIds = {"1", "2"}
  MaxConversions = 3
  NoOverview = NoOverview
  NoGroup = NoGroup
  st = st
  res = res
  err = err
  torn = torn
  Answers = {st, res, err, torn}
  QueueOf <- MCQueueOf
  Invalid = {torn}
  MaxAnswers = 1
  MaxLosses = 2
  MaxSends = 2
  MaxReconnects = 2
  Nobody_ = Nobody_
  Queued = Queued
  Gone = Gone
  NotSent = NotSent
  Lost = Lost
INVARIANTS
  ServicesTypeOK
  AnswersAreTrue
  AnswersKept
  ProblemConverted
PROPERTIES
  RequestsAnswered
CHECK_DEADLOCK FALSE

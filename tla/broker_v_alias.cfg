CONSTANTS
  Workers = {w1, w2}
  Capacity = 2
  Tasks = {t1, t2}
  BadTasks = {}
  Resources = {r1}
  MaxConns = 2
  MaxFaults = 0
  NoRequest = NoRequest
  NoDelivery = NoDelivery
  Requests <- MCRequests
SPECIFICATION Spec
INVARIANTS
  ResultOnce
CHECK_DEADLOCK FALSE

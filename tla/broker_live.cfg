CONSTANTS
  Workers = {w1}
  Capacity = 1
  Tasks = {t1, t2}
  BadTasks = {}
  Resources = {r1}
  MaxConns = 2
  MaxFaults = 1
  NoRequest = NoRequest
  NoDelivery = NoDelivery
  Requests <- MCRequests
SPECIFICATION FairSpec
PROPERTIES
  SignalEnds
  Served
CHECK_DEADLOCK FALSE

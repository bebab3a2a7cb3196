CONSTANTS
  Workers = {w1}
  Capacity = 1
  Tasks = {t1, t2}
  BadTasks = {t2}
  Resources = {r1, r2}
  MaxConns = 2
  MaxFaults = 1
  NoRequest = NoRequest
  NoDelivery = NoDelivery
  Requests <- MCRequests
SPECIFICATION Spec
INVARIANTS
  TypeOK
  PanicOnlyWhenHalfSubscribed
  ShutdownInOrder
PROPERTIES
  ImplementsDelivery
CHECK_DEADLOCK FALSE

SPECIFICATION FairSpec
CONSTANTS
  p1 = p1
  p2 = p2
  c1 = c1
  c2 = c2
  broken = broken
  r1 = r1
  r2 = r2
  r3 = r3
  Problems = {p1, p2}
  Contents = {c1, c2, broken}
  Broken = {broken}
  Revisions = {r1, r2, r3}
  Hash <- MCHash
  Clients = {t1, t2}
  Executor = Executor
  Pollers = {}
  CustomFlag = CustomFlag
  FlagSets <- LockFlagSets
  FlagArgs <- LockArgs
  UnsetFlagArgs <- LockArgs
  MayFail = FALSE
  MayCrash = FALSE
  MaxCalls = 3
  NoData = NoData
  NoRevision = NoRevision
  NoResult = NoResult
  NoPackage = NoPackage
  Torn = Torn
  Stale = Stale
  NoThread = NoThread
CHECK_DEADLOCK FALSE
PROPERTIES
  PendingIsImported
  CallsReturn
  ImplementsFairTracking

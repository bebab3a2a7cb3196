SPECIFICATION PlatformSpec
CONSTANTS
  d1 = d1
  d2 = d2
  t1 = t1
  t2 = t2
  u1 = u1
  h1 = h1
  h2 = h2
  h3 = h3
  Processes = {d1, d2}
  Threads = {t1, t2, u1}
  ProcessOf <- MCProcessOf
  MaxMutexes = 2
  MaxCalls = 3
  NoMutex = NoMutex
  Nobody = Nobody
  Paths = {f1, f2}
  Guards = {h1, h2, h3}
  OwnerOf <- MCOwnerOf
  NoPath = NoPath
  Names = {n1, n2}
  Temps = {x1, x2}
  Tries = 2
  NoName = NoName
  Messages = {m1, m2, m3}
  Unwritable = {m3}
  MaxErrors = 1
  MaxBytes = 4
  MaxChunk = 2
  Spawners = {s1, s2}
  Contexts <- MCContexts
  MaxFd = 10
  MaxExecutes = 2
  SIGABRT = 6
  NoFile = NoFile
  NoContext = NoContext
  Workers = {w1, w2}
  Requests = {r1, r2}
  Capacity = 2
  NoRequest = NoRequest
  FileNames = {"cwd", "srv", "bin", "root", "src", "out", "tmp", "url", "void"}
  ToolTasks <- MCToolTasks
  Resolvers <- MCResolvers
  Installed = {"tar", "7z", "7za", "ninja", "meson", "curl", "wget"}
  Sources <- MCSources
  MaxTasks = 2
  Empty = "empty"
  Part = "part"
  NoTask = NoTask
  Components = {".", "..", "a", "b", "c", "x"}
  Configs <- MCConfigs
  Roots <- MCRoots
  NoConfig = NoConfig
  Easies = {e1, e2}
  Settable = {{"POSTFIELDS", "POSTFIELDSIZE"}, {"POSTFIELDSIZE"}}
  MaxHandles = 2
  MaxObjects = 4
  NoHandle = NoHandle
  Dead = Dead
  Transfers <- MCTransfers
  make_name <- MCmake_name
  MaxPerforms = 3
  NoStatus = NoStatus
  v1 = v1
  v2 = v2
  Units = {v1, v2}
  NameOf <- MCNameOf
  StateOf <- MCStateOf
  Starters = {a1, a2}
  MaxRegistries = 2
  MaxExecs = 1
  Unset_ = Unset_
  NoOne = NoOne
  NoRegistry = NoRegistry
INVARIANTS
  PlatformTypeOK
  ExclusiveUnlessStolen
  OwnedExactlyOnce
  ConnectionsKeepOrder
  ProgramsGetTheirFiles
  PoolIsOver
  BuiltWhereAsked
  ConfigsKept
  LifetimesKept
  HttpHeard
PROPERTIES
  WaitsEnd
  ConnectionsClose
CHECK_DEADLOCK FALSE

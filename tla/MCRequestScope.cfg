SPECIFICATION MCSpec
CONSTANTS
  s1 = s1
  s2 = s2
  alpha = alpha
  beta = beta
  add = add
  del = del
  readers = readers
  token = token
  key = key
  v1 = v1
  v2 = v2
  auth = auth
  T1 = T1
  S1 = S1
  S2 = S2
  ServerIds = {s1, s2}
  Names = {alpha, beta}
  Bares = {add, del}
  EmptyName = EmptyName
  GroupNames = {readers, EmptyName}
  Patterns <- MCPatterns
  NoServer = NoServer
  NoGroup = NoGroup
  MaxLimit = 2
  CandidateCap = 3
  Tasks = {T1}
  Sessions = {S1, S2}
  NoSession = NoSession
  Vars = {token}
  LiftedVars = {token}
  Secrets = {key}
  Values = {v1, v2}
  Unset = Unset
  Headers = {auth}
  Verbatim = Verbatim
  StaticHeaders <- MCStaticHeaders
  Requests <- MCRequests
  Registries <- MCRegistries
  Rankings <- MCRankings
  Limits = {0, 1, 9}
  MaxDepth = 3
  ConnectHooks = 1
INVARIANTS
  AgreesWithRegistry
  SearchFindsPermitted
  ScopesNest
  OwnVariables
PROPERTIES
  CallsAreGoverned
  ViewIsTheCallers
CHECK_DEADLOCK FALSE

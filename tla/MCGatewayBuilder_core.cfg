SPECIFICATION Spec
CONSTANTS
  s1 = s1
  s2 = s2
  alpha = alpha
  beta = beta
  add = add
  readers = readers
  T1 = T1
  T2 = T2
  ServerIds = {s1, s2}
  Names = {alpha, beta}
  Bares = {add}
  GroupNames = {readers}
  Patterns <- MCPatterns
  NoServer = NoServer
  NoGroup = NoGroup
  Tasks = {T1, T2}
  Startup = T1
  NoTask = NoTask
  StartupCatalog = "refresh"
  TaskOps = {"reload", "refresh_server"}
  ServerInputs <- MCServers
  GroupInputs <- MCGroups
  MaxWrites = 2
  MaxBoots = 1
SYMMETRY NoOneIsSpecial
INVARIANTS
  MountsAreCurrent
  ReloadSettles
  DegradedIsExact
PROPERTIES
  NeverGoesBack
  LastKnownKept

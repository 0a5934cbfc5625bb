SPECIFICATION LifespanSpec
CONSTANTS
  s1 = s1
  add = add
  alpha = alpha
  readers = readers
  T1 = T1
  T2 = T2
  ServerIds = {s1}
  Names = {alpha}
  Bares = {add}
  GroupNames = {readers}
  Patterns <- MCPatterns
  NoServer = NoServer
  NoGroup = NoGroup
  Tasks = {T1, T2}
  Startup = T1
  NoTask = NoTask
  StartupCatalog = "background"
  TaskOps = {"refresh_server", "reload"}
  ServerInputs <- MCGoverned
  GroupInputs <- MCGroups
  MaxWrites = 2
  MaxBoots = 2
  Plugins = 2
INVARIANTS
  ServedUnderPolicy
  WorkersHaveTheirStore
  NothingLeaks
  DependenciesOutlive
PROPERTIES
  OperationsEnd
  LifespanEnds

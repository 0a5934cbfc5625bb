SPECIFICATION FairSpec
CONSTANTS
  s1 = s1
  s2 = s2
  s3 = s3
  alpha = alpha
  beta = beta
  g1 = g1
  readers = readers
  P1 = P1
  P2 = P2
  Processes = {P1, P2}
  ServerIds = {s1, s2, s3}
  Names = {alpha, beta}
  GroupIds = {g1}
  GroupNames = {readers}
  Commands <- MCCommands
  FirstServers <- MCFirstServers
  Absent = Absent
  MaxRenames = 1
  MaxRestarts = 1
INVARIANTS
  ExitZeroIsLive
  RemovedIsGone
PROPERTY CommandsEnd
CHECK_DEADLOCK FALSE

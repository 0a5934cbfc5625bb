SPECIFICATION Spec
CONSTANTS
  A = A
  B = B
  G = G
  n = n
  m = m
  x = x
  y = y
  C1 = C1
  C2 = C2
  Clients = {C1, C2}
  ServerIds = {A, B}
  GroupIds = {G}
  Names = {n, m}
  ToolNames = {x, y}
  Requests <- MCRequests
  NoRequest = NoRequest
  NoClient = NoClient
  Builds = {"fts5"}
  Cancellable <- Anywhere
INVARIANT IndexMatchesCatalog

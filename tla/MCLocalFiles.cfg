SPECIFICATION Spec
CONSTANTS
  d1 = d1
  d2 = d2
  home = home
  proj = proj
  s1 = s1
  u1 = u1
  p1 = p1
  p2 = p2
  x = x
  y = y
  link = link
  Procs = {x, y}
  Cwds = {d1, d2}
  DefaultPath = home
  LocalConfig <- MCLocalConfig
  NoPath = NoPath
  Policies = {p1, p2}
  Absolute = Absolute
  Relative = Relative
  Unset = Unset
  Presets = {Unset}
  Written <- MCWritten
  DefaultConfig <- MCDefault
  Absent = Absent
  Partial = Partial
  Servers = {s1}
  Url <- MCUrl
  Sessions = {link}
  MaxStarts = 3
  MaxEdits = 1
SYMMETRY Symmetry
CHECK_DEADLOCK FALSE
INVARIANT RunsItsConfig
PROPERTY LoginReachesDaemon
PROPERTY LogoutHolds

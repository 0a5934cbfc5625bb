SPECIFICATION Spec
CONSTANTS
  Calls = {c1}
  Args = {a1, a2}
  NoArgs = NoArgs
  MaxHooks = 2
INVARIANTS
  ClearedBeforeUpstream
  SentAsShown
  AuditIsComplete

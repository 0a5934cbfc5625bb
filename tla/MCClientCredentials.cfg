SPECIFICATION MCSpec
CONSTANTS
  R1 = R1
  R2 = R2
  before = before
  after = after
  Requests = {R1, R2}
  Configs = {before, after}
  Lifetimes = {2}
  Untold = Untold
  Default = 1
  Skew = 1
  Timeout = 1
  NoRequest = NoRequest
  NoConfig = NoConfig
  MaxTime = 2
  MaxTokens = 2
  MaxProviders = 2
INVARIANTS
  CachedIsUnexpired
  OwnCredentials
  RetryIsNew
PROPERTIES
  CacheAdvances
  RequestsEnd

\* A Redis store and a Redis lock whose lease may run out; workers may die.
SPECIFICATION Spec
CONSTANTS
  Workers = {w1, w2}
  Domains = {d1}
  DomainOf <- OneLock
  AccessTtl = 3
  RefreshTtl = 3
  ExpirySource = "ttl"
  Leeway = 2
  Lease = 1
  Latency = 1
  Pause = 1
  StoreCanFail = TRUE
  Never = Never
  NoToken = NoToken
  Corrupt = Corrupt
  Nobody = Nobody
  MaxTime = 3
  MaxCalls = 2
  MaxTokens = 2
INVARIANT ReplayUsesAnotherToken
PROPERTIES
  FreshToken
  SurvivorsEnd
CHECK_DEADLOCK FALSE

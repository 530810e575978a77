\* Two threads of one process, two calls each, documented lifetimes.
SPECIFICATION Spec
CONSTANTS
  Workers = {w1, w2}
  Domains = {d1}
  DomainOf <- OneLock
  AccessTtl = 3
  RefreshTtl = 5
  ExpirySource = "ttl"
  Leeway = 2
  Lease = Never
  Latency = 1
  Pause = 1
  StoreCanFail = FALSE
  Never = Never
  NoToken = NoToken
  Corrupt = Corrupt
  Nobody = Nobody
  MaxTime = 1
  MaxCalls = 2
  MaxTokens = 3
INVARIANTS
  TypeOK
  SingleFlight
  RequestsOnlyWhenNeeded
  CacheIsNewest
PROPERTY CallEnds
CHECK_DEADLOCK FALSE

\* The lease of the Redis lock is shorter than a token request may take.
SPECIFICATION Spec
CONSTANTS
  Workers = {w1, w2}
  Domains = {d1}
  DomainOf <- OneLock
  AccessTtl = 3
  RefreshTtl = Never
  ExpirySource = "jwt"
  Leeway = 2
  Lease = 2
  Latency = 1
  Pause = 1
  StoreCanFail = TRUE
  Never = Never
  NoToken = NoToken
  Corrupt = Corrupt
  Nobody = Nobody
  MaxTime = 3
  MaxCalls = 1
  MaxTokens = 2
INVARIANT SingleFlight
CHECK_DEADLOCK FALSE

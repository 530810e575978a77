\* One call, every category, three attempts.
SPECIFICATION Spec
CONSTANTS
  Calls = {c1}
  Keys = {k1}
  Operations <- AllOperations
  Statuses = {200, 302, 400, 401, 403, 404, 408, 429, 503}
  MaxAttempts = 3
  NoKey = NoKey
  NoReply = NoReply
INVARIANTS
  TypeOK
  RejectionIsFinal
  RetryableMeansExhausted
PROPERTY CallEnds
CHECK_DEADLOCK FALSE

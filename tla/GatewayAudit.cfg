\* The gateway operations that are retried: verify_purchase, reverse_purchase.
SPECIFICATION CallSpec
CONSTANTS
  Calls = {c1}
  Keys = {k1}
  Operations <- IdempotentOperations
  Statuses = {200, 429, 503}
  MaxAttempts = 2
  NoKey = NoKey
  NoReply = NoReply
  TokenErrors = {"Authentication", "Timeout"}
  StoreCanFail = FALSE
  ClientMayClose = FALSE
INVARIANT AppliedIsNeverFailed
CHECK_DEADLOCK FALSE

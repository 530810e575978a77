\* Two calls, unsafe or protected by a key they may share, each with a retry and a
\* replay, over one client that may be closed.
SPECIFICATION SharedSpec
CONSTANTS
  Calls = {c1, c2}
  Keys = {k1}
  Operations <- ContendedOperations
  Statuses = {200, 302, 401}
  MaxAttempts = 2
  NoKey = NoKey
  NoReply = NoReply
  TokenErrors = {}
  StoreCanFail = FALSE
  ClientMayClose = TRUE
INVARIANTS
  AtMostOnceEffect
  ResponseMeansApplied
PROPERTIES
  ImplementsContractSafely
SYMMETRY SameCalls
CHECK_DEADLOCK FALSE

\* Three threads that get, use and close the process-wide client, or close what they hold.
SPECIFICATION Spec
CONSTANTS
  Threads = {t1, t2, t3}
  NoThread = NoThread
  MaxCalls = 1
INVARIANTS
  TypeOK
  OneOpenClient
  ReleasedOrUnderWay
  OneTokenRequest
PROPERTIES
  ModuleCallsEnd
CHECK_DEADLOCK FALSE

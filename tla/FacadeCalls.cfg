\* One call of any method of any facade, with every fault around it.
SPECIFICATION FacadeSpec
CONSTANTS
  Calls = {c1}
  Keys = {k1}
  Operations <- FacadeOperations
  Statuses = {200, 400, 401, 408, 503}
  MaxAttempts = 2
  NoKey = NoKey
  NoReply = NoReply
  TokenErrors = {"Authentication", "Authorization", "Timeout", "Response"}
  StoreCanFail = TRUE
  ClientMayClose = TRUE
INVARIANTS
  CallTypeOK
  UncertaintyIsAudited
  GatewayAuditMatchesCaller
  SubmittedOnce
  EveryCallIsAudited
PROPERTIES
  CallFinishes
  ImplementsContract
CHECK_DEADLOCK FALSE

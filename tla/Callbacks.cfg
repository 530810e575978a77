\* Two handlers, two purchases; stores that raise and handlers that die.
SPECIFICATION Spec
CONSTANTS
  Handlers = {h1, h2}
  Keys = {k1, k2}
INVARIANTS
  OriginalOnce
  ClaimsAreAccounted
  AcknowledgedIsAccounted

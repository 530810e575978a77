\* Two processes, restarted with other settings, around one shared store.
SPECIFICATION Spec
CONSTANTS
  Processes = {p1, p2}
  Services = {"payment_gateway", "cobank", "kyc"}
  Settings <- SmallSettings
  None = None
  NoWire = NoWire
  MaxTokens = 2
INVARIANTS
  TokensStayInScope
  PairsStayTogether
  IncompleteNeverSends
  StaticTokenOnly

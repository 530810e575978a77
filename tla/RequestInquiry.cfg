\* Every submission that has a reference of its own must have an inquiry for it.
SPECIFICATION Spec
CONSTANTS
  None = None
  Inputs <- SmallInputs
  Reconciled = {"create_purchase", "submit_batch", "create_settlement", "initiate", "create_mandate", "collect", "send", "send_pattern"}
  MaxAssigns = 2
INVARIANT
  UncertainIsReconcilable

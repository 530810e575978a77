\* Every method, values on both sides of every bound, two assignments.
SPECIFICATION Spec
CONSTANTS
  None = None
  Inputs <- SmallInputs
  Reconciled = {"create_purchase", "submit_batch", "create_settlement", "initiate"}
  MaxAssigns = 2
INVARIANTS
  TypeOK
  SentIsPublished
  MandateFitsItsWorkflow
  SignerIsWhole
  UncertainIsReconcilable
PROPERTY CallsKeepTheObject

--------------------------- MODULE MCFacadeCalls ---------------------------
(* Instances of FacadeCalls for TLC.                                       *)
EXTENDS FacadeCalls

\* The categories the service facades use: they never pass a key.
FacadeOperations ==
  [safety : {"read_only", "idempotent", "unsafe"}, key : {NoKey}]

=============================================================================

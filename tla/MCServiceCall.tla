--------------------------- MODULE MCServiceCall ---------------------------
(* Instances of ServiceCall for TLC.                                       *)
EXTENDS ServiceCall, TLC

\* The financial state transitions the gateway declares idempotent.
IdempotentOperations == {[safety |-> "idempotent", key |-> NoKey]}

ContendedOperations ==
  {[safety |-> "unsafe", key |-> NoKey]}
    \cup [safety : {"idempotency_protected"}, key : Keys]

\* The two calls are interchangeable, and only safety is checked of them.
SameCalls == Permutations(Calls)

\* Both calls through the audited executor, the layers with every step.
SharedInit == CallInit /\ facade = [c \in Calls |-> "executor"]

SharedSpec == SharedInit /\ [][CallNext]_allVars

=============================================================================

-------------------------- MODULE MCTokenLifecycle --------------------------
(* Instances of TokenLifecycle for TLC.                                    *)
EXTENDS TokenLifecycle

\* All workers share one lock: one process, or a distributed lock.
OneLock == [w \in Workers |-> CHOOSE d \in Domains : TRUE]

=============================================================================

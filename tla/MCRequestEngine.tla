-------------------------- MODULE MCRequestEngine --------------------------
(* Instances of RequestEngine for TLC.                                     *)
EXTENDS RequestEngine

\* Every combination of a category with and without a key.
AllOperations == Options

=============================================================================

------------------------------- MODULE MCChain -------------------------------
(* Instances of Chain for TLC. *)
EXTENDS Chain, FiniteSets

\* A runner is bound once, so there are no more sessions than runners.
Sessions == 1..Cardinality(Runner)
=============================================================================

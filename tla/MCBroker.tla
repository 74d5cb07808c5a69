------------------------------ MODULE MCBroker ------------------------------
(* Instances of Broker for TLC. *)
EXTENDS Broker, TLC

\* Every runner has an address of its own.
OwnUrl == [r \in Runner |-> r]

Symmetry == Permutations(Runner) \cup Permutations(Session) \cup Permutations(Proc)
=============================================================================

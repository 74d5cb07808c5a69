---------------------------- MODULE MCBrokerScan ----------------------------
(* Instances of BrokerScan for TLC. *)
EXTENDS BrokerScan, TLC

OwnUrl == [r \in Runner |-> r]

Symmetry == Permutations(Runner) \cup Permutations(Session) \cup Permutations(Proc)
=============================================================================

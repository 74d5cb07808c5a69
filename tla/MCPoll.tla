------------------------------- MODULE MCPoll -------------------------------
(* Instances of Poll for TLC. *)
EXTENDS Poll, TLC

\* A poll, and a second slide that opens it with fewer options and a larger limit.
TwoOffers == {[options |-> Choice, max |-> 1],
              [options |-> {CHOOSE c \in Choice : TRUE}, max |-> 2]}

Symmetry == Permutations(Visitor \ Presenter) \cup Permutations(Proc)

\* What the answers carry is read by no action: the counters do not depend on it.
Opened(m) == IF m = None THEN None ELSE <<m.options, m.max>>
WithoutAnswers ==
  <<table, Opened(metaSeen), recordsSeen,
    [p \in Proc |-> [job[p] EXCEPT !.votes = Zero, !.mine = {}]]>>
=============================================================================

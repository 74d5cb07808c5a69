----------------------------- MODULE MCPollRoom -----------------------------
(* Instances of PollRoom for TLC. *)
EXTENDS PollRoom, TLC

\* The polls of slideData.ts allow one choice.
OneOffer == {[options |-> Choice, max |-> 1]}

Symmetry == Permutations(Visitor \ Presenter) \cup Permutations(Person) \cup Permutations(Proc)

\* Fields of a job that no later step of it reads.
Unread(j) ==
  [j EXCEPT !.choice = IF j.pc \in {"readMeta", "readMine", "send"} THEN None ELSE @,
            !.to     = IF j.pc \in {"readMeta", "readMine", "send"} THEN None ELSE @,
            !.offer  = IF j.pc = "putMeta" THEN @ ELSE None,
            !.max    = IF j.pc = "voteMine" THEN @ ELSE 0]

WithoutUnread ==
  <<table, [p \in Proc |-> Unread(job[p])], pageVars, postVars, history>>

\* Bounds: one expiry at most, and then of a single viewer.
Seen == {x \in Person : conn[x] # None \/ screen[x] # None}
Small == lapses = 0 \/ (lapses = 1 /\ Cardinality(Seen) <= 1)
=============================================================================

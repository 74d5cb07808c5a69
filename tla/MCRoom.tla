------------------------------- MODULE MCRoom -------------------------------
(* Instances of Room for TLC. *)
EXTENDS Room, TLC

Symmetry == Permutations(Conn \ Presenter) \cup Permutations(Proc)

\* Who is listed depends neither on pages nor on the history.
WithoutPages ==
  <<link, records, recordsSeen, asking,
    [p \in Proc |-> [job[p] EXCEPT !.page = 0, !.owed = {}]]>>
=============================================================================

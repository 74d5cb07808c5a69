----------------------------- MODULE MCRoomCount -----------------------------
(* Instances of RoomCount for TLC. *)
EXTENDS RoomCount, TLC

Symmetry == Permutations(Conn \ Presenter) \cup Permutations(Proc)

\* The page of a job that no later step of it reads.
Unread(j) == [j EXCEPT !.page = IF j.kind \in {"slide_sync", "get_state"} THEN @ ELSE 0]

\* Without the screens and the doubts of those who have gone.
WithoutUnread ==
  <<link, records, page, asking, [p \in Proc |-> Unread(job[p])], total,
    [c \in Open |-> <<shown[c], viewers[c]>>],
    IF \E p \in Proc : solo = p /\ ~At(p, "idle") THEN solo ELSE None,
    {c \in unsure : link[c] \in {"connecting", "open"}}>>
=============================================================================

------------------------------ MODULE RoomCount ------------------------------
(***************************************************************************)
(* The numbers that viewer_count messages carry: Room with the call that   *)
(* counts the records (Store.CountByRoom) and the number on the screens.   *)
(* $connect and $disconnect count after their write and before they list   *)
(* whom to tell; what they tell is as old as the slowest post.             *)
(***************************************************************************)
EXTENDS Room

VARIABLES
  total,    \* Proc -> the number a Lambda has counted
  viewers,  \* Conn -> the number on the screen
  solo,     \* history: the Lambda beside which no other has been at work
  unsure    \* history: whom no count has reached that was sent by a Lambda alone
            \* and after all others

\* solo is a Proc or None.
ASSUME CountAssumption == None \notin Proc

countVars == <<vars, total, viewers, solo, unsure>>

Counting == {"connect", "disconnect", "viewer_count"}

\* Before the write.
CountsFirst(kind) ==
  CASE kind = "connect" -> "put" [] kind = "disconnect" -> "delete" [] OTHER -> "post"

\* The place of the call: after the Put or the Delete, before the Query of Send.
CountsAt(kind) == IF kind = "viewer_count" THEN "post" ELSE "query"

MustCount(p) ==
  job[p].kind \in Counting /\ At(p, CountsAt(job[p].kind)) /\ total[p] = None

-----------------------------------------------------------------------------

Arrive(p) ==
  /\ Event(p)
  /\ solo' = IF \A q \in Proc \ {p} : At(q, "idle") THEN p ELSE None
  /\ UNCHANGED <<total, viewers, unsure>>

\* All records, the presenter's and those of connections that are gone among them.
CountByRoom(p) ==
  /\ MustCount(p)
  /\ \E rs \in RecordReads : total' = [total EXCEPT ![p] = Cardinality(rs)]
  /\ UNCHANGED <<vars, viewers, solo, unsure>>

\* onmessage: setViewerCount.
Told(p) ==
  IF job[p].kind \in Counting /\ At(p, "post") /\ job'[p].pc = "post"
    THEN job[p].rest \ job'[p].rest ELSE {}

Work(p) ==
  /\ ~MustCount(p)
  /\ Call(p) /\ job'[p].pc # "idle"
  /\ viewers' = [c \in Conn |-> IF c \in Told(p) THEN total[p] ELSE viewers[c]]
  /\ UNCHANGED <<total, solo, unsure>>

\* The connection of a $connect is left out of its broadcast.
Unsure(p) ==
  CASE job[p].kind \notin Counting -> unsure
    [] job[p].kind \in Counting /\ solo # p -> Conn
    [] job[p].kind = "connect" /\ solo = p -> {job[p].who}
    [] job[p].kind = "disconnect" /\ solo = p -> {}
    [] job[p].kind = "viewer_count" /\ solo = p -> unsure \ {job[p].who}

Finish(p) ==
  /\ ~MustCount(p)
  /\ Return(p)
  /\ total' = [total EXCEPT ![p] = None]
  /\ unsure' = Unsure(p)
  /\ UNCHANGED <<viewers, solo>>

-----------------------------------------------------------------------------

CountInit ==
  /\ Init
  /\ total = [p \in Proc |-> None]
  /\ viewers = [c \in Conn |-> 0]
  /\ solo = None /\ unsure = {}

\* Bound: no failing call, no lost $disconnect and no lagging read; after one of them
\* the number may be wrong until the next $connect or $disconnect.
CountNext ==
  \/ \E p \in Proc : Arrive(p) \/ CountByRoom(p) \/ Work(p) \/ Finish(p)
  \/ \E c \in Conn : Close(c) /\ UNCHANGED <<total, viewers, solo, unsure>>

CountSpec == CountInit /\ [][CountNext]_countVars

-----------------------------------------------------------------------------
(* Properties                                                              *)

\* Nothing is under way, at the Lambdas or on its way to them.
Settled == Quiet /\ \A c \in Conn : link[c] # "closing"

Informed == (Open \cap records) \ unsure

\* Counts that overlap may be posted in the other order and leave a wrong number on the
\* screens (disconnect/main.go:72); the next $connect or $disconnect that has the room to
\* itself puts everybody right whom broadcasts reach at all, but for the newcomer, whom
\* nobody tells before somebody else comes or goes.
CountIsRight == Settled => \A c \in Informed : viewers[c] = Cardinality(records)
=============================================================================

------------------------------ MODULE PollRoom ------------------------------
(***************************************************************************)
(* A poll on the screens of the room: Poll with the viewers who click      *)
(* (PollView, PollSlide), the posts that carry its answers to their        *)
(* connections (broadcastPollState, poll_error) and what usePresenter      *)
(* makes of them.  The page offers one choice per viewer, so it votes and  *)
(* changes votes, and never withdraws one; it never asks for the state of  *)
(* a poll.  A viewer who reconnects is a new visitor to the server.        *)
(*                                                                         *)
(* Room shows that a broadcast reaches whoever is connected; here its      *)
(* query returns them.                                                     *)
(***************************************************************************)
EXTENDS Poll

CONSTANT Person  \* viewers; a presenter's panel shows no poll

Screen == [votes : Tally, mine : SUBSET Choice]

\* Replicas that lag are left to Poll: with them an answer may miss the vote it
\* answers.
ASSUME RoomAssumption ==
  /\ IsFiniteSet(Person)
  /\ None \notin Screen
  /\ "stale" \notin Faults

VARIABLES
  conn,     \* Person -> the connection of the page, or None
  used,     \* the connection ids there have been
  screen,   \* Person -> the state of the poll on the page, or None
  posting,  \* the Lambdas that post an answer,
  list,     \* Proc -> and the connections it has still to be posted to
  \* history, read by properties only
  answered, \* viewers whose page shows the answer to their last message
  owed,     \* viewers who have not been sent the tally that the table holds now
  lapses    \* how many records have expired

pageVars == <<conn, used, screen>>
history == <<answered, owed, lapses>>
postVars == <<posting, list>>
roomVars == <<vars, pageVars, postVars, history>>

Mine(x) == IF screen[x] = None THEN {} ELSE screen[x].mine

-----------------------------------------------------------------------------
(* Viewers                                                                 *)

\* A connection under an id that was never used.
Arrive(x) ==
  /\ conn[x] = None
  /\ \E v \in Visitor \ (used \cup Presenter) :
       /\ conn' = [conn EXCEPT ![x] = v]
       /\ used' = used \cup {v}
  /\ UNCHANGED <<vars, screen, postVars, history>>

\* What is on the screen stays there.
Go(x) ==
  /\ conn[x] # None
  /\ conn' = [conn EXCEPT ![x] = None]
  /\ answered' = answered \ {x} /\ owed' = owed \ {x}
  /\ UNCHANGED <<vars, used, screen, postVars, lapses>>

\* handleClick with maxChoices = 1: what the page takes for the viewer's own choice
\* decides between a vote and a change.  A click on that choice does nothing.
Click(p, x, c) ==
  /\ conn[x] # None
  /\ c \notin Mine(x)
  /\ \/ /\ Mine(x) = {}
        /\ HandlePollVote(p)
     \/ /\ Cardinality(Mine(x)) = 1
        /\ HandlePollSwitch(p)
        /\ job'[p].choice \in Mine(x)
        /\ job'[p].to = c
  /\ job'[p].who = conn[x]
  /\ job'[p].pc = "voteMeta" => job'[p].choice = c
  /\ answered' = answered \ {x}
  /\ UNCHANGED <<pageVars, postVars, owed, lapses>>

\* poll_open of the presenter's panel.
Open(p) == HandlePollOpen(p) /\ UNCHANGED <<pageVars, postVars, history>>

-----------------------------------------------------------------------------
(* The Lambdas                                                             *)

\* A change of the tally is news to everybody.
Work(p) ==
  /\ \/ PutMeta(p) \/ ReadMeta(p) \/ ReadMine(p)
     \/ VoteMeta(p) \/ VoteMine(p) \/ Vote(p)
     \/ SwitchMeta(p) \/ Switch(p)
  /\ owed' = IF meta' = meta THEN owed ELSE {x \in Person : conn[x] # None}
  /\ UNCHANGED <<pageVars, postVars, answered, lapses>>

\* A record whose connectionId is missing is not skipped.
ConnectedOrBlank == {conn[x] : x \in Person}

\* The records of the room.
Connected == {conn[x] : x \in Person} \ {None}

\* The sender is left out, as $connect does with the newcomer.
QueryOthers(p) ==
  /\ At(p, "send") /\ p \notin posting
  /\ posting' = posting \cup {p}
  /\ list' = [list EXCEPT ![p] = IF job[p].audience = "room" THEN Connected \ {job[p].who}
                                                             ELSE {job[p].who}]
  /\ UNCHANGED <<vars, pageVars, history>>

\* The connections of the room, or the sender alone.
Query(p) ==
  /\ At(p, "send") /\ p \notin posting
  /\ posting' = posting \cup {p}
  /\ list' = [list EXCEPT ![p] = IF job[p].audience = "room" THEN Connected
                                                             ELSE {job[p].who}]
  /\ UNCHANGED <<vars, pageVars, history>>

\* poll_error brings the counters only.
ShowErrorWithoutChoices(p, x) ==
  IF job[p].audience = "sender"
    THEN IF screen[x] = None THEN screen ELSE [screen EXCEPT ![x].votes = job[p].votes]
    ELSE [screen EXCEPT ![x] = [votes |-> job[p].votes, mine |-> job[p].mine]]

\* onmessage: poll_state to the room, poll_error to the sender, which is dropped by a
\* page that has no state of the poll.  myChoices are those of the visitor whose
\* message is answered, in every copy.
Show(p, x) ==
  IF job[p].audience = "sender" /\ screen[x] = None THEN screen
  ELSE [screen EXCEPT ![x] = [votes |-> job[p].votes, mine |-> job[p].mine]]

\* A post; a connection that is gone is skipped.
Post(p) ==
  /\ At(p, "send") /\ p \in posting
  /\ \E v \in list[p] :
       /\ list' = [list EXCEPT ![p] = @ \ {v}]
       /\ \/ /\ \A x \in Person : conn[x] # v
             /\ UNCHANGED <<screen, answered, owed>>
          \/ \E x \in Person :
               /\ conn[x] = v
               /\ screen' = Show(p, x)
               /\ answered' = IF job[p].who = v /\ screen'[x] # None THEN answered \cup {x}
                              ELSE IF screen' = screen THEN answered ELSE answered \ {x}
               /\ owed' = IF meta # None /\ job[p].votes = meta.votes THEN owed \ {x} ELSE owed
  /\ UNCHANGED <<vars, conn, used, posting, lapses>>

\* The broadcast is over.
Finish(p) ==
  /\ p \in posting /\ list[p] = {}
  /\ Send(p)
  /\ posting' = posting \ {p}
  /\ UNCHANGED <<pageVars, list, history>>

\* A call or a post fails and the handler ends: nobody is told of what it has changed.
Fail(p) ==
  /\ Abort(p)
  /\ posting' = posting \ {p}
  /\ list' = [list EXCEPT ![p] = {}]
  /\ owed' = IF job[p].audience = "room" THEN {} ELSE owed
  /\ UNCHANGED <<pageVars, answered, lapses>>

Lapse ==
  /\ Expire /\ UNCHANGED job
  /\ lapses' = lapses + 1
  /\ UNCHANGED <<pageVars, postVars, answered, owed>>

-----------------------------------------------------------------------------

RoomInit ==
  /\ Init
  /\ conn = [x \in Person |-> None] /\ used = {}
  /\ screen = [x \in Person |-> None]
  /\ posting = {} /\ list = [p \in Proc |-> {}]
  /\ answered = {} /\ owed = {} /\ lapses = 0

Lambda(p) == Open(p) \/ Work(p) \/ Query(p) \/ Post(p) \/ Finish(p) \/ Fail(p)

RoomNext ==
  \/ \E x \in Person : Arrive(x) \/ Go(x)
  \/ \E p \in Proc, x \in Person, c \in Choice : Click(p, x, c)
  \/ \E p \in Proc : Lambda(p)
  \/ Lapse

RoomSpec == RoomInit /\ [][RoomNext]_roomVars

-----------------------------------------------------------------------------
(* Properties                                                              *)

\* Every variable has its type.
RoomTypeOK ==
  /\ TypeOK
  /\ conn \in [Person -> Visitor \cup {None}] /\ used \subseteq Visitor
  /\ screen \in [Person -> Screen \cup {None}]
  /\ posting \subseteq Proc /\ list \in [Proc -> SUBSET Visitor]
  /\ answered \subseteq Person /\ owed \subseteq Person /\ lapses \in Nat

\* While a viewer's page shows the answer to his last message, and nobody else's has
\* come over it, its choices are those he really has and the tally beside them counts
\* them: a refused click corrects what another's broadcast, or a poll that was opened
\* again, had put there.
OwnAnswerIsTrue ==
  lapses = 0 =>
    \A x \in answered :
      /\ screen[x].mine = ChoicesOf(conn[x], records)
      /\ \A c \in screen[x].mine : screen[x].votes[c] > 0

\* When every Lambda has returned, each viewer who is connected and was so at the last
\* change has been sent the tally that came of it, in whatever order changes, reads
\* and posts of several Lambdas were made (an older tally may have been posted later
\* and stay on his screen).
EveryoneToldOfResult ==
  (\A p \in Proc : At(p, "idle")) /\ meta # None => owed = {}

\* PollView.tsx:11 and README.md:84: the choices on the page are the viewer's own.
ChoicesAreOnesOwn ==
  \A x \in Person : conn[x] # None => Mine(x) \subseteq ChoicesOf(conn[x], records)
=============================================================================

--------------------------- MODULE PollRoomProofs ---------------------------
(* Theorems about PollRoom for every value of its constants. *)
EXTENDS PollRoom, PollProofs

-----------------------------------------------------------------------------
(* What the pages make of it is still the poll: a viewer's click is one of *)
(* the messages of Poll, and no post touches the table.                    *)

LEMMA PollStep ==
  ASSUME [RoomNext]_roomVars, ~Lapse
  PROVE  [NextButExpire]_vars
<1>1. CASE \E x \in Person : Arrive(x) \/ Go(x)
      BY <1>1 DEF Arrive, Go
<1>2. CASE \E p \in Proc, x \in Person, c \in Choice : Click(p, x, c)
      BY <1>2 DEF Click, NextButExpire, Handle
<1>3. CASE \E p \in Proc : Lambda(p)
  <2>1. PICK p \in Proc : Lambda(p)
        BY <1>3
  <2>2. CASE Open(p)
        BY <2>2 DEF Open, NextButExpire, Handle
  <2>3. CASE Work(p)
        BY <2>3 DEF Work, NextButExpire, Call
  <2>4. CASE Query(p) \/ Post(p)
        BY <2>4 DEF Query, Post
  <2>5. CASE Finish(p)
        BY <2>5 DEF Finish, NextButExpire, Call
  <2>6. CASE Fail(p)
        BY <2>6 DEF Fail, NextButExpire
  <2> QED BY <2>1, <2>2, <2>3, <2>4, <2>5, <2>6 DEF Lambda
<1>4. CASE UNCHANGED roomVars
      BY <1>4 DEF roomVars
<1> QED BY <1>1, <1>2, <1>3, <1>4 DEF RoomNext

LEMMA RoomIsPollStep == [RoomNext]_roomVars => [Next]_vars
BY PollStep DEF Lapse, Next, NextButExpire, Background

\* Whatever holds of Poll holds in the room.
THEOREM RoomIsPoll == RoomSpec => Spec
<1>1. RoomInit => Init
      BY DEF RoomInit
<1> QED BY <1>1, RoomIsPollStep, PTL DEF RoomSpec, Spec

\* With one message of each visitor under way nobody has more choices than the poll
\* allows, whatever his page believes them to be and whatever expires, if the poll is
\* always opened with the same limit.
THEOREM RoomKeepsLimit ==
  ASSUME "overlap" \notin Faults, "expire" \in Faults => SameLimit
  PROVE  RoomSpec => []WithinMaxChoices
<1>1. Spec => []WithinMaxChoices
      BY LimitIsKept, RoomAssumption
<1> QED BY <1>1, RoomIsPoll, PTL

-----------------------------------------------------------------------------
(* Types and connections.                                                  *)

RoomTypes ==
  /\ conn \in [Person -> Visitor \cup {None}] /\ used \subseteq Visitor
  /\ screen \in [Person -> Screen \cup {None}]
  /\ posting \subseteq Proc /\ list \in [Proc -> SUBSET Visitor]
  /\ answered \subseteq Person /\ owed \subseteq Person /\ lapses \in Nat

\* An id is given out once; a Lambda posts when it has read the state; only a
\* connected viewer is owed anything.
Connections ==
  /\ \A x, y \in Person : conn[x] = conn[y] /\ conn[x] # None => x = y
  /\ \A x \in Person : conn[x] # None => conn[x] \in used
  /\ \A p \in posting : At(p, "send")
  /\ \A x \in owed \cup answered : conn[x] # None

RoomInv == TypeInv /\ RoomTypes /\ Connections

LEMMA RoomInvInit == RoomInit => RoomInv
BY TypeInit, ConstantsAssumption
DEF RoomInit, Init, RoomInv, RoomTypes, Connections

LEMMA WorkGoesOn ==
  ASSUME TypeInv, NEW p \in Proc, Work(p)
  PROVE  ~At(p, "send") /\ \A q \in Proc \ {p} : job'[q] = job[q]
<1>1. ~At(p, "send")
      BY DEF Work, PutMeta, ReadMeta, ReadMine, VoteMeta, VoteMine, Vote, SwitchMeta, Switch, At
<1>2. \E j : Becomes(p, j)
  <2>1. CASE PutMeta(p)
        BY <2>1 DEF PutMeta
  <2>2. CASE ReadMeta(p)
        BY <2>2 DEF ReadMeta, End
  <2>3. CASE ReadMine(p)
        BY <2>3 DEF ReadMine
  <2>4. CASE VoteMeta(p)
        BY <2>4 DEF VoteMeta, End, Refresh
  <2>5. CASE VoteMine(p)
        BY <2>5 DEF VoteMine, Refresh
  <2>6. CASE Vote(p)
        BY <2>6 DEF Vote, End, Refresh
  <2>7. CASE SwitchMeta(p)
        BY <2>7 DEF SwitchMeta, End, Refresh
  <2>8. CASE Switch(p)
        BY <2>8 DEF Switch, End, Refresh
  <2> QED BY <2>1, <2>2, <2>3, <2>4, <2>5, <2>6, <2>7, <2>8 DEF Work
<1> QED BY <1>1, <1>2, OthersStay

LEMMA RoomInvStep == RoomInv /\ [RoomNext]_roomVars => RoomInv'
<1> SUFFICES ASSUME RoomInv, [RoomNext]_roomVars PROVE RoomInv'
    OBVIOUS
<1>0. TypeInv' /\ TypeInv
      BY RoomIsPollStep, TypeStep DEF RoomInv
<1>1. CASE \E x \in Person : Arrive(x)
  <2>1. PICK x \in Person : Arrive(x)
        BY <1>1
  <2>2. PICK v \in Visitor \ (used \cup Presenter) :
          conn' = [conn EXCEPT ![x] = v] /\ used' = used \cup {v}
        BY <2>1 DEF Arrive
  <2>3. RoomTypes'
        BY <2>1, <2>2 DEF Arrive, RoomInv, RoomTypes, postVars, history
  <2>4. Connections'
    <3>1. conn'[x] = v /\ v # None /\ \A y \in Person \ {x} : conn'[y] = conn[y]
          BY <2>2, ConstantsAssumption DEF RoomInv, RoomTypes
    <3>2. \A y \in Person \ {x} : conn[y] # v
          BY <2>2, <3>1 DEF RoomInv, Connections
    <3>3. /\ \A y, z \in Person : conn'[y] = conn'[z] /\ conn'[y] # None => y = z
          /\ \A y \in Person : conn'[y] # None => conn'[y] \in used'
          BY <2>2, <3>1, <3>2 DEF RoomInv, Connections
    <3>4. posting' = posting /\ job' = job /\ owed' = owed /\ answered' = answered
          BY <2>1 DEF Arrive, vars, postVars, history
    <3>5. \A y \in owed \cup answered : conn'[y] # None
          BY <3>1 DEF RoomInv, Connections, RoomTypes
    <3> QED BY <3>3, <3>4, <3>5 DEF RoomInv, Connections, At
  <2> QED BY <1>0, <2>3, <2>4 DEF RoomInv
<1>2. CASE \E x \in Person : Go(x)
  <2>1. PICK x \in Person : Go(x)
        BY <1>2
  <2>2. RoomTypes'
        BY <2>1 DEF Go, RoomInv, RoomTypes, postVars
  <2>3. Connections'
    <3>1. conn'[x] = None /\ \A y \in Person \ {x} : conn'[y] = conn[y]
          BY <2>1 DEF Go, RoomInv, RoomTypes
    <3>2. /\ posting' = posting /\ job' = job /\ used' = used
          /\ owed' = owed \ {x} /\ answered' = answered \ {x}
          BY <2>1 DEF Go, vars, postVars
    <3> QED BY <3>1, <3>2 DEF RoomInv, Connections, RoomTypes, At
  <2> QED BY <1>0, <2>2, <2>3 DEF RoomInv
<1>3. CASE \E p \in Proc, x \in Person, c \in Choice : Click(p, x, c)
  <2>1. PICK p \in Proc, x \in Person, c \in Choice : Click(p, x, c)
        BY <1>3
  <2>2. At(p, "idle") /\ \A q \in Proc \ {p} : job'[q] = job[q]
        BY <1>0, <2>1, HandleStarts DEF Click, Handle
  <2>3. RoomTypes'
        BY <2>1 DEF Click, RoomInv, RoomTypes, pageVars, postVars
  <2>4. Connections'
        BY <2>1, <2>2 DEF Click, RoomInv, RoomTypes, Connections, pageVars, postVars, At
  <2> QED BY <1>0, <2>3, <2>4 DEF RoomInv
<1>4. CASE \E p \in Proc : Open(p)
  <2>1. PICK p \in Proc : Open(p)
        BY <1>4
  <2>2. At(p, "idle") /\ \A q \in Proc \ {p} : job'[q] = job[q]
        BY <1>0, <2>1, HandleStarts DEF Open, Handle
  <2> QED BY <1>0, <2>1, <2>2
          DEF Open, RoomInv, RoomTypes, Connections, pageVars, postVars, history, At
<1>5. CASE \E p \in Proc : Work(p)
  <2>1. PICK p \in Proc : Work(p)
        BY <1>5
  <2>2. ~At(p, "send") /\ \A q \in Proc \ {p} : job'[q] = job[q]
        BY <1>0, <2>1, WorkGoesOn
  <2>3. /\ UNCHANGED <<pageVars, postVars, answered, lapses>>
        /\ owed' \in {owed, {x \in Person : conn[x] # None}}
        BY <2>1 DEF Work
  <2> QED BY <1>0, <2>2, <2>3 DEF RoomInv, RoomTypes, Connections, pageVars, postVars, At
<1>6. CASE \E p \in Proc : Query(p)
  <2>1. PICK p \in Proc : Query(p)
        BY <1>6
  <2>2. job[p].who \in Visitor
        BY <1>0, <2>1 DEF Query, TypeInv, Carries, Complete, At
  <2>3. Connected \subseteq Visitor
        BY DEF Connected, RoomInv, RoomTypes
  <2>4. RoomTypes'
        BY <2>1, <2>2, <2>3 DEF Query, RoomInv, RoomTypes, pageVars, history
  <2>5. Connections'
        BY <2>1 DEF Query, RoomInv, Connections, pageVars, history, vars, At
  <2> QED BY <1>0, <2>4, <2>5 DEF RoomInv
<1>7. CASE \E p \in Proc : Post(p)
  <2>0. PICK p \in Proc : Post(p)
        BY <1>7
  <2>1. PICK v \in list[p] :
          /\ list' = [list EXCEPT ![p] = @ \ {v}]
          /\ \/ UNCHANGED <<screen, answered, owed>>
             \/ \E x \in Person :
                  /\ conn[x] = v
                  /\ screen' = Show(p, x)
                  /\ answered' \in {answered, answered \cup {x}, answered \ {x}}
                  /\ owed' \in {owed, owed \ {x}}
        BY <2>0 DEF Post
  <2>2. UNCHANGED <<vars, conn, used, posting, lapses>>
        BY <2>0 DEF Post
  <2>3. v \in Visitor /\ v # None
        BY <2>1, ConstantsAssumption DEF RoomInv, RoomTypes
  <2>4. [votes |-> job[p].votes, mine |-> job[p].mine] \in Screen
        BY <1>0 DEF TypeInv, TypeOK, Job, Screen
  <2>5. screen' \in [Person -> Screen \cup {None}]
        BY <2>1, <2>4 DEF Show, RoomInv, RoomTypes
  <2>6. RoomTypes'
        BY <2>1, <2>2, <2>5 DEF RoomInv, RoomTypes
  <2>7. Connections'
        BY <2>1, <2>2, <2>3 DEF RoomInv, Connections, vars, At
  <2> QED BY <1>0, <2>6, <2>7 DEF RoomInv
<1>8. CASE \E p \in Proc : Finish(p) \/ Fail(p)
  <2>1. PICK p \in Proc : Finish(p) \/ Fail(p)
        BY <1>8
  <2>2. \A q \in Proc \ {p} : job'[q] = job[q]
        BY <1>0, <2>1, OthersStay DEF Finish, Fail, Send, Abort, End
  <2>3. /\ UNCHANGED <<pageVars, answered, lapses>> /\ posting' = posting \ {p}
        /\ list' \in {list, [list EXCEPT ![p] = {}]}
        /\ owed' \in {owed, {}}
        BY <2>1 DEF Finish, Fail, history
  <2> QED BY <1>0, <2>2, <2>3 DEF RoomInv, RoomTypes, Connections, pageVars, At
<1>9. CASE Lapse
      BY <1>0, <1>9 DEF Lapse, RoomInv, RoomTypes, Connections, pageVars, postVars, At
<1>10. CASE UNCHANGED roomVars
      BY <1>0, <1>10
      DEF roomVars, vars, pageVars, postVars, history, RoomInv, RoomTypes, Connections, At
<1> QED BY <1>1, <1>2, <1>3, <1>4, <1>5, <1>6, <1>7, <1>8, <1>9, <1>10 DEF RoomNext, Lambda

\* Every variable keeps its type, with every fault.
THEOREM RoomTypeCorrect == RoomSpec => []RoomTypeOK
<1>1. RoomSpec => []RoomInv
      BY RoomInvInit, RoomInvStep, PTL DEF RoomSpec
<1>2. RoomInv => RoomTypeOK
      BY DEF RoomInv, RoomTypes, TypeInv, RoomTypeOK
<1> QED BY <1>1, <1>2, PTL

-----------------------------------------------------------------------------
(* News.  Whoever changes the tally reads it afterwards and posts what he  *)
(* has read; if that is not the tally of the end, somebody has changed it  *)
(* since, and will post in turn.                                           *)

\* Lambda p will send viewer x the tally of the table, if nobody changes it.
Brings(p, x) ==
  /\ job[p].audience = "room"
  /\ \/ At(p, "readMeta")
     \/ /\ job[p].pc \in {"readMine", "send"}
        /\ job[p].votes = meta.votes
        /\ p \in posting => conn[x] \in list[p]

NewsInv ==
  /\ RoomInv
  /\ \A p \in Proc : At(p, "putMeta") => job[p].audience = "room"
  /\ meta # None => \A x \in owed : \E p \in Proc : Brings(p, x)

LEMMA NewsInit == RoomInit => NewsInv
BY RoomInvInit DEF RoomInit, Init, NewsInv, At, NoJob

\* The messages of the page open a poll for the room, or do not open one.
LEMMA NewsHandle ==
  ASSUME TypeInv, NEW p \in Proc, HandlePollOpen(p) \/ HandlePollVote(p) \/ HandlePollSwitch(p)
  PROVE  At(p, "putMeta")' => job'[p].audience = "room"
<1>1. CASE HandlePollOpen(p)
  <2>1. PICK v \in Presenter, o \in Offer :
          Becomes(p, [NoJob EXCEPT !.pc = "putMeta", !.who = v, !.offer = o,
                                   !.audience = "room"])
        BY <1>1 DEF HandlePollOpen, Start
  <2>2. job'[p] = [NoJob EXCEPT !.pc = "putMeta", !.who = v, !.offer = o, !.audience = "room"]
        BY <2>1, OthersStay
  <2> QED BY <2>2 DEF NoJob
<1>2. CASE HandlePollVote(p)
  <2>1. PICK v \in Visitor, c \in Choice :
          Becomes(p, [NoJob EXCEPT !.pc = "voteMeta", !.who = v, !.choice = c])
        BY <1>2 DEF HandlePollVote, Start
  <2>2. job'[p] = [NoJob EXCEPT !.pc = "voteMeta", !.who = v, !.choice = c]
        BY <2>1, OthersStay
  <2> QED BY <2>2 DEF NoJob, At
<1>3. CASE HandlePollSwitch(p)
  <2>1. PICK v \in Visitor, c, d \in Choice :
          Becomes(p, [NoJob EXCEPT !.pc = "switchMeta", !.who = v, !.choice = c, !.to = d])
        BY <1>3 DEF HandlePollSwitch, Start
  <2>2. job'[p] = [NoJob EXCEPT !.pc = "switchMeta", !.who = v, !.choice = c, !.to = d]
        BY <2>1, OthersStay
  <2> QED BY <2>2 DEF NoJob, At
<1> QED BY <1>1, <1>2, <1>3

\* The step of a Lambda up to its posts: a change is followed by a read, and what has
\* been read is kept until it is sent.
LEMMA NewsWork ==
  ASSUME NewsInv, NEW p \in Proc, Work(p)
  PROVE  /\ ~At(p, "putMeta")'
         /\ meta' # meta => At(p, "readMeta")' /\ job'[p].audience = "room"
         /\ meta' = meta /\ meta # None /\ job[p].audience = "room" =>
              /\ At(p, "readMeta") => /\ At(p, "readMine")' /\ job'[p].audience = "room"
                                      /\ job'[p].votes = meta.votes
              /\ At(p, "readMine") => /\ At(p, "send")' /\ job'[p].audience = "room"
                                      /\ job'[p].votes = job[p].votes
<1>0. TypeInv /\ job[p] \in Job /\ MetaReads = {meta}
      BY RoomAssumption DEF NewsInv, RoomInv, TypeInv, TypeOK, MetaReads
<1>1. CASE PutMeta(p)
  <2>1. job'[p] = [job[p] EXCEPT !.pc = "readMeta"] /\ At(p, "putMeta")
        BY <1>0, <1>1, OthersStay DEF PutMeta
  <2> QED BY <1>0, <2>1 DEF NewsInv, At, Job
<1>2. CASE ReadMeta(p)
  <2>1. At(p, "readMeta") /\ meta' = meta
        BY <1>2 DEF ReadMeta, table
  <2>2. CASE meta = None
    <3>1. job'[p].pc = "idle"
          BY <1>0, <1>2, <2>2, EndsAs DEF ReadMeta
    <3> QED BY <2>1, <2>2, <3>1 DEF At
  <2>3. CASE meta # None
    <3>1. Becomes(p, [job[p] EXCEPT !.pc = "readMine", !.max = meta.max, !.votes = meta.votes])
          BY <1>0, <1>2, <2>3 DEF ReadMeta
    <3>2. job'[p] = [job[p] EXCEPT !.pc = "readMine", !.max = meta.max, !.votes = meta.votes]
          BY <1>0, <3>1, OthersStay
    <3> QED BY <1>0, <2>1, <3>2 DEF At, Job
  <2> QED BY <2>2, <2>3
<1>3. CASE ReadMine(p)
  <2>1. At(p, "readMine") /\ meta' = meta
        BY <1>3 DEF ReadMine, table
  <2>2. PICK rs : job'[p] = [job[p] EXCEPT !.pc = "send", !.mine = ChoicesOf(job[p].who, rs)]
        BY <1>0, <1>3, OthersStay DEF ReadMine
  <2> QED BY <1>0, <2>1, <2>2 DEF At, Job
<1>4. CASE VoteMeta(p) \/ VoteMine(p) \/ Vote(p) \/ SwitchMeta(p) \/ Switch(p)
  <2>1. ~At(p, "readMeta") /\ ~At(p, "readMine")
        BY <1>4 DEF VoteMeta, VoteMine, Vote, SwitchMeta, Switch, At
  <2>2. /\ job'[p].pc # "putMeta"
        /\ meta' # meta => job'[p].pc = "readMeta" /\ job'[p].audience = "room"
    <3>1. CASE VoteMeta(p)
          BY <1>0, <3>1, VoteMetaAs DEF VoteMeta, table
    <3>2. CASE VoteMine(p)
          BY <1>0, <3>2, RefreshesAs, MovesAs DEF VoteMine, table
    <3>3. CASE Vote(p)
          BY <1>0, <3>3, EndsAs, RefreshesAs DEF Vote, table
    <3>4. CASE SwitchMeta(p)
          BY <1>0, <3>4, EndsAs, RefreshesAs, MovesAs DEF SwitchMeta, table
    <3>5. CASE Switch(p)
          BY <1>0, <3>5, EndsAs, RefreshesAs DEF Switch, table
    <3> QED BY <1>4, <3>1, <3>2, <3>3, <3>4, <3>5
  <2> QED BY <2>1, <2>2 DEF At
<1> QED BY <1>1, <1>2, <1>3, <1>4 DEF Work

\* A step that leaves the table, the pages and the posts alone keeps what others bring.
LEMMA NewsOthers ==
  ASSUME NewsInv, NEW p \in Proc, NEW x \in owed, NEW q \in Proc, Brings(q, x),
         q # p, \A o \in Proc \ {p} : job'[o] = job[o],
         meta' = meta, conn'[x] = conn[x], (q \in posting)' = (q \in posting),
         list'[q] = list[q]
  PROVE  Brings(q, x)'
BY DEF Brings, At

LEMMA NewsStep == NewsInv /\ [RoomNext]_roomVars => NewsInv'
<1> SUFFICES ASSUME NewsInv, [RoomNext]_roomVars PROVE NewsInv'
    OBVIOUS
<1> DEFINE Opens  == \A p \in Proc : At(p, "putMeta") => job[p].audience = "room"
           Coming == meta # None => \A x \in owed : \E p \in Proc : Brings(p, x)
<1>0. RoomInv /\ RoomInv' /\ TypeInv /\ Connections /\ RoomTypes /\ Opens /\ Coming
      BY RoomInvStep DEF NewsInv, RoomInv
<1> SUFFICES Opens' /\ Coming'
    BY <1>0 DEF NewsInv
<1>1. CASE \E x \in Person : Arrive(x) \/ Go(x)
  <2>1. PICK x \in Person : Arrive(x) \/ Go(x)
        BY <1>1
  <2>2. /\ UNCHANGED <<vars, postVars>>
        /\ owed' \subseteq owed
        /\ \A y \in owed' : conn'[y] = conn[y]
        BY <1>0, <2>1 DEF Arrive, Go, history, RoomTypes, Connections
  <2> QED BY <1>0, <2>2 DEF Brings, At, vars, postVars
<1>2. CASE \E p \in Proc, x \in Person, c \in Choice : Click(p, x, c)
  <2>1. PICK p \in Proc, x \in Person, c \in Choice : Click(p, x, c)
        BY <1>2
  <2>2. At(p, "idle") /\ UNCHANGED table /\ \A q \in Proc \ {p} : job'[q] = job[q]
        BY <1>0, <2>1, HandleStarts DEF Click, Handle
  <2>3. At(p, "putMeta")' => job'[p].audience = "room"
        BY <1>0, <2>1, NewsHandle DEF Click
  <2> QED BY <1>0, <2>1, <2>2, <2>3 DEF Click, Brings, At, table, pageVars, postVars
<1>3. CASE \E p \in Proc : Open(p)
  <2>1. PICK p \in Proc : Open(p)
        BY <1>3
  <2>2. At(p, "idle") /\ UNCHANGED table /\ \A q \in Proc \ {p} : job'[q] = job[q]
        BY <1>0, <2>1, HandleStarts DEF Open, Handle
  <2>3. At(p, "putMeta")' => job'[p].audience = "room"
        BY <1>0, <2>1, NewsHandle DEF Open
  <2> QED BY <1>0, <2>1, <2>2, <2>3 DEF Open, Brings, At, table, pageVars, postVars, history
<1>4. CASE \E p \in Proc : Work(p)
  <2>1. PICK p \in Proc : Work(p)
        BY <1>4
  <2>2. ~At(p, "send") /\ \A q \in Proc \ {p} : job'[q] = job[q]
        BY <1>0, <2>1, WorkGoesOn
  <2>3. p \notin posting /\ UNCHANGED <<pageVars, postVars>>
        BY <1>0, <2>1, <2>2 DEF Work, Connections
  <2>4. Opens'
        BY <1>0, <2>1, <2>2, NewsWork DEF At
  <2>5. CASE meta' # meta
    <3>1. \A x \in Person : Brings(p, x)'
          BY <2>1, <2>5, NewsWork DEF Brings, At
    <3> QED BY <1>0, <2>4, <3>1 DEF RoomInv, RoomTypes
  <2>6. CASE meta' = meta /\ meta # None
    <3>1. ASSUME NEW x \in owed, NEW q \in Proc, Brings(q, x) PROVE Brings(q, x)'
      <4>1. CASE q # p
            BY <2>2, <2>3, <2>6, <3>1, <4>1, NewsOthers DEF pageVars, postVars
      <4>2. CASE q = p
            BY <2>1, <2>2, <2>3, <2>6, <3>1, <4>2, NewsWork DEF Brings, At, postVars
      <4> QED BY <4>1, <4>2
    <3>2. owed' = owed
          BY <2>1, <2>6 DEF Work
    <3> QED BY <1>0, <2>4, <2>6, <3>1, <3>2
  <2> QED BY <2>4, <2>5, <2>6
<1>5. CASE \E p \in Proc : Query(p)
  <2>1. PICK p \in Proc : Query(p)
        BY <1>5
  <2>2. /\ UNCHANGED <<vars, pageVars, history>> /\ posting' = posting \cup {p}
        /\ p \notin posting
        BY <2>1 DEF Query
  <2>3. ASSUME NEW x \in owed, NEW q \in Proc, Brings(q, x) PROVE Brings(q, x)'
    <3>1. conn[x] \in Connected
          BY <1>0 DEF Connected, Connections, RoomTypes
    <3>2. CASE q = p
      <4>1. list'[p] = Connected
            BY <1>0, <2>1, <2>3, <3>2 DEF Query, Brings, RoomTypes
      <4> QED BY <2>2, <2>3, <3>1, <3>2, <4>1 DEF Brings, At, vars, pageVars
    <3>3. CASE q # p
      <4>1. list'[q] = list[q]
            BY <1>0, <2>1, <3>3 DEF Query, RoomTypes
      <4> QED BY <2>2, <2>3, <3>3, <4>1 DEF Brings, At, vars, pageVars
    <3> QED BY <3>2, <3>3
  <2> QED BY <1>0, <2>2, <2>3 DEF vars, history, At
<1>6. CASE \E p \in Proc : Post(p)
  <2>1. PICK p \in Proc : Post(p)
        BY <1>6
  <2>2. PICK v \in list[p] :
          /\ list' = [list EXCEPT ![p] = @ \ {v}]
          /\ \/ (\A x \in Person : conn[x] # v) /\ owed' = owed
             \/ \E x \in Person :
                  /\ conn[x] = v
                  /\ owed' = IF meta # None /\ job[p].votes = meta.votes
                               THEN owed \ {x} ELSE owed
        BY <2>1 DEF Post
  <2>3. UNCHANGED <<vars, conn, posting>>
        BY <2>1 DEF Post
  <2>4. owed' \subseteq owed
        BY <2>2
  <2>5. ASSUME meta # None, NEW x \in owed', NEW q \in Proc, Brings(q, x) PROVE Brings(q, x)'
    <3>1. CASE q = p
      <4>1. job[p].votes = meta.votes
            BY <2>1, <2>5, <3>1 DEF Brings, Post, At
      <4>2. x \in Person /\ conn[x] # None
            BY <1>0, <2>4 DEF Connections, RoomTypes
      <4>3. conn[x] # v
            BY <1>0, <2>2, <2>5, <4>1, <4>2 DEF Connections
      <4>4. list'[p] = list[p] \ {v}
            BY <1>0, <2>2 DEF RoomTypes
      <4> QED BY <2>3, <2>5, <3>1, <4>3, <4>4 DEF Brings, At, vars
    <3>2. CASE q # p
      <4>1. list'[q] = list[q]
            BY <1>0, <2>2, <3>2 DEF RoomTypes
      <4> QED BY <2>3, <2>5, <3>2, <4>1 DEF Brings, At, vars
    <3> QED BY <3>1, <3>2
  <2> QED BY <1>0, <2>3, <2>4, <2>5 DEF vars, At
<1>7. CASE \E p \in Proc : Finish(p) \/ Fail(p)
  <2>1. PICK p \in Proc : Finish(p) \/ Fail(p)
        BY <1>7
  <2>2. job'[p].pc = "idle" /\ \A q \in Proc \ {p} : job'[q] = job[q]
        BY <1>0, <2>1, OthersStay, EndsAs DEF Finish, Fail, Send, Abort, End
  <2>3. /\ UNCHANGED <<meta, conn>> /\ posting' = posting \ {p}
        /\ \A q \in Proc \ {p} : list'[q] = list[q]
        BY <1>0, <2>1 DEF Finish, Fail, Send, Abort, pageVars, table, RoomTypes
  <2>4. owed' \subseteq owed /\ \A x \in owed' : ~Brings(p, x)
        BY <2>1 DEF Finish, Fail, history, Brings, Send, At
  <2>5. Opens'
        BY <1>0, <2>2 DEF At
  <2>6. ASSUME NEW x \in owed', NEW q \in Proc, Brings(q, x) PROVE Brings(q, x)'
        BY <2>2, <2>3, <2>4, <2>6 DEF Brings, At
  <2> QED BY <1>0, <2>3, <2>4, <2>5, <2>6
<1>8. CASE Lapse
      BY <1>0, <1>8 DEF Lapse, Expire, pageVars, postVars, Brings, At
<1>9. CASE UNCHANGED roomVars
      BY <1>0, <1>9 DEF roomVars, vars, pageVars, postVars, history, Brings, At
<1> QED BY <1>1, <1>2, <1>3, <1>4, <1>5, <1>6, <1>7, <1>8, <1>9 DEF RoomNext, Lambda

\* Everybody is told of the result, for any number of viewers and Lambdas, and with
\* every fault but replicas that lag: failing calls, expiring records, overlapping
\* messages.
THEOREM ResultReachesEveryone == RoomSpec => []EveryoneToldOfResult
<1>1. RoomSpec => []NewsInv
      BY NewsInit, NewsStep, PTL DEF RoomSpec
<1>2. NewsInv => EveryoneToldOfResult
      BY DEF NewsInv, EveryoneToldOfResult, Brings, At
<1> QED BY <1>1, <1>2, PTL

-----------------------------------------------------------------------------
(* Own answers.  Between the two reads and the posts of an answer the      *)
(* choices of its visitor do not change, because he has one message under  *)
(* way, and the counters count them, because they match the records.       *)

Truth(v, votes, mine) == mine = ChoicesOf(v, records) /\ \A c \in mine : votes[c] > 0

AnswerInv ==
  /\ \A p \in Proc :
       /\ At(p, "readMine") => \A c \in ChoicesOf(job[p].who, records) : job[p].votes[c] > 0
       /\ At(p, "send") => Truth(job[p].who, job[p].votes, job[p].mine)
  /\ \A x \in Person : conn[x] \notin Presenter
  /\ \A x \in answered :
       /\ screen[x] # None /\ Truth(conn[x], screen[x].votes, screen[x].mine)
       /\ \A p \in Proc : job[p].who = conn[x] => At(p, "send")

\* Until the first record expires.
FreshInv == RoomInv /\ OneMessageEach /\ CountInv /\ AnswerInv

OwnInv == RoomInv /\ OneMessageEach /\ (lapses = 0 => CountInv /\ AnswerInv)

LEMMA OwnInit == RoomInit => OwnInv
BY RoomInvInit, CountInit, ConstantsAssumption
DEF RoomInit, Init, OwnInv, AnswerInv, OneMessageEach, At, NoJob

\* A counter that matches the records is positive for every choice that somebody has.
LEMMA OwnVoteCounts ==
  ASSUME CountInv, meta # None, NEW v \in Visitor, NEW c \in ChoicesOf(v, records)
  PROVE  meta.votes[c] > 0
<1>1. c \in Choice /\ v \in VotersFor(c)
      BY DEF ChoicesOf, VotersFor
<1>2. Cardinality(VotersFor(c)) # 0
      BY <1>1, VotersFinite, FS_EmptySet
<1> QED BY <1>1, <1>2, VotersFinite DEF CountInv, CountersMatchRecords

\* What a step of a Lambda does to the choices, and what it has read when it sends.
LEMMA OwnWork ==
  ASSUME FreshInv, NEW p \in Proc, Work(p)
  PROVE  /\ job[p].who \in Visitor /\ job'[p].who \in {job[p].who, None}
         /\ \A u \in Visitor \ {job[p].who} : ChoicesOf(u, records') = ChoicesOf(u, records)
         /\ At(p, "readMine")' =>
              /\ records' = records /\ job'[p].who = job[p].who
              /\ \A c \in ChoicesOf(job[p].who, records) : job'[p].votes[c] > 0
         /\ At(p, "send")' =>
              /\ records' = records /\ job'[p].who = job[p].who
              /\ Truth(job[p].who, job'[p].votes, job'[p].mine)
<1>0. TypeInv /\ job[p] \in Job /\ MetaReads = {meta} /\ RecordReads = {records}
      BY RoomAssumption DEF FreshInv, RoomInv, TypeInv, TypeOK, MetaReads, RecordReads
<1>00. ~At(p, "idle") /\ job[p].who \in Visitor
  <2>1. ~At(p, "idle")
        BY DEF Work, PutMeta, ReadMeta, ReadMine, VoteMeta, VoteMine, Vote, SwitchMeta, Switch, At
  <2> QED BY <1>0, <2>1 DEF TypeInv, Carries, Complete, At
<1>1. CASE PutMeta(p)
  <2>1. job'[p].pc = "readMeta" /\ job'[p].who = job[p].who /\ records' = records
        BY <1>0, <1>1, MovesAs DEF PutMeta
  <2> QED BY <1>00, <2>1 DEF At
<1>2. CASE ReadMeta(p)
  <2>1. records' = records
        BY <1>2 DEF ReadMeta, table
  <2>2. CASE meta = None
    <3>1. job'[p].pc = "idle" /\ job'[p].who = None
          BY <1>0, <1>2, <2>2, EndsAs DEF ReadMeta
    <3> QED BY <1>00, <2>1, <3>1 DEF At
  <2>3. CASE meta # None
    <3>1. Becomes(p, [job[p] EXCEPT !.pc = "readMine", !.max = meta.max, !.votes = meta.votes])
          BY <1>0, <1>2, <2>3 DEF ReadMeta
    <3>2. job'[p] = [job[p] EXCEPT !.pc = "readMine", !.max = meta.max, !.votes = meta.votes]
          BY <1>0, <3>1, OthersStay
    <3>3. job'[p].pc = "readMine" /\ job'[p].who = job[p].who /\ job'[p].votes = meta.votes
          BY <1>0, <3>2 DEF Job
    <3>4. \A c \in ChoicesOf(job[p].who, records) : meta.votes[c] > 0
          BY <1>00, <2>3, OwnVoteCounts DEF FreshInv
    <3> QED BY <1>00, <2>1, <3>3, <3>4 DEF At
  <2> QED BY <2>2, <2>3
<1>3. CASE ReadMine(p)
  <2>1. At(p, "readMine") /\ records' = records
        BY <1>3 DEF ReadMine, table
  <2>2. Becomes(p, [job[p] EXCEPT !.pc = "send", !.mine = ChoicesOf(job[p].who, records)])
        BY <1>0, <1>3 DEF ReadMine
  <2>3. job'[p] = [job[p] EXCEPT !.pc = "send", !.mine = ChoicesOf(job[p].who, records)]
        BY <1>0, <2>2, OthersStay
  <2>4. /\ job'[p].pc = "send" /\ job'[p].who = job[p].who /\ job'[p].votes = job[p].votes
        /\ job'[p].mine = ChoicesOf(job[p].who, records)
        BY <1>0, <2>3 DEF Job
  <2> QED BY <1>00, <2>1, <2>4 DEF FreshInv, AnswerInv, Truth, At
<1>4. CASE VoteMeta(p) \/ VoteMine(p) \/ Vote(p) \/ SwitchMeta(p) \/ Switch(p)
  <2>1. /\ job'[p].pc \notin {"readMine", "send"}
        /\ job'[p].who \in {job[p].who, None}
    <3>1. CASE VoteMeta(p)
          BY <1>0, <3>1, VoteMetaAs
    <3>2. CASE VoteMine(p)
          BY <1>0, <3>2, RefreshesAs, MovesAs DEF VoteMine
    <3>3. CASE Vote(p)
          BY <1>0, <3>3, EndsAs, RefreshesAs DEF Vote
    <3>4. CASE SwitchMeta(p)
          BY <1>0, <3>4, EndsAs, RefreshesAs, MovesAs DEF SwitchMeta
    <3>5. CASE Switch(p)
          BY <1>0, <3>5, EndsAs, RefreshesAs DEF Switch
    <3> QED BY <1>4, <3>1, <3>2, <3>3, <3>4, <3>5
  <2>2. \A u \in Visitor \ {job[p].who} : ChoicesOf(u, records') = ChoicesOf(u, records)
    <3>1. CASE VoteMeta(p) \/ VoteMine(p) \/ SwitchMeta(p)
          BY <3>1 DEF VoteMeta, VoteMine, SwitchMeta, table
    <3>2. CASE Vote(p)
          BY <3>2 DEF Vote, table, ChoicesOf
    <3>3. CASE Switch(p)
          BY <3>3 DEF Switch, table, ChoicesOf
    <3> QED BY <1>4, <3>1, <3>2, <3>3
  <2> QED BY <1>00, <2>1, <2>2 DEF At
<1> QED BY <1>1, <1>2, <1>3, <1>4 DEF Work

\* A message that arrives is its sender's only one, and changes no choice.
LEMMA OwnHandle ==
  ASSUME FreshInv, NEW p \in Proc, NEW v, At(p, "idle"), UNCHANGED <<records, screen, conn>>,
         \A q \in Proc \ {p} : job'[q] = job[q],
         job'[p].who = v, job'[p].pc \notin {"readMine", "send"},
         answered' \subseteq answered, \A x \in answered' : conn[x] # v
  PROVE  AnswerInv'
BY DEF FreshInv, AnswerInv, Truth, At, RoomInv, RoomTypes

LEMMA FreshStep ==
  ASSUME FreshInv, [RoomNext]_roomVars, ~Lapse, OneMessageEach'
  PROVE  CountInv' /\ AnswerInv'
<1>0. /\ RoomInv /\ RoomInv' /\ TypeInv /\ Connections /\ RoomTypes
      /\ OneMessageEach /\ OneMessageEach' /\ CountInv'
  <2>1. CountInv'
        BY PollStep, CountStep DEF FreshInv
  <2> QED BY <2>1, RoomInvStep DEF FreshInv, RoomInv
<1> SUFFICES AnswerInv'
    BY <1>0
<1>1. CASE \E x \in Person : Arrive(x) \/ Go(x)
  <2>1. PICK x \in Person : Arrive(x) \/ Go(x)
        BY <1>1
  <2>2. UNCHANGED <<vars, screen>>
        BY <2>1 DEF Arrive, Go
  <2>3. /\ answered' \subseteq answered
        /\ \A y \in answered' : conn'[y] = conn[y]
        BY <1>0, <2>1 DEF Arrive, Go, history, RoomTypes, Connections
  <2>4. \A y \in Person : conn'[y] \notin Presenter
        BY <1>0, <2>1, ConstantsAssumption DEF Arrive, Go, FreshInv, AnswerInv, RoomTypes
  <2> QED BY <2>2, <2>3, <2>4 DEF FreshInv, AnswerInv, Truth, At, vars, table
<1>2. CASE \E p \in Proc, x \in Person, c \in Choice : Click(p, x, c)
  <2>1. PICK p \in Proc, x \in Person, c \in Choice : Click(p, x, c)
        BY <1>2
  <2>2. At(p, "idle") /\ UNCHANGED table /\ \A q \in Proc \ {p} : job'[q] = job[q]
        BY <1>0, <2>1, HandleStarts DEF Click, Handle
  <2>3. job'[p].who = conn[x] /\ UNCHANGED pageVars /\ answered' = answered \ {x}
        BY <2>1 DEF Click
  <2>4. \A y \in answered' : conn[y] # conn[x]
        BY <1>0, <2>3 DEF Connections, RoomTypes
  <2>5. job'[p].pc \in {"voteMeta", "switchMeta"}
    <3>1. CASE HandlePollVote(p)
      <4>1. PICK v \in Visitor, d \in Choice :
              Becomes(p, [NoJob EXCEPT !.pc = "voteMeta", !.who = v, !.choice = d])
            BY <3>1 DEF HandlePollVote, Start
      <4>2. job'[p] = [NoJob EXCEPT !.pc = "voteMeta", !.who = v, !.choice = d]
            BY <1>0, <4>1, OthersStay
      <4> QED BY <4>2 DEF NoJob
    <3>2. CASE HandlePollSwitch(p)
      <4>1. PICK v \in Visitor, d, e \in Choice :
              Becomes(p, [NoJob EXCEPT !.pc = "switchMeta", !.who = v, !.choice = d, !.to = e])
            BY <3>2 DEF HandlePollSwitch, Start
      <4>2. job'[p] = [NoJob EXCEPT !.pc = "switchMeta", !.who = v, !.choice = d, !.to = e]
            BY <1>0, <4>1, OthersStay
      <4> QED BY <4>2 DEF NoJob
    <3> QED BY <2>1, <3>1, <3>2 DEF Click
  <2> QED BY <2>2, <2>3, <2>4, <2>5, OwnHandle DEF table, pageVars
<1>3. CASE \E p \in Proc : Open(p)
  <2>1. PICK p \in Proc : Open(p)
        BY <1>3
  <2>2. At(p, "idle") /\ UNCHANGED table /\ \A q \in Proc \ {p} : job'[q] = job[q]
        BY <1>0, <2>1, HandleStarts DEF Open, Handle
  <2>3. PICK v \in Presenter, o \in Offer :
          Becomes(p, [NoJob EXCEPT !.pc = "putMeta", !.who = v, !.offer = o,
                                   !.audience = "room"])
        BY <2>1 DEF Open, HandlePollOpen, Start
  <2>4. job'[p] = [NoJob EXCEPT !.pc = "putMeta", !.who = v, !.offer = o, !.audience = "room"]
        BY <1>0, <2>3, OthersStay
  <2>5. job'[p].pc = "putMeta" /\ job'[p].who = v
        BY <2>4 DEF NoJob
  <2>6. UNCHANGED <<screen, conn, answered>>
        BY <2>1 DEF Open, pageVars, history
  <2>7. \A x \in answered : conn[x] # v
        BY <1>0, <2>3 DEF FreshInv, AnswerInv, RoomTypes
  <2> QED BY <2>2, <2>5, <2>6, <2>7, OwnHandle DEF table
<1>4. CASE \E p \in Proc : Work(p)
  <2>1. PICK p \in Proc : Work(p)
        BY <1>4
  <2> DEFINE v == job[p].who
  <2>2. ~At(p, "send") /\ \A q \in Proc \ {p} : job'[q] = job[q]
        BY <1>0, <2>1, WorkGoesOn
  <2>3. UNCHANGED <<screen, conn, answered>>
        BY <2>1 DEF Work, pageVars
  <2>4. /\ v \in Visitor /\ job'[p].who \in {v, None}
        /\ \A u \in Visitor \ {v} : ChoicesOf(u, records') = ChoicesOf(u, records)
        BY <2>1, OwnWork
  <2>5. ASSUME NEW q \in Proc
        PROVE  /\ At(q, "readMine")' =>
                    \A c \in ChoicesOf(job'[q].who, records') : job'[q].votes[c] > 0
               /\ At(q, "send")' => Truth(job[q].who, job[q].votes, job[q].mine)'
    <3>1. CASE q = p
          BY <2>1, <3>1, OwnWork DEF At, Truth
    <3>2. CASE q # p /\ ~At(q, "idle")
      <4>1. job[q].who \in Visitor /\ job[q].who # v
            BY <1>0, <2>4, <3>2 DEF TypeInv, Carries, Complete, At, OneMessageEach
      <4> QED BY <2>2, <2>4, <3>2, <4>1 DEF FreshInv, AnswerInv, Truth, At
    <3>3. CASE q # p /\ At(q, "idle")
          BY <2>2, <3>3 DEF At
    <3> QED BY <3>1, <3>2, <3>3
  <2>6. ASSUME NEW x \in answered
        PROVE  /\ screen[x] # None /\ Truth(conn[x], screen[x].votes, screen[x].mine)'
               /\ \A q \in Proc : job'[q].who = conn[x] => At(q, "send")'
    <3>1. conn[x] \in Visitor /\ conn[x] # None /\ conn[x] # v
          BY <1>0, <2>2 DEF RoomTypes, Connections, FreshInv, AnswerInv
    <3> QED BY <2>2, <2>3, <2>4, <3>1 DEF FreshInv, AnswerInv, Truth, At
  <2> HIDE DEF v
  <2> QED BY <2>3, <2>5, <2>6 DEF FreshInv, AnswerInv
<1>5. CASE \E p \in Proc : Query(p)
  <2>1. PICK p \in Proc : Query(p)
        BY <1>5
  <2> QED BY <2>1 DEF Query, FreshInv, AnswerInv, Truth, At, vars, table, pageVars, history
<1>6. CASE \E p \in Proc : Post(p)
  <2>1. PICK p \in Proc : Post(p)
        BY <1>6
  <2>2. UNCHANGED <<vars, conn>> /\ At(p, "send")
        BY <2>1 DEF Post
  <2>3. PICK v \in list[p] :
          \/ UNCHANGED <<screen, answered>>
          \/ \E x \in Person :
               /\ conn[x] = v
               /\ screen' = Show(p, x)
               /\ answered' = IF job[p].who = v /\ screen'[x] # None THEN answered \cup {x}
                              ELSE IF screen' = screen THEN answered ELSE answered \ {x}
        BY <2>1 DEF Post
  <2>4. UNCHANGED <<records, job>>
        BY <2>2 DEF vars, table
  <2>5. CASE UNCHANGED <<screen, answered>>
        BY <2>2, <2>4, <2>5 DEF FreshInv, AnswerInv, Truth, At
  <2>6. ASSUME NEW x \in Person, conn[x] = v, screen' = Show(p, x),
               answered' = IF job[p].who = v /\ screen'[x] # None THEN answered \cup {x}
                           ELSE IF screen' = screen THEN answered ELSE answered \ {x}
        PROVE  AnswerInv'
    <3>1. \A y \in Person \ {x} : screen'[y] = screen[y]
          BY <1>0, <2>6 DEF Show, RoomTypes
    <3>2. ASSUME x \in answered', job[p].who = v, screen'[x] # None
          PROVE  /\ Truth(conn[x], screen'[x].votes, screen'[x].mine)
                 /\ \A q \in Proc : job[q].who = conn[x] => At(q, "send")
      <4>1. screen'[x] = [votes |-> job[p].votes, mine |-> job[p].mine]
            BY <1>0, <2>6, <3>2 DEF Show, RoomTypes
      <4>2. Truth(job[p].who, job[p].votes, job[p].mine)
            BY <2>2 DEF FreshInv, AnswerInv
      <4>3. job[p].who \in Visitor
            BY <1>0, <2>2 DEF TypeInv, Carries, Complete, At
      <4> QED BY <1>0, <2>2, <2>6, <3>2, <4>1, <4>2, <4>3 DEF OneMessageEach
    <3>3. ASSUME NEW y \in answered'
          PROVE  /\ screen'[y] # None /\ Truth(conn[y], screen'[y].votes, screen'[y].mine)
                 /\ \A q \in Proc : job[q].who = conn[y] => At(q, "send")
      <4>1. CASE y = x /\ job[p].who = v /\ screen'[x] # None
            BY <3>2, <3>3, <4>1
      <4>2. CASE y = x /\ ~(job[p].who = v /\ screen'[x] # None)
            BY <2>6, <3>3, <4>2 DEF FreshInv, AnswerInv
      <4>3. CASE y # x
            BY <1>0, <2>6, <3>1, <3>3, <4>3 DEF FreshInv, AnswerInv, RoomTypes
      <4> QED BY <4>1, <4>2, <4>3
    <3> QED BY <2>2, <2>4, <3>3 DEF FreshInv, AnswerInv, Truth, At
  <2> QED BY <2>3, <2>5, <2>6
<1>7. CASE \E p \in Proc : Finish(p) \/ Fail(p)
  <2>1. PICK p \in Proc : Finish(p) \/ Fail(p)
        BY <1>7
  <2>2. /\ job'[p].pc = "idle" /\ job'[p].who = None
        /\ \A q \in Proc \ {p} : job'[q] = job[q]
        BY <1>0, <2>1, OthersStay, EndsAs DEF Finish, Fail, Send, Abort, End
  <2>3. UNCHANGED <<records, screen, conn, answered>>
        BY <2>1 DEF Finish, Fail, Send, Abort, pageVars, table, history
  <2>4. \A x \in answered : conn[x] # None
        BY <1>0 DEF Connections
  <2> QED BY <2>2, <2>3, <2>4 DEF FreshInv, AnswerInv, Truth, At
<1>8. CASE UNCHANGED roomVars
      BY <1>8 DEF roomVars, vars, table, pageVars, history, FreshInv, AnswerInv, Truth, At
<1> QED BY <1>1, <1>2, <1>3, <1>4, <1>5, <1>6, <1>7, <1>8 DEF RoomNext, Lambda

LEMMA OwnStep ==
  ASSUME "overlap" \notin Faults, OwnInv, [RoomNext]_roomVars
  PROVE  OwnInv'
<1>1. RoomInv' /\ OneMessageEach'
      BY RoomInvStep, RoomIsPollStep, OneMessageStep DEF OwnInv, RoomInv
<1>2. lapses' = 0 => lapses = 0 /\ ~Lapse
  <2>1. CASE Lapse
        BY <2>1 DEF Lapse, OwnInv, RoomInv, RoomTypes
  <2>2. CASE ~Lapse
        BY <2>2 DEF RoomNext, roomVars, Lambda, Arrive, Go, Click, Open, Work, Query, Post,
                    Finish, Fail, history
  <2> QED BY <2>1, <2>2
<1> QED BY <1>1, <1>2, FreshStep DEF OwnInv, FreshInv

\* What a viewer is answered is true, for any number of viewers, options and Lambdas and
\* with failing calls, if his messages are handled one after the other, until a record
\* of the poll expires.
THEOREM OwnAnswerHolds ==
  ASSUME "overlap" \notin Faults
  PROVE  RoomSpec => []OwnAnswerIsTrue
<1>1. RoomSpec => []OwnInv
      BY OwnInit, OwnStep, PTL DEF RoomSpec
<1>2. OwnInv => OwnAnswerIsTrue
      BY DEF OwnInv, AnswerInv, Truth, OwnAnswerIsTrue
<1> QED BY <1>1, <1>2, PTL
=============================================================================

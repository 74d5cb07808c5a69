----------------------------- MODULE PollProofs -----------------------------
(* Theorems about Poll for every value of its constants. *)
EXTENDS Poll, FiniteSetTheorems, TLAPS

-----------------------------------------------------------------------------
(* Types.  What a job carries depends on where it is.                      *)

Chooses == {"voteMeta", "voteMine", "vote", "unvote", "switchMeta", "switch"}

Complete(j) ==
  /\ j.pc # "idle" => j.who \in Visitor
  /\ j.pc = "idle" => j.who = None
  /\ j.pc = "putMeta" => j.offer \in Offer
  /\ j.pc \in Chooses => j.choice \in Choice
  /\ j.pc \in {"switchMeta", "switch"} => j.to \in Choice /\ j.to # j.choice

Carries == \A p \in Proc : Complete(job[p])

TypeInv == TypeOK /\ Carries

LEMMA NoJobType == NoJob \in Job /\ Complete(NoJob)
BY DEF NoJob, Job, PC, Zero, Tally, Complete, Chooses

LEMMA JobStep ==
  ASSUME TypeInv, NEW p \in Proc, NEW j \in Job, Complete(j), Becomes(p, j)
  PROVE  job' \in [Proc -> Job] /\ Carries'
BY DEF TypeInv, TypeOK, Carries, Becomes

LEMMA EndStep ==
  ASSUME TypeInv, NEW p \in Proc, End(p)
  PROVE  job' \in [Proc -> Job] /\ Carries'
BY NoJobType, JobStep DEF End

LEMMA RefreshStep ==
  ASSUME TypeInv, NEW p \in Proc, ~At(p, "idle"), NEW x \in {"room", "sender"}, Refresh(p, x)
  PROVE  job' \in [Proc -> Job] /\ Carries'
<1> DEFINE j == [job[p] EXCEPT !.pc = "readMeta", !.audience = x]
<1>1. job[p] \in Job /\ Complete(job[p])
      BY DEF TypeInv, TypeOK, Carries
<1>2. j \in Job
      BY <1>1 DEF Job, PC
<1>3. Complete(j)
      BY <1>1 DEF Complete, At, Job, Chooses
<1> HIDE DEF j
<1> QED BY <1>2, <1>3, JobStep DEF Refresh, j

LEMMA StartStep ==
  ASSUME TypeInv, NEW p \in Proc, NEW v \in Visitor, NEW j \in Job, Complete(j), Start(p, v, j)
  PROVE  TypeInv'
BY JobStep DEF TypeInv, TypeOK, Start, table, seen

LEMMA TypeInit == Init => TypeInv
BY NoJobType DEF Init, TypeInv, TypeOK, Carries

LEMMA TypeHandle ==
  ASSUME TypeInv, NEW p \in Proc, Handle(p)
  PROVE  TypeInv'
<1>1. CASE HandlePollOpen(p)
  <2>1. PICK v \in Presenter, o \in Offer :
          Start(p, v, [NoJob EXCEPT !.pc = "putMeta", !.who = v, !.offer = o,
                                    !.audience = "room"])
        BY <1>1 DEF HandlePollOpen
  <2> DEFINE j == [NoJob EXCEPT !.pc = "putMeta", !.who = v, !.offer = o, !.audience = "room"]
  <2>2. v \in Visitor /\ j \in Job /\ Complete(j)
        BY NoJobType, ConstantsAssumption DEF NoJob, Job, PC, Complete, Chooses
  <2> HIDE DEF j
  <2> QED BY <2>1, <2>2, StartStep DEF j
<1>2. CASE HandlePollGet(p)
  <2>1. CASE \E v \in Visitor : Start(p, v, [NoJob EXCEPT !.pc = "readMeta", !.who = v])
    <3>1. PICK v \in Visitor : Start(p, v, [NoJob EXCEPT !.pc = "readMeta", !.who = v])
          BY <2>1
    <3> DEFINE j == [NoJob EXCEPT !.pc = "readMeta", !.who = v]
    <3>2. j \in Job /\ Complete(j)
          BY NoJobType DEF NoJob, Job, PC, Complete, Chooses
    <3> HIDE DEF j
    <3> QED BY <3>1, <3>2, StartStep DEF j
  <2>2. CASE \E v \in Presenter, o \in Offer :
               Start(p, v, [NoJob EXCEPT !.pc = "putMeta", !.who = v, !.offer = o])
    <3>1. PICK v \in Presenter, o \in Offer :
            Start(p, v, [NoJob EXCEPT !.pc = "putMeta", !.who = v, !.offer = o])
          BY <2>2
    <3> DEFINE j == [NoJob EXCEPT !.pc = "putMeta", !.who = v, !.offer = o]
    <3>2. v \in Visitor /\ j \in Job /\ Complete(j)
          BY NoJobType, ConstantsAssumption DEF NoJob, Job, PC, Complete, Chooses
    <3> HIDE DEF j
    <3> QED BY <3>1, <3>2, StartStep DEF j
  <2> QED BY <1>2, <2>1, <2>2 DEF HandlePollGet
<1>3. CASE HandlePollVote(p)
  <2>1. PICK v \in Visitor, c \in Choice :
          Start(p, v, [NoJob EXCEPT !.pc = "voteMeta", !.who = v, !.choice = c])
        BY <1>3 DEF HandlePollVote
  <2> DEFINE j == [NoJob EXCEPT !.pc = "voteMeta", !.who = v, !.choice = c]
  <2>2. j \in Job /\ Complete(j)
        BY NoJobType DEF NoJob, Job, PC, Complete, Chooses
  <2> HIDE DEF j
  <2> QED BY <2>1, <2>2, StartStep DEF j
<1>4. CASE HandlePollUnvote(p)
  <2>1. PICK v \in Visitor, c \in Choice :
          Start(p, v, [NoJob EXCEPT !.pc = "unvote", !.who = v, !.choice = c])
        BY <1>4 DEF HandlePollUnvote
  <2> DEFINE j == [NoJob EXCEPT !.pc = "unvote", !.who = v, !.choice = c]
  <2>2. j \in Job /\ Complete(j)
        BY NoJobType DEF NoJob, Job, PC, Complete, Chooses
  <2> HIDE DEF j
  <2> QED BY <2>1, <2>2, StartStep DEF j
<1>5. CASE HandlePollSwitch(p)
  <2>1. PICK v \in Visitor, c \in Choice, d \in Choice :
          c # d /\ Start(p, v, [NoJob EXCEPT !.pc = "switchMeta", !.who = v, !.choice = c, !.to = d])
        BY <1>5 DEF HandlePollSwitch
  <2> DEFINE j == [NoJob EXCEPT !.pc = "switchMeta", !.who = v, !.choice = c, !.to = d]
  <2>2. j \in Job /\ Complete(j)
        BY <2>1, NoJobType DEF NoJob, Job, PC, Complete, Chooses
  <2> HIDE DEF j
  <2> QED BY <2>1, <2>2, StartStep DEF j
<1> QED BY <1>1, <1>2, <1>3, <1>4, <1>5 DEF Handle

\* The counters stay integers, whatever is added to one of them.
LEMMA PlusTally ==
  ASSUME NEW t \in Tally, NEW c \in Choice, NEW n \in Int
  PROVE  /\ Plus(t, c, n) \in Tally
         /\ \A e \in Choice : Plus(t, c, n)[e] = t[e] + IF e = c THEN n ELSE 0
BY DEF Plus, Tally

LEMMA CountTally ==
  ASSUME meta \in Meta, NEW c \in Choice, NEW n \in Int, Count(c, n)
  PROVE  /\ meta' \in Meta /\ meta'.options = meta.options /\ meta'.max = meta.max
         /\ \A e \in Choice : meta'.votes[e] = meta.votes[e] + IF e = c THEN n ELSE 0
BY PlusTally DEF Count, Meta

\* A vote that moves takes one off a counter and adds one to another.
LEMMA MoveTally ==
  ASSUME meta \in Meta, NEW c \in Choice, NEW d \in Choice, c # d, Move(c, d)
  PROVE  /\ meta' \in Meta /\ meta'.options = meta.options /\ meta'.max = meta.max
         /\ \A e \in Choice :
              meta'.votes[e] = meta.votes[e] + IF e = c THEN -1 ELSE IF e = d THEN 1 ELSE 0
<1> DEFINE one == Plus(meta.votes, c, -1)
           two == Plus(one, d, 1)
<1>1. /\ one \in Tally
      /\ \A e \in Choice : one[e] = meta.votes[e] + IF e = c THEN -1 ELSE 0
      BY PlusTally DEF Meta
<1>2. meta' = [meta EXCEPT !.votes = two]
      BY DEF Move
<1> HIDE DEF one
<1>3. two \in Tally /\ \A e \in Choice : two[e] = one[e] + IF e = d THEN 1 ELSE 0
      BY <1>1, PlusTally
<1> HIDE DEF two
<1>4. meta' \in Meta /\ meta'.options = meta.options /\ meta'.max = meta.max
      /\ meta'.votes = two
      BY <1>2, <1>3 DEF Meta
<1>5. ASSUME NEW e \in Choice
      PROVE  two[e] = meta.votes[e] + IF e = c THEN -1 ELSE IF e = d THEN 1 ELSE 0
      BY <1>1, <1>3 DEF Meta, Tally
<1> QED BY <1>4, <1>5

LEMMA TypeCall ==
  ASSUME TypeInv, NEW p \in Proc, Call(p)
  PROVE  TypeInv'
<1> USE DEF TypeInv, table, seen
<1>0. job[p] \in Job /\ Complete(job[p])
      BY DEF TypeOK, Carries
<1>r. \A m \in MetaReads : m # None => m \in Meta
      BY DEF MetaReads, TypeOK
<1>1. CASE PutMeta(p)
  <2> DEFINE j == [job[p] EXCEPT !.pc = "readMeta"]
  <2>1. j \in Job /\ Complete(j)
        BY <1>0, <1>1 DEF PutMeta, At, Job, PC, Complete, Chooses
  <2>2. meta' \in Meta \cup {None}
        BY <1>0, <1>1, ConstantsAssumption
        DEF PutMeta, At, Complete, TypeOK, Meta, Tally, Zero
  <2>3. Becomes(p, j)
        BY <1>1 DEF PutMeta
  <2> HIDE DEF j
  <2> QED BY <1>1, <2>1, <2>2, <2>3, JobStep DEF PutMeta, TypeOK
<1>2. CASE ReadMeta(p)
  <2>1. PICK m \in MetaReads :
          IF m = None THEN End(p)
          ELSE Becomes(p, [job[p] EXCEPT !.pc = "readMine", !.max = m.max, !.votes = m.votes])
        BY <1>2 DEF ReadMeta
  <2>2. CASE m # None
    <3> DEFINE j == [job[p] EXCEPT !.pc = "readMine", !.max = m.max, !.votes = m.votes]
    <3>1. j \in Job /\ Complete(j)
          BY <1>0, <1>2, <1>r, <2>2 DEF ReadMeta, At, Job, PC, Complete, Chooses, Meta
    <3>2. Becomes(p, j)
          BY <2>1, <2>2
    <3> HIDE DEF j
    <3> QED BY <1>2, <3>1, <3>2, JobStep DEF ReadMeta, TypeOK
  <2> QED BY <1>2, <2>1, <2>2, EndStep DEF ReadMeta, TypeOK
<1>3. CASE ReadMine(p)
  <2>1. PICK rs \in RecordReads :
          Becomes(p, [job[p] EXCEPT !.pc = "send", !.mine = ChoicesOf(job[p].who, rs)])
        BY <1>3 DEF ReadMine
  <2> DEFINE j == [job[p] EXCEPT !.pc = "send", !.mine = ChoicesOf(job[p].who, rs)]
  <2>2. j \in Job /\ Complete(j)
        BY <1>0, <1>3 DEF ReadMine, At, Job, PC, Complete, Chooses, ChoicesOf
  <2> HIDE DEF j
  <2> QED BY <1>3, <2>1, <2>2, JobStep DEF ReadMine, TypeOK, j
<1>4. CASE Send(p)
      BY <1>4, EndStep DEF Send, TypeOK
<1>5. CASE VoteMeta(p)
  <2>1. PICK m \in MetaReads :
          IF m = None THEN End(p)
          ELSE IF job[p].choice \notin m.options THEN Refresh(p, "sender")
          ELSE Becomes(p, [job[p] EXCEPT !.pc = "voteMine", !.max = m.max])
        BY <1>5 DEF VoteMeta
  <2>2. CASE m # None /\ job[p].choice \in m.options
    <3> DEFINE j == [job[p] EXCEPT !.pc = "voteMine", !.max = m.max]
    <3>1. j \in Job /\ Complete(j)
          BY <1>0, <1>5, <1>r, <2>2 DEF VoteMeta, At, Job, PC, Complete, Chooses, Meta
    <3>2. Becomes(p, j)
          BY <2>1, <2>2
    <3> HIDE DEF j
    <3> QED BY <1>5, <3>1, <3>2, JobStep DEF VoteMeta, TypeOK
  <2> QED BY <1>5, <2>1, <2>2, EndStep, RefreshStep DEF VoteMeta, TypeOK, At
<1>6. CASE VoteMine(p)
  <2>1. Refresh(p, "sender") \/ Becomes(p, [job[p] EXCEPT !.pc = "vote"])
        BY <1>6 DEF VoteMine
  <2> DEFINE j == [job[p] EXCEPT !.pc = "vote"]
  <2>2. j \in Job /\ Complete(j)
        BY <1>0, <1>6 DEF VoteMine, At, Job, PC, Complete, Chooses
  <2> HIDE DEF j
  <2> QED BY <1>6, <2>1, <2>2, JobStep, RefreshStep DEF VoteMine, TypeOK, At, j
<1>7. CASE Vote(p)
  <2>1. job[p].who \in Visitor /\ job[p].choice \in Choice
        BY <1>0, <1>7 DEF Vote, At, Complete, Chooses
  <2>2. Refresh(p, "room") \/ Refresh(p, "sender") \/ End(p)
        BY <1>7 DEF Vote
  <2>3. job' \in [Proc -> Job] /\ Carries'
        BY <1>7, <2>2, EndStep, RefreshStep DEF Vote, At
  <2>4. meta' \in Meta \cup {None} /\ records' \subseteq Visitor \X Choice
        BY <1>7, <2>1, CountTally DEF Vote, TypeOK
  <2> QED BY <1>7, <2>3, <2>4 DEF Vote, TypeOK
<1>8. CASE Unvote(p)
  <2>1. job[p].who \in Visitor /\ job[p].choice \in Choice
        BY <1>0, <1>8 DEF Unvote, At, Complete, Chooses
  <2>2. Refresh(p, "room") \/ Refresh(p, "sender") \/ End(p)
        BY <1>8 DEF Unvote
  <2>3. job' \in [Proc -> Job] /\ Carries'
        BY <1>8, <2>2, EndStep, RefreshStep DEF Unvote, At
  <2>4. meta' \in Meta \cup {None} /\ records' \subseteq Visitor \X Choice
        BY <1>8, <2>1, CountTally DEF Unvote, TypeOK
  <2> QED BY <1>8, <2>3, <2>4 DEF Unvote, TypeOK
<1>9. CASE SwitchMeta(p)
  <2>1. PICK m \in MetaReads :
          IF m = None THEN End(p)
          ELSE IF {job[p].choice, job[p].to} \subseteq m.options
            THEN Becomes(p, [job[p] EXCEPT !.pc = "switch"])
          ELSE Refresh(p, "sender")
        BY <1>9 DEF SwitchMeta
  <2> DEFINE j == [job[p] EXCEPT !.pc = "switch"]
  <2>2. j \in Job /\ Complete(j)
        BY <1>0, <1>9 DEF SwitchMeta, At, Job, PC, Complete, Chooses
  <2>3. End(p) \/ Refresh(p, "sender") \/ Becomes(p, j)
        BY <2>1
  <2> HIDE DEF j
  <2> QED BY <1>9, <2>2, <2>3, JobStep, EndStep, RefreshStep DEF SwitchMeta, TypeOK, At
<1>10. CASE Switch(p)
  <2>1. /\ job[p].who \in Visitor /\ job[p].choice \in Choice
        /\ job[p].to \in Choice /\ job[p].choice # job[p].to
        BY <1>0, <1>10 DEF Switch, At, Complete, Chooses
  <2>2. Refresh(p, "room") \/ Refresh(p, "sender") \/ End(p)
        BY <1>10 DEF Switch
  <2>3. job' \in [Proc -> Job] /\ Carries'
        BY <1>10, <2>2, EndStep, RefreshStep DEF Switch, At
  <2>4. records' \subseteq Visitor \X Choice
        BY <1>10, <2>1 DEF Switch, TypeOK
  <2>5. meta' \in Meta \cup {None}
        BY <1>10, <2>1, MoveTally DEF Switch, TypeOK
  <2> QED BY <1>10, <2>3, <2>4, <2>5 DEF Switch, TypeOK
<1> QED BY <1>1, <1>2, <1>3, <1>4, <1>5, <1>6, <1>7, <1>8, <1>9, <1>10 DEF Call

LEMMA TypeStep == TypeInv /\ [Next]_vars => TypeInv'
<1> SUFFICES ASSUME TypeInv, [Next]_vars PROVE TypeInv'
    OBVIOUS
<1>1. CASE \E p \in Proc : Handle(p) \/ Call(p) \/ Abort(p)
  <2>1. PICK p \in Proc : Handle(p) \/ Call(p) \/ Abort(p)
        BY <1>1
  <2>2. CASE Abort(p)
        BY <2>2, EndStep DEF Abort, TypeInv, TypeOK, table, seen
  <2> QED BY <2>1, <2>2, TypeHandle, TypeCall
<1>2. CASE CatchUp /\ UNCHANGED job
      BY <1>2 DEF CatchUp, TypeInv, TypeOK, Carries, table
<1>3. CASE Expire /\ UNCHANGED job
      BY <1>3 DEF Expire, TypeInv, TypeOK, Carries, seen
<1>4. CASE UNCHANGED vars
      BY <1>4 DEF vars, TypeInv, TypeOK, Carries
<1> QED BY <1>1, <1>2, <1>3, <1>4 DEF Next, Background

\* Every variable keeps its type, with every fault.
THEOREM TypeCorrect == Spec => []TypeOK
<1>1. Spec => []TypeInv
      BY TypeInit, TypeStep, PTL DEF Spec
<1> QED BY <1>1, PTL DEF TypeInv

-----------------------------------------------------------------------------
(* Counters.  The records that a counter counts change by one vote at a    *)
(* time, in the transaction that changes the counter.                      *)

LEMMA AddOne ==
  ASSUME NEW S, IsFiniteSet(S), NEW x, x \notin S
  PROVE  Cardinality(S \cup {x}) = Cardinality(S) + 1
BY FS_AddElement

LEMMA RemoveOne ==
  ASSUME NEW S, IsFiniteSet(S), NEW x \in S
  PROVE  Cardinality(S \ {x}) = Cardinality(S) - 1
BY FS_RemoveElement

LEMMA VotersFinite ==
  ASSUME NEW c PROVE IsFiniteSet(VotersFor(c)) /\ Cardinality(VotersFor(c)) \in Nat
<1>1. VotersFor(c) \subseteq Visitor
      BY DEF VotersFor
<1> QED BY <1>1, ConstantsAssumption, FS_Subset, FS_CardinalityType

LEMMA VoterAdded ==
  ASSUME NEW v \in Visitor, NEW c \in Choice, <<v, c>> \notin records,
         records' = records \cup {<<v, c>>}, NEW e \in Choice
  PROVE  Cardinality(VotersFor(e)') = Cardinality(VotersFor(e)) + IF e = c THEN 1 ELSE 0
<1>1. CASE e = c
  <2>1. VotersFor(e)' = VotersFor(e) \cup {v} /\ v \notin VotersFor(e)
        BY <1>1 DEF VotersFor
  <2> QED BY <1>1, <2>1, VotersFinite, AddOne
<1>2. CASE e # c
  <2>1. VotersFor(e)' = VotersFor(e)
        BY <1>2 DEF VotersFor
  <2> QED BY <1>2, <2>1, VotersFinite
<1> QED BY <1>1, <1>2

LEMMA VoterRemoved ==
  ASSUME NEW v \in Visitor, NEW c \in Choice, <<v, c>> \in records,
         records' = records \ {<<v, c>>}, NEW e \in Choice
  PROVE  Cardinality(VotersFor(e)') = Cardinality(VotersFor(e)) + IF e = c THEN -1 ELSE 0
<1>1. CASE e = c
  <2>1. VotersFor(e)' = VotersFor(e) \ {v} /\ v \in VotersFor(e)
        BY <1>1 DEF VotersFor
  <2> QED BY <1>1, <2>1, VotersFinite, RemoveOne
<1>2. CASE e # c
  <2>1. VotersFor(e)' = VotersFor(e)
        BY <1>2 DEF VotersFor
  <2> QED BY <1>2, <2>1, VotersFinite
<1> QED BY <1>1, <1>2

LEMMA VoterMoved ==
  ASSUME NEW v \in Visitor, NEW c \in Choice, NEW d \in Choice, c # d,
         <<v, c>> \in records, <<v, d>> \notin records,
         records' = (records \ {<<v, c>>}) \cup {<<v, d>>}, NEW e \in Choice
  PROVE  Cardinality(VotersFor(e)') =
           Cardinality(VotersFor(e)) + IF e = c THEN -1 ELSE IF e = d THEN 1 ELSE 0
<1>1. CASE e = c
  <2>1. VotersFor(e)' = VotersFor(e) \ {v} /\ v \in VotersFor(e)
        BY <1>1 DEF VotersFor
  <2> QED BY <1>1, <2>1, VotersFinite, RemoveOne
<1>2. CASE e = d
  <2>1. VotersFor(e)' = VotersFor(e) \cup {v} /\ v \notin VotersFor(e)
        BY <1>2 DEF VotersFor
  <2> QED BY <1>2, <2>1, VotersFinite, AddOne
<1>3. CASE e # c /\ e # d
  <2>1. VotersFor(e)' = VotersFor(e)
        BY <1>3 DEF VotersFor
  <2> QED BY <1>3, <2>1, VotersFinite
<1> QED BY <1>1, <1>2, <1>3

\* Before the poll is opened nothing is counted, because nothing can be recorded.
NothingBeforeOpening == meta = None => records = {}

CountInv == TypeInv /\ CountersMatchRecords /\ NothingBeforeOpening

LEMMA CountInit == Init => CountInv
BY TypeInit DEF Init, CountInv, CountersMatchRecords, NothingBeforeOpening

LEMMA CountUnchanged ==
  ASSUME CountInv, TypeInv', UNCHANGED table
  PROVE  CountInv'
BY DEF CountInv, CountersMatchRecords, NothingBeforeOpening, VotersFor, table

LEMMA CountCall ==
  ASSUME CountInv, TypeInv', NEW p \in Proc, Call(p)
  PROVE  CountInv'
<1> DEFINE v == job[p].who
           c == job[p].choice
<1>0. TypeInv /\ job[p] \in Job /\ Complete(job[p]) /\ (meta # None => meta \in Meta)
      BY DEF CountInv, TypeInv, TypeOK, Carries
<1>1. CASE PutMeta(p)
  <2>1. CASE meta = None
    <3>1. records = {} /\ records' = {} /\ meta'.votes = Zero
          BY <1>1, <2>1 DEF PutMeta, CountInv, NothingBeforeOpening
    <3>2. \A e \in Choice : Cardinality(VotersFor(e)') = 0
          BY <3>1, FS_EmptySet DEF VotersFor
    <3> QED BY <3>1, <3>2 DEF CountInv, CountersMatchRecords, NothingBeforeOpening, Zero
  <2>2. CASE meta # None
        BY <1>1, <2>2, CountUnchanged DEF PutMeta, table
  <2> QED BY <2>1, <2>2
<1>2. CASE Vote(p)
  <2>1. v \in Visitor /\ c \in Choice
        BY <1>0, <1>2 DEF Vote, At, Complete, Chooses
  <2>2. CASE UNCHANGED table
        BY <2>2, CountUnchanged
  <2>3. CASE /\ <<v, c>> \notin records /\ meta # None
             /\ records' = records \cup {<<v, c>>} /\ Count(c, 1)
    <3>1. \A e \in Choice : meta'.votes[e] = meta.votes[e] + IF e = c THEN 1 ELSE 0
          BY <1>0, <2>1, <2>3, CountTally
    <3>2. \A e \in Choice :
            Cardinality(VotersFor(e)') = Cardinality(VotersFor(e)) + IF e = c THEN 1 ELSE 0
          BY <2>1, <2>3, VoterAdded
    <3>3. CountersMatchRecords'
          BY <2>3, <3>1, <3>2 DEF CountInv, CountersMatchRecords
    <3>4. meta' # None
          BY <1>0, <2>1, <2>3, CountTally, ConstantsAssumption
    <3> QED BY <3>3, <3>4 DEF CountInv, NothingBeforeOpening
  <2> QED BY <1>2, <2>2, <2>3 DEF Vote
<1>3. CASE Unvote(p)
  <2>1. v \in Visitor /\ c \in Choice
        BY <1>0, <1>3 DEF Unvote, At, Complete, Chooses
  <2>2. CASE UNCHANGED table
        BY <2>2, CountUnchanged
  <2>3. CASE /\ <<v, c>> \in records /\ meta # None
             /\ records' = records \ {<<v, c>>} /\ Count(c, -1)
    <3>1. /\ \A e \in Choice : meta'.votes[e] = meta.votes[e] + IF e = c THEN -1 ELSE 0
          /\ meta' \in Meta
          BY <1>0, <2>1, <2>3, CountTally
    <3>2. \A e \in Choice :
            Cardinality(VotersFor(e)') = Cardinality(VotersFor(e)) + IF e = c THEN -1 ELSE 0
          BY <2>1, <2>3, VoterRemoved
    <3>3. CountersMatchRecords'
          BY <2>3, <3>1, <3>2 DEF CountInv, CountersMatchRecords
    <3>4. meta' # None
          BY <3>1, ConstantsAssumption
    <3> QED BY <3>3, <3>4 DEF CountInv, NothingBeforeOpening
  <2> QED BY <1>3, <2>2, <2>3 DEF Unvote
<1>4. CASE Switch(p)
  <2> DEFINE d == job[p].to
  <2>1. v \in Visitor /\ c \in Choice /\ d \in Choice /\ c # d
        BY <1>0, <1>4 DEF Switch, At, Complete, Chooses
  <2>2. CASE UNCHANGED table
        BY <2>2, CountUnchanged
  <2>3. CASE /\ <<v, c>> \in records /\ <<v, d>> \notin records /\ meta # None
             /\ records' = (records \ {<<v, c>>}) \cup {<<v, d>>} /\ Move(c, d)
    <3>1. /\ \A e \in Choice :
               meta'.votes[e] = meta.votes[e] + IF e = c THEN -1 ELSE IF e = d THEN 1 ELSE 0
          /\ meta' \in Meta
          BY <1>0, <2>1, <2>3, MoveTally
    <3>2. \A e \in Choice :
            Cardinality(VotersFor(e)') =
              Cardinality(VotersFor(e)) + IF e = c THEN -1 ELSE IF e = d THEN 1 ELSE 0
          BY <2>1, <2>3, VoterMoved
    <3>3. CountersMatchRecords'
          BY <2>3, <3>1, <3>2 DEF CountInv, CountersMatchRecords
    <3>4. meta' # None
          BY <3>1, ConstantsAssumption
    <3> QED BY <3>3, <3>4 DEF CountInv, NothingBeforeOpening
  <2> QED BY <1>4, <2>2, <2>3 DEF Switch
<1>5. CASE \/ ReadMeta(p) \/ ReadMine(p) \/ Send(p) \/ VoteMeta(p) \/ VoteMine(p)
           \/ SwitchMeta(p)
      BY <1>5, CountUnchanged DEF ReadMeta, ReadMine, Send, VoteMeta, VoteMine, SwitchMeta
<1> QED BY <1>1, <1>2, <1>3, <1>4, <1>5 DEF Call

\* What is done while the TTL removes nothing.
NextButExpire ==
  \/ \E p \in Proc : Handle(p) \/ Call(p) \/ Abort(p)
  \/ CatchUp /\ UNCHANGED job

LEMMA NextIs == [Next]_vars => [NextButExpire]_vars \/ (Expire /\ UNCHANGED job)
BY DEF Next, NextButExpire, Background

LEMMA CountStep ==
  ASSUME CountInv, [NextButExpire]_vars
  PROVE  CountInv'
<1>0. TypeInv'
      BY TypeStep DEF CountInv, Next, NextButExpire, Background
<1>1. CASE \E p \in Proc : Call(p)
      BY <1>0, <1>1, CountCall
<1>2. CASE \E p \in Proc : Handle(p) \/ Abort(p)
  <2>1. UNCHANGED table
        BY <1>2 DEF Handle, Abort, HandlePollOpen, HandlePollGet, HandlePollVote,
                    HandlePollUnvote, HandlePollSwitch, Start
  <2> QED BY <1>0, <2>1, CountUnchanged
<1>3. CASE CatchUp \/ UNCHANGED vars
      BY <1>0, <1>3, CountUnchanged DEF CatchUp, vars, table
<1> QED BY <1>1, <1>2, <1>3 DEF NextButExpire

\* The counters are those of the records for any number of visitors, options and
\* Lambda invocations, overlapping messages, stale checks and failing calls included.
THEOREM CountersAreRight ==
  ASSUME "expire" \notin Faults
  PROVE  Spec => []CountersMatchRecords
<1>1. CountInv /\ [Next]_vars => CountInv'
      BY NextIs, CountStep DEF Expire
<1>2. Spec => []CountInv
      BY <1>1, CountInit, PTL DEF Spec
<1> QED BY <1>2, PTL DEF CountInv

-----------------------------------------------------------------------------
(* What a step makes of the job of its Lambda.                             *)

\* A step of one Lambda leaves the jobs of the others alone.
LEMMA OthersStay ==
  ASSUME TypeInv, NEW p \in Proc, NEW j, Becomes(p, j)
  PROVE  job'[p] = j /\ \A q \in Proc \ {p} : job'[q] = job[q]
BY DEF TypeInv, TypeOK, Becomes

LEMMA HandleStarts ==
  ASSUME TypeInv, NEW p \in Proc, Handle(p)
  PROVE  At(p, "idle") /\ UNCHANGED table /\ \A q \in Proc \ {p} : job'[q] = job[q]
<1>1. PICK j : At(p, "idle") /\ Becomes(p, j) /\ UNCHANGED table
      BY DEF Handle, HandlePollOpen, HandlePollGet, HandlePollVote, HandlePollUnvote,
             HandlePollSwitch, Start
<1> QED BY <1>1, OthersStay

\* How a message begins.
Starts == {"putMeta", "readMeta", "voteMeta", "unvote", "switchMeta"}

LEMMA StartsAs ==
  ASSUME TypeInv, NEW p \in Proc, Handle(p)
  PROVE  /\ job'[p].pc \in Starts /\ job'[p].who \in Visitor
         /\ "overlap" \in Faults \/ \A q \in Proc : job[q].who # job'[p].who
         /\ UNCHANGED <<table, seen>>
<1>1. ASSUME NEW v \in Visitor, NEW j, Start(p, v, j), j.pc \in Starts, j.who = v
      PROVE  /\ job'[p].pc \in Starts /\ job'[p].who \in Visitor
             /\ "overlap" \in Faults \/ \A q \in Proc : job[q].who # job'[p].who
             /\ UNCHANGED <<table, seen>>
      BY <1>1, OthersStay DEF Start
<1>2. Presenter \subseteq Visitor
      BY ConstantsAssumption
<1>3. CASE HandlePollOpen(p)
      BY <1>1, <1>2, <1>3 DEF HandlePollOpen, NoJob, Starts
<1>4. CASE \E v \in Visitor : Start(p, v, [NoJob EXCEPT !.pc = "readMeta", !.who = v])
      BY <1>1, <1>4 DEF NoJob, Starts
<1>5. CASE \E v \in Presenter, o \in Offer :
             Start(p, v, [NoJob EXCEPT !.pc = "putMeta", !.who = v, !.offer = o])
      BY <1>1, <1>2, <1>5 DEF NoJob, Starts
<1>6. CASE HandlePollVote(p)
      BY <1>1, <1>6 DEF HandlePollVote, NoJob, Starts
<1>7. CASE HandlePollUnvote(p)
      BY <1>1, <1>7 DEF HandlePollUnvote, NoJob, Starts
<1>8. CASE HandlePollSwitch(p)
      BY <1>1, <1>8 DEF HandlePollSwitch, NoJob, Starts
<1> QED BY <1>3, <1>4, <1>5, <1>6, <1>7, <1>8 DEF Handle, HandlePollGet

LEMMA EndsAs ==
  ASSUME TypeInv, NEW p \in Proc, End(p)
  PROVE  job'[p].pc = "idle" /\ job'[p].who = None
<1>1. job'[p] = NoJob
      BY OthersStay DEF End
<1> QED BY <1>1 DEF NoJob

LEMMA RefreshesAs ==
  ASSUME TypeInv, NEW p \in Proc, NEW x, Refresh(p, x)
  PROVE  job'[p].pc = "readMeta" /\ job'[p].audience = x /\ job'[p].who = job[p].who
<1>1. job'[p] = [job[p] EXCEPT !.pc = "readMeta", !.audience = x]
      BY OthersStay DEF Refresh
<1>2. job[p] \in Job
      BY DEF TypeInv, TypeOK
<1> QED BY <1>1, <1>2 DEF Job

LEMMA MovesAs ==
  ASSUME TypeInv, NEW p \in Proc, NEW pc, Becomes(p, [job[p] EXCEPT !.pc = pc])
  PROVE  /\ job'[p].pc = pc /\ job'[p].audience = job[p].audience
         /\ job'[p].who = job[p].who /\ job'[p].choice = job[p].choice
         /\ job'[p].to = job[p].to
<1>1. job'[p] = [job[p] EXCEPT !.pc = pc]
      BY OthersStay
<1> QED BY <1>1 DEF TypeInv, TypeOK, Job

LEMMA ReadsAs ==
  ASSUME TypeInv, NEW p \in Proc, NEW pc, NEW n,
         Becomes(p, [job[p] EXCEPT !.pc = pc, !.max = n])
  PROVE  /\ job'[p].pc = pc /\ job'[p].who = job[p].who
         /\ job'[p].choice = job[p].choice
<1>1. job'[p] = [job[p] EXCEPT !.pc = pc, !.max = n]
      BY OthersStay
<1> QED BY <1>1 DEF TypeInv, TypeOK, Job

LEMMA VoteMetaAs ==
  ASSUME TypeInv, NEW p \in Proc, VoteMeta(p)
  PROVE  job'[p].pc \in {"idle", "readMeta", "voteMine"} /\ job'[p].who \in {job[p].who, None}
<1>1. PICK m \in MetaReads :
        \/ End(p)
        \/ Refresh(p, "sender")
        \/ Becomes(p, [job[p] EXCEPT !.pc = "voteMine", !.max = m.max])
      BY DEF VoteMeta
<1>2. CASE End(p)
      BY <1>2, EndsAs
<1>3. CASE Refresh(p, "sender")
      BY <1>3, RefreshesAs
<1>4. CASE Becomes(p, [job[p] EXCEPT !.pc = "voteMine", !.max = m.max])
      BY <1>4, ReadsAs
<1> QED BY <1>1, <1>2, <1>3, <1>4

\* The calls of Get.
LEMMA GetAs ==
  ASSUME TypeInv, NEW p \in Proc, PutMeta(p) \/ ReadMeta(p) \/ ReadMine(p) \/ Send(p)
  PROVE  /\ job'[p].pc \in {"idle", "readMeta", "readMine", "send"}
         /\ job'[p].who \in {job[p].who, None}
<1>0. job[p] \in Job
      BY DEF TypeInv, TypeOK
<1>1. CASE PutMeta(p)
      BY <1>1, MovesAs DEF PutMeta
<1>2. CASE ReadMeta(p)
  <2>1. PICK m \in MetaReads :
          \/ End(p)
          \/ Becomes(p, [job[p] EXCEPT !.pc = "readMine", !.max = m.max, !.votes = m.votes])
        BY <1>2 DEF ReadMeta
  <2>2. CASE End(p)
        BY <2>2, EndsAs
  <2>3. CASE Becomes(p, [job[p] EXCEPT !.pc = "readMine", !.max = m.max, !.votes = m.votes])
    <3>1. job'[p] = [job[p] EXCEPT !.pc = "readMine", !.max = m.max, !.votes = m.votes]
          BY <2>3, OthersStay
    <3> QED BY <1>0, <3>1 DEF Job
  <2> QED BY <2>1, <2>2, <2>3
<1>3. CASE ReadMine(p)
  <2>1. PICK rs : Becomes(p, [job[p] EXCEPT !.pc = "send", !.mine = ChoicesOf(job[p].who, rs)])
        BY <1>3 DEF ReadMine
  <2>2. job'[p] = [job[p] EXCEPT !.pc = "send", !.mine = ChoicesOf(job[p].who, rs)]
        BY <2>1, OthersStay
  <2> QED BY <1>0, <2>2 DEF Job
<1>4. CASE Send(p)
      BY <1>4, EndsAs DEF Send
<1> QED BY <1>1, <1>2, <1>3, <1>4

\* A call goes on for the visitor whose message it is, and for nobody else.
LEMMA CallAs ==
  ASSUME TypeInv, NEW p \in Proc, Call(p)
  PROVE  /\ ~At(p, "idle") /\ job[p].who \in Visitor
         /\ job'[p].who \in {job[p].who, None}
         /\ \A q \in Proc \ {p} : job'[q] = job[q]
<1>1. ~At(p, "idle")
      BY DEF Call, PutMeta, ReadMeta, ReadMine, Send, VoteMeta, VoteMine, Vote, Unvote,
             SwitchMeta, Switch, At
<1>2. job[p].who \in Visitor
      BY <1>1 DEF TypeInv, Carries, Complete, At
<1>3. \A q \in Proc \ {p} : job'[q] = job[q]
  <2>1. \E j : Becomes(p, j)
        BY DEF Call, PutMeta, ReadMeta, ReadMine, Send, VoteMeta, VoteMine, Vote, Unvote,
               SwitchMeta, Switch, End, Refresh
  <2> QED BY <2>1, OthersStay
<1>4. job'[p].who \in {job[p].who, None}
  <2>1. CASE PutMeta(p) \/ ReadMeta(p) \/ ReadMine(p) \/ Send(p)
        BY <2>1, GetAs
  <2>2. CASE VoteMeta(p)
        BY <2>2, VoteMetaAs
  <2>3. CASE VoteMine(p) \/ SwitchMeta(p)
        BY <2>3, EndsAs, RefreshesAs, MovesAs DEF VoteMine, SwitchMeta
  <2>4. CASE Vote(p) \/ Unvote(p) \/ Switch(p)
        BY <2>4, EndsAs, RefreshesAs DEF Vote, Unvote, Switch
  <2> QED BY <2>1, <2>2, <2>3, <2>4 DEF Call
<1> QED BY <1>1, <1>2, <1>3, <1>4

-----------------------------------------------------------------------------
(* The META record and the offer it was made from.  A poll that has        *)
(* expired may be opened again, with another offer.                        *)

SameLimit   == \A o, q \in Offer : o.max = q.max
SameOptions == \A o, q \in Offer : o.options = q.options

AsOffered ==
  meta # None => \E o \in Offer : o.options = meta.options /\ o.max = meta.max

\* No call takes META away or changes what it offers.
LEMMA MetaStays ==
  ASSUME TypeInv, meta # None, NEW p \in Proc, Call(p)
  PROVE  meta' # None /\ meta'.options = meta.options /\ meta'.max = meta.max
<1>0. meta \in Meta
      BY DEF TypeInv, TypeOK
<1>1. CASE meta' = meta
      BY <1>1
<1>2. CASE meta' # meta
  <2>1. meta' \in Meta /\ meta'.options = meta.options /\ meta'.max = meta.max
    <3>1. CASE Vote(p)
          BY <1>0, <1>2, <3>1, CountTally DEF Vote, TypeInv, Carries, Complete, Chooses, At, table
    <3>2. CASE Unvote(p)
          BY <1>0, <1>2, <3>2, CountTally DEF Unvote, TypeInv, Carries, Complete, Chooses, At, table
    <3>3. CASE Switch(p)
          BY <1>0, <1>2, <3>3, MoveTally DEF Switch, TypeInv, Carries, Complete, Chooses, At, table
    <3> QED BY <1>2, <3>1, <3>2, <3>3
            DEF Call, PutMeta, ReadMeta, ReadMine, Send, VoteMeta, VoteMine, SwitchMeta, table
  <2> QED BY <2>1, ConstantsAssumption
<1> QED BY <1>1, <1>2

LEMMA AsOfferedStep ==
  ASSUME TypeInv, AsOffered, NEW p \in Proc, Call(p)
  PROVE  AsOffered'
<1>1. CASE meta # None
      BY <1>1, MetaStays DEF AsOffered
<1>2. CASE meta = None /\ meta' # None
  <2>1. PutMeta(p)
        BY <1>2 DEF Call, ReadMeta, ReadMine, Send, VoteMeta, VoteMine, Vote, Unvote,
                    SwitchMeta, Switch, table
  <2>2. job[p].offer \in Offer
        BY <2>1 DEF PutMeta, TypeInv, Carries, Complete, At
  <2> QED BY <1>2, <2>1, <2>2 DEF PutMeta, AsOffered
<1>3. CASE meta' = None
      BY <1>3 DEF AsOffered
<1> QED BY <1>1, <1>2, <1>3

\* A call changes the choices of the visitor whose message it answers, and no others.
LEMMA OthersChoicesStay ==
  ASSUME NEW p \in Proc, Call(p), NEW u \in Visitor \ {job[p].who}
  PROVE  ChoicesOf(u, records') = ChoicesOf(u, records)
<1>1. CASE Vote(p) \/ Unvote(p) \/ Switch(p)
      BY <1>1 DEF Vote, Unvote, Switch, table, ChoicesOf
<1>2. CASE ~(Vote(p) \/ Unvote(p) \/ Switch(p))
      BY <1>2 DEF Call, PutMeta, ReadMeta, ReadMine, Send, VoteMeta, VoteMine, SwitchMeta, table
<1> QED BY <1>1, <1>2

-----------------------------------------------------------------------------
(* The limit.  maxChoices is compared with what a query has returned, one  *)
(* call before the transaction: it holds because nothing else adds to the  *)
(* visitor's choices meanwhile, that is, as long as he has one message     *)
(* under way and reads are not stale.                                      *)

OneMessageEach ==
  \A p, q \in Proc : job[p].who \in Visitor /\ job[p].who = job[q].who => p = q

LEMMA OneMessageStep ==
  ASSUME TypeInv, OneMessageEach, "overlap" \notin Faults, [Next]_vars
  PROVE  OneMessageEach'
<1>1. ASSUME NEW p \in Proc, job'[p].who \in {job[p].who, None},
             \A q \in Proc \ {p} : job'[q] = job[q]
      PROVE  OneMessageEach'
      BY <1>1, ConstantsAssumption DEF OneMessageEach
<1>2. CASE \E p \in Proc : Handle(p)
      BY <1>2, HandleStarts, StartsAs DEF OneMessageEach
<1>3. CASE \E p \in Proc : Call(p)
      BY <1>1, <1>3, CallAs
<1>4. CASE \E p \in Proc : Abort(p)
      BY <1>1, <1>4, EndsAs, OthersStay DEF Abort, End
<1>5. CASE UNCHANGED job
      BY <1>5 DEF OneMessageEach
<1> QED BY <1>2, <1>3, <1>4, <1>5 DEF Next, Background, vars

\* Whatever limit the poll has, or may be opened with, allows n choices.
Allows(n) == IF meta = None THEN \A o \in Offer : n <= o.max ELSE n <= meta.max

\* What the checks of Vote have established.
Checked(p) ==
  /\ At(p, "voteMine") => Allows(job[p].max)
  /\ At(p, "vote") => Allows(Cardinality(ChoicesOf(job[p].who, records)) + 1)

LimitInv ==
  /\ TypeInv /\ OneMessageEach /\ AsOffered
  /\ \A v \in Visitor : Allows(Cardinality(ChoicesOf(v, records)))
  /\ \A p \in Proc : Checked(p)

LEMMA ChoicesFinite ==
  ASSUME NEW v, NEW rs
  PROVE  IsFiniteSet(ChoicesOf(v, rs)) /\ Cardinality(ChoicesOf(v, rs)) \in Nat
<1>1. ChoicesOf(v, rs) \subseteq Choice
      BY DEF ChoicesOf
<1> QED BY <1>1, ConstantsAssumption, FS_Subset, FS_CardinalityType

\* What is allowed stays allowed: META keeps its limit, and begins with one of those
\* that may be offered.
LEMMA AllowsStays ==
  ASSUME NEW n, Allows(n), AsOffered',
         meta # None => meta' # None /\ meta'.max = meta.max
  PROVE  Allows(n)'
BY DEF Allows, AsOffered

LEMMA AllowsLess ==
  ASSUME TypeInv, NEW n \in Nat, NEW k \in Nat, k <= n, Allows(n)
  PROVE  Allows(k)
<1>1. meta # None => meta.max \in Nat
      BY DEF TypeInv, TypeOK, Meta
<1>2. \A o \in Offer : o.max \in Nat
      BY ConstantsAssumption
<1> QED BY <1>1, <1>2 DEF Allows

LEMMA LimitInit == Init => LimitInv
<1> SUFFICES ASSUME Init PROVE LimitInv
    OBVIOUS
<1>1. \A v \in Visitor : Cardinality(ChoicesOf(v, records)) = 0
      BY FS_EmptySet DEF Init, ChoicesOf
<1>2. Allows(0)
      BY ConstantsAssumption DEF Init, Allows
<1> QED BY <1>1, <1>2, TypeInit, ConstantsAssumption
        DEF Init, LimitInv, OneMessageEach, AsOffered, Checked, At, NoJob

\* A step that leaves the table alone need only look after the job it changes.
LEMMA LimitQuiet ==
  ASSUME LimitInv, TypeInv', OneMessageEach', UNCHANGED table,
         NEW p \in Proc, \A q \in Proc \ {p} : job'[q] = job[q], Checked(p)'
  PROVE  LimitInv'
<1>1. ASSUME NEW q \in Proc PROVE Checked(q)'
      BY <1>1 DEF LimitInv, Checked, Allows, At, table
<1> QED BY <1>1 DEF LimitInv, AsOffered, Allows, table

\* A call that may change the choices of its visitor leaves what has been checked for
\* the others as it is.
LEMMA LimitWrite ==
  ASSUME LimitInv, TypeInv', OneMessageEach', NEW p \in Proc, Call(p),
         job'[p].pc \notin {"voteMine", "vote"},
         Allows(Cardinality(ChoicesOf(job[p].who, records')))
  PROVE  LimitInv'
<1>1. AsOffered' /\ \A n : Allows(n) => Allows(n)'
      BY AsOfferedStep, AllowsStays, MetaStays DEF LimitInv
<1>2. job[p].who \in Visitor /\ \A q \in Proc \ {p} : job'[q] = job[q]
      BY CallAs DEF LimitInv
<1>3. \A u \in Visitor \ {job[p].who} : ChoicesOf(u, records') = ChoicesOf(u, records)
      BY OthersChoicesStay
<1>4. \A u \in Visitor : Allows(Cardinality(ChoicesOf(u, records)))'
      BY <1>1, <1>2, <1>3 DEF LimitInv
<1>5. ASSUME NEW q \in Proc PROVE Checked(q)'
  <2>1. CASE q = p
        BY <2>1 DEF Checked, At
  <2>2. CASE q # p /\ At(q, "vote")
    <3>1. job[q].who \in Visitor \ {job[p].who}
          BY <1>2, <2>2 DEF LimitInv, TypeInv, Carries, Complete, At, OneMessageEach
    <3> QED BY <1>1, <1>2, <1>3, <2>2, <3>1 DEF LimitInv, Checked, At
  <2>3. CASE q # p /\ ~At(q, "vote")
        BY <1>1, <1>2, <2>3 DEF LimitInv, Checked, At
  <2> QED BY <2>1, <2>2, <2>3
<1> QED BY <1>1, <1>4, <1>5 DEF LimitInv

\* A message that adds no choice.
LEMMA LimitNoMore ==
  ASSUME LimitInv, TypeInv', OneMessageEach', NEW p \in Proc, Call(p),
         job'[p].pc \notin {"voteMine", "vote"},
         Cardinality(ChoicesOf(job[p].who, records'))
           <= Cardinality(ChoicesOf(job[p].who, records))
  PROVE  LimitInv'
<1>1. job[p].who \in Visitor
      BY CallAs DEF LimitInv
<1>2. Allows(Cardinality(ChoicesOf(job[p].who, records')))
      BY <1>1, AllowsLess, ChoicesFinite DEF LimitInv
<1> QED BY <1>2, LimitWrite

LEMMA LimitCall ==
  ASSUME LimitInv, TypeInv', OneMessageEach', "stale" \notin Faults, NEW p \in Proc, Call(p)
  PROVE  LimitInv'
<1> DEFINE v == job[p].who
           c == job[p].choice
           d == job[p].to
           mine == ChoicesOf(v, records)
           mineNext == ChoicesOf(v, records')
<1>0. /\ TypeInv /\ job[p] \in Job /\ v \in Visitor
      /\ \A q \in Proc \ {p} : job'[q] = job[q]
      /\ MetaReads = {meta} /\ RecordReads = {records}
      BY CallAs DEF LimitInv, TypeInv, TypeOK, MetaReads, RecordReads
<1>1. IsFiniteSet(mine) /\ Cardinality(mine) \in Nat
      BY ChoicesFinite
<1>2. CASE PutMeta(p) \/ ReadMeta(p) \/ ReadMine(p) \/ Send(p)
  <2>1. job'[p].pc \notin {"voteMine", "vote"}
        BY <1>0, <1>2, GetAs
  <2>2. records' = records
        BY <1>2 DEF PutMeta, ReadMeta, ReadMine, Send, table
  <2> QED BY <1>1, <2>1, <2>2, LimitNoMore
<1>3. CASE VoteMeta(p)
  <2>1. CASE End(p) \/ Refresh(p, "sender")
        BY <1>0, <1>3, <2>1, EndsAs, RefreshesAs, LimitQuiet DEF VoteMeta, Checked, At
  <2>2. CASE meta # None /\ Becomes(p, [job[p] EXCEPT !.pc = "voteMine", !.max = meta.max])
    <3>1. job'[p].pc = "voteMine" /\ job'[p].max = meta.max
      <4>1. job'[p] = [job[p] EXCEPT !.pc = "voteMine", !.max = meta.max]
            BY <1>0, <2>2, OthersStay
      <4> QED BY <1>0, <4>1 DEF Job
    <3>2. meta.max <= meta.max
          BY <1>0, <2>2 DEF TypeInv, TypeOK, Meta
    <3>3. UNCHANGED table
          BY <1>3 DEF VoteMeta
    <3>4. Checked(p)'
          BY <2>2, <3>1, <3>2, <3>3 DEF Checked, Allows, At, table
    <3> QED BY <1>0, <3>3, <3>4, LimitQuiet
  <2> QED BY <1>0, <1>3, <2>1, <2>2 DEF VoteMeta
<1>4. CASE VoteMine(p)
  <2>1. CASE Refresh(p, "sender")
        BY <1>0, <1>4, <2>1, RefreshesAs, LimitQuiet DEF VoteMine, Checked, At
  <2>2. CASE ~(Cardinality(mine) >= job[p].max) /\ Becomes(p, [job[p] EXCEPT !.pc = "vote"])
    <3>1. job'[p].pc = "vote" /\ job'[p].who = v
          BY <1>0, <2>2, MovesAs
    <3>2. Allows(job[p].max) /\ UNCHANGED table
          BY <1>4 DEF VoteMine, LimitInv, Checked
    <3>3. Cardinality(mine) + 1 \in Nat /\ job[p].max \in Nat /\ Cardinality(mine) + 1 <= job[p].max
          BY <1>0, <1>1, <2>2 DEF Job
    <3>4. Allows(Cardinality(mine) + 1)
          BY <1>0, <3>2, <3>3, AllowsLess
    <3>5. Checked(p)'
          BY <3>1, <3>2, <3>4 DEF Checked, Allows, At, table
    <3> QED BY <1>0, <3>2, <3>5, LimitQuiet
  <2> QED BY <1>0, <1>4, <2>1, <2>2 DEF VoteMine
<1>5. CASE SwitchMeta(p)
  <2>1. job'[p].pc \notin {"voteMine", "vote"}
        BY <1>0, <1>5, EndsAs, RefreshesAs, MovesAs DEF SwitchMeta
  <2>2. records' = records
        BY <1>5 DEF SwitchMeta, table
  <2> QED BY <1>1, <2>1, <2>2, LimitNoMore
<1>6. CASE Vote(p) \/ Unvote(p) \/ Switch(p)
  <2>1. job'[p].pc \notin {"voteMine", "vote"}
        BY <1>0, <1>6, EndsAs, RefreshesAs DEF Vote, Unvote, Switch
  <2>2. CASE UNCHANGED records
        BY <1>1, <2>1, <2>2, LimitNoMore
  <2>3. CASE At(p, "vote") /\ records' = records \cup {<<v, c>>} /\ <<v, c>> \notin records
    <3>1. c \in Choice
          BY <1>0, <2>3 DEF TypeInv, Carries, Complete, Chooses, At
    <3>2. mineNext = mine \cup {c} /\ c \notin mine
          BY <1>0, <2>3, <3>1 DEF ChoicesOf
    <3>3. Cardinality(mineNext) = Cardinality(mine) + 1
          BY <1>1, <3>2, AddOne
    <3>4. Allows(Cardinality(mine) + 1)
          BY <2>3 DEF LimitInv, Checked
    <3> QED BY <2>1, <3>3, <3>4, LimitWrite
  <2>4. CASE At(p, "unvote") /\ records' = records \ {<<v, c>>} /\ <<v, c>> \in records
    <3>1. mineNext = mine \ {c} /\ c \in mine
          BY <1>0, <2>4 DEF ChoicesOf, TypeInv, Carries, Complete, Chooses, At
    <3>2. Cardinality(mineNext) = Cardinality(mine) - 1
          BY <1>1, <3>1, RemoveOne
    <3> QED BY <1>1, <2>1, <3>2, LimitNoMore
  <2>5. CASE /\ At(p, "switch") /\ records' = (records \ {<<v, c>>}) \cup {<<v, d>>}
             /\ <<v, c>> \in records /\ <<v, d>> \notin records
    <3>1. c \in Choice /\ d \in Choice /\ c # d
          BY <1>0, <2>5 DEF TypeInv, Carries, Complete, Chooses, At
    <3>2. mineNext = (mine \ {c}) \cup {d} /\ c \in mine /\ d \notin mine \ {c}
          BY <1>0, <2>5, <3>1 DEF ChoicesOf
    <3>3. IsFiniteSet(mine \ {c}) /\ Cardinality(mine \ {c}) = Cardinality(mine) - 1
          BY <1>1, <3>2, RemoveOne, FS_RemoveElement
    <3>4. Cardinality(mineNext) = Cardinality(mine \ {c}) + 1
          BY <3>2, <3>3, AddOne
    <3>5. Cardinality(mineNext) = Cardinality(mine)
          BY <1>1, <3>3, <3>4
    <3> QED BY <1>1, <2>1, <3>5, LimitNoMore
  <2> QED BY <1>6, <2>2, <2>3, <2>4, <2>5 DEF Vote, Unvote, Switch, table
<1> QED BY <1>2, <1>3, <1>4, <1>5, <1>6 DEF Call

\* A record that expires takes a choice away; META that expires may come back only with
\* the limit it had.
LEMMA LimitExpire ==
  ASSUME LimitInv, TypeInv', SameLimit, Expire, UNCHANGED job
  PROVE  LimitInv'
<1>1. \A n : Allows(n) => Allows(n)'
      BY DEF LimitInv, AsOffered, Allows, Expire, SameLimit
<1>2. AsOffered' /\ OneMessageEach' /\ records' \subseteq records
      BY DEF LimitInv, AsOffered, Expire, OneMessageEach
<1>3. ASSUME NEW v
      PROVE  Cardinality(ChoicesOf(v, records')) <= Cardinality(ChoicesOf(v, records))
  <2>1. ChoicesOf(v, records') \subseteq ChoicesOf(v, records)
        BY <1>2 DEF ChoicesOf
  <2> QED BY <2>1, ChoicesFinite, FS_Subset
<1>4. ASSUME NEW v \in Visitor PROVE Allows(Cardinality(ChoicesOf(v, records)))'
      BY <1>1, <1>3, AllowsLess, ChoicesFinite DEF LimitInv
<1>5. ASSUME NEW p \in Proc PROVE Checked(p)'
  <2> DEFINE k == Cardinality(ChoicesOf(job[p].who, records'))
             n == Cardinality(ChoicesOf(job[p].who, records))
  <2>1. k \in Nat /\ n \in Nat /\ k <= n
        BY <1>3, ChoicesFinite
  <2>2. Allows(n + 1) => Allows(k + 1)
        BY <2>1, AllowsLess DEF LimitInv
  <2> QED BY <1>1, <2>2 DEF LimitInv, Checked, At
<1> QED BY <1>2, <1>4, <1>5 DEF LimitInv

LEMMA LimitStep ==
  ASSUME Faults \cap {"overlap", "stale"} = {}, "expire" \in Faults => SameLimit
  PROVE  LimitInv /\ [Next]_vars => LimitInv'
<1> SUFFICES ASSUME LimitInv, [Next]_vars PROVE LimitInv'
    OBVIOUS
<1>0. TypeInv /\ TypeInv' /\ OneMessageEach'
      BY TypeStep, OneMessageStep DEF LimitInv
<1>1. CASE \E p \in Proc : Handle(p)
      BY <1>0, <1>1, HandleStarts, StartsAs, LimitQuiet DEF Checked, At, Starts
<1>2. CASE \E p \in Proc : Call(p)
      BY <1>0, <1>2, LimitCall
<1>3. CASE \E p \in Proc : Abort(p)
      BY <1>0, <1>3, EndsAs, OthersStay, LimitQuiet DEF Abort, End, Checked, At
<1>4. CASE Expire /\ UNCHANGED job
      BY <1>0, <1>4, LimitExpire DEF Expire
<1>5. CASE UNCHANGED vars
      BY <1>0, <1>5 DEF vars, LimitInv, AsOffered, Allows, Checked, At
<1> QED BY <1>1, <1>2, <1>3, <1>4, <1>5 DEF Next, Background, CatchUp

\* Nobody gets more choices than the poll allows, for any number of visitors, options
\* and Lambda invocations, if a visitor's messages are handled one after the other and
\* reads are consistent: two messages at once of one visitor get him two choices.
\* Records may expire, META before the votes and between a check and the vote it allows,
\* as long as the poll is not opened again with another limit.
THEOREM LimitIsKept ==
  ASSUME Faults \cap {"overlap", "stale"} = {}, "expire" \in Faults => SameLimit
  PROVE  Spec => []WithinMaxChoices
<1>1. Spec => []LimitInv
      BY LimitInit, LimitStep, PTL DEF Spec
<1>2. LimitInv => WithinMaxChoices
      BY DEF LimitInv, Allows, WithinMaxChoices
<1> QED BY <1>1, <1>2, PTL

-----------------------------------------------------------------------------
(* Options.  They are checked on a META record that may be stale, but one  *)
(* that never changes its options.                                         *)

\* Whatever options the poll has, or may be opened with, c is one of them.
Offers(c) == IF meta = None THEN \A o \in Offer : c \in o.options ELSE c \in meta.options

OptionsInv ==
  /\ TypeInv /\ AsOffered
  /\ \A r \in records : Offers(r[2])
  /\ metaSeen # None => \A c \in metaSeen.options : Offers(c)
  /\ \A p \in Proc :
       /\ job[p].pc \in {"voteMine", "vote"} => Offers(job[p].choice)
       /\ At(p, "switch") => Offers(job[p].to)

LEMMA OptionsInit == Init => OptionsInv
BY TypeInit, ConstantsAssumption
DEF Init, OptionsInv, AsOffered, At, NoJob

LEMMA OffersStays ==
  ASSUME NEW c, Offers(c), AsOffered',
         meta # None => meta' # None /\ meta'.options = meta.options
  PROVE  Offers(c)'
BY DEF Offers, AsOffered

\* A step that changes the job of one Lambda, and no record but for an option.
LEMMA OptionsKeep ==
  ASSUME OptionsInv, TypeInv', AsOffered', \A c : Offers(c) => Offers(c)',
         UNCHANGED seen, NEW p \in Proc, \A q \in Proc \ {p} : job'[q] = job[q],
         \A r \in records' \ records : Offers(r[2]),
         job'[p].pc \in {"voteMine", "vote"} => Offers(job'[p].choice),
         job'[p].pc = "switch" => Offers(job'[p].to)
  PROVE  OptionsInv'
BY DEF OptionsInv, seen, At

LEMMA OptionsCall ==
  ASSUME OptionsInv, TypeInv', NEW p \in Proc, Call(p)
  PROVE  OptionsInv'
<1>0. /\ TypeInv /\ \A m \in MetaReads : m # None => \A c \in m.options : Offers(c)
      /\ \A q \in Proc \ {p} : job'[q] = job[q]
      BY CallAs DEF OptionsInv, MetaReads, Offers
<1>1. AsOffered' /\ \A c : Offers(c) => Offers(c)'
      BY <1>0, AsOfferedStep, MetaStays, OffersStays DEF OptionsInv
<1>2. UNCHANGED seen
      BY DEF Call, PutMeta, ReadMeta, ReadMine, Send, VoteMeta, VoteMine, Vote, Unvote,
             SwitchMeta, Switch
<1>3. \A r \in records' \ records : Offers(r[2])
  <2>1. CASE Vote(p)
        BY <2>1 DEF Vote, At, table, OptionsInv
  <2>2. CASE Switch(p)
        BY <2>2 DEF Switch, At, table, OptionsInv
  <2>3. CASE ~(Vote(p) \/ Switch(p))
        BY <2>3 DEF Call, PutMeta, ReadMeta, ReadMine, Send, VoteMeta, VoteMine, Unvote,
                    SwitchMeta, table
  <2> QED BY <2>1, <2>2, <2>3
<1>4. /\ job'[p].pc \in {"voteMine", "vote"} => Offers(job'[p].choice)
      /\ job'[p].pc = "switch" => Offers(job'[p].to)
  <2>1. CASE PutMeta(p) \/ ReadMeta(p) \/ ReadMine(p) \/ Send(p)
        BY <1>0, <2>1, GetAs
  <2>2. CASE VoteMeta(p)
    <3>1. PICK m \in MetaReads :
            \/ End(p)
            \/ Refresh(p, "sender")
            \/ /\ m # None /\ job[p].choice \in m.options
               /\ Becomes(p, [job[p] EXCEPT !.pc = "voteMine", !.max = m.max])
          BY <2>2 DEF VoteMeta
    <3>2. CASE End(p) \/ Refresh(p, "sender")
          BY <1>0, <3>2, EndsAs, RefreshesAs
    <3>3. CASE /\ m # None /\ job[p].choice \in m.options
               /\ Becomes(p, [job[p] EXCEPT !.pc = "voteMine", !.max = m.max])
      <4>1. job'[p].pc = "voteMine" /\ job'[p].choice = job[p].choice
            BY <1>0, <3>3, ReadsAs
      <4>2. Offers(job[p].choice)
            BY <1>0, <3>3
      <4> QED BY <4>1, <4>2
    <3> QED BY <3>1, <3>2, <3>3
  <2>3. CASE VoteMine(p)
    <3>1. /\ At(p, "voteMine")
          /\ Refresh(p, "sender") \/ Becomes(p, [job[p] EXCEPT !.pc = "vote"])
          BY <2>3 DEF VoteMine
    <3> QED BY <1>0, <3>1, RefreshesAs, MovesAs DEF OptionsInv, At
  <2>4. CASE SwitchMeta(p)
    <3>1. PICK m \in MetaReads :
            \/ End(p)
            \/ Refresh(p, "sender")
            \/ /\ m # None /\ job[p].to \in m.options
               /\ Becomes(p, [job[p] EXCEPT !.pc = "switch"])
          BY <2>4 DEF SwitchMeta
    <3> QED BY <1>0, <3>1, EndsAs, RefreshesAs, MovesAs
  <2>5. CASE Vote(p) \/ Unvote(p) \/ Switch(p)
        BY <1>0, <2>5, EndsAs, RefreshesAs DEF Vote, Unvote, Switch
  <2> QED BY <2>1, <2>2, <2>3, <2>4, <2>5 DEF Call
<1> QED BY <1>0, <1>1, <1>2, <1>3, <1>4, OptionsKeep

LEMMA OptionsStep ==
  ASSUME "expire" \in Faults => SameOptions
  PROVE  OptionsInv /\ [Next]_vars => OptionsInv'
<1> SUFFICES ASSUME OptionsInv, [Next]_vars PROVE OptionsInv'
    OBVIOUS
<1>0. TypeInv /\ TypeInv'
      BY TypeStep DEF OptionsInv
<1>1. CASE \E p \in Proc : Call(p)
      BY <1>0, <1>1, OptionsCall
<1>2. CASE \E p \in Proc : Handle(p) \/ Abort(p)
  <2>1. PICK p \in Proc : Handle(p) \/ Abort(p)
        BY <1>2
  <2>2. /\ job'[p].pc \in Starts \cup {"idle"} /\ UNCHANGED <<table, seen>>
        /\ \A q \in Proc \ {p} : job'[q] = job[q]
        BY <1>0, <2>1, HandleStarts, StartsAs, EndsAs, OthersStay DEF Abort, End
  <2>3. AsOffered' /\ \A c : Offers(c) => Offers(c)'
        BY <2>2 DEF OptionsInv, AsOffered, Offers, table
  <2> QED BY <1>0, <2>2, <2>3, OptionsKeep DEF Starts, table
<1>3. CASE CatchUp /\ UNCHANGED job
  <2>1. UNCHANGED <<meta, records>> /\ metaSeen' \in {meta, metaSeen}
        BY <1>3 DEF CatchUp, table
  <2> QED BY <1>0, <1>3, <2>1 DEF OptionsInv, AsOffered, Offers, At
<1>4. CASE Expire /\ UNCHANGED job
  <2>1. \A c : Offers(c) => Offers(c)'
        BY <1>4 DEF OptionsInv, AsOffered, Offers, Expire, SameOptions
  <2>2. AsOffered' /\ records' \subseteq records /\ UNCHANGED seen
        BY <1>4 DEF OptionsInv, AsOffered, Expire
  <2> QED BY <1>0, <1>4, <2>1, <2>2 DEF OptionsInv, seen, At
<1>5. CASE UNCHANGED vars
      BY <1>0, <1>5 DEF vars, OptionsInv, AsOffered, Offers, At
<1> QED BY <1>1, <1>2, <1>3, <1>4, <1>5 DEF Next, Background

\* No vote is recorded for what is no option, with overlapping messages, stale reads,
\* failing calls, and records that expire as long as the poll is not opened again with
\* other options.
THEOREM VotesHaveOptions ==
  ASSUME "expire" \in Faults => SameOptions
  PROVE  Spec => []VotesAreForOptions
<1>1. Spec => []OptionsInv
      BY OptionsInit, OptionsStep, PTL DEF Spec
<1>2. OptionsInv => VotesAreForOptions
      BY DEF OptionsInv, Offers, VotesAreForOptions
<1> QED BY <1>1, <1>2, PTL

-----------------------------------------------------------------------------
(* The ballot.  A poll that many Lambdas open, vote in and read at once,   *)
(* each in several calls, is one that changes by a vote at a time within   *)
(* its options and, where the limit holds, within its limit.               *)

ballot == <<pollOf, tallyOf, records>>

OneByOne == Faults \cap {"overlap", "stale"} = {}

BallotInv == OptionsInv /\ (OneByOne => LimitInv)

LEMMA BallotSame ==
  ASSUME UNCHANGED table PROVE UNCHANGED ballot
BY DEF ballot, table, pollOf, tallyOf

\* While META is there the poll is open, with what META offers.
LEMMA PollIsOpen ==
  ASSUME BallotInv, meta # None
  PROVE  /\ meta \in Meta /\ tallyOf = meta.votes
         /\ pollOf # None /\ pollOf.options = meta.options /\ pollOf.max = meta.max
<1>1. meta \in Meta /\ tallyOf = meta.votes
      /\ pollOf = [options |-> meta.options, max |-> meta.max]
      BY DEF BallotInv, OptionsInv, TypeInv, TypeOK, pollOf, tallyOf
<1>2. PICK o \in Offer : o.options = meta.options /\ o.max = meta.max
      BY DEF BallotInv, OptionsInv, AsOffered
<1>3. pollOf = o
  <2>1. o \in [options : SUBSET Choice, max : Nat]
        BY ConstantsAssumption
  <2> QED BY <1>1, <1>2, <2>1
<1> QED BY <1>1, <1>3, ConstantsAssumption

\* A transaction that changes the counters leaves it open, with the same offer.
LEMMA PollStaysOpen ==
  ASSUME BallotInv, meta # None, meta' \in Meta,
         meta'.options = meta.options, meta'.max = meta.max
  PROVE  pollOf' = pollOf /\ tallyOf' = meta'.votes
<1>1. meta' # None
      BY ConstantsAssumption
<1> QED BY <1>1 DEF pollOf, tallyOf

LEMMA BallotOpens ==
  ASSUME BallotInv, NEW p \in Proc, PutMeta(p)
  PROVE  [Votes!BallotNext]_ballot
<1>1. CASE meta # None
      BY <1>1, BallotSame DEF PutMeta, table
<1>2. CASE meta = None
  <2> DEFINE o == job[p].offer
  <2>1. o \in Offer /\ o \in [options : SUBSET Choice, max : Nat]
        BY ConstantsAssumption
        DEF PutMeta, At, BallotInv, OptionsInv, TypeInv, Carries, Complete
  <2>2. meta' = [options |-> o.options, max |-> o.max, votes |-> Zero] /\ records' = records
        BY <1>2 DEF PutMeta
  <2>3. meta' \in Meta /\ meta' # None
        BY <2>1, <2>2, ConstantsAssumption DEF Meta, Tally, Zero
  <2>4. pollOf' = o /\ tallyOf' = Zero
        BY <2>1, <2>2, <2>3 DEF pollOf, tallyOf
  <2>5. pollOf = None /\ tallyOf = Zero /\ o # None
        BY <1>2, <2>1, ConstantsAssumption DEF pollOf, tallyOf
  <2>6. Votes!Open(o)
        BY <2>2, <2>4, <2>5 DEF Votes!Open
  <2>7. Votes!ballot' # Votes!ballot
        BY <2>4, <2>5 DEF Votes!ballot
  <2> QED BY <2>1, <2>6, <2>7 DEF Votes!BallotNext
<1> QED BY <1>1, <1>2

\* What VoteMeta and VoteMine have found still holds when the transaction is made.
LEMMA BallotCasts ==
  ASSUME BallotInv, NEW p \in Proc, Vote(p)
  PROVE  [Votes!BallotNext]_ballot
<1> DEFINE v == job[p].who
           c == job[p].choice
<1>1. CASE UNCHANGED table
      BY <1>1, BallotSame
<1>2. CASE /\ <<v, c>> \notin records /\ meta # None
           /\ records' = records \cup {<<v, c>>} /\ Count(c, 1)
  <2>1. v \in Visitor /\ c \in Choice /\ At(p, "vote")
        BY DEF Vote, At, BallotInv, OptionsInv, TypeInv, Carries, Complete, Chooses
  <2>2. /\ meta \in Meta /\ tallyOf = meta.votes
        /\ pollOf # None /\ pollOf.options = meta.options /\ pollOf.max = meta.max
        BY <1>2, PollIsOpen
  <2>3. pollOf' = pollOf /\ tallyOf' = meta'.votes
        BY <1>2, <2>1, <2>2, CountTally, PollStaysOpen
  <2>4. tallyOf' = [tallyOf EXCEPT ![c] = @ + 1]
        BY <1>2, <2>2, <2>3 DEF Count, Plus, Meta
  <2>5. c \in pollOf.options /\ c \notin Votes!Chosen(v)
        BY <1>2, <2>1, <2>2 DEF BallotInv, OptionsInv, Offers, At, Votes!Chosen
  <2>6. OneByOne => Votes!Cardinality(Votes!Chosen(v)) < pollOf.max
    <3>1. Votes!Cardinality(Votes!Chosen(v)) = Cardinality(ChoicesOf(v, records))
          BY Zenon DEF Votes!Chosen, ChoicesOf, Votes!Cardinality, Cardinality
    <3>2. OneByOne => Cardinality(ChoicesOf(v, records)) + 1 <= meta.max
          BY <1>2, <2>1 DEF BallotInv, LimitInv, Checked, Allows
    <3>3. Cardinality(ChoicesOf(v, records)) \in Nat /\ meta.max \in Nat
          BY <2>2, ChoicesFinite DEF Meta
    <3> QED BY <2>2, <3>1, <3>2, <3>3
  <2>7. Votes!Cast(v, c)
        BY <1>2, <2>2, <2>3, <2>4, <2>5, <2>6 DEF Votes!Cast, OneByOne
  <2>8. Votes!ballot' # Votes!ballot
        BY <1>2 DEF Votes!ballot
  <2> QED BY <2>1, <2>7, <2>8 DEF Votes!BallotNext
<1> QED BY <1>1, <1>2 DEF Vote

LEMMA BallotWithdraws ==
  ASSUME BallotInv, NEW p \in Proc, Unvote(p)
  PROVE  [Votes!BallotNext]_ballot
<1> DEFINE v == job[p].who
           c == job[p].choice
<1>1. CASE UNCHANGED table
      BY <1>1, BallotSame
<1>2. CASE /\ <<v, c>> \in records /\ meta # None
           /\ records' = records \ {<<v, c>>} /\ Count(c, -1)
  <2>1. v \in Visitor /\ c \in Choice
        BY DEF Unvote, At, BallotInv, OptionsInv, TypeInv, Carries, Complete, Chooses
  <2>2. meta \in Meta /\ tallyOf = meta.votes /\ pollOf # None
        BY <1>2, PollIsOpen
  <2>3. pollOf' = pollOf /\ tallyOf' = meta'.votes
        BY <1>2, <2>1, <2>2, CountTally, PollStaysOpen
  <2>4. tallyOf' = [tallyOf EXCEPT ![c] = @ - 1]
        BY <1>2, <2>1, <2>2, <2>3 DEF Count, Plus, Meta, Tally
  <2>5. c \in Votes!Chosen(v)
        BY <1>2, <2>1 DEF Votes!Chosen
  <2>6. Votes!Withdraw(v, c)
        BY <1>2, <2>2, <2>3, <2>4, <2>5 DEF Votes!Withdraw
  <2>7. Votes!ballot' # Votes!ballot
        BY <1>2 DEF Votes!ballot
  <2> QED BY <2>1, <2>6, <2>7 DEF Votes!BallotNext
<1> QED BY <1>1, <1>2 DEF Unvote

LEMMA BallotChanges ==
  ASSUME BallotInv, NEW p \in Proc, Switch(p)
  PROVE  [Votes!BallotNext]_ballot
<1> DEFINE v == job[p].who
           c == job[p].choice
           d == job[p].to
<1>1. CASE UNCHANGED table
      BY <1>1, BallotSame
<1>2. CASE /\ <<v, c>> \in records /\ <<v, d>> \notin records /\ meta # None
           /\ records' = (records \ {<<v, c>>}) \cup {<<v, d>>} /\ Move(c, d)
  <2>1. v \in Visitor /\ c \in Choice /\ d \in Choice /\ c # d /\ At(p, "switch")
        BY DEF Switch, At, BallotInv, OptionsInv, TypeInv, Carries, Complete, Chooses
  <2>2. /\ meta \in Meta /\ tallyOf = meta.votes
        /\ pollOf # None /\ pollOf.options = meta.options
        BY <1>2, PollIsOpen
  <2>3. pollOf' = pollOf /\ tallyOf' = meta'.votes
        BY <1>2, <2>1, <2>2, MoveTally, PollStaysOpen
  <2>4. tallyOf' = [tallyOf EXCEPT ![c] = @ - 1, ![d] = @ + 1]
        BY <1>2, <2>1, <2>2, <2>3 DEF Move, Plus, Meta, Tally
  <2>5. /\ c \in Votes!Chosen(v)
        /\ d \in pollOf.options /\ d \notin Votes!Chosen(v)
        BY <1>2, <2>1, <2>2 DEF BallotInv, OptionsInv, Offers, Votes!Chosen
  <2>6. Votes!Change(v, c, d)
        BY <1>2, <2>2, <2>3, <2>4, <2>5 DEF Votes!Change
  <2>7. Votes!ballot' # Votes!ballot
        BY <1>2 DEF Votes!ballot
  <2> QED BY <2>1, <2>6, <2>7 DEF Votes!BallotNext
<1> QED BY <1>1, <1>2 DEF Switch

LEMMA BallotLapses ==
  ASSUME BallotInv, Expire
  PROVE  [Votes!BallotNext]_ballot
<1>1. CASE UNCHANGED ballot
      BY <1>1
<1>2. CASE ballot' # ballot /\ meta' = None /\ UNCHANGED records
  <2>1. pollOf' = None /\ tallyOf' = Zero
        BY <1>2 DEF pollOf, tallyOf
  <2>2. Votes!Lapse
        BY <1>2, <2>1 DEF Expire, Votes!Lapse, Votes!Nought, Zero
  <2> QED BY <1>2, <2>2 DEF Votes!BallotNext, Votes!ballot, ballot
<1>3. CASE ballot' # ballot /\ \E r \in records : records' = records \ {r} /\ UNCHANGED meta
  <2>1. UNCHANGED <<pollOf, tallyOf>>
        BY <1>3 DEF pollOf, tallyOf
  <2>2. Votes!Lapse
        BY <1>3, <2>1 DEF Expire, Votes!Lapse
  <2> QED BY <1>3, <2>2 DEF Votes!BallotNext, Votes!ballot, ballot
<1> QED BY <1>1, <1>2, <1>3 DEF Expire

LEMMA BallotStep == BallotInv /\ [Next]_vars => [Votes!BallotNext]_ballot
<1> SUFFICES ASSUME BallotInv, [Next]_vars PROVE [Votes!BallotNext]_ballot
    OBVIOUS
<1>1. CASE UNCHANGED table
      BY <1>1, BallotSame
<1>2. CASE \E p \in Proc : PutMeta(p) \/ Vote(p) \/ Unvote(p) \/ Switch(p)
      BY <1>2, BallotOpens, BallotCasts, BallotWithdraws, BallotChanges
<1>3. CASE Expire
      BY <1>3, BallotLapses
<1>4. ASSUME NEW p \in Proc,
             \/ ReadMeta(p) \/ ReadMine(p) \/ Send(p)
             \/ VoteMeta(p) \/ VoteMine(p) \/ SwitchMeta(p) \/ Abort(p)
      PROVE  UNCHANGED table
      BY <1>4 DEF ReadMeta, ReadMine, Send, VoteMeta, VoteMine, SwitchMeta, Abort
<1>5. CASE \E p \in Proc : Handle(p)
      BY <1>1, <1>5, HandleStarts DEF BallotInv, OptionsInv
<1>6. CASE CatchUp \/ UNCHANGED vars
      BY <1>1, <1>6 DEF CatchUp, vars, table
<1> QED BY <1>1, <1>2, <1>3, <1>4, <1>5, <1>6 DEF Next, Call, Background

LEMMA BallotInitially == Init => Votes!BallotInit
BY DEF Init, Votes!BallotInit, Votes!Nought, pollOf, tallyOf, Zero

\* The poll implements the ballot, whatever messages overlap, reads are stale and calls
\* fail; the limit is part of it if messages of a visitor are handled one by one and
\* reads are consistent.  With a TTL it takes that what is opened again is the same.
THEOREM PollImplementsBallot ==
  ASSUME "expire" \in Faults => SameOptions /\ (OneByOne => SameLimit)
  PROVE  Spec => ImplementsBallot
<1>1. Spec => []OptionsInv
      BY OptionsInit, OptionsStep, PTL DEF Spec
<1>2. CASE OneByOne
  <2>1. Spec => []LimitInv
        BY <1>2, LimitInit, LimitStep, PTL DEF Spec, OneByOne
  <2>2. OptionsInv /\ LimitInv => BallotInv
        BY DEF BallotInv
  <2> QED BY <1>1, <2>1, <2>2, BallotInitially, BallotStep, PTL
          DEF Spec, ImplementsBallot, Votes!BallotSpec, Votes!ballot, ballot
<1>3. CASE ~OneByOne
  <2>1. OptionsInv => BallotInv
        BY <1>3 DEF BallotInv
  <2> QED BY <1>1, <2>1, BallotInitially, BallotStep, PTL
          DEF Spec, ImplementsBallot, Votes!BallotSpec, Votes!ballot, ballot
<1> QED BY <1>2, <1>3
=============================================================================

----------------------------- MODULE RoomProofs -----------------------------
(* Theorems about Room and RoomCount for every value of their constants. *)
EXTENDS RoomCount, TLAPS

-----------------------------------------------------------------------------
(* Types.  What a job carries depends on where it is.                      *)

Complete(j) ==
  /\ j.pc # "idle" => j.who \in Conn
  /\ j.pc = "put" => j.kind = "connect"
  /\ j.pc = "delete" => j.kind = "disconnect"
  /\ j.kind = "connect" => j.pc \in {"put", "query", "post", "gone"}
  /\ j.kind = "connect" => j.who \notin j.rest
  /\ j.pc = "gone" => j.gone \in j.rest
  /\ j.pc \in {"role", "putState", "query"} => j.kind \in Broadcasts

TypeInv == TypeOK /\ \A p \in Proc : Complete(job[p])

LEMMA NoJobType == NoJob \in Job /\ Complete(NoJob)
BY ConstantsAssumption DEF NoJob, Job, PC, Kind, Broadcasts, AboutPage, Complete

\* A step that changes one job.
LEMMA JobStep ==
  ASSUME TypeInv, NEW p \in Proc, NEW j \in Job, Complete(j), Becomes(p, j)
  PROVE  /\ job' = [x \in Proc |-> IF x = p THEN j ELSE job[x]]
         /\ job' \in [Proc -> Job]
         /\ \A x \in Proc : Complete(job'[x])
<1>1. job \in [Proc -> Job] /\ \A x \in Proc : Complete(job[x])
      BY DEF TypeInv, TypeOK
<1>2. job' = [x \in Proc |-> IF x = p THEN j ELSE job[x]]
      BY <1>1 DEF Becomes
<1>3. \A x \in Proc : job'[x] = IF x = p THEN j ELSE job[x]
      BY <1>2
<1>4. \A x \in Proc : Complete(job'[x])
  <2> SUFFICES ASSUME NEW x \in Proc PROVE Complete(job'[x])
      OBVIOUS
  <2>1. CASE x = p
        BY <1>3, <2>1
  <2>2. CASE x # p
        <3>1. job'[x] = job[x]
              BY <1>3, <2>2
        <3> QED BY <3>1, <1>1
  <2> QED BY <2>1, <2>2
<1>5. job' \in [Proc -> Job]
      BY <1>1, <1>2
<1> QED BY <1>2, <1>4, <1>5

LEMMA TypeInit == Init => TypeInv
BY NoJobType, ConstantsAssumption DEF Init, TypeInv, TypeOK, Link

\* The job that an event starts.
NewJob(kind, c, pc, pg) ==
  [NoJob EXCEPT !.pc = pc, !.kind = kind, !.who = c, !.page = pg,
                !.rest = IF kind \in Broadcasts THEN {} ELSE {c},
                !.owed = IF kind \in Broadcasts THEN Open \ {c} ELSE {c}]

\* Which events there are.
Starts(kind, pc) ==
  \/ kind = "connect" /\ pc = "put"
  \/ kind = "disconnect" /\ pc = "delete"
  \/ kind \in {"slide_sync", "hands_on"} /\ pc = "role"
  \/ kind = "viewer_count" /\ pc = "post"
  \/ kind = "get_state" /\ pc = "getState"

LEMMA NewJobType ==
  ASSUME NEW kind, NEW pc, Starts(kind, pc), NEW c \in Conn, NEW pg \in Page
  PROVE  /\ NewJob(kind, c, pc, pg) \in Job
         /\ Complete(NewJob(kind, c, pc, pg))
BY NoJobType DEF NewJob, Starts, NoJob, Job, PC, Kind, Broadcasts, AboutPage, Complete, Open

LEMMA StartStep ==
  ASSUME TypeInv, NEW p \in Proc, NEW kind, NEW pc, Starts(kind, pc), NEW c \in Conn,
         NEW pg \in Page, Start(p, kind, c, pc, pg)
  PROVE  /\ At(p, "idle") /\ MayStart(kind)
         /\ job' = [x \in Proc |-> IF x = p THEN NewJob(kind, c, pc, pg) ELSE job[x]]
         /\ job' \in [Proc -> Job] /\ \A x \in Proc : Complete(job'[x])
<1>1. At(p, "idle") /\ MayStart(kind) /\ Becomes(p, NewJob(kind, c, pc, pg))
      BY DEF Start, NewJob
<1> QED BY <1>1, NewJobType, JobStep

\* The event of connection c that starts such a job at p.
EventOf(p, kind, pc, c, pg) ==
  /\ Starts(kind, pc) /\ Start(p, kind, c, pc, pg)
  /\ UNCHANGED <<tables, seen, shown>> /\ asking' \subseteq asking
  /\ \/ kind = "connect" /\ link[c] = "new" /\ link' = [link EXCEPT ![c] = "connecting"]
     \/ kind = "disconnect" /\ link[c] = "closing" /\ link' = [link EXCEPT ![c] = "closed"]
     \/ /\ kind \notin {"connect", "disconnect"} /\ UNCHANGED link
        /\ c \in Open \cup asking

LEMMA Events ==
  ASSUME TypeInv, NEW p \in Proc, Event(p)
  PROVE  \E kind, pc : \E c \in Conn, pg \in Page : EventOf(p, kind, pc, c, pg)
<1>0. 0 \in Page /\ Open \subseteq Conn /\ asking \subseteq Conn
      BY ConstantsAssumption DEF Open, TypeInv, TypeOK
<1>1. CASE Connect(p)
  <2>1. PICK c \in Conn : /\ link[c] = "new" /\ Start(p, "connect", c, "put", 0)
                          /\ link' = [link EXCEPT ![c] = "connecting"]
        BY <1>1 DEF Connect
  <2>2. UNCHANGED <<tables, seen, shown, asking>>
        BY <1>1 DEF Connect
  <2>3. Starts("connect", "put")
        BY DEF Starts
  <2>4. EventOf(p, "connect", "put", c, 0)
        BY <1>0, <2>1, <2>2, <2>3 DEF EventOf
  <2> QED BY <1>0, <2>4
<1>2. CASE Disconnect(p)
  <2>1. PICK c \in Conn : /\ link[c] = "closing" /\ Start(p, "disconnect", c, "delete", 0)
                          /\ link' = [link EXCEPT ![c] = "closed"]
        BY <1>2 DEF Disconnect
  <2>2. UNCHANGED <<tables, seen, shown, asking>>
        BY <1>2 DEF Disconnect
  <2>3. Starts("disconnect", "delete")
        BY DEF Starts
  <2>4. EventOf(p, "disconnect", "delete", c, 0)
        BY <1>0, <2>1, <2>2, <2>3 DEF EventOf
  <2> QED BY <1>0, <2>4
<1>3. CASE SlideSync(p)
  <2>1. PICK pg \in Page, c \in Open : Start(p, "slide_sync", c, "role", pg)
        BY <1>3 DEF SlideSync, Message
  <2>2. UNCHANGED <<tables, seen, shown, asking>> /\ UNCHANGED link
        BY <1>3 DEF SlideSync, Message, clients
  <2>3. Starts("slide_sync", "role")
        BY DEF Starts
  <2>4. EventOf(p, "slide_sync", "role", c, pg)
        BY <1>0, <2>1, <2>2, <2>3 DEF EventOf
  <2> QED BY <1>0, <2>4
<1>4. CASE HandsOn(p)
  <2>1. PICK c \in Open : Start(p, "hands_on", c, "role", 0)
        BY <1>4 DEF HandsOn, Message
  <2>2. UNCHANGED <<tables, seen, shown, asking>> /\ UNCHANGED link
        BY <1>4 DEF HandsOn, Message, clients
  <2>3. Starts("hands_on", "role")
        BY DEF Starts
  <2>4. EventOf(p, "hands_on", "role", c, 0)
        BY <1>0, <2>1, <2>2, <2>3 DEF EventOf
  <2> QED BY <1>0, <2>4
<1>5. CASE ViewerCount(p)
  <2>1. PICK c \in Open : Start(p, "viewer_count", c, "post", 0)
        BY <1>5 DEF ViewerCount, Message
  <2>2. UNCHANGED <<tables, seen, shown, asking>> /\ UNCHANGED link
        BY <1>5 DEF ViewerCount, Message, clients
  <2>3. Starts("viewer_count", "post")
        BY DEF Starts
  <2>4. EventOf(p, "viewer_count", "post", c, 0)
        BY <1>0, <2>1, <2>2, <2>3 DEF EventOf
  <2> QED BY <1>0, <2>4
<1>6. CASE GetState(p)
  <2>1. PICK c \in asking : /\ Start(p, "get_state", c, "getState", 0)
                            /\ asking' = asking \ {c}
        BY <1>6 DEF GetState
  <2>2. UNCHANGED <<tables, seen, shown>> /\ UNCHANGED link
        BY <1>6 DEF GetState
  <2>3. Starts("get_state", "getState")
        BY DEF Starts
  <2>4. EventOf(p, "get_state", "getState", c, 0)
        BY <1>0, <2>1, <2>2, <2>3 DEF EventOf
  <2> QED BY <1>0, <2>4
<1> QED BY <1>1, <1>2, <1>3, <1>4, <1>5, <1>6 DEF Event

\* What a call makes of the job j of a Lambda.
Moved(j, pc) == [j EXCEPT !.pc = pc]
Refused(j) == [j EXCEPT !.kind = "error", !.pc = "post", !.rest = {j.who}, !.owed = {}]
Answers(j, pg) == [j EXCEPT !.pc = "post", !.page = pg]
Found(j, rs) == [j EXCEPT !.pc = "post",
                          !.rest = IF j.kind = "disconnect" THEN rs ELSE rs \ {j.who}]
Sent(j, c) == [j EXCEPT !.rest = j.rest \ {c}, !.owed = j.owed \ {c}]
IsGone(j, c) == [j EXCEPT !.pc = "gone", !.gone = c]
Dropped(j) == [j EXCEPT !.pc = "post", !.rest = j.rest \ {j.gone}, !.gone = None]
Released(j, c) == [j EXCEPT !.owed = j.owed \ {c}]

LEMMA MovesType ==
  ASSUME NEW j \in Job, Complete(j)
  PROVE  /\ j.pc \in {"put", "delete", "role", "putState"} =>
              Moved(j, "query") \in Job /\ Complete(Moved(j, "query"))
         /\ j.pc = "role" =>
              Moved(j, "putState") \in Job /\ Complete(Moved(j, "putState"))
         /\ j.pc # "idle" => Refused(j) \in Job /\ Complete(Refused(j))
         /\ \A pg \in Page : j.pc = "getState" =>
              Answers(j, pg) \in Job /\ Complete(Answers(j, pg))
         /\ \A rs \in SUBSET Conn : j.pc = "query" =>
              Found(j, rs) \in Job /\ Complete(Found(j, rs))
         /\ \A c \in Conn : j.pc = "post" => Sent(j, c) \in Job /\ Complete(Sent(j, c))
         /\ \A c \in j.rest : j.pc = "post" => IsGone(j, c) \in Job /\ Complete(IsGone(j, c))
         /\ j.pc = "gone" => Dropped(j) \in Job /\ Complete(Dropped(j))
         /\ \A c \in Conn : Released(j, c) \in Job /\ Complete(Released(j, c))
<1> USE DEF Job, PC, Kind, Broadcasts, AboutPage, Complete
<1>1. j.pc \in {"put", "delete", "role", "putState"} =>
              Moved(j, "query") \in Job /\ Complete(Moved(j, "query"))
      BY DEF Moved
<1>2. j.pc = "role" => Moved(j, "putState") \in Job /\ Complete(Moved(j, "putState"))
      BY DEF Moved
<1>3. j.pc # "idle" => Refused(j) \in Job /\ Complete(Refused(j))
      BY DEF Refused
<1>4. \A pg \in Page : j.pc = "getState" => Answers(j, pg) \in Job /\ Complete(Answers(j, pg))
      BY DEF Answers
<1>5. \A rs \in SUBSET Conn : j.pc = "query" => Found(j, rs) \in Job /\ Complete(Found(j, rs))
      BY DEF Found
<1>6. \A c \in Conn : j.pc = "post" => Sent(j, c) \in Job /\ Complete(Sent(j, c))
      BY DEF Sent
<1>7. \A c \in j.rest : j.pc = "post" => IsGone(j, c) \in Job /\ Complete(IsGone(j, c))
      BY DEF IsGone
<1>8. j.pc = "gone" => Dropped(j) \in Job /\ Complete(Dropped(j))
      BY DEF Dropped
<1>9. \A c \in Conn : Released(j, c) \in Job /\ Complete(Released(j, c))
      BY DEF Released
<1> QED BY <1>1, <1>2, <1>3, <1>4, <1>5, <1>6, <1>7, <1>8, <1>9

Still == UNCHANGED <<link, records, asking>>

\* What a call of the Lambda at p makes of its job, of the records and of the links.
Makes(p, j) ==
  \/ /\ job[p].pc = "put" /\ j = Moved(job[p], "query")
     /\ records' = records \cup {job[p].who} /\ UNCHANGED <<link, asking>>
  \/ /\ job[p].pc = "delete" /\ j = Moved(job[p], "query")
     /\ records' = records \ {job[p].who} /\ UNCHANGED <<link, asking>>
  \/ job[p].pc \in {"role", "putState"} /\ j = Moved(job[p], "query") /\ Still
  \/ job[p].pc = "role" /\ j = Moved(job[p], "putState") /\ Still
  \/ /\ job[p].pc \in {"role", "putState", "getState", "query", "post"} /\ job[p].kind # "connect"
     /\ j = Refused(job[p]) /\ Still
  \/ job[p].pc = "getState" /\ (\E pg \in Page : j = Answers(job[p], pg)) /\ Still
  \/ job[p].pc = "query" /\ (\E rs \in RecordReads : j = Found(job[p], rs)) /\ Still
  \/ /\ job[p].pc = "post"
     /\ \E c \in job[p].rest : link[c] = "open" /\ j = Sent(job[p], c)
     /\ Still
  \/ /\ job[p].pc = "post"
     /\ \E c \in job[p].rest : link[c] # "open" /\ j = IsGone(job[p], c)
     /\ Still
  \/ /\ job[p].pc = "gone" /\ j = Dropped(job[p])
     /\ records' = records \/ records' = records \ {job[p].gone}
     /\ UNCHANGED <<link, asking>>
  \/ /\ job[p].pc # "idle" /\ j = NoJob /\ UNCHANGED records
     /\ job[p].pc = "post" \/ "abort" \in Faults
     /\ \/ job[p].kind # "connect" /\ UNCHANGED <<link, asking>>
        \/ /\ job[p].kind = "connect" /\ job[p].pc = "post"
           /\ link' = [link EXCEPT ![job[p].who] = "open"]
           /\ asking' = asking \cup {job[p].who}
        \/ /\ job[p].kind = "connect" /\ "abort" \in Faults
           /\ link' = [link EXCEPT ![job[p].who] = "closed"]
           /\ UNCHANGED asking

LEMMA MakesType ==
  ASSUME TypeInv, NEW p \in Proc, NEW j, Makes(p, j)
  PROVE  j \in Job /\ Complete(j)
<1>1. job[p] \in Job /\ Complete(job[p]) /\ job[p].rest \in SUBSET Conn
      BY DEF TypeInv, TypeOK, Job
<1>2. RecordReads \subseteq SUBSET Conn
      BY DEF TypeInv, TypeOK, RecordReads
<1>3. CASE j = Moved(job[p], "query") /\ job[p].pc \in {"put", "delete", "role", "putState"}
      BY <1>1, <1>3, MovesType
<1>4. CASE j = Moved(job[p], "putState") /\ job[p].pc = "role"
      BY <1>1, <1>4, MovesType
<1>5. CASE j = Refused(job[p]) /\ job[p].pc # "idle"
      BY <1>1, <1>5, MovesType
<1>6. CASE job[p].pc = "getState" /\ \E pg \in Page : j = Answers(job[p], pg)
      BY <1>1, <1>6, MovesType
<1>7. CASE job[p].pc = "query" /\ \E rs \in RecordReads : j = Found(job[p], rs)
      BY <1>1, <1>2, <1>7, MovesType
<1>8. CASE job[p].pc = "post" /\ \E c \in job[p].rest : j = Sent(job[p], c)
      BY <1>1, <1>8, MovesType
<1>9. CASE job[p].pc = "post" /\ \E c \in job[p].rest : j = IsGone(job[p], c)
      BY <1>1, <1>9, MovesType
<1>10. CASE job[p].pc = "gone" /\ j = Dropped(job[p])
      BY <1>1, <1>10, MovesType
<1>11. CASE job[p].pc # "idle" /\ j = NoJob
      BY <1>11, NoJobType
<1> QED BY <1>3, <1>4, <1>5, <1>6, <1>7, <1>8, <1>9, <1>10, <1>11 DEF Makes

\* Every call does one of these.
LEMMA Calls ==
  ASSUME TypeInv, NEW p \in Proc, Call(p) \/ Abort(p)
  PROVE  \E j : Makes(p, j) /\ Becomes(p, j)
<1> USE DEF Still, At, tables, clients
<1>1. CASE PutConnection(p)
  <2>1. Makes(p, Moved(job[p], "query")) /\ Becomes(p, Moved(job[p], "query"))
        BY <1>1 DEF PutConnection, GoTo, Moved, Makes
  <2> QED BY <2>1
<1>2. CASE DeleteConnection(p)
  <2>1. Makes(p, Moved(job[p], "query")) /\ Becomes(p, Moved(job[p], "query"))
        BY <1>2 DEF DeleteConnection, GoTo, Moved, Makes
  <2> QED BY <2>1
<1>3. CASE Role(p)
  <2>1. /\ job[p].pc = "role" /\ Still
        /\ \/ Becomes(p, Moved(job[p], "putState"))
           \/ Becomes(p, Moved(job[p], "query"))
           \/ Becomes(p, Refused(job[p]))
        BY <1>3 DEF Role, GoTo, SendError, Moved, Refused
  <2>2. job[p].kind # "connect"
        BY <2>1 DEF TypeInv, Complete
  <2> QED BY <2>1, <2>2 DEF Makes
<1>4. CASE PutState(p)
  <2>1. Becomes(p, Moved(job[p], "query")) /\ job[p].pc = "putState" /\ Still
        BY <1>4 DEF PutState, GoTo, Moved
  <2> QED BY <2>1 DEF Makes
<1>5. CASE ReadState(p)
  <2>1. /\ job[p].pc = "getState" /\ Still
        /\ \E pg \in PageReads : Becomes(p, Answers(job[p], pg))
        BY <1>5 DEF ReadState, Answers
  <2>2. PageReads \subseteq Page
        BY DEF PageReads, TypeInv, TypeOK
  <2> QED BY <2>1, <2>2 DEF Makes
<1>6. CASE Query(p)
  <2>1. /\ job[p].pc = "query" /\ Still
        /\ \E rs \in RecordReads : Becomes(p, Found(job[p], rs))
        BY <1>6 DEF Query, Found
  <2> QED BY <2>1 DEF Makes
<1>7. CASE Post(p)
  <2>1. /\ job[p].pc = "post" /\ Still
        /\ \E c \in job[p].rest :
             \/ link[c] = "open" /\ Becomes(p, Sent(job[p], c))
             \/ link[c] # "open" /\ Becomes(p, IsGone(job[p], c))
        BY <1>7 DEF Post, Deliver, Sent, IsGone
  <2> QED BY <2>1 DEF Makes
<1>8. CASE DeleteGone(p)
  <2>1. Makes(p, Dropped(job[p])) /\ Becomes(p, Dropped(job[p]))
        BY <1>8 DEF DeleteGone, Dropped, Makes
  <2> QED BY <2>1
<1>9. CASE Return(p)
  <2>1. Makes(p, NoJob) /\ Becomes(p, NoJob)
        BY <1>9 DEF Return, Makes
  <2> QED BY <2>1
<1>10. CASE Abort(p)
  <2>1. CASE Fail(p)
    <3>1. Makes(p, NoJob) /\ Becomes(p, NoJob)
          BY <1>10, <2>1 DEF Abort, Fail, Makes
    <3> QED BY <3>1
  <2>2. CASE /\ job[p].kind \in {"slide_sync", "hands_on"} /\ ~At(p, "gone")
             /\ SendError(p) /\ UNCHANGED link
    <3>1. job[p].pc \in {"role", "putState", "getState", "query", "post"} /\ job[p].kind # "connect"
          BY <1>10, <2>2 DEF Abort, TypeInv, TypeOK, Job, PC, Complete
    <3>2. Makes(p, Refused(job[p])) /\ Becomes(p, Refused(job[p]))
          BY <1>10, <2>2, <3>1 DEF Abort, SendError, Refused, Makes
    <3> QED BY <3>2
  <2> QED BY <1>10, <2>1, <2>2 DEF Abort
<1> QED BY <1>1, <1>2, <1>3, <1>4, <1>5, <1>6, <1>7, <1>8, <1>9, <1>10 DEF Call

\* A connection that is closed, or whose $disconnect is lost.
LEMMA Releases ==
  ASSUME TypeInv, NEW d \in Conn, Close(d)
  PROVE  /\ job' = [x \in Proc |-> Released(job[x], d)]
         /\ job' \in [Proc -> Job] /\ \A x \in Proc : Complete(job'[x])
<1>1. \A x \in Proc : job[x] \in Job /\ Complete(job[x])
      BY DEF TypeInv, TypeOK
<1>2. job' = [x \in Proc |-> Released(job[x], d)]
      BY DEF Close, Released
<1>3. \A x \in Proc : Released(job[x], d) \in Job /\ Complete(Released(job[x], d))
      BY <1>1, MovesType
<1> QED BY <1>2, <1>3

\* What the steps of a Lambda do to the tables and the clients.
LEMMA Effects ==
  ASSUME TypeInv, NEW p \in Proc, Call(p) \/ Abort(p)
  PROVE  /\ link' \in [Conn -> Link] /\ records' \subseteq Conn /\ page' \in Page
         /\ shown' \in [Conn -> Page] /\ asking' \subseteq Conn /\ UNCHANGED seen
<1>1. /\ job[p] \in Job /\ Complete(job[p])
      /\ link \in [Conn -> Link] /\ records \subseteq Conn /\ page \in Page
      /\ shown \in [Conn -> Page] /\ asking \subseteq Conn
      BY DEF TypeInv, TypeOK
<1>2. job[p].pc # "idle" => job[p].who \in Conn
      BY <1>1 DEF Complete
<1>3. job[p].page \in Page /\ job[p].rest \subseteq Conn
      BY <1>1 DEF Job
<1>4. "closed" \in Link /\ "open" \in Link
      BY DEF Link
<1>5. CASE PutConnection(p) \/ DeleteConnection(p) \/ DeleteGone(p)
      BY <1>1, <1>2, <1>5 DEF PutConnection, DeleteConnection, DeleteGone, At, clients
<1>6. CASE Role(p) \/ ReadState(p) \/ Query(p)
      BY <1>1, <1>6 DEF Role, ReadState, Query, tables, clients
<1>7. CASE PutState(p)
      BY <1>1, <1>3, <1>7 DEF PutState, clients
<1>8. CASE Post(p)
  <2>1. shown' \in [Conn -> Page]
    <3>1. PICK c \in job[p].rest : Deliver(p, c) \/ UNCHANGED shown
          BY <1>8 DEF Post
    <3> QED BY <1>1, <1>3, <3>1 DEF Deliver
  <2> QED BY <1>1, <1>8, <2>1 DEF Post, tables
<1>9. CASE Return(p)
  <2>1. link' = [link EXCEPT ![job[p].who] = "open"] \/ link' = link
        BY <1>9 DEF Return
  <2>2. asking' = asking \cup {job[p].who} \/ asking' = asking
        BY <1>9 DEF Return
  <2>3. job[p].who \in Conn
        BY <1>2, <1>9 DEF Return, At
  <2> QED BY <1>1, <1>4, <1>9, <2>1, <2>2, <2>3 DEF Return, tables
<1>10. CASE Abort(p)
  <2>1. link' = [link EXCEPT ![job[p].who] = "closed"] \/ link' = link
        BY <1>10 DEF Abort, Fail
  <2> QED BY <1>1, <1>4, <1>10, <2>1 DEF Abort, tables
<1> QED BY <1>5, <1>6, <1>7, <1>8, <1>9, <1>10 DEF Call

LEMMA TypeStep == TypeInv /\ [Next]_vars => TypeInv'
<1> SUFFICES ASSUME TypeInv, [Next]_vars PROVE TypeInv'
    OBVIOUS
<1>0. TypeOK /\ "connecting" \in Link /\ "closed" \in Link /\ "closing" \in Link
      BY DEF TypeInv, Link
<1>1. ASSUME NEW p \in Proc, Event(p) PROVE TypeInv'
  <2>1. PICK kind, pc : \E c \in Conn, pg \in Page : EventOf(p, kind, pc, c, pg)
        BY <1>1, Events
  <2>2. PICK c \in Conn, pg \in Page : EventOf(p, kind, pc, c, pg)
        BY <2>1
  <2>3. job' \in [Proc -> Job] /\ \A x \in Proc : Complete(job'[x])
        BY <2>2, StartStep DEF EventOf
  <2>4. link' \in [Conn -> Link]
        BY <1>0, <2>2 DEF EventOf, TypeOK
  <2> QED BY <1>0, <2>2, <2>3, <2>4 DEF EventOf, TypeInv, TypeOK, tables, seen
<1>2. ASSUME NEW p \in Proc, Call(p) \/ Abort(p) PROVE TypeInv'
  <2>1. PICK j : Makes(p, j) /\ Becomes(p, j)
        BY <1>2, Calls
  <2>2. job' \in [Proc -> Job] /\ \A x \in Proc : Complete(job'[x])
        BY <2>1, MakesType, JobStep
  <2> QED BY <1>0, <1>2, <2>2, Effects DEF TypeInv, TypeOK, seen
<1>3. ASSUME NEW c \in Conn, Close(c) PROVE TypeInv'
  <2>1. link' \in [Conn -> Link] /\ asking' \subseteq Conn
        BY <1>0, <1>3 DEF Close, TypeOK
  <2> QED BY <1>0, <1>3, <2>1, Releases DEF Close, TypeInv, TypeOK, tables, seen
<1>4. ASSUME NEW c \in Conn, LoseDisconnect(c) PROVE TypeInv'
  <2>1. link' \in [Conn -> Link]
        BY <1>0, <1>4 DEF LoseDisconnect, TypeOK
  <2> QED BY <1>0, <1>4, <2>1 DEF LoseDisconnect, TypeInv, TypeOK, tables, seen
<1>5. CASE CatchUp
      BY <1>0, <1>5 DEF CatchUp, TypeInv, TypeOK, tables, clients
<1>6. CASE UNCHANGED vars
      BY <1>6 DEF vars, TypeInv, TypeOK
<1> QED BY <1>1, <1>2, <1>3, <1>4, <1>5, <1>6 DEF Next

\* Every variable always has its type, whatever fails and whoever comes and goes.
THEOREM TypeCorrect == Spec => []TypeOK
<1>1. TypeInv => TypeOK
      BY DEF TypeInv
<1> QED BY <1>1, TypeInit, TypeStep, PTL DEF Spec

-----------------------------------------------------------------------------
(* Who is listed.  Without "crowd" a $connect is alone, so that no post    *)
(* can find a connection that has a record and is not open yet.            *)

Fits(j) ==
  /\ j.kind = "connect" => link[j.who] = "connecting"
  /\ j.kind = "connect" /\ j.pc \in {"query", "post", "gone"} => j.who \in records
  /\ j.pc = "delete" => link[j.who] = "closed"
  /\ j.pc = "gone" => link[j.gone] \notin {"connecting", "open"}

Connected(c) == \E p \in Proc : job[p].kind = "connect" /\ job[p].who = c

ListInv ==
  /\ TypeInv /\ StaysListed /\ asking \subseteq Open
  /\ \A p \in Proc : Fits(job[p])
  /\ \A p, q \in Proc : job[p].kind = "connect" /\ q # p => At(q, "idle")
  /\ \A c \in Conn : link[c] = "connecting" => Connected(c)

LEMMA ListInit == Init => ListInv
<1> SUFFICES ASSUME Init PROVE ListInv
    OBVIOUS
<1>1. TypeInv
      BY TypeInit
<1>2. \A p \in Proc : job[p].kind = "none" /\ job[p].pc = "idle"
      BY DEF Init, NoJob
<1> QED BY <1>1, <1>2 DEF Init, ListInv, StaysListed, Open, Fits, At

LEMMA NewJobFields ==
  ASSUME NEW kind, NEW c, NEW pc, NEW pg
  PROVE  /\ NewJob(kind, c, pc, pg).kind = kind
         /\ NewJob(kind, c, pc, pg).who = c
         /\ NewJob(kind, c, pc, pg).pc = pc
BY DEF NewJob, NoJob

LEMMA ListEvent ==
  ASSUME ListInv, TypeInv', "crowd" \notin Faults, NEW p \in Proc, Event(p)
  PROVE  ListInv'
<1>1. PICK kind, pc : \E c \in Conn, pg \in Page : EventOf(p, kind, pc, c, pg)
      BY Events DEF ListInv
<1>2. PICK c \in Conn, pg \in Page : EventOf(p, kind, pc, c, pg)
      BY <1>1
<1>3. /\ Starts(kind, pc) /\ At(p, "idle") /\ MayStart(kind) /\ UNCHANGED records
      /\ job' = [x \in Proc |-> IF x = p THEN NewJob(kind, c, pc, pg) ELSE job[x]]
      BY <1>2, StartStep DEF EventOf, tables, ListInv
<1>4. /\ \A x \in Proc : x # p => job'[x] = job[x]
      /\ job'[p].kind = kind /\ job'[p].who = c /\ job'[p].pc = pc
  <2>1. job'[p] = NewJob(kind, c, pc, pg) /\ \A x \in Proc : x # p => job'[x] = job[x]
        BY <1>3
  <2> QED BY <2>1, NewJobFields
<1>5. \A x \in Proc : Complete(job[x]) /\ Fits(job[x])
      BY DEF ListInv, TypeInv
<1>6. \A x \in Proc : job[x].kind = "connect" => x # p
      BY <1>3, <1>5 DEF At, Complete
<1>7. link \in [Conn -> Link] /\ \A x \in Proc : At(x, "idle") \/ job[x].who \in Conn
      BY <1>5 DEF ListInv, TypeInv, TypeOK, Complete, At
<1>8. \A x \in Proc : job[x].pc = "gone" => job[x].gone \in Conn
      BY <1>5 DEF ListInv, TypeInv, TypeOK, Complete, Job
<1>9. CASE kind = "connect"
  <2>1. link[c] = "new" /\ link' = [link EXCEPT ![c] = "connecting"] /\ pc = "put"
        BY <1>2, <1>3, <1>9 DEF EventOf, Starts
  <2>2. \A x \in Proc : At(x, "idle") /\ job[x].kind # "connect"
        BY <1>3, <1>5, <1>9 DEF MayStart, At, Complete
  <2>3. \A x \in Proc : x # p => job'[x].pc = "idle" /\ job'[x].kind # "connect"
        BY <1>4, <2>2 DEF At
  <2>4. Open' = Open
        BY <1>7, <2>1 DEF Open
  <2>5. \A x \in Proc : Fits(job[x])'
        BY <1>4, <1>7, <1>9, <2>1, <2>3 DEF Fits
  <2>6. \A d \in Conn : link'[d] = "connecting" => Connected(d)'
        BY <1>4, <1>7, <1>9, <2>1, <2>2 DEF Connected, ListInv
  <2>7. asking' \subseteq Open'
        BY <1>2, <2>4 DEF EventOf, ListInv
  <2>8. \A x, y \in Proc : job'[x].kind = "connect" /\ y # x => job'[y].pc = "idle"
        BY <2>3
  <2> QED BY <1>3, <2>4, <2>5, <2>6, <2>7, <2>8 DEF ListInv, StaysListed, At
<1>10. CASE kind # "connect"
  <2>1. \A x \in Proc : job[x].kind # "connect"
        BY <1>3, <1>10 DEF MayStart, Busy
  <2>2. \A x \in Proc : job'[x].kind # "connect"
        BY <1>4, <1>10, <2>1
  <2>3. \/ pc = "delete" /\ link[c] = "closing" /\ link' = [link EXCEPT ![c] = "closed"]
        \/ pc # "delete" /\ link' = link
        BY <1>2, <1>3, <1>10 DEF EventOf, Starts
  <2>4. /\ Open' = Open
        /\ \A d \in Conn : link'[d] = link[d] \/ link'[d] = "closed"
        BY <1>7, <2>3 DEF Open
  <2>5. pc # "gone"
        BY <1>3 DEF Starts
  <2>6. \A x \in Proc : Fits(job[x])'
    <3> SUFFICES ASSUME NEW x \in Proc PROVE Fits(job[x])'
        OBVIOUS
    <3>1. CASE x = p
          BY <1>4, <1>7, <2>2, <2>3, <2>5, <3>1 DEF Fits
    <3>2. CASE x # p
          BY <1>4, <1>5, <1>7, <1>8, <2>2, <2>4, <3>2 DEF Fits, At
    <3> QED BY <3>1, <3>2
  <2>7. \A d \in Conn : link'[d] # "connecting"
        BY <2>1, <2>4 DEF ListInv, Connected
  <2>8. asking' \subseteq Open'
        BY <1>2, <2>4 DEF EventOf, ListInv
  <2> QED BY <1>3, <2>2, <2>4, <2>6, <2>7, <2>8 DEF ListInv, StaysListed
<1> QED BY <1>9, <1>10

\* A call that is not the last one changes the records, not the links.
LEMMA MakesList ==
  ASSUME ListInv, NEW p \in Proc, NEW j, Makes(p, j), j # NoJob
  PROVE  /\ UNCHANGED <<link, asking>>
         /\ j.who = job[p].who /\ j.pc # "delete"
         /\ j.kind = "connect" <=> job[p].kind = "connect"
         /\ j.kind = "connect" /\ j.pc # "put" => j.who \in records'
         /\ j.pc = "gone" => link[j.gone] \notin {"connecting", "open"}
         /\ Open \subseteq records'
<1>1. job[p] \in Job /\ Complete(job[p]) /\ Fits(job[p])
      BY DEF ListInv, TypeInv, TypeOK
<1>2. Open \subseteq records
      BY DEF ListInv, StaysListed
<1>3. job[p].pc # "idle" => \A x \in Proc : x # p => job[x].kind # "connect"
      BY DEF ListInv, At
<1>4. job[p].pc # "idle" => job[p].who \in Conn
      BY <1>1 DEF Complete
<1> USE DEF Job
<1>5. CASE /\ job[p].pc = "put" /\ j = Moved(job[p], "query")
           /\ records' = records \cup {job[p].who} /\ UNCHANGED <<link, asking>>
      BY <1>1, <1>2, <1>5 DEF Moved, Complete
<1>6. CASE /\ job[p].pc = "delete" /\ j = Moved(job[p], "query")
           /\ records' = records \ {job[p].who} /\ UNCHANGED <<link, asking>>
      BY <1>1, <1>2, <1>6 DEF Moved, Complete, Fits, Open
<1>7. CASE job[p].pc \in {"role", "putState"} /\ j = Moved(job[p], "query") /\ Still
      BY <1>1, <1>2, <1>7 DEF Moved, Complete, Still
<1>8. CASE job[p].pc = "role" /\ j = Moved(job[p], "putState") /\ Still
      BY <1>1, <1>2, <1>8 DEF Moved, Complete, Still
<1>9. CASE /\ job[p].pc \in {"role", "putState", "getState", "query", "post"}
           /\ job[p].kind # "connect" /\ j = Refused(job[p]) /\ Still
      BY <1>1, <1>2, <1>9 DEF Refused, Complete, Still
<1>10. CASE job[p].pc = "getState" /\ (\E pg \in Page : j = Answers(job[p], pg)) /\ Still
      BY <1>1, <1>2, <1>10 DEF Answers, Complete, Still
<1>11. CASE job[p].pc = "query" /\ (\E rs \in RecordReads : j = Found(job[p], rs)) /\ Still
      BY <1>1, <1>2, <1>11 DEF Found, Complete, Fits, Still
<1>12. CASE /\ job[p].pc = "post"
            /\ \E c \in job[p].rest : link[c] = "open" /\ j = Sent(job[p], c)
            /\ Still
      BY <1>1, <1>2, <1>12 DEF Sent, Complete, Fits, Still
<1>13. CASE /\ job[p].pc = "post"
            /\ \E c \in job[p].rest : link[c] # "open" /\ j = IsGone(job[p], c)
            /\ Still
  <2>1. PICK c \in job[p].rest : link[c] # "open" /\ j = IsGone(job[p], c)
        BY <1>13
  <2>2. link[c] # "connecting"
    <3>1. c \in Conn
          BY <1>1
    <3>2. Connected(c) => job[p].kind = "connect" /\ job[p].who = c
          BY <1>3, <1>13 DEF Connected
    <3> QED BY <1>1, <3>1, <3>2 DEF ListInv, Complete
  <2>3. j.gone = c /\ j.who = job[p].who /\ j.kind = job[p].kind /\ j.pc = "gone"
        BY <1>1, <2>1 DEF IsGone
  <2> QED BY <1>1, <1>2, <1>13, <2>1, <2>2, <2>3 DEF Fits, Still
<1>14. CASE /\ job[p].pc = "gone" /\ j = Dropped(job[p])
            /\ records' = records \/ records' = records \ {job[p].gone}
            /\ UNCHANGED <<link, asking>>
  <2>1. job[p].gone \notin Open
        BY <1>1, <1>14 DEF Fits, Open
  <2>2. job[p].kind = "connect" => job[p].who \in records /\ job[p].who # job[p].gone
        BY <1>1, <1>14 DEF Fits
  <2>3. j.who = job[p].who /\ j.kind = job[p].kind /\ j.pc = "post"
        BY <1>1, <1>14 DEF Dropped
  <2> QED BY <1>2, <1>14, <2>1, <2>2, <2>3
<1> QED BY <1>5, <1>6, <1>7, <1>8, <1>9, <1>10, <1>11, <1>12, <1>13, <1>14 DEF Makes

LEMMA ListCall ==
  ASSUME ListInv, TypeInv', NEW p \in Proc, Call(p) \/ Abort(p)
  PROVE  ListInv'
<1>1. PICK j : Makes(p, j) /\ Becomes(p, j)
      BY Calls DEF ListInv
<1>2. job'[p] = j /\ \A x \in Proc : x # p => job'[x] = job[x]
      BY <1>1 DEF Becomes, ListInv, TypeInv, TypeOK
<1>3. job[p].pc # "idle"
      BY <1>1 DEF Makes
<1>4. \A x \in Proc : x # p => job[x].kind # "connect"
      BY <1>3 DEF ListInv, At
<1>5. \A x \in Proc : Complete(job[x]) /\ Fits(job[x])
      BY DEF ListInv, TypeInv
<1>6. link \in [Conn -> Link] /\ job[p].who \in Conn
      BY <1>3, <1>5 DEF ListInv, TypeInv, TypeOK, Complete
<1>7. CASE j # NoJob
  <2>1. /\ UNCHANGED <<link, asking>> /\ Open' = Open
        /\ j.who = job[p].who /\ j.pc # "delete"
        /\ j.kind = "connect" <=> job[p].kind = "connect"
        /\ j.kind = "connect" /\ j.pc # "put" => j.who \in records'
        /\ j.pc = "gone" => link[j.gone] \notin {"connecting", "open"}
        /\ Open \subseteq records'
        BY <1>1, <1>7, MakesList DEF Open
  <2>2. \A x \in Proc : Fits(job[x])'
    <3> SUFFICES ASSUME NEW x \in Proc PROVE Fits(job[x])'
        OBVIOUS
    <3>1. CASE x = p
          BY <1>2, <1>5, <2>1, <3>1 DEF Fits
    <3>2. CASE x # p
          BY <1>2, <1>4, <1>5, <2>1, <3>2 DEF Fits
    <3> QED BY <3>1, <3>2
  <2>3. \A x, y \in Proc : job'[x].kind = "connect" /\ y # x => job'[y].pc = "idle"
        BY <1>2, <1>4, <2>1 DEF ListInv, At
  <2>4. \A d \in Conn : link'[d] = "connecting" => Connected(d)'
    <3> SUFFICES ASSUME NEW d \in Conn, link[d] = "connecting" PROVE Connected(d)'
        BY <2>1
    <3>1. job[p].kind = "connect" /\ job[p].who = d
          BY <1>4 DEF ListInv, Connected
    <3> QED BY <1>2, <2>1, <3>1 DEF Connected
  <2> QED BY <2>1, <2>2, <2>3, <2>4 DEF ListInv, StaysListed, At
<1>8. CASE j = NoJob
  <2>1. j.kind = "none" /\ j.pc = "idle"
        BY <1>8 DEF NoJob
  <2>2. \A x \in Proc : job'[x].kind # "connect"
        BY <1>2, <1>4, <2>1
  <2>3. /\ UNCHANGED records
        /\ \/ job[p].kind # "connect" /\ UNCHANGED <<link, asking>>
           \/ /\ job[p].kind = "connect"
              /\ \/ /\ link' = [link EXCEPT ![job[p].who] = "open"]
                    /\ asking' = asking \cup {job[p].who} /\ job[p].pc = "post"
                 \/ /\ link' = [link EXCEPT ![job[p].who] = "closed"]
                    /\ UNCHANGED asking
    <3>1. job[p] \in Job
          BY DEF ListInv, TypeInv, TypeOK
    <3> QED BY <1>1, <1>8, <2>1, <3>1
            DEF Makes, Moved, Refused, Answers, Found, Sent, IsGone, Dropped, Job
  <2>4. \A x \in Proc : x # p => job[x].pc = "idle" \/ job[p].kind # "connect"
        BY DEF ListInv, At
  <2>5. CASE job[p].kind # "connect"
        BY <1>2, <1>4, <1>5, <2>1, <2>2, <2>3, <2>5
        DEF ListInv, StaysListed, Open, Fits, Connected, At
  <2>6. CASE job[p].kind = "connect"
    <3>1. link[job[p].who] = "connecting" /\ job[p].who \notin asking
          BY <1>5, <1>6, <2>6 DEF Fits, ListInv, Open
    <3>2. \A d \in Conn : link'[d] # "connecting"
      <4> SUFFICES ASSUME NEW d \in Conn, link'[d] = "connecting" PROVE FALSE
          OBVIOUS
      <4>1. d # job[p].who /\ link[d] = "connecting"
            BY <1>6, <2>3, <2>6
      <4> QED BY <1>4, <4>1 DEF ListInv, Connected
    <3>3. \A x \in Proc : job'[x].pc = "idle"
          BY <1>2, <2>1, <2>4, <2>6
    <3>4. \A x \in Proc : Fits(job[x])'
          BY <2>2, <3>3 DEF Fits
    <3>5. CASE /\ link' = [link EXCEPT ![job[p].who] = "open"]
               /\ asking' = asking \cup {job[p].who} /\ job[p].pc = "post"
      <4>1. Open' = Open \cup {job[p].who}
            BY <1>6, <3>5 DEF Open
      <4>2. job[p].who \in records
            BY <1>5, <2>6, <3>5 DEF Fits
      <4> QED BY <2>2, <2>3, <3>2, <3>3, <3>4, <3>5, <4>1, <4>2 DEF ListInv, StaysListed, At
    <3>6. CASE link' = [link EXCEPT ![job[p].who] = "closed"] /\ UNCHANGED asking
      <4>1. Open' = Open
            BY <1>6, <3>1, <3>6 DEF Open
      <4> QED BY <2>2, <2>3, <3>2, <3>3, <3>4, <3>6, <4>1 DEF ListInv, StaysListed, At
    <3> QED BY <2>3, <2>6, <3>5, <3>6
  <2> QED BY <2>5, <2>6
<1> QED BY <1>7, <1>8

LEMMA ListStep == "crowd" \notin Faults /\ ListInv /\ [Next]_vars => ListInv'
<1> SUFFICES ASSUME "crowd" \notin Faults, ListInv, [Next]_vars PROVE ListInv'
    OBVIOUS
<1>1. TypeInv'
      BY TypeStep DEF ListInv
<1>2. link \in [Conn -> Link] /\ job \in [Proc -> Job] /\ \A x \in Proc : Complete(job[x])
      BY DEF ListInv, TypeInv, TypeOK
<1>3. ASSUME NEW p \in Proc, Event(p) PROVE ListInv'
      BY <1>1, <1>3, ListEvent
<1>4. ASSUME NEW p \in Proc, Call(p) \/ Abort(p) PROVE ListInv'
      BY <1>1, <1>4, ListCall
<1>5. ASSUME NEW c \in Conn, Close(c) PROVE ListInv'
  <2>1. \A x \in Proc : /\ job'[x].pc = job[x].pc /\ job'[x].kind = job[x].kind
                        /\ job'[x].who = job[x].who /\ job'[x].gone = job[x].gone
        BY <1>2, <1>5, Releases DEF Released, Job, ListInv
  <2>2. /\ link[c] = "open" /\ Open' = Open \ {c}
        /\ \A d \in Conn : link'[d] = IF d = c THEN "closing" ELSE link[d]
        /\ UNCHANGED records /\ asking' = asking \ {c}
        BY <1>2, <1>5 DEF Close, Open, tables
  <2>3. \A x \in Proc : Fits(job[x])'
    <3> SUFFICES ASSUME NEW x \in Proc PROVE Fits(job[x])'
        OBVIOUS
    <3>1. Fits(job[x]) /\ Complete(job[x]) /\ job[x] \in Job
          BY <1>2 DEF ListInv
    <3>2. /\ job[x].pc = "gone" => job[x].gone \in Conn
          /\ job[x].pc # "idle" => job[x].who \in Conn
          /\ job[x].kind = "connect" => job[x].pc # "idle"
          BY <3>1 DEF Complete, Job
    <3> QED BY <2>1, <2>2, <3>1, <3>2 DEF Fits
  <2>4. \A d \in Conn : link'[d] = "connecting" => Connected(d)'
        BY <2>1, <2>2 DEF ListInv, Connected
  <2>5. \A x, y \in Proc : job'[x].kind = "connect" /\ y # x => job'[y].pc = "idle"
        BY <2>1 DEF ListInv, At
  <2> QED BY <1>1, <2>2, <2>3, <2>4, <2>5 DEF ListInv, StaysListed, At
<1>6. ASSUME NEW c \in Conn, LoseDisconnect(c) PROVE ListInv'
  <2>1. /\ Open' = Open /\ link[c] = "closing"
        /\ \A d \in Conn : link'[d] = IF d = c THEN "closed" ELSE link[d]
        /\ UNCHANGED <<records, asking, job>>
        BY <1>2, <1>6 DEF LoseDisconnect, Open, tables
  <2>2. \A x \in Proc : Fits(job[x])'
    <3> SUFFICES ASSUME NEW x \in Proc PROVE Fits(job[x])'
        OBVIOUS
    <3>1. Fits(job[x]) /\ Complete(job[x]) /\ job[x] \in Job
          BY <1>2 DEF ListInv
    <3>2. /\ job[x].pc = "gone" => job[x].gone \in Conn
          /\ job[x].pc # "idle" => job[x].who \in Conn
          /\ job[x].kind = "connect" => job[x].pc # "idle"
          BY <3>1 DEF Complete, Job
    <3> QED BY <2>1, <3>1, <3>2 DEF Fits
  <2> QED BY <1>1, <2>1, <2>2 DEF ListInv, StaysListed, Connected, At
<1>7. CASE CatchUp
      BY <1>1, <1>7 DEF CatchUp, tables, clients, ListInv, StaysListed, Open, Fits,
                        Connected, At
<1>8. CASE UNCHANGED vars
      BY <1>1, <1>8 DEF vars, ListInv, StaysListed, Open, Fits, Connected, At
<1> QED BY <1>3, <1>4, <1>5, <1>6, <1>7, <1>8 DEF Next

\* If nobody else is at work while a connection is set up, whoever is connected is in
\* the table and stays there: no broadcast that finds others gone, no stale list, no
\* failed call and no $disconnect takes him out of it.
THEOREM ConnectedStaysListed ==
  ASSUME "crowd" \notin Faults
  PROVE  Spec => []StaysListed
<1>1. ListInv => StaysListed
      BY DEF ListInv
<1>2. ListInv /\ [Next]_vars => ListInv'
      BY ListStep
<1> QED BY <1>1, <1>2, ListInit, PTL DEF Spec

-----------------------------------------------------------------------------
(* Which records are stored.  Here others may be at work while a connection *)
(* is set up, but no call fails and no $disconnect is lost.                *)

Connecting(j) == j.kind = "connect" => link[j.who] = "connecting"

Deleting(c) == \E p \in Proc : At(p, "delete") /\ job[p].who = c

GhostInv ==
  /\ TypeInv /\ NoGhost
  /\ \A p \in Proc : Connecting(job[p])
  /\ \A p, q \in Proc : /\ job[p].kind = "connect" /\ job[q].kind = "connect"
                        /\ job[p].who = job[q].who
                        => p = q

LEMMA GhostInit == Init => GhostInv
<1> SUFFICES ASSUME Init PROVE GhostInv
    OBVIOUS
<1>1. TypeInv
      BY TypeInit
<1>2. \A p \in Proc : job[p].kind = "none"
      BY DEF Init, NoJob
<1> QED BY <1>1, <1>2 DEF Init, GhostInv, NoGhost, Connecting

LEMMA GhostEvent ==
  ASSUME GhostInv, TypeInv', NEW p \in Proc, Event(p)
  PROVE  GhostInv'
<1>1. PICK kind, pc : \E c \in Conn, pg \in Page : EventOf(p, kind, pc, c, pg)
      BY Events DEF GhostInv
<1>2. PICK c \in Conn, pg \in Page : EventOf(p, kind, pc, c, pg)
      BY <1>1
<1>3. /\ Starts(kind, pc) /\ At(p, "idle") /\ UNCHANGED records
      /\ job' = [x \in Proc |-> IF x = p THEN NewJob(kind, c, pc, pg) ELSE job[x]]
      BY <1>2, StartStep DEF EventOf, tables, GhostInv
<1>4. /\ \A x \in Proc : x # p => job'[x] = job[x]
      /\ job'[p].kind = kind /\ job'[p].who = c /\ job'[p].pc = pc
  <2>1. job'[p] = NewJob(kind, c, pc, pg) /\ \A x \in Proc : x # p => job'[x] = job[x]
        BY <1>3
  <2> QED BY <2>1, NewJobFields
<1>5. \A x \in Proc : Complete(job[x]) /\ Connecting(job[x])
      BY DEF GhostInv, TypeInv
<1>6. link \in [Conn -> Link] /\ \A x \in Proc : job[x].kind = "connect" => job[x].who \in Conn
      BY <1>5 DEF GhostInv, TypeInv, TypeOK, Complete
<1>7. \/ kind = "connect" /\ link[c] = "new" /\ link' = [link EXCEPT ![c] = "connecting"]
      \/ /\ kind = "disconnect" /\ pc = "delete" /\ link[c] = "closing"
         /\ link' = [link EXCEPT ![c] = "closed"]
      \/ kind \notin {"connect", "disconnect"} /\ link' = link
      BY <1>2, <1>3 DEF EventOf, Starts
<1>8. \A x \in Proc : Connecting(job[x])'
  <2> SUFFICES ASSUME NEW x \in Proc PROVE Connecting(job[x])'
      OBVIOUS
  <2>1. CASE x = p
        BY <1>4, <1>6, <1>7, <2>1 DEF Connecting
  <2>2. CASE x # p
        BY <1>4, <1>5, <1>6, <1>7, <2>2 DEF Connecting
  <2> QED BY <2>1, <2>2
<1>9. \A x, y \in Proc : /\ job'[x].kind = "connect" /\ job'[y].kind = "connect"
                         /\ job'[x].who = job'[y].who
                         => x = y
  <2>1. kind = "connect" => \A x \in Proc : job[x].kind = "connect" => job[x].who # c
        BY <1>5, <1>7 DEF Connecting
  <2> QED BY <1>4, <2>1 DEF GhostInv
<1>10. NoGhost'
  <2> SUFFICES ASSUME NEW d \in records
               PROVE  link'[d] \in {"connecting", "open", "closing"} \/ Deleting(d)'
      BY <1>3 DEF NoGhost, Deleting
  <2>1. d \in Conn
        BY DEF GhostInv, TypeInv, TypeOK
  <2>2. CASE Deleting(d)
        BY <1>3, <1>4, <2>2 DEF Deleting, At
  <2>3. CASE link[d] \in {"connecting", "open", "closing"} /\ d = c /\ kind = "disconnect"
        BY <1>4, <1>7, <2>3 DEF Deleting, At
  <2>4. CASE link[d] \in {"connecting", "open", "closing"} /\ ~(d = c /\ kind = "disconnect")
        BY <1>6, <1>7, <2>1, <2>4
  <2> QED BY <2>2, <2>3, <2>4 DEF GhostInv, NoGhost, Deleting
<1> QED BY <1>8, <1>9, <1>10 DEF GhostInv

LEMMA MakesGhost ==
  ASSUME GhostInv, "abort" \notin Faults, NEW p \in Proc, NEW j, Makes(p, j)
  PROVE  /\ \/ UNCHANGED link /\ j.who = job[p].who
               /\ (j.kind = "connect" <=> job[p].kind = "connect")
            \/ j = NoJob /\ job[p].kind # "connect" /\ UNCHANGED link
            \/ /\ j = NoJob /\ job[p].kind = "connect"
               /\ link' = [link EXCEPT ![job[p].who] = "open"]
         /\ \A d \in records' : \/ d \in records
                                \/ link[d] = "connecting" /\ UNCHANGED link
         /\ job[p].pc = "delete" => job[p].who \notin records'
<1>1. job[p] \in Job /\ Complete(job[p]) /\ Connecting(job[p])
      BY DEF GhostInv, TypeInv, TypeOK
<1> USE DEF Job, Still
<1>2. CASE /\ job[p].pc = "put" /\ j = Moved(job[p], "query")
           /\ records' = records \cup {job[p].who} /\ UNCHANGED <<link, asking>>
      BY <1>1, <1>2 DEF Moved, Complete, Connecting
<1>3. CASE /\ job[p].pc = "delete" /\ j = Moved(job[p], "query")
           /\ records' = records \ {job[p].who} /\ UNCHANGED <<link, asking>>
      BY <1>1, <1>3 DEF Moved
<1>4. CASE job[p].pc \in {"role", "putState"} /\ j = Moved(job[p], "query") /\ Still
      BY <1>1, <1>4 DEF Moved
<1>5. CASE job[p].pc = "role" /\ j = Moved(job[p], "putState") /\ Still
      BY <1>1, <1>5 DEF Moved
<1>6. CASE /\ job[p].pc \in {"role", "putState", "getState", "query", "post"}
           /\ job[p].kind # "connect" /\ j = Refused(job[p]) /\ Still
      BY <1>1, <1>6 DEF Refused, Complete
<1>7. CASE job[p].pc = "getState" /\ (\E pg \in Page : j = Answers(job[p], pg)) /\ Still
      BY <1>1, <1>7 DEF Answers
<1>8. CASE job[p].pc = "query" /\ (\E rs \in RecordReads : j = Found(job[p], rs)) /\ Still
      BY <1>1, <1>8 DEF Found
<1>9. CASE /\ job[p].pc = "post"
           /\ \E c \in job[p].rest : link[c] = "open" /\ j = Sent(job[p], c)
           /\ Still
      BY <1>1, <1>9 DEF Sent
<1>10. CASE /\ job[p].pc = "post"
            /\ \E c \in job[p].rest : link[c] # "open" /\ j = IsGone(job[p], c)
            /\ Still
      BY <1>1, <1>10 DEF IsGone
<1>11. CASE /\ job[p].pc = "gone" /\ j = Dropped(job[p])
            /\ records' = records \/ records' = records \ {job[p].gone}
            /\ UNCHANGED <<link, asking>>
      BY <1>1, <1>11 DEF Dropped
<1>12. CASE /\ job[p].pc = "post" /\ j = NoJob /\ UNCHANGED records
            /\ \/ job[p].kind # "connect" /\ UNCHANGED link
               \/ /\ job[p].kind = "connect"
                  /\ link' = [link EXCEPT ![job[p].who] = "open"]
      BY <1>12
<1> QED BY <1>2, <1>3, <1>4, <1>5, <1>6, <1>7, <1>8, <1>9, <1>10, <1>11, <1>12 DEF Makes

LEMMA GhostCall ==
  ASSUME GhostInv, TypeInv', "abort" \notin Faults, NEW p \in Proc, Call(p) \/ Abort(p)
  PROVE  GhostInv'
<1>1. PICK j : Makes(p, j) /\ Becomes(p, j)
      BY Calls DEF GhostInv
<1>2. job'[p] = j /\ \A x \in Proc : x # p => job'[x] = job[x]
      BY <1>1 DEF Becomes, GhostInv, TypeInv, TypeOK
<1>3. /\ \/ UNCHANGED link /\ j.who = job[p].who
            /\ (j.kind = "connect" <=> job[p].kind = "connect")
         \/ j = NoJob /\ job[p].kind # "connect" /\ UNCHANGED link
         \/ /\ j = NoJob /\ job[p].kind = "connect"
            /\ link' = [link EXCEPT ![job[p].who] = "open"]
      /\ \A d \in records' : \/ d \in records
                             \/ link[d] = "connecting" /\ UNCHANGED link
      /\ job[p].pc = "delete" => job[p].who \notin records'
      BY <1>1, MakesGhost
<1>4. j = NoJob => j.kind = "none"
      BY DEF NoJob
<1>5. \A x \in Proc : Complete(job[x]) /\ Connecting(job[x])
      BY DEF GhostInv, TypeInv
<1>6. link \in [Conn -> Link] /\ \A x \in Proc : job[x].kind = "connect" => job[x].who \in Conn
      BY <1>5 DEF GhostInv, TypeInv, TypeOK, Complete
<1>7. \A x, y \in Proc : /\ job'[x].kind = "connect" /\ job'[y].kind = "connect"
                         /\ job'[x].who = job'[y].who
                         => x = y
      BY <1>2, <1>3, <1>4 DEF GhostInv
<1>8. \A x \in Proc : Connecting(job[x])'
  <2> SUFFICES ASSUME NEW x \in Proc, job'[x].kind = "connect"
               PROVE  link'[job'[x].who] = "connecting"
      BY DEF Connecting
  <2>1. CASE x = p
        BY <1>2, <1>3, <1>4, <1>5, <2>1 DEF Connecting
  <2>2. CASE x # p
    <3>1. job[p].kind = "connect" => job[x].who # job[p].who
          BY <1>2, <2>2 DEF GhostInv
    <3> QED BY <1>2, <1>3, <1>5, <1>6, <2>2, <3>1 DEF Connecting
  <2> QED BY <2>1, <2>2
<1>9. NoGhost'
  <2> SUFFICES ASSUME NEW d \in records'
               PROVE  link'[d] \in {"connecting", "open", "closing"} \/ Deleting(d)'
      BY DEF NoGhost, Deleting
  <2>1. CASE link[d] = "connecting" /\ UNCHANGED link
        BY <2>1
  <2>2. CASE d \in records /\ link[d] \in {"connecting", "open", "closing"}
        BY <1>3, <1>6, <2>2 DEF GhostInv, TypeInv, TypeOK
  <2>3. CASE Deleting(d)
    <3>1. PICK x \in Proc : At(x, "delete") /\ job[x].who = d
          BY <2>3 DEF Deleting
    <3>2. x # p
          BY <1>3, <3>1 DEF At
    <3> QED BY <1>2, <3>1, <3>2 DEF Deleting, At
  <2> QED BY <1>3, <2>1, <2>2, <2>3 DEF GhostInv, NoGhost, Deleting
<1> QED BY <1>7, <1>8, <1>9 DEF GhostInv

LEMMA GhostStep ==
  "abort" \notin Faults /\ "disconnectLost" \notin Faults /\ GhostInv /\ [Next]_vars
  => GhostInv'
<1> SUFFICES ASSUME "abort" \notin Faults, "disconnectLost" \notin Faults, GhostInv, [Next]_vars
             PROVE  GhostInv'
    OBVIOUS
<1>1. TypeInv'
      BY TypeStep DEF GhostInv
<1>2. link \in [Conn -> Link] /\ job \in [Proc -> Job] /\ \A x \in Proc : Complete(job[x])
      BY DEF GhostInv, TypeInv, TypeOK
<1>3. ASSUME NEW p \in Proc, Event(p) PROVE GhostInv'
      BY <1>1, <1>3, GhostEvent
<1>4. ASSUME NEW p \in Proc, Call(p) \/ Abort(p) PROVE GhostInv'
      BY <1>1, <1>4, GhostCall
<1>5. ASSUME NEW c \in Conn, Close(c) PROVE GhostInv'
  <2>1. \A x \in Proc : /\ job'[x].pc = job[x].pc /\ job'[x].kind = job[x].kind
                        /\ job'[x].who = job[x].who
        BY <1>2, <1>5, Releases DEF Released, Job, GhostInv
  <2>2. /\ link[c] = "open"
        /\ \A d \in Conn : link'[d] = IF d = c THEN "closing" ELSE link[d]
        /\ UNCHANGED records
        BY <1>2, <1>5 DEF Close, tables
  <2>3. \A x \in Proc : Connecting(job[x])'
    <3> SUFFICES ASSUME NEW x \in Proc PROVE Connecting(job[x])'
        OBVIOUS
    <3>1. Connecting(job[x]) /\ (job[x].kind = "connect" => job[x].who \in Conn)
          BY <1>2 DEF GhostInv, Complete
    <3> QED BY <2>1, <2>2, <3>1 DEF Connecting
  <2>4. NoGhost'
    <3> SUFFICES ASSUME NEW d \in records
                 PROVE  link'[d] \in {"connecting", "open", "closing"} \/ Deleting(d)'
        BY <2>2 DEF NoGhost, Deleting
    <3>1. d \in Conn /\ (Deleting(d) => Deleting(d)')
          BY <2>1 DEF Deleting, At, GhostInv, TypeInv, TypeOK
    <3> QED BY <2>2, <3>1 DEF GhostInv, NoGhost, Deleting
  <2>5. \A x, y \in Proc : /\ job'[x].kind = "connect" /\ job'[y].kind = "connect"
                           /\ job'[x].who = job'[y].who
                           => x = y
        BY <2>1 DEF GhostInv
  <2> QED BY <1>1, <2>3, <2>4, <2>5 DEF GhostInv
<1>6. ASSUME NEW c \in Conn, LoseDisconnect(c) PROVE GhostInv'
      BY <1>6 DEF LoseDisconnect
<1>7. CASE CatchUp
      BY <1>1, <1>7 DEF CatchUp, tables, clients, GhostInv, NoGhost, Connecting, At
<1>8. CASE UNCHANGED vars
      BY <1>1, <1>8 DEF vars, GhostInv, NoGhost, Connecting, At
<1> QED BY <1>3, <1>4, <1>5, <1>6, <1>7, <1>8 DEF Next

\* As long as no call fails and every $disconnect is delivered, no record is left behind,
\* although connections come and go while others are set up or are sent to, and reads
\* answer late.
THEOREM RecordsHaveConnections ==
  ASSUME "abort" \notin Faults, "disconnectLost" \notin Faults
  PROVE  Spec => []NoGhost
<1>1. GhostInv => NoGhost
      BY DEF GhostInv
<1>2. GhostInv /\ [Next]_vars => GhostInv'
      BY GhostStep
<1> QED BY <1>1, <1>2, GhostInit, PTL DEF Spec

-----------------------------------------------------------------------------
(* Whom a broadcast reaches.  Its list is read after its event has come,   *)
(* and with ListInv every viewer who is owed the payload is on it.         *)

Owes(j) ==
  /\ j.owed \subseteq Open
  /\ j.kind \in Broadcasts \ {"disconnect"} => j.who \notin j.owed
  /\ j.pc \in {"getState", "post", "gone"} => j.owed \subseteq j.rest

AllOwe == \A p \in Proc : Owes(job[p])

ReachInv == ListInv /\ AllOwe

LEMMA NewJobOwes ==
  ASSUME NEW kind, NEW c \in Conn, NEW pc, NEW pg, Starts(kind, pc),
         kind \notin {"connect", "disconnect"} => c \in Open
  PROVE  Owes(NewJob(kind, c, pc, pg))
<1>1. /\ NewJob(kind, c, pc, pg).rest = IF kind \in Broadcasts THEN {} ELSE {c}
      /\ NewJob(kind, c, pc, pg).owed = IF kind \in Broadcasts THEN Open \ {c} ELSE {c}
      BY DEF NewJob, NoJob
<1>2. kind \in Broadcasts <=> pc \in {"put", "delete", "role"}
      BY DEF Starts, Broadcasts
<1> QED BY <1>1, <1>2, NewJobFields DEF Owes, Broadcasts

LEMMA MakesOwes ==
  ASSUME ReachInv, "stale" \notin Faults, NEW p \in Proc, NEW j, Makes(p, j)
  PROVE  Owes(j)
<1>1. job[p] \in Job /\ Complete(job[p]) /\ Fits(job[p]) /\ Owes(job[p])
      BY DEF ReachInv, AllOwe, ListInv, TypeInv, TypeOK
<1> USE DEF Job, Owes
<1>2. CASE j = Moved(job[p], "query")
      BY <1>1, <1>2 DEF Moved
<1>3. CASE j = Moved(job[p], "putState")
      BY <1>1, <1>3 DEF Moved
<1>4. CASE j = Refused(job[p])
      BY <1>1, <1>4 DEF Refused, Broadcasts
<1>5. CASE job[p].pc = "getState" /\ \E pg \in Page : j = Answers(job[p], pg)
      BY <1>1, <1>5 DEF Answers
<1>6. CASE job[p].pc = "query" /\ \E rs \in RecordReads : j = Found(job[p], rs)
  <2>1. j = Found(job[p], records)
        BY <1>6 DEF RecordReads
  <2>2. job[p].kind \in Broadcasts /\ job[p].owed \subseteq records
        BY <1>1, <1>6 DEF Complete, ReachInv, ListInv, StaysListed
  <2> QED BY <1>1, <2>1, <2>2 DEF Found
<1>7. CASE job[p].pc = "post" /\ \E c \in job[p].rest : j = Sent(job[p], c)
      BY <1>1, <1>7 DEF Sent
<1>8. CASE job[p].pc = "post" /\ \E c \in job[p].rest : j = IsGone(job[p], c)
      BY <1>1, <1>8 DEF IsGone
<1>9. CASE job[p].pc = "gone" /\ j = Dropped(job[p])
  <2>1. job[p].gone \notin job[p].owed
        BY <1>1, <1>9 DEF Fits, Open
  <2> QED BY <1>1, <1>9, <2>1 DEF Dropped
<1>10. CASE j = NoJob
      BY <1>10 DEF NoJob
<1> QED BY <1>2, <1>3, <1>4, <1>5, <1>6, <1>7, <1>8, <1>9, <1>10 DEF Makes

\* What else a step does leaves those who are owed connected.
LEMMA OpenGrows ==
  ASSUME ListInv, NEW p \in Proc, Event(p) \/ Call(p) \/ Abort(p)
  PROVE  Open \subseteq Open'
<1>1. link \in [Conn -> Link]
      BY DEF ListInv, TypeInv, TypeOK
<1>2. CASE Event(p)
  <2>1. PICK kind, pc : \E c \in Conn, pg \in Page : EventOf(p, kind, pc, c, pg)
        BY <1>2, Events DEF ListInv
  <2>2. PICK c \in Conn, pg \in Page : EventOf(p, kind, pc, c, pg)
        BY <2>1
  <2> QED BY <1>1, <2>2 DEF EventOf, Open
<1>3. CASE Call(p) \/ Abort(p)
  <2>1. PICK j : Makes(p, j)
        BY <1>3, Calls DEF ListInv
  <2>2. job[p].kind = "connect" => link[job[p].who] = "connecting"
        BY DEF ListInv, Fits
  <2>3. \/ UNCHANGED link
        \/ /\ job[p].kind = "connect"
           /\ \/ link' = [link EXCEPT ![job[p].who] = "open"]
              \/ link' = [link EXCEPT ![job[p].who] = "closed"]
        BY <2>1 DEF Makes, Still
  <2> QED BY <1>1, <2>2, <2>3 DEF Open
<1> QED BY <1>2, <1>3

LEMMA ReachStep ==
  "crowd" \notin Faults /\ "stale" \notin Faults /\ ReachInv /\ [Next]_vars => ReachInv'
<1> SUFFICES ASSUME "crowd" \notin Faults, "stale" \notin Faults, ReachInv, [Next]_vars
             PROVE  ReachInv'
    OBVIOUS
<1>1. ListInv /\ ListInv'
      BY ListStep DEF ReachInv
<1>2. \A x \in Proc : job[x] \in Job /\ Owes(job[x])
      BY <1>1 DEF ReachInv, AllOwe, ListInv, TypeInv, TypeOK
<1>3. ASSUME NEW p \in Proc, Event(p) PROVE AllOwe'
  <2>1. PICK kind, pc : \E c \in Conn, pg \in Page : EventOf(p, kind, pc, c, pg)
        BY <1>1, <1>3, Events DEF ListInv
  <2>2. PICK c \in Conn, pg \in Page : EventOf(p, kind, pc, c, pg)
        BY <2>1
  <2>3. /\ Starts(kind, pc)
        /\ job' = [x \in Proc |-> IF x = p THEN NewJob(kind, c, pc, pg) ELSE job[x]]
        BY <1>1, <2>2, StartStep DEF EventOf, ListInv
  <2>4. Owes(NewJob(kind, c, pc, pg))
    <3>1. kind \notin {"connect", "disconnect"} => c \in Open
          BY <1>1, <2>2 DEF EventOf, ListInv
    <3> QED BY <2>3, <3>1, NewJobOwes
  <2>5. Open \subseteq Open'
        BY <1>1, <1>3, OpenGrows
  <2> SUFFICES ASSUME NEW x \in Proc PROVE Owes(job[x])'
      BY DEF AllOwe
  <2>6. job'[x] = NewJob(kind, c, pc, pg) \/ job'[x] = job[x]
        BY <2>3
  <2> QED BY <1>2, <2>4, <2>5, <2>6 DEF Owes
<1>4. ASSUME NEW p \in Proc, Call(p) \/ Abort(p) PROVE AllOwe'
  <2>1. PICK j : Makes(p, j) /\ Becomes(p, j)
        BY <1>1, <1>4, Calls DEF ListInv
  <2>2. Owes(j)
        BY <2>1, MakesOwes
  <2>3. \A x \in Proc : job'[x] = j \/ job'[x] = job[x]
        BY <1>1, <2>1 DEF Becomes, ListInv, TypeInv, TypeOK
  <2>4. Open \subseteq Open'
        BY <1>1, <1>4, OpenGrows
  <2> SUFFICES ASSUME NEW x \in Proc PROVE Owes(job[x])'
      BY DEF AllOwe
  <2> QED BY <1>2, <2>2, <2>3, <2>4 DEF Owes
<1>5. ASSUME NEW c \in Conn, Close(c) PROVE AllOwe'
  <2>1. \A x \in Proc : /\ job'[x].pc = job[x].pc /\ job'[x].kind = job[x].kind
                        /\ job'[x].who = job[x].who /\ job'[x].rest = job[x].rest
                        /\ job'[x].owed = job[x].owed \ {c}
        BY <1>1, <1>2, <1>5, Releases DEF Released, Job, ListInv
  <2>2. Open' = Open \ {c}
        BY <1>1, <1>5 DEF Close, Open, ListInv, TypeInv, TypeOK
  <2> SUFFICES ASSUME NEW x \in Proc PROVE Owes(job[x])'
      BY DEF AllOwe
  <2> QED BY <1>2, <2>1, <2>2 DEF Owes
<1>6. ASSUME NEW c \in Conn, LoseDisconnect(c) PROVE AllOwe'
  <2>1. Open \subseteq Open' /\ UNCHANGED job
        BY <1>1, <1>6 DEF LoseDisconnect, Open, ListInv, TypeInv, TypeOK
  <2> QED BY <1>2, <2>1 DEF Owes, AllOwe
<1>7. ASSUME CatchUp PROVE AllOwe'
  <2>1. Open \subseteq Open' /\ UNCHANGED job
        BY <1>7 DEF CatchUp, clients, Open
  <2> QED BY <1>2, <2>1 DEF Owes, AllOwe
<1>8. ASSUME UNCHANGED vars PROVE AllOwe'
  <2>1. Open \subseteq Open' /\ UNCHANGED job
        BY <1>8 DEF vars, Open
  <2> QED BY <1>2, <2>1 DEF Owes, AllOwe
<1>9. AllOwe'
      BY <1>3, <1>4, <1>5, <1>6, <1>7, <1>8 DEF Next
<1> QED BY <1>1, <1>9 DEF ReachInv

\* If the list of a broadcast is up to date and nobody else is at work while a connection
\* is set up, a broadcast that has come to its end has reached everybody who was
\* connected when its event came and has not left since, whatever fails beside it.
THEOREM BroadcastsReachAll ==
  ASSUME "crowd" \notin Faults, "stale" \notin Faults
  PROVE  Spec => []ReachesEveryViewer
<1>1. Init => ReachInv
  <2> SUFFICES ASSUME Init PROVE ReachInv
      OBVIOUS
  <2>1. \A p \in Proc : job[p].kind = "none" /\ job[p].pc = "idle" /\ job[p].owed = {}
        BY DEF Init, NoJob
  <2> QED BY <2>1, ListInit DEF ReachInv, AllOwe, Owes, Broadcasts
<1>2. ReachInv /\ [Next]_vars => ReachInv'
      BY ReachStep
<1>3. ReachInv => ReachesEveryViewer
  <2> SUFFICES ASSUME ReachInv, NEW p \in Proc, At(p, "post"), job[p].rest = {}
               PROVE  job[p].owed = {}
      BY DEF ReachesEveryViewer
  <2>1. Owes(job[p])
        BY DEF ReachInv, AllOwe
  <2> QED BY <2>1 DEF Owes, At
<1> QED BY <1>1, <1>2, <1>3, PTL DEF Spec
-----------------------------------------------------------------------------
(* The page on the screens.  Messages about the page come one at a time,   *)
(* and until they are all answered a viewer who does not show the page yet *)
(* is about to ask for it or about to be sent it.                          *)

Serial ==
  \A p, q \in Proc : job[p].kind \in AboutPage /\ job[q].kind \in AboutPage => p = q

UpToDate(j) ==
  /\ j.pc = "putState" => j.kind = "slide_sync"
  /\ j.pc = "getState" => j.kind = "get_state" /\ j.who \in j.rest
  /\ j.kind = "slide_sync" /\ j.pc \in {"putState", "query"} => j.who \in Presenter
  /\ j.kind = "slide_sync" /\ j.pc \in {"query", "post", "gone"} => j.page = page
  /\ j.kind = "get_state" /\ j.pc \in {"post", "gone"} => j.page = page

Brings(j, c) ==
  \/ j.kind = "slide_sync" /\ j.pc = "query"
  \/ j.kind \in {"slide_sync", "get_state"} /\ j.pc \in {"post", "gone"} /\ c \in j.rest
  \/ j.kind = "get_state" /\ j.pc = "getState" /\ j.who = c

Served(c) == shown[c] = page \/ c \in asking \/ \E p \in Proc : Brings(job[p], c)

PageInv ==
  /\ ListInv /\ Serial
  /\ \A p \in Proc : UpToDate(job[p])
  /\ \A c \in Open \ Presenter : Served(c)

LEMMA PageInit == Init => PageInv
<1> SUFFICES ASSUME Init PROVE PageInv
    OBVIOUS
<1>1. \A p \in Proc : job[p].kind = "none" /\ job[p].pc = "idle"
      BY DEF Init, NoJob
<1> QED BY <1>1, ListInit DEF Init, PageInv, Serial, UpToDate, Served, Open, AboutPage

\* The job at p becomes j and the page stays.  Whoever p was bringing the page has it
\* now or is still to get it, and whoever is new asks for it.
LEMMA PageGoesOn ==
  ASSUME PageInv, ListInv', NEW p \in Proc, NEW j, Becomes(p, j), page' = page,
         j.kind \in AboutPage =>
           job[p].kind \in AboutPage \/ \A x \in Proc : job[x].kind \notin AboutPage,
         UpToDate(j),
         \A c \in Conn : shown'[c] \in {shown[c], page},
         Open' \subseteq Open \cup asking',
         \A c \in Open \ Presenter : c \in asking => c \in asking' \/ Brings(j, c),
         \A c \in Open \ Presenter : Brings(job[p], c) => Brings(j, c) \/ shown'[c] = page
  PROVE  PageInv'
<1>1. job'[p] = j /\ \A x \in Proc : x # p => job'[x] = job[x]
      BY DEF Becomes, PageInv, ListInv, TypeInv, TypeOK
<1>2. Serial'
      BY <1>1 DEF PageInv, Serial
<1>3. \A x \in Proc : UpToDate(job[x])'
  <2> SUFFICES ASSUME NEW x \in Proc PROVE UpToDate(job[x])'
      OBVIOUS
  <2>1. UpToDate(job[x]) /\ (job'[x] = j \/ job'[x] = job[x])
        BY <1>1 DEF PageInv
  <2> QED BY <2>1 DEF UpToDate
<1>4. ASSUME NEW c \in Open' \ Presenter PROVE Served(c)'
  <2>1. CASE c \in asking'
        BY <2>1 DEF Served
  <2>2. CASE c \in Open /\ c \notin asking'
    <3>1. c \in Conn /\ Served(c)
          BY <1>4, <2>2 DEF PageInv, Open
    <3>2. Brings(j, c) => Served(c)'
          BY <1>1 DEF Served, Brings
    <3>3. CASE shown[c] = page
          BY <3>1, <3>3 DEF Served
    <3>4. CASE c \in asking
          BY <1>4, <2>2, <3>2, <3>4
    <3>5. ASSUME NEW x \in Proc, Brings(job[x], c) PROVE Served(c)'
      <4>1. CASE x = p
            BY <1>4, <2>2, <3>2, <3>5, <4>1 DEF Served
      <4>2. CASE x # p
            BY <1>1, <3>5, <4>2 DEF Served, Brings
      <4> QED BY <4>1, <4>2
    <3> QED BY <3>1, <3>3, <3>4, <3>5 DEF Served
  <2> QED BY <1>4, <2>1, <2>2
<1> QED BY <1>2, <1>3, <1>4 DEF PageInv

LEMMA PageEvent ==
  ASSUME PageInv, ListInv', "hurry" \notin Faults, NEW p \in Proc, Event(p)
  PROVE  PageInv'
<1>1. PICK kind, pc : \E c \in Conn, pg \in Page : EventOf(p, kind, pc, c, pg)
      BY Events DEF PageInv, ListInv
<1>2. PICK c \in Conn, pg \in Page : EventOf(p, kind, pc, c, pg)
      BY <1>1
<1> DEFINE j == NewJob(kind, c, pc, pg)
<1>3. /\ Starts(kind, pc) /\ At(p, "idle") /\ MayStart(kind) /\ Becomes(p, j)
      /\ page' = page /\ shown' = shown
      BY <1>2, StartStep DEF EventOf, Start, NewJob, tables, PageInv, ListInv
<1>4. j.kind = kind /\ j.pc = pc /\ j.who = c
      BY NewJobFields
<1>5. j.rest = IF kind \in Broadcasts THEN {} ELSE {c}
      BY DEF NewJob, NoJob
<1>6. UpToDate(j)
      BY <1>3, <1>4, <1>5 DEF UpToDate, Starts, Broadcasts
<1>7. kind \in AboutPage => \A x \in Proc : job[x].kind \notin AboutPage
      BY <1>3 DEF MayStart, Busy
<1>8. Open' \subseteq Open
      BY <1>2 DEF EventOf, Open, PageInv, ListInv, TypeInv, TypeOK
<1>9. ASSUME NEW d \in Open, d \in asking PROVE d \in asking' \/ Brings(j, d)
  <2>1. CASE GetState(p)
    <3>1. PICK e \in asking : Start(p, "get_state", e, "getState", 0) /\ asking' = asking \ {e}
          BY <2>1 DEF GetState
    <3>2. Becomes(p, NewJob("get_state", e, "getState", 0))
          BY <3>1 DEF Start, NewJob
    <3>3. NewJob("get_state", e, "getState", 0) = j
          BY <1>3, <3>2 DEF Becomes, PageInv, ListInv, TypeInv, TypeOK
    <3>4. j.kind = "get_state" /\ j.pc = "getState" /\ j.who = e
          BY <3>3, NewJobFields
    <3> QED BY <1>9, <3>1, <3>4 DEF Brings
  <2>2. CASE ~GetState(p)
        BY <1>9, <2>2 DEF Event, Connect, Disconnect, SlideSync, HandsOn, ViewerCount, Message,
                          clients
  <2> QED BY <2>1, <2>2
<1>10. \A d \in Open \ Presenter : ~Brings(job[p], d)
       BY <1>3 DEF Brings, At
<1> HIDE DEF j
<1> QED BY <1>3, <1>4, <1>6, <1>7, <1>8, <1>9, <1>10, PageGoesOn

LEMMA PageCall ==
  ASSUME PageInv, ListInv', "stale" \notin Faults, NEW p \in Proc, Call(p)
  PROVE  PageInv'
<1>1. /\ job[p] \in Job /\ Complete(job[p]) /\ Fits(job[p]) /\ UpToDate(job[p])
      /\ job \in [Proc -> Job] /\ Open \subseteq records /\ link \in [Conn -> Link]
      /\ shown \in [Conn -> Page]
      BY DEF PageInv, ListInv, StaysListed, TypeInv, TypeOK
<1> USE DEF Job
\* A step that leaves screens, links and questions alone.
<1>2. ASSUME NEW j, Becomes(p, j), UNCHANGED <<page, link, shown, asking>>,
             j.kind \in AboutPage => job[p].kind \in AboutPage, UpToDate(j),
             \A c \in Open \ Presenter : Brings(job[p], c) => Brings(j, c)
      PROVE  PageInv'
  <2>1. Open' = Open
        BY <1>2 DEF Open
  <2>2. \A c \in Conn : shown'[c] \in {shown[c], page}
        BY <1>2
  <2>3. \A c \in Open \ Presenter : c \in asking => c \in asking' \/ Brings(j, c)
        BY <1>2
  <2> QED BY <1>2, <2>1, <2>2, <2>3, PageGoesOn
<1>3. CASE PutConnection(p) \/ DeleteConnection(p)
  <2> DEFINE j == Moved(job[p], "query")
  <2>1. /\ Becomes(p, j) /\ job[p].pc \in {"put", "delete"}
        /\ UNCHANGED <<page, link, shown, asking>>
        BY <1>3 DEF PutConnection, DeleteConnection, GoTo, Moved, At, clients
  <2>2. job[p].kind \in {"connect", "disconnect"} /\ j.kind = job[p].kind /\ j.pc = "query"
        BY <1>1, <2>1 DEF Complete, Moved
  <2>3. UpToDate(j) /\ j.kind \notin AboutPage /\ \A c \in Conn : ~Brings(job[p], c)
        BY <2>2 DEF UpToDate, AboutPage, Brings
  <2> HIDE DEF j
  <2> QED BY <1>2, <2>1, <2>3 DEF Open
<1>4. CASE Role(p)
  <2>1. At(p, "role") /\ UNCHANGED <<page, link, shown, asking>>
        BY <1>4 DEF Role, tables, clients
  <2>2. \A c \in Conn : ~Brings(job[p], c)
        BY <2>1 DEF Brings, At
  <2>3. CASE Becomes(p, Refused(job[p]))
    <3>1. Refused(job[p]).kind = "error" /\ Refused(job[p]).pc = "post"
          BY <1>1 DEF Refused
    <3>2. UpToDate(Refused(job[p])) /\ Refused(job[p]).kind \notin AboutPage
          BY <3>1 DEF UpToDate, AboutPage
    <3> QED BY <1>2, <2>1, <2>2, <2>3, <3>2 DEF Open
  <2>4. CASE /\ job[p].who \in Presenter /\ job[p].kind = "slide_sync"
             /\ Becomes(p, Moved(job[p], "putState"))
    <3>1. /\ Moved(job[p], "putState").kind = "slide_sync"
          /\ Moved(job[p], "putState").pc = "putState"
          /\ Moved(job[p], "putState").who = job[p].who
          BY <1>1, <2>4 DEF Moved
    <3>2. UpToDate(Moved(job[p], "putState"))
          BY <2>4, <3>1 DEF UpToDate
    <3> QED BY <1>2, <2>1, <2>2, <2>4, <3>1, <3>2 DEF Open
  <2>5. CASE job[p].kind # "slide_sync" /\ Becomes(p, Moved(job[p], "query"))
    <3>1. Moved(job[p], "query").kind = job[p].kind /\ Moved(job[p], "query").pc = "query"
          BY <1>1 DEF Moved
    <3>2. UpToDate(Moved(job[p], "query"))
          BY <2>5, <3>1 DEF UpToDate
    <3> QED BY <1>2, <2>1, <2>2, <2>5, <3>1, <3>2 DEF Open
  <2> QED BY <1>4, <2>3, <2>4, <2>5 DEF Role, GoTo, SendError, Moved, Refused
<1>5. CASE PutState(p)
  <2> DEFINE j == Moved(job[p], "query")
  <2>1. /\ job[p].pc = "putState" /\ Becomes(p, j) /\ page' = job[p].page
        /\ UNCHANGED <<link, shown, asking>>
        BY <1>5 DEF PutState, GoTo, Moved, At, clients
  <2>2. /\ job[p].kind = "slide_sync" /\ j.kind = "slide_sync" /\ j.pc = "query"
        /\ j.page = job[p].page /\ j.who \in Presenter
        BY <1>1, <2>1 DEF UpToDate, Moved
  <2> HIDE DEF j
  <2>3. job'[p] = j /\ \A x \in Proc : x # p => job'[x] = job[x]
        BY <1>1, <2>1 DEF Becomes
  <2>4. \A x \in Proc : x # p => job[x].kind \notin AboutPage
        BY <2>2 DEF PageInv, Serial, AboutPage
  <2>5. Serial'
        BY <2>3, <2>4 DEF Serial
  <2>6. \A x \in Proc : UpToDate(job[x])'
    <3> SUFFICES ASSUME NEW x \in Proc PROVE UpToDate(job[x])'
        OBVIOUS
    <3>1. CASE x = p
          BY <2>1, <2>2, <2>3, <3>1 DEF UpToDate
    <3>2. CASE x # p
      <4>1. UpToDate(job[x]) /\ job'[x] = job[x] /\ job[x].kind \notin AboutPage
            BY <2>3, <2>4, <3>2 DEF PageInv
      <4> QED BY <4>1 DEF UpToDate, AboutPage
    <3> QED BY <3>1, <3>2
  <2>7. \A c \in Conn : Served(c)'
        BY <2>2, <2>3 DEF Served, Brings
  <2> QED BY <2>5, <2>6, <2>7 DEF PageInv, Open
<1>6. CASE ReadState(p)
  <2> DEFINE j == Answers(job[p], page)
  <2>1. job[p].pc = "getState" /\ Becomes(p, j) /\ UNCHANGED <<page, link, shown, asking>>
        BY <1>6 DEF ReadState, PageReads, Answers, At, tables, clients
  <2>2. /\ job[p].kind = "get_state" /\ job[p].who \in job[p].rest
        /\ j.kind = "get_state" /\ j.pc = "post" /\ j.page = page /\ j.rest = job[p].rest
        BY <1>1, <2>1 DEF UpToDate, Answers
  <2>3. UpToDate(j)
        BY <2>2 DEF UpToDate
  <2>4. \A c \in Conn : Brings(job[p], c) => Brings(j, c)
        BY <2>1, <2>2 DEF Brings
  <2> HIDE DEF j
  <2> QED BY <1>2, <2>1, <2>2, <2>3, <2>4 DEF Open
<1>7. CASE Query(p)
  <2> DEFINE j == Found(job[p], records)
  <2>1. job[p].pc = "query" /\ Becomes(p, j) /\ UNCHANGED <<page, link, shown, asking>>
        BY <1>7 DEF Query, RecordReads, Found, At, tables, clients
  <2>2. /\ j.kind = job[p].kind /\ j.pc = "post" /\ j.page = job[p].page
        /\ j.rest = IF job[p].kind = "disconnect" THEN records ELSE records \ {job[p].who}
        BY <1>1 DEF Found
  <2>3. UpToDate(j)
    <3>1. job[p].kind # "get_state"
          BY <1>1, <2>1 DEF Complete, Broadcasts
    <3> QED BY <1>1, <2>1, <2>2, <3>1 DEF UpToDate
  <2>4. ASSUME NEW c \in Open \ Presenter, Brings(job[p], c) PROVE Brings(j, c)
    <3>1. job[p].kind = "slide_sync" /\ job[p].who \in Presenter
          BY <1>1, <2>1, <2>4 DEF Brings, UpToDate
    <3> QED BY <1>1, <2>2, <2>4, <3>1 DEF Brings
  <2> HIDE DEF j
  <2> QED BY <1>2, <2>1, <2>2, <2>3, <2>4
<1>8. CASE Post(p)
  <2>1. /\ job[p].pc = "post" /\ UNCHANGED <<page, link, asking>> /\ Open' = Open
        BY <1>8 DEF Post, At, tables, Open
  <2>2. PICK d \in job[p].rest :
          \/ link[d] = "open" /\ Deliver(p, d)
          \/ link[d] # "open" /\ Becomes(p, IsGone(job[p], d)) /\ UNCHANGED shown
        BY <1>8 DEF Post, IsGone
  <2>3. CASE Deliver(p, d)
    <3> DEFINE j == Sent(job[p], d)
    <3>1. /\ Becomes(p, j)
          /\ shown' = IF job[p].kind \in {"slide_sync", "get_state"}
                        THEN [shown EXCEPT ![d] = job[p].page] ELSE shown
          BY <2>3 DEF Deliver, Sent
    <3>2. /\ j.kind = job[p].kind /\ j.pc = "post" /\ j.page = job[p].page
          /\ j.rest = job[p].rest \ {d} /\ d \in Conn
          BY <1>1, <2>1 DEF Sent
    <3>3. UpToDate(j)
          BY <1>1, <2>1, <3>2 DEF UpToDate
    <3>4. job[p].kind \in {"slide_sync", "get_state"} => job[p].page = page
          BY <1>1, <2>1 DEF UpToDate
    <3>5. \A c \in Conn : shown'[c] \in {shown[c], page}
          BY <1>1, <3>1, <3>4
    <3>6. \A c \in Conn : Brings(job[p], c) => Brings(j, c) \/ shown'[c] = page
          BY <1>1, <2>1, <3>1, <3>2, <3>4 DEF Brings
    <3> HIDE DEF j
    <3>7. Open' \subseteq Open \cup asking' /\ Open \subseteq Conn
          BY <2>1 DEF Open
    <3> QED BY <2>1, <3>1, <3>2, <3>3, <3>5, <3>6, <3>7, PageGoesOn
  <2>4. CASE Becomes(p, IsGone(job[p], d)) /\ UNCHANGED shown
    <3> DEFINE j == IsGone(job[p], d)
    <3>1. /\ j.kind = job[p].kind /\ j.pc = "gone" /\ j.page = job[p].page
          /\ j.rest = job[p].rest
          BY <1>1 DEF IsGone
    <3>2. UpToDate(j)
          BY <1>1, <2>1, <3>1 DEF UpToDate
    <3>3. \A c \in Conn : Brings(job[p], c) => Brings(j, c)
          BY <2>1, <3>1 DEF Brings
    <3> HIDE DEF j
    <3> QED BY <1>2, <2>1, <2>4, <3>1, <3>2, <3>3 DEF Open, j
  <2> QED BY <2>2, <2>3, <2>4
<1>9. CASE DeleteGone(p)
  <2> DEFINE j == Dropped(job[p])
  <2>1. job[p].pc = "gone" /\ Becomes(p, j) /\ UNCHANGED <<page, link, shown, asking>>
        BY <1>9 DEF DeleteGone, Dropped, At, clients
  <2>2. /\ j.kind = job[p].kind /\ j.pc = "post" /\ j.page = job[p].page
        /\ j.rest = job[p].rest \ {job[p].gone} /\ job[p].gone \notin Open
        BY <1>1, <2>1 DEF Dropped, Fits, Open
  <2>3. UpToDate(j)
        BY <1>1, <2>1, <2>2 DEF UpToDate
  <2>4. \A c \in Open \ Presenter : Brings(job[p], c) => Brings(j, c)
        BY <2>1, <2>2 DEF Brings
  <2> HIDE DEF j
  <2> QED BY <1>2, <2>1, <2>2, <2>3, <2>4
<1>10. CASE Return(p)
  <2>1. /\ job[p].pc = "post" /\ job[p].rest = {} /\ Becomes(p, NoJob)
        /\ UNCHANGED <<page, shown>>
        BY <1>10 DEF Return, At, tables
  <2>2. asking \subseteq asking' /\ Open' \subseteq Open \cup asking'
        BY <1>1, <1>10 DEF Return, Open
  <2>3. NoJob.kind = "none" /\ NoJob.pc = "idle"
        BY DEF NoJob
  <2>4. UpToDate(NoJob) /\ NoJob.kind \notin AboutPage
        BY <2>3 DEF UpToDate, AboutPage
  <2>5. \A c \in Conn : ~Brings(job[p], c)
        BY <2>1 DEF Brings
  <2>6. \A c \in Open \ Presenter : c \in Conn /\ (c \in asking => c \in asking')
        BY <2>2 DEF Open
  <2>7. \A c \in Conn : shown'[c] \in {shown[c], page}
        BY <2>1
  <2> QED BY <2>1, <2>2, <2>4, <2>5, <2>6, <2>7, PageGoesOn
<1> QED BY <1>3, <1>4, <1>5, <1>6, <1>7, <1>8, <1>9, <1>10 DEF Call

\* Nobody comes, and no job, page or screen changes in what matters here.
LEMMA PageElsewhere ==
  ASSUME PageInv, ListInv', UNCHANGED <<page, shown>>, Open' \subseteq Open,
         \A c \in Open' : c \in asking => c \in asking',
         \A x \in Proc : /\ job'[x].pc = job[x].pc /\ job'[x].kind = job[x].kind
                        /\ job'[x].who = job[x].who /\ job'[x].rest = job[x].rest
                        /\ job'[x].page = job[x].page
  PROVE  PageInv'
<1>1. Serial'
      BY DEF PageInv, Serial
<1>2. \A x \in Proc : UpToDate(job[x])'
      BY DEF PageInv, UpToDate
<1>3. \A c \in Open' \ Presenter : Served(c)'
      BY DEF PageInv, Served, Brings
<1> QED BY <1>1, <1>2, <1>3 DEF PageInv

\* What is assumed of the environment.
Unhurried == {"crowd", "hurry", "stale", "abort"} \cap Faults = {}

LEMMA PageStep == Unhurried /\ PageInv /\ [Next]_vars => PageInv'
<1> SUFFICES ASSUME Unhurried, PageInv, [Next]_vars PROVE PageInv'
    OBVIOUS
<1>1. ListInv /\ ListInv'
      BY ListStep DEF PageInv, Unhurried
<1>2. link \in [Conn -> Link] /\ \A x \in Proc : job[x] \in Job
      BY <1>1 DEF ListInv, TypeInv, TypeOK
<1>3. ASSUME NEW p \in Proc, Event(p) PROVE PageInv'
      BY <1>1, <1>3, PageEvent DEF Unhurried
<1>4. ASSUME NEW p \in Proc, Call(p) PROVE PageInv'
      BY <1>1, <1>4, PageCall DEF Unhurried
<1>5. ASSUME NEW p \in Proc, Abort(p) PROVE PageInv'
      BY <1>5 DEF Abort, Unhurried
<1>6. ASSUME NEW c \in Conn, Close(c) PROVE PageInv'
  <2>1. \A x \in Proc : /\ job'[x].pc = job[x].pc /\ job'[x].kind = job[x].kind
                        /\ job'[x].who = job[x].who /\ job'[x].rest = job[x].rest
                        /\ job'[x].page = job[x].page
        BY <1>1, <1>2, <1>6, Releases DEF Released, Job, ListInv
  <2>2. Open' = Open \ {c} /\ asking' = asking \ {c} /\ UNCHANGED <<page, shown>>
        BY <1>2, <1>6 DEF Close, Open, tables
  <2> QED BY <1>1, <2>1, <2>2, PageElsewhere
<1>7. ASSUME NEW c \in Conn, LoseDisconnect(c) PROVE PageInv'
  <2>1. Open' \subseteq Open /\ UNCHANGED <<page, shown, asking, job>>
        BY <1>2, <1>7 DEF LoseDisconnect, Open, tables
  <2> QED BY <1>1, <2>1, PageElsewhere
<1>8. CASE CatchUp
      BY <1>1, <1>8, PageElsewhere DEF CatchUp, tables, clients, Open
<1>9. CASE UNCHANGED vars
      BY <1>1, <1>9, PageElsewhere DEF vars, Open
<1> QED BY <1>3, <1>4, <1>5, <1>6, <1>7, <1>8, <1>9 DEF Next

\* If messages about the page do not overlap, reads are up to date, no call fails and a
\* connection is set up while nothing else happens, every viewer shows the page that is
\* stored as soon as all messages are answered: whoever comes, leaves, is found gone or
\* loses his $disconnect meanwhile.
THEOREM ViewersInStep ==
  ASSUME Unhurried
  PROVE  Spec => []InStep
<1>1. PageInv => InStep
  <2> SUFFICES ASSUME PageInv, Quiet, NEW c \in Open \ Presenter PROVE shown[c] = page
      BY DEF InStep
  <2>1. Served(c) /\ c \notin asking /\ \A p \in Proc : job[p].pc = "idle"
        BY DEF PageInv, Quiet, At
  <2> QED BY <2>1 DEF Served, Brings
<1>2. PageInv /\ [Next]_vars => PageInv'
      BY PageStep
<1> QED BY <1>1, <1>2, PageInit, PTL DEF Spec

-----------------------------------------------------------------------------
(* The number on the screens (RoomCount).  A count that was taken beside   *)
(* another $connect or $disconnect may be posted after it and be wrong;    *)
(* the one of a Lambda that has the room to itself is not.                 *)

\* A $connect or a $disconnect is under way or on its way, and will count.
ToCome ==
  \/ \E c \in Conn : link[c] = "closing"
  \/ \E p \in Proc : job[p].kind \in {"connect", "disconnect"}

\* The job at p has met one that wrote and counted: nobody's number is sure.
Overtaken(p) == solo # p /\ unsure = Conn

Shows(c) == viewers[c] = Cardinality(records)

\* The answer to a viewer_count.
Answering(p) ==
  job[p].kind = "viewer_count" =>
    /\ total[p] # None => total[p] = Cardinality(records) \/ ToCome \/ Overtaken(p)
    /\ job[p].who \notin job[p].rest =>
         Shows(job[p].who) \/ link[job[p].who] # "open" \/ ToCome \/ Overtaken(p)

\* A broadcast that has the room to itself.  One who leaves meanwhile will be counted
\* out by a $disconnect of his own.
Spreading(p) ==
  /\ solo = p /\ job[p].kind \in {"connect", "disconnect"}
  /\ \A c \in Conn : link[c] # "closing"
  => /\ total[p] # None => total[p] = Cardinality(records)
     /\ At(p, "post") \/ At(p, "gone") =>
          /\ total[p] # None
          /\ \A c \in (Open \cap records) \ job[p].rest :
               Shows(c) \/ (job[p].kind = "connect" /\ c = job[p].who)

\* A Lambda that came when no other was at work, and nobody has come since.
Alone == \A p, q \in Proc : solo = p /\ q # p => At(q, "idle")

\* Where a job counts, and whom its post did not reach.
Placed(p) ==
  /\ job[p].kind \in Counting => job[p].pc \in {"put", "delete", "query", "post", "gone"}
  /\ job[p].pc \in {"idle", "put", "delete"} => total[p] = None
  /\ At(p, "gone") /\ link[job[p].gone] = "open" => Overtaken(p)

\* What CountIsRight says, also while messages other than the two are under way.
Right == ToCome \/ \A c \in Informed : Shows(c)


Shapes ==
  /\ total = [p \in Proc |-> total[p]]
  /\ viewers = [c \in Conn |-> viewers[c]]

CountInv ==
  /\ GhostInv /\ Shapes /\ Alone /\ Right
  /\ \A c \in Conn : link[c] = "connecting" => Connected(c)
  /\ \A p \in Proc : Placed(p) /\ Answering(p) /\ Spreading(p)

LEMMA CountInitially == CountInit => CountInv
<1> SUFFICES ASSUME CountInit PROVE CountInv
    OBVIOUS
<1>1. GhostInv /\ Init
      BY GhostInit DEF CountInit
<1>2. \A p \in Proc : job[p].kind = "none" /\ job[p].pc = "idle"
      BY <1>1 DEF Init, NoJob
<1>3. Shapes /\ Open = {}
      BY <1>1 DEF CountInit, Init, Shapes, Open
<1>4. \A p \in Proc : Placed(p) /\ Answering(p) /\ Spreading(p)
      BY <1>2 DEF CountInit, Placed, Answering, Spreading, Counting, At
<1> QED BY <1>1, <1>2, <1>3, <1>4 DEF CountInv, CountInit, Alone, Right, Informed, Init, At

\* While p is at work no other Lambda has the room to itself.
LEMMA BusyIsSolo ==
  ASSUME CountInv, NEW p \in Proc, ~At(p, "idle"), NEW q \in Proc, solo = q
  PROVE  q = p
BY DEF CountInv, Alone

LEMMA KindsOfIdle ==
  ASSUME CountInv, NEW p \in Proc, At(p, "idle")
  PROVE  job[p].kind \notin Counting /\ total[p] = None
BY DEF CountInv, Placed, At

\* Between a $connect and a $disconnect every record is that of an open connection.
LEMMA RecordsAreOpen ==
  ASSUME CountInv, ~ToCome, NEW c \in records
  PROVE  link[c] = "open"
<1>1. c \in Conn
      BY DEF CountInv, GhostInv, TypeInv, TypeOK
<1>2. link[c] # "connecting" /\ link[c] # "closing"
      BY <1>1 DEF CountInv, Connected, ToCome
<1>3. \A p \in Proc : ~At(p, "delete")
      BY DEF CountInv, GhostInv, TypeInv, Complete, At, ToCome
<1> QED BY <1>2, <1>3 DEF CountInv, GhostInv, NoGhost

\* The connection that p is about to delete.
LEMMA GoneRecord ==
  ASSUME CountInv, NEW p \in Proc, At(p, "gone"), ~Overtaken(p)
  PROVE  /\ ~ToCome => job[p].gone \notin records
         /\ /\ solo = p /\ \A c \in Conn : link[c] # "closing"
            => job[p].gone \notin records
<1> DEFINE g == job[p].gone
<1>1. link[g] # "open"
      BY DEF CountInv, Placed
<1>2. ~ToCome => g \notin records
      BY <1>1, RecordsAreOpen
<1>3. ASSUME solo = p, \A c \in Conn : link[c] # "closing", g \in records
      PROVE  FALSE
  <2>1. g \in Conn /\ g \in job[p].rest /\ Complete(job[p])
        BY <1>3 DEF CountInv, GhostInv, TypeInv, TypeOK, Complete, At
  <2>2. \A q \in Proc \ {p} : At(q, "idle") /\ job[q].kind \notin Counting
        BY <1>3, KindsOfIdle DEF CountInv, Alone
  <2>3. ~Connected(g)
        BY <2>1, <2>2 DEF Connected, Complete, Counting
  <2>4. link[g] # "connecting"
        BY <2>1, <2>3 DEF CountInv
  <2>5. \A q \in Proc : ~At(q, "delete")
        BY <2>2 DEF At
  <2> QED BY <1>1, <1>3, <2>1, <2>4, <2>5 DEF CountInv, GhostInv, NoGhost
<1> QED BY <1>2, <1>3

LEMMA CountIsNext ==
  ASSUME CountInv, {"abort", "disconnectLost"} \cap Faults = {}, [Next]_vars
  PROVE  GhostInv'
BY GhostStep DEF CountInv

\* An event changes no number and no record.  Only $connect and $disconnect, which
\* will count, change a link.
LEMMA CountArrive ==
  ASSUME CountInv, GhostInv', NEW p \in Proc, Arrive(p)
  PROVE  CountInv'
<1>0. TypeInv /\ GhostInv /\ At(p, "idle") /\ job[p].kind \notin Counting /\ total[p] = None
  <2>1. At(p, "idle")
        BY DEF Arrive, Event, Connect, Disconnect, SlideSync, HandsOn, ViewerCount, GetState,
               Message, Start
  <2> QED BY <2>1, KindsOfIdle DEF CountInv, GhostInv
<1>1. PICK kind, pc : \E c \in Conn, pg \in Page : EventOf(p, kind, pc, c, pg)
      BY <1>0, Events DEF Arrive
<1>2. PICK c \in Conn, pg \in Page : EventOf(p, kind, pc, c, pg)
      BY <1>1
<1>3. /\ Starts(kind, pc) /\ UNCHANGED <<records, total, viewers, unsure>>
      /\ solo' = IF \A q \in Proc \ {p} : At(q, "idle") THEN p ELSE None
      /\ job' = [x \in Proc |-> IF x = p THEN NewJob(kind, c, pc, pg) ELSE job[x]]
      BY <1>0, <1>2, StartStep DEF EventOf, tables, Arrive
<1>4. /\ \A x \in Proc : x # p => job'[x] = job[x]
      /\ job'[p].kind = kind /\ job'[p].who = c /\ job'[p].pc = pc
      /\ kind \notin Broadcasts => job'[p].rest = {c}
  <2>1. job'[p] = NewJob(kind, c, pc, pg) /\ \A x \in Proc : x # p => job'[x] = job[x]
        BY <1>3
  <2> QED BY <2>1, NewJobFields DEF NewJob, NoJob
<1>5. link \in [Conn -> Link]
      BY <1>0 DEF TypeInv, TypeOK
<1>6. \/ kind = "connect" /\ link[c] = "new" /\ link' = [link EXCEPT ![c] = "connecting"]
      \/ kind = "disconnect" /\ link[c] = "closing" /\ link' = [link EXCEPT ![c] = "closed"]
      \/ kind \notin {"connect", "disconnect"} /\ link' = link
      BY <1>2 DEF EventOf
<1>7. \A x \in Conn : link'[x] = "open" => link[x] = "open"
      BY <1>5, <1>6
<1>8. ToCome => ToCome'
  <2>1. CASE kind \in {"connect", "disconnect"}
        BY <1>4, <2>1 DEF ToCome
  <2>2. CASE kind \notin {"connect", "disconnect"}
        BY <1>0, <1>4, <1>6, <2>2 DEF ToCome, Counting
  <2> QED BY <2>1, <2>2
<1>9. ASSUME NEW q \in Proc, q # p, ~At(q, "idle"), Overtaken(q) PROVE Overtaken(q)'
      BY <1>3, <1>9, CountAssumption DEF Overtaken
<1>10. Alone'
  <2> SUFFICES ASSUME NEW x \in Proc, NEW y \in Proc, solo' = x, y # x PROVE At(y, "idle")'
      BY DEF Alone
  <2>1. x = p /\ \A q \in Proc \ {p} : At(q, "idle")
        BY <1>3, CountAssumption
  <2> QED BY <1>4, <2>1 DEF At
<1>11. ASSUME NEW d \in Conn, link'[d] = "connecting" PROVE Connected(d)'
  <2>1. CASE link[d] = "connecting"
    <3>1. PICK x \in Proc : job[x].kind = "connect" /\ job[x].who = d
          BY <2>1 DEF CountInv, Connected
    <3>2. x # p
          BY <1>0, <3>1 DEF Counting
    <3> QED BY <1>4, <3>1, <3>2 DEF Connected
  <2>2. CASE link[d] # "connecting"
    <3>1. d = c /\ kind = "connect"
          BY <1>5, <1>6, <1>11, <2>2
    <3> QED BY <1>4, <3>1 DEF Connected
  <2> QED BY <2>1, <2>2
<1>12. Right'
  <2> SUFFICES ASSUME ~ToCome', NEW d \in Informed' PROVE Shows(d)'
      BY DEF Right
  <2>1. ~ToCome /\ d \in Informed
        BY <1>3, <1>7, <1>8 DEF Informed, Open
  <2>2. Shows(d)
        BY <2>1 DEF CountInv, Right
  <2> QED BY <1>3, <2>2 DEF Shows
<1>13. Placed(p)' /\ Answering(p)' /\ Spreading(p)'
  <2>1. kind \in Counting => pc \in {"put", "delete", "post"}
        BY <1>3 DEF Starts, Counting
  <2>2. kind = "viewer_count" => job'[p].who \in job'[p].rest
        BY <1>4 DEF Broadcasts
  <2>3. pc # "gone" /\ (kind \in {"connect", "disconnect"} => pc # "post")
        BY <1>3 DEF Starts
  <2>4. total'[p] = None
        BY <1>0, <1>3
  <2>5. Placed(p)'
        BY <1>4, <2>1, <2>3, <2>4 DEF Placed, At
  <2>6. Answering(p)'
        BY <1>4, <2>2, <2>4 DEF Answering
  <2>7. Spreading(p)'
        BY <1>4, <2>3, <2>4 DEF Spreading, At
  <2> QED BY <2>5, <2>6, <2>7
<1>14. ASSUME NEW q \in Proc, q # p PROVE Placed(q)' /\ Answering(q)' /\ Spreading(q)'
  <2>1. job'[q] = job[q] /\ Placed(q) /\ Answering(q) /\ total'[q] = total[q]
        BY <1>3, <1>4, <1>14 DEF CountInv
  <2>2. Placed(q)'
    <3>1. At(q, "gone") => job[q].gone \in Conn /\ ~At(q, "idle")
          BY <1>0 DEF TypeInv, TypeOK, Complete, At, Job
    <3> QED BY <1>7, <1>9, <1>14, <2>1, <3>1 DEF Placed, At
  <2>3. Answering(q)'
    <3>1. job[q].kind = "viewer_count" => ~At(q, "idle") /\ job[q].who \in Conn
          BY <1>0, KindsOfIdle DEF Counting, TypeInv, Complete, At
    <3> QED BY <1>3, <1>7, <1>8, <1>9, <1>14, <2>1, <3>1 DEF Answering, Shows
  <2>4. solo' # q
        BY <1>3, <1>14, CountAssumption
  <2> QED BY <2>2, <2>3, <2>4 DEF Spreading
<1>15. Shapes'
       BY <1>3 DEF CountInv, Shapes
<1> QED BY <1>10, <1>11, <1>12, <1>13, <1>14, <1>15 DEF CountInv

LEMMA CountCounts ==
  ASSUME CountInv, GhostInv', "stale" \notin Faults, NEW p \in Proc, CountByRoom(p)
  PROVE  CountInv'
<1>1. /\ UNCHANGED <<vars, viewers, solo, unsure>> /\ MustCount(p)
      /\ total' = [total EXCEPT ![p] = Cardinality(records)]
      BY DEF CountByRoom, RecordReads
<1>2. /\ total'[p] = Cardinality(records)
      /\ \A q \in Proc : q # p => total'[q] = total[q]
      BY <1>1 DEF CountInv, Shapes
<1>3. UNCHANGED <<link, records, job>>
      BY <1>1 DEF vars
<1>4. ToCome' = ToCome /\ Alone' /\ Right' /\ \A c : Shows(c)' = Shows(c)
      BY <1>1, <1>3 DEF ToCome, Right, Informed, Open, Shows, CountInv, Alone, At
<1>5. Shapes'
      BY <1>1 DEF CountInv, Shapes
<1>6. ~(job[p].pc \in {"idle", "put", "delete"})
      BY <1>1 DEF MustCount, CountsAt, At
<1>7. \A q \in Proc : Placed(q)'
      BY <1>1, <1>2, <1>3, <1>6 DEF CountInv, Placed, At, Overtaken
<1>8. \A q \in Proc : Answering(q)'
      BY <1>1, <1>2, <1>3, <1>4 DEF CountInv, Answering, Overtaken
<1>9. \A q \in Proc : Spreading(q)'
  <2> SUFFICES ASSUME NEW q \in Proc PROVE Spreading(q)'
      OBVIOUS
  <2>1. Spreading(q)
        BY DEF CountInv
  <2>2. CASE q = p
    <3>1. job[p].kind \in {"connect", "disconnect"} => At(p, "query")
          BY <1>1 DEF MustCount, CountsAt
    <3> QED BY <1>2, <1>3, <2>2, <3>1 DEF Spreading, At
  <2>3. CASE q # p
        BY <1>1, <1>2, <1>3, <1>4, <2>1, <2>3 DEF Spreading, At, Open
  <2> QED BY <2>2, <2>3
<1> QED BY <1>3, <1>4, <1>5, <1>7, <1>8, <1>9 DEF CountInv, Connected

LEMMA CountClose ==
  ASSUME CountInv, GhostInv', NEW c \in Conn, Close(c), UNCHANGED <<total, viewers, solo, unsure>>
  PROVE  CountInv'
<1>0. TypeInv /\ link \in [Conn -> Link]
      BY DEF CountInv, GhostInv, TypeInv, TypeOK
<1>1. \A x \in Proc : /\ job'[x].pc = job[x].pc /\ job'[x].kind = job[x].kind
                      /\ job'[x].who = job[x].who /\ job'[x].rest = job[x].rest
                      /\ job'[x].gone = job[x].gone
      BY <1>0, Releases DEF Released, Job, TypeInv, TypeOK
<1>2. \A x \in Conn : link'[x] = IF x = c THEN "closing" ELSE link[x]
      BY <1>0 DEF Close
<1>3. ToCome'
      BY <1>2 DEF ToCome
<1>4. ASSUME NEW x \in Conn, link'[x] = "connecting" PROVE Connected(x)'
      BY <1>1, <1>2, <1>4 DEF CountInv, Connected
<1>5. ASSUME NEW q \in Proc PROVE Placed(q)' /\ Answering(q)' /\ Spreading(q)'
  <2>1. At(q, "gone") => job[q].gone \in Conn
        BY <1>0 DEF TypeInv, TypeOK, Complete, At, Job
  <2>2. Placed(q)'
        BY <1>1, <1>2, <2>1 DEF CountInv, Placed, At, Overtaken
  <2>3. Answering(q)'
        BY <1>3 DEF Answering
  <2>4. Spreading(q)'
        BY <1>2 DEF Spreading
  <2> QED BY <2>2, <2>3, <2>4
<1> QED BY <1>1, <1>3, <1>4, <1>5 DEF CountInv, Alone, At, Right, Shapes

\* A $connect or $disconnect that had the room to itself has told everybody; after any
\* other nobody is sure.
LEMMA CountFinish ==
  ASSUME CountInv, GhostInv', NEW p \in Proc, Finish(p)
  PROVE  CountInv'
<1>0. /\ TypeInv /\ link \in [Conn -> Link] /\ At(p, "post") /\ job[p].rest = {}
      /\ job[p].who \in Conn /\ ~MustCount(p) /\ Connecting(job[p])
  <2>1. At(p, "post") /\ job[p].rest = {} /\ ~MustCount(p)
        BY DEF Finish, Return
  <2> QED BY <2>1 DEF CountInv, GhostInv, TypeInv, TypeOK, Complete, At
<1>1. /\ UNCHANGED <<records, viewers, solo>> /\ unsure' = Unsure(p)
      /\ total' = [total EXCEPT ![p] = None]
      /\ job' = [x \in Proc |-> IF x = p THEN NoJob ELSE job[x]]
  <2>1. Becomes(p, NoJob) /\ UNCHANGED records
        BY DEF Finish, Return, tables
  <2>2. job' = [x \in Proc |-> IF x = p THEN NoJob ELSE job[x]]
        BY <1>0, <2>1, NoJobType, JobStep
  <2> QED BY <2>1, <2>2 DEF Finish
<1>2. /\ \A x \in Proc : x # p => job'[x] = job[x] /\ total'[x] = total[x]
      /\ job'[p].kind = "none" /\ job'[p].pc = "idle" /\ total'[p] = None
  <2>1. /\ \A x \in Proc : x # p => job'[x] = job[x] /\ total'[x] = total[x]
        /\ job'[p] = NoJob /\ total'[p] = None
        BY <1>1 DEF CountInv, Shapes
  <2> QED BY <2>1 DEF NoJob
<1>3. \/ job[p].kind = "connect" /\ link' = [link EXCEPT ![job[p].who] = "open"]
      \/ job[p].kind # "connect" /\ link' = link
      BY DEF Finish, Return
<1>4. \A x \in Conn : x # job[p].who \/ job[p].kind # "connect" => link'[x] = link[x]
      BY <1>0, <1>3
<1>5. Alone' /\ Shapes'
      BY <1>1, <1>2 DEF CountInv, Alone, At, Shapes
<1>6. ASSUME NEW d \in Conn, link'[d] = "connecting" PROVE Connected(d)'
  <2>1. link[d] = "connecting"
        BY <1>0, <1>3, <1>6
  <2>2. PICK x \in Proc : job[x].kind = "connect" /\ job[x].who = d
        BY <2>1 DEF CountInv, Connected
  <2>3. x # p
        BY <1>0, <1>3, <1>6, <2>2
  <2> QED BY <1>2, <2>2, <2>3 DEF Connected
<1>7. Placed(p)' /\ Answering(p)' /\ Spreading(p)'
      BY <1>2 DEF Placed, Answering, Spreading, Counting, At
<1>8. \A q \in Proc : q # p /\ solo = q => FALSE
      BY <1>0, BusyIsSolo DEF At
<1>9. CASE unsure' = Conn
  <2>1. Right'
        BY <1>9 DEF Right, Informed, Open
  <2>2. ASSUME NEW q \in Proc, q # p PROVE Placed(q)' /\ Answering(q)' /\ Spreading(q)'
    <3>1. Overtaken(q)' /\ solo' # q
          BY <1>1, <1>8, <1>9, <2>2 DEF Overtaken
    <3> QED BY <1>2, <2>2, <3>1 DEF CountInv, Placed, Answering, Spreading, At
  <2> QED BY <1>5, <1>6, <1>7, <2>1, <2>2 DEF CountInv
<1>10. CASE job[p].kind \notin Counting
  <2>1. unsure' = unsure /\ link' = link
        BY <1>1, <1>3, <1>10 DEF Unsure, Counting
  <2>2. ToCome' = ToCome
        BY <1>2, <1>10, <2>1 DEF ToCome, Counting
  <2>3. Right'
        BY <1>1, <2>1, <2>2 DEF CountInv, Right, Informed, Open, Shows
  <2>4. ASSUME NEW q \in Proc, q # p PROVE Placed(q)' /\ Answering(q)' /\ Spreading(q)'
    <3>1. job'[q] = job[q] /\ total'[q] = total[q] /\ solo' # q
          BY <1>1, <1>2, <1>8, <2>4
    <3> QED BY <1>1, <2>1, <2>2, <3>1
            DEF CountInv, Placed, Answering, Spreading, At, Overtaken, Shows
  <2> QED BY <1>5, <1>6, <1>7, <2>3, <2>4 DEF CountInv
<1>11. CASE solo = p /\ job[p].kind \in Counting
  <2>1. ASSUME NEW q \in Proc, q # p PROVE Placed(q)' /\ Answering(q)' /\ Spreading(q)'
    <3>1. At(q, "idle") /\ job[q].kind \notin Counting /\ total[q] = None
          BY <1>11, <2>1, KindsOfIdle DEF CountInv, Alone
    <3>2. job'[q].pc = "idle" /\ job'[q].kind \notin Counting /\ total'[q] = None
          BY <1>2, <2>1, <3>1 DEF At
    <3> QED BY <3>2 DEF Placed, Answering, Spreading, Counting, At
  <2>2. Right'
    <3> SUFFICES ASSUME ~ToCome', NEW d \in Informed' PROVE Shows(d)'
        BY DEF Right
    <3>1. \A x \in Conn : link'[x] # "closing"
          BY DEF ToCome
    <3>2. \A x \in Conn : link[x] # "closing"
          BY <1>0, <1>3, <1>4, <3>1 DEF Connecting
    <3>3. d \in Conn /\ d \in records /\ link'[d] = "open" /\ d \notin Unsure(p)
          BY <1>1 DEF Informed, Open
    <3>4. CASE job[p].kind \in {"connect", "disconnect"}
      <4>1. job[p].kind = "connect" => d # job[p].who
            BY <1>11, <3>3, <3>4 DEF Unsure, Counting
      <4>2. d \in Open
            BY <1>4, <3>3, <4>1 DEF Open
      <4>3. Shows(d)
            BY <1>0, <1>11, <3>2, <3>3, <3>4, <4>1, <4>2 DEF CountInv, Spreading
      <4> QED BY <1>1, <4>3 DEF Shows
    <3>5. CASE job[p].kind = "viewer_count"
      <4>1. link' = link /\ unsure' = unsure \ {job[p].who}
            BY <1>1, <1>3, <1>11, <3>5 DEF Unsure, Counting
      <4>2. ~ToCome
            BY <1>2, <3>5, <4>1 DEF ToCome
      <4>3. CASE d = job[p].who
            BY <1>0, <1>1, <1>11, <3>3, <3>5, <4>1, <4>2, <4>3
               DEF CountInv, Answering, Overtaken, Shows
      <4>4. CASE d # job[p].who
            BY <1>1, <3>3, <4>1, <4>2, <4>4 DEF CountInv, Right, Informed, Open, Shows
      <4> QED BY <4>3, <4>4
    <3> QED BY <1>11, <3>4, <3>5 DEF Counting
  <2> QED BY <1>5, <1>6, <1>7, <2>1, <2>2 DEF CountInv
<1> QED BY <1>1, <1>9, <1>10, <1>11 DEF Unsure

\* What a call other than the last makes of the job of p, which becomes j, of the
\* records and of the screens.
Works(p, j) ==
  \/ /\ job[p].pc \in {"put", "delete"} /\ job[p].kind \in {"connect", "disconnect"}
     /\ j = Moved(job[p], "query") /\ UNCHANGED viewers
  \/ /\ job[p].kind \notin Counting /\ j.kind \notin Counting
     /\ j.pc \notin {"idle", "put", "delete", "gone"}
     /\ UNCHANGED <<records, viewers>>
  \/ /\ job[p].pc = "query" /\ j = Found(job[p], records)
     /\ UNCHANGED <<records, viewers>>
  \/ /\ job[p].pc = "post"
     /\ \E c \in job[p].rest :
          /\ link[c] = "open" /\ j = Sent(job[p], c)
          /\ viewers' = IF job[p].kind \in Counting
                          THEN [x \in Conn |-> IF x = c THEN total[p] ELSE viewers[x]] ELSE viewers
     /\ UNCHANGED records
  \/ /\ job[p].pc = "post"
     /\ \E c \in job[p].rest : link[c] # "open" /\ j = IsGone(job[p], c)
     /\ UNCHANGED <<records, viewers>>
  \/ /\ job[p].pc = "gone" /\ j = Dropped(job[p])
     /\ records' = records \/ records' = records \ {job[p].gone}
     /\ UNCHANGED viewers

LEMMA WorkWorks ==
  ASSUME CountInv, "stale" \notin Faults, NEW p \in Proc, Work(p)
  PROVE  /\ UNCHANGED <<link, total, solo, unsure>> /\ ~MustCount(p) /\ ~At(p, "idle")
         /\ \E j : /\ Works(p, j) /\ j \in Job /\ j.pc \notin {"idle", "put", "delete"}
                   /\ job' = [x \in Proc |-> IF x = p THEN j ELSE job[x]]
<1>0. /\ job[p] \in Job /\ Complete(job[p]) /\ TypeInv /\ Placed(p)
      /\ job \in [Proc -> Job] /\ viewers = [c \in Conn |-> viewers[c]]
      BY DEF CountInv, GhostInv, TypeInv, TypeOK, Shapes
<1>1. /\ UNCHANGED <<total, solo, unsure>> /\ ~MustCount(p) /\ Call(p) /\ job'[p].pc # "idle"
      /\ viewers' = [c \in Conn |-> IF c \in Told(p) THEN total[p] ELSE viewers[c]]
      BY DEF Work
<1>2. /\ \A j : Becomes(p, j) => job' = [x \in Proc |-> IF x = p THEN j ELSE job[x]]
      /\ ~At(p, "idle")
  <2>1. ~At(p, "idle")
        BY <1>1 DEF Call, PutConnection, DeleteConnection, Role, PutState, ReadState, Query, Post,
                    DeleteGone, Return, At
  <2> QED BY <1>0, <2>1 DEF Becomes
<1>3. Told(p) = {} => viewers' = viewers
      BY <1>0, <1>1
<1>4. ASSUME NEW j \in Job, Becomes(p, j), Works(p, j), link' = link,
             j.pc \notin {"idle", "put", "delete"}
      PROVE  /\ UNCHANGED <<link, total, solo, unsure>> /\ ~MustCount(p) /\ ~At(p, "idle")
             /\ \E i : /\ Works(p, i) /\ i \in Job /\ i.pc \notin {"idle", "put", "delete"}
                       /\ job' = [x \in Proc |-> IF x = p THEN i ELSE job[x]]
      BY <1>1, <1>2, <1>4
<1>5. ~At(p, "post") => viewers' = viewers
      BY <1>3 DEF Told
<1>6. CASE PutConnection(p) \/ DeleteConnection(p)
  <2>1. /\ job[p].pc \in {"put", "delete"} /\ Becomes(p, Moved(job[p], "query")) /\ link' = link
        BY <1>6 DEF PutConnection, DeleteConnection, At, GoTo, Moved, clients
  <2>2. job[p].kind \in {"connect", "disconnect"}
        BY <1>0, <2>1 DEF Complete
  <2>3. Moved(job[p], "query") \in Job /\ Moved(job[p], "query").pc = "query"
        BY <1>0, <2>1, MovesType DEF Moved, Job
  <2>4. Works(p, Moved(job[p], "query"))
        BY <1>5, <2>1, <2>2 DEF Works, At
  <2> QED BY <1>4, <2>1, <2>3, <2>4
<1>7. CASE Role(p) \/ PutState(p) \/ ReadState(p)
  <2>1. job[p].pc \in {"role", "putState", "getState"} /\ UNCHANGED <<records, link>>
        BY <1>7 DEF Role, PutState, ReadState, At, tables, clients
  <2>2. PICK j : /\ Becomes(p, j)
                 /\ \/ job[p].pc = "role" /\ j = Moved(job[p], "putState")
                    \/ job[p].pc \in {"role", "putState"} /\ j = Moved(job[p], "query")
                    \/ j = Refused(job[p])
                    \/ job[p].pc = "getState" /\ \E pg \in Page : j = Answers(job[p], pg)
    <3>1. CASE Role(p)
          BY <3>1 DEF Role, At, GoTo, SendError, Moved, Refused
    <3>2. CASE PutState(p)
          BY <3>2 DEF PutState, At, GoTo, Moved
    <3>3. CASE ReadState(p)
      <4>1. PageReads \subseteq Page
            BY <1>0 DEF PageReads, TypeInv, TypeOK
      <4> QED BY <3>3, <4>1 DEF ReadState, At, Answers
    <3> QED BY <1>7, <3>1, <3>2, <3>3
  <2>3. j \in Job
        BY <1>0, <2>1, <2>2, MovesType
  <2>4. job[p].kind \notin Counting
        BY <1>0, <2>1 DEF Placed
  <2>5. /\ j.pc \in {"putState", "query", "post"} /\ (j.kind = job[p].kind \/ j.kind = "error")
        BY <1>0, <2>2 DEF Job, Moved, Refused, Answers
  <2>6. Works(p, j)
        BY <1>5, <2>1, <2>4, <2>5 DEF Works, Counting, At
  <2> QED BY <1>4, <2>1, <2>2, <2>3, <2>5, <2>6
<1>8. CASE Query(p)
  <2>1. /\ job[p].pc = "query" /\ Becomes(p, Found(job[p], records))
        /\ UNCHANGED <<records, link>>
        BY <1>8 DEF Query, At, Found, RecordReads, tables, clients
  <2>2. Found(job[p], records) \in Job /\ Found(job[p], records).pc = "post"
    <3>1. records \in SUBSET Conn
          BY <1>0 DEF TypeInv, TypeOK
    <3>2. Found(job[p], records) \in Job
          BY <1>0, <2>1, <3>1, MovesType
    <3> QED BY <1>0, <3>2 DEF Found, Job
  <2>3. Works(p, Found(job[p], records))
        BY <1>5, <2>1 DEF Works, At
  <2> QED BY <1>4, <2>1, <2>2, <2>3
<1>9. CASE Post(p)
  <2>1. PICK c \in job[p].rest : \/ link[c] = "open" /\ Becomes(p, Sent(job[p], c))
                                 \/ link[c] # "open" /\ Becomes(p, IsGone(job[p], c))
        BY <1>9 DEF Post, Deliver, Sent, IsGone
  <2>2. job[p].pc = "post" /\ UNCHANGED <<records, link>> /\ c \in Conn
        BY <1>0, <1>9 DEF Post, At, tables, Job
  <2>3. CASE link[c] = "open" /\ Becomes(p, Sent(job[p], c))
    <3>1. job'[p] = Sent(job[p], c)
          BY <1>2, <2>3
    <3>2. /\ Sent(job[p], c) \in Job /\ Sent(job[p], c).pc = "post"
          /\ Sent(job[p], c).rest = job[p].rest \ {c}
          BY <1>0, <2>2, MovesType DEF Sent, Job
    <3>3. Told(p) = IF job[p].kind \in Counting THEN {c} ELSE {}
          BY <2>2, <3>1, <3>2 DEF Told, At
    <3>4. viewers' = IF job[p].kind \in Counting
                       THEN [x \in Conn |-> IF x = c THEN total[p] ELSE viewers[x]] ELSE viewers
          BY <1>1, <1>3, <3>3
    <3>5. Works(p, Sent(job[p], c))
          BY <2>2, <2>3, <3>4 DEF Works
    <3> QED BY <1>4, <2>2, <2>3, <3>2, <3>5
  <2>4. CASE link[c] # "open" /\ Becomes(p, IsGone(job[p], c))
    <3>1. job'[p] = IsGone(job[p], c)
          BY <1>2, <2>4
    <3>2. IsGone(job[p], c) \in Job /\ IsGone(job[p], c).pc = "gone"
          BY <1>0, <2>2, MovesType DEF IsGone, Job
    <3>3. viewers' = viewers
          BY <1>3, <3>1, <3>2 DEF Told
    <3>4. Works(p, IsGone(job[p], c))
          BY <2>2, <2>4, <3>3 DEF Works
    <3> QED BY <1>4, <2>2, <2>4, <3>2, <3>4
  <2> QED BY <2>1, <2>3, <2>4
<1>10. CASE DeleteGone(p)
  <2>1. /\ job[p].pc = "gone" /\ Becomes(p, Dropped(job[p])) /\ link' = link
        /\ records' = records \/ records' = records \ {job[p].gone}
        BY <1>10 DEF DeleteGone, At, Dropped, clients
  <2>2. Dropped(job[p]) \in Job /\ Dropped(job[p]).pc = "post"
        BY <1>0, <2>1, MovesType DEF Dropped, Job
  <2>3. Works(p, Dropped(job[p]))
        BY <1>5, <2>1 DEF Works, At
  <2> QED BY <1>4, <2>1, <2>2, <2>3
<1>11. ~Return(p)
       BY <1>1, <1>2 DEF Return, NoJob
<1> QED BY <1>1, <1>6, <1>7, <1>8, <1>9, <1>10, <1>11 DEF Call

\* What Works leaves of a job.
LEMMA WorksKeeps ==
  ASSUME CountInv, NEW p \in Proc, NEW j, Works(p, j)
  PROVE  /\ job[p].pc # "idle" \/ job[p].kind \notin Counting
         /\ j.kind = job[p].kind \/ (job[p].kind \notin Counting /\ j.kind \notin Counting)
         /\ j.kind \in Counting => j.who = job[p].who
         /\ j.kind \in Counting => j.pc \in {"query", "post", "gone"}
         /\ j.pc = "gone" => link[j.gone] # "open"
<1>1. job[p] \in Job /\ (job[p].kind \in Counting => job[p].pc # "idle")
      BY DEF CountInv, Placed, GhostInv, TypeInv, TypeOK
<1> USE DEF Job
<1>2. CASE job[p].pc \in {"put", "delete"} /\ j = Moved(job[p], "query")
      BY <1>1, <1>2 DEF Moved
<1>3. CASE /\ job[p].kind \notin Counting /\ j.kind \notin Counting
           /\ j.pc \notin {"idle", "put", "delete", "gone"}
      BY <1>3
<1>4. CASE job[p].pc = "query" /\ j = Found(job[p], records)
      BY <1>1, <1>4 DEF Found
<1>5. CASE job[p].pc = "post" /\ \E c \in job[p].rest : j = Sent(job[p], c)
      BY <1>1, <1>5 DEF Sent
<1>6. CASE job[p].pc = "post" /\ \E c \in job[p].rest : link[c] # "open" /\ j = IsGone(job[p], c)
      BY <1>1, <1>6 DEF IsGone
<1>7. CASE job[p].pc = "gone" /\ j = Dropped(job[p])
      BY <1>1, <1>7 DEF Dropped
<1> QED BY <1>2, <1>3, <1>4, <1>5, <1>6, <1>7 DEF Works

LEMMA CountWork ==
  ASSUME CountInv, GhostInv', "stale" \notin Faults, NEW p \in Proc, Work(p)
  PROVE  CountInv'
<1>0. /\ UNCHANGED <<link, total, solo, unsure>> /\ ~MustCount(p) /\ ~At(p, "idle")
      /\ job[p] \in Job /\ Complete(job[p]) /\ Placed(p) /\ Answering(p) /\ Spreading(p)
      BY WorkWorks DEF CountInv, GhostInv, TypeInv, TypeOK
<1>1. PICK j : /\ Works(p, j) /\ j \in Job /\ j.pc \notin {"idle", "put", "delete"}
               /\ job' = [x \in Proc |-> IF x = p THEN j ELSE job[x]]
      BY WorkWorks
<1>2. job'[p] = j /\ \A x \in Proc : x # p => job'[x] = job[x]
      BY <1>1
<1>3. /\ j.kind = job[p].kind \/ (job[p].kind \notin Counting /\ j.kind \notin Counting)
      /\ j.kind \in Counting => j.who = job[p].who /\ j.pc \in {"query", "post", "gone"}
      /\ j.pc = "gone" => link[j.gone] # "open"
      BY <1>1, WorksKeeps
<1>4. \A x \in Proc : \A kind \in Counting : job'[x].kind = kind <=> job[x].kind = kind
      BY <1>2, <1>3
<1>5. ToCome' <=> ToCome
      BY <1>0, <1>4 DEF ToCome, Counting
<1>6. /\ job[p].kind \notin {"connect", "disconnect"} => job[p].pc \notin {"put", "delete"}
      /\ job[p].kind = "viewer_count" => job[p].pc # "query"
      BY <1>0 DEF Complete, Broadcasts
\* Between a $connect and a $disconnect the records stay, and what is told is right,
\* unless nobody is sure.
<1>7. ASSUME ~ToCome, ~Overtaken(p)
      PROVE  /\ records' = records
             /\ \A c \in Conn : viewers'[c] = viewers[c] \/ viewers'[c] = Cardinality(records)
  <2>1. job[p].kind \notin {"connect", "disconnect"}
        BY <1>7 DEF ToCome
  <2>2. job[p].pc \notin {"put", "delete"}
        BY <1>6, <2>1
  <2>3. At(p, "gone") => records \ {job[p].gone} = records
        BY <1>7, GoneRecord
  <2>4. records' = records
        BY <1>1, <2>2, <2>3 DEF Works, At
  <2>5. job[p].kind \in Counting /\ job[p].pc = "post" => total[p] = Cardinality(records)
        BY <1>0, <1>7, <2>1 DEF Answering, MustCount, CountsAt, Counting, At
  <2>6. \A c \in Conn : viewers'[c] = viewers[c] \/ viewers'[c] = Cardinality(records)
        BY <1>1, <2>2, <2>5 DEF Works
  <2> QED BY <2>4, <2>6
<1>8. ASSUME Overtaken(p), NEW x \in Proc PROVE Overtaken(x)
      BY <1>0, <1>8, BusyIsSolo DEF Overtaken
<1>9. ASSUME NEW c \in Conn, Shows(c), ~ToCome, ~Overtaken(p) PROVE Shows(c)'
      BY <1>7, <1>9 DEF Shows
<1>10. Alone' /\ Shapes' /\ \A x \in Proc : Overtaken(x)' <=> Overtaken(x)
  <2>1. Alone'
        BY <1>0, <1>2, BusyIsSolo DEF CountInv, Alone, At
  <2>2. viewers' = [c \in Conn |-> viewers'[c]]
        BY DEF Work
  <2> QED BY <1>0, <2>1, <2>2 DEF CountInv, Shapes, Overtaken
<1>11. Right'
  <2> SUFFICES ASSUME ~ToCome', NEW c \in Informed' PROVE Shows(c)'
      BY DEF Right
  <2>1. ~ToCome /\ ~Overtaken(p) /\ c \in Conn /\ c \in Open /\ c \notin unsure
        BY <1>0, <1>5 DEF Informed, Open, Overtaken
  <2>2. c \in records
        BY <1>7, <2>1 DEF Informed
  <2> QED BY <1>9, <2>1, <2>2 DEF CountInv, Right, Informed
<1>12. ASSUME NEW d \in Conn, link'[d] = "connecting" PROVE Connected(d)'
  <2>1. PICK x \in Proc : job[x].kind = "connect" /\ job[x].who = d
        BY <1>0, <1>12 DEF CountInv, Connected
  <2>2. job'[x].kind = "connect" /\ job'[x].who = d
        BY <1>2, <1>3, <2>1 DEF Counting
  <2> QED BY <2>2 DEF Connected
<1>13. ASSUME NEW x \in Proc, x # p PROVE Placed(x)' /\ Answering(x)' /\ Spreading(x)'
  <2>1. job'[x] = job[x] /\ Placed(x) /\ Answering(x) /\ solo' # x
        BY <1>0, <1>2, <1>13, BusyIsSolo DEF CountInv
  <2>2. Placed(x)'
        BY <1>0, <1>10, <2>1 DEF Placed, At
  <2>3. job[x].kind = "viewer_count" => job[x].who \in Conn
        BY KindsOfIdle DEF CountInv, GhostInv, TypeInv, Complete, Counting, At
  <2>4. Answering(x)'
    <3>1. CASE ToCome
          BY <1>5, <3>1 DEF Answering
    <3>2. CASE Overtaken(p)
          BY <1>8, <1>10, <3>2 DEF Answering
    <3>3. CASE ~ToCome /\ ~Overtaken(p)
          BY <1>0, <1>7, <1>9, <1>10, <2>1, <2>3, <3>3 DEF Answering
    <3> QED BY <3>1, <3>2, <3>3
  <2> QED BY <2>1, <2>2, <2>4 DEF Spreading
<1>14. Placed(p)'
       BY <1>0, <1>1, <1>2, <1>3, <1>10 DEF Placed, At
<1>15. Answering(p)'
  <2> SUFFICES ASSUME j.kind = "viewer_count", ~ToCome, ~Overtaken(p)
               PROVE  /\ total[p] # None => total[p] = Cardinality(records)
                      /\ j.who \notin j.rest => Shows(j.who)' \/ link[j.who] # "open"
      BY <1>0, <1>2, <1>5, <1>7, <1>10 DEF Answering
  <2>1. job[p].kind = "viewer_count" /\ j.who = job[p].who /\ job[p].pc \notin {"put", "delete", "query"}
        BY <1>3, <1>6 DEF Counting
  <2>2. total[p] # None => total[p] = Cardinality(records)
        BY <1>0, <2>1 DEF Answering
  <2>3. j.who \in Conn
        BY <1>0, <2>1 DEF Complete, At
  <2>4. job[p].who \notin job[p].rest => Shows(j.who)' \/ link[j.who] # "open"
        BY <1>0, <1>9, <2>1, <2>3 DEF Answering
  <2>5. ASSUME NEW c \in job[p].rest, job[p].pc = "post", j = Sent(job[p], c),
               viewers' = IF job[p].kind \in Counting
                            THEN [x \in Conn |-> IF x = c THEN total[p] ELSE viewers[x]] ELSE viewers,
               j.who \notin j.rest
        PROVE  Shows(j.who)' \/ link[j.who] # "open"
    <3>1. total[p] # None
          BY <1>0, <2>1, <2>5 DEF MustCount, CountsAt, Counting, At
    <3>2. j.rest = job[p].rest \ {c}
          BY <1>0, <2>5 DEF Sent, Job
    <3>3. CASE c = j.who
      <4>1. viewers'[c] = Cardinality(records)
            BY <2>1, <2>2, <2>3, <2>5, <3>1, <3>3 DEF Counting
      <4> QED BY <1>7, <3>3, <4>1 DEF Shows
    <3> QED BY <2>1, <2>4, <2>5, <3>2, <3>3
  <2>6. ASSUME NEW c \in job[p].rest, j = IsGone(job[p], c), j.who \notin j.rest
        PROVE  Shows(j.who)' \/ link[j.who] # "open"
        BY <1>0, <2>1, <2>4, <2>6 DEF IsGone, Job
  <2>7. ASSUME job[p].pc = "gone", j = Dropped(job[p]), j.who \notin j.rest
        PROVE  Shows(j.who)' \/ link[j.who] # "open"
    <3>1. j.rest = job[p].rest \ {job[p].gone} /\ link[job[p].gone] # "open"
          BY <1>0, <2>7 DEF Dropped, Job, Placed, At
    <3> QED BY <2>1, <2>4, <2>7, <3>1
  <2>8. j.who \notin j.rest => Shows(j.who)' \/ link[j.who] # "open"
        BY <1>1, <2>1, <2>5, <2>6, <2>7 DEF Works, Counting
  <2> QED BY <2>2, <2>8
<1>16. Spreading(p)'
  <2> SUFFICES ASSUME solo = p, j.kind \in {"connect", "disconnect"},
                      \A c \in Conn : link[c] # "closing"
               PROVE  /\ total[p] # None => total[p] = Cardinality(records')
                      /\ j.pc = "post" \/ j.pc = "gone" =>
                           /\ total[p] # None
                           /\ \A c \in (Open \cap records') \ j.rest :
                                Shows(c)' \/ (j.kind = "connect" /\ c = j.who)
      BY <1>0, <1>2 DEF Spreading, At, Open
  <2>1. job[p].kind = j.kind /\ j.who = job[p].who
        BY <1>3 DEF Counting
  <2>2. /\ total[p] # None => total[p] = Cardinality(records)
        /\ job[p].pc = "post" \/ job[p].pc = "gone" =>
             /\ total[p] # None
             /\ \A c \in (Open \cap records) \ job[p].rest :
                  Shows(c) \/ (j.kind = "connect" /\ c = j.who)
        BY <1>0, <2>1 DEF Spreading, At
  <2>3. CASE job[p].pc \in {"put", "delete"} /\ j = Moved(job[p], "query")
    <3>1. total[p] = None /\ j.pc = "query"
          BY <1>0, <2>3 DEF Placed, Moved, Job
    <3> QED BY <3>1
  <2>4. CASE /\ job[p].pc = "query" /\ j = Found(job[p], records)
             /\ UNCHANGED <<records, viewers>>
    <3>1. total[p] # None
          BY <1>0, <2>1, <2>4 DEF MustCount, CountsAt, Counting, At
    <3>2. j.rest = IF j.kind = "disconnect" THEN records ELSE records \ {j.who}
          BY <1>0, <2>1, <2>4 DEF Found, Job
    <3> QED BY <2>2, <2>4, <3>1, <3>2
  <2>5. ASSUME NEW c \in job[p].rest, job[p].pc = "post", j = Sent(job[p], c),
               viewers' = IF job[p].kind \in Counting
                            THEN [x \in Conn |-> IF x = c THEN total[p] ELSE viewers[x]] ELSE viewers,
               UNCHANGED records
        PROVE  /\ total[p] = Cardinality(records') /\ total[p] # None
               /\ \A d \in (Open \cap records') \ j.rest :
                    Shows(d)' \/ (j.kind = "connect" /\ d = j.who)
    <3>1. j.rest = job[p].rest \ {c}
          BY <1>0, <2>5 DEF Sent, Job
    <3>2. viewers' = [x \in Conn |-> IF x = c THEN total[p] ELSE viewers[x]]
          BY <2>1, <2>5 DEF Counting
    <3>3. total[p] = Cardinality(records') /\ total[p] # None
          BY <2>2, <2>5
    <3>4. ASSUME NEW d \in (Open \cap records') \ j.rest
          PROVE  Shows(d)' \/ (j.kind = "connect" /\ d = j.who)
      <4>1. d \in Conn /\ (d = c \/ d \in (Open \cap records) \ job[p].rest)
            BY <2>5, <3>1 DEF Open
      <4>2. CASE d = c
            BY <3>2, <3>3, <4>1, <4>2 DEF Shows
      <4>3. CASE d # c
            BY <2>2, <2>5, <3>2, <4>1, <4>3 DEF Shows
      <4> QED BY <4>2, <4>3
    <3> QED BY <3>3, <3>4
  <2>6. ASSUME NEW c \in job[p].rest, job[p].pc = "post", j = IsGone(job[p], c),
               UNCHANGED <<records, viewers>>
        PROVE  /\ total[p] = Cardinality(records') /\ total[p] # None
               /\ \A d \in (Open \cap records') \ j.rest :
                    Shows(d)' \/ (j.kind = "connect" /\ d = j.who)
    <3>1. j.rest = job[p].rest
          BY <1>0, <2>6 DEF IsGone, Job
    <3> QED BY <2>2, <2>6, <3>1 DEF Shows
  <2>7. CASE /\ job[p].pc = "gone" /\ j = Dropped(job[p]) /\ UNCHANGED viewers
             /\ records' = records \/ records' = records \ {job[p].gone}
    <3>1. j.rest = job[p].rest \ {job[p].gone}
          BY <1>0, <2>7 DEF Dropped, Job
    <3>2. job[p].gone \notin records
          BY <2>7, GoneRecord DEF At, Overtaken
    <3>3. records' = records
          BY <2>7, <3>2
    <3> QED BY <2>2, <2>7, <3>1, <3>2, <3>3 DEF Shows
  <2> QED BY <1>1, <2>1, <2>3, <2>4, <2>5, <2>6, <2>7 DEF Works, Counting
<1> QED BY <1>10, <1>11, <1>12, <1>13, <1>14, <1>15, <1>16 DEF CountInv

LEMMA CountStep ==
  {"stale", "abort", "disconnectLost"} \cap Faults = {} /\ CountInv /\ [CountNext]_countVars
  => CountInv'
<1> SUFFICES ASSUME {"stale", "abort", "disconnectLost"} \cap Faults = {}, CountInv,
                    [CountNext]_countVars
             PROVE  CountInv'
    OBVIOUS
<1>1. [Next]_vars
      BY DEF CountNext, countVars, Arrive, CountByRoom, Work, Finish, Next, Call
<1>2. GhostInv'
      BY <1>1, CountIsNext
<1>3. ASSUME NEW p \in Proc, Arrive(p) \/ CountByRoom(p) \/ Work(p) \/ Finish(p)
      PROVE  CountInv'
      BY <1>2, <1>3, CountArrive, CountCounts, CountWork, CountFinish
<1>4. CASE UNCHANGED countVars
      BY <1>2, <1>4 DEF countVars, vars, CountInv, Shapes, Alone, Right, ToCome, Informed, Open, Shows,
                        Connected, Placed, Answering, Spreading, Overtaken, At
<1> QED BY <1>2, <1>3, <1>4, CountClose DEF CountNext

\* If reads are up to date, no call fails and no $disconnect is lost, a viewer whom the
\* last undisturbed broadcast of a count has reached shows the number of records as soon
\* as the room is at rest: whatever counts overlapped before, whoever was found gone and
\* whichever messages were under way.
THEOREM CountsComeRight ==
  ASSUME {"stale", "abort", "disconnectLost"} \cap Faults = {}
  PROVE  CountSpec => []CountIsRight
<1>1. CountInv => CountIsRight
  <2> SUFFICES ASSUME CountInv, Settled PROVE \A c \in Informed : Shows(c)
      BY DEF CountIsRight, Shows
  <2>1. ~ToCome
        BY KindsOfIdle DEF Settled, Quiet, ToCome, Counting
  <2> QED BY <2>1 DEF CountInv, Right
<1>2. CountInv /\ [CountNext]_countVars => CountInv'
      BY CountStep
<1> QED BY <1>1, <1>2, CountInitially, PTL DEF CountSpec
=============================================================================

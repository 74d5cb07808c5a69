-------------------------------- MODULE Room --------------------------------
(***************************************************************************)
(* The room of a presentation: the connection records and the page in      *)
(* DynamoDB (presenter/internal/connection, roomstate), the Lambdas for    *)
(* $connect, $disconnect and the messages that are not about polls         *)
(* (presenter/cmd), the broadcasts they make (presenter/internal/broadcast *)
(* slidesync, handson, viewercount), and the page on the viewers' screens  *)
(* (front/src/hooks/usePresenter.ts).                                      *)
(*                                                                         *)
(* One step is one call to DynamoDB or to API Gateway.  CountByRoom and the *)
(* numbers of viewer_count are in RoomCount.                               *)
(***************************************************************************)
EXTENDS Integers, FiniteSets

CONSTANTS
  Conn,        \* connection ids; a viewer that reconnects is given a new one
  Presenter,   \* those that come with a valid slide_auth cookie
  Page,        \* pages of the slides
  Proc,        \* Lambda invocations at the same time
  Faults,      \* what a run allows to happen
  None         \* nobody

AllFaults == {"crowd",           \* others are at work while a connection is set up
              "hurry",           \* messages about the page overlap
              "stale",           \* reads answer from a replica that lags
              "abort",           \* a call fails: the Lambda ends with a 500
              "disconnectLost"}  \* API Gateway does not deliver $disconnect

ASSUME ConstantsAssumption ==
  /\ Presenter \subseteq Conn
  /\ Page \subseteq Nat /\ 0 \in Page
  /\ Faults \subseteq AllFaults
  /\ None \notin Conn

VARIABLES
  link,         \* Conn -> the connection as API Gateway sees it
  records,      \* the connections that have a record
  recordsSeen,  \* the same as a lagging replica shows it
  page,         \* the page that is stored
  pageSeen,     \* the same as a lagging replica shows it
  shown,        \* Conn -> the page on the screen
  asking,       \* connections whose get_state, sent by onopen, is under way
  job           \* Proc -> what a Lambda handles

vars == <<link, records, recordsSeen, page, pageSeen, shown, asking, job>>
tables == <<records, page>>
seen == <<recordsSeen, pageSeen>>
clients == <<link, shown, asking>>

\* A post to a connection that is not open is answered with Gone; so is one while
\* the $connect Lambda has not returned.
Link == {"new", "connecting", "open",
         "closing",                    \* closed; $disconnect is still to come
         "closed"}

PC == {"idle", "put", "delete", "role", "putState", "getState",
       "query",                \* QueryByRoom of a broadcast
       "post", "gone"}         \* PostToConnection, and the Delete after Gone

Broadcasts == {"connect", "disconnect", "slide_sync", "hands_on"}
AboutPage == {"slide_sync", "hands_on", "get_state"}
Kind == Broadcasts \cup AboutPage \cup {"viewer_count", "error"}

Job == [pc   : PC,
        kind : Kind \cup {"none"},
        who  : Conn \cup {None},  \* the connection of the event
        page : Page,              \* the page to store or to send
        rest : SUBSET Conn,       \* who is still to be sent the payload
        gone : Conn \cup {None},  \* whose post was answered with Gone
        owed : SUBSET Conn]       \* history: see ReachesEveryViewer

NoJob == [pc |-> "idle", kind |-> "none", who |-> None, page |-> 0,
          rest |-> {}, gone |-> None, owed |-> {}]

-----------------------------------------------------------------------------

At(p, pc) == job[p].pc = pc
Becomes(p, j) == job' = [job EXCEPT ![p] = j]
GoTo(p, pc) == Becomes(p, [job[p] EXCEPT !.pc = pc])

Open == {c \in Conn : link[c] = "open"}

RecordReads == {records} \cup (IF "stale" \in Faults THEN {recordsSeen} ELSE {})
PageReads == {page} \cup (IF "stale" \in Faults THEN {pageSeen} ELSE {})

Busy(kinds) == \E q \in Proc : job[q].kind \in kinds

\* Bounds of the model without "crowd" and without "hurry".
MayStart(kind) ==
  /\ "crowd" \notin Faults =>
       IF kind = "connect" THEN \A q \in Proc : At(q, "idle") ELSE ~Busy({"connect"})
  /\ "hurry" \notin Faults => ~(kind \in AboutPage /\ Busy(AboutPage))

\* An event of connection c reaches a Lambda.
Start(p, kind, c, pc, pg) ==
  /\ At(p, "idle") /\ MayStart(kind)
  /\ Becomes(p, [NoJob EXCEPT !.pc = pc, !.kind = kind, !.who = c, !.page = pg,
                              !.rest = IF kind \in Broadcasts THEN {} ELSE {c},
                              !.owed = IF kind \in Broadcasts THEN Open \ {c} ELSE {c}])

\* The Lambda ends with a 500.  A connection whose $connect has failed is refused.
Fail(p) ==
  /\ Becomes(p, NoJob)
  /\ link' = IF job[p].kind = "connect" THEN [link EXCEPT ![job[p].who] = "closed"] ELSE link

-----------------------------------------------------------------------------
(* $connect and $disconnect                                                *)

Connect(p) ==
  /\ \E c \in Conn :
       /\ link[c] = "new"
       /\ Start(p, "connect", c, "put", 0)
       /\ link' = [link EXCEPT ![c] = "connecting"]
  /\ UNCHANGED <<tables, seen, shown, asking>>

PutConnection(p) ==
  /\ At(p, "put")
  /\ records' = records \cup {job[p].who}
  /\ GoTo(p, "query")
  /\ UNCHANGED <<page, seen, clients>>

\* The viewer closes the page or loses the network.
Close(c) ==
  /\ link[c] = "open"
  /\ link' = [link EXCEPT ![c] = "closing"]
  /\ asking' = asking \ {c}
  /\ job' = [p \in Proc |-> [job[p] EXCEPT !.owed = @ \ {c}]]
  /\ UNCHANGED <<tables, seen, shown>>

Disconnect(p) ==
  /\ \E c \in Conn :
       /\ link[c] = "closing"
       /\ Start(p, "disconnect", c, "delete", 0)
       /\ link' = [link EXCEPT ![c] = "closed"]
  /\ UNCHANGED <<tables, seen, shown, asking>>

LoseDisconnect(c) ==
  /\ "disconnectLost" \in Faults
  /\ link[c] = "closing"
  /\ link' = [link EXCEPT ![c] = "closed"]
  /\ UNCHANGED <<tables, seen, shown, asking, job>>

\* The record is left to the next broadcast, which will find the connection gone.
LeaveRecord(p) ==
  /\ At(p, "delete")
  /\ GoTo(p, "query")
  /\ UNCHANGED <<tables, seen, clients>>

DeleteConnection(p) ==
  /\ At(p, "delete")
  /\ records' = records \ {job[p].who}
  /\ GoTo(p, "query")
  /\ UNCHANGED <<page, seen, clients>>

-----------------------------------------------------------------------------
(* Messages                                                                *)

Message(p, kind, pc, pg) ==
  /\ \E c \in Open : Start(p, kind, c, pc, pg)
  /\ UNCHANGED <<tables, seen, clients>>

SlideSync(p) == \E pg \in Page : Message(p, "slide_sync", "role", pg)
HandsOn(p) == Message(p, "hands_on", "role", 0)
ViewerCount(p) == Message(p, "viewer_count", "post", 0)

GetState(p) ==
  /\ \E c \in asking :
       /\ Start(p, "get_state", c, "getState", 0)
       /\ asking' = asking \ {c}
  /\ UNCHANGED <<tables, seen, link, shown>>

\* The sender is sent an error and nobody else anything.
SendError(p) ==
  Becomes(p, [job[p] EXCEPT !.kind = "error", !.pc = "post",
                            !.rest = {job[p].who}, !.owed = {}])

\* The page is sent round and not stored.
RoleWithoutPutState(p) ==
  /\ At(p, "role")
  /\ \E rs \in RecordReads :
       IF job[p].who \in rs \cap Presenter
         THEN GoTo(p, "query")
         ELSE SendError(p)
  /\ UNCHANGED <<tables, seen, clients>>

\* The role is read from the record of the sender; a viewer, and a presenter who is
\* not in the table, is sent an error.
Role(p) ==
  /\ At(p, "role")
  /\ \E rs \in RecordReads :
       IF job[p].who \in rs \cap Presenter
         THEN GoTo(p, IF job[p].kind = "slide_sync" THEN "putState" ELSE "query")
         ELSE SendError(p)
  /\ UNCHANGED <<tables, seen, clients>>

PutState(p) ==
  /\ At(p, "putState")
  /\ page' = job[p].page
  /\ GoTo(p, "query")
  /\ UNCHANGED <<records, seen, clients>>

ReadState(p) ==
  /\ At(p, "getState")
  /\ \E pg \in PageReads : Becomes(p, [job[p] EXCEPT !.pc = "post", !.page = pg])
  /\ UNCHANGED <<tables, seen, clients>>

-----------------------------------------------------------------------------
(* Send and SendToOne                                                      *)

\* The sender is left out, except that the one of $disconnect has no record.
Query(p) ==
  /\ At(p, "query")
  /\ \E rs \in RecordReads :
       Becomes(p, [job[p] EXCEPT !.pc = "post",
                                 !.rest = IF job[p].kind = "disconnect" THEN rs
                                          ELSE rs \ {job[p].who}])
  /\ UNCHANGED <<tables, seen, clients>>

\* onmessage: only slide_sync, which is also the answer to get_state, has a page.
Deliver(p, c) ==
  /\ Becomes(p, [job[p] EXCEPT !.rest = @ \ {c}, !.owed = @ \ {c}])
  /\ shown' = IF job[p].kind \in {"slide_sync", "get_state"}
                THEN [shown EXCEPT ![c] = job[p].page] ELSE shown

\* Any error of a post is taken for Gone.
PostErrorIsGone(p) ==
  /\ At(p, "post")
  /\ \E c \in job[p].rest :
       \/ link[c] = "open" /\ Deliver(p, c)
       \/ /\ link[c] # "open" \/ "abort" \in Faults
          /\ Becomes(p, [job[p] EXCEPT !.pc = "gone", !.gone = c])
          /\ UNCHANGED shown
  /\ UNCHANGED <<tables, seen, link, asking>>

Post(p) ==
  /\ At(p, "post")
  /\ \E c \in job[p].rest :
       \/ link[c] = "open" /\ Deliver(p, c)
       \/ /\ link[c] # "open"
          /\ Becomes(p, [job[p] EXCEPT !.pc = "gone", !.gone = c])
          /\ UNCHANGED shown
  /\ UNCHANGED <<tables, seen, link, asking>>

\* The broadcast ends at the first connection that is gone.
GoneEndsBroadcast(p) ==
  /\ At(p, "gone")
  /\ records' = records \ {job[p].gone}
  /\ Becomes(p, [job[p] EXCEPT !.pc = "post", !.rest = {}, !.gone = None])
  /\ UNCHANGED <<page, seen, clients>>

\* The error of this Delete is ignored.
DeleteGone(p) ==
  /\ At(p, "gone")
  /\ \/ records' = records \ {job[p].gone}
     \/ "abort" \in Faults /\ UNCHANGED records
  /\ Becomes(p, [job[p] EXCEPT !.pc = "post", !.rest = @ \ {job[p].gone}, !.gone = None])
  /\ UNCHANGED <<page, seen, clients>>

\* 200.  The connection of a $connect is open from now on, and onopen asks for the page.
Return(p) ==
  /\ At(p, "post") /\ job[p].rest = {}
  /\ Becomes(p, NoJob)
  /\ IF job[p].kind = "connect"
       THEN /\ link' = [link EXCEPT ![job[p].who] = "open"]
            /\ asking' = asking \cup {job[p].who}
       ELSE UNCHANGED <<link, asking>>
  /\ UNCHANGED <<tables, seen, shown>>

-----------------------------------------------------------------------------

\* A call fails, or the Lambda does.  The handlers of the presenter's messages answer
\* the first failure with an error.
Abort(p) ==
  /\ "abort" \in Faults
  /\ ~At(p, "idle")
  /\ \/ Fail(p)
     \/ /\ job[p].kind \in {"slide_sync", "hands_on"} /\ ~At(p, "gone")
        /\ SendError(p)
        /\ UNCHANGED link
  /\ UNCHANGED <<tables, seen, shown, asking>>

CatchUp ==
  /\ "stale" \in Faults
  /\ \/ pageSeen' = page /\ UNCHANGED recordsSeen
     \/ recordsSeen' = records /\ UNCHANGED pageSeen
  /\ UNCHANGED <<tables, clients, job>>

Init ==
  /\ link = [c \in Conn |-> "new"]
  /\ records = {} /\ recordsSeen = {}
  /\ page = 0 /\ pageSeen = 0
  /\ shown = [c \in Conn |-> 0]
  /\ asking = {}
  /\ job = [p \in Proc |-> NoJob]

Event(p) ==
  \/ Connect(p) \/ Disconnect(p)
  \/ SlideSync(p) \/ HandsOn(p) \/ ViewerCount(p) \/ GetState(p)

Call(p) ==
  \/ PutConnection(p) \/ DeleteConnection(p) \/ Role(p) \/ PutState(p) \/ ReadState(p)
  \/ Query(p) \/ Post(p) \/ DeleteGone(p) \/ Return(p)

Next ==
  \/ \E p \in Proc : Event(p) \/ Call(p) \/ Abort(p)
  \/ \E c \in Conn : Close(c) \/ LoseDisconnect(c)
  \/ CatchUp

Spec == Init /\ [][Next]_vars

-----------------------------------------------------------------------------
(* Properties                                                              *)

\* Every variable has its type.
TypeOK ==
  /\ link \in [Conn -> Link]
  /\ records \subseteq Conn /\ recordsSeen \subseteq Conn
  /\ page \in Page /\ pageSeen \in Page
  /\ shown \in [Conn -> Page]
  /\ asking \subseteq Conn
  /\ job \in [Proc -> Job]

\* Whoever is connected has a record, so that the next broadcast finds him: Put comes
\* before the connection is open, and the Delete that follows a Gone hits none that is
\* open or about to be (broadcast.go).
StaysListed == Open \subseteq records

\* Send reaches the whole room (broadcast.go:58): when a Lambda has sent its payload to
\* all it found, nobody is left out who was connected when its event came and still is,
\* although others leave, are found gone and are deleted meanwhile.
ReachesEveryViewer ==
  \A p \in Proc : At(p, "post") /\ job[p].rest = {} => job[p].owed = {}

\* A record has a connection behind it, or a $disconnect that is about to delete it: no
\* interleaving of $connect, $disconnect and broadcasts leaves one behind or stores one
\* again, to be counted as a viewer.
NoGhost ==
  \A c \in records :
    \/ link[c] \in {"connecting", "open", "closing"}
    \/ \E p \in Proc : At(p, "delete") /\ job[p].who = c

Quiet == asking = {} /\ \A p \in Proc : At(p, "idle")

\* When all messages are answered every viewer shows the page that is stored, whether he
\* was there when it was set, came later or left a broadcast half way through the room
\* (slidesync.go, handleGetState).
InStep == Quiet => \A c \in Open \ Presenter : shown[c] = page
=============================================================================

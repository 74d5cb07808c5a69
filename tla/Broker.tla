------------------------------- MODULE Broker -------------------------------
(***************************************************************************)
(* The broker: stateless tasks that bind sessions to disposable runners    *)
(* through one DynamoDB table and its two sparse, eventually consistent    *)
(* global secondary indexes (broker/handler, broker/service,               *)
(* broker/store/dynamo.go, broker/healthcheck), with the life of the       *)
(* runner processes that register with it (runner/main.go,                 *)
(* runner/register.go).                                                    *)
(*                                                                         *)
(* One step is one call that leaves the process: a DynamoDB request, a     *)
(* health check, an HTTP request to the broker.  What Go does between two  *)
(* of them is local to the request and belongs to the step before.         *)
(***************************************************************************)
EXTENDS Integers, FiniteSets

CONSTANTS
  Runner,      \* runner ids; every process registers under an id of its own
  Session,     \* session ids that crypto/rand may draw
  Proc,        \* requests that the broker tasks handle at the same time
  NumBuckets,  \* bucketCount, 4 in dynamo.go
  QueryLimit,  \* idleQueryLimit, 20 in dynamo.go
  UrlOf,       \* [runner -> privateUrl it registers with]
  Faults,      \* the faults of the environment that a run allows
  None         \* an attribute that is absent

AllFaults == {"abort",          \* a DynamoDB error, a cancelled context or a
                                \* broker crash ends a request half way
              "crash",          \* a runner dies without deregistering
              "slowHealth",     \* a health check of a live runner times out
              "registerRetry",  \* a registration is answered with an error
              "latePut",        \* the PutItem of a failed registration lands late
              "putReplyLost",   \* the SDK repeats a PutItem whose reply was lost
              "assignLost"}     \* the same of the UpdateItem of assignSession

Bucket == 0 .. (NumBuckets - 1)

ASSUME ConstantsAssumption ==
  /\ NumBuckets \in Nat \ {0}
  /\ QueryLimit \in Nat \ {0}
  /\ IsFiniteSet(Runner) /\ IsFiniteSet(Session)
  /\ DOMAIN UrlOf = Runner
  /\ Faults \subseteq AllFaults
  /\ None \notin Runner \cup Session \cup Bucket

VARIABLES
  table,         \* the table: runner id -> [bucket, session]; both absent: no item
  idleIndex,     \* what idle-index shows: runner id -> bucket or None
  sessionIndex,  \* what session-index shows: runner id -> session or None
  life,          \* the runner process: where it is in start() and run()
  late,          \* runners with the PutItem of an earlier attempt still in flight
  issued,        \* session ids drawn so far
  cookies,       \* session ids that some browser holds in its runner_id cookie
  routed,        \* <<session, runner>> pairs answered with 200 (history)
  req            \* Proc -> the request a broker task is handling

vars == <<table, idleIndex, sessionIndex, life, late, issued, cookies, routed, req>>
poolVars == <<table, idleIndex, sessionIndex>>
runnerVars == <<life, late>>
clientVars == <<issued, cookies, routed>>

-----------------------------------------------------------------------------
(* Items, indexes and health                                               *)

NoItem      == [bucket |-> None, session |-> None]
IdleItem(b) == [bucket |-> b, session |-> None]
BusyItem(s) == [bucket |-> None, session |-> s]

Item == {NoItem} \cup {IdleItem(b) : b \in Bucket} \cup {BusyItem(s) : s \in Session}

\* model.Runner.IsIdle: the sparse attribute idleBucket exists.
IsIdle(r) == table[r].bucket # None

\* What a query of idle-index finds under the key b.
Listed(b) == {r \in Runner : idleIndex[r] = b}

\* The process accepts requests, /health among them.
Serving(r) == life[r] \in {"up", "closing"}

\* The processes that answer at the URL stored for runner r.
AnsweringAt(r) == {q \in Runner : UrlOf[q] = UrlOf[r] /\ Serving(q)}

\* Check: GET {privateUrl}/health answers 200.
CheckPasses(r) == AnsweringAt(r) # {}

\* Check: the connection is refused, or the answer is not there in time.
CheckFails(r) == AnsweringAt(r) = {} \/ "slowHealth" \in Faults

-----------------------------------------------------------------------------
(* Requests                                                                *)

PC == {"idle", "find", "checkOld", "deleteOld",          \* ResolveSession
       "query", "assign", "check", "delete",             \* createSession
       "closeFind", "closeDelete"}                       \* CloseSession

Request == [pc         : PC,
            sid        : Session \cup {None},   \* the session named by the client
            new        : Session \cup {None},   \* the session being created
            start      : Bucket,                \* bucket the scan began with
            i          : Nat,                   \* buckets the scan has left behind
            tried      : SUBSET Runner,         \* AcquireIdle: assignments tried
            cand       : SUBSET Runner,         \* rest of the shuffled query result
            runner     : Runner \cup {None},    \* runner found or acquired
            reassigned : BOOLEAN]               \* ResolveResult.Reassigned

NoRequest == [pc |-> "idle", sid |-> None, new |-> None, start |-> 0, i |-> 0,
              tried |-> {}, cand |-> {}, runner |-> None, reassigned |-> FALSE]

At(p, pc) == req[p].pc = pc

\* The bucket without the wrap-around.
BucketWithoutModulo(p) == req[p].start + req[p].i

\* (start + i) % bc
CurrentBucket(p) == (req[p].start + req[p].i) % NumBuckets

\* The request goes on as q.
Becomes(p, q) == req' = [req EXCEPT ![p] = q]

\* The request ends, whatever its answer.
Answer(p) == Becomes(p, NoRequest)

\* The session of a created runner, or the runner of a known one, is sent back.
Route(s, r) == routed' = routed \cup {<<s, q>> : q \in AnsweringAt(r)}

DeleteItem(r) == table' = [table EXCEPT ![r] = NoItem]

(***************************************************************************)
(* createSession up to its first query: a session id nobody has seen and a *)
(* random first bucket.                                                    *)
(***************************************************************************)
BeginCreate(p, sid, reassigned) ==
  \E s \in Session \ issued, b \in Bucket :
    /\ issued' = issued \cup {s}
    /\ Becomes(p, [NoRequest EXCEPT !.pc = "query", !.sid = sid, !.new = s,
                                    !.start = b, !.reassigned = reassigned])

\* Bound of the model: a request starts only while an id is left that it can draw.
Undrawn == {p \in Proc : req[p].pc \in {"find", "checkOld", "deleteOld"}}
IdsLeft == Cardinality(Session \ issued) > Cardinality(Undrawn)

(***************************************************************************)
(* GET /resolve.  Without a cookie the search is skipped.                  *)
(***************************************************************************)
ResolveNew(p) ==
  /\ At(p, "idle") /\ IdsLeft
  /\ BeginCreate(p, None, FALSE)
  /\ UNCHANGED <<poolVars, runnerVars, cookies, routed>>

ResolveCookie(p) ==
  /\ At(p, "idle") /\ IdsLeft
  /\ \E s \in cookies :
       Becomes(p, [NoRequest EXCEPT !.pc = "find", !.sid = s])
  /\ UNCHANGED <<poolVars, runnerVars, clientVars>>

\* FindBySessionID: a query of session-index, Limit 1.
FindHit(p, next) ==
  \E r \in Runner :
    /\ sessionIndex[r] = req[p].sid
    /\ Becomes(p, [req[p] EXCEPT !.pc = next, !.runner = r])

FindMiss(p) == \A r \in Runner : sessionIndex[r] # req[p].sid

FindSession(p) ==
  /\ At(p, "find")
  /\ \/ FindHit(p, "checkOld") /\ UNCHANGED issued
     \/ FindMiss(p) /\ BeginCreate(p, req[p].sid, FALSE)
  /\ UNCHANGED <<poolVars, runnerVars, cookies, routed>>

OldHealthy(p) ==
  /\ At(p, "checkOld") /\ CheckPasses(req[p].runner)
  /\ Route(req[p].sid, req[p].runner)
  /\ Answer(p)
  /\ UNCHANGED <<poolVars, runnerVars, issued, cookies>>

OldUnhealthy(p) ==
  /\ At(p, "checkOld") /\ CheckFails(req[p].runner)
  /\ Becomes(p, [req[p] EXCEPT !.pc = "deleteOld"])
  /\ UNCHANGED <<poolVars, runnerVars, clientVars>>

DeleteOld(p) ==
  /\ At(p, "deleteOld")
  /\ DeleteItem(req[p].runner)
  /\ BeginCreate(p, req[p].sid, TRUE)
  /\ UNCHANGED <<idleIndex, sessionIndex, runnerVars, cookies, routed>>

(***************************************************************************)
(* AcquireIdle's query: at most QueryLimit of the runners listed under the *)
(* bucket, of which those not tried yet are candidates.  Nothing new to    *)
(* try ends the bucket, and the last bucket ends the scan.                 *)
(***************************************************************************)
QueryResults(b) ==
  {c \in SUBSET Listed(b) :
     IF Cardinality(Listed(b)) <= QueryLimit
       THEN c = Listed(b) ELSE Cardinality(c) = QueryLimit}

\* The query without the tried set: whatever is listed is a candidate.
QueryIgnoresTried(p) ==
  /\ At(p, "query")
  /\ \E c \in QueryResults(CurrentBucket(p)) :
       /\ c # {}
       /\ Becomes(p, [req[p] EXCEPT !.pc = "assign", !.cand = c])
  /\ UNCHANGED <<poolVars, runnerVars, clientVars>>

QueryFinds(p) ==
  /\ At(p, "query")
  /\ \E c \in QueryResults(CurrentBucket(p)) :
       /\ c \ req[p].tried # {}
       /\ Becomes(p, [req[p] EXCEPT !.pc = "assign", !.cand = c \ req[p].tried])
  /\ UNCHANGED <<poolVars, runnerVars, clientVars>>

QueryFindsNothing(p) ==
  /\ At(p, "query")
  /\ \E c \in QueryResults(CurrentBucket(p)) : c \subseteq req[p].tried

NextBucket(p) ==
  /\ QueryFindsNothing(p) /\ req[p].i + 1 < NumBuckets
  /\ Becomes(p, [req[p] EXCEPT !.i = @ + 1, !.tried = {}])
  /\ UNCHANGED <<poolVars, runnerVars, clientVars>>

\* ErrNoIdleRunner, 503.
NoIdleRunner(p) ==
  /\ QueryFindsNothing(p) /\ req[p].i + 1 = NumBuckets
  /\ Answer(p)
  /\ UNCHANGED <<poolVars, runnerVars, clientVars>>

\* assignSession fails on its condition attribute_exists(idleBucket), or seems to.
TryNext(p, r) ==
  Becomes(p, [req[p] EXCEPT !.tried = @ \cup {r}, !.cand = @ \ {r},
                            !.pc = IF req[p].cand = {r} THEN "query" ELSE "assign"])

\* The assignment without REMOVE idleBucket.
AssignKeepsBucket(p) ==
  /\ At(p, "assign")
  /\ \E r \in req[p].cand :
       /\ IsIdle(r)
       /\ table' = [table EXCEPT ![r].session = req[p].new]
       /\ Becomes(p, [req[p] EXCEPT !.pc = "check", !.runner = r, !.tried = {}, !.cand = {}])
  /\ UNCHANGED <<idleIndex, sessionIndex, runnerVars, clientVars>>

\* The assignment without its ConditionExpression.
AssignUnconditional(p) ==
  /\ At(p, "assign")
  /\ \E r \in req[p].cand :
       /\ table' = [table EXCEPT ![r] = BusyItem(req[p].new)]
       /\ Becomes(p, [req[p] EXCEPT !.pc = "check", !.runner = r, !.tried = {}, !.cand = {}])
  /\ UNCHANGED <<idleIndex, sessionIndex, runnerVars, clientVars>>

(***************************************************************************)
(* assignSession on the next candidate of the shuffled result.             *)
(***************************************************************************)
AssignSucceeds(p) ==
  /\ At(p, "assign")
  /\ \E r \in req[p].cand :
       /\ IsIdle(r)
       /\ table' = [table EXCEPT ![r] = BusyItem(req[p].new)]
       /\ Becomes(p, [req[p] EXCEPT !.pc = "check", !.runner = r, !.tried = {}, !.cand = {}])
  /\ UNCHANGED <<idleIndex, sessionIndex, runnerVars, clientVars>>

AssignFails(p) ==
  /\ At(p, "assign")
  /\ \E r \in req[p].cand : ~IsIdle(r) /\ TryNext(p, r)
  /\ UNCHANGED <<poolVars, runnerVars, clientVars>>

\* The update is done, its reply is lost, and the SDK's repetition of it fails
\* on the condition.
AssignReplyLost(p) ==
  /\ "assignLost" \in Faults
  /\ At(p, "assign")
  /\ \E r \in req[p].cand :
       /\ IsIdle(r)
       /\ table' = [table EXCEPT ![r] = BusyItem(req[p].new)]
       /\ TryNext(p, r)
  /\ UNCHANGED <<idleIndex, sessionIndex, runnerVars, clientVars>>

\* The cookie is set for clients without one only.
CookieOnlyForNewClients(p) ==
  /\ At(p, "check") /\ CheckPasses(req[p].runner)
  /\ Route(req[p].new, req[p].runner)
  /\ cookies' = IF req[p].sid = None THEN cookies \cup {req[p].new} ELSE cookies
  /\ Answer(p)
  /\ UNCHANGED <<poolVars, runnerVars, issued>>

\* 200 with Set-Cookie: runner_id.
NewHealthy(p) ==
  /\ At(p, "check") /\ CheckPasses(req[p].runner)
  /\ Route(req[p].new, req[p].runner)
  /\ cookies' = cookies \cup {req[p].new}
  /\ Answer(p)
  /\ UNCHANGED <<poolVars, runnerVars, issued>>

NewUnhealthy(p) ==
  /\ At(p, "check") /\ CheckFails(req[p].runner)
  /\ Becomes(p, [req[p] EXCEPT !.pc = "delete"])
  /\ UNCHANGED <<poolVars, runnerVars, clientVars>>

\* The next runner is tried and the record of this one stays.
KeepUnhealthy(p) ==
  /\ At(p, "delete")
  /\ Becomes(p, [req[p] EXCEPT !.pc = "query", !.runner = None])
  /\ UNCHANGED <<poolVars, runnerVars, clientVars>>

\* The runner is put back into the pool.
ReturnUnhealthy(p) ==
  /\ At(p, "delete")
  /\ table' = [table EXCEPT ![req[p].runner] = IdleItem(CurrentBucket(p))]
  /\ Becomes(p, [req[p] EXCEPT !.pc = "query", !.runner = None])
  /\ UNCHANGED <<idleIndex, sessionIndex, runnerVars, clientVars>>

\* The record is deleted and AcquireIdle called again for the same bucket.
DeleteUnhealthy(p) ==
  /\ At(p, "delete")
  /\ DeleteItem(req[p].runner)
  /\ Becomes(p, [req[p] EXCEPT !.pc = "query", !.runner = None])
  /\ UNCHANGED <<idleIndex, sessionIndex, runnerVars, clientVars>>

(***************************************************************************)
(* DELETE /sessions/:sessionId                                             *)
(***************************************************************************)
CloseSession(p) ==
  /\ At(p, "idle")
  /\ \E s \in cookies :
       Becomes(p, [NoRequest EXCEPT !.pc = "closeFind", !.sid = s])
  /\ UNCHANGED <<poolVars, runnerVars, clientVars>>

CloseFind(p) ==
  /\ At(p, "closeFind")
  /\ \/ FindHit(p, "closeDelete")
     \/ FindMiss(p) /\ Answer(p)
  /\ UNCHANGED <<poolVars, runnerVars, clientVars>>

CloseDelete(p) ==
  /\ At(p, "closeDelete")
  /\ DeleteItem(req[p].runner)
  /\ Answer(p)
  /\ UNCHANGED <<idleIndex, sessionIndex, runnerVars, clientVars>>

(***************************************************************************)
(* The request ends where it stands: every DynamoDB error and every        *)
(* cancelled context returns at once and undoes nothing.                   *)
(***************************************************************************)
Abort(p) ==
  /\ "abort" \in Faults
  /\ ~At(p, "idle")
  /\ Answer(p)
  /\ UNCHANGED <<poolVars, runnerVars, clientVars>>

-----------------------------------------------------------------------------
(* The indexes follow the table, each in its own time                      *)

PropagateIdle(r) ==
  /\ idleIndex[r] # table[r].bucket
  /\ idleIndex' = [idleIndex EXCEPT ![r] = table[r].bucket]
  /\ UNCHANGED <<table, sessionIndex, runnerVars, clientVars, req>>

PropagateSession(r) ==
  /\ sessionIndex[r] # table[r].session
  /\ sessionIndex' = [sessionIndex EXCEPT ![r] = table[r].session]
  /\ UNCHANGED <<table, idleIndex, runnerVars, clientVars, req>>

-----------------------------------------------------------------------------
(* The runner process                                                      *)

Life == {"off",                          \* not started yet
         "put", "find", "registered",    \* listening; register() has not returned
         "up", "closing",                \* serving; "closing": no longer registered
         "gone"}                         \* the process has ended

Become(r, l) == life' = [life EXCEPT ![r] = l]

\* start(): the socket is bound before the registration; an address that a
\* process still holds cannot be given to another.
Boot(r) ==
  /\ life[r] = "off"
  /\ \A q \in Runner \ {r} : UrlOf[q] = UrlOf[r] => life[q] \in {"off", "gone"}
  /\ Become(r, "put")
  /\ UNCHANGED <<poolVars, late, clientVars, req>>

\* Register: PutItem under attribute_not_exists(runnerId), in a random bucket.
PutItem(r) ==
  IF table[r] = NoItem
    THEN \E b \in Bucket : table' = [table EXCEPT ![r] = IdleItem(b)]
    ELSE UNCHANGED table

RegisterPut(r) ==
  /\ life[r] = "put"
  /\ PutItem(r)
  /\ \/ table[r] = NoItem /\ Become(r, "registered")
     \/ table[r] # NoItem /\ Become(r, "find")
     \/ "putReplyLost" \in Faults /\ Become(r, "find")
  /\ UNCHANGED <<idleIndex, sessionIndex, late, clientVars, req>>

\* Register: the item that is there has this runner's URL, so all is well; if it
\* has been deleted since the PutItem the answer is 500 and the runner tries again.
RegisterFind(r) ==
  /\ life[r] = "find"
  /\ Become(r, IF table[r] # NoItem THEN "registered" ELSE "put")
  /\ UNCHANGED <<poolVars, late, clientVars, req>>

\* The attempt fails for the runner, whatever it has done, and is repeated.
RegisterRetry(r) ==
  /\ "registerRetry" \in Faults
  /\ life[r] \in {"put", "find", "registered"}
  /\ Become(r, "put")
  /\ late' = IF "latePut" \in Faults /\ life[r] = "put" THEN late \cup {r} ELSE late
  /\ UNCHANGED <<poolVars, clientVars, req>>

LatePut(r) ==
  /\ r \in late
  /\ PutItem(r)
  /\ late' = late \ {r}
  /\ UNCHANGED <<idleIndex, sessionIndex, life, clientVars, req>>

\* register() returned; srv.Serve starts to accept what the backlog holds.
Serve(r) ==
  /\ life[r] = "registered"
  /\ Become(r, "up")
  /\ UNCHANGED <<poolVars, late, clientVars, req>>

\* SIGTERM while registering: register() is cancelled and the process ends.
CancelRegister(r) ==
  /\ life[r] \in {"put", "find", "registered"}
  /\ Become(r, "gone")
  /\ UNCHANGED <<poolVars, late, clientVars, req>>

\* SIGTERM: DELETE /internal/runners/:runnerId; a failure is logged and ignored.
Deregister(r) ==
  /\ life[r] = "up"
  /\ \/ DeleteItem(r)
     \/ "abort" \in Faults /\ UNCHANGED table
  /\ Become(r, "closing")
  /\ UNCHANGED <<idleIndex, sessionIndex, late, clientVars, req>>

\* srv.Shutdown closes the listener.
Stop(r) ==
  /\ life[r] = "closing"
  /\ Become(r, "gone")
  /\ UNCHANGED <<poolVars, late, clientVars, req>>

Crash(r) ==
  /\ "crash" \in Faults
  /\ life[r] \in {"put", "find", "registered", "up", "closing"}
  /\ Become(r, "gone")
  /\ UNCHANGED <<poolVars, late, clientVars, req>>

-----------------------------------------------------------------------------

Init ==
  /\ table = [r \in Runner |-> NoItem]
  /\ idleIndex = [r \in Runner |-> None]
  /\ sessionIndex = [r \in Runner |-> None]
  /\ life = [r \in Runner |-> "off"]
  /\ late = {}
  /\ issued = {} /\ cookies = {} /\ routed = {}
  /\ req = [p \in Proc |-> NoRequest]

\* What a request that has begun does next.
Progress(p) ==
  \/ FindSession(p) \/ OldHealthy(p) \/ OldUnhealthy(p) \/ DeleteOld(p)
  \/ QueryFinds(p) \/ NextBucket(p) \/ NoIdleRunner(p)
  \/ AssignSucceeds(p) \/ AssignFails(p) \/ AssignReplyLost(p)
  \/ NewHealthy(p) \/ NewUnhealthy(p) \/ DeleteUnhealthy(p)
  \/ CloseFind(p) \/ CloseDelete(p)

BrokerStep(p) ==
  \/ ResolveNew(p) \/ ResolveCookie(p) \/ CloseSession(p)
  \/ Progress(p) \/ Abort(p)

RunnerStep(r) ==
  \/ Boot(r) \/ RegisterPut(r) \/ RegisterFind(r) \/ RegisterRetry(r) \/ LatePut(r)
  \/ Serve(r) \/ CancelRegister(r)
  \/ Deregister(r) \/ Stop(r) \/ Crash(r)

IndexStep(r) == PropagateIdle(r) \/ PropagateSession(r)

Next ==
  \/ \E p \in Proc : BrokerStep(p)
  \/ \E r \in Runner : RunnerStep(r) \/ IndexStep(r)

Spec == Init /\ [][Next]_vars

(***************************************************************************)
(* Every call of a request returns or times out, so a request that has     *)
(* begun goes on.  Nothing is assumed of the indexes, which may lag for    *)
(* ever, nor of runners and clients.                                       *)
(***************************************************************************)
FairSpec == Spec /\ \A p \in Proc : WF_vars(Progress(p))

-----------------------------------------------------------------------------
(* Properties                                                              *)

\* Every variable has its type: an item of the table is idle or busy or absent,
\* never half of each (the sparse attributes of model/runner.go).
TypeOK ==
  /\ table \in [Runner -> Item]
  /\ idleIndex \in [Runner -> Bucket \cup {None}]
  /\ sessionIndex \in [Runner -> Session \cup {None}]
  /\ life \in [Runner -> Life]
  /\ late \in SUBSET Runner
  /\ issued \in SUBSET Session
  /\ cookies \in SUBSET Session
  /\ routed \in SUBSET (Session \X Runner)
  /\ req \in [Proc -> Request]

\* AcquireIdle binds one runner to a session: at no time do two items of the table
\* carry the same session, through every retry after a failed health check.
OneRunnerPerSession ==
  \A q, r \in Runner :
    table[q].session # None /\ table[q].session = table[r].session => q = r

\* A runner is disposable: the process that has answered for one session never
\* answers for another, whatever the indexes show and however requests interleave.
Disposable ==
  \A x, y \in routed : x[2] = y[2] => x[1] = y[1]

\* The requests that are about to delete an item, and the session each acts for.
DeletesFor(p) == IF At(p, "delete") THEN req[p].new ELSE req[p].sid

\* Delete has no condition: between the read of the item and its deletion the item
\* must not have become somebody else's, that is idle again or bound elsewhere.
DeleteHitsOwnSession ==
  \A p \in Proc : req[p].pc \in {"deleteOld", "delete", "closeDelete"} =>
    table[req[p].runner] \in {NoItem, BusyItem(DeletesFor(p))}

\* Sessions that requests are still creating.
InFlight == {req[p].new : p \in Proc} \ {None}

\* No runner is bound to a session that nobody can name: the client holds the
\* cookie, or a request that will hand it out is still at work.
NoOrphan ==
  \A r \in Runner : table[r].session \in cookies \cup InFlight \cup {None}

(***************************************************************************)
(* The pool the broker implements.  A runner is spent once its item is     *)
(* gone, unless its process has not stored one yet.                        *)
(***************************************************************************)
StateOf(r) ==
  IF IsIdle(r) THEN "idle"
  ELSE IF table[r].session # None THEN "bound"
  ELSE IF life[r] \in {"off", "put"} THEN "out"
  ELSE "spent"

stateOf == [r \in Runner |-> StateOf(r)]
ownerOf == [r \in Runner |-> table[r].session]

Pool == INSTANCE SessionPool WITH state <- stateOf, owner <- ownerOf

\* Table, indexes and interleaved requests implement the pool of disposable runners:
\* no deletion, retry or stale read brings a runner back or binds a session twice.
ImplementsPool == Pool!PoolSpec

\* A request in flight is answered, even if the indexes never catch up with the
\* table: the tried set stops AcquireIdle from trying a stale entry for ever.
EveryRequestAnswered == \A p \in Proc : ~At(p, "idle") ~> At(p, "idle")
=============================================================================

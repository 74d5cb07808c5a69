---------------------------- MODULE BrokerProofs ----------------------------
(* Theorems about Broker and BrokerScan for every value of their constants. *)
EXTENDS BrokerScan, TLAPS

\* The arithmetic of the bucket cursor stays within the buckets.
LEMMA BucketInRange ==
  ASSUME NEW x \in Bucket, NEW i \in Nat
  PROVE  (x + i) % NumBuckets \in Bucket
BY ConstantsAssumption DEF Bucket

LEMMA NoRequestType == NoRequest \in Request
BY ConstantsAssumption DEF Request, NoRequest, PC, Bucket

LEMMA BecomesType ==
  ASSUME TypeOK, NEW p \in Proc, NEW q \in Request, Becomes(p, q)
  PROVE  req' \in [Proc -> Request]
BY DEF TypeOK, Becomes

LEMMA DeleteItemType ==
  ASSUME TypeOK, NEW r, DeleteItem(r)
  PROVE  table' \in [Runner -> Item]
BY DEF TypeOK, DeleteItem, Item

LEMMA RouteType ==
  ASSUME TypeOK, NEW s \in Session, NEW r \in Runner, Route(s, r)
  PROVE  routed' \in SUBSET (Session \X Runner)
BY DEF TypeOK, Route, AnsweringAt

LEMMA PutItemType ==
  ASSUME TypeOK, NEW r \in Runner, PutItem(r)
  PROVE  table' \in [Runner -> Item]
BY DEF TypeOK, PutItem, Item

-----------------------------------------------------------------------------
(* Types.  What a request carries depends on where it is: only then does   *)
(* an answer name a session and a deletion a runner.                       *)

NeedsSid == {"find", "checkOld", "deleteOld", "closeFind", "closeDelete"}
NeedsNew == {"query", "assign", "check", "delete"}
NeedsRunner == {"checkOld", "deleteOld", "check", "delete", "closeDelete"}

Complete(q) ==
  /\ q.pc \in NeedsSid => q.sid \in Session
  /\ q.pc \in NeedsNew => q.new \in Session
  /\ q.pc \notin NeedsNew => q.new = None
  /\ q.pc \in NeedsRunner => q.runner \in Runner

Carries == \A p \in Proc : Complete(req[p])

TypeInv == TypeOK /\ Carries

LEMMA TypeInit == Init => TypeInv
BY NoRequestType DEF Init, TypeInv, TypeOK, Carries, Complete, NoRequest, NoItem, Item, Life,
                     NeedsSid, NeedsNew, NeedsRunner

\* A step that changes one request leaves every request complete if that one is.
LEMMA CarriesStep ==
  ASSUME TypeInv, NEW p \in Proc, NEW q \in Request, Becomes(p, q), Complete(q)
  PROVE  req' \in [Proc -> Request] /\ Carries'
<1>1. req' = [x \in Proc |-> IF x = p THEN q ELSE req[x]]
      BY DEF TypeInv, TypeOK, Becomes
<1>2. ASSUME NEW x \in Proc PROVE Complete(req[x]')
      BY <1>1 DEF TypeInv, Carries
<1> QED BY <1>2, BecomesType DEF TypeInv, Carries

LEMMA CarriesAnswer ==
  ASSUME TypeInv, NEW p \in Proc, Answer(p)
  PROVE  req' \in [Proc -> Request] /\ Carries'
<1>1. Complete(NoRequest)
      BY DEF Complete, NoRequest, NeedsSid, NeedsNew, NeedsRunner
<1> QED BY <1>1, NoRequestType, CarriesStep DEF Answer

LEMMA CarriesBeginCreate ==
  ASSUME TypeInv, NEW p \in Proc, NEW sid \in Session \cup {None}, NEW re \in BOOLEAN,
         BeginCreate(p, sid, re)
  PROVE  issued' \in SUBSET Session /\ req' \in [Proc -> Request] /\ Carries'
<1>1. PICK s \in Session \ issued, b \in Bucket :
        /\ issued' = issued \cup {s}
        /\ Becomes(p, [NoRequest EXCEPT !.pc = "query", !.sid = sid, !.new = s,
                                        !.start = b, !.reassigned = re])
      BY DEF BeginCreate
<1> DEFINE q == [NoRequest EXCEPT !.pc = "query", !.sid = sid, !.new = s,
                                  !.start = b, !.reassigned = re]
<1>2. q \in Request
      BY NoRequestType DEF Request, PC
<1>3. Complete(q)
      BY DEF Complete, NoRequest, NeedsSid, NeedsNew, NeedsRunner
<1> HIDE DEF q
<1> QED BY <1>1, <1>2, <1>3, CarriesStep DEF q, TypeInv, TypeOK

LEMMA CarriesTryNext ==
  ASSUME TypeInv, NEW p \in Proc, At(p, "assign"), NEW r \in req[p].cand, TryNext(p, r)
  PROVE  req' \in [Proc -> Request] /\ Carries'
<1> DEFINE q == [req[p] EXCEPT !.tried = @ \cup {r}, !.cand = @ \ {r},
                               !.pc = IF req[p].cand = {r} THEN "query" ELSE "assign"]
<1>1. req[p] \in Request /\ Complete(req[p])
      BY DEF TypeInv, TypeOK, Carries
<1>2. q \in Request
      BY <1>1 DEF Request, PC
<1>3. Complete(q)
      BY <1>1 DEF At, Complete, Request, NeedsSid, NeedsNew, NeedsRunner
<1> HIDE DEF q
<1> QED BY <1>2, <1>3, CarriesStep DEF TryNext, q

\* Every step of a request keeps the types.
LEMMA TypeBrokerStep ==
  ASSUME TypeInv, NEW p \in Proc, BrokerStep(p)
  PROVE  TypeInv'
<1> USE DEF TypeInv
<1>0. req[p] \in Request /\ Complete(req[p])
      BY DEF TypeOK, Carries
<1>1. CASE ResolveNew(p)
      BY <1>1, CarriesBeginCreate DEF ResolveNew, TypeOK, poolVars, runnerVars
<1>2. CASE ResolveCookie(p)
  <2>1. PICK s \in cookies : Becomes(p, [NoRequest EXCEPT !.pc = "find", !.sid = s])
        BY <1>2 DEF ResolveCookie
  <2>2. [NoRequest EXCEPT !.pc = "find", !.sid = s] \in Request
        BY NoRequestType DEF Request, PC, TypeOK
  <2>3. Complete([NoRequest EXCEPT !.pc = "find", !.sid = s])
        BY DEF Complete, NoRequest, NeedsSid, NeedsNew, NeedsRunner, TypeOK
  <2> QED BY <1>2, <2>1, <2>2, <2>3, CarriesStep
          DEF ResolveCookie, TypeOK, poolVars, runnerVars, clientVars
<1>3. CASE CloseSession(p)
  <2>1. PICK s \in cookies : Becomes(p, [NoRequest EXCEPT !.pc = "closeFind", !.sid = s])
        BY <1>3 DEF CloseSession
  <2>2. [NoRequest EXCEPT !.pc = "closeFind", !.sid = s] \in Request
        BY NoRequestType DEF Request, PC, TypeOK
  <2>3. Complete([NoRequest EXCEPT !.pc = "closeFind", !.sid = s])
        BY DEF Complete, NoRequest, NeedsSid, NeedsNew, NeedsRunner, TypeOK
  <2> QED BY <1>3, <2>1, <2>2, <2>3, CarriesStep
          DEF CloseSession, TypeOK, poolVars, runnerVars, clientVars
<1>4. CASE FindSession(p)
  <2>1. req[p].sid \in Session
        BY <1>0, <1>4 DEF FindSession, At, Complete, NeedsSid
  <2>2. CASE FindHit(p, "checkOld") /\ UNCHANGED issued
    <3>1. PICK r \in Runner : Becomes(p, [req[p] EXCEPT !.pc = "checkOld", !.runner = r])
          BY <2>2 DEF FindHit
    <3>2. [req[p] EXCEPT !.pc = "checkOld", !.runner = r] \in Request
          BY <1>0 DEF Request, PC
    <3>3. Complete([req[p] EXCEPT !.pc = "checkOld", !.runner = r])
          BY <1>0, <1>4, <2>1 DEF FindSession, At, Complete, NeedsSid, NeedsNew, NeedsRunner, Request
    <3> QED BY <1>4, <2>2, <3>1, <3>2, <3>3, CarriesStep
            DEF FindSession, TypeOK, poolVars, runnerVars
  <2>3. CASE BeginCreate(p, req[p].sid, FALSE)
        BY <1>4, <2>1, <2>3, CarriesBeginCreate DEF FindSession, TypeOK, poolVars, runnerVars
  <2> QED BY <1>4, <2>2, <2>3 DEF FindSession
<1>5. CASE OldHealthy(p)
  <2>1. req[p].sid \in Session /\ req[p].runner \in Runner
        BY <1>0, <1>5 DEF OldHealthy, At, Complete, NeedsSid, NeedsRunner
  <2>2. routed' \in SUBSET (Session \X Runner)
        BY <1>5, <2>1, RouteType DEF OldHealthy
  <2> QED BY <1>5, <2>2, CarriesAnswer DEF OldHealthy, TypeOK, poolVars, runnerVars
<1>6. CASE OldUnhealthy(p)
  <2>1. [req[p] EXCEPT !.pc = "deleteOld"] \in Request
        BY <1>0 DEF Request, PC
  <2>2. Complete([req[p] EXCEPT !.pc = "deleteOld"])
        BY <1>0, <1>6 DEF OldUnhealthy, At, Complete, NeedsSid, NeedsNew, NeedsRunner, Request
  <2> QED BY <1>6, <2>1, <2>2, CarriesStep
          DEF OldUnhealthy, TypeOK, poolVars, runnerVars, clientVars
<1>7. CASE DeleteOld(p)
  <2>1. req[p].sid \in Session
        BY <1>0, <1>7 DEF DeleteOld, At, Complete, NeedsSid
  <2> QED BY <1>7, <2>1, DeleteItemType, CarriesBeginCreate DEF DeleteOld, TypeOK, runnerVars
<1>8. CASE QueryFinds(p)
  <2>1. PICK c \in QueryResults(CurrentBucket(p)) :
          Becomes(p, [req[p] EXCEPT !.pc = "assign", !.cand = c \ req[p].tried])
        BY <1>8 DEF QueryFinds
  <2>2. c \subseteq Runner
        BY DEF QueryResults, Listed
  <2>3. [req[p] EXCEPT !.pc = "assign", !.cand = c \ req[p].tried] \in Request
        BY <1>0, <2>2 DEF Request, PC
  <2>4. Complete([req[p] EXCEPT !.pc = "assign", !.cand = c \ req[p].tried])
        BY <1>0, <1>8 DEF QueryFinds, At, Complete, NeedsSid, NeedsNew, NeedsRunner, Request
  <2> QED BY <1>8, <2>1, <2>3, <2>4, CarriesStep
          DEF QueryFinds, TypeOK, poolVars, runnerVars, clientVars
<1>9. CASE NextBucket(p)
  <2>0. req[p].i + 1 \in Nat
        BY <1>0 DEF Request
  <2>1. [req[p] EXCEPT !.i = req[p].i + 1, !.tried = {}] \in Request
        BY <1>0, <2>0, Zenon DEF Request
  <2>2. Complete([req[p] EXCEPT !.i = req[p].i + 1, !.tried = {}])
        BY <1>0 DEF Complete, Request
  <2> QED BY <1>9, <2>1, <2>2, CarriesStep
          DEF NextBucket, TypeOK, poolVars, runnerVars, clientVars
<1>10. CASE NoIdleRunner(p)
       BY <1>10, CarriesAnswer DEF NoIdleRunner, TypeOK, poolVars, runnerVars, clientVars
<1>11. CASE AssignSucceeds(p)
  <2>1. PICK r \in req[p].cand :
          /\ table' = [table EXCEPT ![r] = BusyItem(req[p].new)]
          /\ Becomes(p, [req[p] EXCEPT !.pc = "check", !.runner = r, !.tried = {}, !.cand = {}])
        BY <1>11 DEF AssignSucceeds
  <2>2. r \in Runner /\ req[p].new \in Session
        BY <1>0, <1>11 DEF AssignSucceeds, At, Complete, NeedsNew, Request
  <2>3. table' \in [Runner -> Item]
        BY <2>1, <2>2 DEF TypeOK, Item
  <2>4. [req[p] EXCEPT !.pc = "check", !.runner = r, !.tried = {}, !.cand = {}] \in Request
        BY <1>0, <2>2 DEF Request, PC
  <2>5. Complete([req[p] EXCEPT !.pc = "check", !.runner = r, !.tried = {}, !.cand = {}])
        BY <1>0, <2>2 DEF Complete, NeedsSid, NeedsNew, NeedsRunner, Request
  <2> QED BY <1>11, <2>1, <2>3, <2>4, <2>5, CarriesStep
          DEF AssignSucceeds, TypeOK, runnerVars, clientVars
<1>12. CASE AssignFails(p)
  <2>1. PICK r \in req[p].cand : TryNext(p, r)
        BY <1>12 DEF AssignFails
  <2> QED BY <1>12, <2>1, CarriesTryNext
          DEF AssignFails, TypeOK, poolVars, runnerVars, clientVars
<1>13. CASE AssignReplyLost(p)
  <2>1. PICK r \in req[p].cand :
          /\ table' = [table EXCEPT ![r] = BusyItem(req[p].new)]
          /\ TryNext(p, r)
        BY <1>13 DEF AssignReplyLost
  <2>2. r \in Runner /\ req[p].new \in Session
        BY <1>0, <1>13 DEF AssignReplyLost, At, Complete, NeedsNew, Request
  <2>3. table' \in [Runner -> Item]
        BY <2>1, <2>2 DEF TypeOK, Item
  <2> QED BY <1>13, <2>1, <2>3, CarriesTryNext DEF AssignReplyLost, TypeOK, runnerVars, clientVars
<1>14. CASE NewHealthy(p)
  <2>1. req[p].new \in Session /\ req[p].runner \in Runner
        BY <1>0, <1>14 DEF NewHealthy, At, Complete, NeedsNew, NeedsRunner
  <2>2. routed' \in SUBSET (Session \X Runner)
        BY <1>14, <2>1, RouteType DEF NewHealthy
  <2> QED BY <1>14, <2>1, <2>2, CarriesAnswer DEF NewHealthy, TypeOK, poolVars, runnerVars
<1>15. CASE NewUnhealthy(p)
  <2>1. [req[p] EXCEPT !.pc = "delete"] \in Request
        BY <1>0 DEF Request, PC
  <2>2. Complete([req[p] EXCEPT !.pc = "delete"])
        BY <1>0, <1>15 DEF NewUnhealthy, At, Complete, NeedsSid, NeedsNew, NeedsRunner, Request
  <2> QED BY <1>15, <2>1, <2>2, CarriesStep
          DEF NewUnhealthy, TypeOK, poolVars, runnerVars, clientVars
<1>16. CASE DeleteUnhealthy(p)
  <2>1. [req[p] EXCEPT !.pc = "query", !.runner = None] \in Request
        BY <1>0 DEF Request, PC
  <2>2. Complete([req[p] EXCEPT !.pc = "query", !.runner = None])
        BY <1>0, <1>16 DEF DeleteUnhealthy, At, Complete, NeedsSid, NeedsNew, NeedsRunner, Request
  <2> QED BY <1>16, <2>1, <2>2, CarriesStep, DeleteItemType
          DEF DeleteUnhealthy, TypeOK, runnerVars, clientVars
<1>17. CASE CloseFind(p)
  <2>1. CASE FindHit(p, "closeDelete")
    <3>1. PICK r \in Runner : Becomes(p, [req[p] EXCEPT !.pc = "closeDelete", !.runner = r])
          BY <2>1 DEF FindHit
    <3>2. [req[p] EXCEPT !.pc = "closeDelete", !.runner = r] \in Request
          BY <1>0 DEF Request, PC
    <3>3. Complete([req[p] EXCEPT !.pc = "closeDelete", !.runner = r])
          BY <1>0, <1>17 DEF CloseFind, At, Complete, NeedsSid, NeedsNew, NeedsRunner, Request
    <3> QED BY <1>17, <3>1, <3>2, <3>3, CarriesStep
            DEF CloseFind, TypeOK, poolVars, runnerVars, clientVars
  <2>2. CASE Answer(p)
        BY <1>17, <2>2, CarriesAnswer DEF CloseFind, TypeOK, poolVars, runnerVars, clientVars
  <2> QED BY <1>17, <2>1, <2>2 DEF CloseFind
<1>18. CASE CloseDelete(p)
       BY <1>18, DeleteItemType, CarriesAnswer DEF CloseDelete, TypeOK, runnerVars, clientVars
<1>19. CASE Abort(p)
       BY <1>19, CarriesAnswer DEF Abort, TypeOK, poolVars, runnerVars, clientVars
<1> QED BY <1>1, <1>2, <1>3, <1>4, <1>5, <1>6, <1>7, <1>8, <1>9, <1>10, <1>11, <1>12,
           <1>13, <1>14, <1>15, <1>16, <1>17, <1>18, <1>19 DEF BrokerStep, Progress

\* A step that leaves the requests alone leaves them complete.
LEMMA TypeRunnerStep ==
  ASSUME TypeInv, NEW r \in Runner, RunnerStep(r) \/ IndexStep(r)
  PROVE  TypeInv'
<1> USE DEF TypeInv, TypeOK
<1>1. req' = req /\ issued' = issued /\ cookies' = cookies /\ routed' = routed
      BY DEF RunnerStep, IndexStep, Boot, RegisterPut, RegisterFind, RegisterRetry, LatePut,
             Serve, CancelRegister, Deregister, Stop, Crash, PropagateIdle, PropagateSession,
             clientVars
<1>2. Carries'
      BY <1>1 DEF Carries, Complete
<1>3. ASSUME NEW l \in Life, Become(r, l) PROVE life' \in [Runner -> Life]
      BY <1>3 DEF Become
<1>4. CASE Boot(r)
      BY <1>1, <1>2, <1>3, <1>4 DEF Boot, Life, poolVars
<1>5. CASE RegisterPut(r)
  <2>1. table' \in [Runner -> Item]
        BY <1>5, PutItemType DEF RegisterPut
  <2>2. life' \in [Runner -> Life]
        BY <1>5, <1>3 DEF RegisterPut, Life
  <2> QED BY <1>1, <1>2, <1>5, <2>1, <2>2 DEF RegisterPut
<1>6. CASE RegisterFind(r)
      BY <1>1, <1>2, <1>3, <1>6 DEF RegisterFind, Life, poolVars
<1>7. CASE RegisterRetry(r)
  <2>1. late' \in SUBSET Runner
        BY <1>7 DEF RegisterRetry
  <2> QED BY <1>1, <1>2, <1>3, <1>7, <2>1 DEF RegisterRetry, Life, poolVars
<1>8. CASE LatePut(r)
      BY <1>1, <1>2, <1>8, PutItemType DEF LatePut
<1>9. CASE Serve(r)
      BY <1>1, <1>2, <1>3, <1>9 DEF Serve, Life, poolVars
<1>10. CASE CancelRegister(r)
       BY <1>1, <1>2, <1>3, <1>10 DEF CancelRegister, Life, poolVars
<1>11. CASE Deregister(r)
  <2>1. table' \in [Runner -> Item]
        BY <1>11, DeleteItemType DEF Deregister
  <2> QED BY <1>1, <1>2, <1>3, <1>11, <2>1 DEF Deregister, Life
<1>12. CASE Stop(r)
       BY <1>1, <1>2, <1>3, <1>12 DEF Stop, Life, poolVars
<1>13. CASE Crash(r)
       BY <1>1, <1>2, <1>3, <1>13 DEF Crash, Life, poolVars
<1>14. CASE PropagateIdle(r)
  <2>1. table[r].bucket \in Bucket \cup {None}
        BY DEF Item, NoItem, IdleItem, BusyItem
  <2> QED BY <1>1, <1>2, <1>14, <2>1 DEF PropagateIdle, runnerVars
<1>15. CASE PropagateSession(r)
  <2>1. table[r].session \in Session \cup {None}
        BY DEF Item, NoItem, IdleItem, BusyItem
  <2> QED BY <1>1, <1>2, <1>15, <2>1 DEF PropagateSession, runnerVars
<1> QED BY <1>4, <1>5, <1>6, <1>7, <1>8, <1>9, <1>10, <1>11, <1>12, <1>13, <1>14, <1>15
        DEF RunnerStep, IndexStep

LEMMA TypeNext ==
  ASSUME TypeInv, [Next]_vars
  PROVE  TypeInv'
<1>1. CASE Next
      BY <1>1, TypeBrokerStep, TypeRunnerStep DEF Next
<1>2. CASE UNCHANGED vars
      BY <1>2 DEF vars, TypeInv, TypeOK, Carries, Complete
<1> QED BY <1>1, <1>2

\* Every variable keeps its type under every fault: a request only ever deletes a
\* runner it has found, and an item of the table is idle or busy, never half of each.
THEOREM TypeCorrect == Spec => []TypeOK
<1>1. Spec => []TypeInv
      BY TypeInit, TypeNext, PTL DEF Spec
<1> QED BY <1>1, PTL DEF TypeInv

-----------------------------------------------------------------------------
(* One runner per session.  The session of a request is its own, and only  *)
(* the runner it has acquired and not yet deleted carries that session.    *)

SessionsKnown ==
  /\ \A r \in Runner : table[r].session \in issued \cup {None}
  /\ \A p \in Proc : req[p].new \in issued \cup {None}

OwnSession ==
  \A p, q \in Proc : req[p].new # None /\ req[p].new = req[q].new => p = q

Holds(q, r) == q.pc \in {"check", "delete"} /\ q.runner = r

HeldByRequest ==
  \A p \in Proc, r \in Runner :
    req[p].new # None /\ table[r].session = req[p].new => Holds(req[p], r)

OneRunnerInv == TypeInv /\ SessionsKnown /\ OwnSession /\ HeldByRequest /\ OneRunnerPerSession

LEMMA OneRunnerInit == Init => OneRunnerInv
BY TypeInit DEF Init, OneRunnerInv, SessionsKnown, OwnSession, HeldByRequest,
                OneRunnerPerSession, NoRequest, NoItem

\* No session appears in the table that was not there before.
Shrinks == \A r \in Runner : table'[r].session \in {table[r].session, None}

LEMMA DeleteShrinks == ASSUME TypeInv, NEW r, DeleteItem(r) PROVE Shrinks
BY DEF TypeInv, TypeOK, DeleteItem, Shrinks, NoItem

LEMMA PutShrinks == ASSUME TypeInv, NEW r \in Runner, PutItem(r) PROVE Shrinks
BY DEF TypeInv, TypeOK, PutItem, Shrinks, IdleItem, NoItem

\* A request goes on under its session, or without one, as the holder of what it held.
LEMMA OneRunnerGoesOn ==
  ASSUME OneRunnerInv, TypeInv', NEW p \in Proc, NEW q, Becomes(p, q),
         issued' = issued, Shrinks,
         \/ q.new = None
         \/ /\ q.new = req[p].new
            /\ \A r \in Runner : table'[r].session = q.new => Holds(q, r)
  PROVE  OneRunnerInv'
<1>1. req' = [x \in Proc |-> IF x = p THEN q ELSE req[x]]
      BY DEF OneRunnerInv, TypeInv, TypeOK, Becomes
<1>2. SessionsKnown'
      BY <1>1 DEF OneRunnerInv, SessionsKnown, Shrinks
<1>3. OwnSession'
      BY <1>1 DEF OneRunnerInv, OwnSession
<1>4. HeldByRequest'
      BY <1>1 DEF OneRunnerInv, HeldByRequest, Shrinks, Holds
<1>5. OneRunnerPerSession'
      BY DEF OneRunnerInv, OneRunnerPerSession, Shrinks
<1> QED BY <1>2, <1>3, <1>4, <1>5 DEF OneRunnerInv

\* A request draws a session that nobody has.
LEMMA OneRunnerBegins ==
  ASSUME OneRunnerInv, TypeInv', NEW p \in Proc, NEW sid, NEW re,
         BeginCreate(p, sid, re), Shrinks
  PROVE  OneRunnerInv'
<1>1. PICK s \in Session \ issued, b \in Bucket :
        /\ issued' = issued \cup {s}
        /\ Becomes(p, [NoRequest EXCEPT !.pc = "query", !.sid = sid, !.new = s,
                                        !.start = b, !.reassigned = re])
      BY DEF BeginCreate
<1> DEFINE q == [NoRequest EXCEPT !.pc = "query", !.sid = sid, !.new = s,
                                  !.start = b, !.reassigned = re]
<1>2. q.new = s /\ s # None
      BY ConstantsAssumption DEF NoRequest
<1> HIDE DEF q
<1>3. req' = [x \in Proc |-> IF x = p THEN q ELSE req[x]]
      BY <1>1 DEF OneRunnerInv, TypeInv, TypeOK, Becomes, q
<1>4. \A r \in Runner : table[r].session # s /\ table'[r].session # s
      BY <1>2 DEF OneRunnerInv, SessionsKnown, Shrinks
<1>5. \A x \in Proc : req[x].new # s
      BY <1>2 DEF OneRunnerInv, SessionsKnown
<1>6. SessionsKnown'
      BY <1>1, <1>2, <1>3 DEF OneRunnerInv, SessionsKnown, Shrinks
<1>7. OwnSession'
      BY <1>2, <1>3, <1>5 DEF OneRunnerInv, OwnSession
<1>8. HeldByRequest'
      BY <1>2, <1>3, <1>4 DEF OneRunnerInv, HeldByRequest, Shrinks, Holds
<1>9. OneRunnerPerSession'
      BY DEF OneRunnerInv, OneRunnerPerSession, Shrinks
<1> QED BY <1>6, <1>7, <1>8, <1>9 DEF OneRunnerInv

\* A step of runners or indexes.
LEMMA OneRunnerElsewhere ==
  ASSUME OneRunnerInv, TypeInv', req' = req, issued' = issued, Shrinks
  PROVE  OneRunnerInv'
BY DEF OneRunnerInv, SessionsKnown, OwnSession, HeldByRequest, OneRunnerPerSession, Shrinks, Holds

\* The runner that AcquireIdle binds is the first to carry the session.
LEMMA OneRunnerAssign ==
  ASSUME OneRunnerInv, TypeInv', NEW p \in Proc, AssignSucceeds(p)
  PROVE  OneRunnerInv'
<1>1. PICK r \in req[p].cand :
        /\ table' = [table EXCEPT ![r] = BusyItem(req[p].new)]
        /\ Becomes(p, [req[p] EXCEPT !.pc = "check", !.runner = r, !.tried = {}, !.cand = {}])
      BY DEF AssignSucceeds
<1> DEFINE q == [req[p] EXCEPT !.pc = "check", !.runner = r, !.tried = {}, !.cand = {}]
<1>2. req[p] \in Request /\ r \in Runner /\ req[p].new \in Session /\ req[p].new # None
      BY ConstantsAssumption
         DEF OneRunnerInv, TypeInv, TypeOK, Carries, Complete, AssignSucceeds, At, NeedsNew, Request
<1>3. q.new = req[p].new /\ Holds(q, r)
      BY <1>2 DEF Holds, Request
<1> HIDE DEF q
<1>4. req' = [x \in Proc |-> IF x = p THEN q ELSE req[x]]
      BY <1>1 DEF OneRunnerInv, TypeInv, TypeOK, Becomes, q
<1>5. \A x \in Runner : table[x].session # req[p].new
      BY <1>2 DEF OneRunnerInv, HeldByRequest, Holds, AssignSucceeds, At
<1>6. \A x \in Runner :
        table'[x].session = IF x = r THEN req[p].new ELSE table[x].session
      BY <1>1, <1>2 DEF OneRunnerInv, TypeInv, TypeOK, BusyItem
<1>7. issued' = issued
      BY DEF AssignSucceeds, clientVars
<1>8. SessionsKnown'
      BY <1>3, <1>4, <1>6, <1>7 DEF OneRunnerInv, SessionsKnown
<1>9. OwnSession'
      BY <1>3, <1>4 DEF OneRunnerInv, OwnSession
<1>10. HeldByRequest'
  <2>1. ASSUME NEW x \in Proc, NEW y \in Runner, req'[x].new # None,
               table'[y].session = req'[x].new
        PROVE  Holds(req'[x], y)
    <3>1. CASE x = p
          BY <2>1, <3>1, <1>3, <1>4, <1>5, <1>6
    <3>2. CASE x # p
          BY <2>1, <3>2, <1>2, <1>4, <1>6 DEF OneRunnerInv, HeldByRequest, OwnSession
    <3> QED BY <3>1, <3>2
  <2> QED BY <2>1 DEF HeldByRequest, Holds
<1>11. OneRunnerPerSession'
       BY <1>5, <1>6 DEF OneRunnerInv, OneRunnerPerSession
<1> QED BY <1>8, <1>9, <1>10, <1>11 DEF OneRunnerInv

LEMMA OneRunnerBrokerStep ==
  ASSUME OneRunnerInv, TypeInv', "assignLost" \notin Faults, NEW p \in Proc, BrokerStep(p)
  PROVE  OneRunnerInv'
<1>0. /\ TypeInv
      /\ req[p] \in Request
      /\ Complete(req[p])
      /\ \A r \in Runner : req[p].new # None /\ table[r].session = req[p].new => Holds(req[p], r)
      BY DEF OneRunnerInv, HeldByRequest, TypeInv, TypeOK, Carries
<1>1. ASSUME Answer(p), issued' = issued, Shrinks PROVE OneRunnerInv'
      BY <1>1, OneRunnerGoesOn DEF Answer, NoRequest
<1>2. table' = table => Shrinks
      BY DEF Shrinks
<1>3. CASE ResolveNew(p)
      BY <1>2, <1>3, OneRunnerBegins DEF ResolveNew, poolVars
<1>4. CASE ResolveCookie(p)
  <2>1. PICK s \in cookies : Becomes(p, [NoRequest EXCEPT !.pc = "find", !.sid = s])
        BY <1>4 DEF ResolveCookie
  <2>2. [NoRequest EXCEPT !.pc = "find", !.sid = s].new = None
        BY DEF NoRequest
  <2> QED BY <1>2, <1>4, <2>1, <2>2, OneRunnerGoesOn DEF ResolveCookie, poolVars, clientVars
<1>5. CASE CloseSession(p)
  <2>1. PICK s \in cookies : Becomes(p, [NoRequest EXCEPT !.pc = "closeFind", !.sid = s])
        BY <1>5 DEF CloseSession
  <2>2. [NoRequest EXCEPT !.pc = "closeFind", !.sid = s].new = None
        BY DEF NoRequest
  <2> QED BY <1>2, <1>5, <2>1, <2>2, OneRunnerGoesOn DEF CloseSession, poolVars, clientVars
<1>6. CASE FindSession(p)
  <2>1. req[p].new = None
        BY <1>0, <1>6 DEF FindSession, At, Complete, NeedsNew
  <2>2. CASE FindHit(p, "checkOld") /\ UNCHANGED issued
    <3>1. PICK r \in Runner : Becomes(p, [req[p] EXCEPT !.pc = "checkOld", !.runner = r])
          BY <2>2 DEF FindHit
    <3>2. [req[p] EXCEPT !.pc = "checkOld", !.runner = r].new = None
          BY <1>0, <2>1 DEF Request
    <3> QED BY <1>2, <1>6, <2>2, <3>1, <3>2, OneRunnerGoesOn DEF FindSession, poolVars
  <2>3. CASE BeginCreate(p, req[p].sid, FALSE)
        BY <1>2, <1>6, <2>3, OneRunnerBegins DEF FindSession, poolVars
  <2> QED BY <1>6, <2>2, <2>3 DEF FindSession
<1>7. CASE OldHealthy(p)
      BY <1>1, <1>2, <1>7 DEF OldHealthy, poolVars
<1>8. CASE OldUnhealthy(p)
  <2>1. [req[p] EXCEPT !.pc = "deleteOld"].new = None
        BY <1>0, <1>8 DEF OldUnhealthy, At, Complete, NeedsNew, Request
  <2> QED BY <1>2, <1>8, <2>1, OneRunnerGoesOn DEF OldUnhealthy, poolVars, clientVars
<1>9. CASE DeleteOld(p)
      BY <1>0, <1>9, DeleteShrinks, OneRunnerBegins DEF DeleteOld
<1>10. CASE QueryFinds(p)
  <2>1. PICK c \in QueryResults(CurrentBucket(p)) :
          Becomes(p, [req[p] EXCEPT !.pc = "assign", !.cand = c \ req[p].tried])
        BY <1>10 DEF QueryFinds
  <2> DEFINE q == [req[p] EXCEPT !.pc = "assign", !.cand = c \ req[p].tried]
  <2>2. q.new = req[p].new
        BY <1>0 DEF Request
  <2>3. req[p].new # None /\ \A r \in Runner : table[r].session # req[p].new
        BY <1>0, <1>10, ConstantsAssumption DEF QueryFinds, At, Holds, Complete, NeedsNew
  <2> HIDE DEF q
  <2> QED BY <1>2, <1>10, <2>1, <2>2, <2>3, OneRunnerGoesOn
          DEF QueryFinds, poolVars, clientVars, q
<1>11. CASE NextBucket(p)
  <2> DEFINE q == [req[p] EXCEPT !.i = @ + 1, !.tried = {}]
  <2>2. q.new = req[p].new
        BY <1>0 DEF Request
  <2>3. req[p].new # None /\ \A r \in Runner : table[r].session # req[p].new
        BY <1>0, <1>11, ConstantsAssumption
           DEF NextBucket, QueryFindsNothing, At, Holds, Complete, NeedsNew
  <2> HIDE DEF q
  <2> QED BY <1>2, <1>11, <2>2, <2>3, OneRunnerGoesOn
          DEF NextBucket, poolVars, clientVars, q
<1>12. CASE NoIdleRunner(p)
       BY <1>1, <1>2, <1>12 DEF NoIdleRunner, poolVars, clientVars
<1>13. CASE AssignSucceeds(p)
       BY <1>13, OneRunnerAssign
<1>14. CASE AssignFails(p)
  <2>1. PICK r \in req[p].cand : TryNext(p, r)
        BY <1>14 DEF AssignFails
  <2> DEFINE q == [req[p] EXCEPT !.tried = @ \cup {r}, !.cand = @ \ {r},
                                 !.pc = IF req[p].cand = {r} THEN "query" ELSE "assign"]
  <2>2. q.new = req[p].new
        BY <1>0 DEF Request
  <2>3. req[p].new # None /\ \A x \in Runner : table[x].session # req[p].new
        BY <1>0, <1>14, ConstantsAssumption DEF AssignFails, At, Holds, Complete, NeedsNew
  <2> HIDE DEF q
  <2> QED BY <1>2, <1>14, <2>1, <2>2, <2>3, OneRunnerGoesOn
          DEF AssignFails, TryNext, poolVars, clientVars, q
<1>15. CASE AssignReplyLost(p)
       BY <1>15 DEF AssignReplyLost
<1>16. CASE NewHealthy(p)
       BY <1>1, <1>2, <1>16 DEF NewHealthy, poolVars
<1>17. CASE NewUnhealthy(p)
  <2> DEFINE q == [req[p] EXCEPT !.pc = "delete"]
  <2>1. q.new = req[p].new /\ q.runner = req[p].runner /\ q.pc = "delete"
        BY <1>0 DEF Request
  <2>2. req[p].new # None
        BY <1>0, <1>17, ConstantsAssumption DEF NewUnhealthy, At, Complete, NeedsNew
  <2> HIDE DEF q
  <2> QED BY <1>0, <1>2, <1>17, <2>1, <2>2, OneRunnerGoesOn
          DEF NewUnhealthy, poolVars, clientVars, q, Holds
<1>18. CASE DeleteUnhealthy(p)
  <2> DEFINE q == [req[p] EXCEPT !.pc = "query", !.runner = None]
  <2>1. q.new = req[p].new
        BY <1>0 DEF Request
  <2>2. req[p].new # None
        BY <1>0, <1>18, ConstantsAssumption DEF DeleteUnhealthy, At, Complete, NeedsNew
  <2>3. \A r \in Runner : table'[r].session # req[p].new
        BY <1>0, <1>18, <2>2 DEF DeleteUnhealthy, DeleteItem, Holds, TypeInv, TypeOK, NoItem
  <2> HIDE DEF q
  <2> QED BY <1>0, <1>18, <2>1, <2>2, <2>3, DeleteShrinks, OneRunnerGoesOn
          DEF DeleteUnhealthy, clientVars, q
<1>19. CASE CloseFind(p)
  <2>1. CASE FindHit(p, "closeDelete")
    <3>1. PICK r \in Runner : Becomes(p, [req[p] EXCEPT !.pc = "closeDelete", !.runner = r])
          BY <2>1 DEF FindHit
    <3>2. [req[p] EXCEPT !.pc = "closeDelete", !.runner = r].new = None
          BY <1>0, <1>19 DEF CloseFind, At, Complete, NeedsNew, Request
    <3> QED BY <1>2, <1>19, <3>1, <3>2, OneRunnerGoesOn DEF CloseFind, poolVars, clientVars
  <2>2. CASE Answer(p)
        BY <1>1, <1>2, <1>19, <2>2 DEF CloseFind, poolVars, clientVars
  <2> QED BY <1>19, <2>1, <2>2 DEF CloseFind
<1>20. CASE CloseDelete(p)
       BY <1>0, <1>1, <1>20, DeleteShrinks DEF CloseDelete, clientVars
<1>21. CASE Abort(p)
       BY <1>1, <1>2, <1>21 DEF Abort, poolVars, clientVars
<1> QED BY <1>3, <1>4, <1>5, <1>6, <1>7, <1>8, <1>9, <1>10, <1>11, <1>12, <1>13, <1>14,
           <1>15, <1>16, <1>17, <1>18, <1>19, <1>20, <1>21 DEF BrokerStep, Progress

\* Runners and indexes bind nothing.
LEMMA RunnerStepShrinks ==
  ASSUME TypeInv, NEW r \in Runner, RunnerStep(r) \/ IndexStep(r)
  PROVE  UNCHANGED <<req, issued, cookies>> /\ Shrinks
<1>1. table' = table => Shrinks
      BY DEF Shrinks
<1>2. UNCHANGED <<req, issued, cookies>>
      BY DEF RunnerStep, IndexStep, Boot, RegisterPut, RegisterFind, RegisterRetry, LatePut,
             Serve, CancelRegister, Deregister, Stop, Crash, PropagateIdle, PropagateSession,
             clientVars
<1>3. table' = table \/ DeleteItem(r) \/ PutItem(r)
      BY DEF RunnerStep, IndexStep, Boot, RegisterPut, RegisterFind, RegisterRetry, LatePut,
             Serve, CancelRegister, Deregister, Stop, Crash, PropagateIdle, PropagateSession,
             poolVars
<1> QED BY <1>1, <1>2, <1>3, DeleteShrinks, PutShrinks

LEMMA OneRunnerNext ==
  ASSUME OneRunnerInv, "assignLost" \notin Faults, [Next]_vars
  PROVE  OneRunnerInv'
<1>1. TypeInv /\ TypeInv'
      BY TypeNext DEF OneRunnerInv
<1>2. ASSUME NEW r \in Runner, RunnerStep(r) \/ IndexStep(r)
      PROVE  req' = req /\ issued' = issued /\ Shrinks
      BY <1>1, <1>2, RunnerStepShrinks
<1>3. CASE \E p \in Proc : BrokerStep(p)
      BY <1>1, <1>3, OneRunnerBrokerStep
<1>4. CASE \E r \in Runner : RunnerStep(r) \/ IndexStep(r)
      BY <1>1, <1>2, <1>4, OneRunnerElsewhere
<1>5. CASE UNCHANGED vars
      BY <1>1, <1>5, OneRunnerElsewhere DEF vars, Shrinks
<1> QED BY <1>3, <1>4, <1>5 DEF Next

\* Unless the SDK repeats an assignment whose reply was lost, a session is bound to
\* one runner at a time: whatever requests retry, race, abort or find stale, and
\* however registrations and health checks fail.
THEOREM OneRunner ==
  ASSUME "assignLost" \notin Faults
  PROVE  Spec => []OneRunnerPerSession
<1>1. Spec => []OneRunnerInv
      BY OneRunnerInit, OneRunnerNext, PTL DEF Spec
<1> QED BY <1>1, PTL DEF OneRunnerInv
-----------------------------------------------------------------------------
(* No orphans.  A runner that is bound to the session of a request is      *)
(* either kept by the request, deleted by it, or answered with the cookie. *)

\* A request goes on as q; it takes leave of its session only when no runner is left
\* bound to it, or when the client is given the cookie.
LEMMA NoOrphanGoesOn ==
  ASSUME TypeInv, NoOrphan, NEW p \in Proc, NEW q, Becomes(p, q), cookies \subseteq cookies',
         \A r \in Runner : table'[r].session \in {table[r].session, None, q.new},
         \A r \in Runner : table'[r].session = req[p].new =>
                          req[p].new \in cookies' \cup {q.new, None}
  PROVE  NoOrphan'
<1>1. req' = [x \in Proc |-> IF x = p THEN q ELSE req[x]]
      BY DEF TypeInv, TypeOK, Becomes
<1>2. q.new \in {req'[x].new : x \in Proc}
      BY <1>1
<1>3. ASSUME NEW r \in Runner
      PROVE  table'[r].session \in cookies' \cup {req'[x].new : x \in Proc} \cup {None}
  <2>1. CASE table'[r].session = q.new \/ table'[r].session = None
        BY <2>1, <1>2
  <2>2. CASE table'[r].session = table[r].session /\ table[r].session \in cookies
        BY <2>2
  <2>3. ASSUME NEW x \in Proc, table'[r].session = req[x].new
        PROVE  table'[r].session \in cookies' \cup {req'[y].new : y \in Proc} \cup {None}
    <3>1. CASE x = p
          BY <1>2, <2>3, <3>1
    <3>2. CASE x # p
          BY <1>1, <2>3, <3>2
    <3> QED BY <3>1, <3>2
  <2> QED BY <2>1, <2>2, <2>3 DEF NoOrphan, InFlight
<1> QED BY <1>3 DEF NoOrphan, InFlight

\* A request that creates nothing leaves no orphan, whatever becomes of it.
LEMMA NoOrphanWithoutSession ==
  ASSUME TypeInv, NoOrphan, NEW p \in Proc, NEW q, Becomes(p, q), req[p].new = None,
         cookies' = cookies, Shrinks
  PROVE  NoOrphan'
BY NoOrphanGoesOn DEF Shrinks

LEMMA NoOrphanBegins ==
  ASSUME TypeInv, NoOrphan, NEW p \in Proc, NEW sid, NEW re, BeginCreate(p, sid, re),
         req[p].new = None, cookies' = cookies, Shrinks
  PROVE  NoOrphan'
BY NoOrphanWithoutSession DEF BeginCreate

\* A request that keeps its session.
LEMMA NoOrphanKeeps ==
  ASSUME TypeInv, NoOrphan, NEW p \in Proc, NEW q, Becomes(p, q), q.new = req[p].new,
         cookies' = cookies, Shrinks
  PROVE  NoOrphan'
BY NoOrphanGoesOn DEF Shrinks

LEMMA NoOrphanBrokerStep ==
  ASSUME OneRunnerInv, NoOrphan, "abort" \notin Faults, "assignLost" \notin Faults,
         NEW p \in Proc, BrokerStep(p)
  PROVE  NoOrphan'
<1>0. /\ TypeInv
      /\ req[p] \in Request
      /\ Complete(req[p])
      /\ \A r \in Runner : req[p].new # None /\ table[r].session = req[p].new => Holds(req[p], r)
      BY DEF OneRunnerInv, HeldByRequest, TypeInv, TypeOK, Carries
<1>1. table' = table => Shrinks
      BY DEF Shrinks
<1>2. CASE ResolveNew(p)
  <2>1. req[p].new = None
        BY <1>0, <1>2 DEF ResolveNew, At, Complete, NeedsNew
  <2> QED BY <1>0, <1>1, <1>2, <2>1, NoOrphanBegins DEF ResolveNew, poolVars
<1>3. CASE ResolveCookie(p) \/ CloseSession(p)
  <2>1. req[p].new = None
        BY <1>0, <1>3 DEF ResolveCookie, CloseSession, At, Complete, NeedsNew
  <2> QED BY <1>0, <1>1, <1>3, <2>1, NoOrphanWithoutSession
          DEF ResolveCookie, CloseSession, poolVars, clientVars
<1>4. CASE FindSession(p)
  <2>1. req[p].new = None
        BY <1>0, <1>4 DEF FindSession, At, Complete, NeedsNew
  <2>2. CASE FindHit(p, "checkOld")
        BY <1>0, <1>1, <1>4, <2>1, <2>2, NoOrphanWithoutSession DEF FindHit, FindSession, poolVars
  <2>3. CASE BeginCreate(p, req[p].sid, FALSE)
        BY <1>0, <1>1, <1>4, <2>1, <2>3, NoOrphanBegins DEF FindSession, poolVars
  <2> QED BY <1>4, <2>2, <2>3 DEF FindSession
<1>5. CASE OldHealthy(p) \/ OldUnhealthy(p)
  <2>1. req[p].new = None
        BY <1>0, <1>5 DEF OldHealthy, OldUnhealthy, At, Complete, NeedsNew
  <2> QED BY <1>0, <1>1, <1>5, <2>1, NoOrphanWithoutSession
          DEF OldHealthy, OldUnhealthy, Answer, poolVars, clientVars
<1>6. CASE DeleteOld(p)
  <2>1. req[p].new = None
        BY <1>0, <1>6 DEF DeleteOld, At, Complete, NeedsNew
  <2> QED BY <1>0, <1>6, <2>1, DeleteShrinks, NoOrphanBegins DEF DeleteOld
<1>7. CASE QueryFinds(p)
  <2>1. PICK c \in QueryResults(CurrentBucket(p)) :
          Becomes(p, [req[p] EXCEPT !.pc = "assign", !.cand = c \ req[p].tried])
        BY <1>7 DEF QueryFinds
  <2> DEFINE q == [req[p] EXCEPT !.pc = "assign", !.cand = c \ req[p].tried]
  <2>2. q.new = req[p].new
        BY <1>0 DEF Request
  <2> HIDE DEF q
  <2> QED BY <1>0, <1>1, <1>7, <2>1, <2>2, NoOrphanKeeps DEF QueryFinds, poolVars, clientVars, q
<1>8. CASE NextBucket(p)
  <2> DEFINE q == [req[p] EXCEPT !.i = @ + 1, !.tried = {}]
  <2>1. q.new = req[p].new
        BY <1>0 DEF Request
  <2> HIDE DEF q
  <2> QED BY <1>0, <1>1, <1>8, <2>1, NoOrphanKeeps DEF NextBucket, poolVars, clientVars, q
<1>9. CASE NoIdleRunner(p)
  <2>1. \A r \in Runner : table'[r].session # req[p].new
        BY <1>0, <1>9, ConstantsAssumption
           DEF NoIdleRunner, QueryFindsNothing, poolVars, At, Holds, Complete, NeedsNew
  <2> QED BY <1>0, <1>1, <1>9, <2>1, NoOrphanGoesOn
          DEF NoIdleRunner, Answer, poolVars, clientVars, Shrinks
<1>10. CASE AssignSucceeds(p)
  <2>1. PICK r \in req[p].cand :
          /\ table' = [table EXCEPT ![r] = BusyItem(req[p].new)]
          /\ Becomes(p, [req[p] EXCEPT !.pc = "check", !.runner = r, !.tried = {}, !.cand = {}])
        BY <1>10 DEF AssignSucceeds
  <2> DEFINE q == [req[p] EXCEPT !.pc = "check", !.runner = r, !.tried = {}, !.cand = {}]
  <2>2. q.new = req[p].new /\ r \in Runner
        BY <1>0 DEF Request
  <2> HIDE DEF q
  <2>3. \A x \in Runner :
          table'[x].session = IF x = r THEN q.new ELSE table[x].session
        BY <1>0, <2>1, <2>2 DEF TypeInv, TypeOK, BusyItem
  <2>4. Becomes(p, q) /\ cookies' = cookies
        BY <1>10, <2>1 DEF AssignSucceeds, clientVars, q
  <2>5. \A x \in Runner : table'[x].session \in {table[x].session, None, q.new}
        BY <2>3
  <2> QED BY <1>0, <2>2, <2>4, <2>5, NoOrphanGoesOn
<1>11. CASE AssignFails(p)
  <2>1. PICK r \in req[p].cand : TryNext(p, r)
        BY <1>11 DEF AssignFails
  <2> DEFINE q == [req[p] EXCEPT !.tried = @ \cup {r}, !.cand = @ \ {r},
                                 !.pc = IF req[p].cand = {r} THEN "query" ELSE "assign"]
  <2>2. q.new = req[p].new
        BY <1>0 DEF Request
  <2> HIDE DEF q
  <2> QED BY <1>0, <1>1, <1>11, <2>1, <2>2, NoOrphanKeeps
          DEF AssignFails, TryNext, poolVars, clientVars, q
<1>12. ~AssignReplyLost(p) /\ ~Abort(p)
       BY DEF AssignReplyLost, Abort
<1>13. CASE NewHealthy(p)
  <2>1. req[p].new \in cookies' /\ cookies \subseteq cookies'
        BY <1>13 DEF NewHealthy
  <2>2. Becomes(p, NoRequest) /\ table' = table
        BY <1>13 DEF NewHealthy, Answer, poolVars
  <2> QED BY <1>0, <2>1, <2>2, NoOrphanGoesOn
<1>14. CASE NewUnhealthy(p)
  <2> DEFINE q == [req[p] EXCEPT !.pc = "delete"]
  <2>1. q.new = req[p].new
        BY <1>0 DEF Request
  <2> HIDE DEF q
  <2> QED BY <1>0, <1>1, <1>14, <2>1, NoOrphanKeeps DEF NewUnhealthy, poolVars, clientVars, q
<1>15. CASE DeleteUnhealthy(p)
  <2> DEFINE q == [req[p] EXCEPT !.pc = "query", !.runner = None]
  <2>1. q.new = req[p].new
        BY <1>0 DEF Request
  <2> HIDE DEF q
  <2> QED BY <1>0, <1>15, <2>1, DeleteShrinks, NoOrphanKeeps DEF DeleteUnhealthy, clientVars, q
<1>16. CASE CloseFind(p) \/ CloseDelete(p)
  <2>1. req[p].new = None
        BY <1>0, <1>16 DEF CloseFind, CloseDelete, At, Complete, NeedsNew
  <2>2. Shrinks /\ cookies' = cookies
        BY <1>0, <1>1, <1>16, DeleteShrinks DEF CloseFind, CloseDelete, poolVars, clientVars
  <2>3. \E q : Becomes(p, q)
        BY <1>16 DEF CloseFind, CloseDelete, FindHit, Answer
  <2> QED BY <1>0, <2>1, <2>2, <2>3, NoOrphanWithoutSession
<1> QED BY <1>2, <1>3, <1>4, <1>5, <1>6, <1>7, <1>8, <1>9, <1>10, <1>11, <1>12, <1>13, <1>14,
           <1>15, <1>16 DEF BrokerStep, Progress

LEMMA NoOrphanNext ==
  ASSUME OneRunnerInv, NoOrphan, "abort" \notin Faults, "assignLost" \notin Faults, [Next]_vars
  PROVE  NoOrphan'
<1>1. TypeInv
      BY DEF OneRunnerInv
<1>2. ASSUME req' = req, cookies' = cookies, Shrinks PROVE NoOrphan'
      BY <1>2 DEF NoOrphan, InFlight, Shrinks
<1>3. CASE \E p \in Proc : BrokerStep(p)
      BY <1>3, NoOrphanBrokerStep
<1>4. ASSUME NEW r \in Runner, RunnerStep(r) \/ IndexStep(r) PROVE NoOrphan'
      BY <1>1, <1>2, <1>4, RunnerStepShrinks
<1>5. CASE UNCHANGED vars
      BY <1>2, <1>5 DEF vars, Shrinks
<1> QED BY <1>3, <1>4, <1>5 DEF Next

\* Where no request is cut short (an error of DynamoDB, a cancelled context) and no
\* assignment is repeated, no runner is left bound to a session that nobody can name:
\* createSession ends with the cookie sent or with every runner it took deleted.
THEOREM NoOrphans ==
  ASSUME "abort" \notin Faults, "assignLost" \notin Faults
  PROVE  Spec => []NoOrphan
<1>1. Init => OneRunnerInv /\ NoOrphan
      BY OneRunnerInit DEF Init, NoOrphan, NoItem
<1>2. OneRunnerInv /\ NoOrphan /\ [Next]_vars => (OneRunnerInv /\ NoOrphan)'
      BY OneRunnerNext, NoOrphanNext
<1> QED BY <1>1, <1>2, PTL DEF Spec

-----------------------------------------------------------------------------
(* 503 is an honest answer.  A runner that was available ever since the    *)
(* scan began has not been tried, and its bucket is none of those that the *)
(* scan has left behind.                                                   *)

\* The buckets that request q has left behind.
Visited(q) == {(q.start + j) % NumBuckets : j \in 0 .. (q.i - 1)}

\* The scan of q has still to come across r, listed under b.
Ahead(q, r, b) == Scanning(q.pc) /\ r \notin q.tried /\ b \notin Visited(q)

SteadyInv ==
  /\ TypeInv
  /\ \A p \in Proc : \A r \in steady[p] : r \in Available /\ Ahead(req[p], r, idleIndex[r])

\* From any first bucket the scan comes to every bucket before it ends.
LEMMA ScanReaches ==
  ASSUME NEW b \in Bucket, NEW x \in Bucket
  PROVE  \E j \in 0 .. (NumBuckets - 1) : (x + j) % NumBuckets = b
<1>0. NumBuckets \in Nat \ {0}
      BY ConstantsAssumption
<1>1. CASE b >= x
  <2>1. b - x \in 0 .. (NumBuckets - 1) /\ x + (b - x) = b /\ b % NumBuckets = b
        BY <1>0, <1>1 DEF Bucket
  <2> QED BY <2>1
<1>2. CASE b < x
  <2>1. b - x + NumBuckets \in 0 .. (NumBuckets - 1) /\ x + (b - x + NumBuckets) = b + NumBuckets
        BY <1>0, <1>2 DEF Bucket
  <2>2. (b + NumBuckets) % NumBuckets = b
        BY <1>0 DEF Bucket
  <2> QED BY <2>1, <2>2
<1> QED BY <1>1, <1>2 DEF Bucket

LEMMA NothingVisited == ASSUME NEW q, q.i = 0 PROVE Visited(q) = {}
BY DEF Visited

\* A query that finds nothing new has tried every available runner of its bucket.
LEMMA NothingAvailable ==
  ASSUME TypeInv, NEW p \in Proc, QueryFindsNothing(p), NEW r \in Available,
         idleIndex[r] = CurrentBucket(p)
  PROVE  r \in req[p].tried
<1> DEFINE b == CurrentBucket(p)
<1>1. PICK c \in QueryResults(b) : c \subseteq req[p].tried
      BY DEF QueryFindsNothing
<1>2. r \in Listed(b) /\ FitsPage(b)
      BY DEF Available, Listed
<1>3. c = Listed(b)
      BY <1>2 DEF QueryResults, FitsPage
<1> QED BY <1>1, <1>2, <1>3

\* What the scan has still to come across it comes across yet, whatever one step of
\* its request does, unless the runner is taken.
LEMMA ScanGoesOn ==
  ASSUME SteadyInv, NEW p \in Proc, BrokerStep(p),
         Scanning(req'[p].pc), NEW r \in Available',
         Scanning(req[p].pc) => r \in steady[p]
  PROVE  Ahead(req'[p], r, idleIndex[r])
<1>0. /\ TypeInv /\ req[p] \in Request
      /\ Scanning(req[p].pc) => r \in Available /\ Ahead(req[p], r, idleIndex[r])
      BY DEF SteadyInv, TypeInv, TypeOK
<1>1. ASSUME NEW q, Becomes(p, q) PROVE req'[p] = q
      BY <1>0, <1>1 DEF TypeInv, TypeOK, Becomes
<1>2. ~Answer(p)
      BY <1>1 DEF Answer, NoRequest, Scanning
<1>3. ASSUME NEW q, Becomes(p, q), Scanning(req[p].pc), q.start = req[p].start, q.i = req[p].i,
             r \notin q.tried
      PROVE  Ahead(req'[p], r, idleIndex[r])
      BY <1>0, <1>1, <1>3 DEF Ahead, Visited
<1>4. ASSUME NEW sid, NEW re, BeginCreate(p, sid, re) PROVE Ahead(req'[p], r, idleIndex[r])
  <2>1. PICK s \in Session \ issued, b \in Bucket :
          Becomes(p, [NoRequest EXCEPT !.pc = "query", !.sid = sid, !.new = s,
                                      !.start = b, !.reassigned = re])
        BY <1>4 DEF BeginCreate
  <2> DEFINE q == [NoRequest EXCEPT !.pc = "query", !.sid = sid, !.new = s,
                                    !.start = b, !.reassigned = re]
  <2>2. q.i = 0 /\ q.tried = {}
        BY DEF NoRequest
  <2>3. req'[p] = q
        BY <1>1, <2>1
  <2> HIDE DEF q
  <2> QED BY <2>2, <2>3, NothingVisited DEF Ahead
<1>5. CASE ResolveNew(p) \/ DeleteOld(p)
      BY <1>4, <1>5 DEF ResolveNew, DeleteOld
<1>6. ~ResolveCookie(p) /\ ~CloseSession(p)
      BY <1>1 DEF ResolveCookie, CloseSession, NoRequest, Scanning
<1>7. \A next \in {"checkOld", "closeDelete"} : ~FindHit(p, next)
      BY <1>0, <1>1 DEF FindHit, Request, Scanning
<1>8. CASE FindSession(p)
      BY <1>4, <1>7, <1>8 DEF FindSession
<1>9. ~OldHealthy(p) /\ ~NoIdleRunner(p) /\ ~NewHealthy(p) /\ ~CloseDelete(p) /\ ~Abort(p)
      BY <1>2 DEF OldHealthy, NoIdleRunner, NewHealthy, CloseDelete, Abort
<1>10. ~OldUnhealthy(p)
       BY <1>0, <1>1 DEF OldUnhealthy, Request, Scanning
<1>11. ~CloseFind(p)
       BY <1>2, <1>7 DEF CloseFind
<1>12. CASE QueryFinds(p)
  <2>1. PICK c : Becomes(p, [req[p] EXCEPT !.pc = "assign", !.cand = c \ req[p].tried])
        BY <1>12 DEF QueryFinds
  <2> DEFINE q == [req[p] EXCEPT !.pc = "assign", !.cand = c \ req[p].tried]
  <2>2. q.start = req[p].start /\ q.i = req[p].i /\ q.tried = req[p].tried
        BY <1>0 DEF Request
  <2>3. Scanning(req[p].pc)
        BY <1>12 DEF QueryFinds, At, Scanning
  <2> HIDE DEF q
  <2> QED BY <1>0, <1>3, <2>1, <2>2, <2>3 DEF q, Ahead
<1>13. CASE NextBucket(p)
  <2> DEFINE q == [req[p] EXCEPT !.i = @ + 1, !.tried = {}]
  <2>1. Becomes(p, q) /\ QueryFindsNothing(p) /\ Scanning(req[p].pc)
        BY <1>13 DEF NextBucket, QueryFindsNothing, At, Scanning
  <2>2. q.start = req[p].start /\ q.i = req[p].i + 1 /\ q.tried = {}
        BY <1>0 DEF Request
  <2> HIDE DEF q
  <2>3. idleIndex[r] # CurrentBucket(p)
        BY <1>0, <2>1, NothingAvailable DEF Ahead
  <2>4. Visited(q) \subseteq Visited(req[p]) \cup {CurrentBucket(p)}
    <3>1. req[p].i \in Nat
          BY <1>0 DEF Request
    <3>2. ASSUME NEW j \in 0 .. (q.i - 1) PROVE j \in 0 .. (req[p].i - 1) \/ j = req[p].i
          BY <2>2, <3>1
    <3> QED BY <2>2, <3>2 DEF Visited, CurrentBucket
  <2> QED BY <1>0, <1>1, <2>1, <2>2, <2>3, <2>4 DEF Ahead
<1>14. CASE AssignSucceeds(p)
  <2>1. PICK x : Becomes(p, [req[p] EXCEPT !.pc = "check", !.runner = x, !.tried = {}, !.cand = {}])
        BY <1>14 DEF AssignSucceeds
  <2> DEFINE q == [req[p] EXCEPT !.pc = "check", !.runner = x, !.tried = {}, !.cand = {}]
  <2>2. q.start = req[p].start /\ q.i = req[p].i /\ q.tried = {}
        BY <1>0 DEF Request
  <2>3. Scanning(req[p].pc)
        BY <1>14 DEF AssignSucceeds, At, Scanning
  <2> HIDE DEF q
  <2> QED BY <1>3, <2>1, <2>2, <2>3 DEF q
<1>15. CASE AssignFails(p) \/ AssignReplyLost(p)
  <2>1. PICK x \in req[p].cand : TryNext(p, x) /\ ~IsIdle(x)'
    <3>1. CASE AssignFails(p)
          BY <3>1 DEF AssignFails, poolVars, IsIdle
    <3>2. CASE AssignReplyLost(p)
      <4>1. PICK x \in req[p].cand : /\ TryNext(p, x)
                                     /\ table' = [table EXCEPT ![x] = BusyItem(req[p].new)]
            BY <3>2 DEF AssignReplyLost
      <4>2. table'[x].bucket = None
            BY <1>0, <4>1 DEF TypeInv, TypeOK, Request, BusyItem
      <4> QED BY <4>1, <4>2 DEF IsIdle
    <3> QED BY <1>15, <3>1, <3>2
  <2>2. x # r
        BY <2>1 DEF Available
  <2> DEFINE q == [req[p] EXCEPT !.tried = @ \cup {x}, !.cand = @ \ {x},
                                 !.pc = IF req[p].cand = {x} THEN "query" ELSE "assign"]
  <2>3. q.start = req[p].start /\ q.i = req[p].i /\ q.tried = req[p].tried \cup {x}
        BY <1>0 DEF Request
  <2>4. Becomes(p, q) /\ Scanning(req[p].pc)
        BY <1>15, <2>1 DEF TryNext, AssignFails, AssignReplyLost, At, Scanning
  <2> HIDE DEF q
  <2> QED BY <1>0, <1>3, <2>2, <2>3, <2>4 DEF Ahead
<1>16. CASE NewUnhealthy(p)
  <2> DEFINE q == [req[p] EXCEPT !.pc = "delete"]
  <2>1. q.start = req[p].start /\ q.i = req[p].i /\ q.tried = req[p].tried
        BY <1>0 DEF Request
  <2>2. Becomes(p, q) /\ Scanning(req[p].pc)
        BY <1>16 DEF NewUnhealthy, At, Scanning
  <2> HIDE DEF q
  <2> QED BY <1>0, <1>3, <2>1, <2>2 DEF Ahead
<1>17. CASE DeleteUnhealthy(p)
  <2> DEFINE q == [req[p] EXCEPT !.pc = "query", !.runner = None]
  <2>1. q.start = req[p].start /\ q.i = req[p].i /\ q.tried = req[p].tried
        BY <1>0 DEF Request
  <2>2. Becomes(p, q) /\ Scanning(req[p].pc)
        BY <1>17 DEF DeleteUnhealthy, At, Scanning
  <2> HIDE DEF q
  <2> QED BY <1>0, <1>3, <2>1, <2>2 DEF Ahead
<1> QED BY <1>5, <1>6, <1>8, <1>9, <1>10, <1>11, <1>12, <1>13, <1>14, <1>15, <1>16, <1>17
        DEF BrokerStep, Progress

\* The steps of a request leave the other requests and idle-index alone.
LEMMA BrokerStepChanges ==
  ASSUME TypeInv, NEW p \in Proc, BrokerStep(p)
  PROVE  idleIndex' = idleIndex /\ \A x \in Proc \ {p} : req'[x] = req[x]
<1>1. \A q : Becomes(p, q) => \A x \in Proc \ {p} : req'[x] = req[x]
      BY DEF TypeInv, TypeOK, Becomes
<1>2. \E q : Becomes(p, q)
      BY DEF BrokerStep, Progress, ResolveNew, ResolveCookie, CloseSession, BeginCreate, FindSession,
             FindHit, OldHealthy, OldUnhealthy, DeleteOld, QueryFinds, NextBucket, NoIdleRunner,
             AssignSucceeds, AssignFails, AssignReplyLost, TryNext, NewHealthy, NewUnhealthy,
             DeleteUnhealthy, CloseFind, CloseDelete, Abort, Answer
<1>3. idleIndex' = idleIndex
      BY DEF BrokerStep, Progress, ResolveNew, ResolveCookie, CloseSession, FindSession,
             OldHealthy, OldUnhealthy, DeleteOld, QueryFinds, NextBucket, NoIdleRunner,
             AssignSucceeds, AssignFails, AssignReplyLost, NewHealthy, NewUnhealthy,
             DeleteUnhealthy, CloseFind, CloseDelete, Abort, poolVars
<1> QED BY <1>1, <1>2, <1>3

\* idle-index follows the table, so an entry that agrees with it does not change.
LEMMA AgreedEntryStays ==
  ASSUME TypeInv, [Next]_vars, NEW r \in Available
  PROVE  idleIndex'[r] = idleIndex[r]
<1>1. CASE UNCHANGED vars
      BY <1>1 DEF vars
<1>2. CASE \E p \in Proc : BrokerStep(p)
      BY <1>2, BrokerStepChanges
<1>3. ASSUME NEW x \in Runner, PropagateIdle(x) PROVE idleIndex'[r] = idleIndex[r]
      BY <1>3 DEF PropagateIdle, TypeInv, TypeOK, Available
<1>4. ASSUME NEW x \in Runner, RunnerStep(x) \/ PropagateSession(x)
      PROVE  idleIndex'[r] = idleIndex[r]
      BY <1>4 DEF RunnerStep, Boot, RegisterPut, RegisterFind, RegisterRetry, LatePut, Serve,
                  CancelRegister, Deregister, Stop, Crash, PropagateSession, poolVars
<1> QED BY <1>1, <1>2, <1>3, <1>4 DEF Next, IndexStep

LEMMA SteadyInit == ScanInit => SteadyInv
BY TypeInit DEF ScanInit, SteadyInv

LEMMA SteadyNext == SteadyInv /\ [ScanNext]_scanVars => SteadyInv'
<1> SUFFICES ASSUME SteadyInv, [ScanNext]_scanVars PROVE SteadyInv'
    OBVIOUS
<1>1. TypeInv /\ [Next]_vars
      BY DEF SteadyInv, ScanNext, scanVars
<1>2. TypeInv'
      BY <1>1, TypeNext
<1>3. ASSUME NEW p \in Proc, NEW r \in steady'[p]
      PROVE  r \in Available' /\ Ahead(req'[p], r, idleIndex'[r])
  <2>1. CASE UNCHANGED scanVars
        BY <1>3, <2>1 DEF scanVars, vars, SteadyInv, Available, IsIdle, FitsPage, Listed
  <2>2. CASE ScanNext
    <3>1. steady'[p] = CASE ~Scanning(req'[p].pc) -> {}
                         [] Scanning(req'[p].pc) /\ Scanning(req[p].pc) -> steady[p] \cap Available'
                         [] OTHER -> Available'
          BY <2>2 DEF ScanNext
    <3>2. r \in Available' /\ Scanning(req'[p].pc) /\ (Scanning(req[p].pc) => r \in steady[p])
          BY <1>3, <3>1
    <3>3. CASE BrokerStep(p)
      <4>1. idleIndex' = idleIndex
            BY <1>1, <3>3, BrokerStepChanges
      <4> QED BY <3>2, <3>3, <4>1, ScanGoesOn
    <3>4. CASE ~BrokerStep(p)
      <4>1. req'[p] = req[p]
        <5>1. ASSUME NEW x \in Proc, BrokerStep(x) PROVE req'[p] = req[p]
              BY <1>1, <3>4, <5>1, BrokerStepChanges
        <5>2. ASSUME NEW x \in Runner, RunnerStep(x) \/ IndexStep(x) PROVE req' = req
              BY <5>2 DEF RunnerStep, IndexStep, Boot, RegisterPut, RegisterFind, RegisterRetry,
                          LatePut, Serve, CancelRegister, Deregister, Stop, Crash, PropagateIdle,
                          PropagateSession
        <5> QED BY <2>2, <5>1, <5>2 DEF ScanNext, Next
      <4>2. r \in steady[p] /\ r \in Available
            BY <3>2, <4>1 DEF SteadyInv
      <4>3. idleIndex'[r] = idleIndex[r]
            BY <1>1, <4>2, AgreedEntryStays
      <4>4. Ahead(req[p], r, idleIndex[r])
            BY <4>2 DEF SteadyInv
      <4> QED BY <3>2, <4>1, <4>3, <4>4
    <3> QED BY <3>3, <3>4
  <2> QED BY <2>1, <2>2
<1> QED BY <1>2, <1>3 DEF SteadyInv

\* A scan that ends with 503 has come across every bucket, and found no runner there
\* that was idle and listed all along, however many requests and faults interleave and
\* however few entries a query returns.
THEOREM ExhaustionIsHonest == ScanSpec => NoFalseExhaustion
<1>1. ASSUME SteadyInv, NEW p \in Proc, NoIdleRunner(p) PROVE steady[p] = {}
  <2> SUFFICES ASSUME NEW r \in steady[p] PROVE FALSE
      OBVIOUS
  <2>1. r \in Available /\ Ahead(req[p], r, idleIndex[r]) /\ TypeInv
        BY <1>1 DEF SteadyInv
  <2>2. QueryFindsNothing(p) /\ req[p].i = NumBuckets - 1
        BY <1>1, <2>1, ConstantsAssumption DEF NoIdleRunner, TypeInv, TypeOK, Request
  <2>3. idleIndex[r] # CurrentBucket(p)
        BY <2>1, <2>2, NothingAvailable DEF Ahead
  <2>4. idleIndex[r] \in Bucket /\ req[p].start \in Bucket
        BY <2>1 DEF Available, IsIdle, TypeInv, TypeOK, Request
  <2>5. PICK j \in 0 .. (NumBuckets - 1) : (req[p].start + j) % NumBuckets = idleIndex[r]
        BY <2>4, ScanReaches
  <2>6. j \in 0 .. (req[p].i - 1) \/ j = req[p].i
        BY <2>2, ConstantsAssumption
  <2> QED BY <2>1, <2>3, <2>5, <2>6 DEF Ahead, Visited, CurrentBucket
<1>2. ScanSpec => []SteadyInv
      BY SteadyInit, SteadyNext, PTL DEF ScanSpec
<1>3. SteadyInv => [\A p \in Proc : NoIdleRunner(p) => steady[p] = {}]_scanVars
      BY <1>1
<1> QED BY <1>2, <1>3, PTL DEF NoFalseExhaustion
=============================================================================

-------------------------- MODULE BrokerPoolProofs --------------------------
(***************************************************************************)
(* A runner is used once.  These theorems need an item that is gone to     *)
(* stay gone, hence a registration that is answered once: a PutItem that   *)
(* is repeated after its item was bound and deleted makes the runner idle  *)
(* again.  Disposable, which is about processes and not about items, also  *)
(* needs an address for every runner: a process that has been given the    *)
(* address of a dead one passes for it in a health check.                  *)
(***************************************************************************)
EXTENDS BrokerProofs

RegistersOnce == Faults \cap {"registerRetry", "latePut", "putReplyLost"} = {}

HasOwnAddress(r) == \A q \in Runner : UrlOf[q] = UrlOf[r] => q = r
OwnAddresses     == \A r \in Runner : HasOwnAddress(r)

\* The request q has found or acquired runner r for session s.
Names(q, r, s) ==
  /\ q.runner = r
  /\ \/ q.pc \in {"check", "delete"} /\ q.new = s
     \/ q.pc \in {"checkOld", "deleteOld", "closeDelete"} /\ q.sid = s

\* Whatever can still lead session s to runner r, or has led it there, unless
\* another runner may have answered at the address.
Tied(r, s) ==
  \/ table[r].session = s
  \/ sessionIndex[r] = s
  \/ HasOwnAddress(r) /\ <<s, r>> \in routed
  \/ \E p \in Proc : Names(req[p], r, s)

\* Nobody has bound the runner yet.
Untouched(r) == IsIdle(r) \/ life[r] \in {"off", "put"}

PutOnce ==
  /\ late = {}
  /\ \A r \in Runner : life[r] # "find"
  /\ \A r \in Runner : life[r] \in {"off", "put"} => table[r] = NoItem

OneTie ==
  \A r \in Runner : \A s, t \in Session : Tied(r, s) /\ Tied(r, t) => s = t

UntouchedIsFree ==
  \A r \in Runner : \A s \in Session : Untouched(r) => ~Tied(r, s)

PoolInv == TypeInv /\ PutOnce /\ OneTie /\ UntouchedIsFree

LEMMA PoolInvInit == Init => PoolInv
<1> SUFFICES ASSUME Init PROVE PoolInv
    OBVIOUS
<1>1. ASSUME NEW r \in Runner, NEW s \in Session PROVE ~Tied(r, s)
      BY ConstantsAssumption DEF Init, Tied, Names, NoRequest, NoItem
<1>2. PutOnce
      BY DEF Init, PutOnce
<1> QED BY <1>1, <1>2, TypeInit DEF PoolInv, OneTie, UntouchedIsFree

\* A step that ties no runner to a session it was not tied to before.
LEMMA TiesGo ==
  ASSUME PoolInv, TypeInv', PutOnce',
         \A r \in Runner : \A s \in Session : Tied(r, s)' => Tied(r, s),
         \A r \in Runner : Untouched(r)' => Untouched(r)
  PROVE  PoolInv'
<1>1. OneTie'
      BY DEF PoolInv, OneTie
<1>2. UntouchedIsFree'
      BY DEF PoolInv, UntouchedIsFree
<1> QED BY <1>1, <1>2 DEF PoolInv

\* Items change only by being deleted.
OnlyDeletes == \A r \in Runner : table'[r] \in {table[r], NoItem}

LEMMA DeleteOnlyDeletes == ASSUME TypeInv, NEW r, DeleteItem(r) PROVE OnlyDeletes
BY DEF TypeInv, TypeOK, DeleteItem, OnlyDeletes

\* A request goes on, naming no runner that was not tied to its session already.
LEMMA TiesGoOn ==
  ASSUME PoolInv, TypeInv', NEW p \in Proc, NEW q, Becomes(p, q), OnlyDeletes,
         UNCHANGED <<sessionIndex, runnerVars>>,
         \A r \in Runner : \A s \in Session :
            HasOwnAddress(r) /\ <<s, r>> \in routed' => Tied(r, s),
         \A r \in Runner : \A s \in Session : Names(q, r, s) => Tied(r, s)
  PROVE  PoolInv'
<1>1. req' = [x \in Proc |-> IF x = p THEN q ELSE req[x]]
      BY DEF PoolInv, TypeInv, TypeOK, Becomes
<1>2. PutOnce'
      BY DEF PoolInv, PutOnce, OnlyDeletes, runnerVars
<1>3. ASSUME NEW r \in Runner, NEW s \in Session, Tied(r, s)' PROVE Tied(r, s)
  <2>1. table'[r].session = s => table[r].session = s
        BY ConstantsAssumption DEF OnlyDeletes, NoItem
  <2>2. ASSUME NEW x \in Proc, Names(req'[x], r, s) PROVE Tied(r, s)
        BY <1>1, <2>2 DEF Tied
  <2> QED BY <1>3, <2>1, <2>2 DEF Tied
<1>4. ASSUME NEW r \in Runner, Untouched(r)' PROVE Untouched(r)
      BY <1>4 DEF Untouched, IsIdle, OnlyDeletes, NoItem, runnerVars
<1> QED BY <1>2, <1>3, <1>4, TiesGo

\* A request that names nobody, as most do.
LEMMA TiesNameless ==
  ASSUME PoolInv, TypeInv', NEW p \in Proc, NEW q, Becomes(p, q), OnlyDeletes,
         UNCHANGED <<sessionIndex, runnerVars, routed>>,
         q.pc \notin NeedsRunner
  PROVE  PoolInv'
<1>1. \A r \in Runner : \A s \in Session : ~Names(q, r, s)
      BY DEF Names, NeedsRunner
<1> QED BY <1>1, TiesGoOn DEF Tied

\* A request that keeps its runner and its session.
LEMMA TiesSame ==
  ASSUME PoolInv, TypeInv', NEW p \in Proc, NEW q, Becomes(p, q), OnlyDeletes,
         UNCHANGED <<sessionIndex, runnerVars, routed>>,
         \A r \in Runner : \A s \in Session : Names(q, r, s) => Names(req[p], r, s)
  PROVE  PoolInv'
BY TiesGoOn DEF Tied

\* A runner with an address of its own answers for nobody else.
LEMMA OnlyItself ==
  ASSUME NEW r \in Runner, NEW q \in AnsweringAt(r), HasOwnAddress(q)
  PROVE  q = r
BY DEF HasOwnAddress, AnsweringAt

\* An assignment ties an untouched runner, so to one session only, whether the
\* request learns of it or not.
LEMMA PoolInvAssign ==
  ASSUME PoolInv, TypeInv', NEW p \in Proc, NEW q, NEW r \in Runner,
         At(p, "assign"), IsIdle(r),
         table' = [table EXCEPT ![r] = BusyItem(req[p].new)],
         Becomes(p, q),
         \A x \in Runner : \A s \in Session : Names(q, x, s) => x = r /\ s = req[p].new,
         UNCHANGED <<sessionIndex, runnerVars, routed>>
  PROVE  PoolInv'
<1>1. req[p].new \in Session
      BY DEF PoolInv, TypeInv, Carries, Complete, At, NeedsNew
<1>2. req' = [x \in Proc |-> IF x = p THEN q ELSE req[x]]
      BY DEF PoolInv, TypeInv, TypeOK, Becomes
<1>3. \A x \in Runner :
        table'[x] = IF x = r THEN BusyItem(req[p].new) ELSE table[x]
      BY DEF PoolInv, TypeInv, TypeOK
<1>4. UNCHANGED <<sessionIndex, life, late, routed>>
      BY DEF runnerVars
<1>5. life[r] \notin {"off", "put"}
      BY DEF PoolInv, PutOnce, IsIdle, NoItem
<1>6. PutOnce'
      BY <1>3, <1>4, <1>5 DEF PoolInv, PutOnce
<1>7. ASSUME NEW x \in Runner, NEW s \in Session, Tied(x, s)'
      PROVE  Tied(x, s) \/ (x = r /\ s = req[p].new)
  <2>1. table'[x].session = s => table[x].session = s \/ (x = r /\ s = req[p].new)
        BY <1>3 DEF BusyItem
  <2>2. ASSUME NEW y \in Proc, Names(req'[y], x, s)
        PROVE  (\E z \in Proc : Names(req[z], x, s)) \/ (x = r /\ s = req[p].new)
        BY <1>2, <2>2
  <2> QED BY <1>4, <1>7, <2>1, <2>2 DEF Tied
<1>8. \A s \in Session : ~Tied(r, s)
      BY DEF PoolInv, UntouchedIsFree, Untouched
<1>9. ASSUME NEW x \in Runner, Untouched(x)' PROVE Untouched(x) /\ x # r
      BY <1>3, <1>4, <1>5, <1>9 DEF Untouched, IsIdle, BusyItem
<1>10. OneTie'
       BY <1>7, <1>8 DEF PoolInv, OneTie
<1>11. UntouchedIsFree'
       BY <1>7, <1>9 DEF PoolInv, UntouchedIsFree
<1> QED BY <1>6, <1>10, <1>11 DEF PoolInv

LEMMA PoolInvBrokerStep ==
  ASSUME PoolInv, TypeInv', RegistersOnce, NEW p \in Proc, BrokerStep(p)
  PROVE  PoolInv'
<1>0. TypeInv /\ req[p] \in Request /\ Complete(req[p])
      BY DEF PoolInv, TypeInv, TypeOK, Carries
<1>1. ASSUME Answer(p), OnlyDeletes, UNCHANGED <<sessionIndex, runnerVars, routed>>
      PROVE  PoolInv'
      BY <1>1, TiesNameless DEF Answer, NoRequest, NeedsRunner
<1>2. table' = table => OnlyDeletes
      BY DEF OnlyDeletes
<1>3. ASSUME NEW sid, NEW re, BeginCreate(p, sid, re), OnlyDeletes,
             UNCHANGED <<sessionIndex, runnerVars, routed>>
      PROVE  PoolInv'
  <2>1. PICK s \in Session \ issued, b \in Bucket :
          Becomes(p, [NoRequest EXCEPT !.pc = "query", !.sid = sid, !.new = s,
                                      !.start = b, !.reassigned = re])
        BY <1>3 DEF BeginCreate
  <2>2. [NoRequest EXCEPT !.pc = "query", !.sid = sid, !.new = s,
                          !.start = b, !.reassigned = re].pc = "query"
        BY DEF NoRequest
  <2> QED BY <1>3, <2>1, <2>2, TiesNameless DEF NeedsRunner
<1>4. ASSUME NEW s \in Session, NEW r \in Runner, Route(s, r), Tied(r, s), Answer(p),
             UNCHANGED <<poolVars, runnerVars>>
      PROVE  PoolInv'
  <2>1. \A x \in Runner : \A t \in Session :
           HasOwnAddress(x) /\ <<t, x>> \in routed' => Tied(x, t)
        BY <1>4, OnlyItself DEF Route, Tied
  <2>2. \A x \in Runner : \A t \in Session : ~Names(NoRequest, x, t)
        BY DEF Names, NoRequest
  <2> QED BY <1>2, <1>4, <2>1, <2>2, TiesGoOn DEF Answer, poolVars
<1>5. CASE ResolveNew(p)
      BY <1>2, <1>3, <1>5 DEF ResolveNew, poolVars
<1>6. CASE ResolveCookie(p)
  <2>1. PICK s \in cookies : Becomes(p, [NoRequest EXCEPT !.pc = "find", !.sid = s])
        BY <1>6 DEF ResolveCookie
  <2>2. [NoRequest EXCEPT !.pc = "find", !.sid = s].pc = "find"
        BY DEF NoRequest
  <2> QED BY <1>2, <1>6, <2>1, <2>2, TiesNameless DEF ResolveCookie, poolVars, clientVars, NeedsRunner
<1>7. CASE CloseSession(p)
  <2>1. PICK s \in cookies : Becomes(p, [NoRequest EXCEPT !.pc = "closeFind", !.sid = s])
        BY <1>7 DEF CloseSession
  <2>2. [NoRequest EXCEPT !.pc = "closeFind", !.sid = s].pc = "closeFind"
        BY DEF NoRequest
  <2> QED BY <1>2, <1>7, <2>1, <2>2, TiesNameless DEF CloseSession, poolVars, clientVars, NeedsRunner
<1>8. ASSUME NEW next \in {"checkOld", "closeDelete"}, FindHit(p, next),
             UNCHANGED <<poolVars, runnerVars, routed>>
      PROVE  PoolInv'
  <2>1. PICK r \in Runner : /\ sessionIndex[r] = req[p].sid
                            /\ Becomes(p, [req[p] EXCEPT !.pc = next, !.runner = r])
        BY <1>8 DEF FindHit
  <2> DEFINE q == [req[p] EXCEPT !.pc = next, !.runner = r]
  <2>2. q.pc = next /\ q.runner = r /\ q.sid = req[p].sid
        BY <1>0 DEF Request
  <2> HIDE DEF q
  <2>3. \A x \in Runner : \A s \in Session : Names(q, x, s) => Tied(x, s)
        BY <2>1, <2>2 DEF Names, Tied
  <2> QED BY <1>2, <1>8, <2>1, <2>3, TiesGoOn DEF poolVars, q, Tied
<1>9. CASE FindSession(p)
      BY <1>2, <1>3, <1>8, <1>9 DEF FindSession, poolVars
<1>10. CASE OldHealthy(p)
  <2>1. req[p].sid \in Session /\ req[p].runner \in Runner
        BY <1>0, <1>10 DEF OldHealthy, At, Complete, NeedsSid, NeedsRunner
  <2>2. Tied(req[p].runner, req[p].sid)
        BY <1>10 DEF OldHealthy, At, Tied, Names
  <2> QED BY <1>4, <1>10, <2>1, <2>2 DEF OldHealthy
<1>11. CASE OldUnhealthy(p)
  <2> DEFINE q == [req[p] EXCEPT !.pc = "deleteOld"]
  <2>1. q.pc = "deleteOld" /\ q.runner = req[p].runner /\ q.sid = req[p].sid
        BY <1>0 DEF Request
  <2> HIDE DEF q
  <2>2. \A x \in Runner : \A s \in Session : Names(q, x, s) => Names(req[p], x, s)
        BY <1>11, <2>1 DEF Names, OldUnhealthy, At
  <2> QED BY <1>2, <1>11, <2>2, TiesSame DEF OldUnhealthy, poolVars, clientVars, q
<1>12. CASE DeleteOld(p)
       BY <1>0, <1>3, <1>12, DeleteOnlyDeletes DEF DeleteOld
<1>13. CASE QueryFinds(p)
  <2>1. PICK c \in QueryResults(CurrentBucket(p)) :
          Becomes(p, [req[p] EXCEPT !.pc = "assign", !.cand = c \ req[p].tried])
        BY <1>13 DEF QueryFinds
  <2>2. [req[p] EXCEPT !.pc = "assign", !.cand = c \ req[p].tried].pc = "assign"
        BY <1>0 DEF Request
  <2> QED BY <1>2, <1>13, <2>1, <2>2, TiesNameless DEF QueryFinds, poolVars, clientVars, NeedsRunner
<1>14. CASE NextBucket(p)
  <2>1. [req[p] EXCEPT !.i = @ + 1, !.tried = {}].pc = "query"
        BY <1>0, <1>14 DEF NextBucket, QueryFindsNothing, At, Request
  <2> QED BY <1>2, <1>14, <2>1, TiesNameless DEF NextBucket, poolVars, clientVars, NeedsRunner
<1>15. CASE NoIdleRunner(p)
       BY <1>1, <1>2, <1>15 DEF NoIdleRunner, poolVars, clientVars
<1>16. CASE AssignSucceeds(p)
  <2>1. PICK r \in req[p].cand :
          /\ IsIdle(r)
          /\ table' = [table EXCEPT ![r] = BusyItem(req[p].new)]
          /\ Becomes(p, [req[p] EXCEPT !.pc = "check", !.runner = r, !.tried = {}, !.cand = {}])
        BY <1>16 DEF AssignSucceeds
  <2> DEFINE q == [req[p] EXCEPT !.pc = "check", !.runner = r, !.tried = {}, !.cand = {}]
  <2>2. q.new = req[p].new /\ q.runner = r /\ q.pc = "check" /\ r \in Runner
        BY <1>0 DEF Request
  <2> HIDE DEF q
  <2>3. \A x \in Runner : \A s \in Session : Names(q, x, s) => x = r /\ s = req[p].new
        BY <2>2 DEF Names
  <2> QED BY <1>16, <2>1, <2>2, <2>3, PoolInvAssign DEF AssignSucceeds, clientVars, q
<1>17. CASE AssignFails(p)
  <2>1. PICK r \in req[p].cand : TryNext(p, r)
        BY <1>17 DEF AssignFails
  <2> DEFINE q == [req[p] EXCEPT !.tried = @ \cup {r}, !.cand = @ \ {r},
                                 !.pc = IF req[p].cand = {r} THEN "query" ELSE "assign"]
  <2>2. q.pc \notin NeedsRunner
        BY <1>0 DEF Request, NeedsRunner
  <2> HIDE DEF q
  <2> QED BY <1>2, <1>17, <2>1, <2>2, TiesNameless
          DEF AssignFails, TryNext, poolVars, clientVars, q
<1>18. CASE AssignReplyLost(p)
  <2>1. PICK r \in req[p].cand :
          /\ IsIdle(r)
          /\ table' = [table EXCEPT ![r] = BusyItem(req[p].new)]
          /\ TryNext(p, r)
        BY <1>18 DEF AssignReplyLost
  <2> DEFINE q == [req[p] EXCEPT !.tried = @ \cup {r}, !.cand = @ \ {r},
                                 !.pc = IF req[p].cand = {r} THEN "query" ELSE "assign"]
  <2>2. q.pc \notin NeedsRunner /\ r \in Runner
        BY <1>0 DEF Request, NeedsRunner
  <2> HIDE DEF q
  <2>3. \A x \in Runner : \A s \in Session : ~Names(q, x, s)
        BY <2>2 DEF Names, NeedsRunner
  <2> QED BY <1>18, <2>1, <2>2, <2>3, PoolInvAssign DEF AssignReplyLost, TryNext, clientVars, q
<1>19. CASE NewHealthy(p)
  <2>1. req[p].new \in Session /\ req[p].runner \in Runner
        BY <1>0, <1>19 DEF NewHealthy, At, Complete, NeedsNew, NeedsRunner
  <2>2. Tied(req[p].runner, req[p].new)
        BY <1>19 DEF NewHealthy, At, Tied, Names
  <2> QED BY <1>4, <1>19, <2>1, <2>2 DEF NewHealthy
<1>20. CASE NewUnhealthy(p)
  <2> DEFINE q == [req[p] EXCEPT !.pc = "delete"]
  <2>1. q.pc = "delete" /\ q.runner = req[p].runner /\ q.new = req[p].new
        BY <1>0 DEF Request
  <2> HIDE DEF q
  <2>2. \A x \in Runner : \A s \in Session : Names(q, x, s) => Names(req[p], x, s)
        BY <1>20, <2>1 DEF Names, NewUnhealthy, At
  <2> QED BY <1>2, <1>20, <2>2, TiesSame DEF NewUnhealthy, poolVars, clientVars, q
<1>21. CASE DeleteUnhealthy(p)
  <2>1. [req[p] EXCEPT !.pc = "query", !.runner = None].pc = "query"
        BY <1>0 DEF Request
  <2> QED BY <1>0, <1>21, <2>1, DeleteOnlyDeletes, TiesNameless
          DEF DeleteUnhealthy, clientVars, NeedsRunner
<1>22. CASE CloseFind(p)
       BY <1>1, <1>2, <1>8, <1>22 DEF CloseFind, poolVars, clientVars
<1>23. CASE CloseDelete(p)
       BY <1>0, <1>1, <1>23, DeleteOnlyDeletes DEF CloseDelete, clientVars
<1>24. CASE Abort(p)
       BY <1>1, <1>2, <1>24 DEF Abort, poolVars, clientVars
<1> QED BY <1>5, <1>6, <1>7, <1>9, <1>10, <1>11, <1>12, <1>13, <1>14, <1>15, <1>16, <1>17,
           <1>18, <1>19, <1>20, <1>21, <1>22, <1>23, <1>24 DEF BrokerStep, Progress

LEMMA PoolInvRunnerStep ==
  ASSUME PoolInv, TypeInv', RegistersOnce, NEW r \in Runner, RunnerStep(r) \/ IndexStep(r)
  PROVE  PoolInv'
<1>0. /\ TypeInv
      /\ table \in [Runner -> Item] /\ life \in [Runner -> Life]
      /\ sessionIndex \in [Runner -> Session \cup {None}]
      BY DEF PoolInv, TypeInv, TypeOK
<1>1. UNCHANGED <<routed, req>>
      BY DEF RunnerStep, IndexStep, Boot, RegisterPut, RegisterFind, RegisterRetry, LatePut,
             Serve, CancelRegister, Deregister, Stop, Crash, PropagateIdle, PropagateSession,
             clientVars
<1>2. ASSUME Shrinks, UNCHANGED sessionIndex, PutOnce',
             \A x \in Runner : Untouched(x)' => Untouched(x)
      PROVE  PoolInv'
  <2>1. ASSUME NEW x \in Runner, NEW s \in Session, Tied(x, s)' PROVE Tied(x, s)
    <3>1. table'[x].session = s => table[x].session = s
          BY <1>2, ConstantsAssumption DEF Shrinks
    <3> QED BY <1>1, <1>2, <2>1, <3>1 DEF Tied
  <2> QED BY <1>2, <2>1, TiesGo
\* A step of the process alone: no step leads back to where it has not stored its item.
<1>3. ASSUME NEW l \in Life \ {"find"}, Become(r, l), l \in {"off", "put"} => life[r] \in {"off", "put"},
             UNCHANGED <<poolVars, late>>
      PROVE  PoolInv'
  <2>1. \A x \in Runner : life'[x] = IF x = r THEN l ELSE life[x]
        BY <1>0, <1>3 DEF Become
  <2>2. PutOnce'
        BY <1>3, <2>1 DEF PoolInv, PutOnce, poolVars
  <2>3. \A x \in Runner : Untouched(x)' => Untouched(x)
        BY <1>3, <2>1 DEF Untouched, IsIdle, poolVars
  <2> QED BY <1>2, <1>3, <2>2, <2>3 DEF Shrinks, poolVars
<1>4. CASE Boot(r)
      BY <1>3, <1>4 DEF Boot, Life
<1>5. CASE RegisterPut(r)
  <2>1. table[r] = NoItem
        BY <1>5 DEF RegisterPut, PoolInv, PutOnce
  <2>2. PICK b \in Bucket : table' = [table EXCEPT ![r] = IdleItem(b)]
        BY <1>5, <2>1 DEF RegisterPut, PutItem
  <2>3. Become(r, "registered")
        BY <1>5, <2>1 DEF RegisterPut, RegistersOnce
  <2>4. PutOnce'
        BY <1>0, <1>5, <2>2, <2>3 DEF PoolInv, PutOnce, Become, RegisterPut
  <2>5. \A x \in Runner : Untouched(x)' => Untouched(x)
        BY <1>0, <1>5, <2>2, <2>3 DEF Untouched, IsIdle, Become, RegisterPut
  <2>6. Shrinks
        BY <1>0, <1>5, PutShrinks DEF RegisterPut
  <2> QED BY <1>2, <1>5, <2>4, <2>5, <2>6 DEF RegisterPut
<1>6. CASE RegisterFind(r)
      BY <1>6 DEF RegisterFind, PoolInv, PutOnce
<1>7. CASE RegisterRetry(r)
      BY <1>7 DEF RegisterRetry, RegistersOnce
<1>8. CASE LatePut(r)
      BY <1>8 DEF LatePut, PoolInv, PutOnce
<1>9. CASE Serve(r)
      BY <1>3, <1>9 DEF Serve, Life
<1>10. CASE CancelRegister(r)
       BY <1>3, <1>10 DEF CancelRegister, Life
<1>11. CASE Deregister(r)
  <2>1. OnlyDeletes
        BY <1>0, <1>11, DeleteOnlyDeletes DEF Deregister, OnlyDeletes
  <2>2. PutOnce'
        BY <1>0, <1>11, <2>1 DEF PoolInv, PutOnce, Become, Deregister, OnlyDeletes
  <2>3. \A x \in Runner : Untouched(x)' => Untouched(x)
        BY <1>0, <1>11, <2>1 DEF Untouched, IsIdle, Become, Deregister, OnlyDeletes, NoItem
  <2>4. Shrinks
        BY <2>1 DEF Shrinks, OnlyDeletes, NoItem
  <2> QED BY <1>2, <1>11, <2>2, <2>3, <2>4 DEF Deregister
<1>12. CASE Stop(r)
       BY <1>3, <1>12 DEF Stop, Life
<1>13. CASE Crash(r)
       BY <1>3, <1>13 DEF Crash, Life
<1>14. CASE PropagateIdle(r)
       BY <1>2, <1>14 DEF PropagateIdle, runnerVars, Shrinks, PoolInv, PutOnce, Untouched, IsIdle
<1>15. CASE PropagateSession(r)
  <2>1. ASSUME NEW x \in Runner, NEW s \in Session, Tied(x, s)' PROVE Tied(x, s)
    <3>1. sessionIndex'[x] = s => sessionIndex[x] = s \/ table[x].session = s
          BY <1>0, <1>15 DEF PropagateSession
    <3> QED BY <1>1, <1>15, <2>1, <3>1 DEF PropagateSession, Tied
  <2>2. PutOnce' /\ \A x \in Runner : Untouched(x)' => Untouched(x)
        BY <1>15 DEF PropagateSession, runnerVars, PoolInv, PutOnce, Untouched, IsIdle
  <2> QED BY <2>1, <2>2, TiesGo
<1> QED BY <1>4, <1>5, <1>6, <1>7, <1>8, <1>9, <1>10, <1>11, <1>12, <1>13, <1>14, <1>15
        DEF RunnerStep, IndexStep

LEMMA PoolInvNext ==
  ASSUME PoolInv, RegistersOnce, [Next]_vars
  PROVE  PoolInv'
<1>1. TypeInv'
      BY TypeNext DEF PoolInv
<1>2. CASE UNCHANGED vars
  <2>1. PutOnce' /\ \A x \in Runner : Untouched(x)' => Untouched(x)
        BY <1>2 DEF vars, PoolInv, PutOnce, Untouched, IsIdle
  <2>2. \A x \in Runner : \A s \in Session : Tied(x, s)' => Tied(x, s)
        BY <1>2 DEF vars, Tied
  <2> QED BY <1>1, <2>1, <2>2, TiesGo
<1> QED BY <1>1, <1>2, PoolInvBrokerStep, PoolInvRunnerStep DEF Next

LEMMA PoolInvAlways ==
  ASSUME RegistersOnce
  PROVE  Spec => []PoolInv
BY PoolInvInit, PoolInvNext, PTL DEF Spec

\* No runner process answers for two sessions, whatever stale index entries, crashes,
\* slow health checks and aborted requests bring about.
THEOREM RunnersAreDisposable ==
  ASSUME RegistersOnce, OwnAddresses
  PROVE  Spec => []Disposable
<1>1. ASSUME PoolInv PROVE Disposable
  <2>1. ASSUME NEW x \in routed, NEW y \in routed, x[2] = y[2] PROVE x[1] = y[1]
    <3>1. PICK s \in Session, t \in Session, r \in Runner : x = <<s, r>> /\ y = <<t, r>>
          BY <1>1, <2>1 DEF PoolInv, TypeInv, TypeOK
    <3>2. Tied(r, s) /\ Tied(r, t)
          BY <2>1, <3>1 DEF Tied, OwnAddresses
    <3> QED BY <1>1, <3>1, <3>2 DEF PoolInv, OneTie
  <2> QED BY <2>1 DEF Disposable
<1> QED BY <1>1, PoolInvAlways, PTL

\* The unconditional Delete never removes an item that has become idle again or
\* another session's since the request read it, even if a health check was answered
\* by a process that has been given the address of a dead one.
THEOREM DeletesAreSafe ==
  ASSUME RegistersOnce
  PROVE  Spec => []DeleteHitsOwnSession
<1>1. ASSUME PoolInv PROVE DeleteHitsOwnSession
  <2>1. ASSUME NEW p \in Proc, req[p].pc \in {"deleteOld", "delete", "closeDelete"}
        PROVE  table[req[p].runner] \in {NoItem, BusyItem(DeletesFor(p))}
    <3> DEFINE r == req[p].runner
               s == DeletesFor(p)
    <3>1. r \in Runner /\ s \in Session
          BY <1>1, <2>1 DEF PoolInv, TypeInv, Carries, Complete, NeedsRunner, NeedsSid, NeedsNew,
                            DeletesFor, At
    <3>2. Tied(r, s)
          BY <2>1 DEF Tied, Names, DeletesFor, At
    <3> HIDE DEF r, s
    <3>3. ~IsIdle(r)
          BY <1>1, <3>1, <3>2 DEF PoolInv, UntouchedIsFree, Untouched
    <3>4. table[r] \in Item
          BY <1>1, <3>1 DEF PoolInv, TypeInv, TypeOK
    <3>5. ASSUME NEW t \in Session, table[r] = BusyItem(t) PROVE t = s
      <4>1. Tied(r, t)
            BY <3>5 DEF Tied, BusyItem
      <4> QED BY <1>1, <3>1, <3>2, <4>1 DEF PoolInv, OneTie
    <3>6. table[r] = NoItem \/ \E t \in Session : table[r] = BusyItem(t)
          BY <3>3, <3>4, ConstantsAssumption DEF Item, IsIdle, IdleItem
    <3> QED BY <3>5, <3>6 DEF r, s
  <2> QED BY <2>1 DEF DeleteHitsOwnSession
<1> QED BY <1>1, PoolInvAlways, PTL

-----------------------------------------------------------------------------
(* The broker implements SessionPool                                       *)

\* Where a runner is before it has stored its item.
Joining(r) == life[r] \in {"off", "put"}

LEMMA StateOfOne ==
  ASSUME NEW r
  PROVE  /\ IsIdle(r) => StateOf(r) = "idle"
         /\ ~IsIdle(r) /\ table[r].session # None => StateOf(r) = "bound"
         /\ table[r] = NoItem /\ Joining(r) => StateOf(r) = "out"
         /\ table[r] = NoItem /\ ~Joining(r) => StateOf(r) = "spent"
<1>1. table[r] = NoItem => ~IsIdle(r) /\ table[r].session = None
      BY DEF IsIdle, NoItem
<1> QED BY <1>1 DEF StateOf, Joining

LEMMA StateOfOneNext ==
  ASSUME NEW r
  PROVE  /\ IsIdle(r)' => StateOf(r)' = "idle"
         /\ ~IsIdle(r)' /\ table'[r].session # None => StateOf(r)' = "bound"
         /\ table'[r] = NoItem /\ Joining(r)' => StateOf(r)' = "out"
         /\ table'[r] = NoItem /\ ~Joining(r)' => StateOf(r)' = "spent"
<1>1. table'[r] = NoItem => ~IsIdle(r)' /\ table'[r].session = None
      BY DEF IsIdle, NoItem
<1> QED BY <1>1 DEF StateOf, Joining

LEMMA ItemKinds ==
  ASSUME TypeInv, NEW r \in Runner
  PROVE  \/ IsIdle(r) /\ table[r].session = None
         \/ ~IsIdle(r) /\ table[r].session \in Session
         \/ table[r] = NoItem
BY ConstantsAssumption DEF TypeInv, TypeOK, Item, IsIdle, IdleItem, BusyItem, NoItem

\* A runner whose item stays, and that does not leave before it has joined, keeps
\* its place in the pool.
LEMMA SameState ==
  ASSUME TypeInv, NEW r \in Runner, table'[r] = table[r],
         table[r] = NoItem => (Joining(r)' <=> Joining(r))
  PROVE  StateOf(r)' = StateOf(r)
<1>1. IsIdle(r)' <=> IsIdle(r)
      BY DEF IsIdle
<1>2. CASE IsIdle(r)
      BY <1>1, <1>2, StateOfOne, StateOfOneNext
<1>3. CASE ~IsIdle(r) /\ table[r].session \in Session
      BY <1>1, <1>3, StateOfOne, StateOfOneNext, ConstantsAssumption
<1>4. CASE table[r] = NoItem
      BY <1>4, StateOfOne, StateOfOneNext
<1> QED BY <1>2, <1>3, <1>4, ItemKinds

LEMMA PoolStutters ==
  ASSUME TypeInv, UNCHANGED table, \A r \in Runner : Joining(r)' <=> Joining(r)
  PROVE  stateOf' = stateOf /\ ownerOf' = ownerOf
<1>1. ASSUME NEW r \in Runner PROVE StateOf(r)' = StateOf(r)
      BY SameState
<1> QED BY <1>1 DEF stateOf, ownerOf

\* A step of the pool: one runner changes its place, all others stay.
Moves(r, from, to, own) ==
  /\ stateOf[r] = from
  /\ stateOf' = [stateOf EXCEPT ![r] = to]
  /\ ownerOf' = [ownerOf EXCEPT ![r] = own]

LEMMA OneMoves ==
  ASSUME TypeInv, NEW r \in Runner, NEW to, NEW own,
         StateOf(r)' = to, table'[r].session = own,
         \A x \in Runner \ {r} : table'[x] = table[x] /\ (Joining(x)' <=> Joining(x))
  PROVE  Moves(r, StateOf(r), to, own)
<1>1. ASSUME NEW x \in Runner \ {r} PROVE StateOf(x)' = StateOf(x)
      BY SameState
<1> QED BY <1>1 DEF Moves, stateOf, ownerOf

LEMMA PoolDeletes ==
  ASSUME PoolInv, NEW r \in Runner, DeleteItem(r),
         \A x \in Runner : Joining(x)' <=> Joining(x)
  PROVE  [Pool!PoolNext]_<<stateOf, ownerOf>>
<1>0. TypeInv /\ table \in [Runner -> Item]
      BY DEF PoolInv, TypeInv, TypeOK
<1>1. \A x \in Runner : table'[x] = IF x = r THEN NoItem ELSE table[x]
      BY <1>0 DEF DeleteItem
<1>2. CASE table[r] = NoItem
  <2>1. table' = table
        BY <1>0, <1>2 DEF DeleteItem
  <2> QED BY <1>0, <2>1, PoolStutters
<1>3. CASE table[r] # NoItem
  <2>1. ~Joining(r) /\ ~Joining(r)'
        BY <1>3 DEF PoolInv, PutOnce, Joining
  <2>2. StateOf(r)' = "spent"
        BY <1>1, <2>1, StateOfOneNext
  <2>3. Moves(r, StateOf(r), "spent", None)
        BY <1>0, <1>1, <2>2, OneMoves DEF NoItem
  <2>4. CASE IsIdle(r) /\ table[r].session = None
    <3>1. StateOf(r) = "idle"
          BY <2>4, StateOfOne
    <3>2. ownerOf' = ownerOf
          BY <2>3, <2>4 DEF Moves, ownerOf
    <3> QED BY <2>3, <3>1, <3>2 DEF Moves, Pool!PoolNext, Pool!Leave
  <2>5. CASE ~IsIdle(r) /\ table[r].session \in Session
    <3>1. StateOf(r) = "bound"
          BY <2>5, StateOfOne, ConstantsAssumption
    <3> QED BY <2>3, <3>1 DEF Moves, Pool!PoolNext, Pool!Release
  <2> QED BY <1>0, <1>3, <2>4, <2>5, ItemKinds
<1> QED BY <1>2, <1>3

LEMMA PoolBinds ==
  ASSUME PoolInv, OneRunnerInv, NEW p \in Proc, AssignSucceeds(p)
  PROVE  Pool!PoolNext
<1>0. TypeInv /\ table \in [Runner -> Item] /\ req[p] \in Request /\ Complete(req[p])
      BY DEF PoolInv, TypeInv, TypeOK, Carries
<1>1. PICK r \in req[p].cand :
        IsIdle(r) /\ table' = [table EXCEPT ![r] = BusyItem(req[p].new)]
      BY DEF AssignSucceeds
<1> DEFINE s == req[p].new
<1>2. r \in Runner /\ s \in Session /\ s # None
      BY <1>0, ConstantsAssumption DEF AssignSucceeds, At, Complete, NeedsNew, Request
<1>3. \A x \in Runner : table[x].session # s
      BY <1>2 DEF OneRunnerInv, HeldByRequest, Holds, AssignSucceeds, At
<1> HIDE DEF s
<1>4. \A x \in Runner : table'[x] = IF x = r THEN BusyItem(s) ELSE table[x]
      BY <1>0, <1>1 DEF s
<1>5. \A x \in Runner : Joining(x)' <=> Joining(x)
      BY DEF AssignSucceeds, runnerVars, Joining
<1>6. StateOf(r)' = "bound"
      BY <1>2, <1>4, StateOfOneNext DEF IsIdle, BusyItem
<1>7. Moves(r, StateOf(r), "bound", s)
      BY <1>0, <1>2, <1>4, <1>5, <1>6, OneMoves DEF BusyItem
<1>8. StateOf(r) = "idle"
      BY <1>1, StateOfOne
<1>9. \A x \in Runner : ownerOf[x] # s
      BY <1>3 DEF ownerOf
<1> QED BY <1>2, <1>7, <1>8, <1>9 DEF Moves, Pool!PoolNext, Pool!Bind

LEMMA PoolJoins ==
  ASSUME PoolInv, RegistersOnce, NEW r \in Runner, RegisterPut(r)
  PROVE  Pool!PoolNext
<1>0. TypeInv /\ table \in [Runner -> Item] /\ life \in [Runner -> Life]
      BY DEF PoolInv, TypeInv, TypeOK
<1>1. table[r] = NoItem /\ Joining(r)
      BY DEF RegisterPut, PoolInv, PutOnce, Joining
<1>2. PICK b \in Bucket : table' = [table EXCEPT ![r] = IdleItem(b)]
      BY <1>1 DEF RegisterPut, PutItem
<1>3. \A x \in Runner : table'[x] = IF x = r THEN IdleItem(b) ELSE table[x]
      BY <1>0, <1>2
<1>4. \A x \in Runner \ {r} : Joining(x)' <=> Joining(x)
      BY <1>0 DEF RegisterPut, Become, Joining
<1>5. IsIdle(r)'
      BY <1>3, ConstantsAssumption DEF IsIdle, IdleItem
<1>6. StateOf(r)' = "idle"
      BY <1>5, StateOfOneNext
<1>7. Moves(r, StateOf(r), "idle", None)
      BY <1>0, <1>3, <1>4, <1>6, OneMoves DEF IdleItem
<1>8. StateOf(r) = "out"
      BY <1>1, StateOfOne
<1>9. ownerOf' = ownerOf
  <2>1. \A x \in Runner : table'[x].session = table[x].session
        BY <1>1, <1>3 DEF IdleItem, NoItem
  <2> QED BY <2>1 DEF ownerOf
<1> QED BY <1>7, <1>8, <1>9 DEF Moves, Pool!PoolNext, Pool!Join

\* The process ends or goes on; if it had not stored its item it never will.
LEMMA PoolLeaves ==
  ASSUME PoolInv, NEW r \in Runner, NEW l, Become(r, l), UNCHANGED table,
         l \in {"off", "put"} => Joining(r)
  PROVE  [Pool!PoolNext]_<<stateOf, ownerOf>>
<1>0. TypeInv /\ life \in [Runner -> Life]
      BY DEF PoolInv, TypeInv, TypeOK
<1>1. \A x \in Runner : life'[x] = IF x = r THEN l ELSE life[x]
      BY <1>0 DEF Become
<1>2. CASE Joining(r)' <=> Joining(r)
  <2>1. \A x \in Runner : Joining(x)' <=> Joining(x)
        BY <1>1, <1>2 DEF Joining
  <2> QED BY <1>0, <2>1, PoolStutters
<1>3. CASE Joining(r) /\ ~Joining(r)'
  <2>1. table[r] = NoItem /\ table'[r] = NoItem
        BY <1>3 DEF PoolInv, PutOnce, Joining
  <2>2. StateOf(r) = "out" /\ StateOf(r)' = "spent"
        BY <1>3, <2>1, StateOfOne, StateOfOneNext
  <2>3. Moves(r, StateOf(r), "spent", None)
        BY <1>0, <1>1, <2>1, <2>2, OneMoves DEF NoItem, Joining
  <2>4. ownerOf' = ownerOf
        BY DEF ownerOf
  <2> QED BY <2>2, <2>3, <2>4 DEF Moves, Pool!PoolNext, Pool!Leave
<1> QED BY <1>1, <1>2, <1>3 DEF Joining

LEMMA PoolBrokerStep ==
  ASSUME PoolInv, OneRunnerInv, "assignLost" \notin Faults, NEW p \in Proc, BrokerStep(p)
  PROVE  [Pool!PoolNext]_<<stateOf, ownerOf>>
<1>0. TypeInv /\ Complete(req[p])
      BY DEF PoolInv, TypeInv, Carries
<1>1. UNCHANGED runnerVars
      BY DEF BrokerStep, Progress, ResolveNew, ResolveCookie, CloseSession, FindSession, OldHealthy,
             OldUnhealthy, DeleteOld, QueryFinds, NextBucket, NoIdleRunner, AssignSucceeds,
             AssignFails, AssignReplyLost, NewHealthy, NewUnhealthy, DeleteUnhealthy, CloseFind,
             CloseDelete, Abort
<1>2. \A x \in Runner : Joining(x)' <=> Joining(x)
      BY <1>1 DEF runnerVars, Joining
<1>3. CASE UNCHANGED table
      BY <1>0, <1>2, <1>3, PoolStutters
<1>4. CASE AssignSucceeds(p)
      BY <1>4, PoolBinds
<1>5. CASE AssignReplyLost(p)
      BY <1>5 DEF AssignReplyLost
<1>6. CASE DeleteOld(p) \/ DeleteUnhealthy(p) \/ CloseDelete(p)
  <2>1. req[p].runner \in Runner /\ DeleteItem(req[p].runner)
        BY <1>0, <1>6 DEF DeleteOld, DeleteUnhealthy, CloseDelete, At, Complete, NeedsRunner
  <2> QED BY <1>2, <2>1, PoolDeletes
<1> QED BY <1>3, <1>4, <1>5, <1>6
        DEF BrokerStep, Progress, ResolveNew, ResolveCookie, CloseSession, FindSession, OldHealthy,
            OldUnhealthy, QueryFinds, NextBucket, NoIdleRunner, AssignFails, NewHealthy,
            NewUnhealthy, CloseFind, Abort, poolVars

LEMMA PoolRunnerStep ==
  ASSUME PoolInv, RegistersOnce, NEW r \in Runner, RunnerStep(r) \/ IndexStep(r)
  PROVE  [Pool!PoolNext]_<<stateOf, ownerOf>>
<1>0. TypeInv /\ life \in [Runner -> Life]
      BY DEF PoolInv, TypeInv, TypeOK
<1>1. CASE Boot(r)
      BY <1>1, PoolLeaves DEF Boot, poolVars, Joining
<1>2. CASE RegisterPut(r)
      BY <1>2, PoolJoins
<1>3. CASE RegisterFind(r) \/ RegisterRetry(r) \/ LatePut(r)
      BY <1>3 DEF RegisterFind, RegisterRetry, LatePut, PoolInv, PutOnce, RegistersOnce
<1>4. CASE Serve(r) \/ CancelRegister(r) \/ Stop(r) \/ Crash(r)
  <2>1. UNCHANGED table /\ \E l \in {"up", "gone"} : Become(r, l)
        BY <1>4 DEF Serve, CancelRegister, Stop, Crash, poolVars
  <2> QED BY <2>1, PoolLeaves
<1>5. CASE Deregister(r)
  <2>1. CASE UNCHANGED table
        BY <1>5, <2>1, PoolLeaves DEF Deregister
  <2>2. CASE DeleteItem(r)
    <3>1. \A x \in Runner : Joining(x)' <=> Joining(x)
          BY <1>0, <1>5 DEF Deregister, Become, Joining
    <3> QED BY <2>2, <3>1, PoolDeletes
  <2> QED BY <1>5, <2>1, <2>2 DEF Deregister
<1>6. CASE IndexStep(r)
  <2>1. UNCHANGED <<table, life>>
        BY <1>6 DEF IndexStep, PropagateIdle, PropagateSession, runnerVars
  <2> QED BY <1>0, <2>1, PoolStutters DEF Joining
<1> QED BY <1>1, <1>2, <1>3, <1>4, <1>5, <1>6 DEF RunnerStep

LEMMA PoolInitially == Init => Pool!PoolInit
<1> SUFFICES ASSUME Init PROVE Pool!PoolInit
    OBVIOUS
<1>1. \A r \in Runner : StateOf(r) = "out" /\ table[r].session = None
      BY StateOfOne DEF Init, Joining, NoItem
<1> QED BY <1>1 DEF Pool!PoolInit, stateOf, ownerOf

\* Table, indexes and concurrent requests implement the pool of SessionPool: every
\* step of the broker is a step of the pool or invisible to it.
THEOREM BrokerImplementsPool ==
  ASSUME RegistersOnce, "assignLost" \notin Faults
  PROVE  Spec => ImplementsPool
<1>1. ASSUME PoolInv, OneRunnerInv, [Next]_vars
      PROVE  [Pool!PoolNext]_<<stateOf, ownerOf>>
  <2>1. CASE UNCHANGED vars
    <3>1. TypeInv /\ UNCHANGED <<table, life>>
          BY <1>1, <2>1 DEF vars, PoolInv
    <3> QED BY <3>1, PoolStutters DEF Joining
  <2> QED BY <1>1, <2>1, PoolBrokerStep, PoolRunnerStep DEF Next
<1>2. Spec => []OneRunnerInv
      BY OneRunnerInit, OneRunnerNext, PTL DEF Spec
<1> QED BY <1>1, <1>2, PoolInitially, PoolInvAlways, PTL
        DEF Spec, ImplementsPool, Pool!PoolSpec, Pool!poolState
=============================================================================

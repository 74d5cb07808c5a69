----------------------------- MODULE ChainProofs -----------------------------
(***************************************************************************)
(* Theorems about Chain for every value of its constants: any number of    *)
(* runners, requests under way, mounts and lost answers, and every fault.  *)
(***************************************************************************)
EXTENDS Chain, TLAPS

-----------------------------------------------------------------------------
(* The inductive invariant, in the order in which a request runs.          *)

\* The runners of the pool: a session has one at a time, and a session not yet
\* handed out has none; only a runner that has been bound has bash sessions.
PoolPart ==
  /\ \A r \in Runner : state[r] = "bound" <=> owner[r] # None
  /\ \A r, o \in Runner : owner[r] = owner[o] /\ owner[r] # None => r = o
  /\ \A r \in Runner : owner[r] # None => owner[r] <= issued
  /\ \A n \in Mounts : home[n] # None => state[home[n]] \in {"bound", "spent"}

IdsPart ==
  /\ cookies.session # None => cookies.session <= issued
  /\ \A q \in Slot : req[q].session # None => req[q].session <= issued
  /\ \A q \in Slot : req[q].sent.session # None => req[q].sent.session <= issued

\* The request has made up its session itself and nobody has been told of it.
Invented(q) ==
  /\ req[q].session # None
  /\ req[q].pc \in {"create", "checkNew"} \/ (At(q, "proxy") /\ req[q].created)

InventedPart ==
  \A q \in Slot : Invented(q) =>
    /\ cookies.session # req[q].session
    /\ \A o \in Slot : req[o].sent.session # req[q].session
    /\ \A o \in Slot \ {q} : req[o].session # req[q].session

\* The request has a runner, bound to its session or given up since.
Has(q) == req[q].pc \in {"check", "checkNew", "proxy"} \/ (At(q, "answer") /\ req[q].ok)

RunnerPart ==
  \A q \in Slot :
    /\ req[q].runner # None => state[req[q].runner] \in {"bound", "spent"}
    /\ Has(q) =>
         /\ req[q].session # None /\ req[q].runner # None
         /\ \A r \in Runner : owner[r] = req[q].session => r = req[q].runner
         /\ owner[req[q].runner] \in {None, req[q].session}

\* No other request is on its way to the runner of a session made up, which has no bash
\* session yet.
FreshPart ==
  \A q \in Slot : Invented(q) /\ ~At(q, "create") =>
    /\ \A n \in Mounts : home[n] # req[q].runner
    /\ \A o \in Slot \ {q} : req[o].runner # req[q].runner

\* A request acts for the session of its cookie until that has lost its runner; of the
\* answers with a new session only that to a create can be a success.
FlowPart ==
  \A q \in Slot :
    /\ req[q].created => req[q].pc \in {"proxy", "answer"}
    /\ req[q].ok => At(q, "answer")
    /\ req[q].pc \in {"find", "check"} => req[q].session = req[q].sent.session
    /\ At(q, "find") => req[q].session # None
    /\ (At(q, "proxy") \/ req[q].ok) /\ ~req[q].created
         => req[q].session = req[q].sent.session
    /\ req[q].pc \in {"create", "checkNew"} \/ req[q].created
         => \A r \in Runner : owner[r] = req[q].sent.session => req[q].sent.session = None
    /\ req[q].ok /\ req[q].created => req[q].kind = "create"

\* The create of the current mount.
Creates(q) == ~At(q, "idle") /\ req[q].kind = "create"

MountPart ==
  /\ view # "none" => mount \in Mounts
  /\ \A q \in Slot : ~At(q, "idle") => req[q].mount \in 1..mount
  /\ \A q, o \in Slot : Creates(q) /\ Creates(o) /\ req[q].mount = req[o].mount => q = o
  /\ \A q \in Slot : Creates(q) /\ Kept(q) =>
       /\ view # "ready"
       /\ req[q].sent.session = cookies.session
       /\ req[q].ok /\ alive[req[q].runner] => home[mount] = req[q].runner
  /\ \A q \in Slot : ~At(q, "idle") /\ req[q].kind = "delete" =>
       req[q].sent.bash \in 1..mount /\ (view # "none" => req[q].sent.bash # mount)

ReadyPart == ReadyHasShell /\ (view = "ready" => cookies.session # None)

Parts == /\ PoolPart /\ IdsPart /\ InventedPart /\ RunnerPart /\ FreshPart
         /\ FlowPart /\ MountPart /\ ReadyPart

IInv == TypeOK /\ Parts

-----------------------------------------------------------------------------
(* Types.                                                                  *)

LEMMA BecomesThat ==
  ASSUME TypeOK, NEW q \in Slot, NEW j, Becomes(q, j)
  PROVE  req'[q] = j /\ \A o \in Slot \ {q} : req'[o] = req[o]
BY DEF TypeOK, Becomes

LEMMA RequestsStay ==
  ASSUME TypeOK, NEW q \in Slot, NEW j \in Request, Becomes(q, j)
  PROVE  req' \in [Slot -> Request]
BY DEF TypeOK, Becomes

LEMMA NoRequestType == NoRequest \in Request
BY ConstantsAssumption DEF NoRequest, Request, NoCookies, Cookies, PC

LEMMA ToldType ==
  ASSUME TypeOK, NEW q \in Slot, ~At(q, "idle") => req[q].mount \in Mounts, At(q, "answer")
  PROVE  Told(q) \in Cookies
BY DEF Told, TypeOK, Cookies, Request, At, Mounts

LEMMA FetchType ==
  ASSUME TypeOK, NEW k \in {"create", "delete", "execute"}
  PROVE  Fetch(k) \in Request /\ \A n \in 0..MaxMounts : [Fetch(k) EXCEPT !.mount = n] \in Request
<1>1. PICK c \in {"create", "find"} :
        Fetch(k) = [NoRequest EXCEPT !.pc = c, !.kind = k, !.mount = mount, !.sent = cookies,
                                     !.session = cookies.session]
      BY DEF Fetch
<1>2. cookies \in Cookies /\ cookies.session \in Session \cup {None} /\ mount \in 0..MaxMounts
      BY DEF TypeOK, Cookies
<1> QED BY <1>1, <1>2, NoRequestType DEF Request, PC

LEMMA UpdatedType ==
  ASSUME TypeOK, NEW q \in Slot
  PROVE  /\ req[q] \in Request
         /\ \A p \in PC : [req[q] EXCEPT !.pc = p] \in Request
         /\ \A p \in PC, b \in BOOLEAN : [req[q] EXCEPT !.pc = p, !.ok = b] \in Request
         /\ \A p \in PC, b \in BOOLEAN : [req[q] EXCEPT !.pc = p, !.created = b] \in Request
         /\ \A p \in PC, s \in Session \cup {None} :
              [req[q] EXCEPT !.pc = p, !.session = s] \in Request
         /\ \A p \in PC, r \in Runner \cup {None} :
              [req[q] EXCEPT !.pc = p, !.runner = r] \in Request
         /\ \A p \in PC, s \in Session \cup {None}, r \in Runner \cup {None} :
              [req[q] EXCEPT !.pc = p, !.session = s, !.runner = r] \in Request
         /\ \A p \in PC, s \in Session \cup {None}, r \in Runner \cup {None}, b \in BOOLEAN :
              [req[q] EXCEPT !.pc = p, !.session = s, !.runner = r, !.reassigned = b]
                \in Request
<1>1. req[q] \in Request
      BY DEF TypeOK
<1>2. \A p \in PC : [req[q] EXCEPT !.pc = p] \in Request
      BY <1>1 DEF Request
<1>3. \A p \in PC, b \in BOOLEAN : [req[q] EXCEPT !.pc = p, !.ok = b] \in Request
      BY <1>1 DEF Request
<1>4. \A p \in PC, b \in BOOLEAN : [req[q] EXCEPT !.pc = p, !.created = b] \in Request
      BY <1>1 DEF Request
<1>5. \A p \in PC, s \in Session \cup {None} :
        [req[q] EXCEPT !.pc = p, !.session = s] \in Request
      BY <1>1 DEF Request
<1>6. \A p \in PC, r \in Runner \cup {None} : [req[q] EXCEPT !.pc = p, !.runner = r] \in Request
      BY <1>1 DEF Request
<1>7. \A p \in PC, s \in Session \cup {None}, r \in Runner \cup {None} :
        [req[q] EXCEPT !.pc = p, !.session = s, !.runner = r] \in Request
      BY <1>1 DEF Request
<1>8. \A p \in PC, s \in Session \cup {None}, r \in Runner \cup {None}, b \in BOOLEAN :
        [req[q] EXCEPT !.pc = p, !.session = s, !.runner = r, !.reassigned = b] \in Request
      BY <1>1 DEF Request
<1> QED BY <1>1, <1>2, <1>3, <1>4, <1>5, <1>6, <1>7, <1>8

LEMMA PoolTypes ==
  ASSUME TypeOK, NEW r \in Runner,
         Join(r) \/ Release(r) \/ Leave(r) \/ UNCHANGED poolState
         \/ \E s \in Session : Bind(r, s)
  PROVE  /\ state' \in [Runner -> {"out", "idle", "bound", "spent"}]
         /\ owner' \in [Runner -> Session \cup {None}]
BY DEF TypeOK, Join, Release, Leave, Bind, poolState

\* The sessions are not used up: the ids the broker makes up are sessions.
EndlessSessions == Session = Nat \ {0}

LEMMA TypeStep ==
  ASSUME EndlessSessions, IInv, [Next]_vars
  PROVE  TypeOK'
<1> USE DEF PC
<1>0. TypeOK /\ RunnerPart /\ MountPart
      BY DEF IInv, Parts
<1>1. ASSUME NEW q \in Slot, Mount(q) PROVE TypeOK'
      BY <1>0, <1>1, FetchType, RequestsStay, ConstantsAssumption
      DEF Mount, TypeOK, poolState, runnerVars
<1>2. ASSUME NEW q \in Slot, Retry(q) PROVE TypeOK'
      BY <1>0, <1>2, FetchType, RequestsStay DEF Retry, TypeOK, poolState, runnerVars, pageVars
<1>3. ASSUME NEW q \in Slot, Execute(q) PROVE TypeOK'
      BY <1>0, <1>3, FetchType, RequestsStay DEF Execute, TypeOK, poolState, runnerVars, pageVars
<1>4. ASSUME StoreOnAbort PROVE cookies' \in Cookies
      BY <1>0, <1>4, ToldType DEF StoreOnAbort, TypeOK, MountPart, At, Kept, Mounts
<1>5. ASSUME NEW q \in Slot, Unmount(q) PROVE TypeOK'
  <2>1. req' \in [Slot -> Request]
        BY <1>0, <1>5, FetchType, RequestsStay DEF Unmount, TypeOK
  <2> QED BY <1>0, <2>1, <1>4, <1>5 DEF Unmount, TypeOK, poolState, runnerVars
<1>6. CASE Reload
      BY <1>0, <1>4, <1>6 DEF Reload, TypeOK, poolState, runnerVars
<1>7. ASSUME NEW q \in Slot, Find(q) PROVE TypeOK'
  <2>1. req' \in [Slot -> Request]
        BY <1>0, <1>7, UpdatedType, RequestsStay DEF Find
  <2> QED BY <1>0, <2>1, <1>7 DEF Find, TypeOK, poolState, runnerVars, pageVars
<1>8. ASSUME NEW q \in Slot, Check(q) PROVE TypeOK'
  <2>1. req' \in [Slot -> Request]
        BY <1>0, <1>8, UpdatedType, RequestsStay DEF Check
  <2>2. req[q].runner \in Runner
        BY <1>0, <1>8 DEF Check, TypeOK, Request, At, RunnerPart, Has
  <2> QED BY <1>0, <2>1, <2>2, <1>8, PoolTypes
          DEF Check, DeleteRunner, TypeOK, poolState, runnerVars, pageVars
<1>9. ASSUME NEW q \in Slot, Acquire(q) PROVE TypeOK'
  <2> DEFINE s == IF req[q].session = None THEN issued + 1 ELSE req[q].session
  <2>1. s \in Session
        BY <1>0, ConstantsAssumption DEF EndlessSessions, TypeOK, Request
  <2>2. s \in Nat
        BY <2>1 DEF EndlessSessions
  <2>3. req' \in [Slot -> Request] /\ UNCHANGED <<runnerVars, cookies, pageVars, late>>
        BY <1>0, <1>9, <2>1, UpdatedType, RequestsStay DEF Acquire
  <2>4. (\E r \in Runner : Bind(r, s)) \/ UNCHANGED poolState
        BY <1>9 DEF Acquire
  <2>5. issued' \in {issued, s}
        BY <1>9 DEF Acquire
  <2> HIDE DEF s
  <2>6. /\ state' \in [Runner -> {"out", "idle", "bound", "spent"}]
        /\ owner' \in [Runner -> Session \cup {None}]
        BY <1>0, <2>1, <2>4 DEF TypeOK, Bind, poolState
  <2> QED BY <1>0, <2>2, <2>3, <2>5, <2>6 DEF TypeOK, runnerVars, pageVars
<1>10. ASSUME NEW q \in Slot, CheckNew(q) PROVE TypeOK'
  <2>1. req' \in [Slot -> Request]
        BY <1>0, <1>10, UpdatedType, RequestsStay DEF CheckNew
  <2>2. req[q].runner \in Runner
        BY <1>0, <1>10 DEF CheckNew, TypeOK, Request, At, RunnerPart, Has
  <2> QED BY <1>0, <2>1, <2>2, <1>10, PoolTypes
          DEF CheckNew, DeleteRunner, TypeOK, poolState, runnerVars, pageVars
<1>11. ASSUME NEW q \in Slot, GiveUp(q) PROVE TypeOK'
  <2>1. req' \in [Slot -> Request]
        BY <1>0, <1>11, UpdatedType, RequestsStay DEF GiveUp
  <2> QED BY <1>0, <2>1, <1>11, ConstantsAssumption
          DEF GiveUp, TypeOK, poolState, runnerVars, pageVars
<1>12. ASSUME NEW q \in Slot, Cancel(q) PROVE TypeOK'
  <2>1. req' \in [Slot -> Request]
        BY <1>0, <1>12, NoRequestType, RequestsStay DEF Cancel
  <2> QED BY <1>0, <2>1, <1>12 DEF Cancel, TypeOK, poolState, runnerVars, pageVars
<1>13. ASSUME NEW q \in Slot, Handle(q) PROVE TypeOK'
  <2>1. (req[q].sent.bash # None /\ home[req[q].sent.bash] = req[q].runner) \in BOOLEAN
        OBVIOUS
  <2>2. req' \in [Slot -> Request]
        BY <1>0, <1>13, <2>1, UpdatedType, RequestsStay DEF Handle
  <2>3. req[q].runner \in Runner
        BY <1>0, <1>13 DEF Handle, TypeOK, Request, At, RunnerPart, Has
  <2>4. \/ home' = home
        \/ home' = [home EXCEPT ![req[q].mount] = req[q].runner]
        \/ home' = [home EXCEPT ![req[q].sent.bash] = None]
        BY <1>13 DEF Handle
  <2>5. home' \in [Mounts -> Runner \cup {None}]
        BY <1>0, <2>3, <2>4 DEF TypeOK
  <2> QED BY <1>0, <2>2, <2>5, <1>13 DEF Handle, TypeOK, poolState, pageVars
<1>14. ASSUME NEW q \in Slot, Answer(q) PROVE TypeOK'
  <2>1. req' \in [Slot -> Request]
        BY <1>0, <1>14, NoRequestType, RequestsStay DEF Answer
  <2>2. ~At(q, "idle") => req[q].mount \in Mounts
        BY <1>0, ConstantsAssumption DEF MountPart, TypeOK, Mounts
  <2>3. cookies' \in Cookies
        BY <1>0, <1>14, <2>2, ToldType DEF Answer, TypeOK
  <2> QED BY <1>0, <2>1, <2>3, <1>14 DEF Answer, TypeOK, poolState, runnerVars
<1>15. ASSUME NEW r \in Runner, World(r) PROVE TypeOK'
  <2>1. CASE NewRunner(r)
        BY <1>0, <2>1, PoolTypes DEF NewRunner, TypeOK, runnerVars, pageVars
  <2>2. CASE TakenAway(r)
        BY <1>0, <2>2, PoolTypes DEF TakenAway, TypeOK, runnerVars, pageVars
  <2>3. CASE Crash(r)
        BY <1>0, <2>3 DEF Crash, TypeOK, poolState, pageVars
  <2> QED BY <1>15, <2>1, <2>2, <2>3 DEF World
<1>16. CASE UNCHANGED vars
       BY <1>0, <1>16 DEF vars, TypeOK, poolState, runnerVars, pageVars
<1> QED BY <1>1, <1>2, <1>3, <1>5, <1>6, <1>7, <1>8, <1>9, <1>10, <1>11, <1>12, <1>13,
           <1>14, <1>15, <1>16 DEF Next, Page, Resolve

-----------------------------------------------------------------------------
(* The parts, action by action.                                            *)

\* What an action leaves alone of its request.
Keeps(q) ==
  /\ req'[q].sent = req[q].sent /\ req'[q].kind = req[q].kind
  /\ req'[q].mount = req[q].mount
  /\ \A o \in Slot \ {q} : req'[o] = req[o]

LEMMA FindStep == ASSUME IInv, NEW q \in Slot, Find(q) PROVE Parts'
<1>0. /\ TypeOK /\ PoolPart /\ IdsPart /\ InventedPart /\ RunnerPart /\ FreshPart
      /\ FlowPart /\ MountPart /\ ReadyPart
      BY DEF IInv, Parts
<1>1. At(q, "find") /\ UNCHANGED <<state, owner, alive, home, issued, cookies, view, mount>>
      BY DEF Find, poolState, runnerVars, pageVars
<1>2. /\ Keeps(q) /\ req'[q].created = req[q].created /\ req'[q].ok = req[q].ok
      /\ \/ /\ req'[q].pc = "check" /\ req'[q].session = req[q].session
            /\ req'[q].runner \in Runner /\ owner[req'[q].runner] = req[q].session
         \/ /\ req'[q].pc = "create" /\ req'[q].session = None
            /\ req'[q].runner = req[q].runner
            /\ \A r \in Runner : owner[r] # req[q].session
  <2>1. req[q] \in Request
        BY <1>0 DEF TypeOK
  <2>2. CASE \E r \in Runner : owner[r] = req[q].session
                 /\ Becomes(q, [req[q] EXCEPT !.pc = "check", !.runner = r])
    <3>1. PICK r \in Runner : owner[r] = req[q].session
                 /\ Becomes(q, [req[q] EXCEPT !.pc = "check", !.runner = r])
          BY <2>2
    <3>2. req'[q] = [req[q] EXCEPT !.pc = "check", !.runner = r]
          BY <1>0, <3>1, BecomesThat
    <3> QED BY <1>0, <2>1, <3>1, <3>2, BecomesThat DEF Keeps, Request
  <2>3. CASE /\ \A r \in Runner : owner[r] # req[q].session
             /\ Becomes(q, [req[q] EXCEPT !.pc = "create", !.session = None])
    <3>1. req'[q] = [req[q] EXCEPT !.pc = "create", !.session = None]
          BY <1>0, <2>3, BecomesThat
    <3> QED BY <1>0, <2>1, <2>3, <3>1, BecomesThat DEF Keeps, Request
  <2> QED BY <2>2, <2>3 DEF Find
<1>5. PoolPart'
      BY <1>0, <1>1 DEF PoolPart
<1>6. IdsPart'
      BY <1>0, <1>1, <1>2 DEF IdsPart, Keeps
<1>7. InventedPart'
      BY <1>0, <1>1, <1>2 DEF InventedPart, Invented, At, Keeps
<1>8. RunnerPart'
      BY <1>0, <1>1, <1>2, ConstantsAssumption
      DEF RunnerPart, Has, At, PoolPart, FlowPart, Keeps
<1>9. FreshPart'
  <2>1. \A o \in Slot : (Invented(o) /\ ~At(o, "create"))' => o # q /\ Invented(o) /\ ~At(o, "create")
        BY <1>0, <1>1, <1>2 DEF Invented, At, Keeps, FlowPart
  <2>2. \A o \in Slot \ {q} : Invented(o) /\ ~At(o, "create")
          => /\ req[o].session # req[q].session
             /\ owner[req[o].runner] \in {None, req[o].session}
        BY <1>0 DEF InventedPart, RunnerPart, Has, Invented, At
  <2>3. req[q].session # None
        BY <1>0, <1>1 DEF FlowPart
  <2>4. \A o \in Slot \ {q} : Invented(o) /\ ~At(o, "create") => req'[q].runner # req[o].runner
        BY <1>0, <1>2, <2>2, <2>3 DEF FreshPart
  <2> QED BY <1>0, <1>1, <1>2, <2>1, <2>4 DEF FreshPart, Keeps
<1>10. FlowPart'
      BY <1>0, <1>1, <1>2 DEF FlowPart, At, Keeps
<1>11. MountPart'
      BY <1>0, <1>1, <1>2 DEF MountPart, Creates, Kept, At, FlowPart, Keeps
<1>12. ReadyPart'
      BY <1>0, <1>1 DEF ReadyPart, ReadyHasShell
<1> QED BY <1>5, <1>6, <1>7, <1>8, <1>9, <1>10, <1>11, <1>12 DEF Parts

\* A request is sent with the cookies of now.
Sends(q, kind, n) ==
  /\ At(q, "idle")
  /\ req'[q].pc = IF cookies.session = None THEN "create" ELSE "find"
  /\ req'[q].kind = kind /\ req'[q].mount = n
  /\ req'[q].sent = cookies /\ req'[q].session = cookies.session
  /\ req'[q].runner = None /\ req'[q].created = FALSE /\ req'[q].ok = FALSE
  /\ \A o \in Slot \ {q} : req'[o] = req[o]

LEMMA FetchSends ==
  ASSUME TypeOK, NEW q \in Slot, At(q, "idle"),
         NEW k \in {"create", "delete", "execute"}
  PROVE  /\ Becomes(q, Fetch(k)) => Sends(q, k, mount)
         /\ \A n \in 0..MaxMounts :
              Becomes(q, [Fetch(k) EXCEPT !.mount = n]) => Sends(q, k, n)
<1>1. PICK c : /\ c = IF cookies.session = None THEN "create" ELSE "find"
               /\ Fetch(k) = [NoRequest EXCEPT !.pc = c, !.kind = k, !.mount = mount,
                                               !.sent = cookies, !.session = cookies.session]
      BY DEF Fetch
<1>2. ASSUME Becomes(q, Fetch(k)) PROVE Sends(q, k, mount)
  <2>1. req'[q] = Fetch(k)
        BY <1>2, BecomesThat
  <2> QED BY <1>1, <1>2, <2>1, BecomesThat DEF Sends, NoRequest
<1>3. ASSUME NEW n \in 0..MaxMounts, Becomes(q, [Fetch(k) EXCEPT !.mount = n])
      PROVE  Sends(q, k, n)
  <2>1. req'[q] = [Fetch(k) EXCEPT !.mount = n]
        BY <1>3, BecomesThat
  <2> QED BY <1>1, <1>3, <2>1, BecomesThat DEF Sends, NoRequest
<1> QED BY <1>2, <1>3

LEMMA SendKeepsParts ==
  ASSUME IInv, NEW q \in Slot, NEW k, NEW n, Sends(q, k, n),
         UNCHANGED <<state, owner, alive, home, issued, cookies>>
  PROVE  /\ PoolPart' /\ IdsPart' /\ InventedPart' /\ RunnerPart' /\ FreshPart'
         /\ FlowPart'
<1>0. /\ TypeOK /\ PoolPart /\ IdsPart /\ InventedPart /\ RunnerPart /\ FreshPart
      /\ FlowPart
      BY DEF IInv, Parts
<1>1. PoolPart'
      BY <1>0 DEF PoolPart
<1>2. IdsPart'
      BY <1>0 DEF IdsPart, Sends
<1>3. InventedPart'
      BY <1>0 DEF InventedPart, Invented, At, Sends
<1>4. RunnerPart'
      BY <1>0 DEF RunnerPart, Has, At, Sends
<1>5. FreshPart'
  <2>1. \A o \in Slot : (Invented(o) /\ ~At(o, "create"))'
          => o # q /\ Invented(o) /\ ~At(o, "create") /\ req[o].runner # None
        BY <1>0 DEF Invented, At, Sends, RunnerPart, Has
  <2> QED BY <1>0, <2>1 DEF FreshPart, Sends
<1>6. FlowPart'
      BY <1>0 DEF FlowPart, At, Sends
<1> QED BY <1>1, <1>2, <1>3, <1>4, <1>5, <1>6

\* The cookies of a request that its page still waits for.
LEMMA AnswerTells ==
  ASSUME IInv, NEW q \in Slot, At(q, "answer"), Kept(q) \/ req[q].kind = "delete"
  PROVE  IF req[q].kind = "create" /\ req[q].ok
           THEN /\ Told(q).session = req[q].session /\ Told(q).bash = req[q].mount
                /\ Told(q).session # cookies.session
                     => \A r \in Runner : owner[r] = cookies.session => cookies.session = None
           ELSE Told(q) = cookies
<1>0. TypeOK /\ FlowPart /\ MountPart
      BY DEF IInv, Parts
<1>1. CASE req[q].kind = "create" /\ req[q].ok
  <2>1. req[q].sent.session = cookies.session
        BY <1>0, <1>1 DEF MountPart, Creates, At
  <2>2. Told(q).bash = req[q].mount
        BY <1>1 DEF Told
  <2>3. Told(q).session = req[q].session
        BY <1>0, <1>1, <2>1 DEF Told, FlowPart
  <2> QED BY <1>0, <1>1, <2>1, <2>2, <2>3 DEF FlowPart
<1>2. CASE req[q].ok /\ req[q].kind # "create"
  <2>1. ~req[q].created
        BY <1>0, <1>2 DEF FlowPart
  <2> QED BY <1>0, <1>2, <2>1 DEF Told, TypeOK, Cookies
<1>3. CASE ~req[q].ok
      BY <1>3 DEF Told
<1> QED BY <1>1, <1>2, <1>3

LEMMA MountStep == ASSUME IInv, NEW q \in Slot, Mount(q) PROVE Parts'
<1>0. TypeOK /\ MountPart
      BY DEF IInv, Parts
<1>1. /\ At(q, "idle") /\ view = "none" /\ view' = "loading"
      /\ mount \in Nat /\ mount' = mount + 1 /\ mount' \in Mounts
      /\ UNCHANGED <<state, owner, alive, home, issued, cookies>>
      BY <1>0, ConstantsAssumption DEF Mount, poolState, runnerVars, TypeOK, Mounts
<1>2. Sends(q, "create", mount + 1)
      BY <1>0, <1>1, FetchSends DEF Mount, Mounts
<1>3. MountPart'
  <2>1. \A o \in Slot : ~At(o, "idle") => req[o].mount \in 1..mount
        BY <1>0 DEF MountPart
  <2>2. \A o \in Slot : (~At(o, "idle"))' => req'[o].mount \in 1..mount'
        BY <1>0, <1>1, <1>2, <2>1 DEF At, Sends
  <2>3. \A o \in Slot \ {q} : Creates(o)' => Creates(o) /\ req'[o].mount # mount'
        BY <1>0, <1>1, <1>2, <2>1 DEF At, Sends, Creates
  <2>4. \A o, p \in Slot : (Creates(o) /\ Creates(p))' /\ req'[o].mount = req'[p].mount => o = p
        BY <1>0, <1>1, <1>2, <2>3 DEF Sends, MountPart
  <2>5. \A o \in Slot : Creates(o)' /\ Kept(o)' => o = q
        BY <2>3 DEF Kept
  <2>6. \A o \in Slot : (~At(o, "idle") /\ req[o].kind = "delete")'
          => req'[o].sent.bash \in 1..mount' /\ req'[o].sent.bash # mount'
        BY <1>0, <1>1, <1>2 DEF MountPart, At, Sends
  <2> QED BY <1>1, <1>2, <2>2, <2>4, <2>5, <2>6 DEF MountPart, Sends
<1>4. ReadyPart'
      BY <1>1 DEF ReadyPart, ReadyHasShell
<1> QED BY <1>1, <1>2, <1>3, <1>4, SendKeepsParts DEF Parts

LEMMA RetryStep == ASSUME IInv, NEW q \in Slot, Retry(q) PROVE Parts'
<1>0. TypeOK /\ MountPart /\ ReadyPart
      BY DEF IInv, Parts
<1>1. /\ At(q, "idle") /\ view = "retrying" /\ mount \in Mounts
      /\ \A o \in Slot : ~(Kept(o) /\ Creates(o))
      /\ UNCHANGED <<state, owner, alive, home, issued, cookies, view, mount>>
      BY <1>0 DEF Retry, poolState, runnerVars, pageVars, Creates, MountPart
<1>2. Sends(q, "create", mount)
      BY <1>0, <1>1, FetchSends DEF Retry
<1>3. MountPart'
  <2>1. \A o \in Slot : Creates(o) => req[o].mount # mount
        BY <1>1 DEF Kept
  <2>2. \A o \in Slot \ {q} : Creates(o)' => Creates(o) /\ req'[o].mount # mount'
        BY <1>1, <1>2, <2>1 DEF At, Sends, Creates
  <2>3. \A o, p \in Slot : (Creates(o) /\ Creates(p))' /\ req'[o].mount = req'[p].mount => o = p
        BY <1>0, <1>1, <1>2, <2>2 DEF Sends, MountPart
  <2>4. \A o \in Slot : Creates(o)' /\ Kept(o)' => o = q
        BY <2>2 DEF Kept
  <2>5. \A o \in Slot : (~At(o, "idle"))' => req'[o].mount \in 1..mount'
        BY <1>0, <1>1, <1>2, ConstantsAssumption DEF At, Sends, MountPart, Mounts, TypeOK
  <2>6. \A o \in Slot : (~At(o, "idle") /\ req[o].kind = "delete")'
          => req'[o].sent.bash \in 1..mount' /\ req'[o].sent.bash # mount'
        BY <1>0, <1>1, <1>2 DEF MountPart, At, Sends
  <2> QED BY <1>1, <1>2, <2>3, <2>4, <2>5, <2>6 DEF MountPart, Sends
<1>4. ReadyPart'
      BY <1>1 DEF ReadyPart, ReadyHasShell
<1> QED BY <1>1, <1>2, <1>3, <1>4, SendKeepsParts DEF Parts

LEMMA ExecuteStep == ASSUME IInv, NEW q \in Slot, Execute(q) PROVE Parts'
<1>0. TypeOK /\ MountPart /\ ReadyPart
      BY DEF IInv, Parts
<1>1. /\ At(q, "idle") /\ view = "ready" /\ mount \in Mounts
      /\ UNCHANGED <<state, owner, alive, home, issued, cookies, view, mount>>
      BY <1>0 DEF Execute, poolState, runnerVars, pageVars, MountPart
<1>2. Sends(q, "execute", mount)
      BY <1>0, <1>1, FetchSends DEF Execute
<1>3. MountPart'
  <2>1. \A o \in Slot : Creates(o)' => o # q /\ Creates(o)
        BY <1>2 DEF At, Sends, Creates
  <2>2. \A o \in Slot : (~At(o, "idle"))' => req'[o].mount \in 1..mount'
        BY <1>0, <1>1, <1>2, ConstantsAssumption DEF At, Sends, MountPart, Mounts, TypeOK
  <2>3. \A o \in Slot : (~At(o, "idle") /\ req[o].kind = "delete")'
          => req'[o].sent.bash \in 1..mount' /\ req'[o].sent.bash # mount'
        BY <1>0, <1>1, <1>2 DEF MountPart, At, Sends
  <2> QED BY <1>0, <1>1, <1>2, <2>1, <2>2, <2>3 DEF MountPart, Sends, Kept
<1>4. ReadyPart'
      BY <1>0, <1>1 DEF ReadyPart, ReadyHasShell
<1> QED BY <1>1, <1>2, <1>3, <1>4, SendKeepsParts DEF Parts

\* What an abort leaves behind of an answer.
LEMMA Stored ==
  ASSUME IInv, StoreOnAbort
  PROVE  \/ cookies' = cookies
         \/ /\ view # "ready"
            /\ \E q \in Slot : At(q, "answer") /\ cookies'.session = req[q].session
                              /\ req[q].session # None
            /\ cookies'.session # cookies.session
                 => \A r \in Runner : owner[r] = cookies.session => cookies.session = None
<1>0. TypeOK /\ RunnerPart /\ MountPart
      BY DEF IInv, Parts
<1>1. CASE UNCHANGED cookies
      BY <1>1
<1>2. CASE \E q \in Slot : At(q, "answer") /\ Kept(q) /\ cookies' = Told(q)
  <2>1. PICK q \in Slot : At(q, "answer") /\ Kept(q) /\ cookies' = Told(q)
        BY <1>2
  <2>2. CASE req[q].kind = "create" /\ req[q].ok
    <3>1. view # "ready"
          BY <1>0, <2>1, <2>2 DEF MountPart, Creates, At
    <3>2. req[q].session # None
          BY <1>0, <2>1, <2>2 DEF RunnerPart, Has
    <3> QED BY <2>1, <2>2, <3>1, <3>2, AnswerTells
  <2>3. CASE ~(req[q].kind = "create" /\ req[q].ok)
        BY <2>1, <2>3, AnswerTells
  <2> QED BY <2>2, <2>3
<1> QED BY <1>1, <1>2 DEF StoreOnAbort

LEMMA UnmountStep == ASSUME IInv, NEW q \in Slot, Unmount(q) PROVE Parts'
<1>0. /\ TypeOK /\ PoolPart /\ IdsPart /\ InventedPart /\ RunnerPart /\ FreshPart
      /\ FlowPart /\ MountPart /\ ReadyPart
      BY DEF IInv, Parts
<1>1. /\ view # "none" /\ view' = "none" /\ mount \in Mounts
      /\ UNCHANGED <<state, owner, alive, home, issued, mount>>
      BY <1>0 DEF Unmount, poolState, runnerVars, MountPart
<1>2. ReadyPart'
      BY <1>1 DEF ReadyPart, ReadyHasShell
<1>3. CASE view = "ready"
  <2>1. UNCHANGED cookies
        BY <1>3, Stored DEF Unmount
  <2>2. At(q, "idle") /\ Sends(q, "delete", mount)
        BY <1>0, <1>3, FetchSends DEF Unmount
  <2>3. cookies.bash = mount
        BY <1>0, <1>3 DEF ReadyPart, ReadyHasShell
  <2>4. MountPart'
    <3>1. \A o \in Slot : Creates(o)' => o # q /\ Creates(o)
          BY <2>2 DEF At, Sends, Creates
    <3>2. \A o \in Slot : (~At(o, "idle"))' => req'[o].mount \in 1..mount'
          BY <1>0, <1>1, <2>2, ConstantsAssumption DEF At, Sends, MountPart, Mounts, TypeOK
    <3>3. \A o \in Slot : (~At(o, "idle") /\ req[o].kind = "delete")'
            => req'[o].sent.bash \in 1..mount'
          BY <1>0, <1>1, <2>2, <2>3, ConstantsAssumption
          DEF MountPart, At, Sends, Mounts, TypeOK
    <3> QED BY <1>0, <1>1, <2>2, <3>1, <3>2, <3>3 DEF MountPart, Sends, Kept
  <2> QED BY <1>1, <1>2, <2>1, <2>2, <2>4, SendKeepsParts DEF Parts
<1>4. CASE view # "ready"
  <2>1. UNCHANGED req
        BY <1>4 DEF Unmount
  <2>2. \/ cookies' = cookies
        \/ \E o \in Slot : At(o, "answer") /\ cookies'.session = req[o].session
                           /\ req[o].session # None
        BY Stored DEF Unmount
  <2>3. PoolPart' /\ RunnerPart' /\ FlowPart'
        BY <1>0, <1>1, <2>1 DEF PoolPart, RunnerPart, FlowPart, Has, At
  <2>4. FreshPart'
        BY <1>0, <1>1, <2>1 DEF FreshPart, Invented, At
  <2>5. IdsPart'
        BY <1>0, <1>1, <2>1, <2>2 DEF IdsPart
  <2>6. InventedPart'
        BY <1>0, <1>1, <2>1, <2>2 DEF InventedPart, Invented, At
  <2>7. MountPart'
        BY <1>0, <1>1, <2>1 DEF MountPart, Creates, Kept, At
  <2> QED BY <1>2, <2>3, <2>4, <2>5, <2>6, <2>7 DEF Parts
<1> QED BY <1>3, <1>4

LEMMA ReloadStep == ASSUME IInv, Reload PROVE Parts'
<1>0. /\ TypeOK /\ PoolPart /\ IdsPart /\ InventedPart /\ RunnerPart /\ FreshPart
      /\ FlowPart /\ MountPart /\ ReadyPart
      BY DEF IInv, Parts
<1>1. /\ view # "none" /\ view' = "none" /\ mount \in Mounts
      /\ UNCHANGED <<state, owner, alive, home, issued, mount, req>>
      BY <1>0 DEF Reload, poolState, runnerVars, MountPart
<1>2. \/ cookies' = cookies
      \/ \E o \in Slot : At(o, "answer") /\ cookies'.session = req[o].session
                         /\ req[o].session # None
      BY Stored DEF Reload
<1>3. PoolPart' /\ RunnerPart' /\ FlowPart'
      BY <1>0, <1>1 DEF PoolPart, RunnerPart, FlowPart, Has, At
<1>4. FreshPart'
      BY <1>0, <1>1 DEF FreshPart, Invented, At
<1>5. IdsPart'
      BY <1>0, <1>1, <1>2 DEF IdsPart
<1>6. InventedPart'
      BY <1>0, <1>1, <1>2 DEF InventedPart, Invented, At
<1>7. MountPart'
      BY <1>0, <1>1 DEF MountPart, Creates, Kept, At
<1>8. ReadyPart'
      BY <1>1 DEF ReadyPart, ReadyHasShell
<1> QED BY <1>3, <1>4, <1>5, <1>6, <1>7, <1>8 DEF Parts

\* A request ends; the cookies may have been told its session.
Ends(q) ==
  /\ req'[q] = NoRequest /\ \A o \in Slot \ {q} : req'[o] = req[o]
  /\ UNCHANGED <<state, owner, alive, home, issued, mount>>
  /\ \/ cookies'.session = cookies.session
     \/ At(q, "answer") /\ cookies'.session = req[q].session /\ req[q].session # None

LEMMA EndKeepsParts ==
  ASSUME IInv, NEW q \in Slot, Ends(q)
  PROVE  /\ PoolPart' /\ IdsPart' /\ InventedPart' /\ RunnerPart' /\ FreshPart'
         /\ FlowPart'
<1>0. /\ TypeOK /\ PoolPart /\ IdsPart /\ InventedPart /\ RunnerPart /\ FreshPart
      /\ FlowPart
      BY DEF IInv, Parts
<1>1. /\ req'[q].pc = "idle" /\ req'[q].session = None /\ req'[q].sent.session = None
      /\ req'[q].runner = None /\ req'[q].created = FALSE /\ req'[q].ok = FALSE
      BY DEF Ends, NoRequest, NoCookies
<1>2. PoolPart'
      BY <1>0 DEF PoolPart, Ends
<1>3. IdsPart'
      BY <1>0, <1>1 DEF IdsPart, Ends
<1>4. InventedPart'
      BY <1>0, <1>1 DEF InventedPart, Invented, At, Ends
<1>5. RunnerPart'
      BY <1>0, <1>1 DEF RunnerPart, Has, At, Ends
<1>6. FreshPart'
  <2>1. \A o \in Slot : (Invented(o) /\ ~At(o, "create"))'
          => o # q /\ Invented(o) /\ ~At(o, "create") /\ req[o].runner # None
        BY <1>0, <1>1 DEF Invented, At, Ends, RunnerPart, Has
  <2> QED BY <1>0, <1>1, <2>1 DEF FreshPart, Ends
<1>7. FlowPart'
      BY <1>0, <1>1 DEF FlowPart, At, Ends
<1> QED BY <1>2, <1>3, <1>4, <1>5, <1>6, <1>7

LEMMA CancelStep == ASSUME IInv, NEW q \in Slot, Cancel(q) PROVE Parts'
<1>0. TypeOK /\ MountPart /\ ReadyPart
      BY DEF IInv, Parts
<1>1. Ends(q) /\ UNCHANGED <<cookies, view, mount>>
      BY <1>0, BecomesThat DEF Cancel, Ends, poolState, runnerVars, pageVars
<1>2. req'[q].pc = "idle"
      BY <1>1 DEF Ends, NoRequest
<1>3. MountPart'
      BY <1>0, <1>1, <1>2 DEF MountPart, Creates, Kept, At, Ends
<1>4. ReadyPart'
      BY <1>0, <1>1 DEF ReadyPart, ReadyHasShell, Ends
<1> QED BY <1>1, <1>3, <1>4, EndKeepsParts DEF Parts

LEMMA AnswerStep == ASSUME IInv, NEW q \in Slot, Answer(q) PROVE Parts'
<1>0. TypeOK /\ RunnerPart /\ MountPart /\ ReadyPart
      BY DEF IInv, Parts
<1>1. /\ At(q, "answer") /\ req'[q] = NoRequest /\ \A o \in Slot \ {q} : req'[o] = req[o]
      /\ UNCHANGED <<state, owner, alive, home, issued, mount>>
      BY <1>0, BecomesThat DEF Answer, poolState, runnerVars
<1>2. req'[q].pc = "idle"
      BY <1>1 DEF NoRequest
<1>3. CASE Kept(q) /\ req[q].kind = "create" /\ req[q].ok
  <2>1. /\ view' = "ready" /\ view \notin {"ready", "none"} /\ req[q].mount = mount
        /\ cookies'.session = req[q].session /\ cookies'.bash = mount
        BY <1>0, <1>1, <1>3, AnswerTells DEF Answer, Kept, MountPart, Creates, At
  <2>2. req[q].session # None
        BY <1>0, <1>1, <1>3 DEF RunnerPart, Has
  <2>3. Ends(q)
        BY <1>1, <2>1, <2>2 DEF Ends
  <2>4. MountPart'
    <3>1. \A o \in Slot : Creates(o)' => o # q /\ Creates(o)
          BY <1>1, <1>2 DEF Creates, At
    <3>2. \A o \in Slot : Creates(o)' => ~Kept(o)'
          BY <1>0, <1>1, <1>3, <2>1, <3>1 DEF MountPart, Creates, Kept, At
    <3>3. \A o \in Slot : (~At(o, "idle"))' => o # q /\ ~At(o, "idle")
          BY <1>1, <1>2 DEF At
    <3> QED BY <1>0, <1>1, <1>2, <2>1, <3>1, <3>2, <3>3 DEF MountPart
  <2>5. ReadyPart'
    <3>1. \A r \in Runner : owner[r] = req[q].session => r = req[q].runner
          BY <1>0, <1>1, <1>3 DEF RunnerPart, Has
    <3>2. alive[req[q].runner] => home[mount] = req[q].runner
          BY <1>0, <1>1, <1>3 DEF MountPart, Creates, At
    <3> QED BY <1>1, <2>1, <2>2, <3>1, <3>2 DEF ReadyPart, ReadyHasShell
  <2> QED BY <2>3, <2>4, <2>5, EndKeepsParts DEF Parts
<1>4. CASE ~(Kept(q) /\ req[q].kind = "create" /\ req[q].ok)
  <2>1. cookies' = cookies
        BY <1>1, <1>4, AnswerTells DEF Answer, Kept
  <2>2. /\ view' = "none" <=> view = "none"
        /\ view' = "ready" <=> view = "ready"
        BY <1>0, <1>1, <1>4 DEF Answer, Kept, MountPart, Creates, At
  <2>3. Ends(q)
        BY <1>1, <2>1 DEF Ends
  <2>4. MountPart'
        BY <1>0, <1>1, <1>2, <2>1, <2>2 DEF MountPart, Creates, Kept, At
  <2>5. ReadyPart'
        BY <1>0, <1>1, <2>1, <2>2 DEF ReadyPart, ReadyHasShell
  <2> QED BY <2>3, <2>4, <2>5, EndKeepsParts DEF Parts
<1> QED BY <1>3, <1>4

LEMMA GiveUpStep == ASSUME IInv, NEW q \in Slot, GiveUp(q) PROVE Parts'
<1>0. /\ TypeOK /\ PoolPart /\ IdsPart /\ InventedPart /\ RunnerPart /\ FreshPart
      /\ FlowPart /\ MountPart /\ ReadyPart
      BY DEF IInv, Parts
<1>1. /\ req[q].pc \in {"find", "check", "create", "checkNew"}
      /\ UNCHANGED <<state, owner, alive, home, issued, cookies, view, mount>>
      BY DEF GiveUp, poolState, runnerVars, pageVars
<1>2. /\ Keeps(q) /\ req'[q].created = req[q].created /\ req'[q].ok = req[q].ok
      /\ req'[q].pc = "answer" /\ req'[q].session = req[q].session
      /\ req'[q].runner = req[q].runner
  <2>1. req[q] \in Request
        BY <1>0 DEF TypeOK
  <2>2. req'[q] = [req[q] EXCEPT !.pc = "answer"]
        BY <1>0, BecomesThat DEF GiveUp
  <2> QED BY <1>0, <2>1, <2>2, BecomesThat DEF Keeps, Request, GiveUp
<1>3. req[q].ok = FALSE /\ req[q].created = FALSE
      BY <1>0, <1>1 DEF FlowPart, At, TypeOK, Request
<1>5. PoolPart'
      BY <1>0, <1>1 DEF PoolPart
<1>6. IdsPart'
      BY <1>0, <1>1, <1>2 DEF IdsPart, Keeps
<1>7. InventedPart'
      BY <1>0, <1>1, <1>2 DEF InventedPart, Invented, At, Keeps
<1>8. RunnerPart'
      BY <1>0, <1>1, <1>2, <1>3 DEF RunnerPart, Has, At, Keeps
<1>9. FreshPart'
  <2>1. \A o \in Slot : (Invented(o) /\ ~At(o, "create"))' => o # q /\ Invented(o) /\ ~At(o, "create")
        BY <1>0, <1>1, <1>2 DEF Invented, At, Keeps
  <2> QED BY <1>0, <1>1, <1>2, <2>1 DEF FreshPart, Keeps
<1>10. FlowPart'
      BY <1>0, <1>1, <1>2, <1>3 DEF FlowPart, At, Keeps
<1>11. MountPart'
      BY <1>0, <1>1, <1>2, <1>3 DEF MountPart, Creates, Kept, At, Keeps
<1>12. ReadyPart'
      BY <1>0, <1>1 DEF ReadyPart, ReadyHasShell
<1> QED BY <1>5, <1>6, <1>7, <1>8, <1>9, <1>10, <1>11, <1>12 DEF Parts

\* A runner is given up: nobody else notices.
LEMMA DeleteFacts ==
  ASSUME TypeOK, PoolPart, NEW r \in Runner, DeleteRunner(r), UNCHANGED <<home, issued>>
  PROVE  /\ owner'[r] = None /\ \A x \in Runner \ {r} : owner'[x] = owner[x]
         /\ \A x \in Runner : state[x] \in {"bound", "spent"} => state'[x] \in {"bound", "spent"}
         /\ PoolPart'
<1>1. /\ owner'[r] = None /\ \A x \in Runner \ {r} : owner'[x] = owner[x]
      /\ state'[r] # "bound" /\ \A x \in Runner \ {r} : state'[x] = state[x]
      /\ state'[r] = "spent" \/ state'[r] = state[r]
      BY DEF DeleteRunner, Release, PoolPart, TypeOK, poolState
<1>2. \A x \in Runner : state[x] \in {"bound", "spent"} => state'[x] \in {"bound", "spent"}
      BY <1>1
<1>3. \A n \in Mounts : home[n] # None => home[n] \in Runner
      BY DEF TypeOK
<1>4. PoolPart'
      BY <1>1, <1>2, <1>3 DEF PoolPart
<1> QED BY <1>1, <1>2, <1>4

LEMMA CheckStep == ASSUME IInv, NEW q \in Slot, Check(q) PROVE Parts'
<1>0. /\ TypeOK /\ PoolPart /\ IdsPart /\ InventedPart /\ RunnerPart /\ FreshPart
      /\ FlowPart /\ MountPart /\ ReadyPart
      BY DEF IInv, Parts
<1>1. /\ At(q, "check")
      /\ UNCHANGED <<alive, home, issued, cookies, view, mount>>
      BY DEF Check, runnerVars, pageVars
<1>2. /\ req[q].runner \in Runner /\ req[q] \in Request
      /\ req[q].ok = FALSE /\ req[q].created = FALSE
      /\ req[q].session = req[q].sent.session /\ req[q].session # None
      BY <1>0, <1>1 DEF TypeOK, Request, RunnerPart, Has, FlowPart, At
<1>3. ASSUME Becomes(q, [req[q] EXCEPT !.pc = "proxy"]), UNCHANGED poolState
      PROVE  Parts'
  <2>1. /\ Keeps(q) /\ req'[q].created = FALSE /\ req'[q].ok = FALSE
        /\ req'[q].pc = "proxy" /\ req'[q].session = req[q].session
        /\ req'[q].runner = req[q].runner
    <3>1. req'[q] = [req[q] EXCEPT !.pc = "proxy"]
          BY <1>0, <1>3, BecomesThat
    <3> QED BY <1>0, <1>2, <1>3, <3>1, BecomesThat DEF Keeps, Request
  <2>2. UNCHANGED <<state, owner>>
        BY <1>3 DEF poolState
  <2>3. PoolPart' /\ ReadyPart'
        BY <1>0, <1>1, <2>2 DEF PoolPart, ReadyPart, ReadyHasShell
  <2>4. IdsPart'
        BY <1>0, <1>1, <2>1 DEF IdsPart, Keeps
  <2>5. InventedPart'
        BY <1>0, <1>1, <2>1 DEF InventedPart, Invented, At, Keeps
  <2>6. RunnerPart'
        BY <1>0, <1>1, <2>1, <2>2 DEF RunnerPart, Has, At, Keeps
  <2>7. FreshPart'
    <3>1. \A o \in Slot : (Invented(o) /\ ~At(o, "create"))'
            => o # q /\ Invented(o) /\ ~At(o, "create")
          BY <1>0, <1>1, <2>1 DEF Invented, At, Keeps
    <3> QED BY <1>0, <1>1, <2>1, <3>1 DEF FreshPart, Keeps
  <2>8. FlowPart'
        BY <1>0, <1>1, <1>2, <2>1, <2>2 DEF FlowPart, At, Keeps
  <2>9. MountPart'
        BY <1>0, <1>1, <2>1 DEF MountPart, Creates, Kept, At, Keeps
  <2> QED BY <2>3, <2>4, <2>5, <2>6, <2>7, <2>8, <2>9 DEF Parts
<1>4. ASSUME DeleteRunner(req[q].runner),
             Becomes(q, [req[q] EXCEPT !.pc = "create", !.session = None, !.runner = None,
                                       !.reassigned = TRUE])
      PROVE  Parts'
  <2>1. /\ Keeps(q) /\ req'[q].created = FALSE /\ req'[q].ok = FALSE
        /\ req'[q].pc = "create" /\ req'[q].session = None /\ req'[q].runner = None
    <3>1. req'[q] = [req[q] EXCEPT !.pc = "create", !.session = None, !.runner = None,
                                   !.reassigned = TRUE]
          BY <1>0, <1>4, BecomesThat
    <3> QED BY <1>0, <1>2, <1>4, <3>1, BecomesThat DEF Keeps, Request
  <2>2. /\ \A x \in Runner : owner'[x] \in {None, owner[x]}
        /\ owner'[req[q].runner] = None
        /\ \A x \in Runner : state[x] \in {"bound", "spent"} => state'[x] \in {"bound", "spent"}
        /\ PoolPart'
        BY <1>0, <1>1, <1>2, <1>4, DeleteFacts
  <2>3. IdsPart'
        BY <1>0, <1>1, <2>1 DEF IdsPart, Keeps
  <2>4. InventedPart'
        BY <1>0, <1>1, <2>1 DEF InventedPart, Invented, At, Keeps
  <2>5. RunnerPart'
    <3>1. \A o \in Slot \ {q} : req[o].runner # None => req[o].runner \in Runner
          BY <1>0 DEF TypeOK, Request
    <3> QED BY <1>0, <1>1, <2>1, <2>2, <3>1 DEF RunnerPart, Has, At, Keeps
  <2>6. FreshPart'
    <3>1. \A o \in Slot : (Invented(o) /\ ~At(o, "create"))'
            => o # q /\ Invented(o) /\ ~At(o, "create") /\ req[o].runner # None
          BY <1>0, <1>1, <2>1 DEF Invented, At, Keeps, RunnerPart, Has
    <3> QED BY <1>0, <1>1, <2>1, <3>1 DEF FreshPart, Keeps
  <2>7. FlowPart'
    <3>1. \A r \in Runner : owner'[r] = req[q].sent.session => req[q].sent.session = None
          BY <1>0, <1>1, <1>2, <2>2 DEF RunnerPart, Has, At
    <3>2. \A o \in Slot : (\A r \in Runner : owner[r] = req[o].sent.session
                                             => req[o].sent.session = None)
            => \A r \in Runner : owner'[r] = req[o].sent.session => req[o].sent.session = None
          BY <2>2
    <3> QED BY <1>0, <1>1, <1>2, <2>1, <3>1, <3>2 DEF FlowPart, At, Keeps
  <2>8. MountPart'
        BY <1>0, <1>1, <2>1 DEF MountPart, Creates, Kept, At, Keeps
  <2>9. ReadyPart'
        BY <1>0, <1>1, <2>2 DEF ReadyPart, ReadyHasShell
  <2> QED BY <2>2, <2>3, <2>4, <2>5, <2>6, <2>7, <2>8, <2>9 DEF Parts
<1> QED BY <1>3, <1>4 DEF Check

LEMMA CheckNewStep == ASSUME IInv, NEW q \in Slot, CheckNew(q) PROVE Parts'
<1>0. /\ TypeOK /\ PoolPart /\ IdsPart /\ InventedPart /\ RunnerPart /\ FreshPart
      /\ FlowPart /\ MountPart /\ ReadyPart
      BY DEF IInv, Parts
<1>1. /\ At(q, "checkNew")
      /\ UNCHANGED <<alive, home, issued, cookies, view, mount>>
      BY DEF CheckNew, runnerVars, pageVars
<1>2. /\ req[q].runner \in Runner /\ req[q] \in Request /\ req[q].ok = FALSE
      /\ req[q].session # None /\ req[q].created = FALSE /\ Invented(q)
      BY <1>0, <1>1 DEF TypeOK, Request, RunnerPart, Has, FlowPart, At, Invented
<1>3. ASSUME Becomes(q, [req[q] EXCEPT !.pc = "proxy", !.created = TRUE]), UNCHANGED poolState
      PROVE  Parts'
  <2>1. /\ Keeps(q) /\ req'[q].created = TRUE /\ req'[q].ok = FALSE
        /\ req'[q].pc = "proxy" /\ req'[q].session = req[q].session
        /\ req'[q].runner = req[q].runner
    <3>1. req'[q] = [req[q] EXCEPT !.pc = "proxy", !.created = TRUE]
          BY <1>0, <1>3, BecomesThat
    <3> QED BY <1>0, <1>2, <1>3, <3>1, BecomesThat DEF Keeps, Request
  <2>2. UNCHANGED <<state, owner>>
        BY <1>3 DEF poolState
  <2>3. PoolPart' /\ ReadyPart'
        BY <1>0, <1>1, <2>2 DEF PoolPart, ReadyPart, ReadyHasShell
  <2>4. IdsPart'
        BY <1>0, <1>1, <2>1 DEF IdsPart, Keeps
  <2>5. InventedPart'
        BY <1>0, <1>1, <2>1 DEF InventedPart, Invented, At, Keeps
  <2>6. RunnerPart'
        BY <1>0, <1>1, <2>1, <2>2 DEF RunnerPart, Has, At, Keeps
  <2>7. FreshPart'
    <3>1. \A o \in Slot : (Invented(o) /\ ~At(o, "create"))' => Invented(o) /\ ~At(o, "create")
          BY <1>0, <1>1, <1>2, <2>1 DEF Invented, At, Keeps
    <3> QED BY <1>0, <1>1, <2>1, <3>1 DEF FreshPart, Keeps
  <2>8. FlowPart'
        BY <1>0, <1>1, <1>2, <2>1, <2>2 DEF FlowPart, At, Keeps
  <2>9. MountPart'
        BY <1>0, <1>1, <2>1 DEF MountPart, Creates, Kept, At, Keeps
  <2> QED BY <2>3, <2>4, <2>5, <2>6, <2>7, <2>8, <2>9 DEF Parts
<1>4. ASSUME DeleteRunner(req[q].runner),
             Becomes(q, [req[q] EXCEPT !.pc = "create", !.runner = None])
      PROVE  Parts'
  <2>1. /\ Keeps(q) /\ req'[q].created = FALSE /\ req'[q].ok = FALSE
        /\ req'[q].pc = "create" /\ req'[q].session = req[q].session /\ req'[q].runner = None
    <3>1. req'[q] = [req[q] EXCEPT !.pc = "create", !.runner = None]
          BY <1>0, <1>4, BecomesThat
    <3> QED BY <1>0, <1>2, <1>4, <3>1, BecomesThat DEF Keeps, Request
  <2>2. /\ \A x \in Runner : owner'[x] \in {None, owner[x]}
        /\ \A x \in Runner : state[x] \in {"bound", "spent"} => state'[x] \in {"bound", "spent"}
        /\ PoolPart'
        BY <1>0, <1>1, <1>2, <1>4, DeleteFacts
  <2>3. IdsPart'
        BY <1>0, <1>1, <2>1 DEF IdsPart, Keeps
  <2>4. InventedPart'
        BY <1>0, <1>1, <1>2, <2>1 DEF InventedPart, Invented, At, Keeps
  <2>5. RunnerPart'
    <3>1. \A o \in Slot \ {q} : req[o].runner # None => req[o].runner \in Runner
          BY <1>0 DEF TypeOK, Request
    <3> QED BY <1>0, <1>1, <2>1, <2>2, <3>1 DEF RunnerPart, Has, At, Keeps
  <2>6. FreshPart'
    <3>1. \A o \in Slot : (Invented(o) /\ ~At(o, "create"))'
            => o # q /\ Invented(o) /\ ~At(o, "create") /\ req[o].runner # None
          BY <1>0, <1>1, <2>1 DEF Invented, At, Keeps, RunnerPart, Has
    <3> QED BY <1>0, <1>1, <2>1, <3>1 DEF FreshPart, Keeps
  <2>7. FlowPart'
    <3>1. \A o \in Slot : (\A r \in Runner : owner[r] = req[o].sent.session
                                             => req[o].sent.session = None)
            => \A r \in Runner : owner'[r] = req[o].sent.session => req[o].sent.session = None
          BY <2>2
    <3> QED BY <1>0, <1>1, <1>2, <2>1, <3>1 DEF FlowPart, At, Keeps
  <2>8. MountPart'
        BY <1>0, <1>1, <2>1 DEF MountPart, Creates, Kept, At, Keeps
  <2>9. ReadyPart'
        BY <1>0, <1>1, <2>2 DEF ReadyPart, ReadyHasShell
  <2> QED BY <2>2, <2>3, <2>4, <2>5, <2>6, <2>7, <2>8, <2>9 DEF Parts
<1> QED BY <1>3, <1>4 DEF CheckNew

LEMMA AcquireStep ==
  ASSUME EndlessSessions, IInv, NEW q \in Slot, Acquire(q) PROVE Parts'
<1>0. /\ TypeOK /\ PoolPart /\ IdsPart /\ InventedPart /\ RunnerPart /\ FreshPart
      /\ FlowPart /\ MountPart /\ ReadyPart
      BY DEF IInv, Parts
<1>1. /\ At(q, "create") /\ UNCHANGED <<alive, home, cookies, view, mount>>
      BY DEF Acquire, runnerVars, pageVars
<1>2. /\ req[q] \in Request /\ issued \in Nat
      /\ req[q].ok = FALSE /\ req[q].created = FALSE
      BY <1>0, <1>1 DEF TypeOK, Request, FlowPart, At
<1> DEFINE s == IF req[q].session = None THEN issued + 1 ELSE req[q].session
\* Nobody knows the session it acts for from now on.
<1>3. /\ s \in Nat /\ s # None
      /\ cookies.session # s
      /\ \A o \in Slot : req[o].sent.session # s
      /\ \A o \in Slot \ {q} : req[o].session # s
  <2>1. CASE req[q].session = None
    <3>1. issued + 1 \in Session
          BY <1>2 DEF EndlessSessions
    <3>2. \A x \in Session \cup {None} : (x # None => x <= issued) => x # issued + 1
          BY <1>2, <3>1, ConstantsAssumption DEF EndlessSessions
    <3>3. /\ cookies.session \in Session \cup {None}
          /\ \A o \in Slot : /\ req[o].session \in Session \cup {None}
                            /\ req[o].sent.session \in Session \cup {None}
          BY <1>0 DEF TypeOK, Cookies, Request
    <3>4. s = issued + 1 /\ s # None /\ s \in Nat
          BY <1>2, <2>1, <3>1, ConstantsAssumption
    <3> QED BY <1>0, <3>2, <3>3, <3>4 DEF IdsPart
  <2>2. CASE req[q].session # None
    <3>1. s = req[q].session /\ Invented(q) /\ s \in Nat
          BY <1>1, <1>2, <2>2, ConstantsAssumption DEF Invented, At, Request
    <3> QED BY <1>0, <2>2, <3>1 DEF InventedPart
  <2> QED BY <2>1, <2>2
<1>4. CASE UNCHANGED <<poolState, issued>> /\ Becomes(q, [req[q] EXCEPT !.pc = "answer"])
  <2>1. /\ Keeps(q) /\ req'[q].created = FALSE /\ req'[q].ok = FALSE
        /\ req'[q].pc = "answer" /\ req'[q].session = req[q].session
        /\ req'[q].runner = req[q].runner
    <3>1. req'[q] = [req[q] EXCEPT !.pc = "answer"]
          BY <1>0, <1>4, BecomesThat
    <3> QED BY <1>0, <1>2, <1>4, <3>1, BecomesThat DEF Keeps, Request
  <2>2. UNCHANGED <<state, owner, issued>>
        BY <1>4 DEF poolState
  <2>3. PoolPart' /\ ReadyPart'
        BY <1>0, <1>1, <2>2 DEF PoolPart, ReadyPart, ReadyHasShell
  <2>4. IdsPart'
        BY <1>0, <1>1, <2>1, <2>2 DEF IdsPart, Keeps
  <2>5. InventedPart'
        BY <1>0, <1>1, <2>1 DEF InventedPart, Invented, At, Keeps
  <2>6. RunnerPart'
        BY <1>0, <1>1, <2>1, <2>2 DEF RunnerPart, Has, At, Keeps
  <2>7. FreshPart'
    <3>1. \A o \in Slot : (Invented(o) /\ ~At(o, "create"))'
            => o # q /\ Invented(o) /\ ~At(o, "create")
          BY <1>0, <1>1, <1>2, <2>1 DEF Invented, At, Keeps
    <3> QED BY <1>0, <1>1, <2>1, <3>1 DEF FreshPart, Keeps
  <2>8. FlowPart'
        BY <1>0, <1>1, <1>2, <2>1, <2>2 DEF FlowPart, At, Keeps
  <2>9. MountPart'
        BY <1>0, <1>1, <2>1 DEF MountPart, Creates, Kept, At, Keeps
  <2> QED BY <2>3, <2>4, <2>5, <2>6, <2>7, <2>8, <2>9 DEF Parts
<1>5. ASSUME NEW r \in Runner, Bind(r, s), issued' = (IF s > issued THEN s ELSE issued),
             Becomes(q, [req[q] EXCEPT !.pc = "checkNew", !.session = s, !.runner = r])
      PROVE  Parts'
  <2> HIDE DEF s
  <2>1. /\ Keeps(q) /\ req'[q].created = FALSE /\ req'[q].ok = FALSE
        /\ req'[q].pc = "checkNew" /\ req'[q].session = s /\ req'[q].runner = r
    <3>1. req'[q] = [req[q] EXCEPT !.pc = "checkNew", !.session = s, !.runner = r]
          BY <1>0, <1>5, BecomesThat
    <3> QED BY <1>0, <1>2, <1>5, <3>1, BecomesThat DEF Keeps, Request
  <2>2. /\ state[r] = "idle" /\ owner[r] = None /\ \A x \in Runner : owner[x] # s
        /\ state'[r] = "bound" /\ \A x \in Runner \ {r} : state'[x] = state[x]
        /\ owner'[r] = s /\ \A x \in Runner \ {r} : owner'[x] = owner[x]
        BY <1>0, <1>5 DEF Bind, TypeOK, PoolPart
  <2>3. issued' \in Nat /\ issued <= issued' /\ s <= issued' /\ r # None
        BY <1>2, <1>3, <1>5, ConstantsAssumption
  <2>4. PoolPart'
    <3>1. \A x \in Runner : owner'[x] # None => owner'[x] <= issued'
      <4>1. ASSUME NEW x \in Runner \ {r}, owner[x] # None PROVE owner[x] <= issued'
        <5>1. owner[x] \in Nat
              BY <1>0, <4>1, ConstantsAssumption DEF TypeOK
        <5>2. owner[x] <= issued
              BY <1>0, <4>1 DEF PoolPart
        <5> QED BY <1>2, <2>3, <5>1, <5>2
      <4> QED BY <2>2, <2>3, <4>1
    <3>2. \A n \in Mounts : home'[n] # None => state'[home'[n]] \in {"bound", "spent"}
          BY <1>0, <1>1, <2>2 DEF PoolPart, TypeOK
    <3> QED BY <1>0, <1>3, <2>2, <3>1, <3>2 DEF PoolPart
  <2>5. IdsPart'
    <3>1. \A x \in Session \cup {None} : (x # None => x <= issued) => (x # None => x <= issued')
          BY <1>2, <2>3, ConstantsAssumption
    <3>2. /\ cookies.session \in Session \cup {None}
          /\ \A o \in Slot : /\ req[o].session \in Session \cup {None}
                            /\ req[o].sent.session \in Session \cup {None}
          BY <1>0 DEF TypeOK, Cookies, Request
    <3> QED BY <1>0, <1>1, <2>1, <2>3, <3>1, <3>2 DEF IdsPart, Keeps
  <2>6. InventedPart'
        BY <1>0, <1>1, <1>3, <2>1 DEF InventedPart, Invented, At, Keeps
  <2>7. \A o \in Slot : req[o].runner # r
        BY <1>0, <2>2, <2>3 DEF RunnerPart
  <2>8. RunnerPart'
    <3>1. \A o \in Slot \ {q} : req[o].runner # None => req[o].runner \in Runner
          BY <1>0 DEF TypeOK, Request
    <3>2. ASSUME NEW o \in Slot \ {q}, Has(o)'
          PROVE  (/\ req[o].session # None /\ req[o].runner # None
                  /\ \A x \in Runner : owner[x] = req[o].session => x = req[o].runner
                  /\ owner[req[o].runner] \in {None, req[o].session})'
          BY <1>0, <1>3, <2>1, <2>2, <2>7, <3>1, <3>2 DEF RunnerPart, Has, At, Keeps
    <3>3. \A o \in Slot \ {q} : req'[o].runner # None => state'[req'[o].runner] \in {"bound", "spent"}
          BY <1>0, <2>1, <2>2, <2>7, <3>1 DEF RunnerPart, Keeps
    <3> QED BY <1>3, <2>1, <2>2, <2>3, <3>2, <3>3 DEF RunnerPart
  <2>9. FreshPart'
    <3>1. \A o \in Slot \ {q} : (Invented(o) /\ ~At(o, "create"))'
            => Invented(o) /\ ~At(o, "create")
          BY <1>0, <1>1, <2>1 DEF Invented, At, Keeps
    <3>2. \A n \in Mounts : home[n] # r
          BY <1>0, <2>2, <2>3 DEF PoolPart
    <3> QED BY <1>0, <1>1, <2>1, <2>7, <3>1, <3>2 DEF FreshPart, Keeps
  <2>10. FlowPart'
    <3>1. \A o \in Slot : (\A x \in Runner : owner[x] = req[o].sent.session
                                             => req[o].sent.session = None)
            => \A x \in Runner : owner'[x] = req[o].sent.session => req[o].sent.session = None
          BY <1>3, <2>2
    <3> QED BY <1>0, <1>1, <1>2, <2>1, <3>1 DEF FlowPart, At, Keeps
  <2>11. MountPart'
        BY <1>0, <1>1, <1>2, <2>1 DEF MountPart, Creates, Kept, At, Keeps
  <2>12. ReadyPart'
        BY <1>0, <1>1, <1>3, <2>2 DEF ReadyPart, ReadyHasShell
  <2> QED BY <2>4, <2>5, <2>6, <2>8, <2>9, <2>10, <2>11, <2>12 DEF Parts
<1> QED BY <1>4, <1>5 DEF Acquire

LEMMA HandleStep == ASSUME IInv, NEW q \in Slot, Handle(q) PROVE Parts'
<1>0. /\ TypeOK /\ PoolPart /\ IdsPart /\ InventedPart /\ RunnerPart /\ FreshPart
      /\ FlowPart /\ MountPart /\ ReadyPart
      BY DEF IInv, Parts
<1>1. /\ At(q, "proxy")
      /\ UNCHANGED <<state, owner, alive, issued, cookies, view, mount>>
      BY DEF Handle, poolState, pageVars
<1> DEFINE r == req[q].runner
           bash == req[q].sent.bash
           served == alive[r] /\ (req[q].kind = "create" \/ (bash # None /\ home[bash] = r))
<1>2. /\ r \in Runner /\ req[q] \in Request /\ r # None /\ mount \in Nat
      /\ req[q].mount \in 1..mount /\ req[q].mount \in Mounts
      /\ bash \in Mounts \cup {None}
      BY <1>0, <1>1, ConstantsAssumption
      DEF TypeOK, Request, RunnerPart, Has, At, MountPart, Mounts, Cookies
<1>3. /\ Keeps(q) /\ req'[q].created = req[q].created /\ req'[q].ok = served
      /\ req'[q].pc = "answer" /\ req'[q].session = req[q].session
      /\ req'[q].runner = r
  <2>1. req'[q] = [req[q] EXCEPT !.pc = "answer", !.ok = served]
        BY <1>0, BecomesThat DEF Handle
  <2>2. \A o \in Slot \ {q} : req'[o] = req[o]
        BY <1>0, BecomesThat DEF Handle
  <2> HIDE DEF served
  <2> QED BY <1>2, <2>1, <2>2 DEF Keeps, Request
<1>4. \/ served /\ req[q].kind = "create" /\ home' = [home EXCEPT ![req[q].mount] = r]
      \/ served /\ req[q].kind = "delete" /\ bash \in Mounts /\ home' = [home EXCEPT ![bash] = None]
      \/ ~(served /\ req[q].kind = "create") /\ home' = home
      BY <1>2 DEF Handle
\* A runner just bound to a session made up knows no bash session.
<1>5. req[q].created /\ served => req[q].kind = "create"
  <2>1. req[q].created => Invented(q) /\ ~At(q, "create")
        BY <1>0, <1>1 DEF Invented, RunnerPart, Has, At
  <2> QED BY <1>0, <1>2, <2>1 DEF FreshPart
<1> HIDE DEF r, bash, served
<1>6. PoolPart'
  <2>1. state[r] \in {"bound", "spent"}
        BY <1>0, <1>2 DEF RunnerPart, r
  <2>2. \A n \in Mounts : home'[n] \in {home[n], r, None}
        BY <1>0, <1>2, <1>4 DEF TypeOK
  <2> QED BY <1>0, <1>1, <2>1, <2>2 DEF PoolPart
<1>7. IdsPart'
      BY <1>0, <1>1, <1>3 DEF IdsPart, Keeps
<1>8. InventedPart'
      BY <1>0, <1>1, <1>3 DEF InventedPart, Invented, At, Keeps
<1>9. RunnerPart'
      BY <1>0, <1>1, <1>3 DEF RunnerPart, Has, At, Keeps, r
<1>10. FreshPart'
  <2>1. \A o \in Slot : (Invented(o) /\ ~At(o, "create"))'
          => o # q /\ Invented(o) /\ ~At(o, "create") /\ req[o].runner # None
        BY <1>0, <1>1, <1>3 DEF Invented, At, Keeps, RunnerPart, Has
  <2>2. \A o \in Slot \ {q} : Invented(o) /\ ~At(o, "create") => req[o].runner # r
        BY <1>0 DEF FreshPart, r
  <2>3. \A n \in Mounts : home'[n] \in {home[n], r, None}
        BY <1>0, <1>2, <1>4 DEF TypeOK
  <2> QED BY <1>0, <1>1, <1>3, <2>1, <2>2, <2>3 DEF FreshPart, Keeps, r
<1>11. FlowPart'
  <2>1. req'[q].ok => served
        BY <1>3
  <2> QED BY <1>0, <1>1, <1>3, <1>5, <2>1 DEF FlowPart, At, Keeps
<1>12. MountPart'
  <2>1. \A o \in Slot : Creates(o)' <=> Creates(o)
        BY <1>1, <1>3 DEF Creates, At, Keeps
  <2>2. \A o \in Slot : (~At(o, "idle"))' <=> ~At(o, "idle")
        BY <1>1, <1>3 DEF At, Keeps
  <2>3. \A o \in Slot : req'[o].mount = req[o].mount /\ req'[o].sent = req[o].sent
                         /\ req'[o].kind = req[o].kind /\ req'[o].runner = req[o].runner
        BY <1>3 DEF Keeps, r
  <2>4. ASSUME NEW o \in Slot, Creates(o), Kept(o), req'[o].ok, alive[req[o].runner]
        PROVE  home'[mount] = req[o].runner
    <3>1. mount \in Mounts /\ req[o].mount = mount
          BY <1>0, <2>4 DEF MountPart, Kept
    <3>2. CASE o = q
      <4>1. served /\ req[q].kind = "create"
            BY <1>3, <2>4, <3>2 DEF Creates
      <4>2. home' = [home EXCEPT ![mount] = r]
            BY <1>4, <3>1, <3>2, <4>1
      <4> QED BY <1>0, <3>1, <3>2, <4>2 DEF TypeOK, r
    <3>3. CASE o # q
      <4>1. home[mount] = req[o].runner
            BY <1>0, <1>3, <2>4, <3>3 DEF MountPart, Keeps
      <4>2. CASE req[q].kind = "create"
        <5>1. req[q].mount # mount
              BY <1>0, <1>1, <2>4, <3>1, <3>3, <4>2 DEF MountPart, Creates, At
        <5> QED BY <1>0, <1>4, <3>1, <4>1, <4>2, <5>1 DEF TypeOK
      <4>3. CASE req[q].kind = "delete"
        <5>1. bash # mount
              BY <1>0, <1>1, <2>4, <4>3 DEF MountPart, Kept, At, bash
        <5> QED BY <1>0, <1>4, <3>1, <4>1, <4>3, <5>1 DEF TypeOK
      <4>4. CASE req[q].kind \notin {"create", "delete"}
        BY <1>4, <4>1, <4>4
      <4> QED BY <4>2, <4>3, <4>4
    <3> QED BY <3>2, <3>3
  <2> QED BY <1>0, <1>1, <2>1, <2>2, <2>3, <2>4 DEF MountPart, Kept
<1>13. ReadyPart'
  <2>1. ASSUME view = "ready" PROVE home'[mount] = home[mount]
    <3>1. mount \in Mounts
          BY <1>0, <2>1 DEF MountPart
    <3>2. req[q].kind = "create" => req[q].mount # mount
          BY <1>0, <1>1, <2>1 DEF MountPart, Creates, Kept, At
    <3>3. req[q].kind = "delete" => bash # mount
          BY <1>0, <1>1, <2>1 DEF MountPart, At, bash
    <3> QED BY <1>0, <1>4, <3>1, <3>2, <3>3 DEF TypeOK
  <2> QED BY <1>0, <1>1, <2>1 DEF ReadyPart, ReadyHasShell
<1> QED BY <1>6, <1>7, <1>8, <1>9, <1>10, <1>11, <1>12, <1>13 DEF Parts

LEMMA WorldStep == ASSUME IInv, NEW r \in Runner, World(r) PROVE Parts'
<1>0. /\ TypeOK /\ PoolPart /\ IdsPart /\ InventedPart /\ RunnerPart /\ FreshPart
      /\ FlowPart /\ MountPart /\ ReadyPart
      BY DEF IInv, Parts
<1>1. ASSUME NewRunner(r) \/ TakenAway(r) PROVE Parts'
  <2>1. UNCHANGED <<owner, alive, home, issued, cookies, view, mount, req>>
        BY <1>1 DEF NewRunner, TakenAway, Join, Leave, runnerVars, pageVars
  <2>2. /\ \A x \in Runner : state[x] \in {"bound", "spent"} => state'[x] = state[x]
        /\ state'[r] # "bound" /\ state[r] # "bound"
        /\ \A x \in Runner \ {r} : state'[x] = state[x]
        BY <1>0, <1>1 DEF NewRunner, TakenAway, Join, Leave, TypeOK
  <2>3. \A n \in Mounts : home[n] # None => home[n] \in Runner
        BY <1>0 DEF TypeOK
  <2>4. \A o \in Slot : req[o].runner # None => req[o].runner \in Runner
        BY <1>0 DEF TypeOK, Request
  <2>5. PoolPart'
        BY <1>0, <2>1, <2>2, <2>3 DEF PoolPart
  <2>6. RunnerPart'
        BY <1>0, <2>1, <2>2, <2>4 DEF RunnerPart, Has, At
  <2>7. IdsPart' /\ ReadyPart' /\ FlowPart'
        BY <1>0, <2>1 DEF IdsPart, ReadyPart, ReadyHasShell, FlowPart, At
  <2>8. InventedPart' /\ FreshPart'
        BY <1>0, <2>1 DEF InventedPart, FreshPart, Invented, At
  <2>9. MountPart'
        BY <1>0, <2>1 DEF MountPart, Creates, Kept, At
  <2> QED BY <2>5, <2>6, <2>7, <2>8, <2>9 DEF Parts
<1>2. ASSUME Crash(r) PROVE Parts'
  <2>1. /\ UNCHANGED <<state, owner, issued, cookies, view, mount, req>>
        /\ alive'[r] = FALSE /\ \A x \in Runner \ {r} : alive'[x] = alive[x]
        /\ \A n \in Mounts : home'[n] = IF home[n] = r THEN None ELSE home[n]
        BY <1>0, <1>2 DEF Crash, poolState, pageVars, TypeOK
  <2>2. \A x \in Runner, n \in Mounts :
          (alive[x] => home[n] = x) => (alive'[x] => home'[n] = x)
        BY <2>1
  <2>3. PoolPart'
        BY <1>0, <2>1 DEF PoolPart
  <2>4. RunnerPart' /\ IdsPart' /\ FlowPart'
        BY <1>0, <2>1 DEF RunnerPart, Has, At, IdsPart, FlowPart
  <2>5. InventedPart'
        BY <1>0, <2>1 DEF InventedPart, Invented, At
  <2>6. FreshPart'
    <3>1. \A o \in Slot : Invented(o) /\ ~At(o, "create") => req[o].runner # None
          BY <1>0 DEF Invented, At, RunnerPart, Has
    <3> QED BY <1>0, <2>1, <3>1 DEF FreshPart, Invented, At
  <2>7. MountPart'
    <3>1. ASSUME NEW o \in Slot, Creates(o), Kept(o), req[o].ok, alive'[req[o].runner]
          PROVE  home'[mount] = req[o].runner
      <4>1. mount \in Mounts /\ req[o].runner \in Runner
            BY <1>0, <3>1 DEF MountPart, Kept, RunnerPart, Has, FlowPart, TypeOK, Request, At
      <4> QED BY <1>0, <2>1, <2>2, <3>1, <4>1 DEF MountPart
    <3> QED BY <1>0, <2>1, <3>1 DEF MountPart, Creates, Kept, At
  <2>8. ReadyPart'
    <3>1. view = "ready" => mount \in Mounts
          BY <1>0 DEF MountPart
    <3> QED BY <1>0, <2>1, <2>2, <3>1 DEF ReadyPart, ReadyHasShell
  <2> QED BY <2>3, <2>4, <2>5, <2>6, <2>7, <2>8 DEF Parts
<1> QED BY <1>1, <1>2 DEF World

LEMMA IInvInit == Init => IInv
<1> SUFFICES ASSUME Init PROVE IInv
    OBVIOUS
<1>1. /\ \A q \in Slot : /\ req[q] = NoRequest /\ req[q].pc = "idle" /\ req[q].session = None
                        /\ req[q].sent.session = None /\ req[q].runner = None
                        /\ req[q].created = FALSE /\ req[q].ok = FALSE
      /\ \A r \in Runner : state[r] = "out" /\ owner[r] = None
      /\ \A n \in Mounts : home[n] = None
      /\ cookies = NoCookies /\ cookies.session = None /\ view = "none" /\ mount = 0
      BY DEF Init, PoolInit, NoRequest, NoCookies
<1>2. TypeOK
      BY <1>1, NoRequestType, ConstantsAssumption
      DEF Init, PoolInit, TypeOK, NoCookies, Cookies
<1>3. PoolPart /\ IdsPart /\ ReadyPart
      BY <1>1 DEF PoolPart, IdsPart, ReadyPart, ReadyHasShell
<1>4. InventedPart /\ RunnerPart /\ FreshPart /\ FlowPart
      BY <1>1 DEF InventedPart, RunnerPart, FreshPart, FlowPart, Invented, Has, At
<1>5. MountPart
      BY <1>1 DEF MountPart, Creates, Kept, At
<1> QED BY <1>2, <1>3, <1>4, <1>5 DEF IInv, Parts

LEMMA IInvStep == ASSUME EndlessSessions, IInv, [Next]_vars PROVE IInv'
<1>1. TypeOK'
      BY TypeStep
<1>2. Parts'
  <2>1. CASE UNCHANGED vars
    <3>1. UNCHANGED <<state, owner, alive, home, issued, cookies, view, mount, req>>
          BY <2>1 DEF vars, poolState, runnerVars, pageVars
    <3>2. PoolPart' /\ IdsPart' /\ ReadyPart' /\ FlowPart'
          BY <3>1 DEF IInv, Parts, PoolPart, IdsPart, ReadyPart, ReadyHasShell, FlowPart, At
    <3>3. InventedPart' /\ RunnerPart' /\ FreshPart' /\ MountPart'
          BY <3>1 DEF IInv, Parts, InventedPart, RunnerPart, FreshPart, Invented, Has, At,
                      MountPart, Creates, Kept
    <3> QED BY <3>2, <3>3 DEF Parts
  <2>2. ASSUME NEW q \in Slot, Page(q) PROVE Parts'
        BY <2>2, MountStep, RetryStep, ExecuteStep, UnmountStep DEF Page
  <2>3. ASSUME NEW q \in Slot, Resolve(q) PROVE Parts'
        BY <2>3, FindStep, CheckStep, AcquireStep, CheckNewStep DEF Resolve
  <2>4. ASSUME NEW q \in Slot, GiveUp(q) \/ Cancel(q) \/ Handle(q) \/ Answer(q) PROVE Parts'
        BY <2>4, GiveUpStep, CancelStep, HandleStep, AnswerStep
  <2> QED BY <2>1, <2>2, <2>3, <2>4, ReloadStep, WorldStep DEF Next
<1> QED BY <1>1, <1>2 DEF IInv

LEMMA IInvHolds == ASSUME EndlessSessions PROVE Spec => []IInv
<1>1. IInv /\ [Next]_vars => IInv'
      BY IInvStep
<1> QED BY <1>1, IInvInit, PTL DEF Spec

-----------------------------------------------------------------------------
(* Theorems.                                                               *)

\* Every variable keeps its type as long as the broker has ids to hand out.
THEOREM ChainTypeCorrect == ASSUME EndlessSessions PROVE Spec => []TypeOK
<1>1. IInv => TypeOK
      BY DEF IInv
<1> QED BY <1>1, IInvHolds, PTL

\* A page that says the terminal is ready has the cookies of one runner and of the bash
\* session this mount created on it, in spite of every crash, late answer, abort and
\* reload.
THEOREM ReadyTerminalHasShell == ASSUME EndlessSessions PROVE Spec => []ReadyHasShell
<1>1. IInv => ReadyHasShell
      BY DEF IInv, Parts, ReadyPart
<1> QED BY <1>1, IInvHolds, PTL

\* The browser does not forget a runner that is still bound to it.
THEOREM BrowserKeepsItsRunner == ASSUME EndlessSessions PROVE Spec => KeepsItsRunner
<1> DEFINE Keep == cookies.session # None /\ cookies'.session # cookies.session
                     => \A r \in Runner : owner[r] # cookies.session
<1>1. ASSUME IInv, [Next]_vars PROVE [Keep]_vars
  <2>1. ASSUME StoreOnAbort PROVE Keep
        BY <1>1, <2>1, Stored
  <2>2. ASSUME NEW q \in Slot, Answer(q) PROVE Keep
    <3>1. CASE Kept(q) \/ req[q].kind = "delete"
          BY <1>1, <2>2, <3>1, AnswerTells DEF Answer
    <3>2. CASE ~(Kept(q) \/ req[q].kind = "delete")
          BY <2>2, <3>2 DEF Answer
    <3> QED BY <3>1, <3>2
  <2>3. ASSUME NEW q \in Slot, Page(q) PROVE Keep
        BY <2>1, <2>3 DEF Page, Mount, Retry, Execute, Unmount
  <2>4. ASSUME NEW q \in Slot, Resolve(q) \/ GiveUp(q) \/ Cancel(q) \/ Handle(q) PROVE Keep
        BY <2>4 DEF Resolve, Find, Check, Acquire, CheckNew, GiveUp, Cancel, Handle
  <2>5. CASE Reload
        BY <2>1, <2>5 DEF Reload
  <2>6. ASSUME NEW r \in Runner, World(r) PROVE Keep
        BY <2>6 DEF World, NewRunner, TakenAway, Crash
  <2> HIDE DEF Keep
  <2> QED BY <1>1, <2>2, <2>3, <2>4, <2>5, <2>6 DEF Next
<1> HIDE DEF Keep
<1>2. Spec => [][Keep]_vars
      BY <1>1, IInvHolds, PTL DEF Spec
<1> QED BY <1>2 DEF KeepsItsRunner, Keep

=============================================================================

-------------------------------- MODULE Chain --------------------------------
(***************************************************************************)
(* The chain behind a terminal: the page of one browser (useSession,       *)
(* useExecute), its cookies, nginx, the broker and the runners.  The       *)
(* broker is SessionPool, which Broker implements: its calls are steps of  *)
(* the pool here.  Other browsers only take runners away.                  *)
(*                                                                         *)
(* A request carries the cookies of the moment it is sent.  nginx asks the *)
(* broker for the runner (auth_request), passes the request on to it, and  *)
(* adds the broker's cookie and header to an answer that is a success      *)
(* (add_header without always).                                            *)
(***************************************************************************)
EXTENDS Integers, SessionPool

CONSTANTS
  Slot,       \* requests under way at the same time
  MaxMounts,  \* bound: times the page is mounted
  MaxLate,    \* bound: times nginx gives the broker up
  Faults      \* what a run allows to happen

AllFaults == {"slowHealth",  \* a live runner does not answer its health check in time
              "crash",       \* a runner process dies
              "reload"}      \* the page goes away without its cleanup

Mounts == 1..MaxMounts

ASSUME ConstantsAssumption ==
  /\ MaxMounts \in Nat /\ MaxLate \in Nat
  /\ Faults \subseteq AllFaults
  /\ Session \subseteq Nat /\ 0 \notin Session
  /\ None \notin Session \cup Runner \cup Mounts

VARIABLES
  alive,    \* Runner -> its process runs
  issued,   \* the session ids handed out by the broker are 1..issued
  home,     \* the bash session of a mount -> the runner that has it, or None
  cookies,  \* runner_id (a session of the broker) and session_id (a bash session)
  view,     \* what useSession has told the page
  mount,    \* how often the page has been mounted
  late,     \* how often nginx has given the broker up
  req       \* Slot -> a request under way

pageVars == <<view, mount>>
runnerVars == <<alive, home>>
vars == <<poolState, runnerVars, issued, cookies, pageVars, late, req>>

-----------------------------------------------------------------------------
(* Requests                                                                *)

PC == {"idle",
       "find", "check",          \* ResolveSession
       "create", "checkNew",     \* createSession
       "proxy", "answer"}

\* A mount creates at most one bash session: only a create that failed is repeated.
Cookies == [session : Session \cup {None}, bash : Mounts \cup {None}]

Request == [pc         : PC,
            kind       : {"create", "delete", "execute"},
            mount      : 0..MaxMounts,           \* the mount that sent it
            sent       : Cookies,                \* the cookies it carries
            session    : Session \cup {None},    \* the session it acts for
            runner     : Runner \cup {None},
            created    : BOOLEAN,                \* the answer of /resolve: Created
            reassigned : BOOLEAN,                \* and Reassigned
            ok         : BOOLEAN]                \* the answer is a success

NoCookies == [session |-> None, bash |-> None]

NoRequest == [pc |-> "idle", kind |-> "create", mount |-> 0, sent |-> NoCookies,
              session |-> None, runner |-> None, created |-> FALSE,
              reassigned |-> FALSE, ok |-> FALSE]

At(q, pc) == req[q].pc = pc

Becomes(q, r) == req' = [req EXCEPT ![q] = r]

\* fetch with credentials: include.
Fetch(kind) ==
  [NoRequest EXCEPT !.pc = IF cookies.session = None THEN "create" ELSE "find",
                    !.kind = kind, !.mount = mount, !.sent = cookies,
                    !.session = cookies.session]

\* The page still waits for the answer: its AbortController has not been used.
Kept(q) == req[q].mount = mount /\ view # "none"

\* The cookies after the answer of request q: the broker's is added by nginx, the
\* runner's comes with a session it has created.
Told(q) ==
  IF ~req[q].ok THEN cookies
  ELSE [session |-> IF req[q].created THEN req[q].session ELSE cookies.session,
        bash    |-> IF req[q].kind = "create" THEN req[q].mount ELSE cookies.bash]

-----------------------------------------------------------------------------
(* The page                                                                *)

\* A mount that finds the cookie of a bash session takes it for its own.
MountReusesCookie(q) ==
  /\ view = "none" /\ mount < MaxMounts
  /\ mount' = mount + 1
  /\ IF cookies.bash # None
       THEN view' = "ready" /\ UNCHANGED req
       ELSE /\ view' = "loading" /\ At(q, "idle")
            /\ Becomes(q, [Fetch("create") EXCEPT !.mount = mount + 1])
  /\ UNCHANGED <<poolState, runnerVars, issued, cookies, late>>

\* The effect of useSession runs.
Mount(q) ==
  /\ view = "none" /\ mount < MaxMounts
  /\ At(q, "idle")
  /\ mount' = mount + 1
  /\ view' = "loading"
  /\ Becomes(q, [Fetch("create") EXCEPT !.mount = mount + 1])
  /\ UNCHANGED <<poolState, runnerVars, issued, cookies, late>>

\* The timer of a failed attempt.
Retry(q) ==
  /\ view = "retrying"
  /\ \A o \in Slot : ~(Kept(o) /\ ~At(o, "idle") /\ req[o].kind = "create")
  /\ At(q, "idle")
  /\ Becomes(q, Fetch("create"))
  /\ UNCHANGED <<poolState, runnerVars, issued, cookies, pageVars, late>>

\* A command of one of the panes.
Execute(q) ==
  /\ view = "ready"
  /\ At(q, "idle")
  /\ Becomes(q, Fetch("execute"))
  /\ UNCHANGED <<poolState, runnerVars, issued, cookies, pageVars, late>>

\* The browser may have stored the cookies of an answer when its fetch is aborted.
StoreOnAbort ==
  \/ UNCHANGED cookies
  \/ \E q \in Slot : At(q, "answer") /\ Kept(q) /\ cookies' = Told(q)

\* The cleanup of useSession: abort, and DELETE if the session was ready.
Unmount(q) ==
  /\ view # "none"
  /\ view' = "none"
  /\ StoreOnAbort
  /\ IF view = "ready" THEN At(q, "idle") /\ Becomes(q, Fetch("delete"))
                       ELSE UNCHANGED req
  /\ UNCHANGED <<poolState, runnerVars, issued, mount, late>>

\* The page is reloaded: React runs no cleanup.
Reload ==
  /\ "reload" \in Faults
  /\ view # "none"
  /\ view' = "none"
  /\ StoreOnAbort
  /\ UNCHANGED <<poolState, runnerVars, issued, mount, late, req>>

-----------------------------------------------------------------------------
(* The broker                                                              *)

\* A session that is not found is an error, as in CloseSession.
FindOrFail(q) ==
  /\ At(q, "find")
  /\ \/ \E r \in Runner :
          /\ owner[r] = req[q].session
          /\ Becomes(q, [req[q] EXCEPT !.pc = "check", !.runner = r])
     \/ /\ \A r \in Runner : owner[r] # req[q].session
        /\ Becomes(q, [req[q] EXCEPT !.pc = "answer"])
  /\ UNCHANGED <<poolState, runnerVars, issued, cookies, pageVars, late>>

\* FindBySessionID; without the session a new one is created.
Find(q) ==
  /\ At(q, "find")
  /\ \/ \E r \in Runner :
          /\ owner[r] = req[q].session
          /\ Becomes(q, [req[q] EXCEPT !.pc = "check", !.runner = r])
     \/ /\ \A r \in Runner : owner[r] # req[q].session
        /\ Becomes(q, [req[q] EXCEPT !.pc = "create", !.session = None])
  /\ UNCHANGED <<poolState, runnerVars, issued, cookies, pageVars, late>>

CheckPasses(r) == alive[r]
CheckFails(r) == ~alive[r] \/ "slowHealth" \in Faults

\* Delete: unconditional, and nothing if another request has done it.
DeleteRunner(r) == IF state[r] = "bound" THEN Release(r) ELSE UNCHANGED poolState

\* The runner of the cookie is checked, and given up if it does not answer.
Check(q) ==
  LET r == req[q].runner IN
  /\ At(q, "check")
  /\ \/ /\ CheckPasses(r)
        /\ Becomes(q, [req[q] EXCEPT !.pc = "proxy"])
        /\ UNCHANGED poolState
     \/ /\ CheckFails(r)
        /\ DeleteRunner(r)
        /\ Becomes(q, [req[q] EXCEPT !.pc = "create", !.session = None, !.runner = None,
                                     !.reassigned = TRUE])
  /\ UNCHANGED <<runnerVars, issued, cookies, pageVars, late>>

\* AcquireIdle.  The session id is the same for all runners that are tried.
Acquire(q) ==
  LET s == IF req[q].session = None THEN issued + 1 ELSE req[q].session IN
  /\ At(q, "create")
  /\ \/ \E r \in Runner :
          /\ Bind(r, s)
          /\ issued' = IF s > issued THEN s ELSE issued
          /\ Becomes(q, [req[q] EXCEPT !.pc = "checkNew", !.session = s, !.runner = r])
     \/ /\ \A r \in Runner : state[r] # "idle"         \* ErrNoIdleRunner
        /\ Becomes(q, [req[q] EXCEPT !.pc = "answer"])
        /\ UNCHANGED <<poolState, issued>>
  /\ UNCHANGED <<runnerVars, cookies, pageVars, late>>

CheckNew(q) ==
  LET r == req[q].runner IN
  /\ At(q, "checkNew")
  /\ \/ /\ CheckPasses(r)
        /\ Becomes(q, [req[q] EXCEPT !.pc = "proxy", !.created = TRUE])
        /\ UNCHANGED poolState
     \/ /\ CheckFails(r)
        /\ DeleteRunner(r)
        /\ Becomes(q, [req[q] EXCEPT !.pc = "create", !.runner = None])
  /\ UNCHANGED <<runnerVars, issued, cookies, pageVars, late>>

\* nginx waits 10 s for the broker, which gives the request up with it: what is bound
\* stays bound.
GiveUp(q) ==
  /\ late < MaxLate
  /\ req[q].pc \in {"find", "check", "create", "checkNew"}
  /\ late' = late + 1
  /\ Becomes(q, [req[q] EXCEPT !.pc = "answer"])
  /\ UNCHANGED <<poolState, runnerVars, issued, cookies, pageVars>>

\* An aborted request: nginx closes its connections to the broker and the runner, now
\* or too late.
Cancel(q) ==
  /\ ~At(q, "idle") /\ ~Kept(q) /\ req[q].kind # "delete"
  /\ Becomes(q, NoRequest)
  /\ UNCHANGED <<poolState, runnerVars, issued, cookies, pageVars, late>>

-----------------------------------------------------------------------------
(* The runner                                                              *)

\* The three handlers: 404 for a bash session the runner does not have.  A runner that
\* is gone is a 502 of nginx.
Handle(q) ==
  LET r == req[q].runner
      kind == req[q].kind
      bash == req[q].sent.bash
      served == alive[r] /\ (kind = "create" \/ (bash # None /\ home[bash] = r)) IN
  /\ At(q, "proxy")
  /\ Becomes(q, [req[q] EXCEPT !.pc = "answer", !.ok = served])
  /\ home' = CASE served /\ kind = "create" -> [home EXCEPT ![req[q].mount] = r]
               [] served /\ kind = "delete" -> [home EXCEPT ![bash] = None]
               [] OTHER -> home
  /\ UNCHANGED <<poolState, alive, issued, cookies, pageVars, late>>

\* A failed attempt ends in a state of its own.
AnswerFails(q) ==
  /\ At(q, "answer")
  /\ cookies' = IF Kept(q) \/ req[q].kind = "delete" THEN Told(q) ELSE cookies
  /\ IF Kept(q) /\ req[q].kind = "create"
       THEN view' = IF req[q].ok THEN "ready" ELSE "failed"
       ELSE UNCHANGED view
  /\ Becomes(q, NoRequest)
  /\ UNCHANGED <<poolState, runnerVars, issued, mount, late>>

\* Without the AbortController.
AnswerAborted(q) ==
  /\ At(q, "answer")
  /\ cookies' = Told(q)
  /\ IF req[q].kind = "create" /\ view # "none"
       THEN view' = IF req[q].ok THEN "ready" ELSE "retrying"
       ELSE UNCHANGED view
  /\ Becomes(q, NoRequest)
  /\ UNCHANGED <<poolState, runnerVars, issued, mount, late>>

\* The answer reaches the browser; of an aborted request it does not.  A DELETE is
\* kept alive beyond the page.
Answer(q) ==
  /\ At(q, "answer")
  /\ cookies' = IF Kept(q) \/ req[q].kind = "delete" THEN Told(q) ELSE cookies
  /\ IF Kept(q) /\ req[q].kind = "create"
       THEN view' = IF req[q].ok THEN "ready" ELSE "retrying"
       ELSE UNCHANGED view
  /\ Becomes(q, NoRequest)
  /\ UNCHANGED <<poolState, runnerVars, issued, mount, late>>

-----------------------------------------------------------------------------
(* The rest of the world                                                   *)

\* A runner registers.
NewRunner(r) ==
  /\ Join(r)
  /\ UNCHANGED <<runnerVars, issued, cookies, pageVars, late, req>>

\* Another browser takes an idle runner, or it leaves.
TakenAway(r) ==
  /\ state[r] = "idle" /\ Leave(r)
  /\ UNCHANGED <<runnerVars, issued, cookies, pageVars, late, req>>

\* The process of a runner dies, and its bash sessions with it.
Crash(r) ==
  /\ "crash" \in Faults
  /\ state[r] \in {"idle", "bound"} /\ alive[r]
  /\ alive' = [alive EXCEPT ![r] = FALSE]
  /\ home' = [n \in Mounts |-> IF home[n] = r THEN None ELSE home[n]]
  /\ UNCHANGED <<poolState, issued, cookies, pageVars, late, req>>

-----------------------------------------------------------------------------

Init ==
  /\ PoolInit
  /\ alive = [r \in Runner |-> TRUE]
  /\ home = [n \in Mounts |-> None]
  /\ issued = 0 /\ late = 0
  /\ cookies = NoCookies
  /\ view = "none" /\ mount = 0
  /\ req = [q \in Slot |-> NoRequest]

Page(q) == Mount(q) \/ Retry(q) \/ Execute(q) \/ Unmount(q)

Resolve(q) == Find(q) \/ Check(q) \/ Acquire(q) \/ CheckNew(q)

World(r) == NewRunner(r) \/ TakenAway(r) \/ Crash(r)

Next ==
  \/ \E q \in Slot : Page(q) \/ Resolve(q) \/ GiveUp(q) \/ Cancel(q)
                     \/ Handle(q) \/ Answer(q)
  \/ Reload
  \/ \E r \in Runner : World(r)

Spec == Init /\ [][Next]_vars

\* Servers answer, timers fire, and the ECS service starts its runners.
Fairness ==
  /\ \A q \in Slot : WF_vars(Resolve(q) \/ Handle(q) \/ Answer(q))
  /\ WF_vars(\E q \in Slot : Retry(q))
  /\ \A r \in Runner : WF_vars(NewRunner(r))

FairSpec == Spec /\ Fairness

-----------------------------------------------------------------------------
(* Properties                                                              *)

\* Every variable has its type.
TypeOK ==
  /\ state \in [Runner -> {"out", "idle", "bound", "spent"}]
  /\ owner \in [Runner -> Session \cup {None}]
  /\ alive \in [Runner -> BOOLEAN]
  /\ issued \in Nat /\ late \in 0..MaxLate
  /\ home \in [Mounts -> Runner \cup {None}]
  /\ cookies \in Cookies
  /\ view \in {"none", "loading", "retrying", "ready"} /\ mount \in 0..MaxMounts
  /\ req \in [Slot -> Request]

\* When the page says that the terminal is ready, the two cookies, which two servers
\* have set, lead to one runner and to the bash session this mount has created on it,
\* whatever creates, retries and deletions of earlier mounts are still under way;
\* only a runner that has died or was given up by the broker is excepted.
ReadyHasShell ==
  view = "ready" =>
    /\ cookies.bash = mount
    /\ \A r \in Runner : owner[r] = cookies.session /\ alive[r] => home[mount] = r

\* The browser leaves its runner for another one only if the broker has given the old
\* one up: no abort, retry or repeated mount makes it forget a runner that is bound
\* to it (which nobody would ever release).
KeepsItsRunner ==
  [][cookies.session # None /\ cookies'.session # cookies.session
       => \A r \in Runner : owner[r] # cookies.session]_vars

\* A page that connects or retries gets its terminal, unless it goes away or no runner
\* is left for it.
EveryMountGetsReady ==
  view \in {"loading", "retrying"}
    ~> \/ view \in {"ready", "none"}
       \/ \A r \in Runner : state[r] \in {"bound", "spent"}

\* client.ts:43: a command whose session was given a new runner because the old one was
\* dead is answered with the header that tells so, which only a success carries.
ReassignmentIsTold ==
  \A q \in Slot :
    /\ At(q, "answer") /\ req[q].kind = "execute"
    /\ req[q].reassigned /\ req[q].created
    => req[q].ok
=============================================================================

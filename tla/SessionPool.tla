----------------------------- MODULE SessionPool -----------------------------
(***************************************************************************)
(* What the broker promises, without table, indexes or requests: a pool of *)
(* disposable runners.  A runner is out of the pool, then idle, then bound *)
(* to one session, then spent, and never goes back; a session is bound to  *)
(* one runner at a time.  (model/runner.go, the Repository interface of    *)
(* store/repository.go.)                                                   *)
(***************************************************************************)
CONSTANTS Runner, Session, None

VARIABLES
  state,  \* Runner -> "out", "idle", "bound" or "spent"
  owner   \* Runner -> the session a bound runner belongs to, else None

poolState == <<state, owner>>

PoolInit ==
  /\ state = [r \in Runner |-> "out"]
  /\ owner = [r \in Runner |-> None]

\* Register.
Join(r) ==
  /\ state[r] = "out"
  /\ state' = [state EXCEPT ![r] = "idle"]
  /\ UNCHANGED owner

\* AcquireIdle: the session has no runner, and the runner never had a session.
Bind(r, s) ==
  /\ state[r] = "idle"
  /\ \A q \in Runner : owner[q] # s
  /\ state' = [state EXCEPT ![r] = "bound"]
  /\ owner' = [owner EXCEPT ![r] = s]

\* Delete of a bound runner, by whoever found it dead or closed its session.
Release(r) ==
  /\ state[r] = "bound"
  /\ state' = [state EXCEPT ![r] = "spent"]
  /\ owner' = [owner EXCEPT ![r] = None]

\* A runner that has served nobody leaves, or gives up before it has joined.
Leave(r) ==
  /\ state[r] \in {"out", "idle"}
  /\ state' = [state EXCEPT ![r] = "spent"]
  /\ UNCHANGED owner

PoolNext ==
  \E r \in Runner :
    \/ Join(r) \/ Release(r) \/ Leave(r)
    \/ \E s \in Session : Bind(r, s)

PoolSpec == PoolInit /\ [][PoolNext]_poolState
=============================================================================

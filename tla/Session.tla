------------------------------ MODULE Session ------------------------------
(***************************************************************************)
(* What a bash session promises to those who use it, without pipes,        *)
(* markers or locks: commands run one at a time; a client is sent the      *)
(* lines of its own command as they come, and at the end its status and    *)
(* what it wrote to stderr; a command is given up only if its client has   *)
(* left, the session was deleted, or a command has done harm to it.        *)
(***************************************************************************)
EXTENDS Naturals

CONSTANTS
  Req, Command,
  None   \* no command yet, no result yet

VARIABLES
  call,   \* Req -> the request as its client sees it
  closed  \* the session was deleted

session == <<call, closed>>

NoCall == [state |-> "none", cmd |-> None, left |-> FALSE, output |-> <<>>, result |-> None]

Is(r, state) == call[r].state = state

Becomes(r, c) == call' = [call EXCEPT ![r] = c]

Free == \A r \in Req : ~Is(r, "served")

Line(r, is) == [of |-> r, is |-> is]

\* What the command of r prints, and the result that is due to r.
Output(r) == [i \in DOMAIN call[r].cmd.out |-> Line(r, call[r].cmd.out[i])]
Result(r) == [status |-> r, err |-> IF call[r].cmd.err THEN <<Line(r, "text")>> ELSE <<>>]

\* A command of this kind has come as far as the session.
Tried(does) ==
  \E r \in Req : call[r].state \in {"served", "answered", "failed"} /\ call[r].cmd.does = does

Harmed == closed \/ Tried("floods") \/ Tried("reads") \/ Tried("exits")

-----------------------------------------------------------------------------

SessionInit == call = [r \in Req |-> NoCall] /\ closed = FALSE

Send(r, c) ==
  /\ Is(r, "none")
  /\ Becomes(r, [call[r] EXCEPT !.cmd = c, !.state = IF closed THEN "refused" ELSE "waiting"])
  /\ UNCHANGED closed

\* The command is not allowed.
Reject(r) ==
  /\ Is(r, "waiting")
  /\ Becomes(r, [call[r] EXCEPT !.state = "refused"])
  /\ UNCHANGED closed

Leave(r) ==
  /\ call[r].state \in {"waiting", "served"}
  /\ Becomes(r, [call[r] EXCEPT !.left = TRUE])
  /\ UNCHANGED closed

Serve(r) ==
  /\ Is(r, "waiting") /\ Free
  /\ Becomes(r, [call[r] EXCEPT !.state = "served"])
  /\ UNCHANGED closed

\* Some more lines, up to the n-th.
Put(r) ==
  /\ Is(r, "served")
  /\ \E n \in DOMAIN Output(r) \ DOMAIN call[r].output :
       Becomes(r, [call[r] EXCEPT !.output = [i \in 1..n |-> Output(r)[i]]])
  /\ UNCHANGED closed

\* The result is the command's own as long as no command has read the script.
Answer(r) ==
  /\ Is(r, "served")
  /\ call[r].output = Output(r)
  /\ \E result \in IF Tried("reads") THEN {call'[r].result} ELSE {Result(r)} :
       Becomes(r, [call[r] EXCEPT !.state = "answered", !.result = result])
  /\ UNCHANGED closed

Fail(r) ==
  /\ \/ Is(r, "served") /\ (call[r].left \/ Harmed)
     \/ Is(r, "waiting") /\ Free /\ Harmed
  /\ Becomes(r, [call[r] EXCEPT !.state = "failed"])
  /\ UNCHANGED closed

Delete == closed' = TRUE /\ UNCHANGED call

SessionNext ==
  \/ \E r \in Req :
       \/ \E c \in Command : Send(r, c)
       \/ Reject(r) \/ Leave(r) \/ Serve(r) \/ Put(r) \/ Answer(r) \/ Fail(r)
  \/ Delete

SessionSpec == SessionInit /\ [][SessionNext]_session
=============================================================================

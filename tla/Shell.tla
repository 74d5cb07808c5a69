------------------------------- MODULE Shell -------------------------------
(***************************************************************************)
(* One bash session of a runner (runner/shell.go): the requests that       *)
(* execute commands in it, the requests that delete it, readStderr, and    *)
(* bash itself behind three pipes.  Sessions share nothing but the map of  *)
(* the SessionManager, so one is enough.                                   *)
(*                                                                         *)
(* One step of a request is what Go does between two points at which       *)
(* another process can be noticed: mu, a pipe, stderrMu, the context.      *)
(***************************************************************************)
EXTENDS Naturals, Sequences

CONSTANTS
  Req,       \* POST /api/execute with the session's cookie
  Closer,    \* DELETE /api/session with that cookie, or CloseAll
  Command,   \* what clients may send
  None       \* no holder, no marker, an empty string

\* What a command does, besides what it prints, to the bash that runs it.
Does == {"returns",
         "reads",    \* takes the next line of stdin, which is __ec=$?
         "mutes",    \* redirects the stderr of bash itself
         "floods",   \* prints a line of more than 1 MiB
         "exits"}    \* ends bash

\* Whether the lines of out are empty or not; open: the last has no newline.
IsCommand(c) ==
  /\ DOMAIN c = {"out", "open", "err", "does"}
  /\ c.out \in Seq({"text", "empty"}) /\ c.open \in BOOLEAN
  /\ c.open => c.out # <<>> /\ c.out[Len(c.out)] = "text"
  /\ c.err \in BOOLEAN /\ c.does \in Does

ASSUME ShellAssumption ==
  /\ Req \cap Closer = {} /\ None \notin Req \cup Closer \cup Command
  /\ \A c \in Command : IsCommand(c)

VARIABLES
  listed,    \* the session is in SessionManager.sessions
  job,       \* Req -> the request and the locals of its ExecuteStream
  closer,    \* Closer -> where Delete and Close are
  mu,        \* who holds bashShell.mu
  broken,    \* bashShell.broken # nil
  errMarker, \* bashShell.stderrMarker, as the request it belongs to
  errDone,   \* bashShell.stderrDone is closed
  errBuf,    \* bashShell.stderrBuf
  stdin, stdout, stderr,   \* the pipes
  bash       \* the process behind them

vars == <<listed, job, closer, mu, broken, errMarker, errDone, errBuf,
          stdin, stdout, stderr, bash>>
stderrState == <<errMarker, errDone, errBuf>>
pipes == <<stdin, stdout, stderr>>

-----------------------------------------------------------------------------
(* Requests, lines and scripts                                             *)

Ended == {"refused",    \* 403 or 404
          "failed",     \* exit code -1 and no stderr
          "answered"}

PC == {"new", "judge", "lock", "write", "scan", "await"} \cup Ended

\* Delete answers 404 to all but the first; the first waits for mu, then for bash.
CloserPC == {"new", "lock", "wait", "closed", "missing"}

NoJob == [pc |-> "new", cmd |-> None, gone |-> FALSE, cut |-> FALSE, pending |-> FALSE,
          sent |-> <<>>, status |-> None, err |-> <<>>]

At(r, pc) == job[r].pc = pc

Becomes(r, j) == job' = [job EXCEPT ![r] = j]

Goto(r, pc) == Becomes(r, [job[r] EXCEPT !.pc = pc])

\* A line of output, and whose it is.  A marker line ends in the exit status of a command.
Line(r, is) == [of |-> r, is |-> is, status |-> None]
Marker(r, status) == [of |-> r, is |-> "marker", status |-> status]

IsMarkerOf(l, r) == l.of = r /\ l.is = "marker"

\* The two parts of a script: reloadEnv, the command and __ec=$?; then the markers.
Script(r) == <<[do |-> "run", of |-> r], [do |-> "mark", of |-> r]>>
ExitLine == [do |-> "exit", of |-> None]

\* ExecuteStream returns.
Return(r, pc) ==
  /\ Goto(r, pc)
  /\ mu' = None

-----------------------------------------------------------------------------
(* handleExecute up to ExecuteStream                                       *)

SessionGet == IF listed THEN "judge" ELSE "refused"

\* The shell that SessionManager.Get returns stays with the request, whatever becomes of the
\* map.
Get(r) ==
  /\ At(r, "new")
  /\ \E c \in Command : Becomes(r, [job[r] EXCEPT !.cmd = c, !.pc = SessionGet])
  /\ UNCHANGED <<listed, closer, mu, broken, stderrState, pipes, bash>>

\* Up to 1 + maxRetries calls of the model, as long as its answer cannot be parsed; a call
\* that fails lets the command pass (ValidationUnavailableError).
Calls == [1..3 -> {"error", "unparsable", "safe", "unsafe"}]

Passes(calls) ==
  \E i \in 1..3 : /\ calls[i] \in {"error", "safe"}
                  /\ \A k \in 1..(i - 1) : calls[k] = "unparsable"

\* Which commands are on the whitelist, and pass without a call, is left open.
classifyCommand == {"whitelisted", "validated"}

Judge(r) ==
  /\ At(r, "judge")
  /\ \E class \in classifyCommand, passes \in {Passes(calls) : calls \in Calls} :
       Goto(r, IF class = "whitelisted" \/ passes THEN "lock" ELSE "refused")
  /\ UNCHANGED <<listed, closer, mu, broken, stderrState, pipes, bash>>

\* The client closes its connection: the context of the request is cancelled.
Leave(r) ==
  /\ ~At(r, "new") /\ job[r].pc \notin Ended /\ ~job[r].gone
  /\ Becomes(r, [job[r] EXCEPT !.gone = TRUE])
  /\ UNCHANGED <<listed, closer, mu, broken, stderrState, pipes, bash>>

-----------------------------------------------------------------------------
(* ExecuteStream                                                           *)

Refuse(r) ==
  /\ At(r, "lock") /\ mu = None /\ broken
  /\ Goto(r, "failed")
  /\ UNCHANGED <<listed, closer, mu, broken, stderrState, pipes, bash>>

\* stderrDone is made only once.
BeginWithOldDone(r) ==
  /\ At(r, "lock") /\ mu = None /\ ~broken
  /\ mu' = r
  /\ Goto(r, "write")
  /\ errBuf' = <<>> /\ errMarker' = r
  /\ UNCHANGED <<errDone, listed, closer, broken, pipes, bash>>

\* A marker that was never found stays.
BeginWithOldMarker(r) ==
  /\ At(r, "lock") /\ mu = None /\ ~broken
  /\ mu' = r
  /\ Goto(r, "write")
  /\ errBuf' = <<>> /\ errMarker' = (IF errMarker = None THEN r ELSE errMarker) /\ errDone' = FALSE
  /\ UNCHANGED <<listed, closer, broken, pipes, bash>>

\* resetStderr, and a marker for readStderr.
Begin(r) ==
  /\ At(r, "lock") /\ mu = None /\ ~broken
  /\ mu' = r
  /\ Goto(r, "write")
  /\ errBuf' = <<>> /\ errMarker' = r /\ errDone' = FALSE
  /\ UNCHANGED <<listed, closer, broken, pipes, bash>>

\* A client that has left before this point costs nothing; a dead bash breaks the session.
Write(r) ==
  /\ At(r, "write")
  /\ \/ /\ job[r].gone
        /\ Return(r, "failed")
        /\ UNCHANGED <<broken, stdin>>
     \/ /\ ~job[r].gone /\ bash.state = "gone"
        /\ Return(r, "failed")
        /\ broken' = TRUE
        /\ UNCHANGED stdin
     \/ /\ ~job[r].gone /\ bash.state # "gone"
        /\ Goto(r, "scan")
        /\ stdin' = stdin \o Script(r)
        /\ UNCHANGED <<mu, broken>>
  /\ UNCHANGED <<listed, closer, stderrState, stdout, stderr, bash>>

\* Scan has a line.
line == Head(stdout)

Reads(r) ==
  /\ At(r, "scan")
  /\ stdout # <<>>
  /\ stdout' = Tail(stdout)
  /\ UNCHANGED <<listed, closer, stderrState, stdin, stderr, bash>>

\* The early return forgets the lock.
ReadBadMarkerLocked(r) ==
  /\ Reads(r)
  /\ IsMarkerOf(line, r) /\ line.status = None
  /\ Goto(r, "failed")
  /\ UNCHANGED <<mu, broken>>

\* Atoi has nothing to parse: the request fails at once, and the session is not broken.
ReadBadMarker(r) ==
  /\ Reads(r)
  /\ IsMarkerOf(line, r) /\ line.status = None
  /\ Return(r, "failed")
  /\ UNCHANGED broken

ReadMarker(r) ==
  /\ Reads(r)
  /\ IsMarkerOf(line, r) /\ line.status # None
  /\ Becomes(r, [job[r] EXCEPT !.pc = "await", !.status = line.status])
  /\ UNCHANGED <<mu, broken>>

\* After a failed send the rest of the output is read and dropped.
Drain(r) ==
  /\ Reads(r)
  /\ ~IsMarkerOf(line, r) /\ line.is # "long" /\ job[r].cut
  /\ UNCHANGED <<job, mu, broken>>

\* No empty line is held back.
PassEverything(r) ==
  /\ Reads(r)
  /\ ~IsMarkerOf(line, r) /\ line.is # "long" /\ ~job[r].cut
  /\ Becomes(r, [job[r] EXCEPT !.sent = Append(@, line)])
  /\ UNCHANGED <<mu, broken>>

\* A failed send ends the request at once.
PassOrReturn(r) ==
  /\ Reads(r)
  /\ ~IsMarkerOf(line, r) /\ line.is # "long" /\ ~job[r].cut
  /\ \/ /\ job[r].gone
        /\ Return(r, "failed")
     \/ /\ Becomes(r, [job[r] EXCEPT !.sent = Append(@, line)])
        /\ UNCHANGED mu
  /\ UNCHANGED broken

\* An empty line is held back until it is known that no marker follows.  With the client
\* gone, select may send or give up; whatever it gives up, the session counts as broken.
Pass(r) ==
  /\ Reads(r)
  /\ ~IsMarkerOf(line, r) /\ line.is # "long" /\ ~job[r].cut
  /\ LET held == IF job[r].pending THEN <<Line(line.of, "empty")>> ELSE <<>>
         due  == held \o (IF line.is = "empty" THEN <<>> ELSE <<line>>)
     IN \E n \in 0..Len(due) :
          /\ n < Len(due) => job[r].gone
          /\ Becomes(r, [job[r] EXCEPT !.sent = @ \o SubSeq(due, 1, n),
                                       !.cut = n < Len(due),
                                       !.pending = line.is = "empty"])
          /\ broken' = (broken \/ n < Len(due))
  /\ UNCHANGED mu

\* bufio.ErrTooLong.  Nobody reads stdout after this.
ReadTooLong(r) ==
  /\ Reads(r)
  /\ line.is = "long"
  /\ Return(r, "failed")
  /\ broken' = TRUE

ReadEOF(r) ==
  /\ At(r, "scan")
  /\ stdout = <<>> /\ bash.state = "gone"
  /\ Return(r, "failed")
  /\ broken' = TRUE
  /\ UNCHANGED <<listed, closer, stderrState, pipes, bash>>

\* A session that was drained to its marker stays broken.
AwaitErrBroken(r) ==
  /\ At(r, "await") /\ errDone
  /\ mu' = None
  /\ IF job[r].cut
     THEN Goto(r, "failed")
     ELSE Becomes(r, [job[r] EXCEPT !.pc = "answered", !.err = errBuf])
  /\ UNCHANGED <<listed, closer, broken, stderrState, pipes, bash>>

\* stderrDone is waited for without the context.  The marker of a request whose client has
\* left puts the session right again.
AwaitErr(r) ==
  /\ At(r, "await") /\ errDone
  /\ mu' = None
  /\ IF job[r].cut
     THEN /\ broken' = FALSE
          /\ Goto(r, "failed")
     ELSE /\ Becomes(r, [job[r] EXCEPT !.pc = "answered", !.err = errBuf])
          /\ UNCHANGED broken
  /\ UNCHANGED <<listed, closer, stderrState, pipes, bash>>

\* readStderr: the first marker in the buffer is taken out of it (checkStderrMarker).
ReadErr ==
  /\ stderr # <<>>
  /\ stderr' = Tail(stderr)
  /\ LET content == Append(errBuf, Head(stderr))
         found == {i \in 1..Len(content) : IsMarkerOf(content[i], errMarker)}
     IN \/ /\ found = {}
           /\ errBuf' = content
           /\ UNCHANGED <<errMarker, errDone>>
        \/ \E i \in found :
             /\ \A k \in found : i <= k
             /\ errBuf' = SubSeq(content, 1, i - 1) \o SubSeq(content, i + 1, Len(content))
             /\ errMarker' = None
             /\ errDone' = TRUE
  /\ UNCHANGED <<listed, job, closer, mu, broken, stdin, stdout, bash>>

-----------------------------------------------------------------------------
(* The end of a session.  CloseAll empties the map and closes what was in  *)
(* it; for one session that is Delete.                                     *)

\* The session is left in the map.
DeleteKeepsEntry(d) ==
  /\ closer[d] = "new"
  /\ closer' = [closer EXCEPT ![d] = IF listed THEN "lock" ELSE "missing"]
  /\ UNCHANGED <<listed, job, mu, broken, stderrState, pipes, bash>>

Delete(d) ==
  /\ closer[d] = "new"
  /\ closer' = [closer EXCEPT ![d] = IF listed THEN "lock" ELSE "missing"]
  /\ listed' = FALSE
  /\ UNCHANGED <<job, mu, broken, stderrState, pipes, bash>>

Close(d) ==
  /\ closer[d] = "lock" /\ mu = None
  /\ mu' = d
  /\ closer' = [closer EXCEPT ![d] = "wait"]
  /\ stdin' = IF bash.state = "gone" THEN stdin ELSE Append(stdin, ExitLine)
  /\ UNCHANGED <<listed, job, broken, stderrState, stdout, stderr, bash>>

Wait(d) ==
  /\ closer[d] = "wait" /\ bash.state = "gone"
  /\ mu' = None
  /\ closer' = [closer EXCEPT ![d] = "closed"]
  /\ UNCHANGED <<listed, job, broken, stderrState, pipes, bash>>

-----------------------------------------------------------------------------
(* bash reads its script line by line.  What a command prints is in the    *)
(* pipes at once: the reader takes it out line by line, at any later time. *)
(* Only a line that no pipe can hold keeps bash waiting for a reader.      *)

BashRun ==
  /\ bash.state = "ready"
  /\ stdin # <<>> /\ Head(stdin).do = "run"
  /\ stdin' = Tail(stdin)
  /\ LET r == Head(stdin).of
         c == job[r].cmd
         out == [i \in DOMAIN c.out |-> Line(r, c.out[i])]
     IN /\ stdout' = stdout \o out \o (IF c.does = "floods" THEN <<Line(r, "long")>> ELSE <<>>)
        /\ stderr' = IF c.err /\ ~bash.mute THEN Append(stderr, Line(r, "text")) ELSE stderr
        /\ \E state \in CASE c.does = "exits"  -> {"gone"}
                          [] c.does = "floods" -> {"ready", "stuck"}
                          [] OTHER             -> {"ready"} :
             bash' = [state |-> state,
                      mute  |-> bash.mute \/ c.does = "mutes",
                      open  |-> c.open /\ c.does # "floods",
                      ec    |-> IF c.does = "reads" THEN bash.ec ELSE r]
  /\ UNCHANGED <<listed, job, closer, mu, broken, stderrState>>

\* The marker on stderr, an empty line, which only ends a line that is open, and the
\* marker on stdout with $__ec.
BashMark ==
  /\ bash.state = "ready"
  /\ stdin # <<>> /\ Head(stdin).do = "mark"
  /\ stdin' = Tail(stdin)
  /\ LET r == Head(stdin).of
     IN /\ stdout' = stdout \o (IF bash.open THEN <<>> ELSE <<Line(r, "empty")>>)
                            \o <<Marker(r, bash.ec)>>
        /\ stderr' = IF bash.mute THEN stderr ELSE Append(stderr, Marker(r, None))
  /\ bash' = [bash EXCEPT !.open = FALSE]
  /\ UNCHANGED <<listed, job, closer, mu, broken, stderrState>>

BashExit ==
  /\ bash.state = "ready"
  /\ stdin # <<>> /\ Head(stdin) = ExitLine
  /\ stdin' = Tail(stdin)
  /\ bash' = [bash EXCEPT !.state = "gone"]
  /\ UNCHANGED <<listed, job, closer, mu, broken, stderrState, stdout, stderr>>

-----------------------------------------------------------------------------

NewBashShell ==
  /\ mu = None
  /\ broken = FALSE
  /\ errMarker = None /\ errDone = FALSE /\ errBuf = <<>>
  /\ stdin = <<>> /\ stdout = <<>> /\ stderr = <<>>
  /\ bash = [state |-> "ready", ec |-> None, open |-> FALSE, mute |-> FALSE]

\* Create has put a new shell into the map.
Init ==
  /\ NewBashShell
  /\ listed = TRUE
  /\ job = [r \in Req |-> NoJob]
  /\ closer = [d \in Closer |-> "new"]

ExecuteStream(r) ==
  \/ Refuse(r) \/ Begin(r) \/ Write(r)
  \/ ReadBadMarker(r) \/ ReadMarker(r) \/ Drain(r) \/ Pass(r) \/ ReadTooLong(r) \/ ReadEOF(r)
  \/ AwaitErr(r)

Bash == BashRun \/ BashMark \/ BashExit

Next ==
  \/ \E r \in Req : Get(r) \/ Judge(r) \/ Leave(r) \/ ExecuteStream(r)
  \/ \E d \in Closer : Delete(d) \/ Close(d) \/ Wait(d)
  \/ ReadErr
  \/ Bash

Spec == Init /\ [][Next]_vars

\* Goroutines go on when they can, readStderr too, and commands end.  Nobody has to send a
\* request, to leave or to delete the session.  A request takes mu once, so that weak
\* fairness is all that a waiter needs.
FairSpec ==
  /\ Spec
  /\ \A r \in Req : WF_vars(Judge(r) \/ ExecuteStream(r))
  /\ \A d \in Closer : WF_vars(Close(d) \/ Wait(d))
  /\ WF_vars(ReadErr)
  /\ WF_vars(Bash)

-----------------------------------------------------------------------------
(* Properties                                                              *)

Lines == [of : Req, is : {"text", "empty", "long", "marker"}, status : Req \cup {None}]

Jobs == [pc : PC, cmd : Command \cup {None}, gone : BOOLEAN, cut : BOOLEAN,
         pending : BOOLEAN, sent : Seq(Lines), status : Req \cup {None}, err : Seq(Lines)]

\* Types, and that mu is held exactly by the one who is between its Lock and its Unlock.
TypeOK ==
  /\ listed \in BOOLEAN /\ broken \in BOOLEAN
  /\ job \in [Req -> Jobs]
  /\ closer \in [Closer -> CloserPC]
  /\ mu \in Req \cup Closer \cup {None}
  /\ \A r \in Req : (job[r].pc \in {"write", "scan", "await"}) <=> mu = r
  /\ \A d \in Closer : closer[d] = "wait" <=> mu = d
  /\ errMarker \in Req \cup {None} /\ errDone \in BOOLEAN /\ errBuf \in Seq(Lines)
  /\ stdin \in Seq({ExitLine} \cup [do : {"run", "mark"}, of : Req])
  /\ stdout \in Seq(Lines) /\ stderr \in Seq(Lines)
  /\ bash \in [state : {"ready", "stuck", "gone"}, ec : Req \cup {None},
               open : BOOLEAN, mute : BOOLEAN]

\* A command of this kind has come as far as the shell.
Tried(does) ==
  \E r \in Req : /\ job[r].pc \notin {"new", "judge", "lock", "refused"}
                 /\ job[r].cmd.does = does

OwnLines(r) == [i \in DOMAIN job[r].cmd.out |-> Line(r, job[r].cmd.out[i])]

\* The lines sent to a client are those its own command printed, from the first on, in their
\* order and with their empty lines, none of another's and none of the protocol's; if there
\* is an answer, they are all of them (the marker protocol, shell.go:51, and pendingEmpty).
OwnOutput ==
  \A r \in Req : ~At(r, "new") =>
    /\ Len(job[r].sent) <= Len(OwnLines(r))
    /\ job[r].sent = SubSeq(OwnLines(r), 1, Len(job[r].sent))
    /\ At(r, "answered") => Len(job[r].sent) = Len(OwnLines(r))

\* An answer carries the exit status of the request's own command and exactly what that
\* command wrote to stderr, although stderr is read by another goroutine (shell.go:243).
\* As long as no command has read the script that follows it.
OwnResult ==
  \A r \in Req : At(r, "answered") /\ ~Tried("reads") =>
    /\ job[r].status = r
    /\ job[r].err = IF job[r].cmd.err THEN <<Line(r, "text")>> ELSE <<>>

\* A session whose lock is free and that is not broken is in step: bash has done all of its
\* script, and all that it printed to stdout has been read (shell.go:123).
InStepOrBroken ==
  mu = None /\ ~broken /\ bash.state # "gone" =>
    stdin = <<>> /\ stdout = <<>> /\ bash.state = "ready"

\* A session is only refused for good when bash is dead or its stdout is no longer read:
\* no client breaks it by leaving, whenever it leaves (shell.go:302).  Unless its command has
\* read the script: a marker that cannot be parsed is consumed, and broken stays.
LeavingIsHarmless ==
  mu = None /\ broken => bash.state = "gone" \/ Tried("floods") \/ Tried("reads")

\* The refinement mapping to Session.
StateOf(pc) == CASE pc = "new"                         -> "none"
                 [] pc \in {"judge", "lock"}           -> "waiting"
                 [] pc \in {"write", "scan", "await"}  -> "served"
                 [] OTHER                              -> pc

Seen(lines) == [i \in DOMAIN lines |-> [of |-> lines[i].of, is |-> lines[i].is]]

CallOf(j) ==
  [state  |-> StateOf(j.pc), cmd |-> j.cmd, left |-> j.gone, output |-> Seen(j.sent),
   result |-> IF j.pc = "answered" THEN [status |-> j.status, err |-> Seen(j.err)] ELSE None]

callOf == [r \in Req |-> CallOf(job[r])]

Abstract == INSTANCE Session WITH call <- callOf, closed <- ~listed

\* Behind its pipes and markers the shell implements Session: what a client gets is its
\* own, in the order in which the shell serves commands one at a time, and exit code -1
\* (shell.go:254) has one of three reasons, of which no other client's leaving is one.
ImplementsSession == Abstract!SessionSpec

\* A shell is closed by one of those who delete it, and never while it is in the map, so
\* that Wait is called once (session.go:92).
ClosedOnce ==
  \A d, e \in Closer :
    closer[d] \in {"lock", "wait", "closed"} =>
      /\ ~listed
      /\ closer[e] \in {"lock", "wait", "closed"} => d = e

\* Every request and every deletion ends, those of clients that have left and those that
\* wait for mu included: again and again none is under way.  Two commands can prevent it, one
\* that takes the marker's way away (ExecuteStream waits for stderrDone, shell.go:299), and one
\* whose line nobody reads to its end (Close waits for bash, shell.go:348).
EveryCallReturns ==
  []<>(\/ /\ \A r \in Req : job[r].pc \in Ended \cup {"new"}
         /\ \A d \in Closer : closer[d] \in {"new", "closed", "missing"}
       \/ Tried("mutes")
       \/ bash.state = "stuck")

=============================================================================

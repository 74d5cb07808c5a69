---------------------------- MODULE ShellProofs ----------------------------
(***************************************************************************)
(* What holds of Shell for any number of requests, deletions and commands: *)
(* types and the exclusion by mu, that a shell is closed once, and that a  *)
(* session is in step with bash or refuses.                                *)
(***************************************************************************)
EXTENDS Shell, TLAPS

\* Between Lock and Unlock of ExecuteStream.
Held == {"write", "scan", "await"}

\* A request that has passed Get has a command.
JobsTyped ==
  /\ job \in [Req -> Jobs]
  /\ \A r \in Req : job[r].pc # "new" => job[r].cmd \in Command

Locked ==
  /\ mu \in Req \cup Closer \cup {None}
  /\ closer \in [Closer -> CloserPC]
  /\ \A r \in Req : job[r].pc \in Held <=> mu = r
  /\ \A d \in Closer : closer[d] = "wait" <=> mu = d

StateTyped ==
  /\ listed \in BOOLEAN /\ broken \in BOOLEAN
  /\ errMarker \in Req \cup {None} /\ errDone \in BOOLEAN /\ errBuf \in Seq(Lines)
  /\ stdin \in Seq({ExitLine} \cup [do : {"run", "mark"}, of : Req])
  /\ stdout \in Seq(Lines) /\ stderr \in Seq(Lines)
  /\ bash \in [state : {"ready", "stuck", "gone"}, ec : Req \cup {None},
               open : BOOLEAN, mute : BOOLEAN]

\* Bash is only told to run what a client has sent.
Runnable == \A i \in 1..Len(stdin) : stdin[i].do = "run" => job[stdin[i].of].cmd \in Command

TypeInv == JobsTyped /\ Locked /\ StateTyped /\ Runnable

LEMMA TypesFollow ==
  ASSUME TypeInv PROVE TypeOK
BY DEF TypeInv, TypeOK, JobsTyped, Locked, StateTyped, Held

Step(r) == Get(r) \/ Judge(r) \/ Leave(r) \/ ExecuteStream(r)
Ending(d) == Delete(d) \/ Close(d) \/ Wait(d)

LEMMA NextIsOneOf ==
  ASSUME [Next]_vars
  PROVE  \/ \E r \in Req : Step(r)
         \/ \E d \in Closer : Ending(d)
         \/ ReadErr \/ BashRun \/ BashMark \/ BashExit
         \/ UNCHANGED vars
BY DEF Next, Step, Ending, Bash

LEMMA InitTyped ==
  ASSUME Init PROVE TypeInv
<1> USE ShellAssumption DEF Init, NewBashShell
<1>1. NoJob \in Jobs
  BY DEF NoJob, Jobs, PC
<1>2. JobsTyped
  BY <1>1 DEF JobsTyped, NoJob
<1>3. Locked
  BY DEF Locked, NoJob, Held, CloserPC
<1>4. StateTyped
  <2>1. bash \in [state : {"ready", "stuck", "gone"}, ec : Req \cup {None},
                 open : BOOLEAN, mute : BOOLEAN]
    OBVIOUS
  <2>2. stdin \in Seq({ExitLine} \cup [do : {"run", "mark"}, of : Req])
    OBVIOUS
  <2>3. stdout \in Seq(Lines) /\ stderr \in Seq(Lines) /\ errBuf \in Seq(Lines)
    OBVIOUS
  <2> QED BY <2>1, <2>2, <2>3 DEF StateTyped
<1>5. Runnable
  BY DEF Runnable
<1> QED BY <1>2, <1>3, <1>4, <1>5 DEF TypeInv

(***************************************************************************)
(* What a step of a request makes of its job and of mu.                    *)
(***************************************************************************)
Keeps(r, j) == mu' = mu /\ (j.pc \in Held <=> job[r].pc \in Held)
Takes(r, j) == mu = None /\ mu' = r /\ j.pc \in Held
Frees(r, j) == mu = r /\ mu' = None /\ j.pc \notin Held

Makes(r, j) ==
  /\ j \in Jobs /\ j.cmd \in Command
  /\ Becomes(r, j)
  /\ UNCHANGED closer
  /\ Keeps(r, j) \/ Takes(r, j) \/ Frees(r, j)

LEMMA MakesJobs ==
  ASSUME JobsTyped, Locked, NEW r \in Req, NEW j, Makes(r, j)
  PROVE  JobsTyped' /\ Locked'
<1>1. JobsTyped'
  BY DEF Makes, Becomes, JobsTyped
<1>2. \A s \in Req : job'[s].pc \in Held <=> mu' = s
  BY ShellAssumption DEF Makes, Becomes, JobsTyped, Locked, Keeps, Takes, Frees
<1>3. \A d \in Closer : closer'[d] = "wait" <=> mu' = d
  BY ShellAssumption DEF Makes, Locked, Keeps, Takes, Frees
<1>4. mu' \in Req \cup Closer \cup {None}
  BY DEF Makes, Locked, Keeps, Takes, Frees
<1> QED BY <1>1, <1>2, <1>3, <1>4 DEF Locked, Makes

\* A record that becomes the job in question keeps the fields that are not named.
LEMMA Changed ==
  ASSUME JobsTyped, NEW r \in Req, NEW pc \in PC
  PROVE  LET j == [job[r] EXCEPT !.pc = pc]
         IN j \in Jobs /\ j.pc = pc /\ j.cmd = job[r].cmd
BY DEF JobsTyped, Jobs

LEMMA SentMore ==
  ASSUME NEW j \in Jobs, NEW s \in Seq(Lines), NEW a \in BOOLEAN, NEW b \in BOOLEAN,
         NEW k, k = [j EXCEPT !.sent = s, !.cut = a, !.pending = b]
  PROVE  k \in Jobs /\ k.cmd = j.cmd /\ k.pc = j.pc
BY DEF Jobs

LEMMA PassMakes ==
  ASSUME TypeInv, NEW r \in Req, Pass(r)
  PROVE  \E j : Makes(r, j) /\ j.pc = job[r].pc
<1> USE DEF TypeInv
<1>0. job[r] \in Jobs /\ (job[r].pc # "new" => job[r].cmd \in Command)
  BY DEF JobsTyped
<1> DEFINE held == IF job[r].pending THEN <<Line(line.of, "empty")>> ELSE <<>>
           due == held \o (IF line.is = "empty" THEN <<>> ELSE <<line>>)
           J(n) == [job[r] EXCEPT !.sent = @ \o SubSeq(due, 1, n),
                                  !.cut = n < Len(due),
                                  !.pending = line.is = "empty"]
<1>1. PICK n \in 0..Len(due) : Becomes(r, J(n))
  BY DEF Pass
<1>2. line \in Lines
  BY DEF Pass, Reads, line, StateTyped
<1>3. due \in Seq(Lines)
  <2>1. Line(line.of, "empty") \in Lines
    BY <1>2 DEF Line, Lines
  <2>2. held \in Seq(Lines)
    BY <2>1
  <2> QED BY <1>2, <2>2
<1>4. SubSeq(due, 1, n) \in Seq(Lines)
  <2> HIDE DEF due
  <2> QED BY <1>1, <1>3
<1>5. J(n) \in Jobs /\ J(n).cmd = job[r].cmd /\ J(n).pc = job[r].pc
  <2> HIDE DEF due
  <2>1. job[r].sent \o SubSeq(due, 1, n) \in Seq(Lines)
    BY <1>4, <1>0 DEF Jobs
  <2> DEFINE s == job[r].sent \o SubSeq(due, 1, n)
             cut == n < Len(due)
             empty == line.is = "empty"
  <2>2. s \in Seq(Lines) /\ cut \in BOOLEAN /\ empty \in BOOLEAN
    BY <2>1
  <2>3. J(n) = [job[r] EXCEPT !.sent = s, !.cut = cut, !.pending = empty]
    OBVIOUS
  <2> HIDE DEF s, cut, empty, J
  <2>4. job[r] \in Jobs
    BY <1>0
  <2>5. \A a, b \in BOOLEAN : \A k :
           k = [job[r] EXCEPT !.sent = s, !.cut = a, !.pending = b]
             => k \in Jobs /\ k.cmd = job[r].cmd /\ k.pc = job[r].pc
    BY <2>2, <2>4, SentMore
  <2>6. \E a, b \in BOOLEAN : J(n) = [job[r] EXCEPT !.sent = s, !.cut = a, !.pending = b]
    BY <2>2, <2>3
  <2> QED BY <2>5, <2>6
<1>6. Makes(r, J(n))
  <2> HIDE DEF J
  <2> QED BY <1>0, <1>1, <1>5 DEF Pass, Reads, Makes, Keeps, At
<1> QED BY <1>5, <1>6

LEMMA StepMakes ==
  ASSUME TypeInv, NEW r \in Req, Step(r)
  PROVE  \E j : Makes(r, j)
<1> USE DEF TypeInv
<1> DEFINE To(pc) == [job[r] EXCEPT !.pc = pc]
<1>a. job[r] \in Jobs /\ (job[r].pc # "new" => job[r].cmd \in Command)
  BY DEF JobsTyped
<1>b. job[r].pc \in Held <=> mu = r
  BY DEF Locked
<1>c. r # None
  BY ShellAssumption
<1>d. \A pc \in PC : To(pc) \in Jobs /\ To(pc).pc = pc /\ To(pc).cmd = job[r].cmd
  BY Changed
<1> HIDE DEF To
<1>1. CASE Get(r)
  <2>1. PICK c \in Command : Becomes(r, [job[r] EXCEPT !.cmd = c, !.pc = SessionGet])
    BY <1>1 DEF Get
  <2> DEFINE j == [job[r] EXCEPT !.cmd = c, !.pc = SessionGet]
  <2>2. j \in Jobs /\ j.cmd = c /\ j.pc = SessionGet
    BY <1>a DEF Jobs, SessionGet, PC, Ended
  <2>3. Keeps(r, j)
    BY <1>1, <2>2 DEF Get, Keeps, SessionGet, At, Held
  <2> QED BY <1>1, <2>1, <2>2, <2>3 DEF Makes, Get
<1>2. CASE Judge(r)
  <2>1. PICK pc \in {"lock", "refused"} : Goto(r, pc)
    BY <1>2 DEF Judge
  <2>2. Makes(r, To(pc))
    BY <1>2, <2>1, <1>a, <1>b, <1>d DEF Judge, Goto, Makes, Keeps, At, Held, PC, Ended, To
  <2> QED BY <2>2
<1>3. CASE Leave(r)
  <2> DEFINE j == [job[r] EXCEPT !.gone = TRUE]
  <2>1. j \in Jobs /\ j.cmd = job[r].cmd /\ j.pc = job[r].pc
    BY <1>a DEF Jobs
  <2>2. Makes(r, j)
    BY <1>3, <2>1, <1>a DEF Leave, Makes, Keeps, At
  <2> QED BY <2>2
<1>4. CASE Refuse(r)
  <2>1. Makes(r, To("failed"))
    BY <1>4, <1>a, <1>b, <1>d DEF Refuse, Goto, Makes, Keeps, At, Held, PC, Ended, To
  <2> QED BY <2>1
<1>5. CASE Begin(r)
  <2>1. Makes(r, To("write"))
    BY <1>5, <1>a, <1>b, <1>d DEF Begin, Goto, Makes, Takes, At, Held, PC, To
  <2> QED BY <2>1
<1>6. CASE Write(r)
  <2>1. CASE Return(r, "failed")
    <3>1. Makes(r, To("failed"))
      BY <1>6, <2>1, <1>a, <1>b, <1>d DEF Write, Return, Goto, Makes, Frees, At, Held, PC, Ended, To
    <3> QED BY <3>1
  <2>2. CASE Goto(r, "scan") /\ mu' = mu
    <3>1. Makes(r, To("scan"))
      BY <1>6, <2>2, <1>a, <1>b, <1>d DEF Write, Goto, Makes, Keeps, At, Held, PC, To
    <3> QED BY <3>1
  <2> QED BY <1>6, <2>1, <2>2 DEF Write
<1>7. CASE ReadBadMarker(r) \/ ReadTooLong(r) \/ ReadEOF(r)
  <2>1. At(r, "scan") /\ Return(r, "failed") /\ UNCHANGED closer
    BY <1>7 DEF ReadBadMarker, ReadTooLong, ReadEOF, Reads
  <2>2. Makes(r, To("failed"))
    BY <2>1, <1>a, <1>b, <1>d DEF Return, Goto, Makes, Frees, At, Held, PC, Ended, To
  <2> QED BY <2>2
<1>8. CASE ReadMarker(r)
  <2> DEFINE j == [job[r] EXCEPT !.pc = "await", !.status = line.status]
  <2>1. line \in Lines
    BY <1>8 DEF ReadMarker, Reads, line, StateTyped
  <2>2. j \in Jobs /\ j.cmd = job[r].cmd /\ j.pc = "await"
    BY <2>1, <1>a DEF Jobs, PC, Lines
  <2>3. Makes(r, j)
    BY <1>8, <2>2, <1>a DEF ReadMarker, Reads, Makes, Keeps, At, Held
  <2> QED BY <2>3
<1>9. CASE Drain(r)
  <2>1. job' = [job EXCEPT ![r] = job[r]]
    BY <1>9 DEF Drain, JobsTyped
  <2>2. Makes(r, job[r])
    BY <1>9, <2>1, <1>a DEF Drain, Reads, Makes, Becomes, Keeps, At
  <2> QED BY <2>2
<1>10. CASE Pass(r)
  BY <1>10, PassMakes
<1>11. CASE AwaitErr(r)
  <2>1. CASE job[r].cut
    <3>1. Makes(r, To("failed"))
      BY <1>11, <2>1, <1>a, <1>b, <1>d DEF AwaitErr, Goto, Makes, Frees, At, Held, PC, Ended, To
    <3> QED BY <3>1
  <2>2. CASE ~job[r].cut
    <3> DEFINE j == [job[r] EXCEPT !.pc = "answered", !.err = errBuf]
    <3>1. j \in Jobs /\ j.cmd = job[r].cmd /\ j.pc = "answered"
      BY <1>a DEF Jobs, PC, Ended, StateTyped
    <3>2. Makes(r, j)
      BY <1>11, <2>2, <3>1, <1>a, <1>b DEF AwaitErr, Makes, Frees, At, Held
    <3> QED BY <3>2
  <2> QED BY <2>1, <2>2
<1> QED BY <1>1, <1>2, <1>3, <1>4, <1>5, <1>6, <1>7, <1>8, <1>9, <1>10, <1>11
        DEF Step, ExecuteStream

(***************************************************************************)
(* The pipes, and what bash is told to run.                                *)
(***************************************************************************)
StdinLine == {ExitLine} \cup [do : {"run", "mark"}, of : Req]

LEMMA ScriptTyped ==
  ASSUME NEW r \in Req PROVE Script(r) \in Seq(StdinLine)
BY DEF Script, StdinLine

LEMMA TailTyped ==
  ASSUME NEW S, NEW s \in Seq(S), s # <<>>
  PROVE  /\ Tail(s) \in Seq(S) /\ Head(s) \in S /\ Head(s) = s[1]
         /\ Len(Tail(s)) = Len(s) - 1
         /\ \A i \in 1..Len(Tail(s)) : i + 1 \in 1..Len(s) /\ Tail(s)[i] = s[i + 1]
OBVIOUS

LEMMA StepStreams ==
  ASSUME TypeInv, NEW r \in Req, Step(r)
  PROVE  StateTyped' /\ Runnable'
<1> USE DEF TypeInv, stderrState, pipes
<1>1. PICK j : Makes(r, j)
  BY StepMakes
<1>2. \A s \in Req : job[s].cmd \in Command => job'[s].cmd \in Command
  BY <1>1 DEF Makes, Becomes, JobsTyped
<1>3. \A i \in 1..Len(stdin) : stdin[i] \in StdinLine
  BY DEF StateTyped, StdinLine
<1>4. \A i \in 1..Len(stdin) : stdin[i].do = "run" => stdin[i].of \in Req
  BY <1>3 DEF StdinLine, ExitLine
<1>5. ASSUME UNCHANGED stdin PROVE Runnable'
  BY <1>2, <1>4, <1>5 DEF Runnable
<1>6. CASE Get(r) \/ Judge(r) \/ Leave(r) \/ Refuse(r)
  <2>1. StateTyped'
    BY <1>6 DEF Get, Judge, Leave, Refuse, StateTyped
  <2> QED BY <1>5, <1>6, <2>1 DEF Get, Judge, Leave, Refuse
<1>7. CASE Begin(r)
  <2>a. errBuf' \in Seq(Lines)
    BY <1>7 DEF Begin
  <2>b. errMarker' \in Req \cup {None} /\ errDone' \in BOOLEAN
    BY <1>7 DEF Begin
  <2>1. StateTyped'
    BY <1>7, <2>a, <2>b DEF Begin, StateTyped
  <2> QED BY <1>5, <1>7, <2>1 DEF Begin
<1>8. CASE Write(r)
  <2>1. CASE UNCHANGED stdin
    <3>1. StateTyped'
      BY <1>8, <2>1 DEF Write, StateTyped
    <3> QED BY <1>5, <2>1, <3>1
  <2>2. CASE At(r, "write") /\ Goto(r, "scan") /\ stdin' = stdin \o Script(r) /\ UNCHANGED broken
    <3>1. stdin' \in Seq(StdinLine)
      BY <2>2, ScriptTyped DEF StateTyped, StdinLine
    <3>2. StateTyped'
      BY <1>8, <2>2, <3>1 DEF Write, StateTyped, StdinLine
    <3>3. job'[r].cmd \in Command
      BY <1>1 DEF Makes, Becomes, JobsTyped
    <3>4. ASSUME NEW i \in 1..Len(stdin'), stdin'[i].do = "run"
          PROVE  job'[stdin'[i].of].cmd \in Command
      <4>1. CASE i \in 1..Len(stdin)
        <5>1. stdin'[i] = stdin[i]
          BY <2>2, <4>1, ScriptTyped DEF StateTyped
        <5> QED BY <1>2, <1>4, <3>4, <4>1, <5>1 DEF Runnable
      <4>2. CASE i \notin 1..Len(stdin)
        <5>1. stdin'[i] = Script(r)[i - Len(stdin)] /\ i - Len(stdin) \in 1..2
          BY <2>2, <4>2, <3>4, ScriptTyped DEF StateTyped, Script
        <5>2. stdin'[i].of = r
          BY <5>1 DEF Script
        <5> QED BY <5>2, <3>3
      <4> QED BY <4>1, <4>2
    <3> QED BY <3>2, <3>4 DEF Runnable
  <2> QED BY <1>8, <2>1, <2>2 DEF Write
<1>9. CASE ReadBadMarker(r) \/ ReadMarker(r) \/ Drain(r) \/ Pass(r) \/ ReadTooLong(r)
  <2>1. Reads(r) /\ broken' \in BOOLEAN
    <3>1. CASE Pass(r)
      BY <3>1 DEF Pass
    <3>2. CASE ReadBadMarker(r) \/ ReadMarker(r) \/ Drain(r)
      BY <3>2 DEF ReadBadMarker, ReadMarker, Drain, StateTyped
    <3>3. CASE ReadTooLong(r)
      BY <3>3 DEF ReadTooLong
    <3> QED BY <1>9, <3>1, <3>2, <3>3
  <2>2. Tail(stdout) \in Seq(Lines)
    BY <2>1, TailTyped DEF Reads, StateTyped
  <2>3. StateTyped'
    BY <2>1, <2>2 DEF Reads, StateTyped
  <2> QED BY <1>5, <2>1, <2>3 DEF Reads
<1>10. CASE ReadEOF(r) \/ AwaitErr(r)
  <2>1. StateTyped'
    BY <1>10 DEF ReadEOF, AwaitErr, StateTyped
  <2> QED BY <1>5, <1>10, <2>1 DEF ReadEOF, AwaitErr
<1> QED BY <1>6, <1>7, <1>8, <1>9, <1>10 DEF Step, ExecuteStream

LEMMA StepTyped ==
  ASSUME TypeInv, NEW r \in Req, Step(r) PROVE TypeInv'
<1>1. PICK j : Makes(r, j)
  BY StepMakes
<1> QED BY <1>1, MakesJobs, StepStreams DEF TypeInv

LEMMA EndingTyped ==
  ASSUME TypeInv, NEW d \in Closer, Ending(d) PROVE TypeInv'
<1> USE ShellAssumption DEF TypeInv, stderrState, pipes
<1>1. CASE Delete(d)
  <2>1. JobsTyped' /\ StateTyped' /\ Runnable'
    BY <1>1 DEF Delete, JobsTyped, StateTyped, Runnable
  <2>2. Locked'
    BY <1>1 DEF Delete, Locked, CloserPC
  <2> QED BY <2>1, <2>2
<1>2. CASE Close(d)
  <2>1. JobsTyped'
    BY <1>2 DEF Close, JobsTyped
  <2>2. Locked'
    BY <1>2 DEF Close, Locked, CloserPC
  <2>3. ExitLine \in StdinLine
    BY DEF StdinLine
  <2>4. stdin' \in Seq(StdinLine)
    BY <1>2, <2>3 DEF Close, StateTyped, StdinLine
  <2>5. StateTyped'
    BY <1>2, <2>4 DEF Close, StateTyped, StdinLine
  <2>6. ASSUME NEW i \in 1..Len(stdin'), stdin'[i].do = "run"
        PROVE  i \in 1..Len(stdin) /\ stdin'[i] = stdin[i]
    <3>1. CASE UNCHANGED stdin
      BY <2>6, <3>1
    <3>2. CASE stdin' = Append(stdin, ExitLine)
      <4>1. i = Len(stdin) + 1 => stdin'[i] = ExitLine
        BY <3>2 DEF StateTyped
      <4> QED BY <2>6, <3>2, <4>1 DEF StateTyped, ExitLine
    <3> QED BY <1>2, <3>1, <3>2 DEF Close
  <2>7. Runnable'
    BY <1>2, <2>6 DEF Close, Runnable
  <2> QED BY <2>1, <2>2, <2>5, <2>7
<1>3. CASE Wait(d)
  <2>1. JobsTyped' /\ StateTyped' /\ Runnable'
    BY <1>3 DEF Wait, JobsTyped, StateTyped, Runnable
  <2>2. Locked'
    BY <1>3 DEF Wait, Locked, CloserPC
  <2> QED BY <2>1, <2>2
<1> QED BY <1>1, <1>2, <1>3 DEF Ending

LEMMA ReadErrTyped ==
  ASSUME TypeInv, ReadErr PROVE TypeInv'
<1> USE DEF TypeInv
<1>1. Tail(stderr) \in Seq(Lines) /\ Head(stderr) \in Lines
  BY TailTyped DEF ReadErr, StateTyped
<1> DEFINE content == Append(errBuf, Head(stderr))
<1>2. content \in Seq(Lines)
  BY <1>1 DEF StateTyped
<1> HIDE DEF content
<1>3. errBuf' \in Seq(Lines)
  <2>1. \A i \in 1..Len(content) :
          SubSeq(content, 1, i - 1) \o SubSeq(content, i + 1, Len(content)) \in Seq(Lines)
    <3>1. ASSUME NEW i \in 1..Len(content)
          PROVE  SubSeq(content, 1, i - 1) \in Seq(Lines)
      BY <1>2, <3>1
    <3>2. ASSUME NEW i \in 1..Len(content)
          PROVE  SubSeq(content, i + 1, Len(content)) \in Seq(Lines)
      BY <1>2, <3>2
    <3> QED BY <3>1, <3>2
  <2>2. \/ errBuf' = content
        \/ \E i \in 1..Len(content) :
             errBuf' = SubSeq(content, 1, i - 1) \o SubSeq(content, i + 1, Len(content))
    BY DEF ReadErr, content
  <2> QED BY <1>2, <2>1, <2>2
<1>4. errMarker' \in Req \cup {None} /\ errDone' \in BOOLEAN
  BY DEF ReadErr, StateTyped
<1>5. StateTyped'
  BY <1>1, <1>3, <1>4 DEF ReadErr, StateTyped
<1>6. JobsTyped' /\ Locked' /\ Runnable'
  BY DEF ReadErr, JobsTyped, Locked, Runnable
<1> QED BY <1>5, <1>6

\* What bash prints when it runs the command c of r.
Printed(r, c) ==
  [i \in DOMAIN c.out |-> Line(r, c.out[i])]
    \o (IF c.does = "floods" THEN <<Line(r, "long")>> ELSE <<>>)

LEMMA PrintedLines ==
  ASSUME NEW r \in Req, NEW c \in Command
  PROVE  /\ Printed(r, c) \in Seq(Lines)
         /\ [i \in DOMAIN c.out |-> Line(r, c.out[i])] \in Seq(Lines)
         /\ \A i \in 1..Len(Printed(r, c)) : ~IsMarkerOf(Printed(r, c)[i], r)
<1> DEFINE out == [i \in DOMAIN c.out |-> Line(r, c.out[i])]
           rest == IF c.does = "floods" THEN <<Line(r, "long")>> ELSE <<>>
<1>1. c.out \in Seq({"text", "empty"})
  BY ShellAssumption DEF IsCommand
<1>2. DOMAIN c.out = 1..Len(c.out) /\ Len(c.out) \in Nat
  BY <1>1
<1>3. \A i \in 1..Len(c.out) : out[i] \in Lines /\ out[i].is # "marker"
  BY <1>1, <1>2 DEF Line, Lines
<1>4. out \in Seq(Lines) /\ Len(out) = Len(c.out)
  <2>1. out \in [1..Len(c.out) -> Lines]
    BY <1>2, <1>3
  <2> HIDE DEF out
  <2> QED BY <1>2, <2>1
<1>5. rest \in Seq(Lines) /\ \A i \in 1..Len(rest) : rest[i].is # "marker"
  <2>1. Line(r, "long") \in Lines /\ Line(r, "long").is # "marker"
    BY DEF Line, Lines
  <2> HIDE DEF Lines
  <2> QED BY <2>1
<1>6. Printed(r, c) = out \o rest
  BY DEF Printed
<1> HIDE DEF out, rest
<1>7. Printed(r, c) \in Seq(Lines)
  BY <1>4, <1>5, <1>6
<1>8. ASSUME NEW i \in 1..Len(Printed(r, c)) PROVE Printed(r, c)[i].is # "marker"
  <2>1. CASE i <= Len(out)
    BY <1>2, <1>3, <1>4, <1>5, <1>6, <2>1
  <2>2. CASE i > Len(out)
    <3>1. Printed(r, c)[i] = rest[i - Len(out)] /\ i - Len(out) \in 1..Len(rest)
      BY <1>4, <1>5, <1>6, <2>2
    <3> QED BY <1>5, <3>1
  <2> QED BY <1>2, <1>4, <2>1, <2>2
<1> QED BY <1>4, <1>7, <1>8 DEF IsMarkerOf, out

LEMMA AppendTyped ==
  ASSUME NEW S, NEW s \in Seq(S), NEW x \in S, NEW t, t = Append(s, x)
  PROVE  t \in Seq(S)
OBVIOUS

LEMMA HeadRuns ==
  ASSUME TypeInv, stdin # <<>>
  PROVE  /\ Head(stdin).do = "run" => /\ Head(stdin).of \in Req
                                      /\ job[Head(stdin).of].cmd \in Command
         /\ Head(stdin).do = "mark" => Head(stdin).of \in Req
         /\ stdin' = Tail(stdin) => stdin' \in Seq(StdinLine)
         /\ stdin' = Tail(stdin) /\ UNCHANGED job => Runnable'
<1>1. stdin \in Seq(StdinLine)
  BY DEF TypeInv, StateTyped, StdinLine
<1>2. /\ Tail(stdin) \in Seq(StdinLine) /\ Head(stdin) \in StdinLine /\ Head(stdin) = stdin[1]
      /\ Len(Tail(stdin)) = Len(stdin) - 1
      /\ \A i \in 1..Len(Tail(stdin)) : i + 1 \in 1..Len(stdin) /\ Tail(stdin)[i] = stdin[i + 1]
  BY <1>1, TailTyped
<1>3. Head(stdin).do \in {"run", "mark"} => Head(stdin).of \in Req
  BY <1>2 DEF StdinLine, ExitLine
<1>4. 1 \in 1..Len(stdin)
  BY <1>1
<1> QED BY <1>2, <1>3, <1>4 DEF TypeInv, Runnable

LEMMA BashTyped ==
  ASSUME TypeInv, BashRun \/ BashMark \/ BashExit PROVE TypeInv'
<1>1. UNCHANGED <<listed, job, closer, mu, broken, errMarker, errDone, errBuf>>
  BY DEF BashRun, BashMark, BashExit, stderrState
<1>2. JobsTyped' /\ Locked'
  BY <1>1 DEF TypeInv, JobsTyped, Locked
<1>3. stdin # <<>> /\ stdin' = Tail(stdin)
  BY DEF BashRun, BashMark, BashExit
<1>4. Runnable' /\ stdin' \in Seq({ExitLine} \cup [do : {"run", "mark"}, of : Req])
  BY <1>1, <1>3, HeadRuns DEF StdinLine
<1> DEFINE r == Head(stdin).of
           c == job[r].cmd
<1>5. /\ stdout' \in Seq(Lines) /\ stderr' \in Seq(Lines)
      /\ bash' \in [state : {"ready", "stuck", "gone"}, ec : Req \cup {None},
                    open : BOOLEAN, mute : BOOLEAN]
  <2>1. CASE BashRun
    <3>1. r \in Req /\ c \in Command
      BY <2>1, HeadRuns DEF BashRun
    <3> HIDE DEF r, c
    <3> DEFINE out == [i \in DOMAIN c.out |-> Line(r, c.out[i])]
               rest == IF c.does = "floods" THEN <<Line(r, "long")>> ELSE <<>>
    <3>2. stdout' = stdout \o out \o rest
      BY <2>1 DEF BashRun, r, c
    <3>3. out \in Seq(Lines)
      BY <3>1, PrintedLines
    <3>4. rest \in Seq(Lines)
      <4>1. Line(r, "long") \in Lines
        BY <3>1 DEF Line, Lines
      <4> QED BY <4>1
    <3>5. stdout' \in Seq(Lines)
      <4> HIDE DEF out, rest
      <4> QED BY <3>2, <3>3, <3>4 DEF TypeInv, StateTyped
    <3>6. stderr' \in Seq(Lines)
      <4>1. Line(r, "text") \in Lines
        BY <3>1 DEF Line, Lines
      <4>2. stderr' = stderr \/ stderr' = Append(stderr, Line(r, "text"))
        BY <2>1 DEF BashRun, r, c
      <4> QED BY <4>1, <4>2, AppendTyped DEF TypeInv, StateTyped
    <3>7. PICK state \in {"ready", "stuck", "gone"}, mute \in BOOLEAN, open \in BOOLEAN :
            bash' = [state |-> state, mute |-> mute, open |-> open,
                     ec |-> IF c.does = "reads" THEN bash.ec ELSE r]
      <4> DEFINE mute == bash.mute \/ c.does = "mutes"
                 open == c.open /\ c.does # "floods"
      <4>1. mute \in BOOLEAN /\ open \in BOOLEAN
        OBVIOUS
      <4>2. \E state \in {"ready", "stuck", "gone"} :
              bash' = [state |-> state, mute |-> mute, open |-> open,
                       ec |-> IF c.does = "reads" THEN bash.ec ELSE r]
        BY <2>1 DEF BashRun, r, c
      <4> HIDE DEF mute, open
      <4> QED BY <4>1, <4>2
    <3>8. (IF c.does = "reads" THEN bash.ec ELSE r) \in Req \cup {None}
      BY <3>1 DEF TypeInv, StateTyped
    <3> QED BY <3>5, <3>6, <3>7, <3>8
  <2>2. CASE BashMark
    <3>1. r \in Req
      BY <2>2, HeadRuns DEF BashMark
    <3> HIDE DEF r
    <3> DEFINE end == IF bash.open THEN <<>> ELSE <<Line(r, "empty")>>
    <3>2. Line(r, "empty") \in Lines /\ Marker(r, bash.ec) \in Lines /\ Marker(r, None) \in Lines
      BY <3>1 DEF Line, Marker, Lines, TypeInv, StateTyped
    <3>3. end \in Seq(Lines)
      BY <3>2
    <3>4. stdout' = stdout \o end \o <<Marker(r, bash.ec)>>
      BY <2>2 DEF BashMark, r
    <3>5. stdout' \in Seq(Lines)
      <4> HIDE DEF end
      <4> QED BY <3>2, <3>3, <3>4 DEF TypeInv, StateTyped
    <3>6. stderr' \in Seq(Lines)
      <4>1. stderr' = stderr \/ stderr' = Append(stderr, Marker(r, None))
        BY <2>2 DEF BashMark, r
      <4> QED BY <3>2, <4>1, AppendTyped DEF TypeInv, StateTyped
    <3>7. bash' \in [state : {"ready", "stuck", "gone"}, ec : Req \cup {None},
                     open : BOOLEAN, mute : BOOLEAN]
      BY <2>2 DEF BashMark, TypeInv, StateTyped
    <3> QED BY <3>5, <3>6, <3>7
  <2>3. CASE BashExit
    BY <2>3 DEF BashExit, TypeInv, StateTyped
  <2> QED BY <2>1, <2>2, <2>3
<1>6. StateTyped'
  BY <1>1, <1>4, <1>5 DEF TypeInv, StateTyped
<1> QED BY <1>2, <1>4, <1>6 DEF TypeInv

LEMMA TypesKept ==
  ASSUME TypeInv, [Next]_vars PROVE TypeInv'
<1>1. CASE UNCHANGED vars
  BY <1>1 DEF vars, TypeInv, JobsTyped, Locked, StateTyped, Runnable
<1> QED BY <1>1, NextIsOneOf, StepTyped, EndingTyped, ReadErrTyped, BashTyped

\* TypeOK: the types, and that mu is held by the one request between Lock and Unlock of
\* ExecuteStream or the one deletion between those of Close, and by nobody else.
THEOREM TypeCorrect == Spec => []TypeOK
BY InitTyped, TypesKept, TypesFollow, PTL DEF Spec

(***************************************************************************)
(* A shell is closed once.                                                 *)
(***************************************************************************)

\* ClosedOnce: whoever closes the shell has taken it out of the map himself.
THEOREM OneCloser == Spec => []ClosedOnce
<1>1. ASSUME Init PROVE ClosedOnce
  BY <1>1 DEF Init, ClosedOnce
<1>2. ASSUME TypeInv, ClosedOnce, [Next]_vars PROVE ClosedOnce'
  <2> USE DEF ClosedOnce
  <2>1. CASE \E d \in Closer : Ending(d)
    <3>1. PICK d \in Closer : Ending(d)
      BY <2>1
    <3>2. closer \in [Closer -> CloserPC]
      BY <1>2 DEF TypeInv, Locked
    <3>3. CASE Delete(d)
      BY <1>2, <3>2, <3>3 DEF Delete
    <3>4. CASE Close(d)
      BY <1>2, <3>2, <3>4 DEF Close
    <3>5. CASE Wait(d)
      BY <1>2, <3>2, <3>5 DEF Wait
    <3> QED BY <3>1, <3>3, <3>4, <3>5 DEF Ending
  <2>2. CASE \E r \in Req : Step(r)
    <3>1. UNCHANGED <<listed, closer>>
      BY <2>2 DEF Step, Get, Judge, Leave, ExecuteStream, Refuse, Begin, Write, ReadBadMarker,
                  ReadMarker, Drain, Pass, ReadTooLong, ReadEOF, AwaitErr, Reads
    <3> QED BY <1>2, <3>1
  <2>3. CASE ReadErr \/ BashRun \/ BashMark \/ BashExit \/ UNCHANGED vars
    <3>1. UNCHANGED <<listed, closer>>
      BY <2>3 DEF ReadErr, BashRun, BashMark, BashExit, vars
    <3> QED BY <1>2, <3>1
  <2> QED BY <1>2, <2>1, <2>2, <2>3, NextIsOneOf
<1> QED BY <1>1, <1>2, InitTyped, TypesKept, PTL DEF Spec

(***************************************************************************)
(* A session is in step with bash or refuses.  While a request reads, what *)
(* is left of its script and the output not yet read belong together.      *)
(***************************************************************************)
Clear == stdin = <<>> /\ stdout = <<>> /\ bash.state = "ready"

Unread(r) == stdin = Script(r) /\ stdout = <<>> /\ bash.state = "ready"

Unmarked(r) ==
  /\ stdin = <<[do |-> "mark", of |-> r]>>
  /\ \A i \in 1..Len(stdout) : ~IsMarkerOf(stdout[i], r)

Marked(r) ==
  /\ stdin = <<>> /\ bash.state = "ready"
  /\ Len(stdout) > 0 /\ IsMarkerOf(stdout[Len(stdout)], r)
  /\ \A i \in 1..(Len(stdout) - 1) : ~IsMarkerOf(stdout[i], r)

Streaming(r) == Unread(r) \/ Unmarked(r) \/ Marked(r)

InStep ==
  /\ mu = None /\ ~broken => Clear
  /\ \A r \in Req : /\ job[r].pc \in {"write", "await"} => Clear
                    /\ job[r].pc = "scan" => Streaming(r)

StreamInv == bash.state # "gone" => InStep

\* One line is read: at the marker nothing is left, before it the rest is as before.
LEMMA OneLineRead ==
  ASSUME TypeInv, NEW r \in Req, Streaming(r), stdout # <<>>,
         stdout' = Tail(stdout), UNCHANGED <<stdin, bash>>
  PROVE  /\ IsMarkerOf(line, r) => Clear'
         /\ ~IsMarkerOf(line, r) => Streaming(r)'
<1>1. stdout \in Seq(Lines)
  BY DEF TypeInv, StateTyped
<1>2. /\ stdout' \in Seq(Lines) /\ line = stdout[1]
      /\ Len(stdout') = Len(stdout) - 1
      /\ \A i \in 1..Len(stdout') : i + 1 \in 1..Len(stdout) /\ stdout'[i] = stdout[i + 1]
  BY <1>1, TailTyped DEF line
<1>3. Len(stdout) \in Nat /\ Len(stdout) > 0
  BY <1>1
<1>4. CASE Unmarked(r)
  <2>1. ~IsMarkerOf(line, r)
    BY <1>2, <1>3, <1>4 DEF Unmarked
  <2>2. Unmarked(r)'
    BY <1>2, <1>4 DEF Unmarked, IsMarkerOf
  <2> QED BY <2>1, <2>2 DEF Streaming
<1>5. CASE Marked(r)
  <2>1. CASE Len(stdout) = 1
    <3>1. IsMarkerOf(line, r)
      BY <1>2, <1>5, <2>1 DEF Marked
    <3>2. stdout' = <<>>
      BY <1>2, <2>1
    <3> QED BY <1>5, <3>1, <3>2 DEF Marked, Clear
  <2>2. CASE Len(stdout) > 1
    <3>1. ~IsMarkerOf(line, r)
      BY <1>2, <1>5, <2>2, <1>3 DEF Marked
    <3>2. stdout'[Len(stdout')] = stdout[Len(stdout)]
      BY <1>2, <1>3, <2>2
    <3>3. \A i \in 1..(Len(stdout') - 1) : stdout'[i] = stdout[i + 1] /\ i + 1 \in 1..(Len(stdout) - 1)
      BY <1>2, <1>3, <2>2
    <3>4. Marked(r)'
      BY <1>2, <1>3, <1>5, <2>2, <3>2, <3>3 DEF Marked, IsMarkerOf
    <3> QED BY <3>1, <3>4 DEF Streaming
  <2>3. Len(stdout) = 1 \/ Len(stdout) > 1
    <3>1. \A n \in Nat : n > 0 => n = 1 \/ n > 1
      OBVIOUS
    <3> QED BY ONLY <1>3, <3>1
  <2> QED BY <2>1, <2>2, <2>3
<1>6. CASE Unread(r)
  BY <1>6 DEF Unread
<1> QED BY <1>4, <1>5, <1>6 DEF Streaming

LEMMA StepInStep ==
  ASSUME TypeInv, StreamInv, NEW r \in Req, Step(r)
  PROVE  StreamInv'
<1> USE DEF Held
<1>1. PICK j : Makes(r, j)
  BY StepMakes
<1>2. /\ \A s \in Req \ {r} : job'[s] = job[s]
      /\ job'[r] = j
  BY <1>1 DEF Makes, Becomes, TypeInv, JobsTyped
<1>3. UNCHANGED bash
  BY DEF Step, Get, Judge, Leave, ExecuteStream, Refuse, Begin, Write, ReadBadMarker,
         ReadMarker, Drain, Pass, ReadTooLong, ReadEOF, AwaitErr, Reads
<1> SUFFICES ASSUME bash.state # "gone" PROVE InStep'
  BY <1>3 DEF StreamInv
<1>4. InStep
  BY DEF StreamInv
<1>5. /\ \A s \in Req : job[s].pc \in Held <=> mu = s
      /\ r # None
  BY ShellAssumption DEF TypeInv, Locked
<1>a. \A s \in Req : job'[s].pc \in Held <=> mu' = s
  BY <1>1, MakesJobs DEF TypeInv, Locked
<1>6. ASSUME UNCHANGED <<stdin, stdout, mu, broken>>,
             job'[r].pc = job[r].pc \/ job'[r].pc \notin Held
      PROVE  InStep'
  BY <1>2, <1>3, <1>4, <1>6 DEF InStep, Clear, Streaming, Unread, Unmarked, Marked
<1>7. CASE Get(r)
  <2>1. mu # r /\ UNCHANGED <<stdin, stdout, mu, broken>>
    BY <1>5, <1>7 DEF Get, At, pipes
  <2> QED BY <1>6, <1>a, <2>1
<1>8. CASE Judge(r)
  <2>1. mu # r /\ UNCHANGED <<stdin, stdout, mu, broken>>
    BY <1>5, <1>8 DEF Judge, At, pipes
  <2> QED BY <1>6, <1>a, <2>1
<1>9. CASE Leave(r)
  <2>1. job'[r].pc = job[r].pc
    BY <1>9 DEF Leave, Becomes, TypeInv, JobsTyped, Jobs
  <2> QED BY <1>6, <1>9, <2>1 DEF Leave, pipes
<1>10. CASE Refuse(r)
  <2>1. mu # r /\ UNCHANGED <<stdin, stdout, mu, broken>>
    BY <1>5, <1>10 DEF Refuse, At, pipes
  <2> QED BY <1>6, <1>a, <2>1
<1>11. CASE Begin(r)
  <2>1. Clear /\ UNCHANGED <<stdin, stdout>> /\ mu' = r
    BY <1>4, <1>11 DEF Begin, InStep, pipes
  <2>2. job'[r].pc = "write"
    BY <1>11 DEF Begin, Goto, Becomes, TypeInv, JobsTyped, Jobs
  <2>3. \A s \in Req \ {r} : job'[s].pc \notin Held
    BY <1>a, <2>1
  <2> QED BY <1>3, <1>5, <2>1, <2>2, <2>3 DEF InStep, Clear
<1>12. CASE mu = r
  <2>1. \A s \in Req \ {r} : job'[s].pc \notin Held
    BY <1>2, <1>5, <1>12
  <2>2. CASE Write(r)
    <3>1. Clear
      BY <1>4, <2>2 DEF Write, At, InStep
    <3>2. CASE Return(r, "failed") /\ UNCHANGED stdin
      <4>1. job'[r].pc = "failed"
        BY <3>2 DEF Return, Goto, Becomes, TypeInv, JobsTyped, Jobs
      <4>2. UNCHANGED stdout
        BY <2>2 DEF Write
      <4> QED BY <1>3, <2>1, <3>1, <3>2, <4>1, <4>2 DEF InStep, Clear
    <3>3. CASE Goto(r, "scan") /\ stdin' = stdin \o Script(r) /\ UNCHANGED mu
      <4>1. job'[r].pc = "scan"
        BY <3>3 DEF Goto, Becomes, TypeInv, JobsTyped, Jobs
      <4>2. stdin' = Script(r)
        BY <3>1, <3>3, ScriptTyped DEF Clear
      <4>3. Unread(r)'
        BY <1>3, <2>2, <3>1, <4>2 DEF Unread, Clear, Write, Script
      <4> QED BY <1>5, <1>12, <2>1, <3>3, <4>1, <4>3 DEF InStep, Streaming
    <3> QED BY <2>2, <3>2, <3>3 DEF Write
  <2>3. CASE Reads(r)
    <3>1. /\ Streaming(r) /\ stdout # <<>> /\ stdout' = Tail(stdout)
          /\ UNCHANGED stdin
      BY <1>4, <2>3 DEF Reads, At, InStep
    <3>2. /\ IsMarkerOf(line, r) => Clear'
          /\ ~IsMarkerOf(line, r) => Streaming(r)'
      BY <1>3, <3>1, OneLineRead
    <3>3. CASE ReadBadMarker(r)
      <4>1. job'[r].pc = "failed"
        BY <3>3 DEF ReadBadMarker, Return, Goto, Becomes, TypeInv, JobsTyped, Jobs
      <4> QED BY <2>1, <3>2, <3>3, <4>1 DEF ReadBadMarker, InStep
    <3>4. CASE ReadMarker(r)
      <4>1. job'[r].pc = "await"
        BY <3>4 DEF ReadMarker, Becomes, TypeInv, JobsTyped, Jobs
      <4> QED BY <2>1, <3>2, <3>4, <4>1 DEF ReadMarker, InStep
    <3>5. CASE Drain(r) \/ Pass(r)
      <4>1. mu' = r /\ ~IsMarkerOf(line, r)
        BY <1>12, <3>5 DEF Drain, Pass
      <4>2. job'[r].pc = "scan"
        <5>1. CASE Drain(r)
          BY <3>5, <5>1 DEF Drain, Reads, At
        <5>2. CASE Pass(r)
          <6>1. PICK k : Makes(r, k) /\ k.pc = job[r].pc
            BY <5>2, PassMakes
          <6> QED BY <5>2, <6>1 DEF Makes, Becomes, Pass, Reads, At, TypeInv, JobsTyped
        <5> QED BY <3>5, <5>1, <5>2
      <4> QED BY <1>5, <2>1, <3>2, <4>1, <4>2 DEF InStep
    <3>6. CASE ReadTooLong(r)
      <4>1. job'[r].pc = "failed" /\ broken'
        BY <3>6 DEF ReadTooLong, Return, Goto, Becomes, TypeInv, JobsTyped, Jobs
      <4> QED BY <2>1, <4>1 DEF InStep
    <3>7. At(r, "scan") /\ stdout # <<>>
      BY <2>3 DEF Reads
    <3> QED BY <1>5, <1>7, <1>8, <1>9, <1>10, <1>11, <2>2, <3>3, <3>4, <3>5, <3>6, <3>7
            DEF Step, ExecuteStream, ReadEOF, AwaitErr, At
  <2>4. CASE AwaitErr(r)
    <3>1. Clear /\ UNCHANGED <<stdin, stdout>>
      BY <1>4, <2>4 DEF AwaitErr, At, InStep, pipes
    <3>2. job'[r].pc \notin Held
      BY <1>a, <1>5, <2>4 DEF AwaitErr
    <3> QED BY <1>3, <2>1, <3>1, <3>2 DEF InStep, Clear
  <2> QED BY <1>7, <1>8, <1>9, <1>10, <1>11, <2>2, <2>3, <2>4
          DEF Step, ExecuteStream, ReadBadMarker, ReadMarker, Drain, Pass, ReadTooLong, ReadEOF
<1>13. CASE mu # r
  BY <1>5, <1>7, <1>8, <1>9, <1>10, <1>11, <1>13
     DEF Step, ExecuteStream, Write, ReadBadMarker, ReadMarker, Drain, Pass, ReadTooLong, ReadEOF,
         AwaitErr, Reads, At
<1> QED BY <1>12, <1>13

LEMMA EndingInStep ==
  ASSUME TypeInv, StreamInv, NEW d \in Closer, Ending(d)
  PROVE  StreamInv'
<1> USE DEF Held
<1>1. UNCHANGED <<job, broken, stdout, bash>>
  BY DEF Ending, Delete, Close, Wait, pipes
<1>2. CASE Delete(d)
  BY <1>1, <1>2 DEF Delete, pipes, StreamInv, InStep, Clear, Streaming, Unread, Unmarked, Marked
<1>3. CASE Close(d)
  <2>1. mu' # None
    BY <1>3, ShellAssumption DEF Close
  <2>2. \A r \in Req : job'[r].pc \notin Held
    BY <1>1, <1>3, ShellAssumption DEF Close, TypeInv, Locked
  <2> QED BY <2>1, <2>2 DEF StreamInv, InStep
<1>4. CASE Wait(d)
  BY <1>1, <1>4 DEF Wait, StreamInv
<1> QED BY <1>2, <1>3, <1>4 DEF Ending

LEMMA ReadErrInStep ==
  ASSUME StreamInv, ReadErr \/ UNCHANGED vars PROVE StreamInv'
BY DEF ReadErr, vars, StreamInv, InStep, Clear, Streaming, Unread, Unmarked, Marked

\* Bash only runs for the request that reads, and takes the next part of its script.
LEMMA BashInStep ==
  ASSUME TypeInv, StreamInv, BashRun \/ BashMark \/ BashExit
  PROVE  StreamInv'
<1>1. UNCHANGED <<job, mu, broken>> /\ bash.state = "ready" /\ stdin # <<>>
  BY DEF BashRun, BashMark, BashExit
<1>2. InStep
  BY <1>1 DEF StreamInv
<1>3. ~(mu = None /\ ~broken) /\ \A r \in Req : job[r].pc \notin {"write", "await"}
  BY <1>1, <1>2 DEF InStep, Clear
<1>4. ASSUME NEW r \in Req, job[r].pc = "scan", bash'.state # "gone" PROVE Streaming(r)'
  <2>1. Streaming(r) /\ ~Marked(r)
    BY <1>1, <1>2, <1>4 DEF InStep, Marked
  <2>2. CASE Unread(r)
    <3>1. Head(stdin) = [do |-> "run", of |-> r] /\ Tail(stdin) = <<[do |-> "mark", of |-> r]>>
      BY <2>2 DEF Unread, Script
    <3>2. BashRun
      <4>1. ~BashMark
        BY <3>1 DEF BashMark
      <4>2. Head(stdin) # ExitLine
        BY <3>1 DEF ExitLine
      <4> QED BY <4>1, <4>2 DEF BashExit
    <3>3. job[r].cmd \in Command
      BY <1>1, <3>1, HeadRuns
    <3>4. stdout' = Printed(r, job[r].cmd)
      <4> DEFINE out == [i \in DOMAIN job[r].cmd.out |-> Line(r, job[r].cmd.out[i])]
                 rest == IF job[r].cmd.does = "floods" THEN <<Line(r, "long")>> ELSE <<>>
      <4>1. out \in Seq(Lines)
        BY <3>3, PrintedLines
      <4>2. Head(stdin).of = r
        BY <3>1
      <4>3. stdout' = stdout \o out \o rest
        BY <3>2, <4>2 DEF BashRun
      <4>4. Printed(r, job[r].cmd) = out \o rest
        BY DEF Printed
      <4>5. stdout = <<>>
        BY <2>2 DEF Unread
      <4> HIDE DEF out, rest
      <4>6. <<>> \o out = out
        BY <4>1
      <4> QED BY <4>3, <4>4, <4>5, <4>6
    <3>5. stdin' = <<[do |-> "mark", of |-> r]>>
      BY <3>1, <3>2 DEF BashRun
    <3> QED BY <3>3, <3>4, <3>5, PrintedLines DEF Streaming, Unmarked, IsMarkerOf
  <2>3. CASE Unmarked(r)
    <3>1. Head(stdin) = [do |-> "mark", of |-> r] /\ Tail(stdin) = <<>>
      BY <2>3 DEF Unmarked
    <3>2. BashMark
      <4>1. ~BashRun
        <5>1. Head(stdin).do # "run"
          BY <3>1
        <5> QED BY ONLY <5>1 DEF BashRun
      <4>2. Head(stdin) # ExitLine
        BY <3>1 DEF ExitLine
      <4> QED BY <4>1, <4>2 DEF BashExit
    <3> DEFINE end == IF bash.open THEN <<>> ELSE <<Line(r, "empty")>>
    <3>3. stdout' = stdout \o end \o <<Marker(r, bash.ec)>>
      BY <3>1, <3>2 DEF BashMark
    <3>4. /\ end \in Seq(Lines)
          /\ \A i \in 1..Len(end) : ~IsMarkerOf(end[i], r)
      <4>1. Line(r, "empty") \in Lines /\ ~IsMarkerOf(Line(r, "empty"), r)
        BY DEF Line, Lines, IsMarkerOf
      <4> HIDE DEF Lines, IsMarkerOf
      <4> QED BY <4>1
    <3>5. Marker(r, bash.ec) \in Lines /\ IsMarkerOf(Marker(r, bash.ec), r)
      BY DEF Marker, Lines, IsMarkerOf, TypeInv, StateTyped
    <3> HIDE DEF end
    <3>6. stdout \in Seq(Lines) /\ \A i \in 1..Len(stdout) : ~IsMarkerOf(stdout[i], r)
      BY <2>3 DEF Unmarked, TypeInv, StateTyped
    <3> DEFINE before == stdout \o end
    <3>7. /\ before \in Seq(Lines)
          /\ \A i \in 1..Len(before) : ~IsMarkerOf(before[i], r)
      <4>1. before \in Seq(Lines) /\ Len(before) = Len(stdout) + Len(end)
        BY <3>4, <3>6
      <4>2. ASSUME NEW i \in 1..Len(before) PROVE ~IsMarkerOf(before[i], r)
        <5>1. CASE i <= Len(stdout)
          <6>1. before[i] = stdout[i] /\ i \in 1..Len(stdout)
            BY <3>4, <3>6, <4>1, <5>1
          <6> QED BY <3>6, <6>1
        <5>2. CASE i > Len(stdout)
          <6>1. before[i] = end[i - Len(stdout)] /\ i - Len(stdout) \in 1..Len(end)
            BY <3>4, <3>6, <4>1, <5>2
          <6> QED BY <3>4, <6>1
        <5> QED BY <3>6, <4>1, <5>1, <5>2
      <4> QED BY <4>1, <4>2
    <3> HIDE DEF before
    <3>8. /\ Len(stdout') = Len(before) + 1 /\ Len(before) \in Nat
          /\ stdout'[Len(stdout')] = Marker(r, bash.ec)
          /\ \A i \in 1..Len(before) : stdout'[i] = before[i]
      <4>1. stdout' = Append(before, Marker(r, bash.ec))
        BY <3>3, <3>5, <3>7 DEF before
      <4> QED BY <3>5, <3>7, <4>1
    <3>9. stdin' = <<>> /\ bash'.state = "ready"
      BY <1>1, <3>1, <3>2 DEF BashMark, TypeInv, StateTyped
    <3>10. /\ Len(stdout') > 0 /\ Len(stdout') - 1 = Len(before)
      BY <3>8
    <3>11. \A i \in 1..(Len(stdout') - 1) : ~IsMarkerOf(stdout'[i], r)
      BY <3>7, <3>8, <3>10
    <3> QED BY <3>5, <3>8, <3>9, <3>10, <3>11 DEF Streaming, Marked, IsMarkerOf
  <2> QED BY <2>1, <2>2, <2>3 DEF Streaming
<1> QED BY <1>1, <1>3, <1>4 DEF StreamInv, InStep

\* InStepOrBroken: when the lock of a session that is not broken is free, bash has done all
\* that it was told, and all that it printed to stdout has been read (shell.go:123).
THEOREM SessionInStep == Spec => []InStepOrBroken
<1>1. ASSUME Init PROVE StreamInv
  BY <1>1 DEF Init, NewBashShell, StreamInv, InStep, Clear, NoJob
<1>2. ASSUME TypeInv, StreamInv, [Next]_vars PROVE StreamInv'
  BY <1>2, NextIsOneOf, StepInStep, EndingInStep, ReadErrInStep, BashInStep
<1>3. StreamInv => InStepOrBroken
  BY DEF StreamInv, InStep, Clear, InStepOrBroken
<1> QED BY <1>1, <1>2, <1>3, InitTyped, TypesKept, PTL DEF Spec

=============================================================================

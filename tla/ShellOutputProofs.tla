------------------------- MODULE ShellOutputProofs -------------------------
(***************************************************************************)
(* What holds of the answers, for any number of requests, deletions and    *)
(* commands: clients are sent their own command's output and nothing else, *)
(* no client breaks the session by leaving, an answer carries the exit     *)
(* status and the stderr of its own command, and so the shell implements   *)
(* Session.                                                                *)
(***************************************************************************)
EXTENDS ShellProofs

\* The lines of the command that have been read: those sent, and the empty one held back.
Got(j) == Len(j.sent) + (IF j.pending THEN 1 ELSE 0)

\* What has been sent is a beginning of what the command prints.
Begins(r, j) ==
  /\ Len(j.sent) <= Len(j.cmd.out)
  /\ \A i \in 1..Len(j.sent) : j.sent[i] = Line(r, j.cmd.out[i])

\* l may be the k-th line on stdout from the command c of r on: its lines, then one that is
\* too long, or an empty one unless the last was open, and the marker.
Prints(r, c, k, l) ==
  \/ k <= Len(c.out) /\ l = Line(r, c.out[k])
  \/ k = Len(c.out) + 1 /\ c.does = "floods" /\ l = Line(r, "long")
  \/ k = Len(c.out) + 1 /\ c.does # "floods" /\ ~c.open /\ l = Line(r, "empty")
  \/ k = Len(c.out) + 1 /\ c.does # "floods" /\ c.open /\ IsMarkerOf(l, r)
  \/ k = Len(c.out) + 2 /\ c.does # "floods" /\ ~c.open /\ IsMarkerOf(l, r)
  \/ k > Len(c.out) + 1 /\ c.does = "floods" /\ l.of = r

\* The line held back is one of the command's, or the one that precedes the marker.
Holds(j) ==
  j.pending => \/ Len(j.sent) < Len(j.cmd.out) /\ j.cmd.out[Len(j.sent) + 1] = "empty"
               \/ Len(j.sent) = Len(j.cmd.out) /\ ~j.cmd.open /\ j.cmd.does # "floods"

\* out goes on where the request has stopped reading.
Follows(r, j, out) ==
  Holds(j) /\ \A i \in 1..Len(out) : Prints(r, j.cmd, Got(j) + i, out[i])

\* How far the script has been run.
Phase(r, j) ==
  /\ stdin = Script(r) => j.sent = <<>> /\ ~j.pending /\ stdout = <<>>
  /\ stdin = <<[do |-> "mark", of |-> r]>> =>
       /\ Got(j) + Len(stdout) = Len(j.cmd.out) + (IF j.cmd.does = "floods" THEN 1 ELSE 0)
       /\ bash.open <=> j.cmd.open /\ j.cmd.does # "floods"

Owns(r, j) ==
  /\ j.pc # "new" => Begins(r, j)
  /\ j.pc \in {"new", "judge", "lock", "write"} => j.sent = <<>> /\ ~j.pending /\ ~j.cut
  /\ (j.pc = "await" /\ ~j.cut) \/ j.pc = "answered" => Len(j.sent) = Len(j.cmd.out)
  /\ j.pc = "scan" /\ ~j.cut => Follows(r, j, stdout) /\ Phase(r, j)

OutInv == TypeInv /\ StreamInv /\ \A r \in Req : Owns(r, job[r])

LEMMA CommandShape ==
  ASSUME NEW c \in Command
  PROVE  /\ c.out \in Seq({"text", "empty"}) /\ Len(c.out) \in Nat
         /\ c.open \in BOOLEAN
         /\ c.open => Len(c.out) > 0 /\ c.out[Len(c.out)] = "text"
<1>1. IsCommand(c)
  BY ShellAssumption
<1>2. c.out \in Seq({"text", "empty"}) /\ Len(c.out) \in Nat
  BY <1>1 DEF IsCommand
<1>3. c.open \in BOOLEAN /\ (c.open => c.out # <<>> /\ c.out[Len(c.out)] = "text")
  BY <1>1, Zenon DEF IsCommand
<1>4. c.out # <<>> => Len(c.out) > 0
  BY <1>2
<1> QED BY <1>2, <1>3, <1>4, Zenon

LEMMA JobShape ==
  ASSUME NEW j \in Jobs
  PROVE  /\ j.sent \in Seq(Lines) /\ Len(j.sent) \in Nat
         /\ j.pending \in BOOLEAN /\ j.cut \in BOOLEAN
         /\ j.pending => Got(j) = Len(j.sent) + 1
         /\ ~j.pending => Got(j) = Len(j.sent)
<1>1. j.sent \in Seq(Lines) /\ j.pending \in BOOLEAN /\ j.cut \in BOOLEAN
  BY DEF Jobs
<1>2. Len(j.sent) \in Nat
  BY <1>1
<1>3. j.pending => Got(j) = Len(j.sent) + 1
  <2>1. ASSUME j.pending PROVE (IF j.pending THEN 1 ELSE 0) = 1
    BY <2>1, Zenon
  <2> QED BY <2>1, Zenon DEF Got
<1>4. ~j.pending => Got(j) = Len(j.sent)
  <2>1. ASSUME ~j.pending PROVE (IF j.pending THEN 1 ELSE 0) = 0
    BY <2>1, Zenon
  <2>2. ~j.pending => Got(j) = Len(j.sent) + 0
    BY <2>1, Zenon DEF Got
  <2>3. Len(j.sent) + 0 = Len(j.sent)
    BY <1>2
  <2> QED BY <2>2, <2>3, Zenon
<1> QED BY <1>1, <1>2, <1>3, <1>4, Zenon

\* The first n of d are added to s.
LEMMA Extended ==
  ASSUME NEW s \in Seq(Lines), NEW d \in Seq(Lines), NEW n \in 0..Len(d), NEW t,
         t = s \o SubSeq(d, 1, n)
  PROVE  /\ t \in Seq(Lines) /\ Len(t) = Len(s) + n
         /\ \A i \in 1..Len(s) : t[i] = s[i]
         /\ \A i \in 1..n : t[Len(s) + i] = d[i]
<1>1. SubSeq(d, 1, n) \in Seq(Lines) /\ Len(SubSeq(d, 1, n)) = n
  OBVIOUS
<1>2. \A i \in 1..n : SubSeq(d, 1, n)[i] = d[i]
  OBVIOUS
<1> DEFINE e == SubSeq(d, 1, n)
<1> HIDE DEF e
<1>3. e \in Seq(Lines) /\ Len(e) = n /\ t = s \o e
  BY <1>1 DEF e
<1>4. \A i \in 1..n : t[Len(s) + i] = e[i]
  BY <1>3, SMTT(30)
<1>5. \A i \in 1..n : t[Len(s) + i] = d[i]
  BY <1>2, <1>4 DEF e
<1> QED BY <1>3, <1>5

(***************************************************************************)
(* Reading one line.                                                       *)
(***************************************************************************)
\* How much of the command's output has been read, when the marker is the next line.
LEMMA AllRead ==
  ASSUME NEW r \in Req, NEW j \in Jobs, j.cmd \in Command, Begins(r, j), Holds(j),
         NEW l, Prints(r, j.cmd, Got(j) + 1, l), l.is = "marker"
  PROVE  Len(j.sent) = Len(j.cmd.out)
<1> DEFINE N == Len(j.cmd.out)
           n == Len(j.sent)
           g == Got(j)
<1>1. N \in Nat /\ n \in Nat /\ n <= N
  BY CommandShape, JobShape DEF Begins
<1>2. \/ j.pending /\ g = n + 1
      \/ ~j.pending /\ g = n
  BY JobShape, Zenon
<1>3. \A k \in 1..N : j.cmd.out[k] # "marker"
  BY CommandShape
<1> HIDE DEF g
<1>4. g + 1 > N
  <2>1. SUFFICES ASSUME g + 1 <= N PROVE FALSE
    BY <1>1, <1>2
  <2>2. g + 1 \in 1..N
    BY <1>1, <1>2, <2>1
  <2>3. l = Line(r, j.cmd.out[g + 1])
    BY <1>1, <1>2, <2>1 DEF Prints, g
  <2> QED BY <1>3, <2>2, <2>3 DEF Line
<1>5. CASE ~j.pending
  BY <1>1, <1>2, <1>4, <1>5
<1>6. CASE j.pending
  <2>1. g = n + 1
    BY <1>2, <1>6
  <2>2. CASE n < N /\ j.cmd.out[n + 1] = "empty"
    <3>1. g = N /\ j.cmd.out[N] = "empty" /\ N > 0
      BY <1>1, <1>4, <2>1, <2>2
    <3>2. ~j.cmd.open
      BY <3>1, CommandShape
    <3>3. ~(j.cmd.does = "floods" /\ l = Line(r, "long"))
      BY DEF Line
    <3>4. l # Line(r, "empty")
      BY DEF Line
    <3> QED BY <1>1, <3>1, <3>2, <3>3, <3>4 DEF Prints, g
  <2> QED BY <1>1, <1>6, <2>2 DEF Holds
<1> QED BY <1>5, <1>6
\* A line that is neither the marker nor too long is the next one of the command, or the empty
\* one that precedes the marker.
LEMMA NextLine ==
  ASSUME NEW r \in Req, NEW j \in Jobs, j.cmd \in Command, Begins(r, j), Holds(j),
         NEW l, Prints(r, j.cmd, Got(j) + 1, l), l.is # "marker", l.is # "long"
  PROVE  \/ Got(j) + 1 <= Len(j.cmd.out) /\ l = Line(r, j.cmd.out[Got(j) + 1])
         \/ /\ Got(j) = Len(j.cmd.out) /\ l = Line(r, "empty")
            /\ ~j.cmd.open /\ j.cmd.does # "floods"
<1> DEFINE N == Len(j.cmd.out)
           n == Len(j.sent)
           g == Got(j)
<1>1. N \in Nat /\ n \in Nat /\ n <= N
  BY CommandShape, JobShape DEF Begins
<1>2. \/ j.pending /\ g = n + 1
      \/ ~j.pending /\ g = n
  BY JobShape, Zenon
<1>3. g = N + 1 => j.cmd.does # "floods"
  BY <1>1, <1>2 DEF Holds
<1> HIDE DEF g, N
<1>4. g \in Nat /\ g <= N + 1
  BY <1>1, <1>2
<1>5. ~IsMarkerOf(l, r) /\ l # Line(r, "long")
  BY DEF IsMarkerOf, Line
<1>6. \/ g + 1 <= N /\ l = Line(r, j.cmd.out[g + 1])
      \/ g + 1 = N + 1 /\ j.cmd.does # "floods" /\ ~j.cmd.open /\ l = Line(r, "empty")
      \/ g + 1 > N + 1 /\ j.cmd.does = "floods"
  BY <1>5 DEF Prints, g, N
<1>7. ~(g + 1 > N + 1 /\ j.cmd.does = "floods")
  BY <1>1, <1>3, <1>4
<1>8. g + 1 = N + 1 => g = N
  BY <1>1, <1>4
<1> QED BY <1>6, <1>7, <1>8 DEF g, N

\* What Pass has to send goes on where the request has stopped.
Due(j, l) ==
  (IF j.pending THEN <<Line(l.of, "empty")>> ELSE <<>>) \o (IF l.is = "empty" THEN <<>> ELSE <<l>>)

LEMMA DueFits ==
  ASSUME NEW r \in Req, NEW j \in Jobs, j.cmd \in Command, Begins(r, j), Holds(j),
         NEW l \in Lines, Prints(r, j.cmd, Got(j) + 1, l), l.is # "marker", l.is # "long"
  PROVE  /\ Due(j, l) \in Seq(Lines)
         /\ Len(Due(j, l)) = Got(j) + (IF l.is = "empty" THEN 0 ELSE 1) - Len(j.sent)
         /\ Len(j.sent) + Len(Due(j, l)) <= Len(j.cmd.out)
         /\ \A i \in 1..Len(Due(j, l)) : Due(j, l)[i] = Line(r, j.cmd.out[Len(j.sent) + i])
<1> DEFINE N == Len(j.cmd.out)
           n == Len(j.sent)
           g == Got(j)
<1>1. N \in Nat /\ n \in Nat /\ n <= N
  BY CommandShape, JobShape DEF Begins
<1>2. \/ j.pending /\ g = n + 1
      \/ ~j.pending /\ g = n
  BY JobShape, Zenon
<1>3. \/ g + 1 <= N /\ l = Line(r, j.cmd.out[g + 1])
      \/ g = N /\ l = Line(r, "empty") /\ ~j.cmd.open /\ j.cmd.does # "floods"
  BY NextLine
<1>4. l.of = r /\ Line(r, "empty") \in Lines
  BY <1>3 DEF Line, Lines
<1>5. j.pending => n + 1 <= N /\ j.cmd.out[n + 1] = "empty"
  <2>1. SUFFICES ASSUME j.pending, n = N PROVE FALSE
    BY <1>1, <2>1 DEF Holds
  <2>2. g = N + 1
    BY <1>2, <2>1
  <2> QED BY <1>1, <1>3, <2>2
<1> DEFINE held == IF j.pending THEN <<Line(r, "empty")>> ELSE <<>>
           own == IF l.is = "empty" THEN <<>> ELSE <<l>>
<1>6. Due(j, l) = held \o own
  BY <1>4, Zenon DEF Due
<1>7. l.is # "empty" => g + 1 <= N /\ l = Line(r, j.cmd.out[g + 1])
  BY <1>3 DEF Line
<1>8. CASE ~j.pending
  <2>1. held = <<>> /\ g = n
    BY <1>2, <1>8, Zenon
  <2>2. CASE l.is = "empty"
    <3>1. Due(j, l) = <<>>
      BY <1>6, <2>1, <2>2
    <3> QED BY <1>1, <2>1, <2>2, <3>1
  <2>3. CASE l.is # "empty"
    <3>1. own = <<l>> /\ <<>> \o <<l>> = <<l>>
      BY <2>3
    <3>2. Due(j, l) = <<l>>
      BY <1>6, <2>1, <3>1, Zenon
    <3> QED BY <1>1, <1>7, <2>1, <2>3, <3>2
  <2> QED BY <2>2, <2>3
<1>9. CASE j.pending
  <2>1. held = <<Line(r, "empty")>> /\ g = n + 1
    BY <1>2, <1>9, Zenon
  <2>2. CASE l.is = "empty"
    <3>1. Due(j, l) = <<Line(r, "empty")>>
      BY <1>6, <2>1, <2>2
    <3> QED BY <1>1, <1>4, <1>5, <1>9, <2>1, <2>2, <3>1
  <2>3. CASE l.is # "empty"
    <3>0. own = <<l>>
      BY <2>3
    <3>1. /\ Due(j, l) \in Seq(Lines) /\ Len(Due(j, l)) = 2
          /\ Due(j, l)[1] = Line(r, "empty") /\ Due(j, l)[2] = l
      <4>1. \A x, y \in Lines :
               /\ <<x>> \o <<y>> \in Seq(Lines) /\ Len(<<x>> \o <<y>>) = 2
               /\ (<<x>> \o <<y>>)[1] = x /\ (<<x>> \o <<y>>)[2] = y
        OBVIOUS
      <4>2. Due(j, l) = <<Line(r, "empty")>> \o <<l>>
        BY <1>6, <2>1, <3>0, Zenon
      <4> DEFINE e == Line(r, "empty")
      <4>3. e \in Lines /\ l \in Lines
        BY <1>4
      <4> HIDE DEF e
      <4> QED BY <4>1, <4>2, <4>3 DEF e
    <3>2. g + 1 = n + 2 /\ n + 2 <= N /\ l = Line(r, j.cmd.out[n + 2])
      BY <1>1, <1>7, <2>1, <2>3
    <3> QED BY <1>1, <1>4, <1>5, <1>9, <2>1, <2>3, <3>1, <3>2
  <2> QED BY <2>2, <2>3
<1> QED BY <1>8, <1>9, <1>2

\* k is j after n of what was due has been sent.
Sent(j, k, l, n) ==
  /\ k.cmd = j.cmd /\ k.pc = j.pc
  /\ k.sent = j.sent \o SubSeq(Due(j, l), 1, n)
  /\ k.cut <=> n < Len(Due(j, l))
  /\ k.pending <=> l.is = "empty"

LEMMA SentBegins ==
  ASSUME NEW r \in Req, NEW j \in Jobs, NEW k \in Jobs, j.cmd \in Command,
         Begins(r, j), Holds(j), NEW l \in Lines, Prints(r, j.cmd, Got(j) + 1, l),
         l.is # "marker", l.is # "long", NEW n \in 0..Len(Due(j, l)), Sent(j, k, l, n)
  PROVE  Begins(r, k) /\ Len(k.sent) = Len(j.sent) + n
<1> DEFINE d == Due(j, l)
           out == j.cmd.out
<1>1. /\ d \in Seq(Lines) /\ Len(j.sent) + Len(d) <= Len(out)
      /\ \A i \in 1..Len(d) : d[i] = Line(r, out[Len(j.sent) + i])
  BY DueFits
<1>2. j.sent \in Seq(Lines) /\ Len(j.sent) \in Nat /\ Len(out) \in Nat
  BY JobShape, CommandShape
<1>3. k.sent = j.sent \o SubSeq(d, 1, n) /\ k.cmd.out = out
  BY DEF Sent
<1> HIDE DEF d, out
<1>4. /\ k.sent \in Seq(Lines) /\ Len(k.sent) = Len(j.sent) + n
      /\ \A i \in 1..Len(j.sent) : k.sent[i] = j.sent[i]
      /\ \A i \in 1..n : k.sent[Len(j.sent) + i] = d[i]
  <2>1. n \in 0..Len(d)
    BY DEF d
  <2> DEFINE s == j.sent
             t == k.sent
  <2>2. s \in Seq(Lines) /\ d \in Seq(Lines) /\ t = s \o SubSeq(d, 1, n)
    BY <1>1, <1>2, <1>3
  <2> HIDE DEF s, t
  <2>3. /\ t \in Seq(Lines) /\ Len(t) = Len(s) + n
        /\ \A i \in 1..Len(s) : t[i] = s[i]
        /\ \A i \in 1..n : t[Len(s) + i] = d[i]
    BY <2>1, <2>2, Extended
  <2> QED BY <2>3 DEF s, t
<1>5. Len(k.sent) <= Len(out)
  <2>1. n <= Len(d) /\ Len(d) \in Nat /\ n \in Nat
    BY <1>1 DEF d
  <2> QED BY <1>1, <1>2, <1>4, <2>1
<1>6. ASSUME NEW i \in 1..Len(k.sent) PROVE k.sent[i] = Line(r, out[i])
  <2>1. CASE i <= Len(j.sent)
    BY <1>2, <1>4, <2>1 DEF Begins, out
  <2>2. CASE i > Len(j.sent)
    <3>1. i - Len(j.sent) \in 1..n /\ i - Len(j.sent) \in 1..Len(d)
      BY <1>1, <1>2, <1>4, <2>2 DEF d
    <3>2. Len(j.sent) + (i - Len(j.sent)) = i
      BY <1>2
    <3> QED BY <1>1, <1>4, <3>1, <3>2
  <2> QED BY <1>2, <2>1, <2>2
<1> QED BY <1>3, <1>4, <1>5, <1>6 DEF Begins

LEMMA SentFollows ==
  ASSUME NEW r \in Req, NEW j \in Jobs, NEW k \in Jobs, j.cmd \in Command, Begins(r, j),
         NEW out \in Seq(Lines), out # <<>>, Follows(r, j, out),
         NEW l, l = Head(out), l.is # "marker", l.is # "long",
         Sent(j, k, l, Len(Due(j, l)))
  PROVE  Got(k) = Got(j) + 1 /\ Follows(r, k, Tail(out))
<1> DEFINE N == Len(j.cmd.out)
           g == Got(j)
           d == Due(j, l)
<1>1. /\ l \in Lines /\ l = out[1] /\ Len(out) \in Nat /\ Len(out) > 0
      /\ Len(Tail(out)) = Len(out) - 1
      /\ \A i \in 1..Len(Tail(out)) : i + 1 \in 1..Len(out) /\ Tail(out)[i] = out[i + 1]
  BY TailTyped
<1>2. Holds(j) /\ Prints(r, j.cmd, g + 1, l)
  <2>1. 1 \in 1..Len(out)
    BY <1>1
  <2> QED BY <1>1, <2>1 DEF Follows
<1>3. /\ d \in Seq(Lines)
      /\ Len(d) = g + (IF l.is = "empty" THEN 0 ELSE 1) - Len(j.sent)
  BY <1>1, <1>2, DueFits
<1>4. Len(d) \in 0..Len(d) /\ Len(d) \in Nat
  BY <1>3
<1>5. Len(k.sent) = Len(j.sent) + Len(d)
  BY <1>1, <1>2, <1>4, SentBegins
<1>6. /\ Len(j.sent) \in Nat /\ N \in Nat
      /\ \/ j.pending /\ g = Len(j.sent) + 1
         \/ ~j.pending /\ g = Len(j.sent)
  BY JobShape, CommandShape, Zenon
<1>7. \/ k.pending /\ Got(k) = Len(k.sent) + 1
      \/ ~k.pending /\ Got(k) = Len(k.sent)
  BY JobShape, Zenon
<1>8. k.pending <=> l.is = "empty"
  BY DEF Sent
<1>9. g \in Nat
  BY <1>6
<1> HIDE DEF g, d, N
<1>10. l.is = "empty" => Len(k.sent) = g /\ Got(k) = g + 1
  BY <1>3, <1>4, <1>5, <1>6, <1>7, <1>8, <1>9
<1>11. l.is # "empty" => Len(k.sent) = g + 1 /\ Got(k) = g + 1
  BY <1>3, <1>4, <1>5, <1>6, <1>7, <1>8, <1>9
<1>12. Got(k) = g + 1
  BY <1>10, <1>11
<1>13. k.cmd = j.cmd
  BY DEF Sent
<1>14. Holds(k)
  <2>1. SUFFICES ASSUME k.pending
                 PROVE  \/ Len(k.sent) < N /\ j.cmd.out[Len(k.sent) + 1] = "empty"
                        \/ Len(k.sent) = N /\ ~j.cmd.open /\ j.cmd.does # "floods"
    BY <1>13 DEF Holds, N
  <2>2. l.is = "empty" /\ Len(k.sent) = g
    BY <1>8, <1>10, <2>1
  <2>3. \/ g + 1 <= N /\ l = Line(r, j.cmd.out[g + 1])
        \/ g = N /\ ~j.cmd.open /\ j.cmd.does # "floods"
    BY <1>2, NextLine DEF g, N
  <2>4. CASE g + 1 <= N /\ l = Line(r, j.cmd.out[g + 1])
    <3>1. j.cmd.out[g + 1] = "empty"
      BY <2>2, <2>4 DEF Line
    <3>2. g < N
      BY <1>6, <1>9, <2>4
    <3> QED BY <2>2, <3>1, <3>2
  <2> QED BY <2>2, <2>3, <2>4
<1>15. ASSUME NEW i \in 1..Len(Tail(out)) PROVE Prints(r, k.cmd, Got(k) + i, Tail(out)[i])
  <2>1. i + 1 \in 1..Len(out) /\ Tail(out)[i] = out[i + 1]
    BY <1>1
  <2>2. Prints(r, j.cmd, g + (i + 1), out[i + 1])
    BY <2>1 DEF Follows, g
  <2>3. g + (i + 1) = Got(k) + i
    <3>1. i \in Nat
      BY <1>1
    <3> QED BY <1>9, <1>12, <3>1
  <2> QED BY <1>13, <2>1, <2>2, <2>3
<1> QED BY <1>12, <1>14, <1>15 DEF Follows, g

(***************************************************************************)
(* The steps.                                                              *)
(***************************************************************************)
SameOutput(j, k) == k.cmd = j.cmd /\ k.sent = j.sent /\ k.pending = j.pending /\ k.cut = j.cut

LEMMA GotoSame ==
  ASSUME JobsTyped, NEW r \in Req, NEW pc, Goto(r, pc)
  PROVE  SameOutput(job[r], job'[r]) /\ job'[r].pc = pc
BY DEF Goto, Becomes, JobsTyped, Jobs, SameOutput

LEMMA OwnsKept ==
  ASSUME NEW r \in Req, Owns(r, job[r]), SameOutput(job[r], job'[r]), job'[r].pc = job[r].pc,
         job[r].pc = "scan" => UNCHANGED <<stdin, stdout, bash>>
  PROVE  Owns(r, job[r])'
<1>1. (Begins(r, job[r]) => Begins(r, job[r])') /\ (Got(job[r]))' = Got(job[r])
  BY DEF SameOutput, Begins, Got
<1>2. ASSUME job[r].pc = "scan", ~job[r].cut PROVE (Follows(r, job[r], stdout) /\ Phase(r, job[r]))'
  <2>1. Follows(r, job[r], stdout) /\ Phase(r, job[r])
    BY <1>2 DEF Owns
  <2>2. UNCHANGED <<stdin, stdout, bash>>
    BY <1>2
  <2> QED BY <1>1, <2>1, <2>2, ZenonT(60) DEF Follows, Phase, Holds, Prints, SameOutput
<1> QED BY <1>1, <1>2 DEF Owns, SameOutput

\* A request that does not read from bash, before and after the step.
LEMMA OwnsMoved ==
  ASSUME NEW r \in Req, Owns(r, job[r]), SameOutput(job[r], job'[r]),
         job[r].pc # "new", job'[r].pc \notin {"new", "scan"},
         job'[r].pc \in {"judge", "lock", "write"} => job[r].pc \in {"judge", "lock", "write"},
         (job'[r].pc = "await" /\ ~job[r].cut) \/ job'[r].pc = "answered" =>
            Len(job[r].sent) = Len(job[r].cmd.out)
  PROVE  Owns(r, job[r])'
<1>1. Begins(r, job[r])'
  BY DEF Owns, SameOutput, Begins
<1> QED BY <1>1 DEF Owns, SameOutput

LEMMA PassOwns ==
  ASSUME TypeInv, NEW r \in Req, Pass(r), Owns(r, job[r])
  PROVE  Owns(r, job[r])'
<1> DEFINE j == job[r]
           k == job'[r]
           d == Due(j, line)
<1>1. /\ j \in Jobs /\ j.cmd \in Command /\ j.pc = "scan" /\ ~j.cut
      /\ stdout \in Seq(Lines) /\ stdout # <<>> /\ stdout' = Tail(stdout)
      /\ UNCHANGED <<stdin, bash>>
      /\ line.is # "long" /\ ~IsMarkerOf(line, r)
  BY DEF TypeInv, JobsTyped, StateTyped, Pass, Reads, At
<1>2. Begins(r, j) /\ Follows(r, j, stdout) /\ Phase(r, j)
  BY <1>1 DEF Owns
<1>3. k \in Jobs
  BY StepTyped DEF Step, ExecuteStream, TypeInv, JobsTyped
<1>4. PICK n \in 0..Len(d) :
           Becomes(r, [j EXCEPT !.sent = @ \o SubSeq(d, 1, n), !.cut = n < Len(d),
                                !.pending = line.is = "empty"])
  BY DEF Pass, Due
<1>5. Sent(j, k, line, n)
  <2> HIDE DEF d
  <2>1. k = [j EXCEPT !.sent = @ \o SubSeq(d, 1, n), !.cut = n < Len(d),
                      !.pending = line.is = "empty"]
    BY <1>4 DEF Becomes, TypeInv, JobsTyped
  <2>2. /\ k.cmd = j.cmd /\ k.pc = j.pc /\ k.sent = j.sent \o SubSeq(d, 1, n)
        /\ k.cut = (n < Len(d)) /\ k.pending = (line.is = "empty")
    BY <1>1, <2>1 DEF Jobs
  <2> QED BY <2>2 DEF Sent, d
<1>6. line \in Lines /\ line = stdout[1] /\ 1 \in 1..Len(stdout)
  BY <1>1, TailTyped DEF line
<1>7. Holds(j) /\ Prints(r, j.cmd, Got(j) + 1, line)
  BY <1>2, <1>6 DEF Follows
<1>8. line.is # "marker"
  <2>1. line.is = "marker" => line.of = r
    BY <1>6, <1>7 DEF Prints, Line, IsMarkerOf
  <2> QED BY <1>1, <2>1 DEF IsMarkerOf
<1>9. Begins(r, k) /\ k.pc = "scan"
  <2>1. \A m \in 0..Len(Due(j, line)) : Sent(j, k, line, m) => Begins(r, k)
    BY <1>1, <1>2, <1>3, <1>6, <1>7, <1>8, SentBegins
  <2>2. n \in 0..Len(Due(j, line)) /\ Sent(j, k, line, n)
    BY <1>4, <1>5
  <2> QED BY <1>1, <2>1, <2>2 DEF Sent
<1>10. ASSUME ~k.cut PROVE Follows(r, k, stdout') /\ Got(k) = Got(j) + 1
  <2>1. n = Len(d)
    <3>1. d \in Seq(Lines)
      BY <1>1, <1>2, <1>6, <1>7, <1>8, DueFits
    <3> QED BY <1>4, <1>5, <1>10, <3>1 DEF Sent
  <2>2. line = Head(stdout) /\ Sent(j, k, line, Len(Due(j, line)))
    BY <1>5, <2>1 DEF line
  <2> QED BY <1>1, <1>2, <1>3, <1>8, <2>2, SentFollows
<1>11. ASSUME ~k.cut PROVE Phase(r, job[r])'
  <2>1. stdin # Script(r)
    BY <1>1, <1>2 DEF Phase
  <2>2. ASSUME stdin = <<[do |-> "mark", of |-> r]>>
        PROVE  Got(k) + Len(stdout') = Got(j) + Len(stdout)
    <3>1. Len(stdout') = Len(stdout) - 1 /\ Len(stdout) \in Nat
      BY <1>1
    <3>2. Got(j) \in Nat
      <4>1. /\ Len(j.sent) \in Nat
            /\ Got(j) = Len(j.sent) + 1 \/ Got(j) = Len(j.sent)
        BY <1>1, JobShape, Zenon
      <4> QED BY <4>1
    <3> QED BY <1>10, <1>11, <3>1, <3>2
  <2>3. k.cmd = j.cmd
    BY <1>5 DEF Sent
  <2> QED BY <1>1, <1>2, <2>1, <2>2, <2>3 DEF Phase, Got, Script
<1> QED BY <1>9, <1>10, <1>11 DEF Owns, Begins, Follows, Holds, Prints, Got

LEMMA MarkerOwns ==
  ASSUME TypeInv, NEW r \in Req, ReadMarker(r), Owns(r, job[r])
  PROVE  Owns(r, job[r])'
<1> DEFINE j == job[r]
<1>1. /\ j \in Jobs /\ j.cmd \in Command /\ j.pc = "scan"
      /\ stdout \in Seq(Lines) /\ stdout # <<>> /\ line.is = "marker"
  BY DEF TypeInv, JobsTyped, StateTyped, ReadMarker, Reads, At, IsMarkerOf
<1>2. SameOutput(j, job'[r]) /\ job'[r].pc = "await"
  BY DEF ReadMarker, Becomes, TypeInv, JobsTyped, Jobs, SameOutput
<1>3. ASSUME ~j.cut PROVE Len(j.sent) = Len(j.cmd.out)
  <2>1. Begins(r, j) /\ Follows(r, j, stdout)
    BY <1>1, <1>3 DEF Owns
  <2>2. line = stdout[1] /\ 1 \in 1..Len(stdout)
    BY <1>1, TailTyped DEF line
  <2>3. Holds(j) /\ Prints(r, j.cmd, Got(j) + 1, line)
    BY <2>1, <2>2 DEF Follows
  <2> QED BY <1>1, <2>1, <2>3, AllRead
<1> QED BY <1>1, <1>2, <1>3, OwnsMoved

LEMMA WriteOwns ==
  ASSUME TypeInv, StreamInv, NEW r \in Req, Write(r), Owns(r, job[r])
  PROVE  Owns(r, job[r])'
<1> USE DEF TypeInv
<1>1. At(r, "write")
  BY DEF Write
<1>2. CASE Return(r, "failed")
  <2>1. SameOutput(job[r], job'[r]) /\ job'[r].pc = "failed"
    BY <1>2, GotoSame DEF Return
  <2> QED BY <1>1, <2>1, OwnsMoved DEF At
<1>3. CASE Goto(r, "scan") /\ bash.state # "gone" /\ stdin' = stdin \o Script(r)
  <2>1. SameOutput(job[r], job'[r]) /\ job'[r].pc = "scan"
    BY <1>3, GotoSame
  <2>2. stdin = <<>> /\ stdout' = <<>>
    BY <1>1, <1>3 DEF StreamInv, InStep, Clear, At, Write
  <2>3. stdin' = Script(r)
    BY <1>3, <2>2, ScriptTyped
  <2>4. job[r].sent = <<>> /\ ~job[r].pending /\ Begins(r, job[r])
    BY <1>1 DEF Owns, At
  <2>5. Begins(r, job[r])' /\ Holds(job[r])' /\ job'[r].sent = <<>> /\ ~job'[r].pending
    BY <2>1, <2>4 DEF SameOutput, Begins, Holds
  <2>6. Follows(r, job[r], stdout)'
    BY <2>2, <2>5 DEF Follows
  <2>7. stdin' # <<[do |-> "mark", of |-> r]>>
    BY <2>3 DEF Script
  <2>8. Phase(r, job[r])'
    BY <2>2, <2>5, <2>7 DEF Phase
  <2> QED BY <2>1, <2>5, <2>6, <2>8 DEF Owns
<1> QED BY <1>2, <1>3 DEF Write

LEMMA StepOwns ==
  ASSUME TypeInv, StreamInv, NEW r \in Req, Step(r), Owns(r, job[r])
  PROVE  Owns(r, job[r])'
<1> USE DEF TypeInv, At
<1>1. CASE Get(r)
  <2>1. PICK c \in Command : Becomes(r, [job[r] EXCEPT !.cmd = c, !.pc = SessionGet])
    BY <1>1 DEF Get
  <2>2. /\ job'[r].cmd = c /\ job'[r].sent = job[r].sent /\ job'[r].pending = job[r].pending
        /\ job'[r].cut = job[r].cut /\ job'[r].pc \in {"judge", "refused"}
    BY <2>1 DEF Becomes, JobsTyped, Jobs, SessionGet
  <2>3. job[r].sent = <<>> /\ ~job[r].pending /\ ~job[r].cut
    BY <1>1 DEF Get, Owns
  <2>4. Begins(r, job[r])'
    BY <2>2, <2>3, CommandShape DEF Begins
  <2> QED BY <2>2, <2>3, <2>4 DEF Owns
<1>2. CASE Judge(r)
  <2>1. PICK pc \in {"lock", "refused"} : Goto(r, pc)
    BY <1>2 DEF Judge
  <2>2. SameOutput(job[r], job'[r]) /\ job'[r].pc = pc
    BY <2>1, GotoSame
  <2> QED BY <1>2, <2>1, <2>2, OwnsMoved DEF Judge
<1>3. CASE Leave(r)
  <2>1. SameOutput(job[r], job'[r]) /\ job'[r].pc = job[r].pc
    BY <1>3 DEF Leave, Becomes, JobsTyped, Jobs, SameOutput
  <2> QED BY <1>3, <2>1, OwnsKept DEF Leave, pipes
<1>4. CASE Refuse(r)
  <2>1. SameOutput(job[r], job'[r]) /\ job'[r].pc = "failed"
    BY <1>4, GotoSame DEF Refuse
  <2> QED BY <1>4, <2>1, OwnsMoved DEF Refuse
<1>5. CASE Begin(r)
  <2>1. SameOutput(job[r], job'[r]) /\ job'[r].pc = "write"
    BY <1>5, GotoSame DEF Begin
  <2> QED BY <1>5, <2>1, OwnsMoved DEF Begin
<1>6. CASE ReadBadMarker(r) \/ ReadTooLong(r) \/ ReadEOF(r)
  <2>1. SameOutput(job[r], job'[r]) /\ job'[r].pc = "failed" /\ job[r].pc = "scan"
    BY <1>6, GotoSame DEF ReadBadMarker, ReadTooLong, ReadEOF, Return, Reads
  <2> QED BY <2>1, OwnsMoved
<1>7. CASE Drain(r)
  <2>1. UNCHANGED job /\ job[r].cut /\ job[r].pc = "scan"
    BY <1>7 DEF Drain, Reads
  <2> QED BY <2>1 DEF Owns, Begins
<1>8. CASE AwaitErr(r)
  <2>1. job[r].pc = "await"
    BY <1>8 DEF AwaitErr
  <2>2. CASE job[r].cut
    <3>1. SameOutput(job[r], job'[r]) /\ job'[r].pc = "failed"
      BY <1>8, <2>2, GotoSame DEF AwaitErr
    <3> QED BY <2>1, <3>1, OwnsMoved
  <2>3. CASE ~job[r].cut
    <3>1. SameOutput(job[r], job'[r]) /\ job'[r].pc = "answered"
      BY <1>8, <2>3, ZenonT(60) DEF AwaitErr, Becomes, JobsTyped, Jobs, SameOutput
    <3> QED BY <2>1, <2>3, <3>1, OwnsMoved DEF Owns
  <2> QED BY <2>2, <2>3
<1> QED BY <1>1, <1>2, <1>3, <1>4, <1>5, <1>6, <1>7, <1>8, WriteOwns, MarkerOwns, PassOwns
        DEF Step, ExecuteStream

\* Whoever reads from bash holds mu, and nobody else touches stdin and stdout then.
LEMMA OthersOwn ==
  ASSUME TypeInv, NEW r \in Req, Step(r), NEW s \in Req \ {r}, Owns(s, job[s])
  PROVE  Owns(s, job[s])'
<1>1. PICK j : Makes(r, j)
  BY StepMakes
<1>2. job'[s] = job[s]
  BY <1>1 DEF Makes, Becomes, TypeInv, JobsTyped
<1>3. job[s].pc = "scan" => mu = s
  BY DEF TypeInv, Locked, Held
<1>4. (job[r].pc \in Held <=> mu = r) /\ s # None
  BY ShellAssumption DEF TypeInv, Locked
<1>5. ASSUME mu = s PROVE UNCHANGED <<stdin, stdout, bash>>
  <2>1. job[r].pc \notin Held
    BY <1>4, <1>5
  <2>2. Get(r) \/ Judge(r) \/ Leave(r)
    BY <1>4, <1>5, <2>1
       DEF Step, ExecuteStream, Refuse, Begin, Write, ReadBadMarker, ReadMarker, Drain, Pass,
           ReadTooLong, ReadEOF, AwaitErr, Reads, At, Held
  <2> QED BY <2>2 DEF Get, Judge, Leave, pipes
<1> QED BY <1>2, <1>3, <1>5, OwnsKept DEF SameOutput

LEMMA EndingOwns ==
  ASSUME TypeInv, NEW d \in Closer, Ending(d), NEW r \in Req, Owns(r, job[r])
  PROVE  Owns(r, job[r])'
<1>1. UNCHANGED <<job, stdout, bash>>
  BY DEF Ending, Delete, Close, Wait, pipes
<1>2. job[r].pc = "scan" => UNCHANGED stdin
  <2>1. job[r].pc = "scan" => mu = r /\ r # None
    BY ShellAssumption DEF TypeInv, Locked, Held
  <2> QED BY <2>1 DEF Ending, Delete, Close, Wait, pipes
<1> QED BY <1>1, <1>2, OwnsKept DEF SameOutput

LEMMA PrintedIs ==
  ASSUME NEW r \in Req, NEW c \in Command
  PROVE  /\ Printed(r, c) \in Seq(Lines)
         /\ Len(Printed(r, c)) = Len(c.out) + (IF c.does = "floods" THEN 1 ELSE 0)
         /\ \A i \in 1..Len(Printed(r, c)) : Prints(r, c, i, Printed(r, c)[i])
<1> DEFINE out == [i \in DOMAIN c.out |-> Line(r, c.out[i])]
           rest == IF c.does = "floods" THEN <<Line(r, "long")>> ELSE <<>>
<1>1. Len(c.out) \in Nat /\ DOMAIN c.out = 1..Len(c.out)
  BY CommandShape
<1>2. /\ out \in Seq(Lines) /\ Len(out) = Len(c.out)
      /\ \A i \in 1..Len(out) : out[i] = Line(r, c.out[i])
  <2>1. out \in Seq(Lines) /\ DOMAIN out = 1..Len(c.out)
    BY <1>1, PrintedLines
  <2>2. \A i \in 1..Len(c.out) : out[i] = Line(r, c.out[i])
    BY <1>1
  <2> HIDE DEF out
  <2>3. Len(out) = Len(c.out)
    BY <1>1, <2>1
  <2> QED BY <2>1, <2>2, <2>3
<1>3. Printed(r, c) = out \o rest
  BY DEF Printed
<1>4. CASE c.does = "floods"
  <2>1. rest = <<Line(r, "long")>>
    BY <1>4
  <2>2. Line(r, "long") \in Lines
    BY DEF Line, Lines
  <2> DEFINE l == Line(r, "long")
  <2> HIDE DEF out, l
  <2>3. out \o <<l>> = Append(out, l) /\ l \in Lines
    BY <1>2, <2>2 DEF l
  <2>4. Printed(r, c) = Append(out, l)
    BY <1>3, <2>1, <2>3 DEF l
  <2>5. /\ Printed(r, c) \in Seq(Lines) /\ Len(Printed(r, c)) = Len(c.out) + 1
        /\ \A i \in 1..Len(c.out) : Printed(r, c)[i] = Line(r, c.out[i])
        /\ Printed(r, c)[Len(c.out) + 1] = Line(r, "long")
    BY <1>1, <1>2, <2>3, <2>4 DEF l
  <2> QED BY <1>1, <1>4, <2>5 DEF Prints
<1>5. CASE c.does # "floods"
  <2>1. rest = <<>>
    BY <1>5
  <2> HIDE DEF out
  <2>2. Printed(r, c) = out
    BY <1>2, <1>3, <2>1
  <2> QED BY <1>1, <1>2, <1>5, <2>2 DEF Prints
<1> QED BY <1>4, <1>5

LEMMA RunPrints ==
  ASSUME BashRun, NEW r \in Req, job[r].cmd \in Command, Unread(r)
  PROVE  stdout' = Printed(r, job[r].cmd)
<1> DEFINE c == job[r].cmd
           out == [i \in DOMAIN c.out |-> Line(r, c.out[i])]
           rest == IF c.does = "floods" THEN <<Line(r, "long")>> ELSE <<>>
<1>1. out \in Seq(Lines)
  BY PrintedLines
<1>2. Head(stdin).of = r
  BY DEF Unread, Script
<1>3. stdout' = stdout \o out \o rest
  BY <1>2 DEF BashRun
<1>4. Printed(r, c) = out \o rest
  BY DEF Printed
<1>5. stdout = <<>>
  BY DEF Unread
<1> HIDE DEF out, rest
<1>6. <<>> \o out = out
  BY <1>1
<1> QED BY <1>3, <1>4, <1>5, <1>6

\* Bash runs the command of the request that reads.
LEMMA RunOwns ==
  ASSUME TypeInv, BashRun, NEW r \in Req, Owns(r, job[r]),
         job[r].pc = "scan", ~job[r].cut, Unread(r)
  PROVE  Owns(r, job[r])'
<1> DEFINE j == job[r]
           c == job[r].cmd
<1>1. /\ j \in Jobs /\ c \in Command /\ UNCHANGED job
      /\ Begins(r, j) /\ Holds(j) /\ j.sent = <<>> /\ ~j.pending
  BY DEF TypeInv, JobsTyped, BashRun, Owns, Phase, Follows, Unread
<1>2. Head(stdin) = [do |-> "run", of |-> r] /\ Tail(stdin) = <<[do |-> "mark", of |-> r]>>
  BY DEF Unread, Script
<1>3. stdin' = <<[do |-> "mark", of |-> r]>> /\ stdin' # Script(r)
  <2>1. stdin' = <<[do |-> "mark", of |-> r]>>
    BY <1>2 DEF BashRun
  <2>2. Len(Script(r)) = 2
    BY DEF Script
  <2> QED BY <2>1, <2>2
<1>4. stdout' = Printed(r, c)
  BY <1>1, RunPrints
<1>5. bash'.open <=> c.open /\ c.does # "floods"
  <2>1. Head(stdin).of = r
    BY <1>2
  <2>2. \E state, mute, ec : bash' = [state |-> state, mute |-> mute,
                                      open |-> c.open /\ c.does # "floods", ec |-> ec]
    BY <2>1, Zenon DEF BashRun
  <2>3. bash'.open = (c.open /\ c.does # "floods")
    BY <2>2
  <2> QED BY <2>3
<1>6. Got(j) = 0
  <2>1. Got(j) = Len(j.sent) /\ Len(j.sent) = 0
    BY <1>1, JobShape, Zenon DEF Got
  <2> QED BY <2>1
<1>7. /\ Len(stdout') = Len(c.out) + (IF c.does = "floods" THEN 1 ELSE 0)
      /\ \A i \in 1..Len(stdout') : Prints(r, c, 0 + i, stdout'[i])
      /\ Len(c.out) \in Nat
  <2>1. /\ Len(stdout') = Len(c.out) + (IF c.does = "floods" THEN 1 ELSE 0)
        /\ \A i \in 1..Len(stdout') : Prints(r, c, i, stdout'[i])
    BY <1>1, <1>4, PrintedIs
  <2>2. \A i \in 1..Len(stdout') : 0 + i = i
    OBVIOUS
  <2>3. Len(c.out) \in Nat
    BY <1>1, CommandShape
  <2> QED BY <2>1, <2>2, <2>3
<1>8. Follows(r, job[r], stdout)'
  BY <1>1, <1>6, <1>7 DEF Follows, Holds, Got, Prints
<1>9. Phase(r, job[r])'
  BY <1>1, <1>3, <1>5, <1>6, <1>7 DEF Phase, Got
<1> QED BY <1>1, <1>8, <1>9 DEF Owns, Begins

\* Bash prints the marker of the request that reads.
LEMMA MarkOwns ==
  ASSUME TypeInv, BashMark, NEW r \in Req, Owns(r, job[r]),
         job[r].pc = "scan", ~job[r].cut, Unmarked(r)
  PROVE  Owns(r, job[r])'
<1> DEFINE j == job[r]
           c == job[r].cmd
           N == Len(c.out)
           g == Got(j)
           m == Marker(r, bash.ec)
           e == Line(r, "empty")
<1>1. /\ j \in Jobs /\ c \in Command /\ UNCHANGED job /\ bash.open \in BOOLEAN
      /\ Begins(r, j) /\ Follows(r, j, stdout) /\ Phase(r, j) /\ stdout \in Seq(Lines)
  BY DEF TypeInv, JobsTyped, StateTyped, BashMark, Owns
<1>2. Head(stdin) = [do |-> "mark", of |-> r] /\ stdin' = <<>>
  BY DEF Unmarked, BashMark
<1>3. stdout' = stdout \o (IF bash.open THEN <<>> ELSE <<e>>) \o <<m>>
  <2>1. Head(stdin).of = r
    BY <1>2
  <2> QED BY <2>1 DEF BashMark
<1>4. /\ m \in Lines /\ e \in Lines /\ IsMarkerOf(m, r) /\ m.of = r /\ e.of = r
  BY DEF Marker, Line, Lines, IsMarkerOf, TypeInv, StateTyped
<1>5. /\ g + Len(stdout) = N + (IF c.does = "floods" THEN 1 ELSE 0)
      /\ bash.open <=> c.open /\ c.does # "floods"
  BY <1>1 DEF Phase, Unmarked
<1>6. g \in Nat /\ N \in Nat /\ Len(stdout) \in Nat
  <2>1. Len(j.sent) \in Nat /\ (g = Len(j.sent) + 1 \/ g = Len(j.sent))
    BY <1>1, JobShape, Zenon
  <2> QED BY <1>1, <2>1, CommandShape
<1>7. Holds(j) /\ \A i \in 1..Len(stdout) : Prints(r, c, g + i, stdout[i])
  BY <1>1 DEF Follows
<1> HIDE DEF m, e, g, N
<1>8. ASSUME bash.open
      PROVE  \A i \in 1..Len(stdout') : Prints(r, c, g + i, stdout'[i])
  <2>1. stdout' = Append(stdout, m)
    <3>1. (IF bash.open THEN <<>> ELSE <<e>>) = <<>>
      BY <1>8, Zenon
    <3>2. stdout \o <<>> = stdout /\ stdout \o <<m>> = Append(stdout, m)
      BY <1>1, <1>4
    <3> QED BY <1>3, <3>1, <3>2, Zenon
  <2>2. /\ Len(stdout') = Len(stdout) + 1
        /\ \A i \in 1..Len(stdout) : stdout'[i] = stdout[i]
        /\ stdout'[Len(stdout) + 1] = m
    BY <1>1, <1>4, <2>1
  <2>3. Prints(r, c, g + (Len(stdout) + 1), m)
    <3>1. c.does # "floods" /\ c.open /\ g + Len(stdout) = N
      BY <1>5, <1>6, <1>8
    <3>2. g + (Len(stdout) + 1) = N + 1
      BY <1>6, <3>1
    <3> QED BY <1>4, <3>1, <3>2 DEF Prints, N
  <2>4. \A i \in 1..Len(stdout') : i = Len(stdout) + 1 \/ i \in 1..Len(stdout)
    BY <1>6, <2>2
  <2> QED BY <1>7, <2>2, <2>3, <2>4
<1>9. ASSUME ~bash.open
      PROVE  \A i \in 1..Len(stdout') : Prints(r, c, g + i, stdout'[i])
  <2>1. stdout' = Append(Append(stdout, e), m)
    <3>1. (IF bash.open THEN <<>> ELSE <<e>>) = <<e>>
      BY <1>9, Zenon
    <3>2. stdout \o <<e>> = Append(stdout, e) /\ Append(stdout, e) \in Seq(Lines)
      BY <1>1, <1>4
    <3>3. Append(stdout, e) \o <<m>> = Append(Append(stdout, e), m)
      BY <1>4, <3>2
    <3> QED BY <1>3, <3>1, <3>2, <3>3, Zenon
  <2>2. /\ Len(stdout') = Len(stdout) + 2
        /\ \A i \in 1..Len(stdout) : stdout'[i] = stdout[i]
        /\ stdout'[Len(stdout) + 1] = e /\ stdout'[Len(stdout) + 2] = m
    BY <1>1, <1>4, <2>1
  <2>3. Prints(r, c, g + (Len(stdout) + 1), e) /\ Prints(r, c, g + (Len(stdout) + 2), m)
    <3>1. CASE c.does = "floods"
      <4>1. /\ g + (Len(stdout) + 1) > N + 1
            /\ g + (Len(stdout) + 2) > N + 1
        BY <1>5, <1>6, <3>1
      <4> QED BY <1>4, <3>1, <4>1 DEF Prints, N
    <3>2. CASE c.does # "floods"
      <4>1. /\ ~c.open
            /\ g + (Len(stdout) + 1) = N + 1
            /\ g + (Len(stdout) + 2) = N + 2
        BY <1>5, <1>6, <1>9, <3>2
      <4> QED BY <1>4, <3>2, <4>1 DEF Prints, N, e
    <3> QED BY <3>1, <3>2
  <2>4. \A i \in 1..Len(stdout') :
           i = Len(stdout) + 2 \/ i = Len(stdout) + 1 \/ i \in 1..Len(stdout)
    BY <1>6, <2>2
  <2> QED BY <1>7, <2>2, <2>3, <2>4
<1>10. Follows(r, job[r], stdout)'
  <2>1. \A i \in 1..Len(stdout') : Prints(r, c, g + i, stdout'[i])
    BY <1>1, <1>8, <1>9
  <2> QED BY <1>1, <1>7, <2>1, ZenonT(60) DEF Follows, Holds, Got, Prints, g
<1>11. Phase(r, job[r])'
  <2>1. Len(Script(r)) = 2
    BY DEF Script
  <2> QED BY <1>2, <2>1 DEF Phase
<1> QED BY <1>1, <1>10, <1>11 DEF Owns, Begins

LEMMA BashOwns ==
  ASSUME TypeInv, StreamInv, BashRun \/ BashMark \/ BashExit, NEW r \in Req, Owns(r, job[r])
  PROVE  Owns(r, job[r])'
<1>1. UNCHANGED job /\ bash.state = "ready" /\ stdin # <<>>
  BY DEF BashRun, BashMark, BashExit
<1>2. CASE job[r].pc # "scan"
  BY <1>1, <1>2, OwnsKept DEF SameOutput
<1>3. CASE job[r].cut
  BY <1>1, <1>3 DEF Owns, Begins
<1>4. CASE job[r].pc = "scan" /\ ~job[r].cut
  <2>1. Unread(r) \/ Unmarked(r)
    BY <1>1, <1>4 DEF StreamInv, InStep, Streaming, Marked
  <2>2. CASE Unread(r)
    <3>1. Head(stdin).do = "run" /\ Head(stdin) # ExitLine
      BY <2>2 DEF Unread, Script, ExitLine
    <3>2. BashRun
      BY <3>1 DEF BashMark, BashExit
    <3> QED BY <1>4, <2>2, <3>2, RunOwns
  <2>3. CASE Unmarked(r)
    <3>1. Head(stdin).do = "mark" /\ Head(stdin) # ExitLine
      BY <2>3 DEF Unmarked, ExitLine
    <3>2. BashMark
      BY <3>1 DEF BashRun, BashExit
    <3> QED BY <1>4, <2>3, <3>2, MarkOwns
  <2> QED BY <2>1, <2>2, <2>3
<1> QED BY <1>2, <1>3, <1>4

LEMMA OutputKept ==
  ASSUME OutInv, [Next]_vars PROVE OutInv'
<1> USE DEF OutInv
<1>1. TypeInv'
  BY TypesKept
<1>2. StreamInv'
  BY NextIsOneOf, StepInStep, EndingInStep, ReadErrInStep, BashInStep
<1>3. ASSUME NEW r \in Req PROVE Owns(r, job[r])'
  <2>1. CASE \E s \in Req : Step(s)
    BY <2>1, StepOwns, OthersOwn
  <2>2. CASE \E d \in Closer : Ending(d)
    BY <2>2, EndingOwns
  <2>3. CASE BashRun \/ BashMark \/ BashExit
    BY <2>3, BashOwns
  <2>4. CASE ReadErr \/ UNCHANGED vars
    BY <2>4, OwnsKept DEF ReadErr, vars, SameOutput
  <2> QED BY <2>1, <2>2, <2>3, <2>4, NextIsOneOf
<1> QED BY <1>1, <1>2, <1>3

LEMMA InitOwns ==
  ASSUME Init PROVE OutInv
<1>1. StreamInv
  BY DEF Init, NewBashShell, StreamInv, InStep, Clear, NoJob
<1>2. \A r \in Req : Owns(r, job[r])
  BY DEF Init, NoJob, Owns
<1> QED BY <1>1, <1>2, InitTyped DEF OutInv

\* OwnOutput: a client is sent nothing but the lines of its own command, in order, and all of
\* them if it is answered, whoever else uses the session, before it or after it.
THEOREM OutputIsOwn == Spec => []OwnOutput
<1>1. Init => OutInv
  BY InitOwns
<1>2. OutInv => OwnOutput
  <2> SUFFICES ASSUME OutInv, NEW r \in Req, ~At(r, "new")
               PROVE  /\ Len(job[r].sent) <= Len(OwnLines(r))
                      /\ job[r].sent = SubSeq(OwnLines(r), 1, Len(job[r].sent))
                      /\ At(r, "answered") => Len(job[r].sent) = Len(OwnLines(r))
    BY DEF OwnOutput
  <2> DEFINE s == job[r].sent
             out == job[r].cmd.out
             own == OwnLines(r)
  <2>1. s \in Seq(Lines) /\ job[r].cmd \in Command
    BY JobShape DEF OutInv, TypeInv, JobsTyped, At
  <2>2. Len(out) \in Nat /\ DOMAIN out = 1..Len(out)
    BY <2>1, CommandShape
  <2>3. own \in Seq(Lines)
    BY <2>1, PrintedLines DEF OwnLines
  <2>4. Len(own) = Len(out) /\ \A i \in 1..Len(out) : own[i] = Line(r, out[i])
    <3>1. DOMAIN own = 1..Len(out)
      BY <2>2 DEF OwnLines
    <3>2. \A i \in 1..Len(out) : own[i] = Line(r, out[i])
      BY <2>2 DEF OwnLines
    <3> HIDE DEF own
    <3> QED BY <2>2, <2>3, <3>1, <3>2
  <2>5. Len(s) <= Len(out) /\ \A i \in 1..Len(s) : s[i] = Line(r, out[i])
    BY DEF OutInv, Owns, Begins, At
  <2>6. job[r].pc = "answered" => Len(s) = Len(out)
    BY DEF OutInv, Owns
  <2> HIDE DEF s, own
  <2>7. s = SubSeq(own, 1, Len(s))
    <3>1. /\ SubSeq(own, 1, Len(s)) \in Seq(Lines) /\ Len(SubSeq(own, 1, Len(s))) = Len(s)
          /\ \A i \in 1..Len(s) : SubSeq(own, 1, Len(s))[i] = own[i]
      BY <2>1, <2>2, <2>3, <2>4, <2>5
    <3>2. \A i \in 1..Len(s) : s[i] = SubSeq(own, 1, Len(s))[i]
      BY <2>1, <2>2, <2>4, <2>5, <3>1
    <3> DEFINE t == SubSeq(own, 1, Len(s))
    <3> HIDE DEF t
    <3>3. \A a, b \in Seq(Lines) :
             Len(a) = Len(b) /\ (\A i \in 1..Len(a) : a[i] = b[i]) => a = b
      OBVIOUS
    <3>4. t \in Seq(Lines) /\ Len(s) = Len(t) /\ \A i \in 1..Len(s) : s[i] = t[i]
      BY <3>1, <3>2 DEF t
    <3> QED BY <2>1, <3>3, <3>4 DEF t
  <2> QED BY <2>4, <2>5, <2>6, <2>7 DEF s, own, At
<1> QED BY <1>1, <1>2, OutputKept, PTL DEF Spec

(***************************************************************************)
(* What has been tried in a shell has been tried for good.                 *)
(***************************************************************************)
Shelled(r) == job[r].pc \notin {"new", "judge", "lock", "refused"}

LEMMA ShelledKept ==
  ASSUME TypeInv, [Next]_vars, NEW r \in Req, Shelled(r)
  PROVE  Shelled(r)' /\ job'[r].cmd = job[r].cmd
<1> USE DEF TypeInv, At
<1>1. CASE Step(r)
  <2>1. CASE Leave(r)
    BY <2>1 DEF Leave, Becomes, JobsTyped, Jobs, Shelled
  <2>2. CASE Write(r)
    BY <2>2, GotoSame DEF Write, Return, SameOutput, Shelled
  <2>3. CASE ReadBadMarker(r) \/ ReadTooLong(r) \/ ReadEOF(r)
    BY <2>3, GotoSame DEF ReadBadMarker, ReadTooLong, ReadEOF, Return, SameOutput, Shelled
  <2>4. CASE ReadMarker(r)
    BY <2>4 DEF ReadMarker, Becomes, JobsTyped, Jobs, Shelled
  <2>5. CASE Drain(r)
    BY <2>5 DEF Drain, Shelled
  <2>6. CASE Pass(r)
    <3>1. PICK n, d : Becomes(r, [job[r] EXCEPT !.sent = @ \o SubSeq(d, 1, n),
                                                !.cut = n < Len(d), !.pending = line.is = "empty"])
      BY <2>6 DEF Pass
    <3> DEFINE t == job[r].sent \o SubSeq(d, 1, n)
               a == n < Len(d)
               b == line.is = "empty"
    <3>2. Becomes(r, [job[r] EXCEPT !.sent = t, !.cut = a, !.pending = b])
      BY <3>1
    <3> HIDE DEF t, a, b
    <3> QED BY <3>2 DEF Becomes, JobsTyped, Jobs, Shelled
  <2>7. CASE AwaitErr(r)
    <3>1. CASE job[r].cut
      BY <2>7, <3>1, GotoSame DEF AwaitErr, SameOutput, Shelled
    <3>2. CASE ~job[r].cut
      BY <2>7, <3>2, ZenonT(60) DEF AwaitErr, Becomes, JobsTyped, Jobs, Shelled
    <3> QED BY <3>1, <3>2
  <2> QED BY <1>1, <2>1, <2>2, <2>3, <2>4, <2>5, <2>6, <2>7
          DEF Step, ExecuteStream, Get, Judge, Refuse, Begin, Shelled
<1>2. ASSUME NEW s \in Req \ {r}, Step(s) PROVE job'[r] = job[r]
  <2>1. PICK j : Makes(s, j)
    BY <1>2, StepMakes
  <2> QED BY <2>1 DEF Makes, Becomes, JobsTyped
<1>3. CASE \E d \in Closer : Ending(d)
  BY <1>3 DEF Ending, Delete, Close, Wait, Shelled
<1>4. CASE ReadErr \/ BashRun \/ BashMark \/ BashExit \/ UNCHANGED vars
  BY <1>4 DEF ReadErr, BashRun, BashMark, BashExit, vars, Shelled
<1> QED BY <1>1, <1>2, <1>3, <1>4, NextIsOneOf DEF Shelled

LEMMA TriedForGood ==
  ASSUME TypeInv, [Next]_vars, NEW does, Tried(does) PROVE Tried(does)'
<1>1. PICK r \in Req : Shelled(r) /\ job[r].cmd.does = does
  BY DEF Tried, Shelled
<1>2. Shelled(r)' /\ job'[r].cmd = job[r].cmd
  BY <1>1, ShelledKept
<1> QED BY <1>1, <1>2 DEF Tried, Shelled

(***************************************************************************)
(* Leaving does no harm.                                                   *)
(***************************************************************************)
Spoilt == bash.state = "gone" \/ Tried("floods") \/ Tried("reads")

\* What is in the pipes was put there for requests that have come as far as the shell.
Traced ==
  /\ \A i \in 1..Len(stdin) : stdin[i] # ExitLine => Shelled(stdin[i].of)
  /\ \A i \in 1..Len(stdout) : stdout[i].is = "long" => Tried("floods")
  /\ \A i \in 1..Len(stdout) :
        stdout[i].is = "marker" /\ stdout[i].status = None => Tried("reads")
  /\ stdin # <<>> /\ Head(stdin).do = "mark" /\ bash.state = "ready" /\ bash.ec = None =>
        Tried("reads")

\* Else the request that found its client gone will put the session right.
Mended ==
  broken => Spoilt \/ \E r \in Req : mu = r /\ job[r].cut /\ job[r].pc \in {"scan", "await"}

LEMMA GoneForGood ==
  ASSUME [Next]_vars, bash.state = "gone" PROVE bash'.state = "gone"
<1>1. BashRun \/ BashMark \/ BashExit \/ UNCHANGED bash
  BY NextIsOneOf DEF Step, ExecuteStream, Get, Judge, Leave, Refuse, Begin, Write, ReadBadMarker,
     ReadMarker, Drain, Pass, ReadTooLong, ReadEOF, AwaitErr, Reads, Ending, Delete, Close, Wait,
     ReadErr, vars
<1> QED BY <1>1 DEF BashRun, BashMark, BashExit

LEMMA SpoiltForGood ==
  ASSUME TypeInv, [Next]_vars, Spoilt PROVE Spoilt'
BY GoneForGood, TriedForGood DEF Spoilt

LEMMA OfConcat ==
  ASSUME NEW S, NEW a \in Seq(S), NEW b \in Seq(S)
  PROVE  /\ a \o b \in Seq(S)
         /\ \A i \in 1..Len(a \o b) : \/ \E k \in 1..Len(a) : (a \o b)[i] = a[k]
                                      \/ \E k \in 1..Len(b) : (a \o b)[i] = b[k]
         /\ a # <<>> => a \o b # <<>> /\ Head(a \o b) = Head(a)
<1>1. a \o b \in Seq(S) /\ Len(a \o b) = Len(a) + Len(b) /\ Len(a) \in Nat /\ Len(b) \in Nat
  OBVIOUS
<1>2. ASSUME NEW i \in 1..Len(a \o b)
      PROVE  \/ \E k \in 1..Len(a) : (a \o b)[i] = a[k]
             \/ \E k \in 1..Len(b) : (a \o b)[i] = b[k]
  <2>1. CASE i <= Len(a)
    BY <1>1, <2>1
  <2>2. CASE i > Len(a)
    <3>1. i - Len(a) \in 1..Len(b) /\ (a \o b)[i] = b[i - Len(a)]
      BY <1>1, <2>2
    <3> QED BY <3>1
  <2> QED BY <1>1, <2>1, <2>2
<1>3. a # <<>> => a \o b # <<>> /\ Head(a \o b) = Head(a)
  <2> SUFFICES ASSUME a # <<>> PROVE a \o b # <<>> /\ Head(a \o b) = Head(a)
    OBVIOUS
  <2>1. Len(a) > 0
    OBVIOUS
  <2>2. Len(a \o b) > 0 /\ (a \o b)[1] = a[1]
    BY <1>1, <2>1
  <2> QED BY <1>1, <2>1, <2>2
<1> QED BY <1>1, <1>2, <1>3

Made(t, a, b, c) ==
  \A i \in 1..Len(t) : \/ \E k \in 1..Len(a) : t[i] = a[k]
                       \/ \E k \in 1..Len(b) : t[i] = b[k]
                       \/ \E k \in 1..Len(c) : t[i] = c[k]

LEMMA OfThree ==
  ASSUME NEW S, NEW a \in Seq(S), NEW b \in Seq(S), NEW c \in Seq(S), NEW t, t = a \o b \o c
  PROVE  Made(t, a, b, c)
<1> DEFINE d == a \o b
<1>1. /\ d \in Seq(S)
      /\ \A i \in 1..Len(d) : \/ \E k \in 1..Len(a) : d[i] = a[k]
                              \/ \E k \in 1..Len(b) : d[i] = b[k]
  BY OfConcat
<1>2. t = d \o c
  OBVIOUS
<1> HIDE DEF d
<1>3. /\ d \o c \in Seq(S)
      /\ \A i \in 1..Len(d \o c) : \/ \E k \in 1..Len(d) : (d \o c)[i] = d[k]
                                   \/ \E k \in 1..Len(c) : (d \o c)[i] = c[k]
  BY <1>1, OfConcat
<1>4. /\ t \in Seq(S)
      /\ \A i \in 1..Len(t) : \/ \E k \in 1..Len(d) : t[i] = d[k]
                              \/ \E k \in 1..Len(c) : t[i] = c[k]
  BY <1>2, <1>3, Zenon
<1> SUFFICES ASSUME NEW i \in 1..Len(t)
             PROVE  \/ \E k \in 1..Len(a) : t[i] = a[k]
                    \/ \E k \in 1..Len(b) : t[i] = b[k]
                    \/ \E k \in 1..Len(c) : t[i] = c[k]
  BY Zenon DEF Made
<1>5. CASE \E k \in 1..Len(d) : t[i] = d[k]
  <2> PICK k \in 1..Len(d) : t[i] = d[k]
    BY <1>5
  <2> QED BY <1>1, Zenon
<1>6. CASE \E k \in 1..Len(c) : t[i] = c[k]
  BY <1>6, Zenon
<1> QED BY <1>4, <1>5, <1>6, Zenon

\* New lines, on stdin or on stdout, that are traced themselves.
LEMMA TracedGrow ==
  ASSUME TypeInv, Traced, [Next]_vars,
         \A i \in 1..Len(stdin') :
            \/ \E k \in 1..Len(stdin) : stdin'[i] = stdin[k]
            \/ stdin'[i] = ExitLine \/ (stdin'[i].of \in Req /\ Shelled(stdin[i].of)'),
         \A i \in 1..Len(stdout') :
            \/ \E k \in 1..Len(stdout) : stdout'[i] = stdout[k]
            \/ stdout'[i].is \in {"text", "empty"}
            \/ stdout'[i].is = "long" /\ Tried("floods")
            \/ stdout'[i].is = "marker" /\ (stdout'[i].status = None => Tried("reads")),
         (stdin # <<>> /\ Head(stdin).do = "mark" /\ bash.state = "ready" /\ bash.ec = None =>
            Tried("reads"))'
  PROVE  Traced'
<1>1. Tried("floods") => Tried("floods")'
  BY TriedForGood
<1>2. Tried("reads") => Tried("reads")'
  BY TriedForGood
<1>3. \A r \in Req : Shelled(r) => Shelled(r)'
  BY ShelledKept
<1>4. \A k \in 1..Len(stdin) : stdin[k] # ExitLine => stdin[k].of \in Req
  BY DEF TypeInv, StateTyped
<1>5. \A i \in 1..Len(stdin') : stdin'[i] # ExitLine => Shelled(stdin[i].of)'
  BY <1>3, <1>4 DEF Traced
<1>6. \A i \in 1..Len(stdout') : stdout'[i].is = "long" => Tried("floods")'
  BY <1>1 DEF Traced
<1>7. \A i \in 1..Len(stdout') :
         stdout'[i].is = "marker" /\ stdout'[i].status = None => Tried("reads")'
  BY <1>2 DEF Traced
<1> QED BY <1>5, <1>6, <1>7 DEF Traced

LEMMA BashTraced ==
  ASSUME TypeInv, Traced, BashRun \/ BashMark \/ BashExit
  PROVE  Traced'
<1> DEFINE r == Head(stdin).of
           c == job[r].cmd
<1>1. /\ stdin \in Seq(StdinLine) /\ stdin # <<>> /\ stdin' = Tail(stdin)
      /\ Head(stdin) = stdin[1] /\ 1 \in 1..Len(stdin) /\ bash.state = "ready"
      /\ stdout \in Seq(Lines) /\ UNCHANGED job /\ bash.ec \in Req \cup {None}
  <2>1. /\ stdin \in Seq(StdinLine) /\ stdin # <<>> /\ stdin' = Tail(stdin)
        /\ stdout \in Seq(Lines) /\ UNCHANGED job /\ bash.state = "ready"
    BY DEF TypeInv, StateTyped, StdinLine, BashRun, BashMark, BashExit
  <2>2. bash.ec \in Req \cup {None}
    BY DEF TypeInv, StateTyped
  <2>3. Head(stdin) = stdin[1] /\ 1 \in 1..Len(stdin)
    BY <2>1
  <2> QED BY <2>1, <2>2, <2>3
<1>2. \A i \in 1..Len(stdin') : \E k \in 1..Len(stdin) : stdin'[i] = stdin[k]
  BY <1>1, TailTyped
<1>3. [Next]_vars
  BY DEF Next, Bash
<1>4. CASE BashRun
  <2>1. r \in Req /\ c \in Command /\ Shelled(r)
    <3>1. Head(stdin).do = "run"
      BY <1>4 DEF BashRun
    <3>2. Head(stdin) # ExitLine
      BY <3>1 DEF ExitLine
    <3>3. r \in Req /\ c \in Command
      BY <1>1, <3>1, HeadRuns
    <3> QED BY <1>1, <3>2, <3>3 DEF Traced
  <2> DEFINE own == [i \in DOMAIN c.out |-> Line(r, c.out[i])]
             rest == IF c.does = "floods" THEN <<Line(r, "long")>> ELSE <<>>
  <2>2. stdout' = stdout \o own \o rest
    BY <1>4 DEF BashRun
  <2>3. own \in Seq(Lines) /\ \A i \in 1..Len(own) : own[i].is \in {"text", "empty"}
    <3>1. own \in Seq(Lines) /\ DOMAIN c.out = 1..Len(c.out) /\ Len(c.out) \in Nat
      BY <2>1, PrintedLines, CommandShape
    <3>2. DOMAIN own = 1..Len(c.out) /\ \A i \in 1..Len(c.out) : own[i].is \in {"text", "empty"}
      <4>1. DOMAIN own = 1..Len(c.out)
        BY <3>1
      <4>2. ASSUME NEW i \in 1..Len(c.out) PROVE own[i].is \in {"text", "empty"}
        <5>1. c.out[i] \in {"text", "empty"}
          BY <2>1, CommandShape
        <5>2. own[i] = Line(r, c.out[i])
          BY <3>1
        <5>3. Line(r, c.out[i]).is = c.out[i]
          BY DEF Line
        <5> HIDE DEF own
        <5> QED BY <5>1, <5>2, <5>3
      <4> QED BY <4>1, <4>2, Zenon
    <3> HIDE DEF own
    <3>3. Len(own) = Len(c.out)
      BY <3>1, <3>2
    <3> QED BY <3>1, <3>2, <3>3
  <2>4. rest \in Seq(Lines) /\ \A i \in 1..Len(rest) : rest[i].is = "long" /\ Tried("floods")
    <3>1. c.does = "floods" => Tried("floods")
      BY <2>1 DEF Tried, Shelled
    <3>2. Line(r, "long") \in Lines /\ Line(r, "long").is = "long"
      BY <2>1 DEF Line, Lines
    <3> HIDE DEF Lines, c
    <3> QED BY <3>1, <3>2
  <2> HIDE DEF own, rest
  <2>5. \A i \in 1..Len(stdout') :
           \/ \E k \in 1..Len(stdout) : stdout'[i] = stdout[k]
           \/ stdout'[i].is \in {"text", "empty"}
           \/ stdout'[i].is = "long" /\ Tried("floods")
    <3>1. Made(stdout', stdout, own, rest)
      <4>1. stdout \in Seq(Lines) /\ own \in Seq(Lines) /\ rest \in Seq(Lines)
        BY <1>1, <2>3, <2>4
      <4> QED BY ONLY <2>2, <4>1, OfThree, Zenon
    <3> QED BY <2>3, <2>4, <3>1 DEF Made
  <2>6. bash'.ec = None => Tried("reads")
    <3>1. bash'.ec = IF c.does = "reads" THEN bash.ec ELSE r
      <4>1. \E state, mute, open : bash' = [state |-> state, mute |-> mute, open |-> open,
                                            ec |-> IF c.does = "reads" THEN bash.ec ELSE r]
        BY <1>4, Zenon DEF BashRun
      <4> QED BY <4>1
    <3>2. c.does = "reads" => Tried("reads")
      BY <2>1 DEF Tried, Shelled
    <3> QED BY <2>1, <3>1, <3>2, ShellAssumption
  <2>7. Tried("reads") => Tried("reads")'
    BY <1>3, TriedForGood
  <2> QED BY <1>2, <1>3, <2>5, <2>6, <2>7, TracedGrow
<1>5. CASE BashMark
  <2>1. r \in Req
    BY <1>5, HeadRuns DEF BashMark
  <2>2. bash.ec = None => Tried("reads")
    BY <1>1, <1>5 DEF Traced, BashMark
  <2> DEFINE end == IF bash.open THEN <<>> ELSE <<Line(r, "empty")>>
             m == Marker(r, bash.ec)
  <2>3. stdout' = stdout \o end \o <<m>>
    BY <1>5 DEF BashMark
  <2>4. end \in Seq(Lines) /\ \A i \in 1..Len(end) : end[i].is = "empty"
    <3>1. Line(r, "empty") \in Lines /\ Line(r, "empty").is = "empty"
      BY <2>1 DEF Line, Lines
    <3> HIDE DEF Lines
    <3> QED BY <3>1
  <2>5. m \in Lines /\ m.is = "marker" /\ (m.status = None => Tried("reads"))
    BY <1>1, <2>1, <2>2 DEF Marker, Lines
  <2> HIDE DEF end, m
  <2>6. \A i \in 1..Len(stdout') :
           \/ \E k \in 1..Len(stdout) : stdout'[i] = stdout[k]
           \/ stdout'[i].is \in {"text", "empty"}
           \/ stdout'[i].is = "marker" /\ (stdout'[i].status = None => Tried("reads"))
    <3>1. <<m>> \in Seq(Lines) /\ \A k \in 1..Len(<<m>>) : <<m>>[k] = m
      BY <2>5
    <3>2. Made(stdout', stdout, end, <<m>>)
      <4>1. stdout \in Seq(Lines) /\ end \in Seq(Lines) /\ <<m>> \in Seq(Lines)
        BY <1>1, <2>4, <3>1
      <4> QED BY ONLY <2>3, <4>1, OfThree, Zenon
    <3> QED BY <2>4, <2>5, <3>1, <3>2 DEF Made
  <2>7. bash'.ec = None => Tried("reads")
    BY <1>5, <2>2 DEF BashMark, TypeInv, StateTyped
  <2>8. Tried("reads") => Tried("reads")'
    BY <1>3, TriedForGood
  <2> QED BY <1>2, <1>3, <2>6, <2>7, <2>8, TracedGrow
<1>6. CASE BashExit
  <2>1. bash'.state = "gone" /\ UNCHANGED stdout
    BY <1>6 DEF BashExit, TypeInv, StateTyped
  <2> QED BY <1>2, <1>3, <2>1, TracedGrow
<1> QED BY <1>4, <1>5, <1>6

LEMMA TracedKept ==
  ASSUME TypeInv, Traced, [Next]_vars PROVE Traced'
<1> DEFINE Tell == stdin # <<>> /\ Head(stdin).do = "mark" /\ bash.state = "ready" /\ bash.ec = None
<1>1. stdin \in Seq(StdinLine) /\ stdout \in Seq(Lines)
  BY DEF TypeInv, StateTyped, StdinLine
<1>2. (Tell => Tried("reads")) /\ (Tried("reads") => Tried("reads")')
  BY TriedForGood DEF Traced
<1>3. ASSUME UNCHANGED <<stdin, stdout, bash>> PROVE Traced'
  <2>1. (Tell => Tried("reads"))'
    BY <1>2, <1>3
  <2> QED BY <1>1, <1>3, <2>1, TracedGrow
<1>4. ASSUME UNCHANGED <<stdin, bash>>, stdout # <<>>, stdout' = Tail(stdout) PROVE Traced'
  <2>1. (Tell => Tried("reads"))'
    BY <1>2, <1>4
  <2>2. \A i \in 1..Len(stdout') : \E k \in 1..Len(stdout) : stdout'[i] = stdout[k]
    BY <1>1, <1>4, TailTyped
  <2> QED BY <1>4, <2>1, <2>2, TracedGrow
<1>5. ASSUME UNCHANGED <<stdout, bash>>, NEW more \in Seq(StdinLine), stdin' = stdin \o more,
             \A k \in 1..Len(more) :
                more[k] = ExitLine \/ (more[k].of \in Req /\ Shelled(more[k].of)'),
             Len(more) > 0, more[1].do # "mark"
      PROVE  Traced'
  <2>1. /\ \A i \in 1..Len(stdin \o more) : \/ \E k \in 1..Len(stdin) : (stdin \o more)[i] = stdin[k]
                                            \/ \E k \in 1..Len(more) : (stdin \o more)[i] = more[k]
        /\ stdin # <<>> => Head(stdin \o more) = Head(stdin)
    BY <1>1, <1>5, OfConcat
  <2>2. stdin = <<>> => Head(stdin') = more[1]
    <3>1. stdin = <<>> => stdin' = more
      BY <1>5
    <3> QED BY <1>5, <3>1
  <2>3. (Tell => Tried("reads"))'
    BY <1>2, <1>5, <2>1, <2>2
  <2>4. \A i \in 1..Len(stdin') :
           \/ \E k \in 1..Len(stdin) : stdin'[i] = stdin[k]
           \/ stdin'[i] = ExitLine \/ (stdin'[i].of \in Req /\ Shelled(stdin[i].of)')
    BY <1>5, <2>1
  <2> QED BY <1>5, <2>3, <2>4, TracedGrow
<1>6. ASSUME NEW r \in Req, Step(r) PROVE Traced'
  <2>1. CASE Write(r) /\ ~UNCHANGED stdin
    <3>1. stdin' = stdin \o Script(r) /\ Goto(r, "scan") /\ UNCHANGED <<stdout, bash>>
      BY <2>1 DEF Write
    <3>2. Shelled(r)'
      BY <3>1, GotoSame DEF TypeInv, Shelled
    <3>3. /\ Script(r) \in Seq(StdinLine) /\ Len(Script(r)) = 2
          /\ Script(r)[1].do = "run" /\ \A k \in 1..2 : Script(r)[k].of = r
      BY ScriptTyped DEF Script
    <3> DEFINE more == Script(r)
    <3>4. /\ more \in Seq(StdinLine) /\ stdin' = stdin \o more
          /\ Len(more) > 0 /\ more[1].do # "mark"
          /\ \A k \in 1..Len(more) : more[k].of = r
      BY <3>1, <3>3
    <3> HIDE DEF more
    <3>5. \A k \in 1..Len(more) : more[k].of \in Req /\ Shelled(more[k].of)'
      BY <3>2, <3>4
    <3> QED BY ONLY <1>5, <3>1, <3>4, <3>5
  <2>2. CASE Reads(r)
    BY <1>4, <2>2 DEF Reads
  <2>3. CASE ~Reads(r) /\ (UNCHANGED stdin \/ ~Write(r))
    BY <1>3, <1>6, <2>3
       DEF Step, ExecuteStream, Get, Judge, Leave, Refuse, Begin, Write, ReadBadMarker, ReadMarker,
           Drain, Pass, ReadTooLong, ReadEOF, AwaitErr, pipes
  <2> QED BY <2>1, <2>2, <2>3
<1>7. ASSUME NEW d \in Closer, Ending(d) PROVE Traced'
  <2>1. CASE UNCHANGED stdin
    BY <1>3, <1>7, <2>1 DEF Ending, Delete, Close, Wait, pipes
  <2>2. CASE stdin' = Append(stdin, ExitLine)
    <3>1. /\ <<ExitLine>> \in Seq(StdinLine) /\ Len(<<ExitLine>>) = 1
          /\ <<ExitLine>>[1].do # "mark" /\ \A k \in 1..1 : <<ExitLine>>[k] = ExitLine
      BY DEF StdinLine, ExitLine
    <3>2. stdin' = stdin \o <<ExitLine>>
      BY <1>1, <2>2, <3>1
    <3>3. UNCHANGED <<stdout, bash>>
      BY <1>7 DEF Ending, Delete, Close, Wait, pipes
    <3> DEFINE more == <<ExitLine>>
    <3>4. /\ more \in Seq(StdinLine) /\ stdin' = stdin \o more
          /\ Len(more) > 0 /\ more[1].do # "mark"
          /\ \A k \in 1..Len(more) : more[k] = ExitLine
      BY <3>1, <3>2
    <3> HIDE DEF more
    <3> QED BY ONLY <1>5, <3>3, <3>4
  <2> QED BY <1>7, <2>1, <2>2 DEF Ending, Delete, Close, Wait, pipes
<1> QED BY <1>3, <1>6, <1>7, BashTraced, NextIsOneOf DEF ReadErr, vars

Mends(r) == mu = r /\ job[r].cut /\ job[r].pc \in {"scan", "await"}

LEMMA ReadsSpoilt ==
  ASSUME TypeInv, Traced, NEW r \in Req, ReadBadMarker(r) \/ ReadTooLong(r) PROVE Spoilt
<1>1. stdout \in Seq(Lines) /\ stdout # <<>>
  BY DEF TypeInv, StateTyped, ReadBadMarker, ReadTooLong, Reads
<1>2. line = stdout[1] /\ 1 \in 1..Len(stdout)
  BY <1>1, TailTyped DEF line
<1> QED BY <1>2 DEF Traced, ReadBadMarker, ReadTooLong, IsMarkerOf, Spoilt

LEMMA StepMends ==
  ASSUME TypeInv, Traced, Mended, ~Spoilt, NEW s \in Req, Step(s), broken'
  PROVE  \E r \in Req : Mends(r)'
<1> USE DEF At
<1>0. /\ \A r \in Req : job[r].pc \in Held <=> mu = r
      /\ \A r \in Req : r # None
  BY ShellAssumption DEF TypeInv, Locked
<1>1. CASE broken
  <2>1. PICK r \in Req : Mends(r)
    BY <1>1 DEF Mended, Mends
  <2>2. CASE s # r
    <3>1. PICK j : Makes(s, j)
      BY StepMakes
    <3>2. job'[r] = job[r]
      BY <2>2, <3>1 DEF Makes, Becomes, TypeInv, JobsTyped
    <3>3. mu = r /\ r # None /\ job[s].pc \notin Held
      BY <1>0, <2>1, <2>2 DEF Mends
    <3>4. UNCHANGED mu
      BY <3>3 DEF Step, ExecuteStream, Get, Judge, Leave, Refuse, Begin, Write, ReadBadMarker,
         ReadMarker, Drain, Pass, ReadTooLong, ReadEOF, AwaitErr, Reads, Held
    <3> QED BY <2>1, <3>2, <3>4 DEF Mends
  <2>3. CASE s = r
    <3>1. mu = r /\ r # None /\ job[r].cut /\ job[r].pc \in {"scan", "await"}
      BY <1>0, <2>1 DEF Mends
    <3>2. CASE Leave(r)
      BY <3>1, <3>2 DEF Leave, Becomes, TypeInv, JobsTyped, Jobs, Mends
    <3>3. CASE ReadMarker(r)
      BY <3>1, <3>3 DEF ReadMarker, Becomes, TypeInv, JobsTyped, Jobs, Mends
    <3>4. CASE Drain(r)
      BY <3>1, <3>4 DEF Drain, Mends
    <3>5. ~ReadBadMarker(r) /\ ~ReadTooLong(r) /\ ~ReadEOF(r)
      BY ReadsSpoilt DEF ReadEOF, Spoilt
    <3>6. ~AwaitErr(r) /\ ~Pass(r)
      BY <3>1 DEF AwaitErr, Pass
    <3> QED BY <2>3, <3>1, <3>2, <3>3, <3>4, <3>5, <3>6
            DEF Step, ExecuteStream, Get, Judge, Refuse, Begin, Write
  <2> QED BY <2>2, <2>3
<1>2. CASE ~broken
  <2>1. ~ReadBadMarker(s) /\ ~ReadTooLong(s) /\ ~ReadEOF(s)
    BY ReadsSpoilt DEF ReadEOF, Spoilt
  <2>2. Pass(s)
    BY <1>2, <2>1 DEF Step, ExecuteStream, Get, Judge, Leave, Refuse, Begin, Write, Spoilt,
       ReadMarker, Drain, AwaitErr
  <2>3. PICK n, d : /\ Becomes(s, [job[s] EXCEPT !.sent = @ \o SubSeq(d, 1, n),
                                                 !.cut = n < Len(d), !.pending = line.is = "empty"])
                    /\ broken' = (broken \/ n < Len(d))
    BY <2>2 DEF Pass
  <2> DEFINE t == job[s].sent \o SubSeq(d, 1, n)
             a == n < Len(d)
             b == line.is = "empty"
  <2>4. a
    BY <1>2, <2>3
  <2>5. Becomes(s, [job[s] EXCEPT !.sent = t, !.cut = a, !.pending = b])
    BY <2>3
  <2> HIDE DEF t, a, b
  <2>6. job'[s].cut = a /\ job'[s].pc = job[s].pc
    BY <2>5 DEF Becomes, TypeInv, JobsTyped, Jobs
  <2>7. job[s].pc = "scan" /\ UNCHANGED mu
    BY <2>2 DEF Pass, Reads
  <2> QED BY <1>0, <2>4, <2>6, <2>7 DEF Mends, Held
<1> QED BY <1>1, <1>2

LEMMA MendedKept ==
  ASSUME TypeInv, Traced, Mended, [Next]_vars PROVE Mended'
<1>1. CASE Spoilt
  BY <1>1, SpoiltForGood DEF Mended
<1>2. CASE ~Spoilt
  <2>1. CASE \E s \in Req : Step(s)
    BY <1>2, <2>1, StepMends DEF Mended, Mends
  <2>2. CASE UNCHANGED <<job, mu, broken>>
    <3>1. broken' => \E r \in Req : Mends(r)
      BY <1>2, <2>2 DEF Mended, Mends
    <3> QED BY <2>2, <3>1 DEF Mended, Mends
  <2>3. CASE \E d \in Closer : Ending(d)
    <3>1. PICK d \in Closer : Ending(d)
      BY <2>3
    <3>2. UNCHANGED <<job, broken>>
      BY <3>1 DEF Ending, Delete, Close, Wait
    <3>3. \A r \in Req : Mends(r) => UNCHANGED mu
      BY <3>1, ShellAssumption DEF Mends, Ending, Delete, Close, Wait, TypeInv, Locked
    <3>4. broken' => \E r \in Req : Mends(r)
      BY <1>2, <3>2 DEF Mended, Mends
    <3> QED BY <3>2, <3>3, <3>4 DEF Mended, Mends
  <2> QED BY <2>1, <2>2, <2>3, NextIsOneOf DEF ReadErr, BashRun, BashMark, BashExit, vars
<1> QED BY <1>1, <1>2

LEMMA InitMended ==
  ASSUME Init PROVE Traced /\ Mended
BY DEF Init, NewBashShell, Traced, Mended

\* LeavingIsHarmless: a session is broken for good only if bash is dead or a command has taken
\* the marker's way away, whenever clients leave.
THEOREM ClientsMayLeave == Spec => []LeavingIsHarmless
<1> DEFINE Inv == TypeInv /\ Traced /\ Mended
<1>1. Init => Inv
  BY InitTyped, InitMended
<1>2. Inv /\ [Next]_vars => Inv'
  BY TypesKept, TracedKept, MendedKept
<1>3. Inv => LeavingIsHarmless
  BY ShellAssumption DEF Mended, Spoilt, LeavingIsHarmless
<1> QED BY <1>1, <1>2, <1>3, PTL DEF Spec

(***************************************************************************)
(* The result: the exit status and what was written to stderr, which       *)
(* readStderr takes out of the other pipe in its own time.                 *)
(***************************************************************************)
ErrText(r) == IF job[r].cmd.err THEN <<Line(r, "text")>> ELSE <<>>

Awaits(r) == errMarker = r /\ ~errDone

\* Nothing of an earlier command is left on stderr.
Quiet(r) == Awaits(r) /\ errBuf = <<>> /\ stderr = <<>> /\ ~bash.mute

\* The command has run, and its text is in the pipe or has been read.
Ran(r) ==
  /\ Awaits(r)
  /\ \/ errBuf = <<>> /\ stderr = ErrText(r)
     \/ errBuf = ErrText(r) /\ stderr = <<>>

\* The marker is behind it, has been found, or will never come.
Done(r) ==
  \/ Ran(r)
  \/ /\ Awaits(r) /\ ~bash.mute
     /\ \/ errBuf = <<>> /\ stderr = Append(ErrText(r), Marker(r, None))
        \/ errBuf = ErrText(r) /\ stderr = <<Marker(r, None)>>
  \/ errDone /\ errBuf = ErrText(r) /\ stderr = <<>> /\ ~bash.mute

Results(r) ==
  /\ bash.state # "gone" =>
       /\ At(r, "write") \/ (At(r, "scan") /\ stdin = Script(r)) => Quiet(r)
       /\ At(r, "scan") /\ stdin = <<[do |-> "mark", of |-> r]>> => Ran(r) /\ bash.ec = r
       /\ At(r, "await") \/ (At(r, "scan") /\ stdin = <<>>) => Done(r)
  /\ At(r, "scan") =>
       \A i \in 1..Len(stdout) :
          IsMarkerOf(stdout[i], r) => bash.state # "gone" /\ stdout[i].status = r
  /\ At(r, "await") => bash.state # "gone"
  /\ At(r, "await") \/ At(r, "answered") => job[r].status = r
  /\ At(r, "answered") => job[r].err = ErrText(r)

\* Whoever takes mu next finds stderr read to its end.
Rested == mu = None /\ ~broken /\ bash.state # "gone" => stderr = <<>> /\ ~bash.mute

ResultInv == ~Tried("reads") => Rested /\ \A r \in Req : Results(r)

LEMMA OneLine ==
  ASSUME NEW S, NEW x \in S
  PROVE  /\ Append(<<>>, x) = <<x>>
         /\ Len(<<x>>) = 1 /\ <<x>>[1] = x /\ <<x>> # <<>>
         /\ Head(<<x>>) = x /\ Tail(<<x>>) = <<>>
         /\ SubSeq(<<x>>, 1, 0) \o SubSeq(<<x>>, 2, 1) = <<>>
<1>1. Append(<<>>, x) = <<x>>
  OBVIOUS
<1>2. Len(<<x>>) = 1 /\ <<x>>[1] = x /\ <<x>> # <<>>
  OBVIOUS
<1>3. Head(<<x>>) = x /\ Tail(<<x>>) = <<>>
  OBVIOUS
<1>4. SubSeq(<<x>>, 1, 0) \o SubSeq(<<x>>, 2, 1) = <<>>
  OBVIOUS
<1> QED BY <1>1, <1>2, <1>3, <1>4

LEMMA TwoLines ==
  ASSUME NEW S, NEW x \in S, NEW y \in S
  PROVE  /\ Append(<<x>>, y) = <<x, y>>
         /\ Len(<<x, y>>) = 2 /\ <<x, y>>[1] = x /\ <<x, y>>[2] = y /\ <<x, y>> # <<>>
         /\ Head(<<x, y>>) = x /\ Tail(<<x, y>>) = <<y>>
         /\ SubSeq(<<x, y>>, 1, 1) \o SubSeq(<<x, y>>, 3, 2) = <<x>>
<1>1. Append(<<x>>, y) = <<x, y>>
  <2> DEFINE s == Append(<<x>>, y)
  <2>1. s \in Seq(S) /\ Len(s) = 2 /\ s[1] = x /\ s[2] = y
    OBVIOUS
  <2> HIDE DEF s
  <2>2. s = <<x, y>>
    BY <2>1
  <2> QED BY <2>2 DEF s
<1>2. Len(<<x, y>>) = 2 /\ <<x, y>>[1] = x /\ <<x, y>>[2] = y /\ <<x, y>> # <<>>
  OBVIOUS
<1>3. Head(<<x, y>>) = x /\ Tail(<<x, y>>) = <<y>>
  OBVIOUS
<1>4. SubSeq(<<x, y>>, 1, 1) \o SubSeq(<<x, y>>, 3, 2) = <<x>>
  <2> DEFINE p == <<x, y>>
             a == SubSeq(p, 1, 1)
             b == SubSeq(p, 3, 2)
  <2>0. p \in Seq(S) /\ Len(p) = 2 /\ p[1] = x
    OBVIOUS
  <2> HIDE DEF p
  <2>1. a \in Seq(S) /\ Len(a) = 1 /\ a[1] = x
    BY <2>0
  <2>2. b = <<>>
    BY <2>0
  <2> HIDE DEF a, b
  <2>3. a = <<x>>
    BY <2>1
  <2>4. <<x>> \o <<>> = <<x>>
    OBVIOUS
  <2> QED BY <2>2, <2>3, <2>4 DEF a, b, p
<1> QED BY <1>1, <1>2, <1>3, <1>4
LEMMA ErrRead ==
  ASSUME TypeInv, ReadErr, NEW r \in Req, Done(r)
  PROVE  Done(r)' /\ (Ran(r) => Ran(r)')
<1> DEFINE t == Line(r, "text")
           m == Marker(r, None)
           content == Append(errBuf, Head(stderr))
           found == {i \in 1..Len(content) : IsMarkerOf(content[i], errMarker)}
<1>1. /\ stderr # <<>> /\ stderr' = Tail(stderr) /\ UNCHANGED <<job, bash>>
      /\ \/ found = {} /\ errBuf' = content /\ UNCHANGED <<errMarker, errDone>>
         \/ \E i \in found :
              /\ \A k \in found : i <= k
              /\ errBuf' = SubSeq(content, 1, i - 1) \o SubSeq(content, i + 1, Len(content))
              /\ errMarker' = None /\ errDone' = TRUE
  BY DEF ReadErr
<1>2. ~IsMarkerOf(t, r) /\ IsMarkerOf(m, r) /\ t \in Lines /\ m \in Lines
  BY DEF IsMarkerOf, Line, Marker, Lines
<1> DEFINE one == <<t>>
           mark == <<m>>
           two == <<t, m>>
<1>3. /\ ErrText(r) = one \/ ErrText(r) = <<>>
      /\ ErrText(r)' = ErrText(r)
  BY <1>1 DEF ErrText
<1> HIDE DEF t, m
<1>4. Awaits(r)
  BY <1>1 DEF Done, Ran
<1>5. /\ Head(one) = t /\ Tail(one) = <<>> /\ Append(<<>>, t) = one /\ one # <<>>
      /\ Head(mark) = m /\ Tail(mark) = <<>> /\ Append(<<>>, m) = mark
      /\ Head(two) = t /\ Tail(two) = mark /\ Append(one, m) = two
      /\ Len(one) = 1 /\ one[1] = t /\ Len(mark) = 1 /\ mark[1] = m
      /\ Len(two) = 2 /\ two[1] = t /\ two[2] = m
      /\ SubSeq(mark, 1, 1 - 1) \o SubSeq(mark, 1 + 1, 1) = <<>>
      /\ SubSeq(two, 1, 2 - 1) \o SubSeq(two, 2 + 1, 2) = one
  <2>0. t \in Lines /\ m \in Lines
    BY <1>2
  <2>1. 1 - 1 = 0 /\ 1 + 1 = 2 /\ 2 - 1 = 1 /\ 2 + 1 = 3
    OBVIOUS
  <2>2. /\ Head(one) = t /\ Tail(one) = <<>> /\ Append(<<>>, t) = one /\ one # <<>>
        /\ Len(one) = 1 /\ one[1] = t
    BY ONLY <2>0, OneLine DEF one
  <2>3. /\ Head(mark) = m /\ Tail(mark) = <<>> /\ Append(<<>>, m) = mark
        /\ Len(mark) = 1 /\ mark[1] = m
        /\ SubSeq(mark, 1, 0) \o SubSeq(mark, 2, 1) = <<>>
    BY ONLY <2>0, OneLine DEF mark
  <2>4. /\ Head(two) = t /\ Tail(two) = mark /\ Append(one, m) = two
        /\ Len(two) = 2 /\ two[1] = t /\ two[2] = m
        /\ SubSeq(two, 1, 1) \o SubSeq(two, 3, 2) = one
    BY ONLY <2>0, TwoLines DEF two, one, mark
  <2> QED BY <2>1, <2>2, <2>3, <2>4
<1> HIDE DEF one, mark, two, content, found
<1>6. \/ errBuf = <<>> /\ stderr = one /\ ErrText(r) = one /\ Ran(r)
      \/ errBuf = <<>> /\ stderr = two /\ ErrText(r) = one /\ ~bash.mute
      \/ errBuf = <<>> /\ stderr = mark /\ ErrText(r) = <<>> /\ ~bash.mute
      \/ errBuf = one /\ stderr = mark /\ ErrText(r) = one /\ ~bash.mute
  <2>1. \/ Ran(r)
        \/ ~bash.mute /\ errBuf = <<>> /\ stderr = Append(ErrText(r), m)
        \/ ~bash.mute /\ errBuf = ErrText(r) /\ stderr = mark
    BY <1>1 DEF Done, m, mark
  <2> QED BY <1>1, <1>3, <1>5, <2>1 DEF Ran
<1>7. CASE errBuf = <<>> /\ Head(stderr) = t
  <2>1. content = one
    BY <1>5, <1>7 DEF content
  <2>2. found = {}
    BY <1>2, <1>4, <1>5, <2>1 DEF found, Awaits
  <2>3. errBuf' = one /\ Awaits(r)'
    BY <1>1, <1>4, <2>1, <2>2 DEF Awaits
  <2>4. ErrText(r) = one /\ (stderr' = <<>> \/ (stderr' = mark /\ ~bash.mute))
    BY <1>1, <1>2, <1>5, <1>6, <1>7
  <2>5. Ran(r) => stderr' = <<>>
    BY <1>1, <1>3, <1>5, <2>4, <1>7 DEF Ran
  <2> QED BY <1>1, <1>3, <2>3, <2>4, <2>5 DEF Done, Ran, m, mark
<1>8. ASSUME Head(stderr) = m, stderr' = <<>>, ~bash.mute, content \in {mark, two},
             content = mark => ErrText(r) = <<>>, content = two => ErrText(r) = one
      PROVE  Done(r)' /\ (Ran(r) => Ran(r)')
  <2>1. content = mark => found = {1}
    BY <1>2, <1>4, <1>5 DEF found, Awaits
  <2>2. content = two => found = {2}
    BY <1>2, <1>4, <1>5 DEF found, Awaits
  <2>3. errBuf' = ErrText(r) /\ errDone' = TRUE
    <3>1. content = mark => errBuf' = <<>> /\ errDone' = TRUE
      BY <1>1, <1>5, <2>1
    <3>2. content = two => errBuf' = one /\ errDone' = TRUE
      BY <1>1, <1>5, <2>2
    <3> QED BY <1>8, <3>1, <3>2
  <2>4. ~Ran(r)
    <3>1. stderr # ErrText(r)
      BY <1>1, <1>2, <1>3, <1>5, <1>8
    <3> QED BY <1>1, <3>1 DEF Ran
  <2> QED BY <1>1, <1>3, <1>8, <2>3, <2>4 DEF Done
<1> QED BY <1>1, <1>5, <1>6, <1>7, <1>8 DEF content

LEMMA ResultsKept ==
  ASSUME NEW r \in Req, Results(r), job'[r].pc = job[r].pc, job'[r].cmd = job[r].cmd,
         job'[r].status = job[r].status, job'[r].err = job[r].err,
         job[r].pc \in Held => UNCHANGED <<stdin, stdout, stderrState, stderr, bash>>
  PROVE  Results(r)'
<1>1. ErrText(r)' = ErrText(r) /\ \A pc : At(r, pc)' <=> At(r, pc)
  BY DEF ErrText, At
<1>2. CASE job[r].pc \in Held
  BY <1>1, <1>2 DEF Results, Quiet, Ran, Done, Awaits, stderrState
<1>3. CASE job[r].pc \notin Held
  BY <1>3, <1>1 DEF Results, At, Held
<1> QED BY <1>2, <1>3

LEMMA StepResults ==
  ASSUME TypeInv, StreamInv, Rested, NEW r \in Req, Step(r), Results(r)
  PROVE  Results(r)'
<1> USE DEF At, TypeInv
<1>0. UNCHANGED bash
  BY DEF Step, Get, Judge, Leave, ExecuteStream, Refuse, Begin, Write, ReadBadMarker,
         ReadMarker, Drain, Pass, ReadTooLong, ReadEOF, AwaitErr, Reads
<1>1. ASSUME job'[r].pc \notin {"write", "scan", "await", "answered"} PROVE Results(r)'
  BY <1>1 DEF Results
<1>2. CASE Get(r)
  <2>1. job'[r].pc \in {"judge", "refused"}
    BY <1>2 DEF Get, Becomes, JobsTyped, Jobs, SessionGet
  <2> QED BY <1>1, <2>1
<1>3. CASE Judge(r)
  <2>1. PICK pc \in {"lock", "refused"} : Goto(r, pc)
    BY <1>3 DEF Judge
  <2> QED BY <1>1, <2>1, GotoSame
<1>4. CASE Leave(r)
  <2>1. /\ job'[r].pc = job[r].pc /\ job'[r].cmd = job[r].cmd
        /\ job'[r].status = job[r].status /\ job'[r].err = job[r].err
    BY <1>4 DEF Leave, Becomes, JobsTyped, Jobs
  <2> QED BY <1>4, <2>1, ResultsKept DEF Leave, pipes
<1>5. CASE Refuse(r) \/ ReadBadMarker(r) \/ ReadTooLong(r) \/ ReadEOF(r)
  <2>1. Goto(r, "failed")
    BY <1>5 DEF Refuse, ReadBadMarker, ReadTooLong, ReadEOF, Return
  <2> QED BY <1>1, <2>1, GotoSame
<1>6. CASE Begin(r)
  <2>1. job'[r].pc = "write"
    BY <1>6, GotoSame DEF Begin
  <2>2. bash.state # "gone" => Quiet(r)'
    BY <1>0, <1>6 DEF Begin, Rested, Quiet, Awaits, pipes
  <2> QED BY <1>0, <2>1, <2>2 DEF Results
<1>7. CASE Write(r)
  <2>1. CASE Return(r, "failed")
    BY <1>1, <2>1, GotoSame DEF Return
  <2>2. CASE Goto(r, "scan") /\ bash.state # "gone" /\ stdin' = stdin \o Script(r)
    <3>1. job'[r].pc = "scan"
      BY <2>2, GotoSame
    <3>2. stdin = <<>> /\ stdout' = <<>>
      BY <1>7, <2>2 DEF StreamInv, InStep, Clear, Write
    <3>3. stdin' = Script(r) /\ Len(Script(r)) = 2
      BY <2>2, <3>2, ScriptTyped DEF Script
    <3>4. Quiet(r)'
      BY <1>0, <1>7, <2>2 DEF Write, Results, Quiet, Awaits, stderrState
    <3>5. stdin' # <<[do |-> "mark", of |-> r]>> /\ stdin' # <<>>
      BY <3>3
    <3> QED BY <3>1, <3>2, <3>4, <3>5 DEF Results
  <2> QED BY <1>7, <2>1, <2>2 DEF Write
<1>8. ASSUME Reads(r), Streaming(r) \/ bash.state = "gone",
             job'[r].pc = "scan", job'[r].cmd = job[r].cmd
      PROVE  Results(r)'
  <2>1. /\ job[r].pc = "scan" /\ stdout \in Seq(Lines) /\ stdout # <<>> /\ stdout' = Tail(stdout)
        /\ UNCHANGED <<stdin, stderr, stderrState, bash>>
    BY <1>0, <1>8 DEF Reads, StateTyped
  <2>2. \A i \in 1..Len(stdout') : \E k \in 1..Len(stdout) : stdout'[i] = stdout[k]
    BY <2>1, TailTyped
  <2>3. (\A i \in 1..Len(stdout) :
            IsMarkerOf(stdout[i], r) => bash.state # "gone" /\ stdout[i].status = r)'
    BY <2>1, <2>2 DEF Results, IsMarkerOf
  <2>4. ErrText(r)' = ErrText(r)
    BY <1>8 DEF ErrText
  <2> QED BY <1>8, <2>1, <2>3, <2>4 DEF Results, Quiet, Ran, Done, Awaits, stderrState
<1>9. job[r].pc = "scan" => Streaming(r) \/ bash.state = "gone"
  BY DEF StreamInv, InStep
<1>10. CASE Drain(r)
  BY <1>8, <1>9, <1>10 DEF Drain, Reads
<1>11. CASE Pass(r)
  <2>1. PICK n, d : Becomes(r, [job[r] EXCEPT !.sent = @ \o SubSeq(d, 1, n),
                                              !.cut = n < Len(d), !.pending = line.is = "empty"])
    BY <1>11 DEF Pass
  <2> DEFINE t == job[r].sent \o SubSeq(d, 1, n)
             a == n < Len(d)
             b == line.is = "empty"
  <2>2. Becomes(r, [job[r] EXCEPT !.sent = t, !.cut = a, !.pending = b])
    BY <2>1
  <2> HIDE DEF t, a, b
  <2>3. job'[r].cmd = job[r].cmd /\ job'[r].pc = job[r].pc
    BY <2>2 DEF Becomes, JobsTyped, Jobs
  <2> QED BY <1>8, <1>9, <1>11, <2>3 DEF Pass, Reads
<1>12. CASE ReadMarker(r)
  <2>1. /\ job[r].pc = "scan" /\ stdout \in Seq(Lines) /\ stdout # <<>> /\ IsMarkerOf(line, r)
        /\ UNCHANGED <<stdin, stderr, stderrState, bash>> /\ stdout' = Tail(stdout)
    BY <1>0, <1>12 DEF ReadMarker, Reads, StateTyped
  <2>2. line = stdout[1] /\ 1 \in 1..Len(stdout)
    BY <2>1, TailTyped DEF line
  <2>3. bash.state # "gone" /\ line.status = r
    BY <2>1, <2>2 DEF Results
  <2>4. /\ job'[r].pc = "await" /\ job'[r].status = line.status /\ job'[r].cmd = job[r].cmd
    BY <1>12 DEF ReadMarker, Becomes, JobsTyped, Jobs
  <2>5. stdin = <<>>
    BY <1>9, <2>1, <2>3, OneLineRead DEF Clear
  <2>6. Done(r)
    BY <2>1, <2>3, <2>5 DEF Results
  <2>7. ErrText(r)' = ErrText(r)
    BY <2>4 DEF ErrText
  <2>8. Done(r)'
    BY <2>1, <2>6, <2>7 DEF Done, Ran, Awaits, stderrState
  <2> QED BY <2>1, <2>3, <2>4, <2>8 DEF Results
<1>13. CASE AwaitErr(r)
  <2>1. CASE job[r].cut
    BY <1>1, <1>13, <2>1, GotoSame DEF AwaitErr
  <2>2. CASE ~job[r].cut
    <3>1. /\ job'[r].pc = "answered" /\ job'[r].status = job[r].status
          /\ job'[r].cmd = job[r].cmd /\ job'[r].err = errBuf
      <4>1. job'[r] = [job[r] EXCEPT !.pc = "answered", !.err = errBuf] /\ job[r] \in Jobs
        BY <1>13, <2>2 DEF AwaitErr, Becomes, JobsTyped
      <4> QED BY <4>1 DEF Jobs
    <3>2. errBuf = ErrText(r) /\ job[r].status = r
      BY <1>13 DEF AwaitErr, Results, Done, Ran, Awaits
    <3> QED BY <3>1, <3>2 DEF Results, ErrText
  <2> QED BY <2>1, <2>2
<1> QED BY <1>2, <1>3, <1>4, <1>5, <1>6, <1>7, <1>10, <1>11, <1>12, <1>13 DEF Step, ExecuteStream

LEMMA OthersResults ==
  ASSUME TypeInv, NEW r \in Req, Step(r), NEW s \in Req \ {r}, Results(s)
  PROVE  Results(s)'
<1>1. PICK j : Makes(r, j)
  BY StepMakes
<1>2. job'[s] = job[s]
  BY <1>1 DEF Makes, Becomes, TypeInv, JobsTyped
<1>3. job[s].pc \in Held => mu = s /\ s # None /\ job[r].pc \notin Held
  BY ShellAssumption DEF TypeInv, Locked
<1>4. ASSUME mu = s, s # None, job[r].pc \notin Held
      PROVE  UNCHANGED <<stdin, stdout, stderrState, stderr, bash>>
  <2>1. Get(r) \/ Judge(r) \/ Leave(r)
    BY <1>4
       DEF Step, ExecuteStream, Refuse, Begin, Write, ReadBadMarker, ReadMarker, Drain, Pass,
           ReadTooLong, ReadEOF, AwaitErr, Reads, At, Held
  <2> QED BY <2>1 DEF Get, Judge, Leave, pipes
<1> QED BY <1>2, <1>3, <1>4, ResultsKept

LEMMA EndingResults ==
  ASSUME TypeInv, NEW d \in Closer, Ending(d), NEW r \in Req, Results(r)
  PROVE  Results(r)'
<1>1. UNCHANGED <<job, stdout, stderr, stderrState, bash>>
  BY DEF Ending, Delete, Close, Wait, pipes
<1>2. job[r].pc \in Held => UNCHANGED stdin
  <2>1. job[r].pc \in Held => mu = r /\ r # None
    BY ShellAssumption DEF TypeInv, Locked
  <2> QED BY <2>1 DEF Ending, Delete, Close, Wait, pipes
<1> QED BY <1>1, <1>2, ResultsKept

LEMMA ReadErrResults ==
  ASSUME TypeInv, StreamInv, ReadErr, NEW r \in Req, Results(r)
  PROVE  Results(r)'
<1>1. UNCHANGED <<job, stdin, stdout, bash>> /\ stderr # <<>>
  BY DEF ReadErr
<1>2. \A pc : At(r, pc)' <=> At(r, pc)
  BY <1>1 DEF At
<1>3. ErrText(r)' = ErrText(r)
  BY <1>1 DEF ErrText
<1>4. ~Quiet(r) /\ (Ran(r) => Done(r))
  BY <1>1 DEF Quiet, Done
<1>5. Done(r) => Done(r)' /\ (Ran(r) => Ran(r)')
  BY ErrRead
<1> QED BY <1>1, <1>2, <1>3, <1>4, <1>5 DEF Results

LEMMA BashResults ==
  ASSUME TypeInv, StreamInv, BashRun \/ BashMark \/ BashExit, ~Tried("reads"),
         NEW r \in Req, Results(r)
  PROVE  Results(r)'
<1> USE DEF At
<1>1. /\ UNCHANGED <<job, stderrState>> /\ bash.state = "ready" /\ stdin # <<>>
      /\ ErrText(r)' = ErrText(r) /\ bash.mute \in BOOLEAN
  BY DEF BashRun, BashMark, BashExit, ErrText, TypeInv, StateTyped
<1>2. CASE job[r].pc \notin Held
  BY <1>1, <1>2, ResultsKept
<1>3. job[r].pc \notin {"write", "await"}
  BY <1>1 DEF StreamInv, InStep, Clear
<1>4. CASE job[r].pc = "scan"
  <2>1. Unread(r) \/ Unmarked(r)
    BY <1>1, <1>4 DEF StreamInv, InStep, Streaming, Marked
  <2>2. job[r].cmd \in Command /\ job[r].cmd.does # "reads"
    BY <1>4 DEF TypeInv, JobsTyped, Tried
  <2>3. CASE Unread(r)
    <3>1. Head(stdin) = [do |-> "run", of |-> r] /\ Tail(stdin) = <<[do |-> "mark", of |-> r]>>
      BY <2>3 DEF Unread, Script
    <3>2. BashRun
      <4>1. Head(stdin).do = "run" /\ Head(stdin) # ExitLine
        BY <3>1 DEF ExitLine
      <4> QED BY <4>1 DEF BashMark, BashExit
    <3>3. stdin' = <<[do |-> "mark", of |-> r]>> /\ stdin' # Script(r) /\ stdin' # <<>>
      <4>1. stdin' = <<[do |-> "mark", of |-> r]>>
        BY <3>1, <3>2 DEF BashRun
      <4>2. Len(Script(r)) = 2
        BY DEF Script
      <4> QED BY <4>1, <4>2
    <3>4. Quiet(r)
      BY <1>1, <1>4, <2>3 DEF Results, Unread
    <3>5. stderr' = ErrText(r)
      <4>1. stderr' = IF job[r].cmd.err /\ ~bash.mute THEN Append(stderr, Line(r, "text"))
                                                      ELSE stderr
        <5>1. Head(stdin).of = r
          BY <3>1
        <5> QED BY <3>2, <5>1, Zenon DEF BashRun
      <4>2. stderr = <<>> /\ ~bash.mute /\ Append(<<>>, Line(r, "text")) = <<Line(r, "text")>>
        BY <3>4 DEF Quiet
      <4> QED BY <4>1, <4>2, Zenon DEF ErrText
    <3>6. Ran(r)'
      BY <1>1, <3>4, <3>5 DEF Quiet, Ran, Awaits, stderrState
    <3>7. bash'.ec = r
      <4>1. \E state, mute, open :
               bash' = [state |-> state, mute |-> mute, open |-> open,
                        ec |-> IF job[r].cmd.does = "reads" THEN bash.ec ELSE r]
        <5>1. Head(stdin).of = r
          BY <3>1
        <5> QED BY <3>2, <5>1, Zenon DEF BashRun
      <4> QED BY <2>2, <4>1
    <3>8. \A i \in 1..Len(stdout') : ~IsMarkerOf(stdout'[i], r)
      BY <2>2, <2>3, <3>2, RunPrints, PrintedLines
    <3> QED BY <1>1, <1>4, <3>3, <3>6, <3>7, <3>8 DEF Results, IsMarkerOf
  <2>4. CASE Unmarked(r)
    <3>1. Head(stdin) = [do |-> "mark", of |-> r] /\ Tail(stdin) = <<>>
      BY <2>4 DEF Unmarked
    <3>2. BashMark
      <4>1. Head(stdin).do = "mark" /\ Head(stdin) # ExitLine
        BY <3>1 DEF ExitLine
      <4> QED BY <4>1 DEF BashRun, BashExit
    <3>3. Ran(r) /\ bash.ec = r
      BY <1>1, <1>4, <2>4 DEF Results, Unmarked
    <3> DEFINE m == Marker(r, None)
    <3>4. stderr' = IF bash.mute THEN stderr ELSE Append(stderr, m)
      BY <3>1, <3>2 DEF BashMark
    <3>5. /\ stdin' = <<>> /\ Len(Script(r)) = 2 /\ bash'.state = "ready" /\ bash'.mute = bash.mute
      BY <1>1, <3>1, <3>2 DEF BashMark, Script, TypeInv, StateTyped
    <3>6. Done(r)'
      <4>1. CASE bash.mute
        BY <1>1, <3>3, <3>4, <4>1 DEF Done, Ran, Awaits, stderrState
      <4>2. CASE ~bash.mute
        <5>1. stderr' = Append(stderr, m) /\ Append(<<>>, m) = <<m>>
          BY <3>4, <4>2
        <5> QED BY <1>1, <3>3, <3>5, <4>2, <5>1 DEF Done, Ran, Awaits, stderrState
      <4> QED BY <4>1, <4>2
    <3> DEFINE end == IF bash.open THEN <<>> ELSE <<Line(r, "empty")>>
               l == Marker(r, r)
    <3>7. stdout' = stdout \o end \o <<l>>
      BY <3>1, <3>2, <3>3 DEF BashMark
    <3>8. end \in Seq(Lines) /\ \A i \in 1..Len(end) : ~IsMarkerOf(end[i], r)
      <4>1. Line(r, "empty") \in Lines /\ ~IsMarkerOf(Line(r, "empty"), r)
        BY DEF Line, Lines, IsMarkerOf
      <4> HIDE DEF Lines, IsMarkerOf
      <4> QED BY <4>1
    <3>9. l \in Lines /\ l.status = r
      BY DEF Marker, Lines
    <3> HIDE DEF end, l, m
    <3>10. <<l>> \in Seq(Lines) /\ \A k \in 1..Len(<<l>>) : <<l>>[k] = l
      BY <3>9
    <3>11. Made(stdout', stdout, end, <<l>>)
      <4>1. stdout \in Seq(Lines) /\ end \in Seq(Lines) /\ <<l>> \in Seq(Lines)
        BY <3>8, <3>10 DEF TypeInv, StateTyped
      <4> QED BY ONLY <3>7, <4>1, OfThree, Zenon
    <3>12. \A i \in 1..Len(stdout') : IsMarkerOf(stdout'[i], r) => stdout'[i].status = r
      BY <2>4, <3>8, <3>9, <3>10, <3>11 DEF Made, Unmarked
    <3>13. stdin' # Script(r) /\ stdin' # <<[do |-> "mark", of |-> r]>>
      BY <3>5
    <3> QED BY <1>1, <1>4, <3>5, <3>6, <3>12, <3>13 DEF Results, IsMarkerOf
  <2> QED BY <2>1, <2>3, <2>4
<1> QED BY <1>2, <1>3, <1>4 DEF Held

\* Whoever unlocks mu and leaves the session usable has waited for the marker on stderr.
LEMMA UnlockRests ==
  ASSUME TypeInv, Rested, NEW r \in Req, Step(r), Results(r),
         mu' = None, ~broken', bash.state # "gone"
  PROVE  stderr' = <<>> /\ ~bash'.mute
<1> USE DEF At
<1>1. /\ (job[r].pc \in Held <=> mu = r) /\ r # None
      /\ UNCHANGED bash
  BY ShellAssumption DEF TypeInv, Locked, Step, Get, Judge, Leave, ExecuteStream, Refuse, Begin,
         Write, ReadBadMarker, ReadMarker, Drain, Pass, ReadTooLong, ReadEOF, AwaitErr, Reads
<1>2. CASE mu # r
  <2>1. Get(r) \/ Judge(r) \/ Leave(r) \/ Refuse(r)
    BY <1>1, <1>2 DEF Step, ExecuteStream, Begin, Write, ReadBadMarker, ReadMarker, Drain, Pass,
       ReadTooLong, ReadEOF, AwaitErr, Reads, Held
  <2> QED BY <1>1, <2>1 DEF Get, Judge, Leave, Refuse, pipes, Rested
<1>3. CASE mu = r
  <2>1. CASE Write(r)
    <3>1. UNCHANGED stderr /\ Quiet(r)
      BY <2>1 DEF Write, Results
    <3> QED BY <1>1, <3>1 DEF Quiet
  <2>2. ~ReadBadMarker(r)
    <3>1. SUFFICES ASSUME ReadBadMarker(r) PROVE FALSE
      OBVIOUS
    <3>2. stdout \in Seq(Lines) /\ stdout # <<>> /\ job[r].pc = "scan"
      BY <3>1 DEF TypeInv, StateTyped, ReadBadMarker, Reads
    <3>3. line = stdout[1] /\ 1 \in 1..Len(stdout)
      BY <3>2, TailTyped DEF line
    <3> QED BY <1>1, <3>1, <3>2, <3>3 DEF Results, ReadBadMarker
  <2>3. CASE AwaitErr(r)
    <3>1. errDone /\ Done(r) /\ UNCHANGED stderr
      BY <2>3 DEF AwaitErr, Results, pipes
    <3> QED BY <1>1, <3>1 DEF Done, Ran, Awaits
  <2> QED BY <1>1, <1>3, <2>1, <2>2, <2>3
          DEF Step, ExecuteStream, Get, Judge, Leave, Refuse, Begin, ReadMarker, Drain, Pass,
              ReadTooLong, ReadEOF, Held
<1> QED BY <1>2, <1>3

LEMMA ResultKept ==
  ASSUME TypeInv, StreamInv, ResultInv, [Next]_vars PROVE ResultInv'
<1> SUFFICES ASSUME ~Tried("reads")' PROVE (Rested /\ \A r \in Req : Results(r))'
  BY DEF ResultInv
<1>1. ~Tried("reads") /\ Rested /\ \A r \in Req : Results(r)
  BY TriedForGood DEF ResultInv
<1>2. CASE \E r \in Req : Step(r)
  <2>1. PICK r \in Req : Step(r)
    BY <1>2
  <2>2. Results(r)' /\ \A s \in Req \ {r} : Results(s)'
    BY <1>1, <2>1, StepResults, OthersResults
  <2>3. Rested'
    <3>1. bash'.state # "gone" => bash.state # "gone"
      BY GoneForGood
    <3> QED BY <1>1, <2>1, <3>1, UnlockRests DEF Rested
  <2> QED BY <2>2, <2>3
<1>3. CASE \E d \in Closer : Ending(d)
  <2>1. PICK d \in Closer : Ending(d)
    BY <1>3
  <2>2. \A r \in Req : Results(r)'
    BY <1>1, <2>1, EndingResults
  <2>3. Rested'
    BY <1>1, <2>1, ShellAssumption DEF Rested, Ending, Delete, Close, Wait, pipes
  <2> QED BY <2>2, <2>3
<1>4. CASE ReadErr
  <2>1. \A r \in Req : Results(r)'
    BY <1>1, <1>4, ReadErrResults
  <2>2. Rested'
    BY <1>1, <1>4 DEF ReadErr, Rested
  <2> QED BY <2>1, <2>2
<1>5. CASE BashRun \/ BashMark \/ BashExit
  <2>1. \A r \in Req : Results(r)'
    BY <1>1, <1>5, BashResults
  <2>2. UNCHANGED <<mu, broken>> /\ stdin # <<>> /\ bash.state = "ready"
    BY <1>5 DEF BashRun, BashMark, BashExit
  <2>3. ~(mu = None /\ ~broken)
    BY <2>2 DEF StreamInv, InStep, Clear
  <2> QED BY <2>1, <2>2, <2>3 DEF Rested
<1>6. CASE UNCHANGED vars
  <2>1. \A r \in Req : Results(r)'
    BY <1>1, <1>6, ResultsKept DEF vars, stderrState
  <2>2. Rested'
    BY <1>1, <1>6 DEF vars, Rested
  <2> QED BY <2>1, <2>2
<1> QED BY <1>2, <1>3, <1>4, <1>5, <1>6, NextIsOneOf

LEMMA InitResult ==
  ASSUME Init PROVE ResultInv
BY DEF Init, NewBashShell, NoJob, ResultInv, Rested, Results, At

\* OwnResult: as long as no command reads the script that follows it, an answer carries the
\* exit status of its own command and what that command wrote to stderr, no more and no less.
THEOREM ResultIsOwn == Spec => []OwnResult
<1> DEFINE Inv == OutInv /\ ResultInv
<1>1. Init => Inv
  BY InitOwns, InitResult
<1>2. Inv /\ [Next]_vars => Inv'
  BY OutputKept, ResultKept DEF OutInv
<1>3. Inv => OwnResult
  BY DEF ResultInv, Results, OwnResult, ErrText
<1> QED BY <1>1, <1>2, <1>3, PTL DEF Spec

(***************************************************************************)
(* The session.  Why a command is given up, and what a client sees of each *)
(* step of the shell.                                                      *)
(***************************************************************************)

\* Bash ends by a command or by a deletion, and only what was due to a client that has left
\* is not sent.
Blamed ==
  /\ bash.state = "gone" => Tried("exits") \/ ~listed
  /\ \A i \in 1..Len(stdin) : stdin[i] = ExitLine => ~listed
  /\ \A d \in Closer : closer[d] \in {"lock", "wait", "closed"} => ~listed
  /\ \A r \in Req : job[r].cut => job[r].gone

\* What becomes of job[r].cut and job[r].gone.
LEMMA CutsGone ==
  ASSUME TypeInv, NEW r \in Req, job[r].cut => job[r].gone, Step(r)
  PROVE  job'[r].cut => job'[r].gone
<1> USE DEF TypeInv, JobsTyped, Becomes
<1>1. CASE Get(r)
  BY <1>1 DEF Get, Jobs
<1>2. CASE Judge(r) \/ Refuse(r) \/ Begin(r) \/ Write(r) \/ ReadBadMarker(r) \/ ReadTooLong(r)
           \/ ReadEOF(r)
  <2>1. PICK pc : Goto(r, pc)
    BY <1>2 DEF Judge, Refuse, Begin, Write, ReadBadMarker, ReadTooLong, ReadEOF, Return
  <2> QED BY <2>1 DEF Goto, Jobs
<1>3. CASE Leave(r)
  BY <1>3 DEF Leave, Jobs
<1>4. CASE ReadMarker(r)
  BY <1>4 DEF ReadMarker, Jobs
<1>5. CASE Drain(r)
  BY <1>5 DEF Drain
<1>6. CASE Pass(r)
  <2> DEFINE held == IF job[r].pending THEN <<Line(line.of, "empty")>> ELSE <<>>
             d == held \o (IF line.is = "empty" THEN <<>> ELSE <<line>>)
  <2>1. PICK n \in 0..Len(d) :
                    /\ n < Len(d) => job[r].gone
                    /\ Becomes(r, [job[r] EXCEPT !.sent = @ \o SubSeq(d, 1, n),
                                                 !.cut = n < Len(d), !.pending = line.is = "empty"])
    BY <1>6, Zenon DEF Pass
  <2> HIDE DEF d
  <2> DEFINE t == job[r].sent \o SubSeq(d, 1, n)
             a == n < Len(d)
             b == line.is = "empty"
  <2>2. Becomes(r, [job[r] EXCEPT !.sent = t, !.cut = a, !.pending = b]) /\ (a => job[r].gone)
    BY <2>1
  <2> HIDE DEF t, a, b
  <2>3. job'[r].cut = a /\ job'[r].gone = job[r].gone
    BY <2>2 DEF Jobs
  <2> QED BY <2>2, <2>3
<1>7. CASE AwaitErr(r)
  <2>1. CASE job[r].cut
    BY <1>7, <2>1 DEF AwaitErr, Goto, Jobs
  <2>2. CASE ~job[r].cut
    BY <1>7, <2>2 DEF AwaitErr, Jobs
  <2> QED BY <2>1, <2>2
<1> QED BY <1>1, <1>2, <1>3, <1>4, <1>5, <1>6, <1>7 DEF Step, ExecuteStream

LEMMA ListedFalls ==
  ASSUME [Next]_vars PROVE UNCHANGED listed \/ listed' = FALSE
BY NextIsOneOf DEF Step, ExecuteStream, Get, Judge, Leave, Refuse, Begin, Write, ReadBadMarker,
   ReadMarker, Drain, Pass, ReadTooLong, ReadEOF, AwaitErr, Reads, Ending, Delete, Close, Wait,
   ReadErr, BashRun, BashMark, BashExit, vars

\* As long as the session is in the map nobody closes it.
LEMMA NoExitYet ==
  ASSUME TypeInv, Traced, Blamed, [Next]_vars, listed'
  PROVE  /\ bash'.state = "gone" => Tried("exits")'
         /\ \A i \in 1..Len(stdin') : stdin'[i] # ExitLine
         /\ UNCHANGED closer
<1>0. /\ listed /\ stdin \in Seq(StdinLine)
      /\ bash.state = "gone" => Tried("exits")
      /\ \A i \in 1..Len(stdin) : stdin[i] # ExitLine
      /\ \A d \in Closer : closer[d] \notin {"lock", "wait", "closed"}
  BY ListedFalls DEF Blamed, TypeInv, StateTyped, StdinLine
<1>1. Tried("exits") => Tried("exits")'
  BY TriedForGood
<1>2. ASSUME UNCHANGED <<bash, stdin, closer>>
      PROVE  /\ bash'.state = "gone" => Tried("exits")'
             /\ \A i \in 1..Len(stdin') : stdin'[i] # ExitLine
             /\ UNCHANGED closer
  BY <1>0, <1>1, <1>2
<1>3. ASSUME NEW r \in Req, Step(r)
      PROVE  /\ bash'.state = "gone" => Tried("exits")'
             /\ \A i \in 1..Len(stdin') : stdin'[i] # ExitLine
             /\ UNCHANGED closer
  <2>1. UNCHANGED <<bash, closer>> /\ (UNCHANGED stdin \/ stdin' = stdin \o Script(r))
    BY <1>3 DEF Step, ExecuteStream, Get, Judge, Leave, Refuse, Begin, Write, ReadBadMarker,
       ReadMarker, Drain, Pass, ReadTooLong, ReadEOF, AwaitErr, Reads, pipes
  <2>2. CASE stdin' = stdin \o Script(r)
    <3>1. Script(r) \in Seq(StdinLine) /\ \A k \in 1..Len(Script(r)) : Script(r)[k] # ExitLine
      <4>1. Script(r) \in Seq(StdinLine)
        BY ScriptTyped
      <4>2. Script(r)[1].do = "run" /\ Script(r)[2].do = "mark" /\ Len(Script(r)) = 2
        BY DEF Script
      <4>3. ExitLine.do = "exit"
        BY DEF ExitLine
      <4> QED BY <4>1, <4>2, <4>3
    <3> DEFINE more == Script(r)
    <3> HIDE DEF more
    <3>2. \A i \in 1..Len(stdin \o more) : \/ \E k \in 1..Len(stdin) : (stdin \o more)[i] = stdin[k]
                                           \/ \E k \in 1..Len(more) : (stdin \o more)[i] = more[k]
      BY <1>0, <3>1, OfConcat DEF more
    <3>3. stdin' = stdin \o more /\ \A k \in 1..Len(more) : more[k] # ExitLine
      BY <2>2, <3>1 DEF more
    <3> QED BY <1>0, <1>1, <2>1, <3>2, <3>3
  <2> QED BY <1>0, <1>1, <2>1, <2>2
<1>4. CASE \E d \in Closer : Ending(d)
  <2>1. UNCHANGED <<bash, stdin, closer>>
    BY <1>0, <1>4 DEF Ending, Delete, Close, Wait, pipes
  <2> QED BY <1>2, <2>1
<1>5. CASE BashRun \/ BashMark \/ BashExit
  <2>1. /\ stdin # <<>> /\ stdin' = Tail(stdin) /\ UNCHANGED <<closer, job>>
        /\ bash.state = "ready"
    BY <1>5 DEF BashRun, BashMark, BashExit
  <2>2. Head(stdin) = stdin[1] /\ 1 \in 1..Len(stdin)
    BY <1>0, <2>1
  <2>3. \A i \in 1..Len(stdin') : stdin'[i] # ExitLine
    BY <1>0, <2>1, TailTyped
  <2>4. bash'.state = "gone" => Tried("exits")
    <3>1. CASE BashRun
      <4> DEFINE r == Head(stdin).of
      <4>1. r \in Req /\ Shelled(r)
        <5>1. Head(stdin).do = "run"
          BY <3>1 DEF BashRun
        <5>2. Head(stdin) # ExitLine
          BY <5>1 DEF ExitLine
        <5> QED BY <2>1, <2>2, <5>1, <5>2, HeadRuns DEF Traced
      <4>2. bash'.state = "gone" => job[r].cmd.does = "exits"
        <5> DEFINE states == CASE job[r].cmd.does = "exits"  -> {"gone"}
                               [] job[r].cmd.does = "floods" -> {"ready", "stuck"}
                               [] OTHER                      -> {"ready"}
        <5>1. \E state \in states : \E mute, open, ec :
                 bash' = [state |-> state, mute |-> mute, open |-> open, ec |-> ec]
          BY <3>1, Zenon DEF BashRun
        <5>2. job[r].cmd.does # "exits" => "gone" \notin states
          OBVIOUS
        <5> HIDE DEF states
        <5> QED BY <5>1, <5>2
      <4> QED BY <4>1, <4>2 DEF Tried, Shelled
    <3>2. CASE BashMark
      BY <2>1, <3>2 DEF BashMark, TypeInv, StateTyped
    <3>3. ~BashExit
      BY <1>0, <2>2 DEF BashExit
    <3> QED BY <1>5, <3>1, <3>2, <3>3
  <2> QED BY <1>1, <2>1, <2>3, <2>4
<1>6. CASE ReadErr \/ UNCHANGED vars
  BY <1>2, <1>6 DEF ReadErr, vars
<1> QED BY <1>3, <1>4, <1>5, <1>6, NextIsOneOf

LEMMA BlamedKept ==
  ASSUME TypeInv, Traced, Blamed, [Next]_vars PROVE Blamed'
<1>1. \A r \in Req : job'[r].cut => job'[r].gone
  <2>1. CASE \E s \in Req : Step(s)
    <3>1. PICK s \in Req : Step(s)
      BY <2>1
    <3>2. \A r \in Req \ {s} : job'[r] = job[r]
      <4>1. PICK j : Makes(s, j)
        BY <3>1, StepMakes
      <4> QED BY <4>1 DEF Makes, Becomes, TypeInv, JobsTyped
    <3> QED BY <3>1, <3>2, CutsGone DEF Blamed
  <2>2. CASE UNCHANGED job
    BY <2>2 DEF Blamed
  <2> QED BY <2>1, <2>2, NextIsOneOf
          DEF Ending, Delete, Close, Wait, ReadErr, BashRun, BashMark, BashExit, vars
<1>2. CASE listed'
  BY <1>1, <1>2, NoExitYet, ListedFalls DEF Blamed, TypeInv, StateTyped
<1>3. CASE ~listed'
  BY <1>1, <1>3 DEF Blamed
<1> QED BY <1>2, <1>3

\* How a job is seen.
LEMMA CallIs ==
  ASSUME NEW r \in Req
  PROVE  /\ callOf[r] = CallOf(job[r])
         /\ callOf[r].state = StateOf(job[r].pc) /\ callOf[r].cmd = job[r].cmd
         /\ callOf[r].left = job[r].gone /\ callOf[r].output = Seen(job[r].sent)
BY DEF callOf, CallOf

LEMMA CallsMove ==
  ASSUME TypeInv, NEW r \in Req, NEW j, Becomes(r, j)
  PROVE  callOf' = [callOf EXCEPT ![r] = CallOf(j)]
<1>1. job' = [job EXCEPT ![r] = j] /\ job \in [Req -> Jobs]
  BY DEF Becomes, TypeInv, JobsTyped
<1>2. DOMAIN callOf' = Req /\ \A s \in Req : callOf'[s] = CallOf(job'[s])
  BY DEF callOf
<1>3. DOMAIN callOf = Req /\ \A s \in Req : callOf[s] = CallOf(job[s])
  BY DEF callOf
<1>4. \A s \in Req : callOf'[s] = [callOf EXCEPT ![r] = CallOf(j)][s]
  BY <1>1, <1>2, <1>3
<1>5. callOf' = [s \in Req |-> callOf'[s]]
  BY DEF callOf
<1> QED BY <1>3, <1>4, <1>5

LEMMA CallsSame ==
  ASSUME UNCHANGED job PROVE UNCHANGED callOf
BY DEF callOf

LEMMA CallSame ==
  ASSUME TypeInv, NEW r \in Req, NEW j, Becomes(r, j), CallOf(j) = CallOf(job[r])
  PROVE  UNCHANGED callOf
<1>1. callOf' = [callOf EXCEPT ![r] = callOf[r]]
  BY CallsMove, CallIs
<1> QED BY <1>1 DEF callOf

LEMMA StateMoves ==
  ASSUME TypeInv, NEW r \in Req, NEW pc, job[r].pc # "answered", pc # "answered", Goto(r, pc)
  PROVE  Abstract!Becomes(r, [callOf[r] EXCEPT !.state = StateOf(pc)])
<1> DEFINE j == [job[r] EXCEPT !.pc = pc]
<1>1. job[r] \in Jobs /\ Becomes(r, j)
  BY DEF TypeInv, JobsTyped, Goto
<1>2. /\ j.pc = pc /\ j.cmd = job[r].cmd /\ j.gone = job[r].gone /\ j.sent = job[r].sent
  BY <1>1 DEF Jobs
<1>3. CallOf(j) = [CallOf(job[r]) EXCEPT !.state = StateOf(pc)]
  BY <1>2 DEF CallOf
<1>4. callOf' = [callOf EXCEPT ![r] = CallOf(j)]
  BY <1>1, CallsMove
<1> QED BY <1>3, <1>4, CallIs DEF Abstract!Becomes

\* What the session knows of its commands.
LEMMA TriedSeen ==
  ASSUME TypeInv, NEW does PROVE Abstract!Tried(does) <=> Tried(does)
<1>1. \A r \in Req : callOf[r].state \in {"served", "answered", "failed"} <=> Shelled(r)
  <2> SUFFICES ASSUME NEW r \in Req
               PROVE callOf[r].state \in {"served", "answered", "failed"} <=> Shelled(r)
    OBVIOUS
  <2>1. job[r].pc \in PC
    BY DEF TypeInv, JobsTyped, Jobs
  <2> QED BY <2>1, CallIs DEF StateOf, PC, Ended, Shelled
<1> QED BY <1>1, CallIs DEF Tried, Abstract!Tried, Shelled

LEMMA HarmSeen ==
  ASSUME TypeInv, Blamed, Spoilt PROVE Abstract!Harmed
BY TriedSeen DEF Blamed, Spoilt, Abstract!Harmed

LEMMA FreeSeen ==
  ASSUME TypeInv, mu = None PROVE Abstract!Free
<1> SUFFICES ASSUME NEW r \in Req PROVE callOf[r].state # "served"
  BY DEF Abstract!Free, Abstract!Is
<1>1. job[r].pc \in PC \ Held
  BY ShellAssumption DEF TypeInv, JobsTyped, Jobs, Locked
<1> QED BY <1>1, CallIs DEF StateOf, PC, Ended, Held

LEMMA StateStays ==
  ASSUME TypeInv, NEW r \in Req, NEW pc, job[r].pc # "answered", pc # "answered", Goto(r, pc),
         StateOf(pc) = StateOf(job[r].pc)
  PROVE  UNCHANGED callOf
<1> DEFINE c == [callOf[r] EXCEPT !.state = StateOf(job[r].pc)]
<1>1. callOf' = [callOf EXCEPT ![r] = c]
  BY StateMoves DEF Abstract!Becomes
<1>2. c = callOf[r]
  <2>1. /\ callOf[r] = CallOf(job[r]) /\ DOMAIN CallOf(job[r]) = {"state", "cmd", "left", "output", "result"}
        /\ CallOf(job[r]) = [f \in DOMAIN CallOf(job[r]) |-> CallOf(job[r])[f]]
        /\ CallOf(job[r]).state = StateOf(job[r].pc)
    BY CallIs DEF CallOf
  <2> QED BY <2>1
<1> HIDE DEF c
<1> QED BY <1>1, <1>2 DEF callOf

\* Every step of the shell is one of the session's, or the client sees nothing of it.
Seems == Abstract!SessionNext \/ UNCHANGED Abstract!session

\* The command is given up.
LEMMA FailSeen ==
  ASSUME TypeInv, NEW r \in Req, UNCHANGED listed, Goto(r, "failed"),
         \/ job[r].pc \in Held /\ (job[r].gone \/ Abstract!Harmed)
         \/ At(r, "lock") /\ Abstract!Free /\ Abstract!Harmed
  PROVE  Abstract!Fail(r)
<1>1. job[r].pc # "answered" /\ StateOf("failed") = "failed"
  BY DEF Held, At, StateOf
<1>2. Abstract!Becomes(r, [callOf[r] EXCEPT !.state = "failed"])
  BY <1>1, StateMoves
<1>3. /\ job[r].pc \in Held => callOf[r].state = "served"
      /\ At(r, "lock") => callOf[r].state = "waiting"
  BY CallIs DEF Held, At, StateOf
<1> QED BY <1>2, <1>3, CallIs DEF Abstract!Fail, Abstract!Is

LEMMA ArrivalSeen ==
  ASSUME TypeInv, Blamed, Mended, NEW r \in Req,
         Get(r) \/ Judge(r) \/ Leave(r) \/ Refuse(r) \/ Begin(r)
  PROVE  Seems
<1>0. job[r] \in Jobs
  BY DEF TypeInv, JobsTyped
<1>1. CASE Get(r)
  <2>1. PICK c \in Command : Becomes(r, [job[r] EXCEPT !.cmd = c, !.pc = SessionGet])
    BY <1>1 DEF Get
  <2> DEFINE j == [job[r] EXCEPT !.cmd = c, !.pc = SessionGet]
             state == IF ~listed THEN "refused" ELSE "waiting"
  <2>2. /\ j.pc = SessionGet /\ j.cmd = c /\ j.gone = job[r].gone /\ j.sent = job[r].sent
    BY <1>0 DEF Jobs
  <2>3. job[r].pc = "new" /\ SessionGet # "answered" /\ StateOf(SessionGet) = state
    BY <1>1 DEF Get, At, SessionGet, StateOf
  <2>4. CallOf(j) = [CallOf(job[r]) EXCEPT !.cmd = c, !.state = state]
    <3>1. CallOf(j) = [state |-> state, cmd |-> c, left |-> job[r].gone,
                       output |-> Seen(job[r].sent), result |-> None]
      BY <2>2, <2>3, Zenon DEF CallOf
    <3>2. CallOf(job[r]) = [state |-> StateOf(job[r].pc), cmd |-> job[r].cmd, left |-> job[r].gone,
                            output |-> Seen(job[r].sent), result |-> None]
      BY <2>3, Zenon DEF CallOf
    <3> DEFINE now == CallOf(job[r])
               then == CallOf(j)
               sent == Seen(job[r].sent)
               mid == [now EXCEPT !.cmd = c]
    <3>3. /\ now = [state |-> StateOf(job[r].pc), cmd |-> job[r].cmd, left |-> job[r].gone,
                    output |-> sent, result |-> None]
          /\ then = [state |-> state, cmd |-> c, left |-> job[r].gone,
                     output |-> sent, result |-> None]
      BY <3>1, <3>2
    <3> HIDE DEF state, now, then, sent
    <3>4. mid = [state |-> StateOf(job[r].pc), cmd |-> c, left |-> job[r].gone,
                 output |-> sent, result |-> None]
      BY <3>3
    <3> HIDE DEF mid
    <3>5. then = [mid EXCEPT !.state = state]
      BY <3>3, <3>4
    <3> QED BY <3>5 DEF now, then, mid
  <2>5. callOf' = [callOf EXCEPT ![r] = CallOf(j)]
    BY <2>1, CallsMove
  <2>6. Abstract!Send(r, c)
    <3>1. callOf[r].state = "none"
      BY <2>3, CallIs DEF StateOf
    <3> QED BY <1>1, <2>4, <2>5, <3>1, CallIs
            DEF Get, Abstract!Send, Abstract!Becomes, Abstract!Is
  <2> QED BY <2>6 DEF Seems, Abstract!SessionNext
<1>2. CASE Judge(r)
  <2>1. At(r, "judge") /\ UNCHANGED listed /\ (Goto(r, "lock") \/ Goto(r, "refused"))
    BY <1>2 DEF Judge
  <2>2. callOf[r].state = "waiting" /\ job[r].pc # "answered"
    BY <2>1, CallIs DEF At, StateOf
  <2>3. CASE Goto(r, "lock")
    <3>1. UNCHANGED callOf
      BY <2>1, <2>3, StateStays DEF At, StateOf
    <3> QED BY <2>1, <3>1 DEF Seems, Abstract!session
  <2>4. CASE Goto(r, "refused")
    <3>1. Abstract!Becomes(r, [callOf[r] EXCEPT !.state = StateOf("refused")])
      BY <2>2, <2>4, StateMoves
    <3>2. StateOf("refused") = "refused"
      BY DEF StateOf
    <3>3. Abstract!Reject(r)
      BY <2>1, <2>2, <3>1, <3>2 DEF Abstract!Reject, Abstract!Is
    <3> QED BY <3>3 DEF Seems, Abstract!SessionNext
  <2> QED BY <2>1, <2>3, <2>4
<1>3. CASE Leave(r)
  <2> DEFINE j == [job[r] EXCEPT !.gone = TRUE]
  <2>1. Becomes(r, j) /\ job[r].pc \notin Ended \cup {"new"} /\ UNCHANGED listed
    BY <1>3 DEF Leave, At
  <2>2. /\ j.pc = job[r].pc /\ j.cmd = job[r].cmd /\ j.gone = TRUE /\ j.sent = job[r].sent
    BY <1>0 DEF Jobs
  <2>3. CallOf(j) = [CallOf(job[r]) EXCEPT !.left = TRUE]
    <3>0. job[r].pc # "answered"
      BY <2>1 DEF Ended
    <3>1. CallOf(j) = [state |-> StateOf(job[r].pc), cmd |-> job[r].cmd, left |-> TRUE,
                       output |-> Seen(job[r].sent), result |-> None]
      BY <2>2, <3>0, Zenon DEF CallOf
    <3>2. CallOf(job[r]) = [state |-> StateOf(job[r].pc), cmd |-> job[r].cmd, left |-> job[r].gone,
                            output |-> Seen(job[r].sent), result |-> None]
      BY <3>0, Zenon DEF CallOf
    <3> DEFINE now == CallOf(job[r])
               then == CallOf(j)
               state == StateOf(job[r].pc)
               sent == Seen(job[r].sent)
               gone == job[r].gone
               left == TRUE
    <3>3. /\ now = [state |-> state, cmd |-> job[r].cmd, left |-> gone,
                    output |-> sent, result |-> None]
          /\ then = [state |-> state, cmd |-> job[r].cmd, left |-> left,
                     output |-> sent, result |-> None]
      BY <3>1, <3>2
    <3> HIDE DEF now, then, state, sent, gone, left
    <3>4. then = [now EXCEPT !.left = left]
      BY <3>3
    <3> QED BY <3>4, Zenon DEF now, then, left
  <2>4. callOf' = [callOf EXCEPT ![r] = CallOf(j)]
    BY <2>1, CallsMove
  <2>5. callOf[r].state \in {"waiting", "served"}
    BY <1>0, <2>1, CallIs DEF Jobs, PC, StateOf
  <2>6. Abstract!Leave(r)
    BY <2>1, <2>3, <2>4, <2>5, CallIs DEF Abstract!Leave, Abstract!Becomes
  <2> QED BY <2>6 DEF Seems, Abstract!SessionNext
<1>4. CASE Refuse(r)
  <2>1. At(r, "lock") /\ mu = None /\ broken /\ Goto(r, "failed") /\ UNCHANGED listed
    BY <1>4 DEF Refuse
  <2>2. Spoilt
    BY <2>1, ShellAssumption DEF Mended
  <2>3. Abstract!Fail(r)
    BY <2>1, <2>2, FreeSeen, HarmSeen, FailSeen
  <2> QED BY <2>3 DEF Seems, Abstract!SessionNext
<1>5. CASE Begin(r)
  <2>1. At(r, "lock") /\ mu = None /\ Goto(r, "write") /\ UNCHANGED listed
    BY <1>5 DEF Begin
  <2>2. Abstract!Becomes(r, [callOf[r] EXCEPT !.state = StateOf("write")])
    BY <2>1, StateMoves DEF At
  <2>3. callOf[r].state = "waiting" /\ StateOf("write") = "served"
    BY <2>1, CallIs DEF At, StateOf
  <2>4. Abstract!Serve(r)
    BY <2>1, <2>2, <2>3, FreeSeen DEF Abstract!Serve, Abstract!Is
  <2> QED BY <2>4 DEF Seems, Abstract!SessionNext
<1> QED BY <1>1, <1>2, <1>3, <1>4, <1>5

LEMMA FailuresSeen ==
  ASSUME TypeInv, Blamed, Traced, NEW r \in Req,
         Write(r) \/ ReadBadMarker(r) \/ ReadTooLong(r) \/ ReadEOF(r)
  PROVE  Seems
<1>1. CASE Goto(r, "scan")
  <2>1. At(r, "write") /\ UNCHANGED listed
    BY <1>1 DEF Write, ReadBadMarker, ReadTooLong, ReadEOF, Reads, Return, At, Goto, Becomes,
       TypeInv, JobsTyped, Jobs
  <2>2. UNCHANGED callOf
    BY <1>1, <2>1, StateStays DEF At, StateOf
  <2> QED BY <2>1, <2>2 DEF Seems, Abstract!session
<1>2. CASE Goto(r, "failed") /\ (job[r].gone \/ Spoilt)
  <2>1. UNCHANGED listed /\ job[r].pc \in Held
    BY DEF Write, ReadBadMarker, ReadTooLong, ReadEOF, Reads, At, Held
  <2>2. Abstract!Fail(r)
    BY <1>2, <2>1, HarmSeen, FailSeen
  <2> QED BY <2>2 DEF Seems, Abstract!SessionNext
<1>3. CASE Write(r)
  BY <1>1, <1>2, <1>3 DEF Write, Return, Spoilt
<1>4. CASE ReadBadMarker(r) \/ ReadTooLong(r)
  BY <1>2, <1>4, ReadsSpoilt DEF ReadBadMarker, ReadTooLong, Return
<1>5. CASE ReadEOF(r)
  BY <1>2, <1>5 DEF ReadEOF, Return, Spoilt
<1> QED BY <1>3, <1>4, <1>5

LEMMA MarkerSeen ==
  ASSUME TypeInv, NEW r \in Req, ReadMarker(r) \/ Drain(r) PROVE Seems
<1>1. CASE ReadMarker(r)
  <2> DEFINE status == line.status
             j == [job[r] EXCEPT !.pc = "await", !.status = status]
  <2>1. Becomes(r, j) /\ job[r].pc = "scan" /\ UNCHANGED listed
    BY <1>1 DEF ReadMarker, Reads, At
  <2>2. job[r] \in Jobs
    BY DEF TypeInv, JobsTyped
  <2> HIDE DEF status
  <2>3. /\ j.pc = "await" /\ j.cmd = job[r].cmd /\ j.gone = job[r].gone /\ j.sent = job[r].sent
    BY <2>2 DEF Jobs
  <2> HIDE DEF j
  <2>4. StateOf(j.pc) = StateOf(job[r].pc)
    BY <2>1, <2>3 DEF StateOf
  <2>5. CallOf(j) = CallOf(job[r])
    BY <2>1, <2>3, <2>4, Zenon DEF CallOf
  <2> QED BY <2>1, <2>5, CallSame DEF Seems, Abstract!session
<1>2. CASE Drain(r)
  BY <1>2, CallsSame DEF Drain, Reads, Seems, Abstract!session
<1> QED BY <1>1, <1>2

\* What a command prints, as its client sees it.
Displayed(r, c) == [i \in DOMAIN c.out |-> [of |-> r, is |-> c.out[i]]]

\* What has been sent is seen as a beginning of that.
LEMMA SentSeen ==
  ASSUME NEW r \in Req, NEW j, j.sent \in Seq(Lines), j.cmd \in Command, Begins(r, j)
  PROVE  /\ Len(j.sent) \in Nat /\ Len(j.sent) <= Len(j.cmd.out)
         /\ DOMAIN Displayed(r, j.cmd) = 1..Len(j.cmd.out) /\ Len(j.cmd.out) \in Nat
         /\ Seen(j.sent) = [i \in 1..Len(j.sent) |-> Displayed(r, j.cmd)[i]]
<1> DEFINE s == j.sent
           out == j.cmd.out
           own == Displayed(r, j.cmd)
<1>1. Len(out) \in Nat /\ DOMAIN out = 1..Len(out)
  BY CommandShape
<1>2. s \in Seq(Lines) /\ Len(s) <= Len(out) /\ \A i \in 1..Len(s) : s[i] = Line(r, out[i])
  BY DEF Begins
<1>3. own = [i \in 1..Len(out) |-> [of |-> r, is |-> out[i]]]
  BY <1>1 DEF Displayed
<1> HIDE DEF s, out, own
<1>4. Len(s) \in Nat /\ DOMAIN s = 1..Len(s)
  BY <1>2
<1>5. ASSUME NEW i \in 1..Len(s) PROVE [of |-> s[i].of, is |-> s[i].is] = own[i]
  <2>1. s[i] = [of |-> r, is |-> out[i], status |-> None]
    BY <1>2 DEF Line
  <2>2. i \in 1..Len(out)
    BY <1>1, <1>2, <1>4
  <2> QED BY <1>3, <2>1, <2>2
<1>6. Seen(s) = [i \in 1..Len(s) |-> [of |-> s[i].of, is |-> s[i].is]]
  BY <1>4 DEF Seen
<1>7. Seen(s) = [i \in 1..Len(s) |-> own[i]]
  <2> DEFINE a == [i \in 1..Len(s) |-> [of |-> s[i].of, is |-> s[i].is]]
             b == [i \in 1..Len(s) |-> own[i]]
  <2>1. a = b
    BY <1>5, Zenon
  <2> QED BY <1>6, <2>1, Zenon
<1> QED BY <1>1, <1>2, <1>3, <1>4, <1>7 DEF s, out, own

LEMMA OutputSeen ==
  ASSUME OutInv, NEW r \in Req, ~At(r, "new")
  PROVE  /\ Abstract!Output(r) = Displayed(r, job[r].cmd)
         /\ job[r].sent \in Seq(Lines) /\ job[r].cmd \in Command /\ Begins(r, job[r])
BY JobShape, CallIs DEF OutInv, TypeInv, JobsTyped, At, Owns, Abstract!Output, Abstract!Line, Displayed

LEMMA PassSeen ==
  ASSUME OutInv, [Next]_vars, NEW r \in Req, Pass(r) PROVE Seems
<1> DEFINE held == IF job[r].pending THEN <<Line(line.of, "empty")>> ELSE <<>>
           due == held \o (IF line.is = "empty" THEN <<>> ELSE <<line>>)
<1>1. PICK n \in 0..Len(due) :
         Becomes(r, [job[r] EXCEPT !.sent = @ \o SubSeq(due, 1, n), !.cut = n < Len(due),
                                   !.pending = line.is = "empty"])
  BY DEF Pass
<1>2. At(r, "scan") /\ UNCHANGED listed /\ line \in Lines /\ job[r] \in Jobs
  BY DEF Pass, Reads, line, OutInv, TypeInv, StateTyped, JobsTyped
<1>3. due \in Seq(Lines)
  <2>1. Line(line.of, "empty") \in Lines
    BY <1>2 DEF Line, Lines
  <2>2. held \in Seq(Lines)
    BY <2>1
  <2> QED BY <1>2, <2>2
<1> DEFINE more == SubSeq(due, 1, n)
<1>4. more \in Seq(Lines)
  <2> HIDE DEF due
  <2> QED BY <1>1, <1>3
<1> DEFINE cut == n < Len(due)
           empty == line.is = "empty"
           sent == job[r].sent \o more
           j == [job[r] EXCEPT !.sent = sent, !.cut = cut, !.pending = empty]
<1>5. Becomes(r, j)
  BY <1>1
<1> HIDE DEF held, due, more, cut, empty
<1>6. sent \in Seq(Lines) /\ Len(sent) \in Nat /\ Len(sent) >= Len(job[r].sent)
  BY <1>2, <1>4 DEF Jobs
<1> HIDE DEF sent
<1>7. /\ j.sent = sent /\ j.pc = job[r].pc /\ j.cmd = job[r].cmd /\ j.gone = job[r].gone
  BY <1>2 DEF Jobs
<1>8. job'[r] = j /\ callOf' = [callOf EXCEPT ![r] = CallOf(j)]
  <2> HIDE DEF j
  <2> QED BY <1>5, CallsMove DEF OutInv, TypeInv, JobsTyped, Becomes
<1> HIDE DEF j
<1> DEFINE own == Abstract!Output(r)
           prefix(k) == [i \in 1..k |-> own[i]]
<1>9. /\ own = Displayed(r, job[r].cmd) /\ job[r].cmd \in Command
      /\ Seen(job[r].sent) = prefix(Len(job[r].sent)) /\ Len(job[r].sent) \in Nat
      /\ DOMAIN own = 1..Len(job[r].cmd.out) /\ Len(job[r].cmd.out) \in Nat
  <2>1. /\ own = Displayed(r, job[r].cmd)
        /\ job[r].sent \in Seq(Lines) /\ job[r].cmd \in Command /\ Begins(r, job[r])
    BY <1>2, OutputSeen DEF At
  <2> HIDE DEF own
  <2>2. /\ Seen(job[r].sent) = [i \in 1..Len(job[r].sent) |-> Displayed(r, job[r].cmd)[i]]
        /\ DOMAIN Displayed(r, job[r].cmd) = 1..Len(job[r].cmd.out)
        /\ Len(job[r].sent) \in Nat /\ Len(job[r].cmd.out) \in Nat
    BY <2>1, SentSeen
  <2> QED BY <2>1, <2>2
<1> HIDE DEF own
<1>10. Seen(sent) = prefix(Len(sent)) /\ Len(sent) <= Len(job[r].cmd.out)
  <2>1. Begins(r, j)
    <3>1. Owns(r, job[r])'
      BY OutputKept DEF OutInv
    <3>2. job'[r].pc # "new" => Begins(r, job'[r])
      BY <3>1 DEF Owns, Begins
    <3> QED BY <1>2, <1>7, <1>8, <3>2 DEF At
  <2>2. /\ Len(j.sent) <= Len(j.cmd.out)
        /\ Seen(j.sent) = [i \in 1..Len(j.sent) |-> Displayed(r, j.cmd)[i]]
    BY <1>6, <1>7, <1>9, <2>1, SentSeen
  <2> QED BY <1>7, <1>9, <2>2
<1>11. CallOf(j) = [CallOf(job[r]) EXCEPT !.output = Seen(sent)]
  <2>1. CallOf(j) = [state |-> StateOf(job[r].pc), cmd |-> job[r].cmd, left |-> job[r].gone,
                     output |-> Seen(sent), result |-> None]
    BY <1>2, <1>7, Zenon DEF CallOf, At
  <2>2. CallOf(job[r]) = [state |-> StateOf(job[r].pc), cmd |-> job[r].cmd, left |-> job[r].gone,
                          output |-> Seen(job[r].sent), result |-> None]
    BY <1>2, Zenon DEF CallOf, At
  <2> DEFINE now == CallOf(job[r])
             then == CallOf(j)
             seen == Seen(sent)
             before == Seen(job[r].sent)
  <2>3. /\ now = [state |-> StateOf(job[r].pc), cmd |-> job[r].cmd, left |-> job[r].gone,
                  output |-> before, result |-> None]
        /\ then = [state |-> StateOf(job[r].pc), cmd |-> job[r].cmd, left |-> job[r].gone,
                   output |-> seen, result |-> None]
    BY <2>1, <2>2
  <2> HIDE DEF now, then, seen, before
  <2>4. then = [now EXCEPT !.output = seen]
    BY <2>3
  <2> QED BY <2>4 DEF now, then, seen
<1>12. callOf' = [callOf EXCEPT ![r] = [callOf[r] EXCEPT !.output = prefix(Len(sent))]]
  BY <1>8, <1>10, <1>11, CallIs
<1>13. CASE Len(sent) = Len(job[r].sent)
  <2>1. Seen(sent) = Seen(job[r].sent)
    BY <1>9, <1>10, <1>13
  <2>2. CallOf(j) = CallOf(job[r])
    BY <1>2, <1>7, <2>1, Zenon DEF CallOf, At
  <2>3. UNCHANGED callOf
    BY <1>5, <2>2, CallSame DEF OutInv
  <2> QED BY <1>2, <2>3 DEF Seems, Abstract!session
<1>14. CASE Len(sent) # Len(job[r].sent)
  <2>1. Len(sent) \in DOMAIN own
    BY <1>6, <1>9, <1>10, <1>14
  <2>2. Len(sent) \notin DOMAIN callOf[r].output
    BY <1>6, <1>9, <1>14, CallIs
  <2>3. callOf[r].state = "served"
    BY <1>2, CallIs DEF At, StateOf
  <2>4. Abstract!Put(r)
    BY <1>2, <1>12, <2>1, <2>2, <2>3 DEF Abstract!Put, Abstract!Becomes, Abstract!Is, own
  <2> QED BY <2>4 DEF Seems, Abstract!SessionNext
<1> QED BY <1>13, <1>14

LEMMA AnswerSeen ==
  ASSUME OutInv, Blamed, ResultInv, NEW r \in Req, AwaitErr(r) PROVE Seems
<1>1. At(r, "await") /\ errDone /\ UNCHANGED listed /\ job[r] \in Jobs /\ TypeInv
  BY DEF AwaitErr, OutInv, TypeInv, JobsTyped
<1>2. CASE job[r].cut
  <2>1. Goto(r, "failed") /\ job[r].gone
    BY <1>2 DEF AwaitErr, Blamed
  <2>2. Abstract!Fail(r)
    BY <1>1, <2>1, FailSeen DEF At, Held
  <2> QED BY <2>2 DEF Seems, Abstract!SessionNext
<1>3. CASE ~job[r].cut
  <2> DEFINE j == [job[r] EXCEPT !.pc = "answered", !.err = errBuf]
             result == [status |-> job[r].status, err |-> Seen(errBuf)]
  <2>1. Becomes(r, j)
    BY <1>3 DEF AwaitErr
  <2>2. /\ j.pc = "answered" /\ j.cmd = job[r].cmd /\ j.gone = job[r].gone /\ j.sent = job[r].sent
        /\ j.status = job[r].status /\ j.err = errBuf
    BY <1>1 DEF Jobs
  <2> HIDE DEF j
  <2>3. CallOf(j) = [CallOf(job[r]) EXCEPT !.state = "answered", !.result = result]
    <3>1. CallOf(j) = [state |-> "answered", cmd |-> job[r].cmd, left |-> job[r].gone,
                       output |-> Seen(job[r].sent), result |-> result]
      <4>1. StateOf("answered") = "answered"
        BY DEF StateOf
      <4> QED BY <2>2, <4>1, Zenon DEF CallOf
    <3>2. CallOf(job[r]) = [state |-> StateOf(job[r].pc), cmd |-> job[r].cmd, left |-> job[r].gone,
                            output |-> Seen(job[r].sent), result |-> None]
      BY <1>1, Zenon DEF CallOf, At
    <3> DEFINE now == CallOf(job[r])
               then == CallOf(j)
               seen == Seen(job[r].sent)
               mid == [now EXCEPT !.state = "answered"]
    <3>3. /\ now = [state |-> StateOf(job[r].pc), cmd |-> job[r].cmd, left |-> job[r].gone,
                    output |-> seen, result |-> None]
          /\ then = [state |-> "answered", cmd |-> job[r].cmd, left |-> job[r].gone,
                     output |-> seen, result |-> result]
      BY <3>1, <3>2
    <3> HIDE DEF now, then, seen, result
    <3>4. mid = [state |-> "answered", cmd |-> job[r].cmd, left |-> job[r].gone,
                 output |-> seen, result |-> None]
      BY <3>3
    <3> HIDE DEF mid
    <3>5. then = [mid EXCEPT !.result = result]
      BY <3>3, <3>4
    <3> QED BY <3>5 DEF now, then, mid
  <2>4. callOf' = [callOf EXCEPT ![r] = [callOf[r] EXCEPT !.state = "answered", !.result = result]]
    <3>1. callOf' = [callOf EXCEPT ![r] = CallOf(j)] /\ callOf[r] = CallOf(job[r])
      BY <1>1, <2>1, CallsMove, CallIs
    <3> HIDE DEF result
    <3> QED BY <2>3, <3>1, Zenon
  <2>5. callOf'[r].result = result
    <3>1. callOf'[r] = CallOf(j)
      BY <1>1, <2>1, CallsMove DEF callOf
    <3>2. CallOf(j).result = [status |-> j.status, err |-> Seen(j.err)]
      BY <2>2, Zenon DEF CallOf
    <3> QED BY <2>2, <3>1, <3>2
  <2>6. callOf[r].state = "served"
    BY <1>1, CallIs DEF At, StateOf
  <2>7. callOf[r].output = Abstract!Output(r)
    <3>1. /\ Abstract!Output(r) = Displayed(r, job[r].cmd)
          /\ job[r].sent \in Seq(Lines) /\ job[r].cmd \in Command /\ Begins(r, job[r])
      BY <1>1, OutputSeen DEF At
    <3>2. Len(job[r].sent) = Len(job[r].cmd.out)
      BY <1>1, <1>3 DEF OutInv, Owns, At
    <3> DEFINE own == Displayed(r, job[r].cmd)
    <3>3. /\ DOMAIN own = 1..Len(job[r].sent)
          /\ Seen(job[r].sent) = [i \in 1..Len(job[r].sent) |-> own[i]]
      BY <3>1, <3>2, SentSeen
    <3>4. own = [i \in DOMAIN own |-> own[i]]
      BY DEF Displayed
    <3> HIDE DEF own
    <3>5. Seen(job[r].sent) = own
      BY <3>3, <3>4
    <3> QED BY <3>1, <3>5, CallIs DEF own
  <2>8. ~Abstract!Tried("reads") => result = Abstract!Result(r)
    <3> SUFFICES ASSUME ~Tried("reads") PROVE result = Abstract!Result(r)
      BY <1>1, TriedSeen
    <3>1. Results(r)
      BY DEF ResultInv
    <3>2. job[r].status = r /\ errBuf = ErrText(r)
      BY <1>1, <3>1 DEF Results, Done, Ran, Awaits
    <3>3. Seen(ErrText(r)) = IF job[r].cmd.err THEN <<Abstract!Line(r, "text")>> ELSE <<>>
      <4>1. CASE job[r].cmd.err
        <5> DEFINE l == Line(r, "text")
        <5>1. l.of = r /\ l.is = "text"
          BY DEF Line
        <5>2. ErrText(r) = <<l>>
          BY <4>1 DEF ErrText
        <5> HIDE DEF l
        <5>3. Seen(<<l>>) = <<[of |-> r, is |-> "text"]>>
          BY <5>1 DEF Seen
        <5> QED BY <4>1, <5>2, <5>3 DEF Abstract!Line
      <4>2. CASE ~job[r].cmd.err
        BY <4>2 DEF ErrText, Seen
      <4> QED BY <4>1, <4>2
    <3> QED BY <3>2, <3>3, CallIs DEF Abstract!Result
  <2>9. Abstract!Answer(r)
    <3> HIDE DEF result
    <3> QED BY <1>1, <2>4, <2>5, <2>6, <2>7, <2>8
            DEF Abstract!Answer, Abstract!Becomes, Abstract!Is
  <2> QED BY <2>9 DEF Seems, Abstract!SessionNext
<1> QED BY <1>2, <1>3

LEMMA EndingSeen ==
  ASSUME TypeInv, NEW d \in Closer, Ending(d) PROVE Seems
<1>1. UNCHANGED callOf
  BY CallsSame DEF Ending, Delete, Close, Wait
<1>2. CASE Delete(d)
  BY <1>1, <1>2 DEF Delete, Seems, Abstract!SessionNext, Abstract!Delete
<1>3. CASE Close(d) \/ Wait(d)
  BY <1>1, <1>3 DEF Close, Wait, Seems, Abstract!session
<1> QED BY <1>2, <1>3 DEF Ending

LEMMA StepSeen ==
  ASSUME OutInv, Traced, Mended, ResultInv, Blamed, [Next]_vars PROVE Seems
<1>0. TypeInv
  BY DEF OutInv
<1>1. ASSUME NEW r \in Req, Step(r) PROVE Seems
  BY <1>0, <1>1, ArrivalSeen, FailuresSeen, MarkerSeen, PassSeen, AnswerSeen
     DEF Step, ExecuteStream
<1>2. CASE \E d \in Closer : Ending(d)
  BY <1>0, <1>2, EndingSeen
<1>3. CASE ReadErr \/ BashRun \/ BashMark \/ BashExit \/ UNCHANGED vars
  <2>1. UNCHANGED <<job, listed>>
    BY <1>3 DEF ReadErr, BashRun, BashMark, BashExit, vars
  <2> QED BY <2>1, CallsSame DEF Seems, Abstract!session
<1> QED BY <1>1, <1>2, <1>3, NextIsOneOf

LEMMA InitSeen ==
  ASSUME Init PROVE Blamed /\ Abstract!SessionInit
<1>1. Blamed
  BY DEF Init, NewBashShell, NoJob, Blamed
<1>2. CallOf(NoJob) = Abstract!NoCall
  <2>1. StateOf("new") = "none" /\ Seen(<<>>) = <<>>
    BY DEF StateOf, Seen
  <2> QED BY <2>1 DEF NoJob, CallOf, Abstract!NoCall
<1>3. callOf = [r \in Req |-> CallOf(NoJob)]
  BY DEF Init, callOf
<1> QED BY <1>1, <1>2, <1>3 DEF Init, Abstract!SessionInit

\* ImplementsSession: whatever becomes of the lock, the pipes, the markers and bash, a client
\* sees a session that serves commands one at a time, sends each its own output, and gives
\* one up only if its client has left or the session has been deleted or harmed.
THEOREM ShellImplementsSession == Spec => ImplementsSession
<1> DEFINE Inv == OutInv /\ Traced /\ Mended /\ ResultInv /\ Blamed
<1>1. Init => Inv /\ Abstract!SessionInit
  BY InitOwns, InitMended, InitResult, InitSeen
<1>2. Inv /\ [Next]_vars => Inv'
  BY OutputKept, TracedKept, MendedKept, ResultKept, BlamedKept DEF OutInv
<1>3. Inv /\ [Next]_vars => [Abstract!SessionNext]_(Abstract!session)
  BY StepSeen DEF Seems
<1> QED BY <1>1, <1>2, <1>3, PTL DEF Spec, ImplementsSession, Abstract!SessionSpec

=============================================================================

------------------------------ MODULE MCShell ------------------------------
(* An instance of Shell for TLC. *)
EXTENDS Shell

Cmd(out, open, err, does) == [out |-> out, open |-> open, err |-> err, does |-> does]

\* Empty lines at both ends, a line without a newline, and one command of
\* each kind that harms the session.
Commands ==
  {Cmd(<<"empty", "text", "empty">>, FALSE, TRUE, "returns"),
   Cmd(<<"empty", "text">>, TRUE, FALSE, "returns"),
   Cmd(<<"text">>, FALSE, TRUE, "reads"),
   Cmd(<<>>, FALSE, TRUE, "mutes"),
   Cmd(<<>>, FALSE, FALSE, "floods"),
   Cmd(<<"text">>, TRUE, FALSE, "exits")}

=============================================================================

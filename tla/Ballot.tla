------------------------------- MODULE Ballot -------------------------------
(***************************************************************************)
(* What a poll promises, without messages, Lambdas or replicas: it is      *)
(* opened with one of the offers, and then votes are cast, withdrawn and   *)
(* changed one at a time, each within the options and the limit of that    *)
(* moment, and the tally follows.                                          *)
(***************************************************************************)
EXTENDS Integers, FiniteSets

CONSTANTS
  Visitor, Choice,
  Offer,    \* [options, max]
  Limited,  \* whether the limit of an offer is kept
  Lapses,   \* whether what is stored is removed in the end
  None      \* the poll is not open

VARIABLES
  poll,   \* the offer it was opened with, or None
  tally,  \* Choice -> the number beside the option
  votes   \* a set of <<visitor, choice>>

ballot == <<poll, tally, votes>>

Nought == [c \in Choice |-> 0]

Chosen(v) == {c \in Choice : <<v, c>> \in votes}

BallotInit == poll = None /\ tally = Nought /\ votes = {}

Open(o) ==
  /\ poll = None
  /\ poll' = o
  /\ UNCHANGED <<tally, votes>>

Cast(v, c) ==
  /\ poll # None
  /\ c \in poll.options \ Chosen(v)
  /\ Limited => Cardinality(Chosen(v)) < poll.max
  /\ votes' = votes \cup {<<v, c>>}
  /\ tally' = [tally EXCEPT ![c] = @ + 1]
  /\ UNCHANGED poll

Withdraw(v, c) ==
  /\ poll # None
  /\ c \in Chosen(v)
  /\ votes' = votes \ {<<v, c>>}
  /\ tally' = [tally EXCEPT ![c] = @ - 1]
  /\ UNCHANGED poll

Change(v, c, d) ==
  /\ poll # None
  /\ c \in Chosen(v)
  /\ d \in poll.options \ Chosen(v)
  /\ votes' = (votes \ {<<v, c>>}) \cup {<<v, d>>}
  /\ tally' = [tally EXCEPT ![c] = @ - 1, ![d] = @ + 1]
  /\ UNCHANGED poll

\* The poll goes with its tally, and each vote on its own.
Lapse ==
  /\ Lapses
  /\ \/ poll' = None /\ tally' = Nought /\ UNCHANGED votes
     \/ \E r \in votes : votes' = votes \ {r} /\ UNCHANGED <<poll, tally>>

\* A step changes something, which TLC looks at first.
BallotNext ==
  /\ ballot' # ballot
  /\ \/ \E o \in Offer : Open(o)
     \/ \E v \in Visitor, c \in Choice :
          \/ Cast(v, c) \/ Withdraw(v, c)
          \/ \E d \in Choice : Change(v, c, d)
     \/ Lapse

BallotSpec == BallotInit /\ [][BallotNext]_ballot
=============================================================================

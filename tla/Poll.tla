-------------------------------- MODULE Poll --------------------------------
(***************************************************************************)
(* One poll of the presenter: the META record with the counters and one    *)
(* record per vote in the DynamoDB table poll_votes                        *)
(* (presenter/internal/poll), and the Lambda invocations that open it,     *)
(* read it and vote in it (presenter/cmd/message).  Polls share nothing,   *)
(* so one is enough.  A visitor is a WebSocket connection.                 *)
(*                                                                         *)
(* One step is one call to DynamoDB.  TransactWriteItems is atomic and the *)
(* SDK repeats it under the same ClientRequestToken; GetItem and Query are *)
(* not asked to be consistent, so they may answer from a replica that      *)
(* lags.                                                                   *)
(***************************************************************************)
EXTENDS Integers, FiniteSets

CONSTANTS
  Visitor,     \* connections that stay open
  Presenter,   \* those whose connection record has the role presenter
  Choice,      \* names of options that a client can send
  Offer,       \* [options, max] that a presenter's client can send
  Proc,        \* Lambda invocations at the same time
  Faults,      \* what a run allows to happen
  None         \* an attribute or a record that is absent

AllFaults == {"overlap",   \* a visitor sends a message before the last is answered
              "stale",     \* replicas lag behind the table
              "abort",     \* a call fails (a TransactionConflict, a timeout): 500
              "expire"}    \* the TTL removes records

\* The META record: metaRecord of get.go.  An option that is not in the map of the
\* counters is one whose counter is 0.
Tally == [Choice -> Int]
Meta == [options : SUBSET Choice, max : Nat, votes : Tally]

ASSUME ConstantsAssumption ==
  /\ IsFiniteSet(Visitor) /\ Presenter \subseteq Visitor
  /\ IsFiniteSet(Choice)
  /\ Offer \subseteq [options : SUBSET Choice, max : Nat]
  /\ Faults \subseteq AllFaults
  /\ None \notin Visitor \cup Choice \cup Offer /\ None \notin Meta

VARIABLES
  meta,         \* the META record or None
  records,      \* the vote records, as <<visitor, choice>>
  metaSeen,     \* the META record as a lagging replica shows it
  recordsSeen,  \* the vote records as a lagging replica shows them
  job           \* Proc -> the message that a Lambda handles

vars == <<meta, records, metaSeen, recordsSeen, job>>
table == <<meta, records>>
seen == <<metaSeen, recordsSeen>>

-----------------------------------------------------------------------------
(* Records and messages                                                    *)

Zero == [c \in Choice |-> 0]

\* The sort keys that begin with "<visitor>#".
ChoicesOf(v, rs) == {c \in Choice : <<v, c>> \in rs}

PC == {"idle", "putMeta", "readMeta", "readMine", "send",      \* Get and its answer
       "voteMeta", "voteMine", "vote",                         \* Vote
       "unvote",                                               \* Unvote
       "switchMeta", "switch"}                                 \* Switch

\* max and votes are what getMeta has returned, mine what getMyChoices has.
Job == [pc       : PC,
        who      : Visitor \cup {None},
        choice   : Choice \cup {None},     \* choice, and from of poll_switch
        to       : Choice \cup {None},
        offer    : Offer \cup {None},
        max      : Nat,
        votes    : Tally,
        mine     : SUBSET Choice,
        audience : {"room", "sender"}]     \* who the answer goes to

NoJob == [pc |-> "idle", who |-> None, choice |-> None, to |-> None, offer |-> None,
          max |-> 0, votes |-> Zero, mine |-> {}, audience |-> "sender"]

At(p, pc) == job[p].pc = pc

Becomes(p, j) == job' = [job EXCEPT ![p] = j]

\* The handler returns; with status 500 nothing is sent to anybody.
End(p) == Becomes(p, NoJob)

\* poll_state to the room after a change, poll_error to the sender otherwise: both
\* carry the state that is read now.
Refresh(p, audience) == Becomes(p, [job[p] EXCEPT !.pc = "readMeta", !.audience = audience])

\* A message of visitor v arrives.  Bound of the model without "overlap": one at a
\* time of each visitor.
Start(p, v, j) ==
  /\ At(p, "idle")
  /\ "overlap" \in Faults \/ \A q \in Proc : job[q].who # v
  /\ Becomes(p, j)
  /\ UNCHANGED <<table, seen>>

-----------------------------------------------------------------------------
(* The messages.  A message that is refused before any call changes        *)
(* nothing and is left out.                                                *)

HandlePollOpen(p) ==
  \E v \in Presenter, o \in Offer :
    /\ o.options # {} /\ o.max # 0
    /\ Start(p, v, [NoJob EXCEPT !.pc = "putMeta", !.who = v, !.offer = o,
                                 !.audience = "room"])

\* Only a presenter who names options initialises the poll.
HandlePollGet(p) ==
  \/ \E v \in Visitor : Start(p, v, [NoJob EXCEPT !.pc = "readMeta", !.who = v])
  \/ \E v \in Presenter, o \in Offer :
       Start(p, v, [NoJob EXCEPT !.pc = "putMeta", !.who = v, !.offer = o])

HandlePollVote(p) ==
  \E v \in Visitor, c \in Choice :
    Start(p, v, [NoJob EXCEPT !.pc = "voteMeta", !.who = v, !.choice = c])

HandlePollUnvote(p) ==
  \E v \in Visitor, c \in Choice :
    Start(p, v, [NoJob EXCEPT !.pc = "unvote", !.who = v, !.choice = c])

HandlePollSwitch(p) ==
  \E v \in Visitor, c, d \in Choice :
    /\ c # d
    /\ Start(p, v, [NoJob EXCEPT !.pc = "switchMeta", !.who = v, !.choice = c, !.to = d])

-----------------------------------------------------------------------------
(* The reads                                                               *)

MetaReads == {meta} \cup (IF "stale" \in Faults THEN {metaSeen} ELSE {})
RecordReads == {records} \cup (IF "stale" \in Faults THEN {recordsSeen} ELSE {})

(***************************************************************************)
(* Get: the conditional Put of the META record, then the state in two      *)
(* calls.  Without a META record nothing is read on.                       *)
(***************************************************************************)
PutMeta(p) ==
  /\ At(p, "putMeta")
  /\ meta' = IF meta = None
               THEN [options |-> job[p].offer.options, max |-> job[p].offer.max, votes |-> Zero]
               ELSE meta
  /\ Becomes(p, [job[p] EXCEPT !.pc = "readMeta"])
  /\ UNCHANGED <<records, seen>>

ReadMeta(p) ==
  /\ At(p, "readMeta")
  /\ \E m \in MetaReads :
       IF m = None THEN End(p)
       ELSE Becomes(p, [job[p] EXCEPT !.pc = "readMine", !.max = m.max, !.votes = m.votes])
  /\ UNCHANGED <<table, seen>>

ReadMine(p) ==
  /\ At(p, "readMine")
  /\ \E rs \in RecordReads :
       Becomes(p, [job[p] EXCEPT !.pc = "send", !.mine = ChoicesOf(job[p].who, rs)])
  /\ UNCHANGED <<table, seen>>

\* The state goes out to the audience.
Send(p) ==
  /\ At(p, "send")
  /\ End(p)
  /\ UNCHANGED <<table, seen>>

-----------------------------------------------------------------------------
(* Vote                                                                    *)

\* getMeta, and the check that the choice is one of the options.
VoteMeta(p) ==
  /\ At(p, "voteMeta")
  /\ \E m \in MetaReads :
       IF m = None THEN End(p)
       ELSE IF job[p].choice \notin m.options THEN Refresh(p, "sender")
       ELSE Becomes(p, [job[p] EXCEPT !.pc = "voteMine", !.max = m.max])
  /\ UNCHANGED <<table, seen>>

\* The limit compared with > instead of >=.
VoteMineOneTooMany(p) ==
  /\ At(p, "voteMine")
  /\ \E rs \in RecordReads :
       IF Cardinality(ChoicesOf(job[p].who, rs)) > job[p].max THEN Refresh(p, "sender")
       ELSE Becomes(p, [job[p] EXCEPT !.pc = "vote"])
  /\ UNCHANGED <<table, seen>>

\* getMyChoices, and the check of maxChoices.
VoteMine(p) ==
  /\ At(p, "voteMine")
  /\ \E rs \in RecordReads :
       IF Cardinality(ChoicesOf(job[p].who, rs)) >= job[p].max THEN Refresh(p, "sender")
       ELSE Becomes(p, [job[p] EXCEPT !.pc = "vote"])
  /\ UNCHANGED <<table, seen>>

\* if_not_exists(votes.#choice, :zero) + :one, or - :one
Plus(t, c, n) == [t EXCEPT ![c] = @ + n]

Count(c, n) == meta' = [meta EXCEPT !.votes = Plus(meta.votes, c, n)]
Move(c, d) == meta' = [meta EXCEPT !.votes = Plus(Plus(meta.votes, c, -1), d, 1)]

\* The Put without attribute_not_exists.
VoteAgain(p) ==
  /\ At(p, "vote")
  /\ IF meta = None THEN End(p) /\ UNCHANGED table
     ELSE /\ records' = records \cup {<<job[p].who, job[p].choice>>}
          /\ Count(job[p].choice, 1)
          /\ Refresh(p, "room")
  /\ UNCHANGED seen

\* The transaction: Put under attribute_not_exists, Update of the counter.  An
\* Update of a META record that is not there fails the whole with a 500.
Vote(p) ==
  LET vote == <<job[p].who, job[p].choice>> IN
  /\ At(p, "vote")
  /\ \/ vote \in records /\ Refresh(p, "sender") /\ UNCHANGED table
     \/ vote \notin records /\ meta = None /\ End(p) /\ UNCHANGED table
     \/ /\ vote \notin records /\ meta # None
        /\ records' = records \cup {vote}
        /\ Count(job[p].choice, 1)
        /\ Refresh(p, "room")
  /\ UNCHANGED seen

-----------------------------------------------------------------------------
(* Unvote and Switch                                                       *)

Unvote(p) ==
  LET vote == <<job[p].who, job[p].choice>> IN
  /\ At(p, "unvote")
  /\ \/ vote \notin records /\ Refresh(p, "sender") /\ UNCHANGED table
     \/ vote \in records /\ meta = None /\ End(p) /\ UNCHANGED table
     \/ /\ vote \in records /\ meta # None
        /\ records' = records \ {vote}
        /\ Count(job[p].choice, -1)
        /\ Refresh(p, "room")
  /\ UNCHANGED seen

\* Only the choice that is given up is checked.
SwitchMetaFromOnly(p) ==
  /\ At(p, "switchMeta")
  /\ \E m \in MetaReads :
       IF m = None THEN End(p)
       ELSE IF job[p].choice \in m.options THEN Becomes(p, [job[p] EXCEPT !.pc = "switch"])
       ELSE Refresh(p, "sender")
  /\ UNCHANGED <<table, seen>>

\* getMeta, and the check that both choices are options.
SwitchMeta(p) ==
  /\ At(p, "switchMeta")
  /\ \E m \in MetaReads :
       IF m = None THEN End(p)
       ELSE IF {job[p].choice, job[p].to} \subseteq m.options
         THEN Becomes(p, [job[p] EXCEPT !.pc = "switch"])
       ELSE Refresh(p, "sender")
  /\ UNCHANGED <<table, seen>>

\* The transaction without attribute_exists on the vote that is given up.
SwitchFromNothing(p) ==
  LET from == <<job[p].who, job[p].choice>>
      to == <<job[p].who, job[p].to>> IN
  /\ At(p, "switch")
  /\ IF to \in records \/ meta = None THEN Refresh(p, "sender") /\ UNCHANGED table
     ELSE /\ records' = (records \ {from}) \cup {to}
          /\ Move(job[p].choice, job[p].to)
          /\ Refresh(p, "room")
  /\ UNCHANGED seen

Switch(p) ==
  LET from == <<job[p].who, job[p].choice>>
      to == <<job[p].who, job[p].to>> IN
  /\ At(p, "switch")
  /\ \/ (from \notin records \/ to \in records) /\ Refresh(p, "sender") /\ UNCHANGED table
     \/ from \in records /\ to \notin records /\ meta = None /\ End(p) /\ UNCHANGED table
     \/ /\ from \in records /\ to \notin records /\ meta # None
        /\ records' = (records \ {from}) \cup {to}
        /\ Move(job[p].choice, job[p].to)
        /\ Refresh(p, "room")
  /\ UNCHANGED seen

-----------------------------------------------------------------------------
(* The table behind the calls                                              *)

\* A call fails before it has changed anything; a call that fails afterwards is the
\* call followed by this.
Abort(p) ==
  /\ "abort" \in Faults
  /\ ~At(p, "idle")
  /\ End(p)
  /\ UNCHANGED <<table, seen>>

CatchUp ==
  /\ "stale" \in Faults
  /\ \/ metaSeen' = meta /\ UNCHANGED recordsSeen
     \/ /\ \E r \in (records \ recordsSeen) \cup (recordsSeen \ records) :
             recordsSeen' = IF r \in records THEN recordsSeen \cup {r} ELSE recordsSeen \ {r}
        /\ UNCHANGED metaSeen
  /\ UNCHANGED table

\* The TTL of the META record runs from the opening of the poll, that of a vote
\* record from the vote, and neither is ever renewed.
Expire ==
  /\ "expire" \in Faults
  /\ \/ meta' = None /\ UNCHANGED records
     \/ \E r \in records : records' = records \ {r} /\ UNCHANGED meta
  /\ UNCHANGED seen

\* The replicas and the TTL go on whatever the Lambdas do.
Background == (CatchUp \/ Expire) /\ UNCHANGED job

-----------------------------------------------------------------------------

Init ==
  /\ meta = None /\ metaSeen = None
  /\ records = {} /\ recordsSeen = {}
  /\ job = [p \in Proc |-> NoJob]

Handle(p) ==
  \/ HandlePollOpen(p) \/ HandlePollGet(p) \/ HandlePollVote(p)
  \/ HandlePollUnvote(p) \/ HandlePollSwitch(p)

Call(p) ==
  \/ PutMeta(p) \/ ReadMeta(p) \/ ReadMine(p) \/ Send(p)
  \/ VoteMeta(p) \/ VoteMine(p) \/ Vote(p)
  \/ Unvote(p) \/ SwitchMeta(p) \/ Switch(p)

Next == (\E p \in Proc : Handle(p) \/ Call(p) \/ Abort(p)) \/ Background

Spec == Init /\ [][Next]_vars

-----------------------------------------------------------------------------
(* Properties                                                              *)

\* Every variable has its type.
TypeOK ==
  /\ meta \in Meta \cup {None} /\ metaSeen \in Meta \cup {None}
  /\ records \subseteq Visitor \X Choice /\ recordsSeen \subseteq Visitor \X Choice
  /\ job \in [Proc -> Job]

VotersFor(c) == {v \in Visitor : <<v, c>> \in records}

\* The counters that the room is shown are those of the vote records: no interleaving
\* of votes, withdrawals and changes, double message or stale check counts a vote
\* twice or loses one (Vote, Unvote and Switch keep record and counter together).
CountersMatchRecords ==
  meta # None => \A c \in Choice : meta.votes[c] = Cardinality(VotersFor(c))

\* Vote refuses what would exceed maxChoices (vote.go:13), and no other message gets
\* a visitor more choices than the poll allows.
WithinMaxChoices ==
  meta # None => \A v \in Visitor : Cardinality(ChoicesOf(v, records)) <= meta.max

\* The poll implements Ballot: what a message checks in calls of its own is still true
\* when its transaction makes the change, and whatever else is under way that change is
\* one vote cast, withdrawn or changed.
pollOf  == IF meta = None THEN None ELSE [options |-> meta.options, max |-> meta.max]
tallyOf == IF meta = None THEN Zero ELSE meta.votes
Votes   == INSTANCE Ballot WITH poll <- pollOf, tally <- tallyOf, votes <- records,
                                Limited <- Faults \cap {"overlap", "stale"} = {},
                                Lapses <- "expire" \in Faults

ImplementsBallot == Votes!BallotSpec

\* Vote and Switch record only options of the poll, Unvote needs no check: a counter
\* that no bar shows would still count in the total of the front end.
VotesAreForOptions ==
  meta # None => \A r \in records : r[2] \in meta.options
=============================================================================

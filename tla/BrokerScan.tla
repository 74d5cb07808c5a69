----------------------------- MODULE BrokerScan -----------------------------
(***************************************************************************)
(* Broker with a history variable that remembers, for every scan for an    *)
(* idle runner, the runners the scan could have had all along: idle in the *)
(* table and, from its first query on, listed in idle-index under a bucket *)
(* whose entries fit the one page that a query returns (idleQueryLimit).   *)
(***************************************************************************)
EXTENDS Broker

VARIABLE steady  \* Proc -> runners available ever since the scan began

scanVars == <<vars, steady>>

Scanning(pc) == pc \in {"query", "assign", "check", "delete"}

\* No query is continued beyond its first page.
FitsPage(b) == Cardinality(Listed(b)) <= QueryLimit

Available ==
  {r \in Runner : IsIdle(r) /\ idleIndex[r] = table[r].bucket /\ FitsPage(idleIndex[r])}

ScanInit == Init /\ steady = [p \in Proc |-> {}]

ScanNext ==
  /\ Next
  /\ steady' = [p \in Proc |->
       CASE ~Scanning(req'[p].pc) -> {}
         [] Scanning(req'[p].pc) /\ Scanning(req[p].pc) -> steady[p] \cap Available'
         [] OTHER -> Available']

ScanSpec == ScanInit /\ [][ScanNext]_scanVars

\* 503 is an honest answer: when a scan gives up, no runner was idle and listed from
\* its beginning to its end, whichever bucket it started with and whatever other
\* requests took from it meanwhile (createSession, AcquireIdle); but for a runner whose
\* bucket had more entries, stale ones among them, than a query returns (dynamo.go:89).
NoFalseExhaustion ==
  [][\A p \in Proc : NoIdleRunner(p) => steady[p] = {}]_scanVars
=============================================================================

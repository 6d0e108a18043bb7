------------------------------ MODULE Headers ------------------------------
(***************************************************************************)
(* get_or_create_header statement by statement.                            *)
(*                                                                         *)
(* The function runs in a transaction of its own, READ COMMITTED: each of  *)
(* its three lookups sees what is committed when it runs, so calls from    *)
(* other sessions may commit between them, and before the DELETE and the   *)
(* INSERT that act on what was read.  A row that a call deletes is locked  *)
(* until the call ends, and is there again when the call fails.            *)
(***************************************************************************)
EXTENDS Tables, FiniteSets, Naturals

CONSTANTS
  Callers,   \* database sessions of header sync processes
  Nodes,     \* public.eth_nodes
  Blocks,    \* block hashes
  Number,    \* block hash -> block number
  Window,    \* depth at which a header is final
  MaxCalls,  \* bound on calls
  MaxFaults  \* bound on crashes and database errors

ASSUME ChainAssumption == Number \in [Blocks -> Nat] /\ Window \in Nat
ASSUME BoundsAssumption == MaxCalls \in Nat /\ MaxFaults \in Nat

VARIABLES
  headers,    \* public.headers as committed: id -> [block, node]
  nextHeader,
  call,       \* caller -> the call it is in
  calls,
  faults

vars == <<headers, nextHeader, call, calls, faults>>

Ids  == Nat \ {0}
Null == 0

NumberOf(h) == Number[headers[h].block]

\* MAX(block_number), which is no number when there are no headers.
Highest == {n \in {NumberOf(h) : h \in DOMAIN headers} :
              \A h \in DOMAIN headers : NumberOf(h) <= n}

\* The headers that are final as the table is now.
Final == {h \in DOMAIN headers : \E n \in Highest : NumberOf(h) + Window <= n}

-----------------------------------------------------------------------------
(* A call.  pc names the statement that comes next, final is no part of    *)
(* the function: it holds what was final when the call came in.            *)

CallOf(pc, b, n, final) ==
  [pc |-> pc, block |-> b, node |-> n, matching |-> Null, other |-> Null,
   highest |-> {}, removed |-> {}, final |-> final]

IdleCall == CallOf("idle", Null, Null, {})

NewCall(b, n) == CallOf("matching", b, n, Final)

\* Mutant: what was deleted stays deleted.
Failed_NoRollback(k) == [k EXCEPT !.pc = "failed"]

\* The transaction is rolled back, the caller still wants its header.
Failed(k) == CallOf("failed", k.block, k.node, {})

Set(p, k) == call' = [call EXCEPT ![p] = k]

Ask(p) ==
  /\ call[p].pc = "idle"
  /\ calls < MaxCalls
  /\ calls' = calls + 1
  /\ \E b \in Blocks, n \in Nodes : Set(p, NewCall(b, n))
  /\ UNCHANGED <<headers, nextHeader, faults>>

\* The next pass of header sync, or of its restarted process.
Retry(p) ==
  /\ call[p].pc = "failed"
  /\ Set(p, NewCall(call[p].block, call[p].node))
  /\ UNCHANGED <<headers, nextHeader, calls, faults>>

\* Mutant: the lookups compare eth_node_id.
Rivals_OfNode(p) == {h \in DOMAIN headers : /\ NumberOf(h) = Number[call[p].block]
                                            /\ headers[h].node = call[p].node}

\* The committed headers of the number asked for, whichever node they are from.
Rivals(p) == {h \in DOMAIN headers : NumberOf(h) = Number[call[p].block]}

\* A scalar subquery: NULL for no row, an error for more than one.
Scalar(found) == IF found = {} THEN Null ELSE CHOOSE h \in found : TRUE

ReadMatching(p) ==
  LET found == {h \in Rivals(p) : headers[h].block = call[p].block} IN
  /\ call[p].pc = "matching"
  /\ Set(p, IF Cardinality(found) > 1
            THEN Failed(call[p])
            ELSE [call[p] EXCEPT !.matching = Scalar(found), !.pc = "other"])
  /\ UNCHANGED <<headers, nextHeader, calls, faults>>

ReadOther(p) ==
  LET found == {h \in Rivals(p) : headers[h].block # call[p].block} IN
  /\ call[p].pc = "other"
  /\ Set(p, IF Cardinality(found) > 1
            THEN Failed(call[p])
            ELSE [call[p] EXCEPT !.other = Scalar(found), !.pc = "highest"])
  /\ UNCHANGED <<headers, nextHeader, calls, faults>>

ReadHighest(p) ==
  /\ call[p].pc = "highest"
  /\ Set(p, [call[p] EXCEPT !.highest = Highest, !.pc = "decide"])
  /\ UNCHANGED <<headers, nextHeader, calls, faults>>

\* Mutant: off by one.
Deep_OffByOne(k) == \E n \in k.highest : Number[k.block] + Window < n

\* block_number <= max_block_number - Window, with the maximum as it was read.
Deep(k) == \E n \in k.highest : Number[k.block] + Window <= n

\* An id that was found is returned.
Return(p) ==
  /\ call[p].pc = "decide"
  /\ \/ call[p].matching # Null
     \/ call[p].other # Null /\ Deep(call[p])
  /\ Set(p, IdleCall)
  /\ UNCHANGED <<headers, nextHeader, calls, faults>>

\* Deleted by a call that has not ended.
Locked(p, h) == \E q \in Callers \ {p} : h \in call[q].removed

\* Mutant: the DELETE is a transaction of its own.
Remove_Commits(p) ==
  LET k == call[p] IN
  /\ k.pc = "decide"
  /\ k.matching = Null
  /\ k.other # Null /\ k.highest # {} /\ ~ Deep(k)
  /\ headers' = Without(headers, {k.other})
  /\ Set(p, [k EXCEPT !.pc = "insert"])
  /\ UNCHANGED <<nextHeader, calls, faults>>

\* Mutant: the DELETE is forgotten.
Remove_Forgotten(p) ==
  LET k == call[p] IN
  /\ k.pc = "decide"
  /\ k.matching = Null
  /\ k.other # Null /\ k.highest # {} /\ ~ Deep(k)
  /\ Set(p, [k EXCEPT !.pc = "insert"])
  /\ UNCHANGED <<headers, nextHeader, calls, faults>>

\* The other header of this number is deleted, if nobody did so in between; if
\* somebody is about to, the call waits for that one to end.
Remove(p) ==
  LET k == call[p] IN
  /\ k.pc = "decide"
  /\ k.matching = Null
  /\ k.other # Null /\ k.highest # {} /\ ~ Deep(k)
  /\ ~ Locked(p, k.other)
  /\ Set(p, [k EXCEPT !.pc = "insert", !.removed = {k.other} \cap DOMAIN headers])
  /\ UNCHANGED <<headers, nextHeader, calls, faults>>

\* Nothing to return and nothing to delete.
Skip(p) ==
  LET k == call[p] IN
  /\ k.pc = "decide"
  /\ k.matching = Null
  /\ k.other # Null => k.highest = {}
  /\ Set(p, [k EXCEPT !.pc = "insert"])
  /\ UNCHANGED <<headers, nextHeader, calls, faults>>

\* Mutant: UNIQUE (block_number) is missing as well.
Conflicts_Never(p) == {}

\* UNIQUE (block_number, eth_node_id), apart from what the call has deleted.
Conflicts(p) == {h \in Rivals(p) \ call[p].removed : headers[h].node = call[p].node}

\* The INSERT, and with it the end of the transaction.
Insert(p) ==
  /\ call[p].pc = "insert"
  /\ Conflicts(p) = {}
  /\ headers' = With(Without(headers, call[p].removed), nextHeader,
                     [block |-> call[p].block, node |-> call[p].node])
  /\ nextHeader' = nextHeader + 1
  /\ Set(p, IdleCall)
  /\ UNCHANGED <<calls, faults>>

\* A unique violation.  As long as the other row is about to be deleted the
\* call waits.  (The serial advances all the same; the gap is left out.)
Refuse(p) ==
  /\ call[p].pc = "insert"
  /\ \E h \in Conflicts(p) : ~ Locked(p, h)
  /\ Set(p, Failed(call[p]))
  /\ UNCHANGED <<headers, nextHeader, calls, faults>>

\* The process dies or its connection breaks, or the database ends a deadlock.
Fault(p) ==
  /\ call[p].pc \notin {"idle", "failed"}
  /\ faults < MaxFaults
  /\ faults' = faults + 1
  /\ Set(p, Failed(call[p]))
  /\ UNCHANGED <<headers, nextHeader, calls>>

-----------------------------------------------------------------------------
Init ==
  /\ headers = Empty /\ nextHeader = 1
  /\ call = [p \in Callers |-> IdleCall]
  /\ calls = 0 /\ faults = 0

Step(p) ==
  \/ Retry(p)
  \/ ReadMatching(p) \/ ReadOther(p) \/ ReadHighest(p)
  \/ Return(p) \/ Remove(p) \/ Skip(p)
  \/ Insert(p) \/ Refuse(p)

Next == \E p \in Callers : Ask(p) \/ Step(p) \/ Fault(p)

Spec == Init /\ [][Next]_vars

\* A call that was begun is carried on, and header sync asks again for a header
\* it did not get.  Nobody has to ask for a block in the first place.
FairSpec == Spec /\ \A p \in Callers : WF_vars(Step(p))

-----------------------------------------------------------------------------
(* What must hold.                                                         *)

Header == [block : Blocks, node : Nodes]

Statements == {"matching", "other", "highest", "decide", "insert"}

Call == [pc : Statements \cup {"idle", "failed"},
         block : Blocks \cup {Null}, node : Nodes \cup {Null},
         matching : Ids \cup {Null}, other : Ids \cup {Null},
         highest : SUBSET Nat, removed : SUBSET Ids, final : SUBSET Ids]

CallOK(k) ==
  /\ k \in Call
  /\ IF k.pc = "idle" THEN k = IdleCall ELSE k.block \in Blocks /\ k.node \in Nodes
  /\ k.removed # {} => k.pc = "insert" /\ k.removed \subseteq DOMAIN headers

\* Every variable is what its declaration says; only a call that is about to
\* insert holds locks, and only on rows that are there.
TypeOK ==
  /\ PartialFunction(headers, Ids, Header)
  /\ nextHeader \in Ids
  /\ DOMAIN call = Callers
  /\ \A p \in Callers : CallOK(call[p])
  /\ calls \in Nat /\ faults \in Nat

\* With one node, get_or_create_header leaves one header per number, whichever
\* calls ran into each other.
OneHeaderPerHeight ==
  \A g, h \in DOMAIN headers : NumberOf(g) = NumberOf(h) => g = h

\* A number that has a header never loses it: the old one goes when the new one
\* comes, whatever fails in between.
HeightsKept ==
  [][\A h \in DOMAIN headers :
       \E g \in DOMAIN headers' : Number[headers'[g].block] = NumberOf(h)]_vars

\* A header that was final when a call came in is not replaced by it, although
\* the call decides by a maximum that may be out of date.
FinalStays ==
  [][\A h \in DOMAIN headers \ DOMAIN headers' :
       \E p \in Callers : h \in call[p].removed \ call[p].final]_vars

\* A caller gets its header in the end: it waits for no lock, and repeats no
\* call, for ever.
EventuallyAnswered ==
  \A p \in Callers : call[p].pc # "idle" ~> call[p].pc = "idle"

-----------------------------------------------------------------------------
Heights == {NumberOf(h) : h \in DOMAIN headers}

Chain == INSTANCE HeaderChain WITH
  chain <- [n \in Heights |->
              {headers[h].block : h \in {g \in DOMAIN headers : NumberOf(g) = n}}]

\* As long as calls do not overlap the function, seen through its commits, is one
\* atomic step on a chain, whichever nodes the calls are for.
ImplementsChain == Chain!Spec

\* Calls for one node that do overlap still extend the chain by one block or
\* exchange one, but go by a maximum each has read for itself: FinalStays says
\* which heights are safe from them.
OverlapsKeepChain == Chain!OverlappedSpec
=============================================================================

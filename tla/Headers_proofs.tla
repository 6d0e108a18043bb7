--------------------------- MODULE Headers_proofs ---------------------------
(* Safety of get_or_create_header for any number of sessions and nodes. *)
EXTENDS Headers, BasicTheorems, TLAPS

-----------------------------------------------------------------------------
(* The inductive invariant.                                                *)

\* Ids are given out once, and a table that is not empty has a highest header.
TableInv ==
  /\ \A h \in DOMAIN headers : h < nextHeader
  /\ \A h \in DOMAIN headers : \E g \in DOMAIN headers :
       \A f \in DOMAIN headers : NumberOf(f) <= NumberOf(g)

\* A row is locked by one call at most.
LockInv ==
  \A p, q \in Callers : p # q => call[p].removed \cap call[q].removed = {}

\* The other header a call has found has the number it was asked for, if it is
\* still there, and is all the call may delete.
OtherTrue(k) ==
  /\ k.other < nextHeader
  /\ k.other \in DOMAIN headers => NumberOf(k.other) = Number[k.block]
  /\ k.removed \subseteq {k.other}

\* What was final when the call came in still is, by the table until the call
\* has looked at the highest number, by that number afterwards.
FinalTrue(k) ==
  /\ \A h \in k.final : h < nextHeader
  /\ k.removed \cap k.final = {}
  /\ k.pc \in {"matching", "other", "highest"} =>
       \A h \in k.final \cap DOMAIN headers :
         \E g \in DOMAIN headers : NumberOf(h) + Window <= NumberOf(g)
  /\ k.pc \in {"decide", "insert"} =>
       \A h \in k.final \cap DOMAIN headers :
         \E n \in k.highest : NumberOf(h) + Window <= n

CallInv == \A p \in Callers : OtherTrue(call[p]) /\ FinalTrue(call[p])

Inv == TypeOK /\ TableInv /\ LockInv /\ CallInv

\* What every step does to the table, if anything: ids below the next one keep
\* their rows, and heights are not lost.
TableKept ==
  /\ nextHeader \in Nat /\ nextHeader' \in Nat /\ nextHeader <= nextHeader'
  /\ \A h \in DOMAIN headers' :
       h < nextHeader => h \in DOMAIN headers /\ headers'[h] = headers[h]
  /\ \A h \in DOMAIN headers : \E g \in DOMAIN headers' :
       Number[headers'[g].block] = NumberOf(h)

-----------------------------------------------------------------------------
(* The table.                                                              *)

\* A header of the table has a block, a node and a number.
LEMMA HeaderTypes ==
  ASSUME TypeOK, NEW h \in DOMAIN headers
  PROVE  /\ headers[h].block \in Blocks /\ headers[h].node \in Nodes
         /\ NumberOf(h) \in Nat /\ h \in Ids
<1>1. PartialFunction(headers, Ids, Header)
  BY DEF TypeOK
<1>2. headers[h] \in Header
  BY <1>1, LookupType
<1>3. h \in Ids
  BY <1>1 DEF PartialFunction
<1> QED
  BY <1>2, <1>3, ChainAssumption DEF NumberOf, Header

\* Replacing the call of one session leaves the other calls alone.
LEMMA SetLookup ==
  ASSUME TypeOK, NEW p \in Callers, NEW k, Set(p, k)
  PROVE  /\ DOMAIN call' = Callers
         /\ call'[p] = k
         /\ \A q \in Callers : q # p => call'[q] = call[q]
  BY DEF TypeOK, Set

\* A caller in a call has asked for a block, from a node.
LEMMA AskedFor ==
  ASSUME TypeOK, NEW p \in Callers, call[p].pc # "idle"
  PROVE  /\ call[p] \in Call
         /\ call[p].block \in Blocks /\ call[p].node \in Nodes
         /\ Number[call[p].block] \in Nat
  BY ChainAssumption DEF TypeOK, CallOK

\* The table after the INSERT of a call, and the DELETE that came before it.
Exchanged(p) ==
  /\ nextHeader \in Ids /\ nextHeader' = nextHeader + 1
  /\ DOMAIN headers' = (DOMAIN headers \ call[p].removed) \cup {nextHeader}
  /\ \A h \in DOMAIN headers \ call[p].removed : headers'[h] = headers[h]
  /\ headers'[nextHeader].block = call[p].block
  /\ headers'[nextHeader].node = call[p].node
  /\ nextHeader \notin DOMAIN headers
  /\ PartialFunction(headers', Ids, Header)

\* An INSERT exchanges one row for another, or adds one.
LEMMA InsertExchanges ==
  ASSUME Inv, NEW p \in Callers, Insert(p)
  PROVE  Exchanged(p)
<1> DEFINE row == [block |-> call[p].block, node |-> call[p].node]
           left == Without(headers, call[p].removed)
<1>1. headers' = With(left, nextHeader, row) /\ nextHeader' = nextHeader + 1
  BY DEF Insert
<1> HIDE DEF row, left
<1>2. nextHeader \in Ids /\ nextHeader \notin DOMAIN headers
  BY DEF Inv, TypeOK, TableInv, Ids
<1>3. /\ DOMAIN left = DOMAIN headers \ call[p].removed
      /\ \A h \in DOMAIN headers \ call[p].removed : left[h] = headers[h]
  BY WithoutLookup, Zenon DEF left
<1>4. /\ DOMAIN headers' = DOMAIN left \cup {nextHeader}
      /\ headers'[nextHeader] = row
      /\ \A h \in DOMAIN left : h # nextHeader => headers'[h] = left[h]
  <2>1. /\ DOMAIN With(left, nextHeader, row) = DOMAIN left \cup {nextHeader}
        /\ With(left, nextHeader, row)[nextHeader] = row
        /\ \A h \in DOMAIN left :
             h # nextHeader => With(left, nextHeader, row)[h] = left[h]
    BY DEF With
  <2> QED
    BY <1>1, <2>1
<1>5. row \in Header
  BY AskedFor DEF Inv, Insert, Header, row
<1>6. PartialFunction(left, Ids, Header)
  BY WithoutType DEF Inv, TypeOK, left
<1>7. PartialFunction(headers', Ids, Header)
  BY <1>1, <1>2, <1>5, <1>6, WithType
<1> QED
  BY <1>1, <1>2, <1>3, <1>4, <1>7 DEF row, Exchanged

\* The header a call is going to exchange has the number of the new one.
LEMMA RemovedNumber ==
  ASSUME Inv, NEW p \in Callers, NEW h \in call[p].removed
  PROVE  h \in DOMAIN headers /\ NumberOf(h) = Number[call[p].block]
  BY DEF Inv, TypeOK, CallOK, CallInv, OtherTrue

\* No step takes a height from the table or a row from its id.
LEMMA TableStep ==
  ASSUME Inv, [Next]_vars
  PROVE  TableKept
<1>0. nextHeader \in Nat
  BY DEF Inv, TypeOK, Ids
<1>1. CASE \E p \in Callers : Insert(p)
  <2>1. PICK p \in Callers : Insert(p)
    BY <1>1
  <2>0. Exchanged(p)
    BY <2>1, InsertExchanges
  <2>2. ASSUME NEW h \in DOMAIN headers
        PROVE  \E g \in DOMAIN headers' : Number[headers'[g].block] = NumberOf(h)
    <3>1. CASE h \in call[p].removed
      BY <3>1, <2>0, RemovedNumber DEF Exchanged
    <3>2. CASE h \notin call[p].removed
      BY <3>2, <2>0 DEF NumberOf, Exchanged
    <3> QED
      BY <3>1, <3>2
  <2>3. \A h \in DOMAIN headers' :
          h < nextHeader => h \in DOMAIN headers /\ headers'[h] = headers[h]
    BY <2>0, <1>0 DEF Exchanged, Inv, TypeOK, PartialFunction, Ids
  <2> QED
    BY <2>0, <2>2, <2>3, <1>0 DEF TableKept, Exchanged
<1>2. CASE UNCHANGED <<headers, nextHeader>>
  BY <1>0, <1>2 DEF TableKept, NumberOf
<1> QED
  BY <1>1, <1>2 DEF Next, Ask, Step, Retry, ReadMatching, ReadOther, ReadHighest, Return,
                    Remove, Skip, Refuse, Fault, vars

\* The table keeps its types, and has a highest header after an INSERT: the one
\* it had, or the new one.
LEMMA TableStays ==
  ASSUME Inv, [Next]_vars
  PROVE  /\ PartialFunction(headers', Ids, Header)
         /\ nextHeader' \in Ids
         /\ TableInv'
<1>1. CASE \E p \in Callers : Insert(p)
  <2>1. PICK p \in Callers : Insert(p)
    BY <1>1
  <2>0. Exchanged(p)
    BY <2>1, InsertExchanges
  <2>2. \A h \in DOMAIN headers' : h < nextHeader'
    BY <2>0 DEF Exchanged, Inv, TableInv, Ids, TypeOK, PartialFunction
  <2>3. Number[call[p].block] \in Nat
    BY <2>1, AskedFor DEF Inv, Insert
  <2>4. \A h \in DOMAIN headers' :
          NumberOf(h)' = IF h = nextHeader THEN Number[call[p].block] ELSE NumberOf(h)
    BY <2>0 DEF Exchanged, NumberOf
  <2>5. \E g \in DOMAIN headers' : \A f \in DOMAIN headers' : NumberOf(f)' <= NumberOf(g)'
    <3>1. CASE \A f \in DOMAIN headers : NumberOf(f) <= Number[call[p].block]
      BY <3>1, <2>0, <2>3, <2>4 DEF Exchanged
    <3>2. CASE \E f \in DOMAIN headers : ~ (NumberOf(f) <= Number[call[p].block])
      <4>1. PICK h \in DOMAIN headers : ~ (NumberOf(h) <= Number[call[p].block])
        BY <3>2
      <4>2. PICK g \in DOMAIN headers : \A f \in DOMAIN headers : NumberOf(f) <= NumberOf(g)
        BY <4>1 DEF Inv, TableInv
      <4>3. \A f \in DOMAIN headers : NumberOf(f) \in Nat
        BY HeaderTypes DEF Inv
      <4>4. Number[call[p].block] < NumberOf(g)
        BY <4>1, <4>2, <4>3, <2>3
      <4>5. g \notin call[p].removed
        BY <4>3, <4>4, <2>3, RemovedNumber
      <4> QED
        BY <4>2, <4>3, <4>4, <4>5, <2>0, <2>3, <2>4 DEF Exchanged
    <3> QED
      BY <3>1, <3>2
  <2> QED
    BY <2>0, <2>2, <2>5 DEF TableInv, Ids, Exchanged
<1>2. CASE UNCHANGED <<headers, nextHeader>>
  BY <1>2 DEF Inv, TypeOK, TableInv, NumberOf
<1> QED
  BY <1>1, <1>2 DEF Next, Ask, Step, Retry, ReadMatching, ReadOther, ReadHighest, Return,
                    Remove, Skip, Refuse, Fault, vars

-----------------------------------------------------------------------------
(* The calls.                                                              *)

\* What the invariant says of the call of p.
CallTrue(p) == CallOK(call[p]) /\ OtherTrue(call[p]) /\ FinalTrue(call[p])

\* A call that goes on while others commit remains true.
LEMMA CallStays ==
  ASSUME Inv, [Next]_vars, NEW q \in Callers,
         call'[q] = call[q], call[q].removed \subseteq DOMAIN headers'
  PROVE  CallTrue(q)'
<1>1. CallOK(call[q]) /\ OtherTrue(call[q]) /\ FinalTrue(call[q])
  BY DEF Inv, TypeOK, CallInv
<1>2. TableKept
  BY TableStep
<1>3. CallOK(call[q])'
  BY <1>1 DEF CallOK, IdleCall, CallOf, Null, Call, Ids
<1>4. call[q].other \in Nat
  BY <1>1 DEF CallOK, Call, Ids, Null
<1>5. OtherTrue(call[q])'
  BY <1>1, <1>2, <1>4 DEF OtherTrue, TableKept, NumberOf
<1>6. \A h \in call[q].final : h < nextHeader /\ h \in Nat
  BY <1>1 DEF FinalTrue, CallOK, Call, Ids
<1>7. \A h \in call[q].final \cap DOMAIN headers' :
        h \in DOMAIN headers /\ NumberOf(h)' = NumberOf(h)
  BY <1>2, <1>6 DEF TableKept, NumberOf
<1>8. \A h \in call[q].final : h < nextHeader'
  BY <1>2, <1>6 DEF TableKept
<1>9. ASSUME call[q].pc \in {"matching", "other", "highest"},
             NEW h \in call[q].final \cap DOMAIN headers'
      PROVE  \E g \in DOMAIN headers' : NumberOf(h)' + Window <= NumberOf(g)'
  <2>1. PICK g \in DOMAIN headers : NumberOf(h) + Window <= NumberOf(g)
    BY <1>1, <1>7, <1>9 DEF FinalTrue
  <2> QED
    BY <2>1, <1>2, <1>7 DEF TableKept, NumberOf
<1>10. ASSUME call[q].pc \in {"decide", "insert"},
              NEW h \in call[q].final \cap DOMAIN headers'
       PROVE  \E n \in call[q].highest : NumberOf(h)' + Window <= n
  BY <1>1, <1>7, <1>10 DEF FinalTrue
<1>11. FinalTrue(call[q])'
  BY <1>1, <1>8, <1>9, <1>10 DEF FinalTrue
<1> QED
  BY <1>3, <1>5, <1>11 DEF CallTrue

\* A call that has not begun, or has failed, claims nothing.
LEMMA FreshTrue ==
  ASSUME Inv, [Next]_vars, NEW p \in Callers,
         NEW pc \in {"idle", "failed"}, NEW b, NEW n,
         call'[p] = CallOf(pc, b, n, {}),
         \/ pc = "idle" /\ b = Null /\ n = Null
         \/ pc = "failed" /\ b \in Blocks /\ n \in Nodes
  PROVE  CallTrue(p)'
<1> DEFINE k == CallOf(pc, b, n, {})
<1>1. /\ k.pc = pc /\ k.block = b /\ k.node = n /\ k.matching = Null /\ k.other = Null
      /\ k.highest = {} /\ k.removed = {} /\ k.final = {}
  BY DEF CallOf
<1>2. k \in Call
  BY DEF CallOf, Call
<1>3. pc = "idle" => k = IdleCall
  BY DEF IdleCall
<1> HIDE DEF k
<1>4. call'[p] = k
  BY DEF k
<1>5. CallOK(call[p])'
  BY <1>1, <1>2, <1>3, <1>4 DEF CallOK, IdleCall
<1>6. OtherTrue(call[p])'
  <2>1. 0 < nextHeader' /\ 0 \notin DOMAIN headers'
    BY TableStays DEF Ids, PartialFunction
  <2> QED
    BY <1>1, <1>4, <2>1 DEF OtherTrue, Null
<1>7. FinalTrue(call[p])'
  BY <1>1, <1>4 DEF FinalTrue
<1> QED
  BY <1>5, <1>6, <1>7 DEF CallTrue

\* A call that begins knows what is final by the table.
LEMMA NewCallTrue ==
  ASSUME Inv, NEW p \in Callers, NEW b \in Blocks, NEW n \in Nodes,
         UNCHANGED <<headers, nextHeader>>, call'[p] = NewCall(b, n)
  PROVE  CallTrue(p)'
<1> DEFINE k == NewCall(b, n)
<1>1. /\ k.pc = "matching" /\ k.block = b /\ k.node = n /\ k.matching = Null
      /\ k.other = Null /\ k.highest = {} /\ k.removed = {} /\ k.final = Final
  BY DEF NewCall, CallOf
<1>2. \A h \in Final : /\ h \in DOMAIN headers /\ h \in Ids /\ h < nextHeader
                       /\ \E g \in DOMAIN headers : NumberOf(h) + Window <= NumberOf(g)
  BY HeaderTypes DEF Inv, TableInv, Final, Highest
<1>3. k \in Call
  BY <1>2 DEF NewCall, CallOf, Call, Statements
<1> HIDE DEF k
<1>4. call'[p] = k
  BY DEF k
<1>5. CallOK(call[p])'
  BY <1>1, <1>3, <1>4 DEF CallOK
<1>6. OtherTrue(call[p])'
  <2>1. 0 < nextHeader /\ 0 \notin DOMAIN headers
    BY DEF Inv, TypeOK, Ids, PartialFunction
  <2> QED
    BY <1>1, <1>4, <2>1 DEF OtherTrue, Null
<1>7. FinalTrue(call[p])'
  BY <1>1, <1>2, <1>4 DEF FinalTrue, NumberOf
<1> QED
  BY <1>5, <1>6, <1>7 DEF CallTrue

\* A lookup finds nothing or a committed header it looked for.
LEMMA ScalarFinds ==
  ASSUME NEW found
  PROVE  Scalar(found) \in found \cup {Null}
BY DEF Scalar

\* A lookup that found something more leaves a call true.
LEMMA LookupTrue ==
  ASSUME Inv, NEW p \in Callers, NEW k, UNCHANGED <<headers, nextHeader>>, call'[p] = k,
         call[p].pc \in Statements, call[p].removed = {}, k.pc \in Statements,
         k \in Call, k.block = call[p].block, k.node = call[p].node,
         k.removed = {}, k.final = call[p].final,
         \/ k.other = call[p].other
         \/ k.other = Null
         \/ k.other \in DOMAIN headers /\ NumberOf(k.other) = Number[k.block],
         \/ call[p].pc \in {"matching", "other"} /\ k.pc \in {"other", "highest"}
         \/ call[p].pc = "highest" /\ k.pc = "decide" /\ k.highest = Highest
         \/ call[p].pc = "decide" /\ k.pc = "insert" /\ k.highest = call[p].highest
  PROVE  CallTrue(p)'
<1>1. CallOK(call[p]) /\ OtherTrue(call[p]) /\ FinalTrue(call[p])
  BY DEF Inv, TypeOK, CallInv
<1>2. CallOK(call[p])'
  BY <1>1 DEF CallOK, IdleCall, CallOf, Statements
<1>3. OtherTrue(call[p])'
  <2>1. 0 < nextHeader /\ 0 \notin DOMAIN headers
    BY DEF Inv, TypeOK, Ids, PartialFunction
  <2>2. k.other < nextHeader
    BY <1>1, <2>1 DEF OtherTrue, Inv, TableInv, Null
  <2>3. k.other \in DOMAIN headers => NumberOf(k.other) = Number[k.block]
    BY <1>1, <2>1 DEF OtherTrue, Null
  <2> QED
    BY <2>2, <2>3 DEF OtherTrue, NumberOf
<1>4. ASSUME call[p].pc \in {"matching", "other", "highest"},
             NEW h \in call[p].final \cap DOMAIN headers
      PROVE  /\ \E g \in DOMAIN headers : NumberOf(h) + Window <= NumberOf(g)
             /\ \E n \in Highest : NumberOf(h) + Window <= n
  <2>1. PICK g \in DOMAIN headers : NumberOf(h) + Window <= NumberOf(g)
    BY <1>1, <1>4 DEF FinalTrue
  <2>2. PICK m \in DOMAIN headers : \A f \in DOMAIN headers : NumberOf(f) <= NumberOf(m)
    BY <2>1 DEF Inv, TableInv
  <2>3. NumberOf(m) \in Highest
    BY <2>2 DEF Highest
  <2>4. NumberOf(h) \in Nat /\ NumberOf(g) \in Nat /\ NumberOf(m) \in Nat /\ Window \in Nat
    BY HeaderTypes, ChainAssumption DEF Inv
  <2>5. NumberOf(h) + Window <= NumberOf(m)
    BY <2>1, <2>2, <2>4
  <2> QED
    BY <2>1, <2>3, <2>5
<1>5. ASSUME k.pc \in {"matching", "other", "highest"},
             NEW h \in k.final \cap DOMAIN headers
      PROVE  \E g \in DOMAIN headers : NumberOf(h) + Window <= NumberOf(g)
  BY <1>4, <1>5
<1>6. ASSUME k.pc \in {"decide", "insert"}, NEW h \in k.final \cap DOMAIN headers
      PROVE  \E n \in k.highest : NumberOf(h) + Window <= n
  BY <1>1, <1>4, <1>6 DEF FinalTrue
<1>7. \A h \in k.final : h < nextHeader
  BY <1>1 DEF FinalTrue
<1>8. FinalTrue(call[p])'
  BY <1>5, <1>6, <1>7 DEF FinalTrue, NumberOf
<1> QED
  BY <1>2, <1>3, <1>8 DEF CallTrue

\* A call that is at a statement before the INSERT holds no lock.
LEMMA NoLockYet ==
  ASSUME Inv, NEW p \in Callers, call[p].pc # "insert"
  PROVE  call[p].removed = {}
BY DEF Inv, TypeOK, CallOK

\* A failed call claims nothing.
LEMMA FailedTrue ==
  ASSUME Inv, [Next]_vars, NEW p \in Callers, call[p].pc # "idle",
         call'[p] = Failed(call[p])
  PROVE  CallTrue(p)'
<1> DEFINE b == call[p].block
           n == call[p].node
<1>1. b \in Blocks /\ n \in Nodes
  BY AskedFor DEF Inv
<1>2. call'[p] = CallOf("failed", b, n, {})
  BY DEF Failed
<1> HIDE DEF b, n
<1> QED
  BY <1>1, <1>2, FreshTrue

\* After either of the first two lookups.
LEMMA ReadTrue ==
  ASSUME Inv, [Next]_vars, NEW p \in Callers, ReadMatching(p) \/ ReadOther(p)
  PROVE  CallTrue(p)'
<1>0. call[p].pc \in {"matching", "other"} /\ UNCHANGED <<headers, nextHeader>>
  BY DEF ReadMatching, ReadOther
<1>1. CASE call'[p] = Failed(call[p])
  BY <1>0, <1>1, FailedTrue
<1>2. CASE call'[p] # Failed(call[p])
  <2>1. PICK found \in SUBSET Rivals(p) :
          call'[p] = IF ReadMatching(p)
                     THEN [call[p] EXCEPT !.matching = Scalar(found), !.pc = "other"]
                     ELSE [call[p] EXCEPT !.other = Scalar(found), !.pc = "highest"]
    <3>1. CASE ReadMatching(p)
      <4> DEFINE found == {h \in Rivals(p) : headers[h].block = call[p].block}
      <4>1. call'[p] = [call[p] EXCEPT !.matching = Scalar(found), !.pc = "other"]
        BY <3>1, <1>2, SetLookup DEF ReadMatching, Inv
      <4> HIDE DEF found
      <4>2. found \in SUBSET Rivals(p)
        BY DEF found
      <4> QED
        BY <3>1, <4>1, <4>2
    <3>2. CASE ~ ReadMatching(p)
      <4> DEFINE found == {h \in Rivals(p) : headers[h].block # call[p].block}
      <4>1. call'[p] = [call[p] EXCEPT !.other = Scalar(found), !.pc = "highest"]
        BY <3>2, <1>2, SetLookup DEF ReadOther, Inv
      <4> HIDE DEF found
      <4>2. found \in SUBSET Rivals(p)
        BY DEF found
      <4> QED
        BY <3>2, <4>1, <4>2
    <3> QED
      BY <3>1, <3>2
  <2> DEFINE id == Scalar(found)
  <2>2. id \in Rivals(p) \cup {Null}
    BY ScalarFinds
  <2> HIDE DEF id
  <2>3. /\ id \in Ids \cup {Null}
        /\ id # Null => id \in DOMAIN headers /\ NumberOf(id) = Number[call[p].block]
    BY <2>2, HeaderTypes DEF Rivals, Inv
  <2>4. call[p] \in Call /\ call[p].removed = {}
    BY <1>0, AskedFor, NoLockYet DEF Inv
  <2>5. CASE ReadMatching(p)
    <3> DEFINE k == [call[p] EXCEPT !.matching = id, !.pc = "other"]
    <3>1. call[p].pc = "matching"
      BY <2>5 DEF ReadMatching
    <3>2. /\ k \in Call /\ k.pc = "other" /\ k.block = call[p].block
          /\ k.node = call[p].node /\ k.removed = {} /\ k.final = call[p].final
          /\ k.other = call[p].other
      BY <2>3, <2>4 DEF Call, Statements
    <3>3. call'[p] = k
      BY <2>1, <2>5 DEF id
    <3> HIDE DEF k
    <3> QED
      BY <1>0, <2>4, <3>1, <3>2, <3>3, LookupTrue DEF Statements
  <2>6. CASE ~ ReadMatching(p)
    <3> DEFINE k == [call[p] EXCEPT !.other = id, !.pc = "highest"]
    <3>1. call[p].pc = "other"
      BY <2>6 DEF ReadOther
    <3>2. /\ k \in Call /\ k.pc = "highest" /\ k.block = call[p].block
          /\ k.node = call[p].node /\ k.removed = {} /\ k.final = call[p].final
          /\ k.other = id
      BY <2>3, <2>4 DEF Call, Statements
    <3>3. call'[p] = k
      BY <2>1, <2>6 DEF id
    <3> HIDE DEF k
    <3> QED
      BY <1>0, <2>3, <2>4, <3>1, <3>2, <3>3, LookupTrue DEF Statements
  <2> QED
    BY <2>5, <2>6
<1> QED
  BY <1>1, <1>2

\* After the last lookup, and for a call that deletes nothing.
LEMMA HighestTrue ==
  ASSUME Inv, [Next]_vars, NEW p \in Callers, ReadHighest(p) \/ Skip(p)
  PROVE  CallTrue(p)'
<1>1. call[p] \in Call /\ call[p].removed = {}
  BY AskedFor, NoLockYet DEF Inv, ReadHighest, Skip
<1>2. CASE ReadHighest(p)
  <2> DEFINE k == [call[p] EXCEPT !.highest = Highest, !.pc = "decide"]
  <2>1. Highest \in SUBSET Nat
    BY HeaderTypes DEF Highest, Inv
  <2>2. /\ k \in Call /\ k.pc = "decide" /\ k.block = call[p].block
        /\ k.node = call[p].node /\ k.removed = {} /\ k.final = call[p].final
        /\ k.other = call[p].other /\ k.highest = Highest
    BY <1>1, <2>1 DEF Call, Statements
  <2>3. call'[p] = k
    BY <1>2, SetLookup DEF ReadHighest, Inv
  <2>4. call[p].pc = "highest" /\ UNCHANGED <<headers, nextHeader>>
    BY <1>2 DEF ReadHighest
  <2> HIDE DEF k
  <2> QED
    BY <1>1, <2>2, <2>3, <2>4, LookupTrue DEF Statements
<1>3. CASE Skip(p)
  <2> DEFINE k == [call[p] EXCEPT !.pc = "insert"]
  <2>2. /\ k \in Call /\ k.pc = "insert" /\ k.block = call[p].block
        /\ k.node = call[p].node /\ k.removed = {} /\ k.final = call[p].final
        /\ k.other = call[p].other /\ k.highest = call[p].highest
    BY <1>1 DEF Call, Statements
  <2>3. call'[p] = k
    BY <1>3, SetLookup DEF Skip, Inv
  <2>4. call[p].pc = "decide" /\ UNCHANGED <<headers, nextHeader>>
    BY <1>3 DEF Skip
  <2> HIDE DEF k
  <2> QED
    BY <1>1, <2>2, <2>3, <2>4, LookupTrue DEF Statements
<1> QED
  BY <1>2, <1>3

\* What a call deletes was not final when it came in: the number it goes by may
\* be out of date by now, but not by then.
LEMMA RemoveTrue ==
  ASSUME Inv, [Next]_vars, NEW p \in Callers, Remove(p)
  PROVE  CallTrue(p)'
<1> DEFINE gone == {call[p].other} \cap DOMAIN headers
           k == [call[p] EXCEPT !.pc = "insert", !.removed = gone]
<1>1. CallOK(call[p]) /\ OtherTrue(call[p]) /\ FinalTrue(call[p])
  BY DEF Inv, TypeOK, CallInv
<1>2. /\ call[p].pc = "decide" /\ ~ Deep(call[p]) /\ UNCHANGED <<headers, nextHeader>>
      /\ call[p] \in Call /\ call[p].block \in Blocks /\ call[p].node \in Nodes
  BY AskedFor DEF Inv, Remove
<1>3. gone \in SUBSET Ids /\ gone \subseteq {call[p].other} /\ gone \subseteq DOMAIN headers
  BY DEF Inv, TypeOK, PartialFunction
<1>4. gone \cap call[p].final = {}
  <2>1. SUFFICES ASSUME call[p].other \in DOMAIN headers, call[p].other \in call[p].final
                 PROVE  FALSE
    OBVIOUS
  <2>2. NumberOf(call[p].other) = Number[call[p].block]
    BY <1>1, <2>1 DEF OtherTrue
  <2>3. \E n \in call[p].highest : NumberOf(call[p].other) + Window <= n
    BY <1>1, <1>2, <2>1 DEF FinalTrue
  <2> QED
    BY <1>2, <2>2, <2>3 DEF Deep
<1> HIDE DEF gone
<1>5. /\ k \in Call /\ k.pc = "insert" /\ k.block = call[p].block
      /\ k.node = call[p].node /\ k.removed = gone /\ k.final = call[p].final
      /\ k.other = call[p].other /\ k.highest = call[p].highest
  BY <1>2, <1>3 DEF Call, Statements
<1>6. call'[p] = k
  BY SetLookup DEF Remove, Inv, gone
<1> HIDE DEF k
<1>7. CallOK(call[p])'
  BY <1>2, <1>3, <1>5, <1>6 DEF CallOK
<1>8. OtherTrue(call[p])'
  BY <1>1, <1>2, <1>3, <1>5, <1>6 DEF OtherTrue, NumberOf
<1>9. FinalTrue(call[p])'
  BY <1>1, <1>2, <1>4, <1>5, <1>6 DEF FinalTrue, NumberOf
<1> QED
  BY <1>7, <1>8, <1>9 DEF CallTrue

-----------------------------------------------------------------------------
(* The steps.                                                              *)

\* One session makes a step, and only its INSERT takes rows from the table.
LEMMA OneCaller ==
  ASSUME Inv, Next
  PROVE  \E p \in Callers :
           /\ Ask(p) \/ Step(p) \/ Fault(p)
           /\ DOMAIN call' = Callers
           /\ \A q \in Callers : q # p => call'[q] = call[q]
           /\ \A h \in DOMAIN headers \ DOMAIN headers' : h \in call[p].removed
<1>1. PICK p \in Callers : Ask(p) \/ Step(p) \/ Fault(p)
  BY DEF Next
<1>2. \E k : Set(p, k)
  BY <1>1 DEF Ask, Step, Retry, ReadMatching, ReadOther, ReadHighest, Return, Remove,
              Skip, Insert, Refuse, Fault
<1>3. DOMAIN call' = Callers /\ \A q \in Callers : q # p => call'[q] = call[q]
  BY <1>2, SetLookup DEF Inv
<1>4. \A h \in DOMAIN headers \ DOMAIN headers' : h \in call[p].removed
  <2>1. CASE Insert(p)
    BY <2>1, InsertExchanges DEF Exchanged
  <2>2. CASE ~ Insert(p)
    <3>1. headers' = headers
      BY <1>1, <2>2 DEF Ask, Step, Retry, ReadMatching, ReadOther, ReadHighest, Return,
                        Remove, Skip, Refuse, Fault
    <3> QED
      BY <3>1
  <2> QED
    BY <2>1, <2>2
<1> QED
  BY <1>1, <1>3, <1>4

\* The call of the session that makes the step.
LEMMA ActorTrue ==
  ASSUME Inv, [Next]_vars, NEW p \in Callers, Ask(p) \/ Step(p) \/ Fault(p)
  PROVE  CallTrue(p)'
<1>1. CASE Ask(p)
  <2>1. PICK b \in Blocks, n \in Nodes : Set(p, NewCall(b, n))
    BY <1>1 DEF Ask
  <2> DEFINE k == NewCall(b, n)
  <2>2. Set(p, k)
    BY <2>1
  <2> HIDE DEF k
  <2>3. call'[p] = k
    BY <2>2, SetLookup DEF Inv
  <2> QED
    BY <2>3, <1>1, NewCallTrue DEF Ask, k
<1>2. CASE Retry(p)
  <2> DEFINE b == call[p].block
             n == call[p].node
             k == NewCall(b, n)
  <2>1. b \in Blocks /\ n \in Nodes
    BY <1>2, AskedFor DEF Retry, Inv
  <2>2. Set(p, k) /\ UNCHANGED <<headers, nextHeader>>
    BY <1>2 DEF Retry
  <2> HIDE DEF k, b, n
  <2>3. call'[p] = k
    BY <2>2, SetLookup DEF Inv
  <2> QED
    BY <2>1, <2>2, <2>3, NewCallTrue DEF k
<1>3. CASE ReadMatching(p) \/ ReadOther(p)
  BY <1>3, ReadTrue
<1>4. CASE ReadHighest(p) \/ Skip(p)
  BY <1>4, HighestTrue
<1>5. CASE Remove(p)
  BY <1>5, RemoveTrue
<1>6. CASE Return(p) \/ Insert(p)
  <2>1. Set(p, IdleCall)
    BY <1>6 DEF Return, Insert
  <2> DEFINE k == IdleCall
  <2>2. Set(p, k)
    BY <2>1
  <2> HIDE DEF k
  <2>3. call'[p] = k
    BY <2>2, SetLookup DEF Inv
  <2>4. call'[p] = CallOf("idle", Null, Null, {})
    BY <2>3 DEF k, IdleCall
  <2> QED
    BY <2>4, FreshTrue
<1>7. CASE Refuse(p) \/ Fault(p)
  <2> DEFINE k == Failed(call[p])
  <2>1. Set(p, k) /\ call[p].pc # "idle"
    BY <1>7 DEF Refuse, Fault
  <2> HIDE DEF k
  <2>2. call'[p] = k
    BY <2>1, SetLookup DEF Inv
  <2> QED
    BY <2>1, <2>2, FailedTrue DEF k
<1> QED
  BY <1>1, <1>2, <1>3, <1>4, <1>5, <1>6, <1>7 DEF Step

\* The rows a call holds after a step it held before, or were in the table and
\* held by nobody.
LEMMA LockTaken ==
  ASSUME Inv, NEW p \in Callers, Ask(p) \/ Step(p) \/ Fault(p)
  PROVE  \A h \in call'[p].removed :
           h \in call[p].removed \/ \A q \in Callers \ {p} : h \notin call[q].removed
<1>1. CASE Remove(p)
  <2> DEFINE gone == {call[p].other} \cap DOMAIN headers
             k == [call[p] EXCEPT !.pc = "insert", !.removed = gone]
  <2>1. Set(p, k) /\ ~ Locked(p, call[p].other)
    BY <1>1 DEF Remove
  <2>2. call[p] \in Call
    BY <1>1, AskedFor DEF Inv, Remove
  <2>3. \A h \in gone : h = call[p].other
    OBVIOUS
  <2> HIDE DEF gone
  <2>4. k.removed = gone
    BY <2>2 DEF Call
  <2> HIDE DEF k
  <2>5. call'[p] = k
    BY <2>1, SetLookup DEF Inv
  <2> QED
    BY <2>1, <2>3, <2>4, <2>5 DEF Locked
<1>2. CASE ~ Remove(p)
  <2>1. \E k : Set(p, k) /\ (k.removed = {} \/ k.removed = call[p].removed)
    <3>1. CASE Ask(p) \/ Retry(p)
      <4>1. \A b, n : NewCall(b, n).removed = {}
        BY DEF NewCall, CallOf
      <4> QED
        BY <3>1, <4>1 DEF Ask, Retry
    <3>2. CASE Refuse(p) \/ Fault(p)
      BY <3>2 DEF Refuse, Fault, Failed, CallOf
    <3>3. CASE Return(p) \/ Insert(p)
      BY <3>3 DEF Return, Insert, IdleCall, CallOf
    <3>4. CASE ReadMatching(p)
      <4>1. call[p] \in Call
        BY <3>4, AskedFor DEF Inv, ReadMatching
      <4>2. /\ \A i : [call[p] EXCEPT !.matching = i, !.pc = "other"].removed
                        = call[p].removed
            /\ Failed(call[p]).removed = {}
        BY <4>1 DEF Call, Failed, CallOf
      <4> QED
        BY <3>4, <4>2 DEF ReadMatching
    <3>5. CASE ReadOther(p)
      <4>1. call[p] \in Call
        BY <3>5, AskedFor DEF Inv, ReadOther
      <4>2. /\ \A i : [call[p] EXCEPT !.other = i, !.pc = "highest"].removed
                        = call[p].removed
            /\ Failed(call[p]).removed = {}
        BY <4>1 DEF Call, Failed, CallOf
      <4> QED
        BY <3>5, <4>2 DEF ReadOther
    <3>6. CASE ReadHighest(p) \/ Skip(p)
      <4>1. call[p] \in Call
        BY <3>6, AskedFor DEF Inv, ReadHighest, Skip
      <4>2. /\ [call[p] EXCEPT !.highest = Highest, !.pc = "decide"].removed
                 = call[p].removed
            /\ [call[p] EXCEPT !.pc = "insert"].removed = call[p].removed
        BY <4>1 DEF Call
      <4> QED
        BY <3>6, <4>2 DEF ReadHighest, Skip
    <3> QED
      BY <1>2, <3>1, <3>2, <3>3, <3>4, <3>5, <3>6 DEF Step
  <2>2. PICK k : Set(p, k) /\ (k.removed = {} \/ k.removed = call[p].removed)
    BY <2>1
  <2>3. call'[p] = k
    BY <2>2, SetLookup DEF Inv
  <2> QED
    BY <2>2, <2>3
<1> QED
  BY <1>1, <1>2

\* The inductive step.
LEMMA InvStep ==
  ASSUME Inv, [Next]_vars
  PROVE  Inv'
<1>1. CASE Next
  <2>1. PICK p \in Callers :
          /\ Ask(p) \/ Step(p) \/ Fault(p)
          /\ DOMAIN call' = Callers
          /\ \A q \in Callers : q # p => call'[q] = call[q]
          /\ \A h \in DOMAIN headers \ DOMAIN headers' : h \in call[p].removed
    BY <1>1, OneCaller
  <2>2. ASSUME NEW q \in Callers
        PROVE  CallTrue(q)'
    <3>1. CASE q = p
      BY <3>1, <2>1, ActorTrue
    <3>2. CASE q # p
      <4>1. call[q].removed \subseteq DOMAIN headers'
        BY <2>1, <3>2 DEF Inv, TypeOK, CallOK, LockInv
      <4> QED
        BY <2>1, <3>2, <4>1, CallStays
    <3> QED
      BY <3>1, <3>2
  <2>3. \A q \in Callers : CallOK(call[q])' /\ OtherTrue(call[q])' /\ FinalTrue(call[q])'
    BY <2>2 DEF CallTrue
  <2>4. calls' \in Nat /\ faults' \in Nat
    BY <2>1 DEF Inv, TypeOK, Ask, Step, Retry, ReadMatching, ReadOther, ReadHighest,
                Return, Remove, Skip, Insert, Refuse, Fault
  <2>5. LockInv'
    BY <2>1, LockTaken DEF Inv, LockInv
  <2> QED
    BY <2>1, <2>3, <2>4, <2>5, TableStays DEF Inv, TypeOK, CallInv
<1>2. CASE UNCHANGED vars
  <2>1. \A q \in Callers : CallTrue(q)'
    <3>1. \A q \in Callers : call'[q] = call[q] /\ call[q].removed \subseteq DOMAIN headers'
      BY <1>2 DEF vars, Inv, TypeOK, CallOK
    <3> QED
      BY <3>1, CallStays
  <2>2. LockInv'
    BY <1>2 DEF vars, Inv, LockInv
  <2>3. DOMAIN call' = Callers /\ calls' \in Nat /\ faults' \in Nat
    BY <1>2 DEF vars, Inv, TypeOK
  <2>4. \A q \in Callers : CallOK(call[q])' /\ OtherTrue(call[q])' /\ FinalTrue(call[q])'
    BY <2>1 DEF CallTrue
  <2> QED
    BY <2>2, <2>3, <2>4, TableStays DEF Inv, TypeOK, CallInv
<1> QED
  BY <1>1, <1>2

\* At the start there are no headers and no calls.
LEMMA InvInit ==
  ASSUME Init
  PROVE  Inv
<1> DEFINE k == IdleCall
<1>1. /\ k \in Call /\ k.pc = "idle" /\ k.other = 0 /\ k.removed = {} /\ k.final = {}
  BY DEF IdleCall, CallOf, Call, Null
<1>2. k = IdleCall
  OBVIOUS
<1> HIDE DEF k
<1>3. DOMAIN call = Callers /\ \A p \in Callers : call[p] = k
  BY <1>2 DEF Init
<1>4. DOMAIN headers = {} /\ nextHeader = 1 /\ calls = 0 /\ faults = 0
  BY EmptyType DEF Init
<1>5. \A p \in Callers : CallOK(call[p])
  BY <1>1, <1>2, <1>3 DEF CallOK
<1>6. CallInv
  BY <1>1, <1>3, <1>4 DEF CallInv, OtherTrue, FinalTrue
<1>7. PartialFunction(headers, Ids, Header)
  BY <1>4, EmptyType DEF Init
<1> QED
  BY <1>1, <1>3, <1>4, <1>5, <1>6, <1>7
     DEF Inv, TypeOK, TableInv, LockInv, Ids

\* The invariant holds in every reachable state.
THEOREM Invariance == Spec => []Inv
<1>1. Init => Inv
  BY InvInit
<1>2. Inv /\ [Next]_vars => Inv'
  BY InvStep
<1> QED
  BY <1>1, <1>2, PTL DEF Spec

-----------------------------------------------------------------------------
(* The theorems.                                                           *)

\* Calls and the table are what they should be, and a call locks only rows that
\* are there: what get_or_create_header deletes is its own until it ends.
THEOREM TypeCorrect == Spec => []TypeOK
<1>1. Inv => TypeOK
  BY DEF Inv
<1> QED
  BY <1>1, Invariance, PTL

\* However calls of any number of sessions and nodes run into each other or
\* fail, a number that has a header keeps one.
THEOREM HeightsAreKept == Spec => HeightsKept
<1>1. Inv /\ [Next]_vars =>
        [\A h \in DOMAIN headers :
           \E g \in DOMAIN headers' : Number[headers'[g].block] = NumberOf(h)]_vars
  BY TableStep DEF TableKept
<1> QED
  BY <1>1, Invariance, PTL DEF Spec, HeightsKept

\* A header that is final when a call comes in is not replaced by that call,
\* however stale the maximum the call decides by.
THEOREM FinalHeadersStay == Spec => FinalStays
<1>1. Inv /\ [Next]_vars =>
        [\A h \in DOMAIN headers \ DOMAIN headers' :
           \E p \in Callers : h \in call[p].removed \ call[p].final]_vars
  <2>1. SUFFICES ASSUME Inv, Next
                 PROVE  \A h \in DOMAIN headers \ DOMAIN headers' :
                          \E p \in Callers : h \in call[p].removed \ call[p].final
    BY DEF vars
  <2>2. PICK p \in Callers : \A h \in DOMAIN headers \ DOMAIN headers' : h \in call[p].removed
    BY <2>1, OneCaller
  <2>3. call[p].removed \cap call[p].final = {}
    BY <2>1 DEF Inv, CallInv, FinalTrue
  <2> QED
    BY <2>2, <2>3
<1> QED
  BY <1>1, Invariance, PTL DEF Spec, FinalStays

\* With one node the unique constraint alone keeps the table to one header of
\* a number, in whichever order calls read, delete and insert.
THEOREM OneHeader ==
  ASSUME \A m, n \in Nodes : m = n
  PROVE  Spec => []OneHeaderPerHeight
<1>1. Init => OneHeaderPerHeight
  BY EmptyType DEF Init, OneHeaderPerHeight
<1>2. ASSUME Inv, [Next]_vars, OneHeaderPerHeight
      PROVE  OneHeaderPerHeight'
  <2>1. CASE \E p \in Callers : Insert(p)
    <3>1. PICK p \in Callers : Insert(p)
      BY <2>1
    <3>2. Exchanged(p) /\ Conflicts(p) = {} /\ call[p].node \in Nodes
      BY <1>2, <3>1, InsertExchanges, AskedFor DEF Insert, Inv
    <3>3. \A h \in DOMAIN headers \ call[p].removed : headers[h].node = call[p].node
      BY <1>2, <3>2, HeaderTypes DEF Inv
    <3>4. \A h \in DOMAIN headers \ call[p].removed : NumberOf(h) # Number[call[p].block]
      BY <3>2, <3>3 DEF Conflicts, Rivals
    <3> QED
      BY <1>2, <3>2, <3>4 DEF Exchanged, OneHeaderPerHeight, NumberOf
  <2>2. CASE UNCHANGED headers
    BY <1>2, <2>2 DEF OneHeaderPerHeight, NumberOf
  <2> QED
    BY <1>2, <2>1, <2>2 DEF Next, Ask, Step, Retry, ReadMatching, ReadOther, ReadHighest,
                            Return, Remove, Skip, Refuse, Fault, vars
<1> QED
  BY <1>1, <1>2, Invariance, PTL DEF Spec

-----------------------------------------------------------------------------
(* The chain.  An INSERT is a step of the chain when the call has taken all  *)
(* headers of its number away before.                                       *)

BlocksAt(n) == {headers[h].block : h \in {g \in DOMAIN headers : NumberOf(g) = n}}

ChainNow == [n \in Heights |-> BlocksAt(n)]

\* The blocks of a height are exchanged for one, or a height is added.
LEMMA InsertOnChain ==
  ASSUME Inv, NEW p \in Callers, Insert(p), Rivals(p) \subseteq call[p].removed
  PROVE  /\ call[p].block \in Blocks
         /\ ChainNow' = With(ChainNow, Number[call[p].block], {call[p].block})
         /\ Number[call[p].block] \in Heights <=> call[p].removed # {}
<1>1. PICK b, new, gone : b = call[p].block /\ new = nextHeader /\ gone = call[p].removed
  OBVIOUS
<1>2. Exchanged(p) /\ b \in Blocks
  BY <1>1, InsertExchanges, AskedFor DEF Insert, Inv
<1>3. \A h \in DOMAIN headers : h \in gone <=> NumberOf(h) = Number[b]
  BY <1>1, RemovedNumber DEF Rivals
<1>4. /\ DOMAIN headers' = (DOMAIN headers \ gone) \cup {new}
      /\ new \notin DOMAIN headers
      /\ headers'[new].block = b
      /\ \A h \in DOMAIN headers \ gone : headers'[h] = headers[h]
  BY <1>1, <1>2 DEF Exchanged
<1>5. /\ NumberOf(new)' = Number[b]
      /\ \A h \in DOMAIN headers \ gone : NumberOf(h)' = NumberOf(h)
  BY <1>4 DEF NumberOf
<1>6. gone \subseteq DOMAIN headers
  BY <1>1, RemovedNumber
<1>7. Number[b] \in Heights <=> gone # {}
  BY <1>3, <1>6 DEF Heights
<1>8. Heights' = Heights \cup {Number[b]}
  <2>1. ASSUME NEW n PROVE n \in Heights' <=> n \in Heights \/ n = Number[b]
    BY <1>3, <1>4, <1>5 DEF Heights
  <2> QED
    BY <2>1
<1>9. BlocksAt(Number[b])' = {b}
  BY <1>3, <1>4, <1>5 DEF BlocksAt
<1>10. ASSUME NEW n, n # Number[b] PROVE BlocksAt(n)' = BlocksAt(n)
  BY <1>3, <1>4, <1>5, <1>10 DEF BlocksAt
<1>11. ChainNow' = With(ChainNow, Number[b], {b})
  BY <1>8, <1>9, <1>10 DEF ChainNow, With
<1> QED
  BY <1>1, <1>2, <1>7, <1>11

\* Steps other than an INSERT do not touch the chain.
LEMMA OnlyInserts ==
  ASSUME [Next]_vars
  PROVE  (\E p \in Callers : Insert(p)) \/ UNCHANGED headers
  BY DEF Next, Ask, Step, Retry, ReadMatching, ReadOther, ReadHighest, Return, Remove, Skip,
         Refuse, Fault, vars

\* At the start there is neither header nor height.
LEMMA ChainInit == Init => Chain!Init
  BY DEF Init, Chain!Init, Chain!Empty, Empty, Heights

\* With one node calls that overlap extend the chain by a block or exchange one,
\* in whichever order they read, delete and insert: the unique constraint makes
\* a call that has overlooked a rival fail.
THEOREM OverlapsFormChain ==
  ASSUME \A m, n \in Nodes : m = n
  PROVE  Spec => OverlapsKeepChain
<1>1. ASSUME Inv, [Next]_vars
      PROVE  [Chain!OverlappedNext]_ChainNow
  <2>1. ASSUME NEW p \in Callers, Insert(p)
        PROVE  Chain!OverlappedNext
    <3>1. Rivals(p) \subseteq call[p].removed
      <4>1. Conflicts(p) = {} /\ call[p].node \in Nodes
        BY <1>1, <2>1, AskedFor DEF Insert, Inv
      <4>2. \A h \in Rivals(p) : headers[h].node = call[p].node
        BY <1>1, <4>1, HeaderTypes DEF Inv, Rivals
      <4> QED
        BY <4>1, <4>2 DEF Conflicts
    <3>2. PICK b \in Blocks : ChainNow' = With(ChainNow, Number[b], {b})
      BY <1>1, <2>1, <3>1, InsertOnChain
    <3>3. Chain!Extend(b) \/ Chain!Exchange(b)
      BY <3>2 DEF Chain!Extend, Chain!Exchange, Chain!With, With, ChainNow, BlocksAt
    <3> QED
      BY <3>3 DEF Chain!OverlappedNext
  <2>2. CASE UNCHANGED headers
    BY <2>2 DEF ChainNow, BlocksAt, Heights, NumberOf
  <2> QED
    BY <1>1, <2>1, <2>2, OnlyInserts
<1>2. Inv /\ [Next]_vars => [Chain!OverlappedNext]_ChainNow
  BY <1>1
<1> QED
  BY <1>2, ChainInit, Invariance, PTL
  DEF Spec, OverlapsKeepChain, Chain!OverlappedSpec, ChainNow, BlocksAt

-----------------------------------------------------------------------------
(* One session: what a call has read is still so when it acts.             *)

CallCurrent(p) ==
  /\ call[p].pc \in {"other", "highest", "decide"} /\ call[p].matching = Null =>
       \A h \in Rivals(p) : headers[h].block # call[p].block
  /\ call[p].pc \in {"highest", "decide"} =>
       IF call[p].other = Null
       THEN \A h \in Rivals(p) : headers[h].block = call[p].block
       ELSE call[p].other \in Rivals(p)
  /\ call[p].pc = "decide" => call[p].highest = Highest
  /\ call[p].pc = "insert" =>
       /\ Rivals(p) = call[p].removed
       /\ call[p].removed # {} =>
            \A h \in DOMAIN headers : NumberOf(h) < Number[call[p].block] + Window

SerialInv == OneHeaderPerHeight /\ \A p \in Callers : CallCurrent(p)

\* A scalar subquery is NULL only if there is nothing to find.
LEMMA ScalarNull ==
  ASSUME NEW found, Null \notin found
  PROVE  Scalar(found) = Null <=> found = {}
  BY DEF Scalar

\* The lookups find what is there.
LEMMA LookupCurrent ==
  ASSUME Inv, NEW p \in Callers, CallCurrent(p),
         ReadMatching(p) \/ ReadOther(p) \/ ReadHighest(p)
  PROVE  CallCurrent(p)'
<1>1. call[p] \in Call /\ UNCHANGED headers
  BY AskedFor DEF Inv, ReadMatching, ReadOther, ReadHighest
<1>2. Null \notin DOMAIN headers
  BY DEF Inv, TypeOK, PartialFunction, Ids, Null
<1>3. ASSUME call'[p].pc = "failed"
      PROVE  CallCurrent(p)'
  BY <1>3 DEF CallCurrent
<1>4. Failed(call[p]).pc = "failed"
  BY DEF Failed, CallOf
<1>5. CASE ReadMatching(p)
  <2> DEFINE found == {h \in Rivals(p) : headers[h].block = call[p].block}
  <2>1. call'[p] = IF Cardinality(found) > 1
                   THEN Failed(call[p])
                   ELSE [call[p] EXCEPT !.matching = Scalar(found), !.pc = "other"]
    BY <1>5, SetLookup DEF ReadMatching, Inv
  <2>2. CASE Cardinality(found) > 1
    BY <1>3, <1>4, <2>1, <2>2
  <2>3. CASE ~ (Cardinality(found) > 1)
    <3>1. Scalar(found) = Null <=> found = {}
      BY <1>2, ScalarNull DEF Rivals
    <3>2. /\ call'[p].pc = "other" /\ call'[p].block = call[p].block
          /\ call'[p].matching = Scalar(found)
      BY <1>1, <2>1, <2>3 DEF Call
    <3> QED
      BY <1>1, <3>1, <3>2 DEF CallCurrent, Rivals, NumberOf
  <2> QED
    BY <2>2, <2>3
<1>6. CASE ReadOther(p)
  <2> DEFINE found == {h \in Rivals(p) : headers[h].block # call[p].block}
  <2>1. call'[p] = IF Cardinality(found) > 1
                   THEN Failed(call[p])
                   ELSE [call[p] EXCEPT !.other = Scalar(found), !.pc = "highest"]
    BY <1>6, SetLookup DEF ReadOther, Inv
  <2>2. CASE Cardinality(found) > 1
    BY <1>3, <1>4, <2>1, <2>2
  <2>3. CASE ~ (Cardinality(found) > 1)
    <3>1. /\ Scalar(found) = Null <=> found = {}
          /\ Scalar(found) \in found \cup {Null}
      BY <1>2, ScalarNull, ScalarFinds DEF Rivals
    <3>2. /\ call'[p].pc = "highest" /\ call'[p].block = call[p].block
          /\ call'[p].matching = call[p].matching
          /\ call'[p].other = Scalar(found)
      BY <1>1, <2>1, <2>3 DEF Call
    <3>3. call[p].pc = "other" /\ Rivals(p)' = Rivals(p)
      BY <1>1, <1>6, <3>2 DEF ReadOther, Rivals, NumberOf
    <3> QED
      BY <1>1, <3>1, <3>2, <3>3 DEF CallCurrent
  <2> QED
    BY <2>2, <2>3
<1>7. CASE ReadHighest(p)
  <2>1. call'[p] = [call[p] EXCEPT !.highest = Highest, !.pc = "decide"]
    BY <1>7, SetLookup DEF ReadHighest, Inv
  <2>2. /\ call'[p].pc = "decide" /\ call'[p].block = call[p].block
        /\ call'[p].matching = call[p].matching /\ call'[p].other = call[p].other
        /\ call'[p].highest = Highest
    BY <1>1, <2>1 DEF Call
  <2>3. /\ call[p].pc = "highest" /\ Rivals(p)' = Rivals(p) /\ Highest' = Highest
    BY <1>1, <1>7, <2>2 DEF ReadHighest, Rivals, NumberOf, Highest
  <2> QED
    BY <1>1, <2>2, <2>3 DEF CallCurrent
<1> QED
  BY <1>5, <1>6, <1>7

\* What a call deletes is the one header of its number, and that one not final.
LEMMA DecideCurrent ==
  ASSUME Inv, OneHeaderPerHeight, NEW p \in Callers, CallCurrent(p), Remove(p) \/ Skip(p)
  PROVE  CallCurrent(p)'
<1>1. /\ call[p] \in Call /\ Number[call[p].block] \in Nat /\ UNCHANGED headers
      /\ call[p].pc = "decide" /\ call[p].matching = Null
  BY AskedFor DEF Inv, Remove, Skip
<1>2. /\ \A h \in Rivals(p) : headers[h].block # call[p].block
      /\ call[p].highest = Highest
      /\ IF call[p].other = Null
         THEN \A h \in Rivals(p) : headers[h].block = call[p].block
         ELSE call[p].other \in Rivals(p)
  BY <1>1 DEF CallCurrent
<1>3. \A g, h \in Rivals(p) : g = h
  BY DEF Rivals, OneHeaderPerHeight
<1>4. \E k : /\ call'[p] = k /\ k.pc = "insert" /\ k.block = call[p].block
             /\ k.removed = IF Remove(p) THEN {call[p].other} \cap DOMAIN headers
                                         ELSE call[p].removed
  <2> DEFINE gone == {call[p].other} \cap DOMAIN headers
             k == [call[p] EXCEPT !.pc = "insert", !.removed = gone]
             j == [call[p] EXCEPT !.pc = "insert"]
  <2>1. /\ k.pc = "insert" /\ k.block = call[p].block /\ k.removed = gone
        /\ j.pc = "insert" /\ j.block = call[p].block /\ j.removed = call[p].removed
    BY <1>1 DEF Call
  <2>2. Remove(p) => call'[p] = k
    BY SetLookup DEF Remove, Inv
  <2>3. Skip(p) => call'[p] = j
    BY SetLookup DEF Skip, Inv
  <2> QED
    BY <2>1, <2>2, <2>3
<1>5. call'[p].pc = "insert" /\ Rivals(p)' = Rivals(p)
  BY <1>1, <1>4 DEF Rivals, NumberOf
<1>6. CASE Remove(p)
  <2>1. call[p].other \in Rivals(p) /\ call[p].highest # {} /\ ~ Deep(call[p])
    BY <1>2, <1>6 DEF Remove
  <2>2. Rivals(p) = {call[p].other} /\ Rivals(p) \subseteq DOMAIN headers
    BY <1>3, <2>1 DEF Rivals
  <2>3. Rivals(p)' = call'[p].removed
    BY <1>4, <1>5, <1>6, <2>2
  <2>4. ASSUME NEW h \in DOMAIN headers
        PROVE  NumberOf(h) < Number[call[p].block] + Window
    <3>1. PICK n \in Highest : TRUE
      BY <1>2, <2>1
    <3>2. NumberOf(h) <= n /\ ~ (Number[call[p].block] + Window <= n)
      BY <1>2, <2>1, <3>1 DEF Highest, Deep
    <3>3. NumberOf(h) \in Nat /\ n \in Nat /\ Window \in Nat
      BY <3>1, HeaderTypes, ChainAssumption DEF Inv, Highest
    <3> QED
      BY <1>1, <3>2, <3>3
  <2> QED
    BY <1>1, <1>4, <1>5, <2>3, <2>4 DEF CallCurrent, NumberOf
<1>7. CASE Skip(p) /\ ~ Remove(p)
  <2>1. call[p].other = Null
    <3>1. SUFFICES ASSUME call[p].other # Null PROVE FALSE
      OBVIOUS
    <3>2. call[p].highest = {} /\ call[p].other \in DOMAIN headers
      BY <1>2, <1>7, <3>1 DEF Skip, Rivals
    <3>3. Highest # {}
      BY <3>2 DEF Inv, TableInv, Highest
    <3> QED
      BY <1>2, <3>2, <3>3
  <2>2. Rivals(p) = {}
    BY <1>2, <2>1
  <2>3. call[p].removed = {}
    BY <1>7, NoLockYet DEF Skip, Inv
  <2> QED
    BY <1>4, <1>5, <1>7, <2>2, <2>3 DEF CallCurrent
<1> QED
  BY <1>6, <1>7

\* The only session goes on from what is there.
LEMMA SerialStep ==
  ASSUME \A p, q \in Callers : p = q, Inv, SerialInv, [Next]_vars
  PROVE  SerialInv'
<1>1. CASE Next
  <2>1. PICK p \in Callers : Ask(p) \/ Step(p) \/ Fault(p)
    BY <1>1 DEF Next
  <2>2. CallCurrent(p)'
    <3>1. CASE ReadMatching(p) \/ ReadOther(p) \/ ReadHighest(p)
      BY <3>1, LookupCurrent DEF SerialInv
    <3>2. CASE Remove(p) \/ Skip(p)
      BY <3>2, DecideCurrent DEF SerialInv
    <3>3. CASE Ask(p) \/ Retry(p) \/ Return(p) \/ Insert(p) \/ Refuse(p) \/ Fault(p)
      <4>1. \E k : Set(p, k) /\ k.pc \in {"idle", "matching", "failed"}
        <5>1. /\ \A b, n : NewCall(b, n).pc = "matching"
              /\ IdleCall.pc = "idle" /\ \A k : Failed(k).pc = "failed"
          BY DEF NewCall, IdleCall, Failed, CallOf
        <5> QED
          BY <3>3, <5>1 DEF Ask, Retry, Return, Insert, Refuse, Fault
      <4>2. call'[p].pc \in {"idle", "matching", "failed"}
        BY <4>1, SetLookup DEF Inv
      <4> QED
        BY <4>2 DEF CallCurrent
    <3> QED
      BY <2>1, <3>1, <3>2, <3>3 DEF Step
  <2>3. \A q \in Callers : q = p
    OBVIOUS
  <2>4. OneHeaderPerHeight'
    <3>1. CASE Insert(p)
      <4>1. Exchanged(p) /\ Rivals(p) = call[p].removed
        BY <3>1, InsertExchanges DEF SerialInv, CallCurrent, Insert
      <4>2. \A h \in DOMAIN headers \ call[p].removed : NumberOf(h) # Number[call[p].block]
        BY <4>1 DEF Rivals
      <4> QED
        BY <4>1, <4>2 DEF Exchanged, SerialInv, OneHeaderPerHeight, NumberOf
    <3>2. CASE UNCHANGED headers
      BY <3>2 DEF SerialInv, OneHeaderPerHeight, NumberOf
    <3> QED
      BY <2>3, <3>1, <3>2, OnlyInserts
  <2> QED
    BY <2>2, <2>3, <2>4 DEF SerialInv
<1>2. CASE UNCHANGED vars
  BY <1>2 DEF vars, SerialInv, OneHeaderPerHeight, CallCurrent, Rivals, NumberOf, Highest
<1> QED
  BY <1>1, <1>2

\* With one session the function is one atomic step on a chain, for calls of any
\* number of nodes, whatever fails between its statements: what it exchanges is
\* never final.
THEOREM SerialCallsFormChain ==
  ASSUME \A p, q \in Callers : p = q
  PROVE  Spec => ImplementsChain
<1>1. Init => SerialInv
  <2>1. Init => DOMAIN headers = {} /\ \A p \in Callers : call[p].pc = "idle"
    BY EmptyType DEF Init, IdleCall, CallOf
  <2> QED
    BY <2>1 DEF SerialInv, OneHeaderPerHeight, CallCurrent
<1>2. Inv /\ SerialInv /\ [Next]_vars => SerialInv'
  BY SerialStep
<1>3. ASSUME Inv, SerialInv, [Next]_vars
      PROVE  [Chain!Next]_ChainNow
  <2>1. ASSUME NEW p \in Callers, Insert(p)
        PROVE  Chain!Next
    <3>1. PICK b : b = call[p].block
      OBVIOUS
    <3>2. /\ Rivals(p) = call[p].removed
          /\ call[p].removed # {} =>
               \A h \in DOMAIN headers : NumberOf(h) < Number[b] + Window
      BY <1>3, <2>1, <3>1 DEF SerialInv, CallCurrent, Insert
    <3>3. /\ b \in Blocks /\ ChainNow' = With(ChainNow, Number[b], {b})
          /\ Number[b] \in Heights <=> call[p].removed # {}
      BY <1>3, <2>1, <3>1, <3>2, InsertOnChain
    <3>4. Number[b] \in Heights => \A n \in Heights : n < Number[b] + Window
      BY <3>2, <3>3 DEF Heights
    <3>5. Chain!Extend(b) \/ Chain!Replace(b)
      BY <3>3, <3>4 DEF Chain!Extend, Chain!Replace, Chain!Exchange, Chain!With, With,
        ChainNow, BlocksAt
    <3> QED
      BY <3>3, <3>5 DEF Chain!Next
  <2>2. CASE UNCHANGED headers
    BY <2>2 DEF ChainNow, BlocksAt, Heights, NumberOf
  <2> QED
    BY <1>3, <2>1, <2>2, OnlyInserts
<1>4. Inv /\ SerialInv /\ [Next]_vars => [Chain!Next]_ChainNow
  BY <1>3
<1> QED
  BY <1>1, <1>2, <1>4, ChainInit, Invariance, PTL
  DEF Spec, ImplementsChain, Chain!Spec, ChainNow, BlocksAt
=============================================================================

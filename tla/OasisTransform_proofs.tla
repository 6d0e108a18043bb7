------------------------ MODULE OasisTransform_proofs ------------------------
(* The catalogue of transformers, and type correctness of the pipeline. *)
EXTENDS OasisTransform, BasicTheorems, TLAPS

-----------------------------------------------------------------------------
(* What holds of every transformer of the catalogue.                       *)

\* The calls of a transformer are calls, there is at least one, and an id goes
\* to the column of the argument it was asked for.
CallsWellFormed(calls) ==
  /\ calls \in Seq(Call)
  /\ Len(calls) \in Nat \ {0}
  /\ \A i \in 1 .. Len(calls) : calls[i].column = calls[i].arg

\* The values of the models are the columns of the table that are not foreign
\* keys, and only foreign keys are named like an address.
ColumnsWellFormed(tr, tab) ==
  /\ tab.fks \subseteq AddressColumns
  /\ tr.values \cap AddressColumns = {}
  /\ tr.values = tab.integers \cup tab.others

\* The helpers of the catalogue build calls.
LEMMA CallTyping ==
  ASSUME NEW name \in AddressColumns
  PROVE  /\ Hex(name) \in Call /\ Hex(name).column = Hex(name).arg
         /\ TopicHex(name) \in Call /\ TopicHex(name).column = TopicHex(name).arg
  BY DEF Call, Hex, TopicHex, Forms

\* Each transformer makes at least one call, and its calls fill the columns that
\* are named like the arguments they ask for.
THEOREM CallsOK == \A t \in Transformers : CallsWellFormed(Calls(t))
<1>1. CallsWellFormed(LogBump.calls)
  BY CallTyping DEF LogBump, CallsWellFormed, AddressColumns
<1>2. CallsWellFormed(LogBuyEnabled.calls)
  BY CallTyping DEF LogBuyEnabled, CallsWellFormed, AddressColumns
<1>3. CallsWellFormed(LogDelete.calls)
  BY CallTyping DEF LogDelete, CallsWellFormed, AddressColumns
<1>4. CallsWellFormed(LogInsert.calls)
  BY CallTyping DEF LogInsert, CallsWellFormed, AddressColumns
<1>5. CallsWellFormed(LogItemUpdate.calls)
  BY CallTyping DEF LogItemUpdate, CallsWellFormed, AddressColumns
<1>6. CallsWellFormed(LogKill.calls)
  BY CallTyping DEF LogKill, CallsWellFormed, AddressColumns
<1>7. CallsWellFormed(LogMake.calls)
  BY CallTyping DEF LogMake, CallsWellFormed, AddressColumns
<1>8. CallsWellFormed(LogMatchingEnabled.calls)
  BY CallTyping DEF LogMatchingEnabled, CallsWellFormed, AddressColumns
<1>9. CallsWellFormed(LogMinSell.calls)
  BY CallTyping DEF LogMinSell, CallsWellFormed, AddressColumns
<1>10. CallsWellFormed(LogSortedOffer.calls)
  BY CallTyping DEF LogSortedOffer, CallsWellFormed, AddressColumns
<1>11. CallsWellFormed(LogTake.calls)
  BY CallTyping DEF LogTake, CallsWellFormed, AddressColumns
<1>12. CallsWellFormed(LogTrade.calls)
  BY CallTyping DEF LogTrade, CallsWellFormed, AddressColumns
<1>13. CallsWellFormed(LogUnsortedOffer.calls)
  BY CallTyping DEF LogUnsortedOffer, CallsWellFormed, AddressColumns
<1>14. CallsWellFormed(SetMinSell.calls)
  BY CallTyping DEF SetMinSell, CallsWellFormed, AddressColumns
<1> QED
  BY <1>1, <1>2, <1>3, <1>4, <1>5, <1>6, <1>7, <1>8, <1>9, <1>10, <1>11, <1>12, <1>13, <1>14
  DEF Calls, Transformer, Transformers

\* The columns of each table are the foreign keys and values of its transformer.
LEMMA ColumnsOK ==
  \A t \in Transformers : ColumnsWellFormed(Transformer[t], Table[t])
<1>1. ColumnsWellFormed(LogBump, LogBumpTable)
  BY DEF LogBump, LogBumpTable, ColumnsWellFormed, AddressColumns
<1>2. ColumnsWellFormed(LogBuyEnabled, LogBuyEnabledTable)
  BY DEF LogBuyEnabled, LogBuyEnabledTable, ColumnsWellFormed, AddressColumns
<1>3. ColumnsWellFormed(LogDelete, LogDeleteTable)
  BY DEF LogDelete, LogDeleteTable, ColumnsWellFormed, AddressColumns
<1>4. ColumnsWellFormed(LogInsert, LogInsertTable)
  BY DEF LogInsert, LogInsertTable, ColumnsWellFormed, AddressColumns
<1>5. ColumnsWellFormed(LogItemUpdate, LogItemUpdateTable)
  BY DEF LogItemUpdate, LogItemUpdateTable, ColumnsWellFormed, AddressColumns
<1>6. ColumnsWellFormed(LogKill, LogKillTable)
  BY DEF LogKill, LogKillTable, ColumnsWellFormed, AddressColumns
<1>7. ColumnsWellFormed(LogMake, LogMakeTable)
  BY DEF LogMake, LogMakeTable, ColumnsWellFormed, AddressColumns
<1>8. ColumnsWellFormed(LogMatchingEnabled, LogMatchingEnabledTable)
  BY DEF LogMatchingEnabled, LogMatchingEnabledTable, ColumnsWellFormed, AddressColumns
<1>9. ColumnsWellFormed(LogMinSell, LogMinSellTable)
  BY DEF LogMinSell, LogMinSellTable, ColumnsWellFormed, AddressColumns
<1>10. ColumnsWellFormed(LogSortedOffer, LogSortedOfferTable)
  BY DEF LogSortedOffer, LogSortedOfferTable, ColumnsWellFormed, AddressColumns
<1>11. ColumnsWellFormed(LogTake, LogTakeTable)
  BY DEF LogTake, LogTakeTable, ColumnsWellFormed, AddressColumns
<1>12. ColumnsWellFormed(LogTrade, LogTradeTable)
  BY DEF LogTrade, LogTradeTable, ColumnsWellFormed, AddressColumns
<1>13. ColumnsWellFormed(LogUnsortedOffer, LogUnsortedOfferTable)
  BY DEF LogUnsortedOffer, LogUnsortedOfferTable, ColumnsWellFormed, AddressColumns
<1>14. ColumnsWellFormed(SetMinSell, SetMinSellTable)
  BY DEF SetMinSell, SetMinSellTable, ColumnsWellFormed, AddressColumns
<1> QED
  BY <1>1, <1>2, <1>3, <1>4, <1>5, <1>6, <1>7, <1>8, <1>9, <1>10, <1>11, <1>12, <1>13, <1>14
  DEF Transformer, Transformers, Table

\* A model fits its table exactly when it has the table's foreign keys, and exactly then
\* it fills every column.
THEOREM FitIsExact ==
  ASSUME NEW t \in Transformers, NEW S \in SUBSET AddressColumns
  PROVE  /\ ColumnsFit(t, S) <=> S = Table[t].fks
         /\ S = Table[t].fks <=> S \cup Transformer[t].values = TableColumns(t)
  BY ColumnsOK DEF ColumnsWellFormed, ColumnsFit, TableColumns

-----------------------------------------------------------------------------
(* The inductive invariant behind TypeOK.                                  *)

AddressTypes ==
  PartialFunction(addresses, Texts, Ids) /\ nextAddress \in Ids

LogTypes ==
  /\ PartialFunction(eventLogs, Ids, EventLog)
  /\ IsFiniteSet(DOMAIN eventLogs)
  /\ nextLog \in Ids

HeaderTypes ==
  /\ PartialFunction(headers, Ids, Blocks) /\ nextHeader \in Ids
  /\ PartialFunction(transactions, Txs, Ids)

RowTypes == rows \subseteq Row /\ nextRow \in Ids

\* A batch is finite; every log of it has its model or is still to do; there is
\* a call to make as long as one is to do.
BatchOK(k) ==
  /\ IsFiniteSet(DOMAIN k.batch)
  /\ DOMAIN k.models \cup k.todo = DOMAIN k.batch
  /\ k.pc \in {"decode", "create"} => k.call \in 1 .. Len(Calls(k.event))

WorkTypes ==
  /\ DOMAIN work = Workers /\ work = [w \in Workers |-> work[w]]
  /\ \A w \in Workers : WorkOK(work[w]) /\ BatchOK(work[w])

TypeInv ==
  /\ AddressTypes
  /\ LogTypes
  /\ HeaderTypes
  /\ RowTypes
  /\ WorkTypes
  /\ faults \in Nat

-----------------------------------------------------------------------------
(* Operators.                                                              *)

\* The record of an idle worker is one.
LEMMA IdleOK == WorkOK(IdleWork) /\ BatchOK(IdleWork)
<1>1. PartialFunction(Empty, Ids, Snapshot) /\ DOMAIN Empty = {}
  BY EmptyType
<1>2. PartialFunction(Empty, {}, Model)
  BY EmptyType
<1>3. IsFiniteSet({})
  BY FS_EmptySet
<1>4. NoFks \in Fks
  BY DEF NoFks, Fks, Null
<1> QED
  BY <1>1, <1>2, <1>3, <1>4 DEF IdleWork, WorkOK, BatchOK, Ids

\* The record of a worker after a call, and after the last call for a log.
LEMMA NextCallRecord ==
  ASSUME NEW k,
         k = [pc |-> k.pc, event |-> k.event, batch |-> k.batch, todo |-> k.todo,
              call |-> k.call, fks |-> k.fks, models |-> k.models],
         NEW call, NEW fks
  PROVE  [k EXCEPT !.call = call, !.fks = fks] =
           [pc |-> k.pc, event |-> k.event, batch |-> k.batch, todo |-> k.todo,
            call |-> call, fks |-> fks, models |-> k.models]
<1> DEFINE f == [k EXCEPT !.call = call, !.fks = fks]
<1>1. DOMAIN k = {"pc", "event", "batch", "todo", "call", "fks", "models"}
  OBVIOUS
<1>2. DOMAIN f = DOMAIN k /\ f = [x \in DOMAIN f |-> f[x]]
  OBVIOUS
<1>3. f.pc = k.pc
  BY <1>1
<1>4. f.event = k.event
  BY <1>1
<1>5. f.batch = k.batch
  BY <1>1
<1>6. f.todo = k.todo
  BY <1>1
<1>7. f.call = call
  BY <1>1
<1>8. f.fks = fks
  BY <1>1
<1>9. f.models = k.models
  BY <1>1
<1> HIDE DEF f
<1>10. f = [pc |-> f.pc, event |-> f.event, batch |-> f.batch, todo |-> f.todo,
            call |-> f.call, fks |-> f.fks, models |-> f.models]
  BY <1>1, <1>2
<1>11. f = [pc |-> k.pc, event |-> k.event, batch |-> k.batch, todo |-> k.todo,
            call |-> call, fks |-> fks, models |-> k.models]
  BY <1>3, <1>4, <1>5, <1>6, <1>7, <1>8, <1>9, <1>10
<1> QED
  BY <1>11 DEF f

\* The record of a worker once the model of a log is complete.
LEMMA NextLogRecord ==
  ASSUME NEW k,
         k = [pc |-> k.pc, event |-> k.event, batch |-> k.batch, todo |-> k.todo,
              call |-> k.call, fks |-> k.fks, models |-> k.models],
         NEW call, NEW fks, NEW todo, NEW pc, NEW models
  PROVE  [k EXCEPT !.call = call, !.fks = fks, !.todo = todo, !.pc = pc, !.models = models] =
           [pc |-> pc, event |-> k.event, batch |-> k.batch, todo |-> todo,
            call |-> call, fks |-> fks, models |-> models]
<1> DEFINE f == [k EXCEPT !.call = call, !.fks = fks, !.todo = todo, !.pc = pc, !.models = models]
<1>1. DOMAIN k = {"pc", "event", "batch", "todo", "call", "fks", "models"}
  OBVIOUS
<1>2. DOMAIN f = DOMAIN k /\ f = [x \in DOMAIN f |-> f[x]]
  OBVIOUS
<1>3. f.pc = pc
  BY <1>1
<1>4. f.event = k.event
  BY <1>1
<1>5. f.batch = k.batch
  BY <1>1
<1>6. f.todo = todo
  BY <1>1
<1>7. f.call = call
  BY <1>1
<1>8. f.fks = fks
  BY <1>1
<1>9. f.models = models
  BY <1>1
<1> HIDE DEF f
<1>10. f = [pc |-> f.pc, event |-> f.event, batch |-> f.batch, todo |-> f.todo,
            call |-> f.call, fks |-> f.fks, models |-> f.models]
  BY <1>1, <1>2
<1>11. f = [pc |-> pc, event |-> k.event, batch |-> k.batch, todo |-> todo,
            call |-> call, fks |-> fks, models |-> models]
  BY <1>3, <1>4, <1>5, <1>6, <1>7, <1>8, <1>9, <1>10
<1> QED
  BY <1>11 DEF f

\* Assigning one worker leaves the type of the others alone.
LEMMA SetWork ==
  ASSUME WorkTypes, NEW w \in Workers, NEW k, WorkOK(k), BatchOK(k),
         work' = [work EXCEPT ![w] = k]
  PROVE  WorkTypes'
  BY DEF WorkTypes, WorkOK, BatchOK

\* GetOrCreateAddress keeps the type of the address table and answers with an id.
LEMMA GetOrCreateAddressTypes ==
  ASSUME AddressTypes, NEW text \in Texts, GetOrCreateAddress(text)
  PROVE  /\ AddressTypes'
         /\ Canonical(text) \in DOMAIN addresses'
         /\ addresses'[Canonical(text)] \in Ids
<1>1. Canonical(text) \in Texts
  BY DEF Canonical, Checksum, Texts, Forms
<1>2. CASE Canonical(text) \in DOMAIN addresses
  BY <1>2, LookupType DEF AddressTypes, GetOrCreateAddress
<1>3. CASE Canonical(text) \notin DOMAIN addresses
  <2>1. /\ addresses' = With(addresses, Canonical(text), nextAddress)
        /\ nextAddress' = nextAddress + 1
    BY <1>3 DEF GetOrCreateAddress
  <2>2. PartialFunction(addresses', Texts, Ids)
    BY <1>1, <2>1, WithType DEF AddressTypes
  <2>3. nextAddress' \in Ids
    BY <2>1 DEF AddressTypes, Ids
  <2>4. /\ Canonical(text) \in DOMAIN addresses'
        /\ addresses'[Canonical(text)] = nextAddress
    BY <2>1 DEF With
  <2> QED
    BY <2>2, <2>3, <2>4 DEF AddressTypes
<1> QED
  BY <1>2, <1>3

\* The tables stay tables when rows are deleted by cascade.
LEMMA CascadeTypes ==
  ASSUME LogTypes, PartialFunction(transactions, Txs, Ids), RowTypes,
         NEW gone, Cascade(gone)
  PROVE  /\ PartialFunction(transactions', Txs, Ids)
         /\ PartialFunction(eventLogs', Ids, EventLog)
         /\ IsFiniteSet(DOMAIN eventLogs')
         /\ rows' \subseteq rows
<1>1. PICK S, T : /\ transactions' = Without(transactions, S)
                  /\ eventLogs' = Without(eventLogs, T)
                  /\ rows' \subseteq rows
  BY DEF Cascade
<1>2. DOMAIN eventLogs' \subseteq DOMAIN eventLogs
  <2>1. DOMAIN Without(eventLogs, T) = DOMAIN eventLogs \ T
    BY WithoutLookup, Zenon
  <2> QED
    BY <1>1, <2>1
<1>3. IsFiniteSet(DOMAIN eventLogs')
  BY <1>2, FS_Subset DEF LogTypes
<1> QED
  BY <1>1, <1>3, WithoutType DEF LogTypes

-----------------------------------------------------------------------------
\* The empty database has its types.
LEMMA TypeInit == Init => TypeInv
<1> SUFFICES ASSUME Init PROVE TypeInv
  OBVIOUS
<1>1. AddressTypes /\ HeaderTypes
  BY EmptyType DEF Init, AddressTypes, HeaderTypes, Ids
<1>2. LogTypes
  BY EmptyType, FS_EmptySet DEF Init, LogTypes, Ids
<1>3. RowTypes /\ faults \in Nat
  BY DEF Init, RowTypes, Ids
<1>4. WorkTypes
  BY IdleOK DEF Init, WorkTypes
<1> QED
  BY <1>1, <1>2, <1>3, <1>4 DEF TypeInv

-----------------------------------------------------------------------------
(* One lemma per action.                                                   *)

\* Header sync keeps every type.
LEMMA HeaderSyncTypes ==
  ASSUME TypeInv, NEW b \in Blocks, HeaderSync(b)
  PROVE  TypeInv'
<1>1. AddressTypes' /\ faults' \in Nat
  BY DEF TypeInv, AddressTypes, HeaderSync
<1>2. PICK S : Cascade(S)
  BY DEF HeaderSync
<1>3. LogTypes' /\ RowTypes' /\ PartialFunction(transactions', Txs, Ids)
  BY <1>2, CascadeTypes DEF TypeInv, HeaderTypes, LogTypes, RowTypes, HeaderSync
<1>4. PartialFunction(headers', Ids, Blocks) /\ nextHeader' \in Ids
  <2>1. PICK stale : headers' = With(Without(headers, stale), nextHeader, b)
    BY DEF HeaderSync
  <2>2. nextHeader \in Ids /\ nextHeader' = nextHeader + 1
    BY DEF TypeInv, HeaderTypes, HeaderSync
  <2>3. PartialFunction(Without(headers, stale), Ids, Blocks)
    BY WithoutType DEF TypeInv, HeaderTypes
  <2>4. PartialFunction(headers', Ids, Blocks)
    BY <2>1, <2>2, <2>3, WithType
  <2> QED
    BY <2>2, <2>4 DEF Ids
<1>5. WorkTypes'
  BY DEF TypeInv, WorkTypes, HeaderSync
<1> QED
  BY <1>1, <1>3, <1>4, <1>5 DEF TypeInv, HeaderTypes

\* A raw log is one of the shapes its content declares.
LEMMA RawTypes ==
  ASSUME NEW raw \in RawLogs
  PROVE  /\ Content[raw].event \in Transformers
         /\ Content[raw].tx \in Txs
         /\ Content[raw].account \in [AddressColumns -> Accounts]
         /\ \A c \in AddressColumns : Content[raw].account[c] \in Accounts
  BY ContentAssumption DEF RawLog

\* Extraction keeps every type.
LEMMA ExtractTypes ==
  ASSUME TypeInv, NEW h \in DOMAIN headers, NEW raw \in RawLogs, Extract(h, raw)
  PROVE  TypeInv'
<1> DEFINE contract == Checksum(Content[raw].account["address_id"])
           log == [header |-> h, address |-> addresses'[contract],
                   raw |-> raw, transformed |-> FALSE]
<1>1. contract \in Texts /\ Canonical(contract) = contract
  BY RawTypes DEF Texts, Checksum, Forms, Canonical, AddressColumns
<1>2. AddressTypes' /\ addresses'[contract] \in Ids
  BY <1>1, GetOrCreateAddressTypes DEF TypeInv, Extract
<1>3. h \in Ids
  BY LookupType DEF TypeInv, HeaderTypes
<1>4. log \in EventLog
  BY <1>2, <1>3 DEF EventLog
<1>5. eventLogs' = With(eventLogs, nextLog, log) /\ nextLog' = nextLog + 1
  BY DEF Extract
<1>6. LogTypes'
  <2>1. PartialFunction(eventLogs', Ids, EventLog)
    BY <1>4, <1>5, WithType DEF TypeInv, LogTypes
  <2>2. DOMAIN eventLogs' = DOMAIN eventLogs \cup {nextLog}
    BY <1>5 DEF With
  <2>3. IsFiniteSet(DOMAIN eventLogs')
    BY <2>2, FS_AddElement DEF TypeInv, LogTypes
  <2> QED
    BY <1>5, <2>1, <2>3 DEF TypeInv, LogTypes, Ids
<1>7. HeaderTypes'
  <2>1. Content[raw].tx \in Txs
    BY RawTypes
  <2>2. PartialFunction(transactions', Txs, Ids)
    BY <1>3, <2>1, WithType DEF TypeInv, HeaderTypes, Extract
  <2> QED
    BY <2>2 DEF TypeInv, HeaderTypes, Extract
<1>8. RowTypes' /\ WorkTypes' /\ faults' \in Nat
  BY DEF TypeInv, RowTypes, WorkTypes, Extract
<1> QED
  BY <1>2, <1>6, <1>7, <1>8 DEF TypeInv

\* A fetched batch is one.
LEMMA FetchTypes ==
  ASSUME TypeInv, NEW w \in Workers, NEW t \in Transformers,
         NEW batch \in SUBSET DOMAIN eventLogs, Fetch(w, t, batch)
  PROVE  TypeInv'
<1> DEFINE k == [pc |-> IF Transformer[t].verify = "upfront" THEN "decode" ELSE "create",
            event |-> t,
            batch |-> [l \in batch |-> [header |-> eventLogs[l].header,
                                        raw |-> eventLogs[l].raw]],
            todo |-> batch, call |-> 1, fks |-> NoFks, models |-> Empty]
<1>1. /\ k.pc \in {"decode", "create"} /\ k.event = t /\ k.todo = batch
      /\ k.batch = [l \in batch |-> [header |-> eventLogs[l].header,
                                     raw |-> eventLogs[l].raw]]
      /\ k.call = 1 /\ k.fks = NoFks /\ k.models = Empty
      /\ k = [pc |-> k.pc, event |-> k.event, batch |-> k.batch, todo |-> k.todo,
              call |-> k.call, fks |-> k.fks, models |-> k.models]
  OBVIOUS
<1>2. work' = [work EXCEPT ![w] = k]
  BY DEF Fetch
<1> HIDE DEF k
<1>3. PartialFunction(k.batch, Ids, Snapshot)
  <2>1. \A l \in batch : l \in Ids /\ eventLogs[l] \in EventLog
    BY LookupType DEF TypeInv, LogTypes
  <2> QED
    BY <1>1, <2>1 DEF PartialFunction, Snapshot, EventLog
<1>4. WorkOK(k)
  <2>1. PartialFunction(k.models, DOMAIN k.batch, Model)
    BY <1>1, EmptyType
  <2>2. k.fks \in Fks
    BY <1>1 DEF Fks, NoFks, Null
  <2> QED
    BY <1>1, <1>3, <2>1, <2>2 DEF WorkOK, Ids
<1>5. BatchOK(k)
  <2>1. IsFiniteSet(batch)
    BY FS_Subset DEF TypeInv, LogTypes
  <2>2. Len(Calls(t)) \in Nat \ {0}
    BY CallsOK DEF CallsWellFormed
  <2>3. DOMAIN Empty = {}
    BY DEF Empty
  <2> QED
    BY <1>1, <2>1, <2>2, <2>3 DEF BatchOK
<1>6. WorkTypes'
  BY <1>2, <1>4, <1>5, SetWork DEF TypeInv
<1> QED
  BY <1>6 DEF TypeInv, Fetch, chain, AddressTypes, LogTypes, HeaderTypes, RowTypes

\* Decoding keeps every type.
LEMMA DecodeTypes ==
  ASSUME TypeInv, NEW w \in Workers, Decode(w)
  PROVE  TypeInv'
<1> DEFINE k == [work[w] EXCEPT !.pc = "create"]
<1>1. WorkOK(work[w]) /\ BatchOK(work[w]) /\ work[w].pc = "decode"
  BY DEF TypeInv, WorkTypes, Decode
<1>2. /\ k.pc = "create" /\ k.event = work[w].event /\ k.batch = work[w].batch
      /\ k.todo = work[w].todo /\ k.call = work[w].call /\ k.fks = work[w].fks
      /\ k.models = work[w].models
      /\ k = [pc |-> k.pc, event |-> k.event, batch |-> k.batch, todo |-> k.todo,
              call |-> k.call, fks |-> k.fks, models |-> k.models]
  BY <1>1 DEF WorkOK
<1>3. work' = [work EXCEPT ![w] = k]
  BY DEF Decode
<1> HIDE DEF k
<1>4. WorkOK(k) /\ BatchOK(k)
  BY <1>1, <1>2 DEF WorkOK, BatchOK
<1>5. WorkTypes'
  BY <1>3, <1>4, SetWork DEF TypeInv
<1> QED
  BY <1>5 DEF TypeInv, Decode, chain, AddressTypes, LogTypes, HeaderTypes, RowTypes

\* A worker that gives up leaves the other workers alone.
LEMMA GiveUpTypes ==
  ASSUME WorkTypes, NEW w \in Workers, GiveUp(w)
  PROVE  WorkTypes'
  BY IdleOK, SetWork DEF GiveUp

\* Rejecting a batch keeps every type.
LEMMA RejectTypes ==
  ASSUME TypeInv, NEW w \in Workers, Reject(w)
  PROVE  TypeInv'
  BY GiveUpTypes
  DEF TypeInv, Reject, chain, AddressTypes, LogTypes, HeaderTypes, RowTypes

\* Rolling a batch back keeps every type.
LEMMA RollbackTypes ==
  ASSUME TypeInv, NEW w \in Workers, Rollback(w)
  PROVE  TypeInv'
  BY GiveUpTypes
  DEF TypeInv, Rollback, chain, AddressTypes, LogTypes, HeaderTypes, RowTypes

\* A fault keeps every type.
LEMMA FaultTypes ==
  ASSUME TypeInv, NEW w \in Workers, Fault(w)
  PROVE  TypeInv'
  BY GiveUpTypes
  DEF TypeInv, Fault, chain, AddressTypes, LogTypes, HeaderTypes, RowTypes

\* The call a worker is at is one of its transformer, for a column and a text that exist.
LEMMA CallTypes ==
  ASSUME NEW t \in Transformers
  PROVE  /\ Len(Calls(t)) \in Nat \ {0}
         /\ \A i \in 1 .. Len(Calls(t)) :
              /\ Calls(t)[i] \in Call
              /\ Calls(t)[i].arg \in AddressColumns
              /\ Calls(t)[i].column \in AddressColumns
              /\ Calls(t)[i].form \in Forms
<1>1. CallsWellFormed(Calls(t))
  BY CallsOK
<1>2. Len(Calls(t)) \in Nat \ {0} /\ Calls(t) \in Seq(Call)
  BY <1>1 DEF CallsWellFormed
<1>3. \A i \in 1 .. Len(Calls(t)) : Calls(t)[i] \in Call
  BY <1>2
<1> QED
  BY <1>2, <1>3 DEF Call

\* A worker whose call was answered still holds a batch.
LEMMA AnsweredTypes ==
  ASSUME NEW k, WorkOK(k), BatchOK(k), k.pc = "create", NEW l \in k.todo,
         NEW id \in Ids
  PROVE  WorkOK(Answered(k, l, id)) /\ BatchOK(Answered(k, l, id))
<1> DEFINE call == Calls(k.event)[k.call]
           fks == [k.fks EXCEPT ![call.column] = id]
           model == [event |-> k.event, header |-> k.batch[l].header,
                     fk |-> fks, raw |-> k.batch[l].raw]
<1>1. k.event \in Transformers /\ k.call \in 1 .. Len(Calls(k.event))
  BY DEF WorkOK, BatchOK
<1>2. Len(Calls(k.event)) \in Nat \ {0} /\ call.column \in AddressColumns
  BY <1>1, CallTypes
<1>3. fks \in Fks
  BY <1>2 DEF WorkOK, Fks
<1>4. CASE k.call < Len(Calls(k.event))
  <2> DEFINE next == [pc |-> k.pc, event |-> k.event, batch |-> k.batch, todo |-> k.todo,
                      call |-> k.call + 1, fks |-> fks, models |-> k.models]
  <2>1. Answered(k, l, id) = [k EXCEPT !.call = k.call + 1, !.fks = fks]
    BY <1>4 DEF Answered
  <2> HIDE DEF fks
  <2>2. Answered(k, l, id) = next
    BY <2>1, NextCallRecord DEF WorkOK
  <2>3. WorkOK(next)
    BY <1>3 DEF WorkOK, Ids
  <2>4. BatchOK(next)
    BY <1>1, <1>2, <1>4 DEF BatchOK
  <2> QED
    BY <2>2, <2>3, <2>4
<1>5. CASE ~ (k.call < Len(Calls(k.event)))
  <2> DEFINE next == [pc |-> IF k.todo = {l} THEN "persist" ELSE "create",
                      event |-> k.event, batch |-> k.batch, todo |-> k.todo \ {l},
                      call |-> 1, fks |-> NoFks, models |-> With(k.models, l, model)]
  <2>1. Answered(k, l, id) =
          [k EXCEPT !.call = 1, !.fks = NoFks, !.todo = k.todo \ {l},
                    !.pc = IF k.todo = {l} THEN "persist" ELSE "create",
                    !.models = With(k.models, l, model)]
    BY <1>5 DEF Answered
  <2> HIDE DEF fks
  <2>2. l \in DOMAIN k.batch /\ k.batch[l] \in Snapshot
    BY LookupType DEF WorkOK
  <2>3. model \in Model
    BY <1>1, <1>3, <2>2 DEF Model, Snapshot
  <2> HIDE DEF model
  <2>4. Answered(k, l, id) = next
    BY <2>1, NextLogRecord DEF WorkOK
  <2>5. PartialFunction(With(k.models, l, model), DOMAIN k.batch, Model)
    BY <2>2, <2>3, WithType DEF WorkOK
  <2>6. DOMAIN next.models \cup next.todo = DOMAIN k.batch
    BY <2>2 DEF BatchOK, With
  <2>7. next.pc = "persist" => DOMAIN next.models = DOMAIN next.batch
    BY <2>6
  <2>8. NoFks \in Fks
    BY DEF NoFks, Fks, Null
  <2>9. WorkOK(next)
    BY <1>1, <2>5, <2>7, <2>8 DEF WorkOK, Ids
  <2>10. BatchOK(next)
    BY <1>2, <2>6 DEF BatchOK
  <2> QED
    BY <2>4, <2>9, <2>10
<1> QED
  BY <1>4, <1>5

\* A call of ToModels keeps every type.
LEMMA ResolveAddressTypes ==
  ASSUME TypeInv, NEW w \in Workers, ResolveAddress(w)
  PROVE  TypeInv'
<1> DEFINE text(l) == CallText(work[w].batch[l].raw, Calls(work[w].event)[work[w].call])
<1>1. PICK l \in work[w].todo :
        /\ Current(w, l)
        /\ GetOrCreateAddress(text(l))
        /\ work' = [work EXCEPT ![w] = Answered(work[w], l, addresses'[Canonical(text(l))])]
  BY DEF ResolveAddress
<1>2. WorkOK(work[w]) /\ BatchOK(work[w]) /\ work[w].pc = "create"
  BY <1>1 DEF TypeInv, WorkTypes, Current
<1>3. text(l) \in Texts
  <2>1. work[w].batch[l] \in Snapshot
    BY <1>2, LookupType DEF WorkOK
  <2>2. work[w].batch[l].raw \in RawLogs
    BY <2>1 DEF Snapshot
  <2>3. work[w].event \in Transformers /\ work[w].call \in 1 .. Len(Calls(work[w].event))
    BY <1>2 DEF WorkOK, BatchOK
  <2> QED
    BY <2>2, <2>3, CallTypes, RawTypes DEF CallText, Texts
<1> HIDE DEF text
<1>4. AddressTypes' /\ addresses'[Canonical(text(l))] \in Ids
  BY <1>1, <1>3, GetOrCreateAddressTypes DEF TypeInv
<1>5. WorkTypes'
  BY <1>1, <1>2, <1>4, AnsweredTypes, SetWork DEF TypeInv
<1> QED
  BY <1>4, <1>5 DEF TypeInv, ResolveAddress, chain, LogTypes, HeaderTypes, RowTypes

\* The rows of a batch are rows of their tables, under ids given out.
LEMMA UpsertTypes ==
  ASSUME RowTypes, NEW D \in SUBSET Ids, IsFiniteSet(D), NEW models,
         PartialFunction(models, D, Model)
  PROVE  Upsert(models) \subseteq Row
<1>1. ASSUME NEW l \in DOMAIN models
      PROVE  RowId(models, l) \in Ids
  <2>1. CASE \E r \in rows : Conflicts(r, l, models[l])
    BY <2>1 DEF RowId, RowTypes, Row
  <2>2. CASE ~ \E r \in rows : Conflicts(r, l, models[l])
    <3>1. IsFiniteSet({m \in DOMAIN models : m < l})
      BY FS_Subset DEF PartialFunction
    <3>2. Cardinality({m \in DOMAIN models : m < l}) \in Nat
      BY <3>1, FS_CardinalityType
    <3>3. RowId(models, l) = nextRow + Cardinality({m \in DOMAIN models : m < l})
      BY <2>2 DEF RowId
    <3> QED
      BY <3>2, <3>3 DEF RowTypes, Ids
  <2> QED
    BY <2>1, <2>2
<1>2. ASSUME NEW l \in DOMAIN models
      PROVE  [id |-> RowId(models, l), event |-> models[l].event, log |-> l,
              header |-> models[l].header, fk |-> models[l].fk,
              raw |-> models[l].raw] \in Row
  <2>1. models[l] \in Model /\ l \in Ids
    BY DEF PartialFunction
  <2> QED
    BY <1>1, <2>1 DEF Model, Row
<1> QED
  BY <1>2 DEF Upsert, RowTypes

\* Setting flags keeps the type of the logs.
LEMMA MarkTransformedTypes ==
  ASSUME LogTypes, NEW done
  PROVE  /\ PartialFunction(MarkTransformed(done), Ids, EventLog)
         /\ DOMAIN MarkTransformed(done) = DOMAIN eventLogs
<1>1. \A l \in DOMAIN eventLogs :
        [eventLogs[l] EXCEPT !.transformed = TRUE] \in EventLog
  BY DEF LogTypes, PartialFunction, EventLog
<1> QED
  BY <1>1 DEF MarkTransformed, LogTypes, PartialFunction

\* Storing a batch keeps every type.
LEMMA CommitTypes ==
  ASSUME TypeInv, NEW w \in Workers, Commit(w)
  PROVE  TypeInv'
<1> DEFINE models == work[w].models
           batch == work[w].batch
<1>1. WorkOK(work[w]) /\ BatchOK(work[w])
  BY DEF TypeInv, WorkTypes
<1>2. /\ DOMAIN batch \in SUBSET Ids /\ IsFiniteSet(DOMAIN batch)
      /\ PartialFunction(models, DOMAIN batch, Model)
  BY <1>1 DEF WorkOK, BatchOK, PartialFunction
<1>3. LogTypes'
  BY MarkTransformedTypes DEF TypeInv, LogTypes, Commit
<1>4. RowTypes'
  <2>1. rows' \subseteq Row
    BY <1>2, UpsertTypes DEF TypeInv, Commit
  <2>2. Cardinality(DOMAIN models) \in Nat
    BY <1>2, FS_Subset, FS_CardinalityType DEF PartialFunction
  <2>3. nextRow' \in Ids
    BY <2>2 DEF TypeInv, RowTypes, Commit, Ids
  <2> QED
    BY <2>1, <2>3 DEF RowTypes
<1>5. WorkTypes'
  BY GiveUpTypes DEF TypeInv, Commit
<1>6. AddressTypes' /\ HeaderTypes' /\ faults' \in Nat
  BY DEF TypeInv, Commit, AddressTypes, HeaderTypes
<1> QED
  BY <1>3, <1>4, <1>5, <1>6 DEF TypeInv

-----------------------------------------------------------------------------
\* Every step preserves the inductive invariant.
LEMMA TypeStep == TypeInv /\ [Next]_vars => TypeInv'
<1> SUFFICES ASSUME TypeInv, [Next]_vars PROVE TypeInv'
  OBVIOUS
<1>1. CASE Sync
  BY <1>1, HeaderSyncTypes DEF Sync
<1>2. CASE Extractor
  BY <1>2, ExtractTypes DEF Extractor
<1>3. ASSUME NEW w \in Workers, Progress(w) \/ Fault(w)
      PROVE  TypeInv'
  <2>1. CASE \E t \in Transformers, batch \in SUBSET DOMAIN eventLogs : Fetch(w, t, batch)
    BY <2>1, FetchTypes
  <2>2. CASE Decode(w)
    BY <2>2, DecodeTypes
  <2>3. CASE ResolveAddress(w)
    BY <2>3, ResolveAddressTypes
  <2>4. CASE Reject(w)
    BY <2>4, RejectTypes
  <2>5. CASE Commit(w)
    BY <2>5, CommitTypes
  <2>6. CASE Rollback(w)
    BY <2>6, RollbackTypes
  <2>7. CASE Fault(w)
    BY <2>7, FaultTypes
  <2> QED
    BY <1>3, <2>1, <2>2, <2>3, <2>4, <2>5, <2>6, <2>7 DEF Progress
<1>4. CASE UNCHANGED vars
  BY <1>4 DEF vars, chain, TypeInv, AddressTypes, LogTypes, HeaderTypes, RowTypes,
              WorkTypes
<1> QED
  BY <1>1, <1>2, <1>3, <1>4 DEF Next

\* Every variable keeps the type its declaration gives it, for any number of
\* workers, blocks, logs and headers: in particular a worker that reaches its
\* transaction has a model for each log it read.
THEOREM TypeCorrect == Spec => []TypeOK
<1>1. TypeInv => TypeOK
  BY DEF TypeInv, TypeOK, AddressTypes, LogTypes, HeaderTypes, RowTypes, WorkTypes
<1> QED
  BY <1>1, TypeInit, TypeStep, PTL DEF Spec

\* The inductive invariant behind TypeCorrect, which the safety proofs start from.
THEOREM TypeInvariant == Spec => []TypeInv
  BY TypeInit, TypeStep, PTL DEF Spec
=============================================================================

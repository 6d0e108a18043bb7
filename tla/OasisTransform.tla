--------------------------- MODULE OasisTransform ---------------------------
(***************************************************************************)
(* The event pipeline of the plugin, from a header in PostgreSQL to a row  *)
(* in an oasis table.                                                      *)
(*                                                                         *)
(* Header sync and log extraction (vulcanizedb) fill public.headers and    *)
(* public.event_logs.  Workers - the execute processes, of which there may *)
(* be several for a while during a deployment - take logs that are not yet *)
(* transformed, turn them into models with ToModels, which creates address *)
(* rows on the way and outside any transaction, and store the models in    *)
(* one transaction.  Between reading its logs and storing their models a   *)
(* worker holds no lock: headers may be replaced, logs deleted by cascade  *)
(* and the same logs transformed by another worker.                        *)
(***************************************************************************)
EXTENDS OasisEvents, FiniteSets, Tables

CONSTANTS
  Workers,     \* batches in flight, over all execute processes
  Accounts,    \* 20-byte addresses
  Blocks,      \* block hashes
  Number,      \* block hash -> block number
  Txs,         \* transaction hashes
  RawLogs,     \* the logs of the watched contracts
  Content,     \* raw log -> what it says
  Window,      \* depth below the head at which a header is no longer replaced
  MaxHeaders,  \* bound on header ids given out
  MaxLogs,     \* bound on event log ids given out
  MaxFaults    \* bound on crashes and database errors

\* "undecodable": UnpackLog (or VerifyLog) returns an error.
\* "overflow": decodable, with a uint64 timestamp that INTEGER cannot hold.
Shapes == {"plain", "overflow", "undecodable"}

RawLog == [event : Transformers, block : Blocks, tx : Txs,
           account : [AddressColumns -> Accounts], shape : Shapes]

ASSUME NumberAssumption  == Number \in [Blocks -> Nat] /\ Window \in Nat
ASSUME ContentAssumption == Content \in [RawLogs -> RawLog]
ASSUME BoundsAssumption  == MaxHeaders \in Nat /\ MaxLogs \in Nat /\ MaxFaults \in Nat

VARIABLES
  headers,      \* public.headers: id -> block
  nextHeader,
  transactions, \* public.transactions: hash (UNIQUE) -> header id
  eventLogs,    \* public.event_logs: id -> [header, address, raw, transformed]
  nextLog,
  addresses,    \* public.addresses: text (UNIQUE) -> id
  nextAddress,
  rows,         \* the rows of all oasis tables
  nextRow,
  work,         \* worker -> the batch it has in memory
  faults

chain == <<headers, nextHeader, transactions, eventLogs, nextLog>>
vars  == <<chain, addresses, nextAddress, rows, nextRow, work, faults>>

Ids  == Nat \ {0}
Null == 0

\* The foreign keys of a model, column by column.
Fks         == [AddressColumns -> Ids \cup {Null}]
NoFks       == [c \in AddressColumns |-> Null]
Columns(fk) == {c \in AddressColumns : fk[c] # Null}

Decodable(raw) == Content[raw].shape # "undecodable"

-----------------------------------------------------------------------------
(* Addresses.                                                              *)

Texts == [account : Accounts, form : Forms]

Checksum(account) == [account |-> account, form |-> "checksum"]

\* Mutant: the text is looked up as it is given.
Canonical_AsGiven(text) == text

\* GetOrCreateAddress looks a text up as HexToAddress(text).Hex().
Canonical(text) == Checksum(text.account)

\* The text a transformer passes for one of its calls.
CallText(raw, c) == [account |-> Content[raw].account[c.arg], form |-> c.form]

\* Mutant: a conflicting row gets the new id.
GetOrCreateAddress_Reissue(text) ==
  /\ addresses' = With(addresses, Canonical(text), nextAddress)
  /\ nextAddress' = nextAddress + 1

\* INSERT ... ON CONFLICT DO NOTHING, then the id of the row with this text.
GetOrCreateAddress(text) ==
  LET key == Canonical(text) IN
  IF key \in DOMAIN addresses
  THEN UNCHANGED <<addresses, nextAddress>>
  ELSE /\ addresses' = With(addresses, key, nextAddress)
       /\ nextAddress' = nextAddress + 1

-----------------------------------------------------------------------------
(* Header sync and extraction.                                             *)

\* Mutant: event_logs.tx_hash has no ON DELETE CASCADE.
Cascade_NotByTx(gone) ==
  LET goneTxs  == {tx \in DOMAIN transactions : transactions[tx] \in gone}
      goneLogs == {l \in DOMAIN eventLogs : eventLogs[l].header \in gone}
  IN  /\ transactions' = Without(transactions, goneTxs)
      /\ eventLogs' = Without(eventLogs, goneLogs)
      /\ rows' = {r \in rows : r.log \notin goneLogs /\ r.header \notin gone}

\* Mutant: the oasis tables have no ON DELETE CASCADE.
Cascade_KeepsRows(gone) ==
  LET goneTxs  == {tx \in DOMAIN transactions : transactions[tx] \in gone}
      goneLogs == {l \in DOMAIN eventLogs :
                     \/ eventLogs[l].header \in gone
                     \/ Content[eventLogs[l].raw].tx \in goneTxs}
  IN  /\ transactions' = Without(transactions, goneTxs)
      /\ eventLogs' = Without(eventLogs, goneLogs)
      /\ UNCHANGED rows

\* Deleting headers takes their transactions, the logs of either, and the
\* oasis rows of either with them (ON DELETE CASCADE).
Cascade(gone) ==
  LET goneTxs  == {tx \in DOMAIN transactions : transactions[tx] \in gone}
      goneLogs == {l \in DOMAIN eventLogs :
                     \/ eventLogs[l].header \in gone
                     \/ Content[eventLogs[l].raw].tx \in goneTxs}
  IN  /\ transactions' = Without(transactions, goneTxs)
      /\ eventLogs' = Without(eventLogs, goneLogs)
      /\ rows' = {r \in rows : r.log \notin goneLogs /\ r.header \notin gone}

\* Mutant: a header exactly Window below the highest is replaced, too.
HeaderSync_AtWindow(b) ==
  LET stale == {h \in DOMAIN headers : Number[headers[h]] = Number[b]} IN
  /\ nextHeader <= MaxHeaders
  /\ \A h \in DOMAIN headers : headers[h] # b
  /\ stale # {} =>
       \A h \in DOMAIN headers : Number[b] + Window >= Number[headers[h]]
  /\ headers' = With(Without(headers, stale), nextHeader, b)
  /\ nextHeader' = nextHeader + 1
  /\ Cascade(stale)
  /\ UNCHANGED <<nextLog, addresses, nextAddress, nextRow, work, faults>>

\* get_or_create_header for a block that has no row yet.  A header of the same
\* height is replaced unless it is Window or more below the highest one.  (In
\* its other branches the function returns an id and changes nothing.)
HeaderSync(b) ==
  LET stale == {h \in DOMAIN headers : Number[headers[h]] = Number[b]} IN
  /\ nextHeader <= MaxHeaders
  /\ \A h \in DOMAIN headers : headers[h] # b
  /\ stale # {} =>
       \A h \in DOMAIN headers : Number[b] + Window > Number[headers[h]]
  /\ headers' = With(Without(headers, stale), nextHeader, b)
  /\ nextHeader' = nextHeader + 1
  /\ Cascade(stale)
  /\ UNCHANGED <<nextLog, addresses, nextAddress, nextRow, work, faults>>

\* CreateEventLogs for a log of a header: its transaction row (ON CONFLICT DO
\* NOTHING on the hash), the address of the contract, and the log itself.
Extract(h, raw) ==
  LET contract == Checksum(Content[raw].account["address_id"])
      tx == Content[raw].tx
  IN
  /\ nextLog <= MaxLogs
  /\ h \in DOMAIN headers
  /\ Content[raw].block = headers[h]
  /\ \A l \in DOMAIN eventLogs :
       ~ (eventLogs[l].raw = raw /\ eventLogs[l].header = h)
  /\ transactions' = IF tx \in DOMAIN transactions
                     THEN transactions
                     ELSE With(transactions, tx, h)
  /\ GetOrCreateAddress(contract)
  /\ eventLogs' = With(eventLogs, nextLog,
                       [header |-> h, address |-> addresses'[contract],
                        raw |-> raw, transformed |-> FALSE])
  /\ nextLog' = nextLog + 1
  /\ UNCHANGED <<headers, nextHeader, rows, nextRow, work, faults>>

-----------------------------------------------------------------------------
(* A worker's batch.                                                       *)

IdleWork == [pc |-> "idle", event |-> "none", batch |-> Empty, todo |-> {},
             call |-> 1, fks |-> NoFks, models |-> Empty]

GiveUp(w) == work' = [work EXCEPT ![w] = IdleWork]

\* GetUntransformedEventLogs: some logs of one transformer are read and handed
\* to Execute.  Which ones (paging, order of transformers) is the caller's.
Fetch(w, t, batch) ==
  /\ work[w].pc = "idle"
  /\ batch # {}
  /\ \A l \in batch : /\ ~ eventLogs[l].transformed
                      /\ Content[eventLogs[l].raw].event = t
  /\ work' = [work EXCEPT ![w] =
       [pc     |-> IF Transformer[t].verify = "upfront" THEN "decode" ELSE "create",
        event  |-> t,
        batch  |-> [l \in batch |-> [header |-> eventLogs[l].header,
                                     raw |-> eventLogs[l].raw]],
        todo   |-> batch,
        call   |-> 1,
        fks    |-> NoFks,
        models |-> Empty]]
  /\ UNCHANGED <<chain, addresses, nextAddress, rows, nextRow, faults>>

\* toEntities over the whole batch.
Decode(w) ==
  /\ work[w].pc = "decode"
  /\ \A l \in DOMAIN work[w].batch : Decodable(work[w].batch[l].raw)
  /\ work' = [work EXCEPT ![w].pc = "create"]
  /\ UNCHANGED <<chain, addresses, nextAddress, rows, nextRow, faults>>

\* Logs are taken in the order they were read, by id.
Current(w, l) ==
  /\ work[w].pc = "create"
  /\ l \in work[w].todo
  /\ \A m \in work[w].todo : l <= m

\* Mutant: no VerifyLog.
Verified_Always(w, l) == TRUE

\* VerifyLog comes before the first call for a log, where there is no toEntities.
Verified(w, l) ==
  (Transformer[work[w].event].verify = "inline" /\ work[w].call = 1)
    => Decodable(work[w].batch[l].raw)

\* Mutant: ToModels returns from inside the loop.
Answered_FirstOnly(k, l, id) ==
  LET fks == [k.fks EXCEPT ![Calls(k.event)[k.call].column] = id] IN
  IF k.call < Len(Calls(k.event))
  THEN [k EXCEPT !.call = k.call + 1, !.fks = fks]
  ELSE [k EXCEPT !.call = 1, !.fks = NoFks, !.todo = {}, !.pc = "persist",
                 !.models = With(k.models, l,
                              [event |-> k.event, header |-> k.batch[l].header,
                               fk |-> fks, raw |-> k.batch[l].raw])]

\* The worker once its current call returned id: either the next call for the
\* same log, or the model is complete and the next log's turn comes.
Answered(k, l, id) ==
  LET fks == [k.fks EXCEPT ![Calls(k.event)[k.call].column] = id] IN
  IF k.call < Len(Calls(k.event))
  THEN [k EXCEPT !.call = k.call + 1, !.fks = fks]
  ELSE [k EXCEPT !.call = 1, !.fks = NoFks,
                 !.todo = k.todo \ {l},
                 !.pc = IF k.todo = {l} THEN "persist" ELSE "create",
                 !.models = With(k.models, l,
                              [event |-> k.event, header |-> k.batch[l].header,
                               fk |-> fks, raw |-> k.batch[l].raw])]

\* One GetOrCreateAddress call of ToModels.
ResolveAddress(w) ==
  /\ \E l \in work[w].todo :
       LET text == CallText(work[w].batch[l].raw, Calls(work[w].event)[work[w].call]) IN
       /\ Current(w, l)
       /\ Verified(w, l)
       /\ GetOrCreateAddress(text)
       /\ work' = [work EXCEPT ![w] = Answered(work[w], l, addresses'[Canonical(text)])]
  /\ UNCHANGED <<chain, rows, nextRow, faults>>

\* ToModels returns an error because of a log; no model of the batch survives.
Reject(w) ==
  /\ \/ /\ work[w].pc = "decode"
        /\ \E l \in DOMAIN work[w].batch : ~ Decodable(work[w].batch[l].raw)
     \/ \E l \in work[w].todo : Current(w, l) /\ ~ Verified(w, l)
  /\ GiveUp(w)
  /\ UNCHANGED <<chain, addresses, nextAddress, rows, nextRow, faults>>

-----------------------------------------------------------------------------
(* PersistModels: one transaction for the models of a batch.               *)

\* Mutant: no foreign keys on log_id and header_id.
Acceptable_NoForeignKeys(l, model) ==
  /\ ColumnsFit(model.event, Columns(model.fk))
  /\ Content[model.raw].shape = "overflow" => Table[model.event].integers = {}

\* PostgreSQL takes the row: foreign keys, columns and INTEGER values hold.
Acceptable(l, model) ==
  /\ l \in DOMAIN eventLogs
  /\ model.header \in DOMAIN headers
  /\ \A c \in Columns(model.fk) : \E k \in DOMAIN addresses : addresses[k] = model.fk[c]
  /\ ColumnsFit(model.event, Columns(model.fk))
  /\ Content[model.raw].shape = "overflow" => Table[model.event].integers = {}

\* Mutant: the table has no UNIQUE (header_id, log_id), rows are just added.
Conflicts_Never(r, l, model) == FALSE

\* UNIQUE (header_id, log_id) of the model's table.
Conflicts(r, l, model) ==
  r.event = model.event /\ r.log = l /\ r.header = model.header

\* Mutant: the old row is deleted and a new one inserted.
RowId_Fresh(models, l) == nextRow + Cardinality({m \in DOMAIN models : m < l})

\* ON CONFLICT (header_id, log_id) DO UPDATE: the row keeps its id, the serial
\* advances all the same.
RowId(models, l) ==
  IF \E r \in rows : Conflicts(r, l, models[l])
  THEN (CHOOSE r \in rows : Conflicts(r, l, models[l])).id
  ELSE nextRow + Cardinality({m \in DOMAIN models : m < l})

Upsert(models) ==
  {r \in rows : \A l \in DOMAIN models : ~ Conflicts(r, l, models[l])}
    \cup
  {[id |-> RowId(models, l), event |-> models[l].event, log |-> l,
    header |-> models[l].header, fk |-> models[l].fk, raw |-> models[l].raw]
      : l \in DOMAIN models}

\* Mutant: the flag is not part of the transaction.
MarkTransformed_Not(done) == eventLogs

MarkTransformed(done) ==
  [l \in DOMAIN eventLogs |->
     IF l \in done THEN [eventLogs[l] EXCEPT !.transformed = TRUE] ELSE eventLogs[l]]

\* Mutant: each model in a transaction of its own.
Commit_Each(w) ==
  LET models == Restrict(work[w].models,
                  {l \in DOMAIN work[w].models : Acceptable(l, work[w].models[l])})
  IN
  /\ work[w].pc = "persist"
  /\ rows' = Upsert(models)
  /\ nextRow' = nextRow + Cardinality(DOMAIN models)
  /\ eventLogs' = MarkTransformed(DOMAIN models)
  /\ GiveUp(w)
  /\ UNCHANGED <<headers, nextHeader, transactions, nextLog, addresses, nextAddress, faults>>

Commit(w) ==
  LET models == work[w].models IN
  /\ work[w].pc = "persist"
  /\ \A l \in DOMAIN models : Acceptable(l, models[l])
  /\ rows' = Upsert(models)
  /\ nextRow' = nextRow + Cardinality(DOMAIN models)
  /\ eventLogs' = MarkTransformed(DOMAIN models)
  /\ GiveUp(w)
  /\ UNCHANGED <<headers, nextHeader, transactions, nextLog, addresses, nextAddress, faults>>

\* The first statement that fails rolls the whole batch back.
Rollback(w) ==
  /\ work[w].pc = "persist"
  /\ \E l \in DOMAIN work[w].models : ~ Acceptable(l, work[w].models[l])
  /\ GiveUp(w)
  /\ UNCHANGED <<chain, addresses, nextAddress, rows, nextRow, faults>>

\* The process dies, or the database fails a GetOrCreateAddress call
\* (ErrCouldNotCreateFK) or the transaction: what was in memory is lost, what
\* earlier calls created stays.
Fault(w) ==
  /\ work[w].pc # "idle"
  /\ faults < MaxFaults
  /\ faults' = faults + 1
  /\ GiveUp(w)
  /\ UNCHANGED <<chain, addresses, nextAddress, rows, nextRow>>

-----------------------------------------------------------------------------
Init ==
  /\ headers = Empty /\ nextHeader = 1
  /\ transactions = Empty
  /\ eventLogs = Empty /\ nextLog = 1
  /\ addresses = Empty /\ nextAddress = 1
  /\ rows = {} /\ nextRow = 1
  /\ work = [w \in Workers |-> IdleWork]
  /\ faults = 0

Sync      == \E b \in Blocks : HeaderSync(b)
Extractor == \E h \in DOMAIN headers, raw \in RawLogs : Extract(h, raw)

Progress(w) ==
  \/ \E t \in Transformers, batch \in SUBSET DOMAIN eventLogs : Fetch(w, t, batch)
  \/ Decode(w)
  \/ ResolveAddress(w)
  \/ Reject(w)
  \/ Commit(w)
  \/ Rollback(w)

Next ==
  \/ Sync
  \/ Extractor
  \/ \E w \in Workers : Progress(w) \/ Fault(w)

Spec == Init /\ [][Next]_vars

\* Every worker keeps going.  Nothing obliges the chain to grow or to be
\* reorganised, a log to be extracted, or a fault to happen.
Fairness == \A w \in Workers : WF_vars(Progress(w))

FairSpec == Spec /\ Fairness

-----------------------------------------------------------------------------
(* What must hold.                                                         *)

EventLog == [header : Ids, address : Ids, raw : RawLogs, transformed : BOOLEAN]
Snapshot == [header : Ids, raw : RawLogs]

Model == [event : Transformers, header : Ids, fk : Fks, raw : RawLogs]
Row   == [id : Ids, event : Transformers, log : Ids, header : Ids, fk : Fks,
          raw : RawLogs]

WorkOK(k) ==
  /\ k = [pc |-> k.pc, event |-> k.event, batch |-> k.batch, todo |-> k.todo,
          call |-> k.call, fks |-> k.fks, models |-> k.models]
  /\ k.pc \in {"idle", "decode", "create", "persist"}
  /\ IF k.pc = "idle" THEN k = IdleWork ELSE k.event \in Transformers
  /\ PartialFunction(k.batch, Ids, Snapshot)
  /\ k.todo \subseteq DOMAIN k.batch
  /\ k.call \in Ids
  /\ k.fks \in Fks
  /\ PartialFunction(k.models, DOMAIN k.batch, Model)
  /\ k.pc = "persist" => DOMAIN k.models = DOMAIN k.batch

\* Every variable is what its declaration says, tables refer to ids given out.
TypeOK ==
  /\ nextHeader \in Ids /\ nextLog \in Ids /\ nextAddress \in Ids
  /\ nextRow \in Ids /\ faults \in Nat
  /\ PartialFunction(headers, Ids, Blocks)
  /\ PartialFunction(transactions, Txs, Ids)
  /\ PartialFunction(eventLogs, Ids, EventLog)
  /\ PartialFunction(addresses, Texts, Ids)
  /\ rows \subseteq Row
  /\ DOMAIN work = Workers /\ work = [w \in Workers |-> work[w]]
  /\ \A w \in Workers : WorkOK(work[w])

\* Every log the database holds belongs to a header it holds, of the block the
\* log was mined in, to a transaction row that has not been taken away under
\* it, and to the address row of its contract.
LogsFaithful ==
  \A l \in DOMAIN eventLogs :
    LET log == eventLogs[l] IN
    /\ log.header \in DOMAIN headers
    /\ headers[log.header] = Content[log.raw].block
    /\ Content[log.raw].tx \in DOMAIN transactions
    /\ Checksum(Content[log.raw].account["address_id"]) \in DOMAIN addresses
    /\ log.address = addresses[Checksum(Content[log.raw].account["address_id"])]

\* The id in a foreign-key column is that of the account the log names there.
ColumnFaithful(r, c) ==
  LET key == Checksum(Content[r.raw].account[c]) IN
  key \in DOMAIN addresses /\ r.fk[c] = addresses[key]

\* A row describes a log that is there now: it has the log's own header_id, it
\* is in the table of the log's event, all columns of that table are filled,
\* and every address column leads to the account the log names - however long
\* ago its worker read the log, and whatever was reorganised since.
RowsFaithful ==
  \A r \in rows :
    /\ r.log \in DOMAIN eventLogs
    /\ eventLogs[r.log].header = r.header
    /\ eventLogs[r.log].raw = r.raw
    /\ Content[r.raw].event = r.event
    /\ Columns(r.fk) \cup Transformer[r.event].values = TableColumns(r.event)
    /\ \A c \in Columns(r.fk) : ColumnFaithful(r, c)

\* Two workers that transformed the same log leave one row between them.
OneRowPerLog == \A r, s \in rows : r.log = s.log => r = s

\* A log is marked transformed exactly when its row is there: none is skipped
\* for good, none is offered again once stored.
TransformedIffStored ==
  \A l \in DOMAIN eventLogs :
    eventLogs[l].transformed <=> \E r \in rows : r.log = l

\* An account has one id, in whichever of its textual forms it first came, and
\* an id one account.
OneIdPerAccount ==
  \A x, y \in DOMAIN addresses :
    (x.account = y.account \/ addresses[x] = addresses[y]) => x = y

\* ToModels creates addresses only for logs it could decode (the extraction
\* creates that of the contract): an account nobody mentions but an undecodable
\* log never gets an id.
AddressesHaveSource ==
  \A k \in DOMAIN addresses :
    \E raw \in RawLogs :
      \/ Content[raw].account["address_id"] = k.account
      \/ /\ Decodable(raw)
         /\ \E i \in DOMAIN Calls(Content[raw].event) :
              Content[raw].account[Calls(Content[raw].event)[i].arg] = k.account

\* Once given out, the id of an address is never changed and never withdrawn:
\* models in memory and rows of other tables hold it.
AddressesStable ==
  [][\A k \in DOMAIN addresses :
       k \in DOMAIN addresses' /\ addresses'[k] = addresses[k]]_vars

\* A header is final once it is Window below the highest.
Final(h) ==
  \E g \in DOMAIN headers : Number[headers[h]] + Window <= Number[headers[g]]

\* Transforming a log again changes nothing: a row, its id included, stays as
\* it was first written until its log is deleted.
RowsStable ==
  [][\A r \in rows : r \in rows' \/ r.log \notin DOMAIN eventLogs']_vars

\* What is stored of a final block stays, and as it is: nothing but the end of a
\* header that is not final takes it away, the one whose transactions row the log's
\* transaction was first seen with (vulcanize_schema.sql:120, 930).
FinalRowsStay ==
  [][\A r \in rows :
       Final(r.header) =>
         \/ r \in rows'
         \/ LET owner == transactions[Content[r.raw].tx] IN
            ~ Final(owner) /\ owner \notin DOMAIN headers']_vars

\* A worker that stores anything of its batch stores all of it: one log that is
\* gone, or that a column cannot hold, keeps every other model of the batch out.
AllOrNothing ==
  [][\A w \in Workers :
       (work[w].pc = "persist" /\ work'[w].pc = "idle" /\ rows' # rows)
         => \A l \in DOMAIN work[w].batch : \E r \in rows' : r.log = l]_vars

\* A log in event_logs is stored sooner or later, unless it is deleted first;
\* errors, restarts and other workers on the way only delay it.  (For logs no
\* transformer rejects: see RawLogs in the runs.)
EventuallyStored ==
  \A l \in 1 .. MaxLogs :
    l \in DOMAIN eventLogs ~> \/ l \notin DOMAIN eventLogs
                              \/ \E r \in rows : r.log = l

-----------------------------------------------------------------------------
(* The mirror this pipeline implements.                                    *)

Says(raw, account) == [raw |-> raw, account |-> account]

AccountOf(id) == (CHOOSE k \in DOMAIN addresses : addresses[k] = id).account

RowOf(l) == CHOOSE r \in rows : r.log = l

Mirror == INSTANCE OasisMirror WITH
  live   <- [l \in DOMAIN eventLogs |->
               LET raw == eventLogs[l].raw IN
               Says(raw, [c \in Table[Content[raw].event].fks |->
                            Content[raw].account[c]])],
  mirror <- [l \in {r.log : r \in rows} |->
               LET r == RowOf(l) IN
               Says(r.raw, [c \in Columns(r.fk) |-> AccountOf(r.fk[c])])],
  seen   <- 1 .. nextLog - 1

\* The pipeline implements the mirror: all its steps are steps of the mirror,
\* or invisible there.
ImplementsMirror == Mirror!Spec

=============================================================================

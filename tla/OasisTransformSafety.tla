------------------------ MODULE OasisTransformSafety ------------------------
(***************************************************************************)
(* The safety invariants of the pipeline, by one inductive invariant, and  *)
(* that it implements the mirror its readers see (OasisMirror).            *)
(***************************************************************************)
EXTENDS OasisTransform_proofs

-----------------------------------------------------------------------------
(* The inductive invariant.  What a worker holds is stale as soon as it is  *)
(* read, so the invariant says in which respect it cannot be wrong.         *)

\* Ids are given out once, addresses are kept in their checksum form.
AddressInv ==
  /\ \A k \in DOMAIN addresses : addresses[k] < nextAddress /\ k = Checksum(k.account)
  /\ OneIdPerAccount

\* The ids in a model's columns are those of the accounts its log names.
FkTrue(raw, fk) ==
  \A c \in Columns(fk) :
    LET key == Checksum(Content[raw].account[c]) IN
    key \in DOMAIN addresses /\ fk[c] = addresses[key]

\* A log that was read is gone, or it still is what it was; its id will not
\* name another.
SnapshotTrue(k) ==
  \A l \in DOMAIN k.batch :
    /\ l < nextLog
    /\ Content[k.batch[l].raw].event = k.event
    /\ l \in DOMAIN eventLogs =>
         /\ eventLogs[l].header = k.batch[l].header
         /\ eventLogs[l].raw = k.batch[l].raw

\* The foreign keys collected so far belong to the log whose turn it is.
FksTrue(k) ==
  \A l \in k.todo :
    (\A m \in k.todo : l <= m) => FkTrue(k.batch[l].raw, k.fks)

ModelsTrue(k) ==
  \A l \in DOMAIN k.models :
    /\ k.models[l].event = k.event
    /\ k.models[l].header = k.batch[l].header
    /\ k.models[l].raw = k.batch[l].raw
    /\ FkTrue(k.batch[l].raw, k.models[l].fk)

WorkTrue(k) == SnapshotTrue(k) /\ FksTrue(k) /\ ModelsTrue(k)

WorkInv == \A w \in Workers : WorkTrue(work[w])

LogInv ==
  /\ \A h \in DOMAIN headers : h < nextHeader
  /\ \A l \in DOMAIN eventLogs : l < nextLog
  /\ LogsFaithful

RowInv == RowsFaithful /\ OneRowPerLog /\ TransformedIffStored

SafetyInv == TypeInv /\ AddressInv /\ LogInv /\ WorkInv /\ RowInv

-----------------------------------------------------------------------------
(* What every step does to addresses and logs.                             *)

AddressesKept ==
  \A k \in DOMAIN addresses : k \in DOMAIN addresses' /\ addresses'[k] = addresses[k]

\* Logs may go and a new one may come, under an id that is not in use.
LogsKept ==
  /\ nextLog <= nextLog'
  /\ \A l \in DOMAIN eventLogs' :
       IF l \in DOMAIN eventLogs
       THEN /\ eventLogs'[l].header = eventLogs[l].header
            /\ eventLogs'[l].raw = eventLogs[l].raw
            /\ eventLogs'[l].address = eventLogs[l].address
       ELSE nextLog <= l

\* A call of GetOrCreateAddress keeps the ids unique and answers with the id of the text.
LEMMA GetOrCreateAddressInv ==
  ASSUME AddressTypes, AddressInv, NEW text \in Texts, GetOrCreateAddress(text)
  PROVE  AddressInv' /\ AddressesKept
<1> DEFINE key == Canonical(text)
<1>1. key = Checksum(key.account) /\ key \in Texts
  BY DEF Canonical, Checksum, Texts, Forms
<1>2. CASE key \in DOMAIN addresses
  BY <1>2 DEF GetOrCreateAddress, AddressInv, AddressesKept, OneIdPerAccount
<1>3. CASE key \notin DOMAIN addresses
  <2>1. /\ addresses' = With(addresses, key, nextAddress)
        /\ nextAddress' = nextAddress + 1 /\ nextAddress \in Nat
    BY <1>3 DEF GetOrCreateAddress, AddressTypes, Ids
  <2>2. /\ DOMAIN addresses' = DOMAIN addresses \cup {key}
        /\ addresses'[key] = nextAddress
        /\ \A k \in DOMAIN addresses : addresses'[k] = addresses[k]
    BY <1>3, <2>1 DEF With
  <2>3. \A k \in DOMAIN addresses : addresses[k] \in Nat
    BY DEF AddressTypes, PartialFunction, Ids
  <2> HIDE DEF key
  <2>4. \A k \in DOMAIN addresses' :
          addresses'[k] < nextAddress' /\ k = Checksum(k.account)
    BY <1>1, <2>1, <2>2, <2>3 DEF AddressInv
  <2>5. OneIdPerAccount'
    <3> SUFFICES ASSUME NEW x \in DOMAIN addresses', NEW y \in DOMAIN addresses',
                        x.account = y.account \/ addresses'[x] = addresses'[y]
                 PROVE  x = y
      BY DEF OneIdPerAccount
    <3>1. x = Checksum(x.account) /\ y = Checksum(y.account)
      BY <2>4
    <3>2. CASE x.account = y.account
      BY <3>1, <3>2
    <3>3. CASE addresses'[x] = addresses'[y]
      BY <2>1, <2>2, <2>3, <3>3 DEF AddressInv, OneIdPerAccount
    <3> QED
      BY <3>2, <3>3
  <2> QED
    BY <2>2, <2>4, <2>5 DEF AddressInv, AddressesKept
<1> QED
  BY <1>2, <1>3

\* A step that leaves addresses alone keeps their invariant.
LEMMA AddressUnchanged ==
  ASSUME AddressInv, UNCHANGED <<addresses, nextAddress>>
  PROVE  AddressInv' /\ AddressesKept
  BY DEF AddressInv, AddressesKept, OneIdPerAccount

\* A text looked up by a worker or by the extraction is a text.
LEMMA ContractText ==
  ASSUME NEW raw \in RawLogs
  PROVE  /\ Checksum(Content[raw].account["address_id"]) \in Texts
         /\ Canonical(Checksum(Content[raw].account["address_id"]))
              = Checksum(Content[raw].account["address_id"])
  BY RawTypes DEF Texts, Checksum, Forms, Canonical, AddressColumns

\* What a worker looks up is an account of its log.
LEMMA CallTextType ==
  ASSUME TypeInv, NEW w \in Workers, NEW l \in work[w].todo, Current(w, l)
  PROVE  /\ work[w].batch[l].raw \in RawLogs
         /\ work[w].event \in Transformers
         /\ work[w].call \in 1 .. Len(Calls(work[w].event))
         /\ CallText(work[w].batch[l].raw, Calls(work[w].event)[work[w].call]) \in Texts
<1>1. WorkOK(work[w]) /\ BatchOK(work[w]) /\ work[w].pc = "create"
  BY DEF TypeInv, WorkTypes, Current
<1>2. work[w].batch[l] \in Snapshot
  BY <1>1, LookupType DEF WorkOK
<1>3. work[w].batch[l].raw \in RawLogs
  BY <1>2 DEF Snapshot
<1>4. work[w].event \in Transformers /\ work[w].call \in 1 .. Len(Calls(work[w].event))
  BY <1>1 DEF WorkOK, BatchOK
<1> QED
  BY <1>3, <1>4, CallTypes, RawTypes DEF CallText, Texts

\* No step changes the id of an address or gives one out twice.
LEMMA AddressStep ==
  ASSUME TypeInv, AddressInv, [Next]_vars
  PROVE  AddressInv' /\ AddressesKept
<1>1. CASE Extractor
  <2>1. PICK h \in DOMAIN headers, raw \in RawLogs : Extract(h, raw)
    BY <1>1 DEF Extractor
  <2> QED
    BY <2>1, ContractText, GetOrCreateAddressInv DEF Extract, TypeInv
<1>2. CASE \E w \in Workers : ResolveAddress(w)
  <2>1. PICK w \in Workers : ResolveAddress(w)
    BY <1>2
  <2>2. PICK l \in work[w].todo :
          /\ Current(w, l)
          /\ GetOrCreateAddress(CallText(work[w].batch[l].raw,
                                         Calls(work[w].event)[work[w].call]))
    BY <2>1 DEF ResolveAddress
  <2> QED
    BY <2>2, CallTextType, GetOrCreateAddressInv DEF TypeInv
<1>3. CASE UNCHANGED <<addresses, nextAddress>>
  BY <1>3, AddressUnchanged
<1> QED
  BY <1>1, <1>2, <1>3 DEF Next, Sync, HeaderSync, Progress, Fetch, Decode, Reject,
                          Commit, Rollback, Fault, vars

-----------------------------------------------------------------------------
(* Logs and their headers.                                                 *)

\* Replacing a header takes every log that would dangle with it.
LEMMA HeaderSyncLogs ==
  ASSUME TypeInv, LogInv, NEW b \in Blocks, HeaderSync(b)
  PROVE  LogInv' /\ LogsKept
<1> DEFINE stale == {h \in DOMAIN headers : Number[headers[h]] = Number[b]}
           goneTxs == {tx \in DOMAIN transactions : transactions[tx] \in stale}
           goneLogs == {l \in DOMAIN eventLogs :
                          \/ eventLogs[l].header \in stale
                          \/ Content[eventLogs[l].raw].tx \in goneTxs}
<1>1. /\ headers' = With(Without(headers, stale), nextHeader, b)
      /\ transactions' = Without(transactions, goneTxs)
      /\ eventLogs' = Without(eventLogs, goneLogs)
      /\ nextHeader' = nextHeader + 1 /\ nextLog' = nextLog
      /\ addresses' = addresses
  BY DEF HeaderSync, Cascade
<1>2. /\ DOMAIN headers' = (DOMAIN headers \ stale) \cup {nextHeader}
      /\ \A h \in DOMAIN headers \ stale : h # nextHeader => headers'[h] = headers[h]
      /\ DOMAIN transactions' = DOMAIN transactions \ goneTxs
      /\ DOMAIN eventLogs' = DOMAIN eventLogs \ goneLogs
      /\ \A l \in DOMAIN eventLogs' : eventLogs'[l] = eventLogs[l]
  BY <1>1 DEF With, Without, Restrict
<1> HIDE DEF stale, goneTxs, goneLogs
<1>3. /\ \A h \in DOMAIN headers : h \in Nat
      /\ nextHeader \in Nat /\ nextLog \in Nat
      /\ \A l \in DOMAIN eventLogs : l \in Nat
  BY DEF TypeInv, HeaderTypes, LogTypes, PartialFunction, Ids
<1>4. \A h \in DOMAIN headers' : h < nextHeader'
  <2>1. \A h \in DOMAIN headers : h < nextHeader
    BY DEF LogInv
  <2> QED
    BY <1>1, <1>2, <1>3, <2>1
<1>5. \A l \in DOMAIN eventLogs' : l < nextLog'
  BY <1>1, <1>2 DEF LogInv
<1>6. LogsFaithful'
  <2> SUFFICES ASSUME NEW l \in DOMAIN eventLogs'
               PROVE  /\ eventLogs[l].header \in DOMAIN headers'
                      /\ headers'[eventLogs[l].header] = headers[eventLogs[l].header]
                      /\ Content[eventLogs[l].raw].tx \in DOMAIN transactions'
    <3>1. DOMAIN eventLogs' \subseteq DOMAIN eventLogs
      BY <1>2
    <3> QED
      BY <1>1, <1>2, <3>1 DEF LogInv, LogsFaithful
  <2>1. /\ l \in DOMAIN eventLogs /\ l \notin goneLogs
        /\ eventLogs[l].header \in DOMAIN headers
        /\ Content[eventLogs[l].raw].tx \in DOMAIN transactions
    BY <1>2 DEF LogInv, LogsFaithful
  <2>2. eventLogs[l].header \notin stale /\ Content[eventLogs[l].raw].tx \notin goneTxs
    BY <2>1 DEF goneLogs
  <2>3. eventLogs[l].header # nextHeader
    BY <1>3, <2>1 DEF LogInv
  <2> QED
    BY <1>2, <2>1, <2>2, <2>3
<1>7. LogsKept
  BY <1>1, <1>2, <1>3 DEF LogsKept
<1> QED
  BY <1>4, <1>5, <1>6, <1>7 DEF LogInv

\* A log is extracted for the header of its block, with its transaction and contract.
LEMMA ExtractLogs ==
  ASSUME TypeInv, AddressInv, LogInv, AddressesKept,
         NEW h \in DOMAIN headers, NEW raw \in RawLogs, Extract(h, raw)
  PROVE  /\ LogInv' /\ LogsKept
         /\ DOMAIN eventLogs' = DOMAIN eventLogs \cup {nextLog}
         /\ nextLog \notin DOMAIN eventLogs
         /\ eventLogs'[nextLog].raw = raw /\ ~ eventLogs'[nextLog].transformed
         /\ \A l \in DOMAIN eventLogs : eventLogs'[l] = eventLogs[l]
<1> DEFINE contract(r) == Checksum(Content[r].account["address_id"])
           log == [header |-> h, address |-> addresses'[contract(raw)],
                   raw |-> raw, transformed |-> FALSE]
<1>1. /\ eventLogs' = With(eventLogs, nextLog, log) /\ nextLog' = nextLog + 1
      /\ headers' = headers /\ nextHeader' = nextHeader
      /\ Content[raw].block = headers[h]
      /\ Content[raw].tx \in DOMAIN transactions'
      /\ DOMAIN transactions \subseteq DOMAIN transactions'
  BY DEF Extract, With
<1>2. nextLog \in Nat /\ \A l \in DOMAIN eventLogs : l \in Nat
  BY DEF TypeInv, LogTypes, PartialFunction, Ids
<1>3. nextLog \notin DOMAIN eventLogs
  BY <1>2 DEF LogInv
<1>4. /\ DOMAIN eventLogs' = DOMAIN eventLogs \cup {nextLog}
      /\ eventLogs'[nextLog] = log
      /\ \A l \in DOMAIN eventLogs : eventLogs'[l] = eventLogs[l]
  BY <1>1, <1>3 DEF With
<1>5. contract(raw) \in DOMAIN addresses'
  BY ContractText, GetOrCreateAddressTypes DEF TypeInv, Extract
<1> HIDE DEF contract, log
<1>6. LogsFaithful'
  <2> SUFFICES ASSUME NEW l \in DOMAIN eventLogs'
               PROVE  /\ eventLogs'[l].header \in DOMAIN headers
                      /\ headers[eventLogs'[l].header] = Content[eventLogs'[l].raw].block
                      /\ Content[eventLogs'[l].raw].tx \in DOMAIN transactions'
                      /\ contract(eventLogs'[l].raw) \in DOMAIN addresses'
                      /\ eventLogs'[l].address = addresses'[contract(eventLogs'[l].raw)]
    BY <1>1 DEF LogsFaithful, contract
  <2>1. CASE l = nextLog
    BY <1>1, <1>4, <1>5, <2>1 DEF log
  <2>2. CASE l \in DOMAIN eventLogs
    <3>1. /\ eventLogs[l].header \in DOMAIN headers
          /\ headers[eventLogs[l].header] = Content[eventLogs[l].raw].block
          /\ Content[eventLogs[l].raw].tx \in DOMAIN transactions
          /\ contract(eventLogs[l].raw) \in DOMAIN addresses
          /\ eventLogs[l].address = addresses[contract(eventLogs[l].raw)]
      BY <2>2 DEF LogInv, LogsFaithful, contract
    <3> QED
      BY <1>1, <1>4, <2>2, <3>1 DEF AddressesKept
  <2> QED
    BY <1>4, <2>1, <2>2
<1>7. LogsKept
  BY <1>1, <1>2, <1>4 DEF LogsKept
<1>8. \A l \in DOMAIN eventLogs' : l < nextLog'
  BY <1>1, <1>2, <1>4 DEF LogInv
<1>9. LogInv'
  BY <1>1, <1>6, <1>8 DEF LogInv
<1> QED
  BY <1>3, <1>4, <1>7, <1>9 DEF log

\* Storing a batch changes nothing of a log but its flag.
LEMMA CommitLogs ==
  ASSUME TypeInv, LogInv, NEW w \in Workers, Commit(w)
  PROVE  LogInv' /\ LogsKept
<1>1. /\ eventLogs' = MarkTransformed(DOMAIN work[w].models)
      /\ UNCHANGED <<headers, nextHeader, transactions, nextLog, addresses>>
  BY DEF Commit
<1>2. \A l \in DOMAIN eventLogs : eventLogs[l] \in EventLog
  BY DEF TypeInv, LogTypes, PartialFunction
<1>3. /\ DOMAIN eventLogs' = DOMAIN eventLogs
      /\ \A l \in DOMAIN eventLogs :
           /\ eventLogs'[l].header = eventLogs[l].header
           /\ eventLogs'[l].raw = eventLogs[l].raw
           /\ eventLogs'[l].address = eventLogs[l].address
  BY <1>1, <1>2 DEF MarkTransformed, EventLog
<1>4. nextLog \in Nat
  BY DEF TypeInv, LogTypes, Ids
<1> QED
  BY <1>1, <1>3, <1>4 DEF LogInv, LogsFaithful, LogsKept

\* A step that leaves the tables of the core alone keeps their invariant.
LEMMA LogsUnchanged ==
  ASSUME TypeInv, LogInv, AddressesKept, UNCHANGED chain
  PROVE  LogInv' /\ LogsKept
<1>1. UNCHANGED <<headers, nextHeader, transactions, eventLogs, nextLog>>
  BY DEF chain
<1>2. nextLog \in Nat
  BY DEF TypeInv, LogTypes, Ids
<1> QED
  BY <1>1, <1>2 DEF LogInv, LogsFaithful, LogsKept, AddressesKept

\* No step makes a log dangle, or lets an id name two logs.
LEMMA LogStep ==
  ASSUME TypeInv, AddressInv, LogInv, AddressesKept, [Next]_vars
  PROVE  LogInv' /\ LogsKept
<1>1. CASE Sync
  BY <1>1, HeaderSyncLogs DEF Sync
<1>2. CASE Extractor
  BY <1>2, ExtractLogs DEF Extractor
<1>3. CASE \E w \in Workers : Commit(w)
  BY <1>3, CommitLogs
<1>4. CASE UNCHANGED chain
  BY <1>4, LogsUnchanged
<1> QED
  BY <1>1, <1>2, <1>3, <1>4 DEF Next, Progress, Fetch, Decode, ResolveAddress, Reject,
                                Rollback, Fault, vars

-----------------------------------------------------------------------------
(* What workers hold.                                                      *)

\* No step of anybody falsifies what a worker holds.
LEMMA WorkKept ==
  ASSUME TypeInv, AddressesKept, LogsKept, nextLog' \in Nat, NEW k, WorkOK(k), WorkTrue(k)
  PROVE  WorkTrue(k)'
<1>1. nextLog \in Nat /\ nextLog <= nextLog' /\ \A l \in DOMAIN k.batch : l \in Nat
  BY DEF TypeInv, LogTypes, LogsKept, WorkOK, PartialFunction, Ids
<1>2. ASSUME NEW raw, NEW fk, FkTrue(raw, fk)
      PROVE  FkTrue(raw, fk)'
  BY <1>2 DEF FkTrue, AddressesKept
<1>3. SnapshotTrue(k)'
  BY <1>1 DEF WorkTrue, SnapshotTrue, LogsKept
<1>4. FksTrue(k)'
  BY <1>2 DEF WorkTrue, FksTrue
<1>5. ModelsTrue(k)'
  BY <1>2 DEF WorkTrue, ModelsTrue
<1> QED
  BY <1>3, <1>4, <1>5 DEF WorkTrue

\* A worker without a batch holds nothing false.
LEMMA IdleTrue == WorkTrue(IdleWork)'
<1>1. DOMAIN Empty = {}
  BY DEF Empty
<1> QED
  BY <1>1 DEF WorkTrue, SnapshotTrue, FksTrue, ModelsTrue, IdleWork

\* The id a call returned is that of the account the log names in the column the
\* id goes to.
LEMMA AnsweredTrue ==
  ASSUME NEW k, WorkOK(k), BatchOK(k), k.pc = "create",
         NEW l \in k.todo, \A m \in k.todo : l <= m,
         k.batch[l].raw \in RawLogs,
         WorkTrue(k)', NEW id,
         Canonical(CallText(k.batch[l].raw, Calls(k.event)[k.call])) \in DOMAIN addresses',
         id = addresses'[Canonical(CallText(k.batch[l].raw, Calls(k.event)[k.call]))]
  PROVE  WorkTrue(Answered(k, l, id))'
<1> DEFINE call == Calls(k.event)[k.call]
           raw == k.batch[l].raw
           key == Canonical(CallText(raw, call))
           fks == [k.fks EXCEPT ![call.column] = id]
           model == [event |-> k.event, header |-> k.batch[l].header,
                     fk |-> fks, raw |-> raw]
           next == Answered(k, l, id)
<1>1. /\ k.event \in Transformers /\ k.call \in 1 .. Len(Calls(k.event))
      /\ call.column \in AddressColumns /\ call.arg \in AddressColumns
      /\ call.column = call.arg
  BY CallTypes, CallsOK DEF WorkOK, BatchOK, CallsWellFormed
<1>2. key = Checksum(Content[raw].account[call.column])
  BY <1>1 DEF Canonical, CallText, Checksum
<1>3. \A m \in k.todo : m \in Nat
  BY DEF WorkOK, PartialFunction, Ids
<1> HIDE DEF call, key
<1>4. FkTrue(raw, k.fks)'
  BY DEF WorkTrue, FksTrue
<1>5. FkTrue(raw, fks)'
  <2>1. \A c \in AddressColumns \ {call.column} : fks[c] = k.fks[c]
    BY DEF WorkOK, Fks
  <2>2. fks[call.column] = id
    BY <1>1 DEF WorkOK, Fks
  <2> HIDE DEF fks, raw
  <2>3. key \in DOMAIN addresses' /\ id = addresses'[key]
    BY DEF key, raw, call
  <2> SUFFICES ASSUME NEW c \in Columns(fks)
               PROVE  /\ Checksum(Content[raw].account[c]) \in DOMAIN addresses'
                      /\ fks[c] = addresses'[Checksum(Content[raw].account[c])]
    BY DEF FkTrue
  <2>4. CASE c = call.column
    BY <1>2, <2>2, <2>3, <2>4
  <2>5. CASE c # call.column
    <3>1. c \in Columns(k.fks) /\ fks[c] = k.fks[c]
      BY <2>1, <2>5 DEF Columns
    <3> QED
      BY <1>4, <3>1 DEF FkTrue
  <2> QED
    BY <2>4, <2>5
<1>6. CASE k.call < Len(Calls(k.event))
  <2>1. next = [pc |-> k.pc, event |-> k.event, batch |-> k.batch, todo |-> k.todo,
                call |-> k.call + 1, fks |-> fks, models |-> k.models]
    <3>1. next = [k EXCEPT !.call = k.call + 1, !.fks = fks]
      BY <1>6 DEF Answered, call
    <3> HIDE DEF fks
    <3> QED
      BY <3>1, NextCallRecord DEF WorkOK
  <2> HIDE DEF next, fks, raw
  <2>2. \A m \in k.todo : (\A n \in k.todo : m <= n) => m = l
    BY <1>3
  <2>3. FksTrue(next)'
    BY <1>5, <2>1, <2>2 DEF FksTrue, raw
  <2>4. SnapshotTrue(next)' /\ ModelsTrue(next)'
    BY <2>1 DEF WorkTrue, SnapshotTrue, ModelsTrue
  <2>5. WorkTrue(next)'
    BY <2>3, <2>4 DEF WorkTrue
  <2> QED
    BY <2>5 DEF next, key, raw, call
<1>7. CASE ~ (k.call < Len(Calls(k.event)))
  <2>1. next = [pc |-> IF k.todo = {l} THEN "persist" ELSE "create",
                event |-> k.event, batch |-> k.batch, todo |-> k.todo \ {l},
                call |-> 1, fks |-> NoFks, models |-> With(k.models, l, model)]
    <3>1. next = [k EXCEPT !.call = 1, !.fks = NoFks, !.todo = k.todo \ {l},
                           !.pc = IF k.todo = {l} THEN "persist" ELSE "create",
                           !.models = With(k.models, l, model)]
      BY <1>7 DEF Answered, call
    <3> HIDE DEF model
    <3> QED
      BY <3>1, NextLogRecord DEF WorkOK
  <2> HIDE DEF next, fks
  <2>2. \A r : FkTrue(r, NoFks)'
    BY DEF FkTrue, NoFks, Columns
  <2>3. FksTrue(next)'
    BY <2>1, <2>2 DEF FksTrue
  <2>4. /\ DOMAIN With(k.models, l, model) = DOMAIN k.models \cup {l}
        /\ With(k.models, l, model)[l] = model
        /\ \A m \in DOMAIN k.models : m # l => With(k.models, l, model)[m] = k.models[m]
    BY DEF With
  <2>5. /\ model.event = k.event /\ model.header = k.batch[l].header
        /\ model.raw = k.batch[l].raw /\ FkTrue(k.batch[l].raw, model.fk)'
    BY <1>5
  <2> HIDE DEF model, raw
  <2>6. ModelsTrue(next)'
    BY <2>1, <2>4, <2>5 DEF ModelsTrue, WorkTrue
  <2>7. SnapshotTrue(next)'
    BY <2>1 DEF SnapshotTrue, WorkTrue
  <2>8. WorkTrue(next)'
    BY <2>3, <2>6, <2>7 DEF WorkTrue
  <2> QED
    BY <2>8 DEF next, key, raw, call
<1> QED
  BY <1>6, <1>7

\* A worker's step: the other workers hold what they held.
LEMMA SetWorkTrue ==
  ASSUME TypeInv, WorkInv, AddressesKept, LogsKept, nextLog' \in Nat,
         NEW w \in Workers, NEW k, WorkTrue(k)', work' = [work EXCEPT ![w] = k]
  PROVE  WorkInv'
<1> SUFFICES ASSUME NEW v \in Workers PROVE WorkTrue(work[v])'
  BY DEF WorkInv
<1>1. CASE v = w
  <2>1. work'[v] = k
    BY <1>1 DEF TypeInv, WorkTypes
  <2> QED
    BY <2>1
<1>2. CASE v # w
  <2>1. PICK j : j = work[v]
    OBVIOUS
  <2>2. WorkOK(j) /\ WorkTrue(j)
    BY <2>1 DEF TypeInv, WorkTypes, WorkInv
  <2>3. WorkTrue(j)'
    BY <2>2, WorkKept
  <2>4. work'[v] = j
    BY <1>2, <2>1 DEF TypeInv, WorkTypes
  <2> QED
    BY <2>3, <2>4
<1> QED
  BY <1>1, <1>2

\* A step of header sync or extraction falsifies nothing that a worker holds.
LEMMA WorkUnchanged ==
  ASSUME TypeInv, WorkInv, AddressesKept, LogsKept, nextLog' \in Nat, UNCHANGED work
  PROVE  WorkInv'
<1> SUFFICES ASSUME NEW v \in Workers PROVE WorkTrue(work[v])'
  BY DEF WorkInv
<1>1. PICK j : j = work[v]
  OBVIOUS
<1>2. WorkOK(j) /\ WorkTrue(j)
  BY <1>1 DEF TypeInv, WorkTypes, WorkInv
<1>3. WorkTrue(j)'
  BY <1>2, WorkKept
<1> QED
  BY <1>1, <1>3

\* A batch is true when it is read.
LEMMA FetchTrue ==
  ASSUME TypeInv, LogInv, NEW w \in Workers, NEW t \in Transformers,
         NEW batch \in SUBSET DOMAIN eventLogs, Fetch(w, t, batch)
  PROVE  \E k : WorkTrue(k)' /\ work' = [work EXCEPT ![w] = k]
<1>1. PICK k :
        k = [pc |-> IF Transformer[t].verify = "upfront" THEN "decode" ELSE "create",
             event |-> t,
             batch |-> [l \in batch |-> [header |-> eventLogs[l].header,
                                         raw |-> eventLogs[l].raw]],
             todo |-> batch, call |-> 1, fks |-> NoFks, models |-> Empty]
  OBVIOUS
<1>2. /\ work' = [work EXCEPT ![w] = k]
      /\ eventLogs' = eventLogs /\ nextLog' = nextLog
      /\ \A l \in batch : Content[eventLogs[l].raw].event = t
  BY <1>1 DEF Fetch, chain
<1>3. /\ k.event = t /\ k.fks = NoFks /\ k.models = Empty /\ DOMAIN k.batch = batch
      /\ \A l \in batch : /\ k.batch[l].header = eventLogs[l].header
                           /\ k.batch[l].raw = eventLogs[l].raw
  BY <1>1
<1>4. SnapshotTrue(k)'
  BY <1>2, <1>3 DEF SnapshotTrue, LogInv
<1>5. FksTrue(k)'
  BY <1>3 DEF FksTrue, FkTrue, NoFks, Columns
<1>6. ModelsTrue(k)'
  BY <1>3 DEF ModelsTrue, Empty
<1> QED
  BY <1>2, <1>4, <1>5, <1>6 DEF WorkTrue

\* toEntities adds nothing to what the worker holds.
LEMMA DecodeTrue ==
  ASSUME TypeInv, WorkInv, AddressesKept, LogsKept, nextLog' \in Nat,
         NEW w \in Workers, Decode(w)
  PROVE  \E k : WorkTrue(k)' /\ work' = [work EXCEPT ![w] = k]
<1>1. PICK j : j = work[w]
  OBVIOUS
<1>2. WorkOK(j) /\ WorkTrue(j)
  BY <1>1 DEF TypeInv, WorkTypes, WorkInv
<1>3. WorkTrue(j)'
  BY <1>2, WorkKept
<1>4. PICK k : k = [j EXCEPT !.pc = "create"]
  OBVIOUS
<1>5. /\ k.event = j.event /\ k.batch = j.batch /\ k.todo = j.todo
      /\ k.fks = j.fks /\ k.models = j.models
  BY <1>2, <1>4 DEF WorkOK
<1>6. WorkTrue(k)'
  BY <1>3, <1>5 DEF WorkTrue, SnapshotTrue, FksTrue, ModelsTrue
<1>7. work' = [work EXCEPT ![w] = k]
  BY <1>1, <1>4 DEF Decode
<1> QED
  BY <1>6, <1>7

\* The id a call returns is that of the account the log names for its column.
LEMMA ResolveAddressTrue ==
  ASSUME TypeInv, WorkInv, AddressesKept, LogsKept, nextLog' \in Nat,
         NEW w \in Workers, ResolveAddress(w)
  PROVE  \E k : WorkTrue(k)' /\ work' = [work EXCEPT ![w] = k]
<1>1. PICK j : j = work[w]
  OBVIOUS
<1>2. /\ WorkOK(j) /\ BatchOK(j) /\ WorkTrue(j)
  BY <1>1 DEF TypeInv, WorkTypes, WorkInv
<1>3. PICK l \in j.todo :
        LET text == CallText(j.batch[l].raw, Calls(j.event)[j.call]) IN
        /\ Current(w, l)
        /\ GetOrCreateAddress(text)
        /\ work' = [work EXCEPT ![w] = Answered(j, l, addresses'[Canonical(text)])]
  BY <1>1 DEF ResolveAddress
<1>4. PICK key : key = Canonical(CallText(j.batch[l].raw, Calls(j.event)[j.call]))
  OBVIOUS
<1>5. PICK id : id = addresses'[key]
  OBVIOUS
<1>6. /\ j.batch[l].raw \in RawLogs
      /\ CallText(j.batch[l].raw, Calls(j.event)[j.call]) \in Texts
  BY <1>1, <1>3, CallTextType
<1>7. key \in DOMAIN addresses'
  BY <1>3, <1>4, <1>6, GetOrCreateAddressTypes DEF TypeInv
<1>8. j.pc = "create" /\ \A m \in j.todo : l <= m
  BY <1>1, <1>3 DEF Current
<1>9. WorkTrue(j)'
  BY <1>2, WorkKept
<1>10. WorkTrue(Answered(j, l, id))'
  BY <1>2, <1>4, <1>5, <1>6, <1>7, <1>8, <1>9, AnsweredTrue
<1>11. work' = [work EXCEPT ![w] = Answered(j, l, id)]
  BY <1>3, <1>4, <1>5
<1> QED
  BY <1>10, <1>11

\* No step of anybody makes what a worker holds false.
LEMMA WorkStep ==
  ASSUME TypeInv, LogInv, WorkInv, AddressesKept, LogsKept, [Next]_vars
  PROVE  WorkInv'
<1>1. nextLog' \in Nat
  BY TypeStep DEF TypeInv, LogTypes, Ids
<1>2. CASE UNCHANGED work
  BY <1>1, <1>2, WorkUnchanged
<1>3. CASE \E w \in Workers : GiveUp(w)
  BY <1>1, <1>3, IdleTrue, SetWorkTrue DEF GiveUp
<1>4. CASE \E w \in Workers : Progress(w) /\ ~ GiveUp(w)
  <2>1. PICK w \in Workers : Progress(w) /\ ~ GiveUp(w)
    BY <1>4
  <2>2. \E k : WorkTrue(k)' /\ work' = [work EXCEPT ![w] = k]
    BY <1>1, <2>1, FetchTrue, DecodeTrue, ResolveAddressTrue
    DEF Progress, Reject, Commit, Rollback
  <2> QED
    BY <1>1, <2>2, SetWorkTrue
<1> QED
  BY <1>2, <1>3, <1>4 DEF Next, Sync, HeaderSync, Extractor, Extract, Fault, vars

-----------------------------------------------------------------------------
(* Rows.                                                                   *)

\* RowsFaithful for one row.
RowFaithful(r) ==
  /\ r.log \in DOMAIN eventLogs
  /\ eventLogs[r.log].header = r.header
  /\ eventLogs[r.log].raw = r.raw
  /\ Content[r.raw].event = r.event
  /\ Columns(r.fk) \cup Transformer[r.event].values = TableColumns(r.event)
  /\ FkTrue(r.raw, r.fk)

\* RowsFaithful, row by row.
LEMMA RowFaithfulMeaning == RowsFaithful <=> \A r \in rows : RowFaithful(r)
  BY DEF RowsFaithful, RowFaithful, FkTrue, ColumnFaithful

\* A row stays faithful as long as its log stays.
LEMMA RowKept ==
  ASSUME NEW r, RowFaithful(r), AddressesKept, LogsKept, r.log \in DOMAIN eventLogs'
  PROVE  RowFaithful(r)'
<1>1. FkTrue(r.raw, r.fk)'
  BY DEF RowFaithful, FkTrue, AddressesKept
<1> QED
  BY <1>1 DEF RowFaithful, LogsKept

\* Replacing a header leaves no row of a log that went with it.
LEMMA HeaderSyncRows ==
  ASSUME RowInv, AddressesKept, LogsKept, NEW b \in Blocks, HeaderSync(b)
  PROVE  /\ RowInv'
         /\ \A r \in rows : r \in rows' \/ r.log \notin DOMAIN eventLogs'
<1> DEFINE stale == {h \in DOMAIN headers : Number[headers[h]] = Number[b]}
           goneTxs == {tx \in DOMAIN transactions : transactions[tx] \in stale}
           goneLogs == {l \in DOMAIN eventLogs :
                          \/ eventLogs[l].header \in stale
                          \/ Content[eventLogs[l].raw].tx \in goneTxs}
<1>1. /\ eventLogs' = Without(eventLogs, goneLogs)
      /\ rows' = {r \in rows : r.log \notin goneLogs /\ r.header \notin stale}
  BY DEF HeaderSync, Cascade
<1>2. \A l \in DOMAIN eventLogs : eventLogs[l].header \in stale => l \in goneLogs
  OBVIOUS
<1> HIDE DEF stale, goneTxs, goneLogs
<1>3. /\ DOMAIN eventLogs' = DOMAIN eventLogs \ goneLogs
      /\ \A l \in DOMAIN eventLogs' : eventLogs'[l] = eventLogs[l]
  BY <1>1 DEF Without, Restrict
<1>4. \A r \in rows : RowFaithful(r)
  BY RowFaithfulMeaning DEF RowInv
<1>5. \A r \in rows' : RowFaithful(r)'
  <2> TAKE r \in rows'
  <2>1. r \in rows /\ r.log \notin goneLogs
    BY <1>1
  <2>2. RowFaithful(r) /\ r.log \in DOMAIN eventLogs'
    BY <1>3, <1>4, <2>1 DEF RowFaithful
  <2> QED
    BY <2>2, RowKept
<1>6. RowsFaithful'
  BY <1>5 DEF RowsFaithful, RowFaithful, FkTrue, ColumnFaithful
<1>7. OneRowPerLog'
  BY <1>1 DEF RowInv, OneRowPerLog
<1>8. TransformedIffStored'
  <2> SUFFICES ASSUME NEW l \in DOMAIN eventLogs'
               PROVE  eventLogs'[l].transformed <=> \E r \in rows' : r.log = l
    BY DEF TransformedIffStored
  <2>1. l \in DOMAIN eventLogs /\ l \notin goneLogs /\ eventLogs'[l] = eventLogs[l]
    BY <1>3
  <2>2. \A r \in rows : r.log = l => r \in rows'
    BY <1>1, <1>2, <1>4, <2>1 DEF RowFaithful
  <2>3. rows' \subseteq rows
    BY <1>1
  <2> QED
    BY <2>1, <2>2, <2>3 DEF RowInv, TransformedIffStored
<1>9. \A r \in rows : r \in rows' \/ r.log \notin DOMAIN eventLogs'
  BY <1>1, <1>2, <1>3, <1>4 DEF RowFaithful
<1> QED
  BY <1>6, <1>7, <1>8, <1>9 DEF RowInv

\* A new log has no row, whatever rows there were before.
LEMMA ExtractRows ==
  ASSUME TypeInv, AddressInv, LogInv, RowInv, AddressesKept, LogsKept,
         NEW h \in DOMAIN headers, NEW raw \in RawLogs, Extract(h, raw)
  PROVE  RowInv'
<1>1. /\ rows' = rows
      /\ DOMAIN eventLogs' = DOMAIN eventLogs \cup {nextLog}
      /\ nextLog \notin DOMAIN eventLogs
      /\ ~ eventLogs'[nextLog].transformed
      /\ \A l \in DOMAIN eventLogs : eventLogs'[l] = eventLogs[l]
  BY ExtractLogs DEF Extract
<1>2. \A r \in rows : RowFaithful(r)
  BY RowFaithfulMeaning DEF RowInv
<1>3. \A r \in rows' : RowFaithful(r)'
  BY <1>1, <1>2, RowKept DEF RowFaithful
<1>4. RowsFaithful'
  BY <1>3 DEF RowsFaithful, RowFaithful, FkTrue, ColumnFaithful
<1>5. TransformedIffStored'
  <2>1. \A r \in rows : r.log # nextLog
    BY <1>1, <1>2 DEF RowFaithful
  <2> QED
    BY <1>1, <2>1 DEF RowInv, TransformedIffStored
<1> QED
  BY <1>1, <1>4, <1>5 DEF RowInv, OneRowPerLog

\* A step that touches no table keeps rows and flags in step.
LEMMA RowsUnchanged ==
  ASSUME RowInv, AddressesKept, LogsKept, UNCHANGED <<rows, eventLogs>>
  PROVE  RowInv'
<1>1. \A r \in rows : RowFaithful(r)
  BY RowFaithfulMeaning DEF RowInv
<1>2. \A r \in rows' : RowFaithful(r)'
  BY <1>1, RowKept DEF RowFaithful
<1>3. RowsFaithful'
  BY <1>2 DEF RowsFaithful, RowFaithful, FkTrue, ColumnFaithful
<1> QED
  BY <1>3 DEF RowInv, OneRowPerLog, TransformedIffStored

-----------------------------------------------------------------------------
(* The transaction.                                                        *)

\* A row PersistModels writes for a log of the batch.
Written(models, l) ==
  [id |-> RowId(models, l), event |-> models[l].event, log |-> l,
   header |-> models[l].header, fk |-> models[l].fk, raw |-> models[l].raw]

\* A model that is accepted describes a log that is still there, and nothing
\* about it is stale.
LEMMA AcceptedIsTrue ==
  ASSUME TypeInv, WorkInv, NEW w \in Workers, Commit(w), NEW l \in DOMAIN work[w].models
  PROVE  LET model == work[w].models[l] IN
         /\ model \in Model
         /\ l \in DOMAIN eventLogs
         /\ eventLogs[l].header = model.header
         /\ eventLogs[l].raw = model.raw
         /\ Content[model.raw].event = model.event
         /\ Columns(model.fk) = Table[model.event].fks
         /\ Columns(model.fk) \cup Transformer[model.event].values = TableColumns(model.event)
         /\ FkTrue(model.raw, model.fk)
<1> DEFINE model == work[w].models[l]
<1>1. WorkOK(work[w]) /\ SnapshotTrue(work[w]) /\ ModelsTrue(work[w])
  BY DEF TypeInv, WorkTypes, WorkInv, WorkTrue
<1>2. model \in Model /\ l \in DOMAIN work[w].batch
  BY <1>1 DEF WorkOK, PartialFunction
<1>3. Acceptable(l, model)
  BY DEF Commit
<1>4. /\ model.event = work[w].event /\ model.header = work[w].batch[l].header
      /\ model.raw = work[w].batch[l].raw /\ FkTrue(model.raw, model.fk)
  BY <1>1 DEF ModelsTrue
<1> HIDE DEF model
<1>5. /\ l \in DOMAIN eventLogs
      /\ eventLogs[l].header = model.header
      /\ eventLogs[l].raw = model.raw
      /\ Content[model.raw].event = model.event
  BY <1>1, <1>2, <1>3, <1>4 DEF Acceptable, SnapshotTrue
<1>6. model.event \in Transformers /\ Columns(model.fk) \in SUBSET AddressColumns
  BY <1>2 DEF Model, Columns
<1>7. /\ Columns(model.fk) = Table[model.event].fks
      /\ Columns(model.fk) \cup Transformer[model.event].values = TableColumns(model.event)
  BY <1>3, <1>6, FitIsExact DEF Acceptable
<1> QED
  BY <1>2, <1>4, <1>5, <1>7 DEF model

\* A stored batch has one true row per log, and the flag of each log is set.
LEMMA CommitRows ==
  ASSUME TypeInv, AddressInv, WorkInv, RowInv, AddressesKept, LogsKept,
         NEW w \in Workers, Commit(w)
  PROVE  /\ RowInv'
         /\ \A r \in rows : r \in rows'
         /\ \A l \in DOMAIN work[w].models : \E r \in rows' : r.log = l
<1> DEFINE models == work[w].models
<1>1. \A r \in rows : RowFaithful(r) /\ r \in Row
  BY RowFaithfulMeaning DEF RowInv, TypeInv, RowTypes
<1>2. \A l \in DOMAIN models :
        /\ models[l] \in Model
        /\ l \in DOMAIN eventLogs
        /\ eventLogs[l].header = models[l].header
        /\ eventLogs[l].raw = models[l].raw
        /\ Content[models[l].raw].event = models[l].event
        /\ Columns(models[l].fk) = Table[models[l].event].fks
        /\ Columns(models[l].fk) \cup Transformer[models[l].event].values
             = TableColumns(models[l].event)
        /\ FkTrue(models[l].raw, models[l].fk)
  BY AcceptedIsTrue
<1>3. /\ rows' = Upsert(models) /\ eventLogs' = MarkTransformed(DOMAIN models)
      /\ addresses' = addresses
  BY DEF Commit
<1> HIDE DEF models
\* The row in the way of a model is the row of its log, and no other.
<1>4. \A l \in DOMAIN models, r \in rows : Conflicts(r, l, models[l]) <=> r.log = l
  BY <1>1, <1>2 DEF Conflicts, RowFaithful
<1>5. rows' = {r \in rows : r.log \notin DOMAIN models}
                \cup {Written(models, l) : l \in DOMAIN models}
  BY <1>3, <1>4 DEF Upsert, Written
\* A log that has a row gets the same row again.
<1>6. ASSUME NEW r \in rows, r.log \in DOMAIN models
      PROVE  Written(models, r.log) = r
  <2>1. RowId(models, r.log) = r.id
    BY <1>4, <1>6 DEF RowId, RowInv, OneRowPerLog
  <2>2. /\ models[r.log].event = r.event /\ models[r.log].header = r.header
        /\ models[r.log].raw = r.raw
    BY <1>1, <1>2, <1>6 DEF RowFaithful
  <2>3. models[r.log].fk = r.fk
    <3>1. /\ r.event \in Transformers
          /\ Columns(r.fk) \in SUBSET AddressColumns
          /\ r.fk \in Fks /\ models[r.log].fk \in Fks
      BY <1>1, <1>2, <1>6 DEF Row, Model, Columns
    <3>2. Columns(r.fk) = Columns(models[r.log].fk)
      BY <1>1, <1>2, <1>6, <2>2, <3>1, FitIsExact DEF RowFaithful
    <3>3. ASSUME NEW c \in AddressColumns
          PROVE  models[r.log].fk[c] = r.fk[c]
      <4>1. CASE c \in Columns(r.fk)
        BY <1>1, <1>2, <1>6, <2>2, <3>2, <4>1 DEF RowFaithful, FkTrue
      <4>2. CASE c \notin Columns(r.fk)
        BY <3>2, <4>2 DEF Columns
      <4> QED
        BY <4>1, <4>2
    <3> QED
      BY <3>1, <3>3 DEF Fks
  <2>4. r = [id |-> r.id, event |-> r.event, log |-> r.log, header |-> r.header,
             fk |-> r.fk, raw |-> r.raw]
    BY <1>1 DEF Row
  <2> QED
    BY <2>1, <2>2, <2>3, <2>4 DEF Written
<1>7. rows \subseteq rows'
  <2> SUFFICES ASSUME NEW r \in rows PROVE r \in rows'
    OBVIOUS
  <2>1. CASE r.log \in DOMAIN models
    BY <1>5, <1>6, <2>1
  <2>2. CASE r.log \notin DOMAIN models
    BY <1>5, <2>2
  <2> QED
    BY <2>1, <2>2
<1>8. \A r \in rows' : r \in rows \/ \E l \in DOMAIN models : r = Written(models, l)
  BY <1>5
<1>9. \A l \in DOMAIN models : Written(models, l) \in rows' /\ Written(models, l).log = l
  BY <1>5 DEF Written
<1>10. DOMAIN eventLogs' = DOMAIN eventLogs
  BY <1>3 DEF MarkTransformed
<1>11. \A r \in rows' : RowFaithful(r)'
  <2> TAKE r \in rows'
  <2>1. CASE r \in rows
    BY <1>1, <1>10, <2>1, RowKept DEF RowFaithful
  <2>2. ASSUME NEW l \in DOMAIN models, r = Written(models, l)
        PROVE  RowFaithful(r)'
    <3>1. /\ r.event = models[l].event /\ r.log = l /\ r.header = models[l].header
          /\ r.fk = models[l].fk /\ r.raw = models[l].raw
      BY <2>2 DEF Written
    <3>2. RowFaithful(r)
      BY <1>2, <3>1 DEF RowFaithful
    <3> QED
      BY <1>10, <3>2, RowKept DEF RowFaithful
  <2> QED
    BY <1>8, <2>1, <2>2
<1>12. RowsFaithful'
  BY <1>11 DEF RowsFaithful, RowFaithful, FkTrue, ColumnFaithful
<1>13. OneRowPerLog'
  <2> SUFFICES ASSUME NEW r \in rows', NEW s \in rows', r.log = s.log PROVE r = s
    BY DEF OneRowPerLog
  <2>1. CASE r.log \in DOMAIN models
    BY <1>6, <1>8, <1>9, <2>1
  <2>2. CASE r.log \notin DOMAIN models
    BY <1>8, <1>9, <2>2 DEF RowInv, OneRowPerLog
  <2> QED
    BY <2>1, <2>2
<1>14. TransformedIffStored'
  <2> SUFFICES ASSUME NEW l \in DOMAIN eventLogs
               PROVE  eventLogs'[l].transformed <=> \E r \in rows' : r.log = l
    BY <1>10 DEF TransformedIffStored
  <2>1. CASE l \in DOMAIN models
    <3>1. eventLogs[l] \in EventLog
      BY DEF TypeInv, LogTypes, PartialFunction
    <3>2. eventLogs'[l].transformed
      BY <1>3, <2>1, <3>1 DEF MarkTransformed, EventLog
    <3> QED
      BY <1>9, <2>1, <3>2
  <2>2. CASE l \notin DOMAIN models
    <3>1. eventLogs'[l] = eventLogs[l]
      BY <1>3, <2>2 DEF MarkTransformed
    <3>2. \A r \in rows' : r.log = l => r \in rows
      BY <1>8, <1>9, <2>2
    <3> QED
      BY <1>7, <3>1, <3>2 DEF RowInv, TransformedIffStored
  <2> QED
    BY <2>1, <2>2
<1> QED
  BY <1>7, <1>9, <1>12, <1>13, <1>14 DEF RowInv, models

\* No step leaves a row without its log, a false row, or a flag without its row.
LEMMA RowStep ==
  ASSUME TypeInv, AddressInv, LogInv, WorkInv, RowInv, AddressesKept, LogsKept, [Next]_vars
  PROVE  RowInv'
<1>1. CASE Sync
  BY <1>1, HeaderSyncRows DEF Sync
<1>2. CASE Extractor
  BY <1>2, ExtractRows DEF Extractor
<1>3. CASE \E w \in Workers : Commit(w)
  BY <1>3, CommitRows
<1>4. CASE UNCHANGED <<rows, eventLogs>>
  BY <1>4, RowsUnchanged
<1> QED
  BY <1>1, <1>2, <1>3, <1>4 DEF Next, Progress, Fetch, Decode, ResolveAddress, Reject,
                                Rollback, Fault, vars, chain

-----------------------------------------------------------------------------
\* The empty database is safe.
LEMMA SafetyInit == Init => SafetyInv
<1> SUFFICES ASSUME Init PROVE SafetyInv
  OBVIOUS
<1>1. TypeInv
  BY TypeInit
<1>2. DOMAIN Empty = {}
  BY DEF Empty
<1>3. AddressInv /\ LogInv /\ RowInv
  BY <1>2 DEF Init, AddressInv, OneIdPerAccount, LogInv, LogsFaithful, RowInv,
              RowsFaithful, OneRowPerLog, TransformedIffStored
<1>4. WorkInv
  BY <1>2 DEF Init, WorkInv, WorkTrue, SnapshotTrue, FksTrue, ModelsTrue, IdleWork
<1> QED
  BY <1>1, <1>3, <1>4 DEF SafetyInv

\* Every step preserves the invariant.
LEMMA SafetyStep == SafetyInv /\ [Next]_vars => SafetyInv'
<1> SUFFICES ASSUME SafetyInv, [Next]_vars PROVE SafetyInv'
  OBVIOUS
<1>1. TypeInv /\ AddressInv /\ LogInv /\ WorkInv /\ RowInv
  BY DEF SafetyInv
<1>2. TypeInv'
  BY <1>1, TypeStep
<1>3. AddressInv' /\ AddressesKept
  BY <1>1, AddressStep
<1>4. LogInv' /\ LogsKept
  BY <1>1, <1>3, LogStep
<1>5. WorkInv'
  BY <1>1, <1>3, <1>4, WorkStep
<1>6. RowInv'
  BY <1>1, <1>3, <1>4, RowStep
<1> QED
  BY <1>2, <1>3, <1>4, <1>5, <1>6 DEF SafetyInv

\* The invariant the following theorems rest on holds in every behaviour.
THEOREM SafetyInvariant == Spec => []SafetyInv
  BY SafetyInit, SafetyStep, PTL DEF Spec

-----------------------------------------------------------------------------
(* What the runs check on small instances, for all of them.                *)

\* No log outlives its header or its transaction row, and each keeps the address
\* row of its contract, through any sequence of reorganisations.
THEOREM LogsAreFaithful == Spec => []LogsFaithful
<1>1. SafetyInv => LogsFaithful
  BY DEF SafetyInv, LogInv
<1> QED
  BY <1>1, SafetyInvariant, PTL

\* A row is complete and describes a log that is there, whatever happened
\* between the reading of the log and the transaction.
THEOREM RowsAreFaithful == Spec => []RowsFaithful
<1>1. SafetyInv => RowsFaithful
  BY DEF SafetyInv, RowInv
<1> QED
  BY <1>1, SafetyInvariant, PTL

\* However many workers transform a log, it has one row.
THEOREM RowsAreUnique == Spec => []OneRowPerLog
<1>1. SafetyInv => OneRowPerLog
  BY DEF SafetyInv, RowInv
<1> QED
  BY <1>1, SafetyInvariant, PTL

\* The transformed flag of a log says whether it has its row.
THEOREM TransformedMeansStored == Spec => []TransformedIffStored
<1>1. SafetyInv => TransformedIffStored
  BY DEF SafetyInv, RowInv
<1> QED
  BY <1>1, SafetyInvariant, PTL

\* Accounts and address ids correspond one to one, whichever form the texts had.
THEOREM AddressesAreUnique == Spec => []OneIdPerAccount
<1>1. SafetyInv => OneIdPerAccount
  BY DEF SafetyInv, AddressInv
<1> QED
  BY <1>1, SafetyInvariant, PTL

\* No step changes or withdraws the id of an address.
THEOREM AddressesAreStable == Spec => AddressesStable
<1>1. SafetyInv /\ [Next]_vars => [AddressesKept]_vars
  BY AddressStep DEF SafetyInv
<1>2. [AddressesKept]_vars =>
        [\A k \in DOMAIN addresses :
           k \in DOMAIN addresses' /\ addresses'[k] = addresses[k]]_vars
  BY DEF AddressesKept
<1> QED
  BY <1>1, <1>2, SafetyInvariant, PTL DEF Spec, AddressesStable

\* No step changes a row, not even the transaction of a second worker that
\* transformed the same log; rows only go with their logs.
THEOREM RowsAreStable == Spec => RowsStable
<1> DEFINE A == \A r \in rows : r \in rows' \/ r.log \notin DOMAIN eventLogs'
<1>1. SafetyInv /\ [Next]_vars => [A]_vars
  <2> SUFFICES ASSUME SafetyInv, Next PROVE A
    OBVIOUS
  <2>1. AddressesKept /\ LogsKept
    BY AddressStep, LogStep DEF SafetyInv
  <2>2. CASE Sync
    BY <2>1, <2>2, HeaderSyncRows DEF SafetyInv, Sync
  <2>3. CASE \E w \in Workers : Commit(w)
    BY <2>1, <2>3, CommitRows DEF SafetyInv
  <2>4. CASE UNCHANGED rows
    BY <2>4
  <2> QED
    BY <2>2, <2>3, <2>4 DEF Next, Progress, Extractor, Extract, Fetch, Decode,
                            ResolveAddress, Reject, Rollback, Fault
<1> QED
  BY <1>1, SafetyInvariant, PTL DEF Spec, RowsStable

\* Header sync replaces no final header, and a row it takes away goes with its
\* own header or with the one its transaction row belongs to.
LEMMA HeaderSyncLeavesFinal ==
  ASSUME SafetyInv, NEW b \in Blocks, HeaderSync(b), NEW r \in rows, Final(r.header)
  PROVE  \/ r \in rows'
         \/ LET owner == transactions[Content[r.raw].tx] IN
            ~ Final(owner) /\ owner \notin DOMAIN headers'
<1> DEFINE stale == {h \in DOMAIN headers : Number[headers[h]] = Number[b]}
           owner == transactions[Content[r.raw].tx]
<1>1. /\ headers' = With(Without(headers, stale), nextHeader, b)
      /\ stale # {} => \A h \in DOMAIN headers : Number[b] + Window > Number[headers[h]]
      /\ Cascade(stale)
  BY DEF HeaderSync
<1>2. \A h \in DOMAIN headers : Number[headers[h]] \in Nat
  BY NumberAssumption, LookupType DEF SafetyInv, TypeInv, HeaderTypes
<1>3. \A h \in stale : h \in DOMAIN headers /\ ~ Final(h)
  BY <1>1, <1>2, NumberAssumption DEF Final
<1>4. \A h \in stale : h \notin DOMAIN headers'
  BY <1>1 DEF With, Without, Restrict, SafetyInv, LogInv, TypeInv, HeaderTypes,
              PartialFunction, Ids
<1> HIDE DEF stale
<1>5. r.header \notin stale
  BY <1>3
<1>6. /\ r.log \in DOMAIN eventLogs
      /\ eventLogs[r.log].header = r.header /\ eventLogs[r.log].raw = r.raw
  BY DEF SafetyInv, RowInv, RowsFaithful
<1>7. ASSUME r \notin rows' PROVE owner \in stale
  BY <1>1, <1>5, <1>6, <1>7 DEF Cascade
<1> QED
  BY <1>3, <1>4, <1>7

\* What is stored of a final block is lost only with a header that is not final,
\* the one its transaction was first seen with, however many workers and
\* reorganisations there are.
THEOREM FinalRowsAreKept == Spec => FinalRowsStay
<1> DEFINE A == \A r \in rows :
                  Final(r.header) =>
                    \/ r \in rows'
                    \/ LET owner == transactions[Content[r.raw].tx] IN
                       ~ Final(owner) /\ owner \notin DOMAIN headers'
<1>1. SafetyInv /\ [Next]_vars => [A]_vars
  <2> SUFFICES ASSUME SafetyInv, Next, NEW r \in rows, Final(r.header)
               PROVE  \/ r \in rows'
                      \/ LET owner == transactions[Content[r.raw].tx] IN
                         ~ Final(owner) /\ owner \notin DOMAIN headers'
    OBVIOUS
  <2>1. CASE Sync
    BY <2>1, HeaderSyncLeavesFinal DEF Sync
  <2>2. CASE \E w \in Workers : Commit(w)
    <3>1. AddressesKept /\ LogsKept
      BY AddressStep, LogStep DEF SafetyInv
    <3> QED
      BY <2>2, <3>1, CommitRows DEF SafetyInv
  <2>3. CASE UNCHANGED rows
    BY <2>3
  <2> QED
    BY <2>1, <2>2, <2>3 DEF Next, Progress, Extractor, Extract, Fetch, Decode,
                            ResolveAddress, Reject, Rollback, Fault
<1> QED
  BY <1>1, SafetyInvariant, PTL DEF Spec, FinalRowsStay

\* A transaction stores a batch whole or not at all.
THEOREM BatchesAreAtomic == Spec => AllOrNothing
<1> DEFINE A == \A w \in Workers :
                  (work[w].pc = "persist" /\ work'[w].pc = "idle" /\ rows' # rows)
                    => \A l \in DOMAIN work[w].batch : \E r \in rows' : r.log = l
<1>1. SafetyInv /\ [Next]_vars => [A]_vars
  <2> SUFFICES ASSUME SafetyInv, Next, NEW w \in Workers, work[w].pc = "persist",
                      work'[w].pc = "idle", rows' # rows,
                      NEW l \in DOMAIN work[w].batch
               PROVE  \E r \in rows' : r.log = l
    OBVIOUS
  <2>1. AddressesKept /\ LogsKept
    BY AddressStep, LogStep DEF SafetyInv
  <2>2. work' # work
    OBVIOUS
  <2>3. PICK v \in Workers : Progress(v) \/ Fault(v)
    BY <2>2 DEF Next, Sync, HeaderSync, Extractor, Extract
  <2>4. Commit(v)
    BY <2>3 DEF Progress, Fetch, Decode, ResolveAddress, Reject, Rollback, Fault
  <2>5. v = w
    BY <2>4 DEF Commit, GiveUp, SafetyInv, TypeInv, WorkTypes
  <2>6. DOMAIN work[w].models = DOMAIN work[w].batch
    BY DEF SafetyInv, TypeInv, WorkTypes, WorkOK
  <2> QED
    BY <2>1, <2>4, <2>5, <2>6, CommitRows DEF SafetyInv
<1> QED
  BY <1>1, SafetyInvariant, PTL DEF Spec, AllOrNothing

-----------------------------------------------------------------------------
(* Where addresses come from.                                              *)

\* The account is that of a log's contract, or one that a log which can be
\* decoded hands over in a call.
Sourced(account) ==
  \E raw \in RawLogs :
    \/ Content[raw].account["address_id"] = account
    \/ /\ Decodable(raw)
       /\ \E i \in DOMAIN Calls(Content[raw].event) :
            Content[raw].account[Calls(Content[raw].event)[i].arg] = account

\* A worker that makes calls has decoded its whole batch before the first, or,
\* where logs are verified one by one, the log whose calls it is making.
DecodedTrue(k) ==
  k.pc = "create" =>
    IF Transformer[k.event].verify = "upfront"
    THEN \A l \in DOMAIN k.batch : Decodable(k.batch[l].raw)
    ELSE k.call > 1 =>
           \A l \in k.todo : (\A m \in k.todo : l <= m) => Decodable(k.batch[l].raw)

DecodedInv == \A w \in Workers : DecodedTrue(work[w])

\* A transformer decodes its batch first or verifies log by log.
LEMMA VerifyOK ==
  ASSUME NEW t \in Transformers
  PROVE  Transformer[t].verify \in {"upfront", "inline"}
  BY DEF Transformers, Transformer, LogBump, LogBuyEnabled, LogDelete, LogInsert,
         LogItemUpdate, LogKill, LogMake, LogMatchingEnabled, LogMinSell,
         LogSortedOffer, LogTake, LogTrade, LogUnsortedOffer, SetMinSell

\* The log a call is made for has been decoded.
LEMMA CurrentDecoded ==
  ASSUME TypeInv, NEW w \in Workers, DecodedTrue(work[w]),
         NEW l \in work[w].todo, Current(w, l), Verified(w, l)
  PROVE  Decodable(work[w].batch[l].raw)
<1>1. WorkOK(work[w]) /\ work[w].pc = "create" /\ \A m \in work[w].todo : l <= m
  BY DEF TypeInv, WorkTypes, Current
<1>2. work[w].event \in Transformers /\ work[w].call \in Nat \ {0}
      /\ l \in DOMAIN work[w].batch
  BY <1>1 DEF WorkOK, Ids
<1>3. CASE Transformer[work[w].event].verify = "upfront"
  BY <1>1, <1>2, <1>3 DEF DecodedTrue
<1>4. CASE Transformer[work[w].event].verify = "inline" /\ work[w].call = 1
  BY <1>4 DEF Verified
<1>5. CASE Transformer[work[w].event].verify = "inline" /\ work[w].call # 1
  BY <1>1, <1>2, <1>5 DEF DecodedTrue
<1> QED
  BY <1>2, <1>3, <1>4, <1>5, VerifyOK

\* Between two calls for a log it stays the decoded one.
LEMMA AnsweredDecoded ==
  ASSUME NEW k, WorkOK(k), DecodedTrue(k), k.pc = "create",
         NEW l \in k.todo, \A m \in k.todo : l <= m, Decodable(k.batch[l].raw), NEW id
  PROVE  DecodedTrue(Answered(k, l, id))
<1> DEFINE fks == [k.fks EXCEPT ![Calls(k.event)[k.call].column] = id]
           model == [event |-> k.event, header |-> k.batch[l].header,
                     fk |-> fks, raw |-> k.batch[l].raw]
<1>1. \A m \in k.todo : m \in Nat
  BY DEF WorkOK, PartialFunction, Ids
<1>2. CASE k.call < Len(Calls(k.event))
  <2>1. PICK next : next = [pc |-> k.pc, event |-> k.event, batch |-> k.batch,
                            todo |-> k.todo, call |-> k.call + 1, fks |-> fks,
                            models |-> k.models]
    OBVIOUS
  <2>2. Answered(k, l, id) = next
    <3>1. Answered(k, l, id) = [k EXCEPT !.call = k.call + 1, !.fks = fks]
      BY <1>2 DEF Answered
    <3> HIDE DEF fks
    <3> QED
      BY <2>1, <3>1, NextCallRecord DEF WorkOK
  <2>3. next.event = k.event /\ next.batch = k.batch /\ next.todo = k.todo
    BY <2>1
  <2>4. \A m \in k.todo : (\A n \in k.todo : m <= n) => m = l
    BY <1>1
  <2>5. DecodedTrue(next)
    BY <2>3, <2>4 DEF DecodedTrue
  <2> QED
    BY <2>2, <2>5
<1>3. CASE ~ (k.call < Len(Calls(k.event)))
  <2>1. PICK next :
          next = [pc |-> IF k.todo = {l} THEN "persist" ELSE "create",
                  event |-> k.event, batch |-> k.batch, todo |-> k.todo \ {l},
                  call |-> 1, fks |-> NoFks, models |-> With(k.models, l, model)]
    OBVIOUS
  <2>2. Answered(k, l, id) = next
    <3>1. Answered(k, l, id) =
            [k EXCEPT !.call = 1, !.fks = NoFks, !.todo = k.todo \ {l},
                      !.pc = IF k.todo = {l} THEN "persist" ELSE "create",
                      !.models = With(k.models, l, model)]
      BY <1>3 DEF Answered
    <3> HIDE DEF model
    <3> QED
      BY <2>1, <3>1, NextLogRecord DEF WorkOK
  <2>3. next.event = k.event /\ next.batch = k.batch /\ next.call = 1
    BY <2>1
  <2>4. DecodedTrue(next)
    BY <2>3 DEF DecodedTrue
  <2> QED
    BY <2>2, <2>4
<1> QED
  BY <1>2, <1>3

\* A worker is idle, has just read its batch, has decoded it, or goes on with a
\* log that it has decoded.
LEMMA DecodedStep ==
  ASSUME TypeInv, DecodedInv, [Next]_vars
  PROVE  DecodedInv'
<1> SUFFICES ASSUME NEW v \in Workers PROVE DecodedTrue(work'[v])
  BY DEF DecodedInv
<1>1. WorkOK(work[v]) /\ DecodedTrue(work[v]) /\ DOMAIN work = Workers
  BY DEF TypeInv, WorkTypes, DecodedInv
<1>2. CASE work'[v] = work[v]
  BY <1>1, <1>2
<1>3. CASE work'[v] # work[v]
  <2>1. PICK w \in Workers : Progress(w) \/ Fault(w)
    BY <1>3 DEF Next, Sync, HeaderSync, Extractor, Extract, vars
  <2>2. PICK k : work' = [work EXCEPT ![w] = k]
    BY <2>1 DEF Progress, Fetch, Decode, ResolveAddress, Reject, Commit, Rollback,
                Fault, GiveUp
  <2>3. v = w
    BY <1>1, <1>3, <2>2
  <2>4. CASE GiveUp(w)
    <3>1. work'[w] = IdleWork
      BY <1>1, <2>3, <2>4 DEF GiveUp
    <3> QED
      BY <2>3, <3>1 DEF DecodedTrue, IdleWork
  <2>5. CASE \E t \in Transformers, batch \in SUBSET DOMAIN eventLogs : Fetch(w, t, batch)
    <3>1. PICK t \in Transformers, batch \in SUBSET DOMAIN eventLogs : Fetch(w, t, batch)
      BY <2>5
    <3>2. /\ work'[w].pc = (IF Transformer[t].verify = "upfront" THEN "decode" ELSE "create")
          /\ work'[w].event = t /\ work'[w].call = 1
      BY <1>1, <2>3, <3>1 DEF Fetch
    <3> QED
      BY <2>3, <3>2 DEF DecodedTrue
  <2>6. CASE Decode(w)
    <3>1. /\ work'[w] = [work[w] EXCEPT !.pc = "create"]
          /\ \A l \in DOMAIN work[w].batch : Decodable(work[w].batch[l].raw)
      BY <1>1, <2>3, <2>6 DEF Decode
    <3>2. work'[w].batch = work[w].batch /\ work'[w].todo = work[w].todo
          /\ work[w].todo \subseteq DOMAIN work[w].batch
      BY <1>1, <2>3, <3>1 DEF WorkOK
    <3> QED
      BY <2>3, <3>1, <3>2 DEF DecodedTrue
  <2>7. CASE ResolveAddress(w)
    <3>1. PICK l \in work[w].todo :
            /\ Current(w, l) /\ Verified(w, l)
            /\ \E id : work' = [work EXCEPT ![w] = Answered(work[w], l, id)]
      BY <2>7 DEF ResolveAddress
    <3>2. PICK id : work' = [work EXCEPT ![w] = Answered(work[w], l, id)]
      BY <3>1
    <3>3. Decodable(work[w].batch[l].raw)
      BY <1>1, <2>3, <3>1, CurrentDecoded
    <3>4. work'[w] = Answered(work[w], l, id)
      BY <1>1, <2>3, <3>2
    <3>5. DecodedTrue(Answered(work[w], l, id))
      BY <1>1, <2>3, <3>1, <3>3, AnsweredDecoded DEF Current
    <3> QED
      BY <2>3, <3>4, <3>5
  <2> QED
    BY <2>1, <2>4, <2>5, <2>6, <2>7 DEF Progress, Reject, Commit, Rollback, Fault
<1> QED
  BY <1>2, <1>3

\* A row that a call adds is that of the text it was given.
LEMMA GetOrCreateAddressSource ==
  ASSUME AddressesHaveSource, NEW text, Sourced(text.account), GetOrCreateAddress(text)
  PROVE  AddressesHaveSource'
<1>1. Canonical(text).account = text.account
  BY DEF Canonical, Checksum
<1>2. \A k \in DOMAIN addresses' : k \in DOMAIN addresses \/ k = Canonical(text)
  BY DEF GetOrCreateAddress, With
<1>3. \A k \in DOMAIN addresses : Sourced(k.account)
  BY DEF AddressesHaveSource, Sourced
<1>4. \A k \in DOMAIN addresses' : Sourced(k.account)
  BY <1>1, <1>2, <1>3
<1> QED
  BY <1>4 DEF AddressesHaveSource, Sourced

\* Only the extraction of a log and a call for a decoded log add addresses.
LEMMA SourceStep ==
  ASSUME TypeInv, WorkInv, DecodedInv, AddressesHaveSource, [Next]_vars
  PROVE  AddressesHaveSource'
<1>1. CASE Extractor
  <2>1. PICK h \in DOMAIN headers, raw \in RawLogs : Extract(h, raw)
    BY <1>1 DEF Extractor
  <2>2. PICK text : /\ text.account = Content[raw].account["address_id"]
                    /\ GetOrCreateAddress(text)
    BY <2>1 DEF Extract, Checksum
  <2>3. Sourced(text.account)
    BY <2>2 DEF Sourced
  <2> QED
    BY <2>2, <2>3, GetOrCreateAddressSource
<1>2. CASE \E w \in Workers : ResolveAddress(w)
  <2>1. PICK w \in Workers : ResolveAddress(w)
    BY <1>2
  <2>2. PICK l \in work[w].todo :
          /\ Current(w, l) /\ Verified(w, l)
          /\ GetOrCreateAddress(CallText(work[w].batch[l].raw,
                                         Calls(work[w].event)[work[w].call]))
    BY <2>1 DEF ResolveAddress
  <2>3. PICK raw : raw = work[w].batch[l].raw
    OBVIOUS
  <2>4. PICK i : i = work[w].call
    OBVIOUS
  <2>5. raw \in RawLogs /\ work[w].event \in Transformers /\ i \in 1 .. Len(Calls(work[w].event))
    BY <2>2, <2>3, <2>4, CallTextType
  <2>6. Decodable(raw)
    BY <2>2, <2>3, CurrentDecoded DEF DecodedInv
  <2>7. l \in DOMAIN work[w].batch /\ Content[raw].event = work[w].event
    BY <2>3 DEF TypeInv, WorkTypes, WorkOK, WorkInv, WorkTrue, SnapshotTrue
  <2>8. PICK text : text = CallText(raw, Calls(Content[raw].event)[i])
    OBVIOUS
  <2>9. text.account = Content[raw].account[Calls(Content[raw].event)[i].arg]
    BY <2>8 DEF CallText
  <2>10. i \in DOMAIN Calls(Content[raw].event)
    <3>1. Calls(Content[raw].event) \in Seq(Call)
      BY <2>5, <2>7, CallsOK DEF CallsWellFormed
    <3> QED
      BY <2>5, <2>7, <3>1
  <2>11. Sourced(text.account)
    BY <2>5, <2>6, <2>9, <2>10 DEF Sourced
  <2>12. GetOrCreateAddress(text)
    BY <2>2, <2>3, <2>4, <2>7, <2>8
  <2> QED
    BY <2>11, <2>12, GetOrCreateAddressSource
<1>3. CASE UNCHANGED addresses
  BY <1>3 DEF AddressesHaveSource
<1> QED
  BY <1>1, <1>2, <1>3 DEF Next, Sync, HeaderSync, Progress, Fetch, Decode, Reject,
                          Commit, Rollback, Fault, vars

\* An account that only logs which cannot be decoded mention never gets a row in
\* addresses, in whatever order batches are read, rejected and read again.
THEOREM AddressesHaveTheirSource == Spec => []AddressesHaveSource
<1> DEFINE Inv == DecodedInv /\ AddressesHaveSource
<1>1. Init => Inv
  BY DEF Init, DecodedInv, DecodedTrue, IdleWork, AddressesHaveSource, Empty
<1>2. SafetyInv /\ Inv /\ [Next]_vars => Inv'
  BY DecodedStep, SourceStep DEF SafetyInv
<1>3. Inv => AddressesHaveSource
  OBVIOUS
<1> QED
  BY <1>1, <1>2, <1>3, SafetyInvariant, PTL DEF Spec

-----------------------------------------------------------------------------
(* The mirror.                                                             *)

\* What a log says in the columns of its table.
Entry(raw) ==
  Says(raw, [c \in Table[Content[raw].event].fks |-> Content[raw].account[c]])

\* The logs that have a row.
Stored == {r.log : r \in rows}

\* The mapping of OasisTransform: logs, rows read back through their foreign
\* keys, and ids given out.
Live  == [l \in DOMAIN eventLogs |-> Entry(eventLogs[l].raw)]
Shown == [l \in Stored |->
            LET r == RowOf(l) IN
            Says(r.raw, [c \in Columns(r.fk) |-> AccountOf(r.fk[c])])]
Seen  == 1 .. nextLog - 1

\* Read back through its foreign keys, a row says what its log says.
LEMMA RowReadsBack ==
  ASSUME AddressInv, NEW r, r \in Row, RowFaithful(r)
  PROVE  Says(r.raw, [c \in Columns(r.fk) |-> AccountOf(r.fk[c])]) = Entry(r.raw)
<1>1. /\ r.event \in Transformers /\ Content[r.raw].event = r.event
      /\ Columns(r.fk) \in SUBSET AddressColumns
  BY DEF Row, RowFaithful, Columns
<1>2. Columns(r.fk) = Table[Content[r.raw].event].fks
  BY <1>1, FitIsExact DEF RowFaithful
<1>3. ASSUME NEW c \in Columns(r.fk)
      PROVE  AccountOf(r.fk[c]) = Content[r.raw].account[c]
  <2>1. PICK key : key = Checksum(Content[r.raw].account[c])
    OBVIOUS
  <2>2. key \in DOMAIN addresses /\ addresses[key] = r.fk[c]
    BY <2>1 DEF RowFaithful, FkTrue
  <2>3. \A k \in DOMAIN addresses : addresses[k] = r.fk[c] => k = key
    BY <2>2 DEF AddressInv, OneIdPerAccount
  <2>4. (CHOOSE k \in DOMAIN addresses : addresses[k] = r.fk[c]) = key
    BY <2>2, <2>3
  <2>5. key.account = Content[r.raw].account[c]
    BY <2>1 DEF Checksum
  <2>6. AccountOf(r.fk[c]) = key.account
    BY <2>4, Zenon DEF AccountOf
  <2> QED
    BY <2>5, <2>6
<1> QED
  BY <1>2, <1>3 DEF Entry

\* The row of a log is the one row there is.
LEMMA RowIsChosen ==
  ASSUME OneRowPerLog, NEW r \in rows
  PROVE  RowOf(r.log) = r
  BY DEF RowOf, OneRowPerLog

\* The rows show logs that are there, and what they say.
ShownTrue == /\ Stored \subseteq DOMAIN eventLogs
             /\ Shown = [l \in Stored |-> Entry(eventLogs[l].raw)]

\* What the safety invariant means for the mapping.
LEMMA ShownIsLive == SafetyInv => ShownTrue
<1> SUFFICES ASSUME SafetyInv PROVE ShownTrue
  OBVIOUS
<1>1. \A r \in rows : RowFaithful(r) /\ r \in Row
  BY RowFaithfulMeaning DEF SafetyInv, RowInv, TypeInv, RowTypes
<1>2. Stored \subseteq DOMAIN eventLogs
  BY <1>1 DEF Stored, RowFaithful
<1>3. ASSUME NEW l \in Stored
      PROVE  Shown[l] = Entry(eventLogs[l].raw)
  <2>1. PICK r \in rows : r.log = l
    BY DEF Stored
  <2>2. RowOf(l) = r
    BY <2>1, RowIsChosen DEF SafetyInv, RowInv
  <2>3. Shown[l] = Says(r.raw, [c \in Columns(r.fk) |-> AccountOf(r.fk[c])])
    BY <2>2 DEF Shown
  <2>4. Shown[l] = Entry(r.raw)
    BY <1>1, <2>3, RowReadsBack DEF SafetyInv
  <2>5. eventLogs[l].raw = r.raw
    BY <1>1, <2>1 DEF RowFaithful
  <2> QED
    BY <2>4, <2>5
<1>4. Shown = [l \in Stored |-> Shown[l]]
  BY DEF Shown
<1> QED
  BY <1>2, <1>3, <1>4 DEF ShownTrue

\* What the abstraction calls Faithful.
LEMMA ShownIsFaithful == SafetyInv => Mirror!Faithful
<1> SUFFICES ASSUME SafetyInv PROVE Mirror!Faithful
  OBVIOUS
<1>1. /\ Stored \subseteq DOMAIN eventLogs
      /\ Shown = [l \in Stored |-> Entry(eventLogs[l].raw)]
  BY ShownIsLive DEF ShownTrue
<1>2. DOMAIN Live = DOMAIN eventLogs /\ DOMAIN Shown = Stored
  BY <1>1 DEF Live
<1>3. \A l \in Stored : Shown[l] = Live[l]
  BY <1>1 DEF Live
<1> QED
  BY <1>1, <1>2, <1>3 DEF Mirror!Faithful, Live, Shown, Entry, Stored

-----------------------------------------------------------------------------
(* Each action is one of the mirror, or invisible there.                   *)

\* The names used here are those of the mapping.
LEMMA MirrorActions ==
  /\ Mirror!Appear <=>
       /\ \E l \in DOMAIN Live' \ Seen :
            Live' = With(Live, l, Live'[l]) /\ Seen' = Seen \cup {l}
       /\ Shown' = Shown
  /\ Mirror!Vanish <=>
       /\ \E gone \in SUBSET DOMAIN Live :
            Live' = Without(Live, gone) /\ Shown' = Without(Shown, gone)
       /\ Seen' = Seen
  /\ Mirror!Copy <=>
       /\ \E batch \in SUBSET DOMAIN Live :
            Shown' = [l \in DOMAIN Shown \cup batch |->
                        IF l \in batch THEN Live[l] ELSE Shown[l]]
       /\ Live' = Live /\ Seen' = Seen
  /\ UNCHANGED Mirror!mirrorVars <=> (Live' = Live /\ Shown' = Shown /\ Seen' = Seen)
<1>1. /\ Mirror!mirrorVars = <<Live, Shown, Seen>>
      /\ Mirror!mirrorVars' = <<Live', Shown', Seen'>>
  BY DEF Mirror!mirrorVars, Live, Shown, Seen, Entry, Stored
<1> QED
  BY <1>1 DEF Mirror!Appear, Mirror!Vanish, Mirror!Copy,
    Mirror!With, Mirror!Without, Mirror!Restrict,
     With, Without, Restrict, Live, Shown, Seen, Entry, Stored

\* Header sync withdraws logs, and their rows with them.
LEMMA HeaderSyncVanishes ==
  ASSUME SafetyInv, ShownTrue, ShownTrue', NEW b \in Blocks, HeaderSync(b)
  PROVE  Mirror!Vanish
<1> DEFINE gone == DOMAIN eventLogs \ DOMAIN eventLogs'
<1>1. PICK T : eventLogs' = Without(eventLogs, T)
  BY DEF HeaderSync, Cascade
<1>2. /\ DOMAIN eventLogs' = DOMAIN eventLogs \ T
      /\ \A l \in DOMAIN eventLogs' : eventLogs'[l] = eventLogs[l]
  BY <1>1 DEF Without, Restrict
<1>3. rows' \subseteq rows
  BY DEF HeaderSync, Cascade
<1>4. \A r \in rows : r \in rows' \/ r.log \notin DOMAIN eventLogs'
  BY AddressStep, LogStep, HeaderSyncRows DEF SafetyInv, Next, Sync
<1>5. Stored' = Stored \ gone
  BY <1>3, <1>4 DEF Stored, ShownTrue
<1>6. DOMAIN Live = DOMAIN eventLogs /\ gone \in SUBSET DOMAIN Live
  BY DEF Live
<1>7. Live' = Without(Live, gone)
  BY <1>2 DEF Live, Without, Restrict
<1>8. Shown' = Without(Shown, gone)
  BY <1>2, <1>5 DEF ShownTrue, Without, Restrict
<1>9. Seen' = Seen
  BY DEF HeaderSync, Seen
<1> QED
  BY <1>6, <1>7, <1>8, <1>9, MirrorActions

\* A log that is extracted appears under an id no log had before.
LEMMA ExtractAppears ==
  ASSUME SafetyInv, ShownTrue, ShownTrue',
         NEW h \in DOMAIN headers, NEW raw \in RawLogs, Extract(h, raw)
  PROVE  Mirror!Appear
<1>1. /\ DOMAIN eventLogs' = DOMAIN eventLogs \cup {nextLog}
      /\ nextLog \notin DOMAIN eventLogs
      /\ \A l \in DOMAIN eventLogs : eventLogs'[l] = eventLogs[l]
  BY AddressStep, ExtractLogs DEF SafetyInv, Next, Extractor
<1>2. nextLog \in Nat \ {0} /\ nextLog' = nextLog + 1 /\ rows' = rows
  BY DEF Extract, SafetyInv, TypeInv, LogTypes, Ids
<1>3. nextLog \notin Seen /\ Seen' = Seen \cup {nextLog}
  BY <1>2 DEF Seen
<1>4. nextLog \in DOMAIN Live' /\ Live' = With(Live, nextLog, Live'[nextLog])
  BY <1>1 DEF Live, With
<1>5. Shown' = Shown
  BY <1>1, <1>2 DEF ShownTrue, Stored
<1> QED
  BY <1>3, <1>4, <1>5, MirrorActions

\* A transaction copies the logs of its batch.
LEMMA CommitCopies ==
  ASSUME SafetyInv, ShownTrue, ShownTrue', NEW w \in Workers, Commit(w)
  PROVE  Mirror!Copy
<1> DEFINE batch == DOMAIN work[w].models
<1>1. /\ \A r \in rows : r \in rows'
      /\ \A l \in batch : \E r \in rows' : r.log = l
  BY AddressStep, LogStep, CommitRows DEF SafetyInv, Next, Progress
<1>2. \A r \in rows' : r \in rows \/ r.log \in batch
  BY DEF Commit, Upsert
<1>3. Stored' = Stored \cup batch
  BY <1>1, <1>2 DEF Stored
<1>4. /\ DOMAIN eventLogs' = DOMAIN eventLogs
      /\ \A l \in DOMAIN eventLogs : eventLogs'[l].raw = eventLogs[l].raw
  <2>1. LogsKept
    BY AddressStep, LogStep DEF SafetyInv, Next, Progress
  <2>2. DOMAIN eventLogs' = DOMAIN eventLogs
    BY DEF Commit, MarkTransformed
  <2> QED
    BY <2>1, <2>2 DEF LogsKept
<1>5. DOMAIN Live = DOMAIN eventLogs /\ Live' = Live
  BY <1>4 DEF Live
<1>6. batch \in SUBSET DOMAIN Live
  BY <1>3, <1>4, <1>5 DEF ShownTrue
<1>7. Shown' = [l \in DOMAIN Shown \cup batch |->
                  IF l \in batch THEN Live[l] ELSE Shown[l]]
  BY <1>3, <1>4, <1>5, <1>6 DEF ShownTrue, Live
<1>8. Seen' = Seen
  BY DEF Commit, Seen
<1> QED
  BY <1>5, <1>6, <1>7, <1>8, MirrorActions

\* All other steps, address calls among them, are invisible in the mirror.
LEMMA OthersInvisible ==
  ASSUME ShownTrue, ShownTrue', UNCHANGED <<eventLogs, nextLog, rows>>
  PROVE  UNCHANGED Mirror!mirrorVars
<1>1. Live' = Live /\ Seen' = Seen /\ Shown' = Shown
  BY DEF Live, Seen, ShownTrue, Stored
<1> QED
  BY <1>1, MirrorActions

\* A step of the pipeline is one of the mirror or changes nothing there.
LEMMA MirrorStep ==
  SafetyInv /\ ShownTrue /\ ShownTrue' /\ [Next]_vars
    => [Mirror!Next]_(Mirror!mirrorVars)
<1> SUFFICES ASSUME SafetyInv, ShownTrue, ShownTrue', [Next]_vars
             PROVE  Mirror!Next \/ UNCHANGED Mirror!mirrorVars
  OBVIOUS
<1>1. CASE Sync
  BY <1>1, HeaderSyncVanishes DEF Sync, Mirror!Next
<1>2. CASE Extractor
  BY <1>2, ExtractAppears DEF Extractor, Mirror!Next
<1>3. CASE \E w \in Workers : Commit(w)
  BY <1>3, CommitCopies DEF Mirror!Next
<1>4. CASE UNCHANGED <<eventLogs, nextLog, rows>>
  BY <1>4, OthersInvisible
<1> QED
  BY <1>1, <1>2, <1>3, <1>4 DEF Next, Progress, Fetch, Decode, ResolveAddress, Reject,
                                Rollback, Fault, vars, chain

\* The empty database is the empty mirror.
LEMMA MirrorInit == Init => Mirror!Init
<1> SUFFICES ASSUME Init PROVE Mirror!Init
  OBVIOUS
<1>1. DOMAIN eventLogs = {} /\ rows = {} /\ nextLog = 1
  BY DEF Init, Empty
<1>2. Live = Empty /\ Shown = Empty /\ Seen = {}
  BY <1>1 DEF Live, Shown, Stored, Seen, Empty
<1> QED
  BY <1>2 DEF Mirror!Init, Mirror!Empty, Empty, Live, Shown, Seen, Entry, Stored

\* The pipeline implements the mirror, for any number of workers, logs and
\* reorganisations: its readers see entries come in whole batches, and leave
\* with their logs and at no other time.
THEOREM PipelineIsAMirror == Spec => ImplementsMirror
<1>1. SafetyInv => ShownTrue
  BY ShownIsLive
<1> QED
  BY <1>1, MirrorInit, MirrorStep, SafetyInvariant, PTL DEF Spec, ImplementsMirror, Mirror!Spec

\* What readers see is there, and is what it says: no row of a log that was
\* reorganised away, none that differs from its log.
THEOREM MirrorIsFaithful == Spec => []Mirror!Faithful
  BY ShownIsFaithful, SafetyInvariant, PTL

=============================================================================

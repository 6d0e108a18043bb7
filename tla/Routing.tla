------------------------------- MODULE Routing -------------------------------
(***************************************************************************)
(* How a log finds its transformer and its arguments their columns.        *)
(*                                                                         *)
(* A log has no names in it, only positions: the first topic says what it  *)
(* is, the other topics hold the indexed arguments, the data the rest.     *)
(* Everything else is agreed upon in four places - the ABIs of the         *)
(* configuration, the signatures of shared/constants, the entities and the *)
(* transformers - and compared by none of them.  Three contracts of two    *)
(* generations share the transformers, and a transformer decodes the logs  *)
(* of all its contracts by the ABI of the first.                           *)
(*                                                                         *)
(* A value is the name of the argument the contract put there, a hash is   *)
(* what it is a hash of.                                                   *)
(***************************************************************************)
EXTENDS OasisEvents, FiniteSetsExt, Functions

CONSTANTS
  Deployed,   \* contract -> number of the block it was deployed in
  MaxNumber,  \* bound on block numbers
  MaxLogs     \* bound on logs emitted

-----------------------------------------------------------------------------
(* The configuration: the contracts and their ABIs.                        *)

Indexed(name, type) == [name |-> name, type |-> type, indexed |-> TRUE]
InData(name, type)  == [name |-> name, type |-> type, indexed |-> FALSE]

\* LogMake, LogBump and LogKill have the same arguments.
OfferInputs ==
  <<Indexed("id", "bytes32"), Indexed("pair", "bytes32"), Indexed("maker", "address"),
    InData("pay_gem", "address"), InData("buy_gem", "address"),
    InData("pay_amt", "uint128"), InData("buy_amt", "uint128"),
    InData("timestamp", "uint64")>>

\* The events all three contracts have.
MarketEvents ==
  [LogBump |-> OfferInputs, LogKill |-> OfferInputs, LogMake |-> OfferInputs,
   LogTake |->
     <<InData("id", "bytes32"), Indexed("pair", "bytes32"), Indexed("maker", "address"),
       InData("pay_gem", "address"), InData("buy_gem", "address"),
       Indexed("taker", "address"), InData("take_amt", "uint128"),
       InData("give_amt", "uint128"), InData("timestamp", "uint64")>>,
   LogTrade |->
     <<InData("pay_amt", "uint256"), Indexed("pay_gem", "address"),
       InData("buy_amt", "uint256"), Indexed("buy_gem", "address")>>,
   LogMinSell       |-> <<InData("pay_gem", "address"), InData("min_amount", "uint256")>>,
   LogInsert        |-> <<InData("keeper", "address"), InData("id", "uint256")>>,
   LogDelete        |-> <<InData("keeper", "address"), InData("id", "uint256")>>,
   LogItemUpdate    |-> <<InData("id", "uint256")>>,
   LogSortedOffer   |-> <<InData("id", "uint256")>>,
   LogUnsortedOffer |-> <<InData("id", "uint256")>>]

\* The older generation has two switches, and methods that leave a LogNote:
\* setMinSell, and stop for any other.  LogSetOwner stands for what nobody asks for.
OldEvents ==
  [LogBuyEnabled      |-> <<InData("isEnabled", "bool")>>,
   LogMatchingEnabled |-> <<InData("isEnabled", "bool")>>,
   LogSetOwner        |-> <<Indexed("owner", "address")>>]

OldAbi == [events  |-> [e \in DOMAIN MarketEvents \cup DOMAIN OldEvents |->
                          IF e \in DOMAIN OldEvents THEN OldEvents[e] ELSE MarketEvents[e]],
           methods |-> [setMinSell |-> <<InData("pay_gem", "address"), InData("dust", "uint256")>>,
                        stop       |-> <<>>],
           notes   |-> {"setMinSell", "stop"}]

\* No LogNote, and a setMinSell of one argument.
Abi1_1 == [events  |-> MarketEvents,
           methods |-> [setMinSell |-> <<InData("pay_gem", "address")>>],
           notes   |-> {}]

OldMarkets == <<"MARKET_ONE", "MARKET_TWO">>
AllMarkets == <<"MARKET_ONE", "MARKET_TWO", "MARKET_1_1">>

Contracts == Range(AllMarkets)

ASSUME DeployedAssumption == Deployed \in [Contracts -> Nat]
ASSUME BoundsAssumption   == MaxNumber \in Nat /\ MaxLogs \in Nat

Abi == [MARKET_ONE |-> OldAbi, MARKET_TWO |-> OldAbi, MARKET_1_1 |-> Abi1_1]

\* Mutant: log_kill was not extended to the newest contract.
ConfiguredContracts_KillNot1_1 ==
  [t \in Transformers |->
     IF t \in {"log_buy_enabled", "log_matching_enabled", "set_min_sell", "log_kill"}
     THEN OldMarkets ELSE AllMarkets]

\* "contracts" of each [exporter.<transformer>] section.
ConfiguredContracts ==
  [t \in Transformers |->
     IF t \in {"log_buy_enabled", "log_matching_enabled", "set_min_sell"}
     THEN OldMarkets ELSE AllMarkets]

-----------------------------------------------------------------------------
(* Signatures.                                                             *)

Types(inputs) == [i \in DOMAIN inputs |-> inputs[i].type]

\* GetEventTopicZero(GetSolidityFunctionSignature(abi, name)): the hash of the
\* name and the types.
EventTopicZero(name, inputs) == [hash |-> name, of |-> Types(inputs), part |-> "whole"]

\* The first four bytes of the hash, padded with zeros.
GetLogNoteTopicZero(name, inputs) ==
  [EventTopicZero(name, inputs) EXCEPT !.part = "first four bytes"]

OasisABI    == Abi["MARKET_ONE"]
OasisABI1_1 == Abi["MARKET_1_1"]

EventOf(abi, name) == EventTopicZero(name, abi.events[name])

LogBumpSignature            == EventOf(OasisABI1_1, "LogBump")
LogBuyEnabledSignature      == EventOf(OasisABI, "LogBuyEnabled")
LogDeleteSignature          == EventOf(OasisABI1_1, "LogDelete")
LogInsertSignature          == EventOf(OasisABI1_1, "LogInsert")
LogItemUpdateSignature      == EventOf(OasisABI1_1, "LogItemUpdate")
LogKillSignature            == EventOf(OasisABI1_1, "LogKill")
LogMakeSignature            == EventOf(OasisABI1_1, "LogMake")
LogMatchingEnabledSignature == EventOf(OasisABI, "LogMatchingEnabled")
LogMinSellSignature         == EventOf(OasisABI1_1, "LogMinSell")
LogSortedOfferSignature     == EventOf(OasisABI1_1, "LogSortedOffer")
LogTakeSignature            == EventOf(OasisABI1_1, "LogTake")
LogTradeSignature           == EventOf(OasisABI1_1, "LogTrade")
LogUnsortedOfferSignature   == EventOf(OasisABI1_1, "LogUnsortedOffer")

\* Mutant: the method is looked up in the ABI all events are looked up in.
SetMinSellSignature_1_1 ==
  GetLogNoteTopicZero("setMinSell", OasisABI1_1.methods["setMinSell"])

SetMinSellSignature ==
  GetLogNoteTopicZero("setMinSell", OasisABI.methods["setMinSell"])

-----------------------------------------------------------------------------
(* The entities: the Go structs UnpackLog fills.                           *)

Field(name, type) == [name |-> name, type |-> type]
Address(name)     == Field(name, "common.Address")
BigInt(name)         == Field(name, "*big.Int")
Bytes32(name)     == Field(name, "[32]byte")
Hash(name)        == Field(name, "common.Hash")
Bool(name)        == Field(name, "bool")
Uint64(name)      == Field(name, "uint64")

\* Set by toEntities, not by UnpackLog.
Context == <<Field("HeaderID", "int64"), Field("LogID", "int64"),
             Address("ContractAddress")>>

LogBumpEntity ==
  <<Bytes32("Id"), Hash("Pair"), Address("Maker"), Address("PayGem"),
    Address("BuyGem"), BigInt("PayAmt"), BigInt("BuyAmt"), Uint64("Timestamp")>> \o Context

LogBuyEnabledEntity == <<Bool("IsEnabled")>> \o Context

LogDeleteEntity == <<Address("Keeper"), BigInt("Id")>> \o Context

LogInsertEntity == <<Address("Keeper"), BigInt("Id")>> \o Context

LogItemUpdateEntity == <<BigInt("Id")>> \o Context

LogKillEntity ==
  <<Bytes32("Id"), Hash("Pair"), Address("Maker"), Address("PayGem"),
    Address("BuyGem"), BigInt("PayAmt"), BigInt("BuyAmt"), Uint64("Timestamp")>> \o Context

LogMakeEntity ==
  <<Bytes32("Id"), Hash("Pair"), Address("Maker"), Address("PayGem"),
    Address("BuyGem"), BigInt("PayAmt"), BigInt("BuyAmt"), Uint64("Timestamp")>> \o Context

LogMatchingEnabledEntity == <<Bool("IsEnabled")>> \o Context

LogMinSellEntity == <<Address("PayGem"), BigInt("MinAmount")>> \o Context

\* Mutant: the fields of the row first, as in the INSERT.
LogSortedOfferEntity_ContextFirst == Context \o <<BigInt("Id")>>

LogSortedOfferEntity == <<BigInt("Id")>> \o Context

LogTakeEntity ==
  <<Hash("Id"), Hash("Pair"), Address("Maker"), Address("PayGem"), Address("BuyGem"),
    Address("Taker"), BigInt("TakeAmt"), BigInt("GiveAmt"), Uint64("Timestamp")>> \o Context

LogTradeEntity ==
  <<Address("PayGem"), Address("BuyGem"), BigInt("PayAmt"), BigInt("BuyAmt")>> \o Context

LogUnsortedOfferEntity == <<BigInt("Id")>> \o Context

-----------------------------------------------------------------------------
(* The initializers, and what the plugin exports.                          *)

\* GetEventTransformerConfig(label, topic) with the Transformer of the package:
\* the contracts of its section, the ABI of the first of them, the earliest of
\* their deployments.  event and entity are those toEntities unpacks.
Configured(label, topic, event, entity) ==
  [label |-> label, topic |-> topic, event |-> event, entity |-> entity,
   contracts |-> Range(ConfiguredContracts[label]),
   abi |-> Abi[ConfiguredContracts[label][1]],
   start |-> Min({Deployed[c] : c \in Range(ConfiguredContracts[label])})]

LogBumpInitializer    == Configured("log_bump", LogBumpSignature, "LogBump", LogBumpEntity)
LogBuyEnabledInitializer ==
  Configured("log_buy_enabled", LogBuyEnabledSignature, "LogBuyEnabled", LogBuyEnabledEntity)
LogDeleteInitializer  == Configured("log_delete", LogDeleteSignature, "LogDelete", LogDeleteEntity)
LogInsertInitializer  == Configured("log_insert", LogInsertSignature, "LogInsert", LogInsertEntity)
LogItemUpdateInitializer ==
  Configured("log_item_update", LogItemUpdateSignature, "LogItemUpdate", LogItemUpdateEntity)
LogKillInitializer    == Configured("log_kill", LogKillSignature, "LogKill", LogKillEntity)
LogMakeInitializer    == Configured("log_make", LogMakeSignature, "LogMake", LogMakeEntity)
LogMatchingEnabledInitializer ==
  Configured("log_matching_enabled", LogMatchingEnabledSignature,
             "LogMatchingEnabled", LogMatchingEnabledEntity)
LogMinSellInitializer == Configured("log_min_sell", LogMinSellSignature, "LogMinSell", LogMinSellEntity)
LogSortedOfferInitializer ==
  Configured("log_sorted_offer", LogSortedOfferSignature, "LogSortedOffer", LogSortedOfferEntity)
LogTakeInitializer    == Configured("log_take", LogTakeSignature, "LogTake", LogTakeEntity)
LogTradeInitializer   == Configured("log_trade", LogTradeSignature, "LogTrade", LogTradeEntity)
LogUnsortedOfferInitializer ==
  Configured("log_unsorted_offer", LogUnsortedOfferSignature,
             "LogUnsortedOffer", LogUnsortedOfferEntity)

\* No event is unpacked: the arguments are read off the topics.
SetMinSellInitializer == Configured("set_min_sell", SetMinSellSignature, "LogNote", <<>>)

\* The exported initializers, by the name of their table.
Export ==
  [log_bump           |-> LogBumpInitializer,
   log_buy_enabled    |-> LogBuyEnabledInitializer,
   log_delete         |-> LogDeleteInitializer,
   log_insert         |-> LogInsertInitializer,
   log_item_update    |-> LogItemUpdateInitializer,
   log_kill           |-> LogKillInitializer,
   log_make           |-> LogMakeInitializer,
   log_matching_enabled |-> LogMatchingEnabledInitializer,
   log_min_sell       |-> LogMinSellInitializer,
   log_sorted_offer   |-> LogSortedOfferInitializer,
   log_take           |-> LogTakeInitializer,
   log_trade          |-> LogTradeInitializer,
   log_unsorted_offer |-> LogUnsortedOfferInitializer,
   set_min_sell       |-> SetMinSellInitializer]

-----------------------------------------------------------------------------
(* Logs, and what a transformer makes of one.                              *)

\* The names of the arguments that are indexed, or of those that are not, in order.
NamesOf(inputs, indexed) ==
  LET names[n \in 0 .. Len(inputs)] ==
        IF n = 0 THEN <<>>
        ELSE IF inputs[n].indexed = indexed THEN Append(names[n - 1], inputs[n].name)
        ELSE names[n - 1]
  IN  names[Len(inputs)]

TopicsOf(inputs) == NamesOf(inputs, TRUE)
DataOf(inputs)   == NamesOf(inputs, FALSE)

\* What a contract leaves for an event it emits, by its own ABI ...
EmittedEvent(c, name) ==
  LET inputs == Abi[c].events[name] IN
  [contract |-> c, topics |-> <<EventTopicZero(name, inputs)>> \o TopicsOf(inputs),
   data |-> DataOf(inputs)]

\* ... and for a call of a noted method: selector, caller, the first two words
\* of the arguments; the data is never empty.
EmittedNote(c, name) ==
  LET inputs == Abi[c].methods[name]
      word(i) == IF i \in DOMAIN inputs THEN inputs[i].name ELSE "zero"
  IN  [contract |-> c,
       topics |-> <<GetLogNoteTopicZero(name, inputs), "msg_sender", word(1), word(2)>>,
       data   |-> <<"wad", "fax">>]

\* go-ethereum's ToCamelCase.
CamelCase ==
  [id |-> "Id", pair |-> "Pair", maker |-> "Maker", taker |-> "Taker",
   keeper |-> "Keeper", pay_gem |-> "PayGem", buy_gem |-> "BuyGem",
   pay_amt |-> "PayAmt", buy_amt |-> "BuyAmt", take_amt |-> "TakeAmt",
   give_amt |-> "GiveAmt", min_amount |-> "MinAmount", timestamp |-> "Timestamp",
   isEnabled |-> "IsEnabled", address_id |-> "ContractAddress"]

\* The Go types a value of an ABI type can be assigned to.
GoTypes ==
  [bytes32 |-> {"[32]byte", "common.Hash"}, address |-> {"common.Address"},
   uint64 |-> {"uint64"}, uint128 |-> {"*big.Int"}, uint256 |-> {"*big.Int"},
   bool |-> {"bool"}]

\* UnpackLog sets the field that has an argument's name in camel case; the only
\* argument of an event goes to the first field, whatever that is called.
Target(entity, inputs, i) ==
  IF Len(inputs) = 1 THEN {entity[1]}
  ELSE {f \in Range(entity) : f.name = CamelCase[inputs[i].name]}

\* The position of an argument among the indexed ones, or among the others.
Place(inputs, i) == Cardinality({j \in 1 .. i : inputs[j].indexed = inputs[i].indexed})

Argument(log, inputs, i) ==
  IF inputs[i].indexed THEN log.topics[1 + Place(inputs, i)]
                       ELSE log.data[Place(inputs, i)]

\* The topic must be the hash of the event, and every argument have a field of
\* a type that can hold it.
Unpacks(t, log) ==
  /\ log.topics[1] = EventOf(t.abi, t.event)
  /\ LET inputs == t.abi.events[t.event] IN
     \A i \in DOMAIN inputs :
       \E f \in Target(t.entity, inputs, i) : f.type \in GoTypes[inputs[i].type]

\* The entity: field -> value.
ToEntity(t, log) ==
  LET inputs  == t.abi.events[t.event]
      set(f)  == {i \in DOMAIN inputs : f \in Target(t.entity, inputs, i)}
  IN  [name \in {f.name : f \in {g \in Range(t.entity) : set(g) # {}}}
                 \cup {"ContractAddress"} |->
         IF name = "ContractAddress" THEN log.contract
         ELSE Argument(log, inputs,
                       CHOOSE i \in DOMAIN inputs :
                         \E f \in Target(t.entity, inputs, i) : f.name = name)]

\* Mutant: the two amounts of LogTake are exchanged.
FieldOf_AmountsSwapped ==
  [offer_id |-> "Id", pair |-> "Pair", pay_amt |-> "PayAmt", buy_amt |-> "BuyAmt",
   take_amt |-> "GiveAmt", give_amt |-> "TakeAmt", min_amount |-> "MinAmount",
   timestamp |-> "Timestamp", is_enabled |-> "IsEnabled"]

\* The field of the entity that goes to a value column.
FieldOf ==
  [offer_id |-> "Id", pair |-> "Pair", pay_amt |-> "PayAmt", buy_amt |-> "BuyAmt",
   take_amt |-> "TakeAmt", give_amt |-> "GiveAmt", min_amount |-> "MinAmount",
   timestamp |-> "Timestamp", is_enabled |-> "IsEnabled"]

ColumnsOf(label) ==
  {call.column : call \in Range(Calls(label))} \cup Transformer[label].values

ModelOfEntity(label, entity) ==
  [column \in ColumnsOf(label) |->
     IF column \in Transformer[label].values THEN entity[FieldOf[column]]
     ELSE entity[CamelCase[(CHOOSE call \in Range(Calls(label)) :
                              call.column = column).arg]]]

\* SetMinSell reads the topics themselves.
ModelOfTopics(log) ==
  [address_id |-> log.contract, msg_sender |-> log.topics[2],
   pay_gem |-> log.topics[3], dust |-> log.topics[4]]

\* VerifyLog(log, FourTopicsRequired, true).
Verifies(log) == Len(log.topics) >= 4 /\ log.data # <<>>

Storable(t, log) ==
  IF t.label = "set_min_sell" THEN Verifies(log) ELSE Unpacks(t, log)

ToModel(t, log) ==
  IF t.label = "set_min_sell" THEN ModelOfTopics(log)
  ELSE ModelOfEntity(t.label, ToEntity(t, log))

-----------------------------------------------------------------------------
(* One block after the other.                                              *)

VARIABLES
  emitted,    \* what the contracts did and left a log of
  extracted,  \* what of it is in public.event_logs
  stored      \* rows of the oasis tables: [table, source, columns]

vars == <<emitted, extracted, stored>>

\* What a contract does that leaves a log, and when.
Doings(c) == DOMAIN Abi[c].events \cup Abi[c].notes

Happenings ==
  UNION {[contract : {c}, what : Doings(c), number : Deployed[c] .. MaxNumber] :
           c \in Contracts}

LogOf ==
  [h \in Happenings |->
     IF h.what \in Abi[h.contract].notes THEN EmittedNote(h.contract, h.what)
                                         ELSE EmittedEvent(h.contract, h.what)]

Handles(t, h) ==
  /\ h.contract \in Export[t].contracts
  /\ LogOf[h].topics[1] = Export[t].topic

StartingBlock == Min({Export[t].start : t \in DOMAIN Export})

Emit(h) ==
  /\ h \notin emitted
  /\ Cardinality(emitted) < MaxLogs
  /\ emitted' = emitted \cup {h}
  /\ UNCHANGED <<extracted, stored>>

\* Logs are fetched by all addresses and all topics of the plugin at once.
Extract(h) ==
  /\ h \notin extracted
  /\ h.number >= StartingBlock
  /\ \E t \in DOMAIN Export : h.contract \in Export[t].contracts
  /\ \E t \in DOMAIN Export : LogOf[h].topics[1] = Export[t].topic
  /\ extracted' = extracted \cup {h}
  /\ UNCHANGED <<emitted, stored>>

\* The rows made of a log by the transformers the delegator gives it to.
RowsOf ==
  [h \in Happenings |->
     {[table |-> t, source |-> h, columns |-> ToModel(Export[t], LogOf[h])] :
        t \in {u \in DOMAIN Export : Handles(u, h) /\ Storable(Export[u], LogOf[h])}}]

Store(row) ==
  /\ row \notin stored
  /\ stored' = stored \cup {row}
  /\ UNCHANGED <<emitted, extracted>>

Init == emitted = {} /\ extracted = {} /\ stored = {}

Chain     == \E h \in Happenings : Emit(h)
Extractor == \E h \in emitted : Extract(h)
Delegator == \E h \in extracted : \E row \in RowsOf[h] : Store(row)

Next == Chain \/ Extractor \/ Delegator

Spec == Init /\ [][Next]_vars

FairSpec == Spec /\ WF_vars(Extractor) /\ WF_vars(Delegator)

-----------------------------------------------------------------------------
(* Properties.                                                             *)

\* The table for what a contract did.
TableFor ==
  [LogBump |-> "log_bump", LogBuyEnabled |-> "log_buy_enabled",
   LogDelete |-> "log_delete", LogInsert |-> "log_insert",
   LogItemUpdate |-> "log_item_update", LogKill |-> "log_kill",
   LogMake |-> "log_make", LogMatchingEnabled |-> "log_matching_enabled",
   LogMinSell |-> "log_min_sell", LogSortedOffer |-> "log_sorted_offer",
   LogTake |-> "log_take", LogTrade |-> "log_trade",
   LogUnsortedOffer |-> "log_unsorted_offer", setMinSell |-> "set_min_sell"]

\* The argument a column is named for.
ArgumentFor(column) ==
  CASE column = "offer_id"   -> "id"
    [] column = "is_enabled" -> "isEnabled"
    [] OTHER                 -> column

\* What is extracted has one transformer and no more: extraction asks for any
\* watched topic at any watched address, delegation for both at once
\* (plugins/execute/transformerExporter.go, environments/oasisTransformers.toml);
\* a log that fell between the two would stay untransformed for good.
OneTransformerEach ==
  \A h \in extracted : Cardinality({t \in DOMAIN Export : Handles(t, h)}) = 1

\* Every row is in the table of what happened, has all its columns, and each of
\* them the argument it is named for, through ABI, topic order, camel case and
\* entity (transformers/events/*/entity.go, transformer.go).
RowsSayWhatHappened ==
  \A r \in stored :
    /\ r.source.what \in DOMAIN TableFor
    /\ r.table = TableFor[r.source.what]
    /\ DOMAIN r.columns = TableColumns(r.table)
    /\ \A column \in DOMAIN r.columns :
         r.columns[column] = IF column = "address_id" THEN r.source.contract
                             ELSE ArgumentFor(column)

\* Once the chain pauses, whatever any of the contracts did that has a table gets
\* to it (transformers/shared/constants/signature.go; README.md, "Background").
EverythingStored ==
  <>[](\A h \in emitted :
         h.what \in DOMAIN TableFor => \E r \in stored : r.source = h)
=============================================================================

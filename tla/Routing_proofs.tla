---------------------------- MODULE Routing_proofs ----------------------------
(* That a log finds its transformer and its arguments their columns, whenever *)
(* the contracts were deployed and however many logs they leave.              *)
EXTENDS Routing, BasicTheorems, TLAPS

-----------------------------------------------------------------------------
(* What is exported.                                                        *)

\* What a contract does that a table is for.
DoneFor ==
  [log_bump |-> "LogBump", log_buy_enabled |-> "LogBuyEnabled",
   log_delete |-> "LogDelete", log_insert |-> "LogInsert",
   log_item_update |-> "LogItemUpdate", log_kill |-> "LogKill",
   log_make |-> "LogMake", log_matching_enabled |-> "LogMatchingEnabled",
   log_min_sell |-> "LogMinSell", log_sorted_offer |-> "LogSortedOffer",
   log_take |-> "LogTake", log_trade |-> "LogTrade",
   log_unsorted_offer |-> "LogUnsortedOffer", set_min_sell |-> "setMinSell"]

LEMMA TablesAreTold ==
  /\ DOMAIN DoneFor = Transformers
  /\ \A t \in Transformers : DoneFor[t] \in DOMAIN TableFor /\ TableFor[DoneFor[t]] = t
  BY DEF DoneFor, TableFor, Transformers

\* The transformer of a table asks for the one thing the table is for, and
\* unpacks it; setMinSell is a method, the others are events.
IsExportedFor(t) ==
  /\ Export[t].label = t
  /\ Export[t].topic.hash = DoneFor[t]
  /\ t # "set_min_sell" => Export[t].event = DoneFor[t]
  /\ Export[t].contracts = Range(ConfiguredContracts[t])
  /\ Export[t].abi = Abi[ConfiguredContracts[t][1]]

LEMMA ExportedFor ==
  /\ DOMAIN Export = Transformers
  /\ \A t \in Transformers : IsExportedFor(t)
<1> USE DEF Export, DoneFor, IsExportedFor, Configured, EventOf, EventTopicZero
<1>1. IsExportedFor("log_bump")
  BY DEF LogBumpInitializer, LogBumpSignature
<1>2. IsExportedFor("log_buy_enabled")
  BY DEF LogBuyEnabledInitializer, LogBuyEnabledSignature
<1>3. IsExportedFor("log_delete")
  BY DEF LogDeleteInitializer, LogDeleteSignature
<1>4. IsExportedFor("log_insert")
  BY DEF LogInsertInitializer, LogInsertSignature
<1>5. IsExportedFor("log_item_update")
  BY DEF LogItemUpdateInitializer, LogItemUpdateSignature
<1>6. IsExportedFor("log_kill")
  BY DEF LogKillInitializer, LogKillSignature
<1>7. IsExportedFor("log_make")
  BY DEF LogMakeInitializer, LogMakeSignature
<1>8. IsExportedFor("log_matching_enabled")
  BY DEF LogMatchingEnabledInitializer, LogMatchingEnabledSignature
<1>9. IsExportedFor("log_min_sell")
  BY DEF LogMinSellInitializer, LogMinSellSignature
<1>10. IsExportedFor("log_sorted_offer")
  BY DEF LogSortedOfferInitializer, LogSortedOfferSignature
<1>11. IsExportedFor("log_take")
  BY DEF LogTakeInitializer, LogTakeSignature
<1>12. IsExportedFor("log_trade")
  BY DEF LogTradeInitializer, LogTradeSignature
<1>13. IsExportedFor("log_unsorted_offer")
  BY DEF LogUnsortedOfferInitializer, LogUnsortedOfferSignature
<1>14. IsExportedFor("set_min_sell")
  BY DEF SetMinSellInitializer, SetMinSellSignature, GetLogNoteTopicZero
<1>15. DOMAIN Export = Transformers
  BY DEF Transformers
<1> HIDE DEF Export, DoneFor, IsExportedFor, Configured, EventOf, EventTopicZero
<1> QED
  BY <1>1, <1>2, <1>3, <1>4, <1>5, <1>6, <1>7, <1>8, <1>9, <1>10, <1>11, <1>12, <1>13, <1>14, <1>15
  DEF Transformers

\* The contracts, and who watches which.
LEMMA Watched ==
  /\ Contracts = {"MARKET_ONE", "MARKET_TWO", "MARKET_1_1"}
  /\ \A t \in Transformers :
       /\ ConfiguredContracts[t][1] = "MARKET_ONE"
       /\ Range(ConfiguredContracts[t])
            = IF t \in {"log_buy_enabled", "log_matching_enabled", "set_min_sell"}
              THEN {"MARKET_ONE", "MARKET_TWO"} ELSE Contracts
<1>1. Range(AllMarkets) = {"MARKET_ONE", "MARKET_TWO", "MARKET_1_1"}
  BY DEF Range, AllMarkets
<1>2. Range(OldMarkets) = {"MARKET_ONE", "MARKET_TWO"}
  BY DEF Range, OldMarkets
<1>3. OldMarkets[1] = "MARKET_ONE" /\ AllMarkets[1] = "MARKET_ONE"
  BY DEF OldMarkets, AllMarkets
<1> QED
  BY <1>1, <1>2, <1>3 DEF Contracts, ConfiguredContracts

\* What both generations have they have with the same arguments.
LEMMA Generations ==
  /\ Abi["MARKET_ONE"] = OldAbi /\ Abi["MARKET_TWO"] = OldAbi /\ Abi["MARKET_1_1"] = Abi1_1
  /\ Abi1_1.notes = {} /\ OldAbi.notes = {"setMinSell", "stop"}
  /\ DOMAIN Abi1_1.events = DOMAIN MarketEvents
  /\ DOMAIN OldAbi.events = DOMAIN MarketEvents \cup DOMAIN OldEvents
  /\ DOMAIN MarketEvents = {"LogBump", "LogKill", "LogMake", "LogTake", "LogTrade",
                            "LogMinSell", "LogInsert", "LogDelete", "LogItemUpdate",
                            "LogSortedOffer", "LogUnsortedOffer"}
  /\ DOMAIN OldEvents = {"LogBuyEnabled", "LogMatchingEnabled", "LogSetOwner"}
  /\ \A c \in Contracts : \A e \in DOMAIN Abi[c].events :
       e \in DOMAIN OldAbi.events /\ Abi[c].events[e] = OldAbi.events[e]
<1>1. Abi["MARKET_ONE"] = OldAbi /\ Abi["MARKET_TWO"] = OldAbi /\ Abi["MARKET_1_1"] = Abi1_1
  BY DEF Abi
<1>2. Abi1_1.notes = {} /\ OldAbi.notes = {"setMinSell", "stop"}
  BY DEF Abi1_1, OldAbi
<1>3. /\ Abi1_1.events = MarketEvents
      /\ OldAbi.events = [e \in DOMAIN MarketEvents \cup DOMAIN OldEvents |->
                            IF e \in DOMAIN OldEvents THEN OldEvents[e] ELSE MarketEvents[e]]
  BY DEF Abi1_1, OldAbi
<1>4. DOMAIN MarketEvents = {"LogBump", "LogKill", "LogMake", "LogTake", "LogTrade",
                             "LogMinSell", "LogInsert", "LogDelete", "LogItemUpdate",
                             "LogSortedOffer", "LogUnsortedOffer"}
  BY DEF MarketEvents
<1>5. DOMAIN OldEvents = {"LogBuyEnabled", "LogMatchingEnabled", "LogSetOwner"}
  BY DEF OldEvents
<1>6. \A e \in DOMAIN MarketEvents : OldAbi.events[e] = MarketEvents[e]
  BY <1>3, <1>4, <1>5
<1>7. ASSUME NEW c \in Contracts, NEW e \in DOMAIN Abi[c].events
      PROVE  e \in DOMAIN OldAbi.events /\ Abi[c].events[e] = OldAbi.events[e]
  <2>1. Abi[c] = OldAbi \/ Abi[c] = Abi1_1
    BY <1>1, Watched
  <2> QED
    BY <1>3, <1>6, <2>1
<1> QED
  BY <1>1, <1>2, <1>3, <1>4, <1>5, <1>7

-----------------------------------------------------------------------------
(* The arguments of a log.  Topics and data are filled in order, so an      *)
(* argument is found where the number of those before it says.              *)

IsArguments(inputs) ==
  /\ Len(inputs) \in Nat /\ DOMAIN inputs = 1 .. Len(inputs)
  /\ \A i \in DOMAIN inputs : inputs[i].indexed \in BOOLEAN

\* The names found among the first arguments, up to each of n.
AreNames(names, inputs, indexed, n) ==
  names = [m \in 0 .. n |->
             IF m = 0 THEN <<>>
             ELSE IF inputs[m].indexed = indexed THEN Append(names[m - 1], inputs[m].name)
             ELSE names[m - 1]]

LEMMA NamesExist ==
  ASSUME NEW inputs, NEW indexed
  PROVE  \A n \in Nat : \E names : AreNames(names, inputs, indexed, n)
<1> DEFINE T == {n \in Nat : \E names : AreNames(names, inputs, indexed, n)}
<1>1. 0 \in T
  <2> DEFINE names == [m \in 0 .. 0 |-> <<>>]
  <2>1. AreNames(names, inputs, indexed, 0)
    BY DEF AreNames
  <2> QED
    BY <2>1
<1>2. ASSUME NEW n \in Nat, n \in T PROVE n + 1 \in T
  <2>1. PICK f : AreNames(f, inputs, indexed, n)
    BY <1>2
  <2> DEFINE next == IF inputs[n + 1].indexed = indexed
                     THEN Append(f[n], inputs[n + 1].name) ELSE f[n]
             g == [m \in 0 .. n + 1 |-> IF m = n + 1 THEN next ELSE f[m]]
  <2>2. ASSUME NEW m \in 0 .. n + 1
        PROVE  g[m] = IF m = 0 THEN <<>>
                      ELSE IF inputs[m].indexed = indexed THEN Append(g[m - 1], inputs[m].name)
                      ELSE g[m - 1]
    <3>1. CASE m = 0
      BY <2>1, <3>1 DEF AreNames
    <3>2. CASE m = n + 1
      <4>1. g[m] = next /\ g[m - 1] = f[n] /\ m # 0
        BY <3>2
      <4> QED
        BY <3>2, <4>1
    <3>3. CASE m \in 1 .. n
      <4>1. g[m] = f[m] /\ g[m - 1] = f[m - 1] /\ m # 0 /\ m \in 0 .. n
        BY <3>3
      <4> QED
        BY <2>1, <4>1 DEF AreNames
    <3> QED
      BY <3>1, <3>2, <3>3
  <2>3. g = [m \in 0 .. n + 1 |-> g[m]]
    OBVIOUS
  <2> HIDE DEF g
  <2>4. AreNames(g, inputs, indexed, n + 1)
    BY <2>2, <2>3 DEF AreNames
  <2> QED
    BY <2>4
<1>3. Nat \subseteq T
  <2> HIDE DEF T
  <2> QED
    BY <1>1, <1>2, Induction
<1> QED
  BY <1>3

\* How many of the first m arguments are of the kind.
Count(inputs, indexed, m) == Cardinality({j \in 1 .. m : inputs[j].indexed = indexed})

LEMMA Counting ==
  ASSUME NEW inputs, NEW indexed
  PROVE  /\ Count(inputs, indexed, 0) = 0
         /\ \A m \in Nat :
              /\ Count(inputs, indexed, m) \in Nat
              /\ Count(inputs, indexed, m + 1)
                   = IF inputs[m + 1].indexed = indexed
                     THEN Count(inputs, indexed, m) + 1 ELSE Count(inputs, indexed, m)
<1> DEFINE kind(m) == {j \in 1 .. m : inputs[j].indexed = indexed}
<1>1. Count(inputs, indexed, 0) = 0
  <2>1. kind(0) = {}
    OBVIOUS
  <2> QED
    BY <2>1, FS_EmptySet DEF Count
<1>2. ASSUME NEW m \in Nat
      PROVE  /\ Count(inputs, indexed, m) \in Nat
             /\ Count(inputs, indexed, m + 1)
                  = IF inputs[m + 1].indexed = indexed
                    THEN Count(inputs, indexed, m) + 1 ELSE Count(inputs, indexed, m)
  <2>1. IsFiniteSet(kind(m))
    <3>1. IsFiniteSet(1 .. m)
      BY FS_Interval
    <3>2. kind(m) \in SUBSET (1 .. m)
      OBVIOUS
    <3> QED
      BY <3>1, <3>2, FS_Subset
  <2>2. kind(m + 1) = IF inputs[m + 1].indexed = indexed THEN kind(m) \cup {m + 1} ELSE kind(m)
    <3>1. 1 .. m + 1 = (1 .. m) \cup {m + 1}
      OBVIOUS
    <3> QED
      BY <3>1
  <2>3. m + 1 \notin kind(m)
    OBVIOUS
  <2>4. /\ Count(inputs, indexed, m) = Cardinality(kind(m))
        /\ Count(inputs, indexed, m + 1) = Cardinality(kind(m + 1))
    BY DEF Count
  <2> HIDE DEF kind
  <2>5. Cardinality(kind(m)) \in Nat
    BY <2>1, FS_CardinalityType
  <2>6. Cardinality(kind(m) \cup {m + 1}) = Cardinality(kind(m)) + 1
    BY <2>1, <2>3, FS_AddElement
  <2> QED
    BY <2>2, <2>4, <2>5, <2>6
<1> QED
  BY <1>1, <1>2

LEMMA NamesInOrder ==
  ASSUME NEW inputs, IsArguments(inputs), NEW indexed \in BOOLEAN
  PROVE  /\ NamesOf(inputs, indexed) \in Seq({inputs[i].name : i \in DOMAIN inputs})
         /\ \A i \in DOMAIN inputs : inputs[i].indexed = indexed =>
              /\ Place(inputs, i) \in 1 .. Len(NamesOf(inputs, indexed))
              /\ NamesOf(inputs, indexed)[Place(inputs, i)] = inputs[i].name
<1> DEFINE S == {inputs[i].name : i \in DOMAIN inputs}
           names == CHOOSE names : AreNames(names, inputs, indexed, Len(inputs))
           InOrder(m) ==
             /\ names[m] \in Seq(S) /\ Len(names[m]) = Count(inputs, indexed, m)
             /\ \A i \in 1 .. m : inputs[i].indexed = indexed =>
                  /\ Place(inputs, i) \in 1 .. Len(names[m])
                  /\ names[m][Place(inputs, i)] = inputs[i].name
           T == {m \in Nat : m <= Len(inputs) => InOrder(m)}
<1>1. Len(inputs) \in Nat /\ DOMAIN inputs = 1 .. Len(inputs)
  BY DEF IsArguments
<1>2. AreNames(names, inputs, indexed, Len(inputs))
  BY <1>1, NamesExist
<1>3. NamesOf(inputs, indexed) = names[Len(inputs)]
  BY DEF NamesOf, AreNames
<1> HIDE DEF names
<1>4. 0 \in T
  <2>1. names[0] = <<>>
    BY <1>1, <1>2 DEF AreNames
  <2>2. Count(inputs, indexed, 0) = 0
    BY Counting
  <2> HIDE DEF S
  <2>3. InOrder(0)
    BY <2>1, <2>2
  <2> QED
    BY <2>3
<1>5. ASSUME NEW m \in Nat, m \in T PROVE m + 1 \in T
  <2> SUFFICES ASSUME m + 1 <= Len(inputs) PROVE InOrder(m + 1)
    OBVIOUS
  <2>1. /\ names[m] \in Seq(S) /\ Len(names[m]) = Count(inputs, indexed, m)
        /\ \A i \in 1 .. m : inputs[i].indexed = indexed =>
             /\ Place(inputs, i) \in 1 .. Len(names[m])
             /\ names[m][Place(inputs, i)] = inputs[i].name
    BY <1>1, <1>5
  <2>2. names[m + 1] = IF inputs[m + 1].indexed = indexed
                       THEN Append(names[m], inputs[m + 1].name) ELSE names[m]
    <3>1. m + 1 \in 0 .. Len(inputs) /\ m + 1 # 0 /\ (m + 1) - 1 = m
      BY <1>1
    <3> QED
      BY <1>2, <3>1 DEF AreNames
  <2>3. inputs[m + 1].name \in S
    BY <1>1
  <2> HIDE DEF S
  <2>4. CASE inputs[m + 1].indexed # indexed
    <3>1. names[m + 1] = names[m] /\ Count(inputs, indexed, m + 1) = Count(inputs, indexed, m)
      BY <2>2, <2>4, Counting
    <3>2. \A i \in 1 .. m + 1 : inputs[i].indexed = indexed => i \in 1 .. m
      BY <2>4
    <3> QED
      BY <2>1, <3>1, <3>2
  <2>5. CASE inputs[m + 1].indexed = indexed
    <3>1. /\ names[m + 1] = Append(names[m], inputs[m + 1].name)
          /\ Count(inputs, indexed, m + 1) = Count(inputs, indexed, m) + 1
      BY <2>2, <2>5, Counting
    <3>2. /\ names[m + 1] \in Seq(S) /\ Len(names[m + 1]) = Len(names[m]) + 1
          /\ Len(names[m]) \in Nat
          /\ names[m + 1][Len(names[m]) + 1] = inputs[m + 1].name
          /\ \A k \in 1 .. Len(names[m]) : names[m + 1][k] = names[m][k]
      BY <2>1, <2>3, <3>1
    <3>3. Place(inputs, m + 1) = Count(inputs, indexed, m + 1)
      BY <2>5 DEF Place, Count
    <3>4. ASSUME NEW i \in 1 .. m + 1, inputs[i].indexed = indexed
          PROVE  /\ Place(inputs, i) \in 1 .. Len(names[m + 1])
                 /\ names[m + 1][Place(inputs, i)] = inputs[i].name
      <4>1. CASE i = m + 1
        BY <2>1, <3>1, <3>2, <3>3, <4>1
      <4>2. CASE i \in 1 .. m
        <5>1. /\ Place(inputs, i) \in 1 .. Len(names[m])
              /\ names[m][Place(inputs, i)] = inputs[i].name
          BY <2>1, <3>4, <4>2
        <5> QED
          BY <3>2, <5>1
      <4> QED
        BY <4>1, <4>2
    <3> QED
      BY <2>1, <3>1, <3>2, <3>4
  <2> QED
    BY <2>4, <2>5
<1>6. Nat \subseteq T
  <2> HIDE DEF T
  <2> QED
    BY <1>4, <1>5, Induction
<1>7. InOrder(Len(inputs))
  <2> HIDE DEF InOrder
  <2> QED
    BY <1>1, <1>6
<1> QED
  BY <1>1, <1>3, <1>7

\* Lists of arguments with names of their own for the columns, whatever the types.
Arguments(names) ==
  [name : names, type : {"bytes32", "address", "uint64", "uint128", "uint256", "bool"},
   indexed : BOOLEAN]

ArgumentNames ==
  {"id", "pair", "maker", "taker", "keeper", "pay_gem", "buy_gem", "pay_amt", "buy_amt",
   "take_amt", "give_amt", "min_amount", "timestamp", "isEnabled"}

LEMMA ListsOfArguments ==
  ASSUME NEW names, NEW inputs \in Seq(Arguments(names))
  PROVE  IsArguments(inputs) /\ \A i \in DOMAIN inputs : inputs[i].name \in names
<1>1. Len(inputs) \in Nat /\ DOMAIN inputs = 1 .. Len(inputs)
  OBVIOUS
<1>2. \A i \in DOMAIN inputs : inputs[i] \in Arguments(names)
  OBVIOUS
<1>3. \A a \in Arguments(names) : a.indexed \in BOOLEAN /\ a.name \in names
  BY DEF Arguments
<1> QED
  BY <1>1, <1>2, <1>3 DEF IsArguments

\* Every event has a list of arguments, and every event but the one nobody asks for
\* such that the entities have names for them.
LEMMA EventsHaveArguments ==
  /\ \A e \in DOMAIN OldAbi.events : IsArguments(OldAbi.events[e])
  /\ \A e \in DOMAIN OldAbi.events : e # "LogSetOwner" =>
       \A i \in DOMAIN OldAbi.events[e] : OldAbi.events[e][i].name \in ArgumentNames
<1> DEFINE Named == Seq(Arguments(ArgumentNames))
<1> USE DEF Arguments, ArgumentNames, Indexed, InData
<1>1. OfferInputs \in Named
  BY DEF OfferInputs
<1>2. MarketEvents["LogTake"] \in Named
  BY DEF MarketEvents
<1>3. MarketEvents["LogTrade"] \in Named
  BY DEF MarketEvents
<1>4. MarketEvents["LogMinSell"] \in Named
  BY DEF MarketEvents
<1>5. MarketEvents["LogInsert"] \in Named /\ MarketEvents["LogDelete"] \in Named
  BY DEF MarketEvents
<1>6. /\ MarketEvents["LogItemUpdate"] \in Named /\ MarketEvents["LogSortedOffer"] \in Named
      /\ MarketEvents["LogUnsortedOffer"] \in Named
  BY DEF MarketEvents
<1>7. OldEvents["LogBuyEnabled"] \in Named /\ OldEvents["LogMatchingEnabled"] \in Named
  BY DEF OldEvents
<1>8. OldEvents["LogSetOwner"] \in Seq(Arguments({"owner"}))
  BY DEF OldEvents
<1> HIDE DEF Arguments, ArgumentNames, Indexed, InData
<1>9. /\ MarketEvents["LogBump"] = OfferInputs /\ MarketEvents["LogKill"] = OfferInputs
      /\ MarketEvents["LogMake"] = OfferInputs
  BY DEF MarketEvents
<1> HIDE DEF Named
<1>10. \A e \in DOMAIN MarketEvents : MarketEvents[e] \in Named
  BY <1>1, <1>2, <1>3, <1>4, <1>5, <1>6, <1>9, Generations
<1>11. \A e \in DOMAIN OldEvents : e # "LogSetOwner" => OldEvents[e] \in Named
  BY <1>7, Generations
<1>12. \A e \in DOMAIN OldAbi.events :
         OldAbi.events[e] = IF e \in DOMAIN OldEvents THEN OldEvents[e] ELSE MarketEvents[e]
  BY DEF OldAbi
<1>13. \A e \in DOMAIN OldAbi.events : e # "LogSetOwner" => OldAbi.events[e] \in Named
  BY <1>10, <1>11, <1>12, Generations
<1>14. OldAbi.events["LogSetOwner"] \in Seq(Arguments({"owner"}))
  BY <1>8, <1>12, Generations
<1> QED
  BY <1>13, <1>14, ListsOfArguments DEF Named

\* The log of an event is what its ABI says ...
LEMMA EventLog ==
  ASSUME NEW c \in Contracts, NEW e \in DOMAIN Abi[c].events
  PROVE  LET inputs == OldAbi.events[e]
             log    == EmittedEvent(c, e)
         IN  /\ log.contract = c /\ log.data = DataOf(inputs)
             /\ log.topics[1] = EventTopicZero(e, inputs)
             /\ \A k \in 1 .. Len(TopicsOf(inputs)) : log.topics[1 + k] = TopicsOf(inputs)[k]
<1> DEFINE inputs == OldAbi.events[e]
           topics == TopicsOf(inputs)
<1>1. Abi[c].events[e] = inputs /\ IsArguments(inputs)
  BY Generations, EventsHaveArguments
<1>2. topics \in Seq({inputs[i].name : i \in DOMAIN inputs})
  BY <1>1, NamesInOrder DEF TopicsOf
<1>3. EmittedEvent(c, e) = [contract |-> c, topics |-> <<EventTopicZero(e, inputs)>> \o topics,
                            data |-> DataOf(inputs)]
  BY <1>1 DEF EmittedEvent
<1> HIDE DEF inputs, topics
<1>4. Len(topics) \in Nat /\ DOMAIN topics = 1 .. Len(topics)
  BY <1>2
<1>5. /\ (<<EventTopicZero(e, inputs)>> \o topics)[1] = EventTopicZero(e, inputs)
      /\ \A k \in 1 .. Len(topics) :
           (<<EventTopicZero(e, inputs)>> \o topics)[1 + k] = topics[k]
  BY <1>2, <1>4
<1> QED
  BY <1>3, <1>5 DEF inputs, topics

\* ... so the arguments are found again.
LEMMA ArgumentsFound ==
  ASSUME NEW c \in Contracts, NEW e \in DOMAIN Abi[c].events
  PROVE  \A i \in DOMAIN OldAbi.events[e] :
           Argument(EmittedEvent(c, e), OldAbi.events[e], i) = OldAbi.events[e][i].name
<1> DEFINE inputs == OldAbi.events[e]
           log == EmittedEvent(c, e)
<1>1. IsArguments(inputs)
  BY Generations, EventsHaveArguments
<1> SUFFICES ASSUME NEW i \in DOMAIN inputs PROVE Argument(log, inputs, i) = inputs[i].name
  OBVIOUS
<1>2. /\ log.data = DataOf(inputs)
      /\ \A k \in 1 .. Len(TopicsOf(inputs)) : log.topics[1 + k] = TopicsOf(inputs)[k]
  BY EventLog
<1> HIDE DEF inputs, log
<1>3. CASE inputs[i].indexed = TRUE
  <2>1. /\ Place(inputs, i) \in 1 .. Len(TopicsOf(inputs))
        /\ TopicsOf(inputs)[Place(inputs, i)] = inputs[i].name
    BY <1>1, <1>3, NamesInOrder DEF TopicsOf
  <2> QED
    BY <1>2, <1>3, <2>1 DEF Argument
<1>4. CASE inputs[i].indexed = FALSE
  <2>1. DataOf(inputs)[Place(inputs, i)] = inputs[i].name
    BY <1>1, <1>4, NamesInOrder DEF DataOf
  <2> QED
    BY <1>2, <1>4, <2>1 DEF Argument
<1> QED
  BY <1>1, <1>3, <1>4 DEF IsArguments

\* What happened can be told from the first topic of its log.
LEMMA LogsTell ==
  ASSUME NEW h \in Happenings
  PROVE  /\ h.contract \in Contracts
         /\ LogOf[h].topics[1].hash = h.what
         /\ \/ /\ h.what \in DOMAIN Abi[h.contract].events
               /\ h.what # "setMinSell"
               /\ LogOf[h] = EmittedEvent(h.contract, h.what)
            \/ /\ h.contract \in {"MARKET_ONE", "MARKET_TWO"}
               /\ h.what \in {"setMinSell", "stop"}
               /\ LogOf[h] = EmittedNote(h.contract, h.what)
<1>1. PICK c \in Contracts :
        h \in [contract : {c}, what : Doings(c), number : Deployed[c] .. MaxNumber]
  BY DEF Happenings
<1>2. h.contract = c /\ h.what \in DOMAIN Abi[c].events \cup Abi[c].notes
  BY <1>1 DEF Doings
<1>3. LogOf[h] = IF h.what \in Abi[c].notes THEN EmittedNote(c, h.what)
                                             ELSE EmittedEvent(c, h.what)
  BY <1>2 DEF LogOf
<1>4. c \in {"MARKET_ONE", "MARKET_TWO", "MARKET_1_1"}
  BY Watched
<1>5. "setMinSell" \notin DOMAIN Abi[c].events /\ "stop" \notin DOMAIN Abi[c].events
  BY <1>4, Generations
<1>6. CASE h.what \in Abi[c].notes
  <2>1. c \in {"MARKET_ONE", "MARKET_TWO"} /\ h.what \in {"setMinSell", "stop"}
    BY <1>4, <1>6, Generations
  <2>2. LogOf[h].topics[1].hash = h.what
    <3>1. \A name, inputs : GetLogNoteTopicZero(name, inputs).hash = name
      BY DEF GetLogNoteTopicZero, EventTopicZero
    <3>2. EmittedNote(c, h.what).topics[1]
            = GetLogNoteTopicZero(h.what, Abi[c].methods[h.what])
      BY DEF EmittedNote
    <3> QED
      BY <1>3, <1>6, <3>1, <3>2
  <2> QED
    BY <1>2, <1>3, <1>6, <2>1, <2>2
<1>7. CASE h.what \notin Abi[c].notes
  <2>1. h.what \in DOMAIN Abi[c].events
    BY <1>2, <1>7
  <2>2. LogOf[h].topics[1].hash = h.what
    <3>1. LogOf[h].topics[1] = EventTopicZero(h.what, OldAbi.events[h.what])
      BY <1>3, <1>7, <2>1, EventLog
    <3> QED
      BY <3>1 DEF EventTopicZero
  <2> QED
    BY <1>2, <1>3, <1>5, <1>7, <2>1, <2>2
<1> QED
  BY <1>6, <1>7

-----------------------------------------------------------------------------
(* The inductive invariant: what is stored was made of what is extracted,   *)
(* and only what somebody asks for is.                                      *)

Asked(h) == \E t \in DOMAIN Export : LogOf[h].topics[1] = Export[t].topic

RouteInv ==
  /\ emitted \subseteq Happenings
  /\ extracted \subseteq {h \in Happenings : Asked(h)}
  /\ \A r \in stored : \E h \in Happenings : r \in RowsOf[h]

LEMMA RouteInvariance == Spec => []RouteInv
<1>1. Init => RouteInv
  BY DEF Init, RouteInv
<1>2. RouteInv /\ [Next]_vars => RouteInv'
  <2> SUFFICES ASSUME RouteInv, [Next]_vars PROVE RouteInv'
    OBVIOUS
  <2>1. CASE Chain
    BY <2>1 DEF RouteInv, Chain, Emit, Asked
  <2>2. CASE Extractor
    <3>1. PICK h \in emitted : Extract(h)
      BY <2>2 DEF Extractor
    <3>2. h \in Happenings /\ Asked(h)
      BY <3>1 DEF RouteInv, Extract, Asked
    <3>3. extracted' = extracted \cup {h} /\ UNCHANGED <<emitted, stored>>
      BY <3>1 DEF Extract
    <3> QED
      BY <3>2, <3>3 DEF RouteInv
  <2>3. CASE Delegator
    <3>1. PICK h \in extracted : \E row \in RowsOf[h] : Store(row)
      BY <2>3 DEF Delegator
    <3>2. PICK row \in RowsOf[h] : Store(row)
      BY <3>1
    <3>3. h \in Happenings /\ stored' = stored \cup {row} /\ UNCHANGED <<emitted, extracted>>
      BY <3>2 DEF RouteInv, Store
    <3> QED
      BY <3>2, <3>3 DEF RouteInv
  <2>4. CASE UNCHANGED vars
    BY <2>4 DEF RouteInv, vars
  <2> QED
    BY <2>1, <2>2, <2>3, <2>4 DEF Next
<1> QED
  BY <1>1, <1>2, PTL DEF Spec

-----------------------------------------------------------------------------
(* Delegation.                                                              *)

\* Whoever asks for a log by its topic is the transformer of its table.
LEMMA AskedByTopic ==
  ASSUME NEW h \in Happenings, NEW t \in DOMAIN Export,
         LogOf[h].topics[1] = Export[t].topic
  PROVE  t \in Transformers /\ h.what = DoneFor[t] /\ h.what \in DOMAIN TableFor
         /\ t = TableFor[h.what]
<1>1. t \in Transformers /\ Export[t].topic.hash = DoneFor[t]
  BY ExportedFor DEF IsExportedFor
<1>2. h.what = DoneFor[t]
  BY <1>1, LogsTell
<1> QED
  BY <1>1, <1>2, TablesAreTold

\* Whatever is extracted has exactly one transformer, whenever the contracts were
\* deployed: the two lists that are asked for independently, of addresses and of
\* topics, never meet in a log that nobody handles
\* (plugins/execute/transformerExporter.go, environments/oasisTransformers.toml).
THEOREM DelegatedOnce == Spec => []OneTransformerEach
<1>1. ASSUME NEW h \in Happenings, Asked(h)
      PROVE  Cardinality({t \in DOMAIN Export : Handles(t, h)}) = 1
  <2>1. PICK t \in DOMAIN Export : LogOf[h].topics[1] = Export[t].topic
    BY <1>1 DEF Asked
  <2>2. /\ t \in Transformers /\ h.what = DoneFor[t] /\ t = TableFor[h.what]
        /\ Export[t].contracts = Range(ConfiguredContracts[t])
    BY <2>1, AskedByTopic, ExportedFor DEF IsExportedFor
  <2>3. h.contract \in Export[t].contracts
    <3>1. CASE t \notin {"log_buy_enabled", "log_matching_enabled", "set_min_sell"}
      BY <2>2, <3>1, LogsTell, Watched
    <3>2. CASE t \in {"log_buy_enabled", "log_matching_enabled", "set_min_sell"}
      <4>1. h.what \in {"LogBuyEnabled", "LogMatchingEnabled", "setMinSell"}
        BY <2>2, <3>2 DEF DoneFor
      <4>2. h.contract # "MARKET_1_1"
        BY <4>1, LogsTell, Generations
      <4> QED
        BY <2>2, <3>2, <4>2, LogsTell, Watched
    <3> QED
      BY <3>1, <3>2
  <2>4. Handles(t, h)
    BY <2>1, <2>3 DEF Handles
  <2>5. \A u \in DOMAIN Export : Handles(u, h) => u = t
    BY <2>2, AskedByTopic DEF Handles
  <2>6. {u \in DOMAIN Export : Handles(u, h)} = {t}
    BY <2>1, <2>4, <2>5
  <2> QED
    BY <2>6, FS_Singleton
<1>2. RouteInv => OneTransformerEach
  BY <1>1 DEF RouteInv, OneTransformerEach
<1> QED
  BY <1>2, RouteInvariance, PTL

-----------------------------------------------------------------------------
(* From the arguments to the columns.                                       *)

\* Arguments have their names, and with them the fields of the entities; a column
\* goes to the field of the argument it is named for.
LEMMA Names ==
  /\ DOMAIN CamelCase = ArgumentNames \cup {"address_id"}
  /\ \A m, n \in DOMAIN CamelCase : CamelCase[m] = CamelCase[n] => m = n
  /\ CamelCase["address_id"] = "ContractAddress"
  /\ \A column \in DOMAIN FieldOf :
       column # "address_id" /\ FieldOf[column] = CamelCase[ArgumentFor(column)]
  /\ \A column \in AddressColumns : ArgumentFor(column) = column
<1>1. DOMAIN CamelCase = ArgumentNames \cup {"address_id"}
  BY DEF CamelCase, ArgumentNames
<1>2. \A m, n \in DOMAIN CamelCase : CamelCase[m] = CamelCase[n] => m = n
  BY DEF CamelCase
<1>3. CamelCase["address_id"] = "ContractAddress"
  BY DEF CamelCase
<1>4. \A column \in DOMAIN FieldOf :
        column # "address_id" /\ FieldOf[column] = CamelCase[ArgumentFor(column)]
  BY DEF FieldOf, CamelCase, ArgumentFor
<1>5. \A column \in AddressColumns : ArgumentFor(column) = column
  BY DEF AddressColumns, ArgumentFor
<1> QED
  BY <1>1, <1>2, <1>3, <1>4, <1>5

\* A transformer, its table and its event fit together: the calls fill the foreign
\* keys, the values the other columns, and each has its argument.
HasNames(inputs, names) == \A n \in names : \E i \in DOMAIN inputs : inputs[i].name = n

Fits(tr, tab, inputs) ==
  /\ Range(tr.calls) = {Hex(n) : n \in tab.fks}
  /\ tr.values = tab.integers \cup tab.others
  /\ tr.values \subseteq DOMAIN FieldOf /\ tab.fks \subseteq AddressColumns
  /\ HasNames(inputs, tab.fks \ {"address_id"})
  /\ HasNames(inputs, {ArgumentFor(v) : v \in tr.values})

LEMMA EverythingFits ==
  \A t \in Transformers \ {"set_min_sell"} :
    Fits(Transformer[t], Table[t], OldAbi.events[DoneFor[t]])
<1> DEFINE events == OldAbi.events
<1>1. \A e \in DOMAIN OldAbi.events :
        OldAbi.events[e] = IF e \in DOMAIN OldEvents THEN OldEvents[e] ELSE MarketEvents[e]
  BY DEF OldAbi
<1>2. /\ events["LogBump"] = OfferInputs /\ events["LogKill"] = OfferInputs
      /\ events["LogMake"] = OfferInputs
  BY <1>1, Generations DEF MarketEvents
<1>3. /\ events["LogTake"] = MarketEvents["LogTake"]
      /\ events["LogTrade"] = MarketEvents["LogTrade"]
      /\ events["LogMinSell"] = MarketEvents["LogMinSell"]
      /\ events["LogInsert"] = MarketEvents["LogInsert"]
      /\ events["LogDelete"] = MarketEvents["LogDelete"]
      /\ events["LogItemUpdate"] = MarketEvents["LogItemUpdate"]
      /\ events["LogSortedOffer"] = MarketEvents["LogSortedOffer"]
      /\ events["LogUnsortedOffer"] = MarketEvents["LogUnsortedOffer"]
      /\ events["LogBuyEnabled"] = OldEvents["LogBuyEnabled"]
      /\ events["LogMatchingEnabled"] = OldEvents["LogMatchingEnabled"]
  BY <1>1, Generations
<1> HIDE DEF events
<1> USE DEF Fits, HasNames, Range, FieldOf, AddressColumns, ArgumentFor, Indexed, InData
<1>4. Fits(LogBump, LogBumpTable, OfferInputs)
  BY DEF LogBump, LogBumpTable, OfferInputs
<1>5. Fits(LogKill, LogKillTable, OfferInputs)
  BY DEF LogKill, LogKillTable, OfferInputs
<1>6. Fits(LogMake, LogMakeTable, OfferInputs)
  BY DEF LogMake, LogMakeTable, OfferInputs
<1>7. Fits(LogTake, LogTakeTable, MarketEvents["LogTake"])
  BY DEF LogTake, LogTakeTable, MarketEvents
<1>8. Fits(LogTrade, LogTradeTable, MarketEvents["LogTrade"])
  BY DEF LogTrade, LogTradeTable, MarketEvents
<1>9. Fits(LogMinSell, LogMinSellTable, MarketEvents["LogMinSell"])
  BY DEF LogMinSell, LogMinSellTable, MarketEvents
<1>10. Fits(LogInsert, LogInsertTable, MarketEvents["LogInsert"])
  BY DEF LogInsert, LogInsertTable, MarketEvents
<1>11. Fits(LogDelete, LogDeleteTable, MarketEvents["LogDelete"])
  BY DEF LogDelete, LogDeleteTable, MarketEvents
<1>12. Fits(LogItemUpdate, LogItemUpdateTable, MarketEvents["LogItemUpdate"])
  BY DEF LogItemUpdate, LogItemUpdateTable, MarketEvents
<1>13. Fits(LogSortedOffer, LogSortedOfferTable, MarketEvents["LogSortedOffer"])
  BY DEF LogSortedOffer, LogSortedOfferTable, MarketEvents
<1>14. Fits(LogUnsortedOffer, LogUnsortedOfferTable, MarketEvents["LogUnsortedOffer"])
  BY DEF LogUnsortedOffer, LogUnsortedOfferTable, MarketEvents
<1>15. Fits(LogBuyEnabled, LogBuyEnabledTable, OldEvents["LogBuyEnabled"])
  BY DEF LogBuyEnabled, LogBuyEnabledTable, OldEvents
<1>16. Fits(LogMatchingEnabled, LogMatchingEnabledTable, OldEvents["LogMatchingEnabled"])
  BY DEF LogMatchingEnabled, LogMatchingEnabledTable, OldEvents
<1> HIDE DEF Fits, HasNames, Range, FieldOf, AddressColumns, ArgumentFor, Indexed, InData
<1> QED
  BY <1>2, <1>3, <1>4, <1>5, <1>6, <1>7, <1>8, <1>9, <1>10, <1>11, <1>12, <1>13, <1>14,
     <1>15, <1>16
  DEF events, Transformers, Transformer, Table, DoneFor

\* The argument of an event with no other goes to the first field, so that one
\* had better be the argument's.
LEMMA SingleArguments ==
  \A t \in Transformers \ {"set_min_sell"} :
    Len(OldAbi.events[DoneFor[t]]) = 1 =>
      /\ 1 \in DOMAIN Export[t].entity
      /\ Export[t].entity[1].name = CamelCase[OldAbi.events[DoneFor[t]][1].name]
<1> DEFINE Goes(entity, inputs) ==
             Len(inputs) = 1 => /\ 1 \in DOMAIN entity
                                /\ entity[1].name = CamelCase[inputs[1].name]
           single == {"log_item_update", "log_sorted_offer", "log_unsorted_offer",
                      "log_buy_enabled", "log_matching_enabled"}
<1>1. \A e \in DOMAIN OldAbi.events :
        OldAbi.events[e] = IF e \in DOMAIN OldEvents THEN OldEvents[e] ELSE MarketEvents[e]
  BY DEF OldAbi
<1> USE DEF BigInt, Bool, Field, Context, CamelCase, Indexed, InData
<1>2. /\ Goes(LogItemUpdateEntity, MarketEvents["LogItemUpdate"])
      /\ Goes(LogSortedOfferEntity, MarketEvents["LogSortedOffer"])
      /\ Goes(LogUnsortedOfferEntity, MarketEvents["LogUnsortedOffer"])
  BY DEF LogItemUpdateEntity, LogSortedOfferEntity, LogUnsortedOfferEntity, MarketEvents
<1>3. /\ Goes(LogBuyEnabledEntity, OldEvents["LogBuyEnabled"])
      /\ Goes(LogMatchingEnabledEntity, OldEvents["LogMatchingEnabled"])
  BY DEF LogBuyEnabledEntity, LogMatchingEnabledEntity, OldEvents
<1>4. /\ Len(OfferInputs) # 1 /\ Len(MarketEvents["LogTake"]) # 1
      /\ Len(MarketEvents["LogTrade"]) # 1 /\ Len(MarketEvents["LogMinSell"]) # 1
      /\ Len(MarketEvents["LogInsert"]) # 1 /\ Len(MarketEvents["LogDelete"]) # 1
  BY DEF OfferInputs, MarketEvents
<1>5. /\ MarketEvents["LogBump"] = OfferInputs /\ MarketEvents["LogKill"] = OfferInputs
      /\ MarketEvents["LogMake"] = OfferInputs
  BY DEF MarketEvents
<1> HIDE DEF BigInt, Bool, Field, Context, CamelCase, Indexed, InData
<1>6. /\ Export["log_item_update"].entity = LogItemUpdateEntity
      /\ Export["log_sorted_offer"].entity = LogSortedOfferEntity
      /\ Export["log_unsorted_offer"].entity = LogUnsortedOfferEntity
      /\ Export["log_buy_enabled"].entity = LogBuyEnabledEntity
      /\ Export["log_matching_enabled"].entity = LogMatchingEnabledEntity
  BY DEF Export, Configured, LogItemUpdateInitializer, LogSortedOfferInitializer,
         LogUnsortedOfferInitializer, LogBuyEnabledInitializer, LogMatchingEnabledInitializer
<1>7. ASSUME NEW t \in single PROVE Goes(Export[t].entity, OldAbi.events[DoneFor[t]])
  <2> HIDE DEF Goes
  <2>1. /\ OldAbi.events["LogItemUpdate"] = MarketEvents["LogItemUpdate"]
        /\ OldAbi.events["LogSortedOffer"] = MarketEvents["LogSortedOffer"]
        /\ OldAbi.events["LogUnsortedOffer"] = MarketEvents["LogUnsortedOffer"]
        /\ OldAbi.events["LogBuyEnabled"] = OldEvents["LogBuyEnabled"]
        /\ OldAbi.events["LogMatchingEnabled"] = OldEvents["LogMatchingEnabled"]
    BY <1>1, Generations
  <2> QED
    BY <1>2, <1>3, <1>6, <2>1 DEF DoneFor
<1>8. ASSUME NEW t \in Transformers \ {"set_min_sell"}, t \notin single
      PROVE  Len(OldAbi.events[DoneFor[t]]) # 1
  <2>1. DoneFor[t] \in {"LogBump", "LogKill", "LogMake", "LogTake", "LogTrade", "LogMinSell",
                       "LogInsert", "LogDelete"}
    BY <1>8 DEF DoneFor, Transformers
  <2>2. OldAbi.events[DoneFor[t]] = MarketEvents[DoneFor[t]]
    BY <1>1, <2>1, Generations
  <2> QED
    BY <1>4, <1>5, <2>1, <2>2
<1> QED
  BY <1>7, <1>8

\* An entity has, under the field of each argument, that argument.
LEMMA EntitiesAreTrue ==
  ASSUME NEW t \in Transformers \ {"set_min_sell"}, NEW c \in Contracts,
         DoneFor[t] \in DOMAIN Abi[c].events,
         Unpacks(Export[t], EmittedEvent(c, DoneFor[t]))
  PROVE  LET entity == ToEntity(Export[t], EmittedEvent(c, DoneFor[t]))
             inputs == OldAbi.events[DoneFor[t]]
         IN  /\ entity["ContractAddress"] = c
             /\ \A i \in DOMAIN inputs : entity[CamelCase[inputs[i].name]] = inputs[i].name
<1> DEFINE tr == Export[t]
           e == DoneFor[t]
           log == EmittedEvent(c, e)
           inputs == OldAbi.events[e]
           target(j) == Target(tr.entity, inputs, j)
           set(f) == {j \in DOMAIN inputs : f \in target(j)}
           fields == {f.name : f \in {g \in Range(tr.entity) : set(g) # {}}}
           from(field) == CHOOSE j \in DOMAIN inputs : \E f \in target(j) : f.name = field
<1>1. /\ tr.abi = OldAbi /\ tr.event = e /\ log.contract = c
      /\ e # "LogSetOwner" /\ inputs = tr.abi.events[tr.event]
  <2>1. tr.event = e /\ tr.abi = Abi[ConfiguredContracts[t][1]]
    BY ExportedFor DEF IsExportedFor
  <2>2. e # "LogSetOwner"
    BY DEF DoneFor, Transformers
  <2> QED
    BY <2>1, <2>2, Watched, Generations, EventLog
<1>2. e \in DOMAIN OldAbi.events /\ IsArguments(inputs)
      /\ \A j \in DOMAIN inputs : inputs[j].name \in ArgumentNames
  BY <1>1, Generations, EventsHaveArguments
<1>3. \A j \in DOMAIN inputs : Argument(log, inputs, j) = inputs[j].name
  BY ArgumentsFound
<1>4. ToEntity(tr, log) = [field \in fields \cup {"ContractAddress"} |->
                             IF field = "ContractAddress" THEN log.contract
                             ELSE Argument(log, inputs, from(field))]
  BY <1>1 DEF ToEntity
\* Each argument has a field to go to, which is named for it and is one of the entity's.
<1>5. ASSUME NEW j \in DOMAIN inputs
      PROVE  /\ target(j) # {}
             /\ \A f \in target(j) : f \in Range(tr.entity) /\ f.name = CamelCase[inputs[j].name]
  <2>1. target(j) # {}
    BY <1>1 DEF Unpacks
  <2>2. CASE Len(inputs) = 1
    <3>1. j = 1
      BY <1>2, <2>2 DEF IsArguments
    <3>2. target(j) = {tr.entity[1]}
      BY <2>2 DEF Target
    <3>3. 1 \in DOMAIN tr.entity /\ tr.entity[1].name = CamelCase[inputs[1].name]
      BY <2>2, SingleArguments
    <3>4. tr.entity[1] \in Range(tr.entity)
      BY <3>3 DEF Range
    <3> QED
      BY <2>1, <3>1, <3>2, <3>3, <3>4
  <2>3. CASE Len(inputs) # 1
    <3>1. target(j) = {f \in Range(tr.entity) : f.name = CamelCase[inputs[j].name]}
      BY <2>3 DEF Target
    <3> QED
      BY <2>1, <3>1
  <2> QED
    BY <2>2, <2>3
<1> HIDE DEF tr, e, log, inputs, target, from
<1>6. ToEntity(tr, log)["ContractAddress"] = c
  BY <1>1, <1>4
<1>7. ASSUME NEW i \in DOMAIN inputs
      PROVE  ToEntity(tr, log)[CamelCase[inputs[i].name]] = inputs[i].name
  <2> DEFINE name == inputs[i].name
             j == from(CamelCase[name])
  <2>1. name \in ArgumentNames /\ name # "address_id"
    BY <1>2 DEF ArgumentNames
  <2>2. PICK f \in target(i) : f \in Range(tr.entity) /\ f.name = CamelCase[name]
    BY <1>5
  <2>3. CamelCase[name] \in fields /\ CamelCase[name] # "ContractAddress"
    <3>1. set(f) # {}
      BY <2>2
    <3> QED
      BY <2>1, <2>2, <3>1, Names
  <2>4. j \in DOMAIN inputs /\ \E g \in target(j) : g.name = CamelCase[name]
    BY <2>2 DEF from
  <2> HIDE DEF j
  <2>5. CamelCase[inputs[j].name] = CamelCase[name]
    BY <1>5, <2>4
  <2>6. inputs[j].name = name
    <3>1. inputs[j].name \in ArgumentNames
      BY <1>2, <2>4
    <3> QED
      BY <2>1, <2>5, <3>1, Names
  <2> HIDE DEF fields, name
  <2> QED
    BY <1>3, <1>4, <2>3, <2>4, <2>6 DEF j, name
<1> QED
  BY <1>6, <1>7 DEF tr, log, inputs, e

\* What a row says of a log, when it says it right.
Says(columns, t, contract) ==
  /\ DOMAIN columns = TableColumns(t)
  /\ \A column \in DOMAIN columns :
       columns[column] = IF column = "address_id" THEN contract ELSE ArgumentFor(column)

\* From the entity to the columns.
LEMMA ModelsAreTrue ==
  ASSUME NEW t \in Transformers \ {"set_min_sell"}, NEW c \in Contracts,
         DoneFor[t] \in DOMAIN Abi[c].events,
         Unpacks(Export[t], EmittedEvent(c, DoneFor[t]))
  PROVE  Says(ModelOfEntity(t, ToEntity(Export[t], EmittedEvent(c, DoneFor[t]))), t, c)
<1> DEFINE entity == ToEntity(Export[t], EmittedEvent(c, DoneFor[t]))
           inputs == OldAbi.events[DoneFor[t]]
           tr == Transformer[t]
           fks == Table[t].fks
           model == ModelOfEntity(t, entity)
           callOf(column) == CHOOSE call \in Range(tr.calls) : call.column = column
<1>1. /\ Range(tr.calls) = {Hex(n) : n \in fks}
      /\ tr.values = Table[t].integers \cup Table[t].others
      /\ tr.values \subseteq DOMAIN FieldOf /\ fks \subseteq AddressColumns
      /\ \A n \in fks \ {"address_id"} : \E i \in DOMAIN inputs : inputs[i].name = n
      /\ \A v \in tr.values : \E i \in DOMAIN inputs : inputs[i].name = ArgumentFor(v)
  BY EverythingFits DEF Fits, HasNames
<1>2. \A n : Hex(n).column = n /\ Hex(n).arg = n
  BY DEF Hex
<1>3. /\ entity["ContractAddress"] = c
      /\ \A i \in DOMAIN inputs : entity[CamelCase[inputs[i].name]] = inputs[i].name
  BY EntitiesAreTrue
<1>4. model = [column \in ColumnsOf(t) |->
                 IF column \in tr.values THEN entity[FieldOf[column]]
                 ELSE entity[CamelCase[callOf(column).arg]]]
  BY DEF ModelOfEntity, Calls
<1>5. ColumnsOf(t) = fks \cup tr.values
  BY <1>1, <1>2 DEF ColumnsOf, Calls
<1> HIDE DEF entity, inputs, tr, fks, model
<1>6. DOMAIN model = TableColumns(t)
  BY <1>1, <1>4, <1>5 DEF TableColumns, fks
<1>7. ASSUME NEW column \in tr.values
      PROVE  column # "address_id" /\ model[column] = ArgumentFor(column)
  <2>1. PICK i \in DOMAIN inputs : inputs[i].name = ArgumentFor(column)
    BY <1>1
  <2>2. entity[CamelCase[ArgumentFor(column)]] = ArgumentFor(column)
    BY <1>3, <2>1
  <2>3. column # "address_id" /\ FieldOf[column] = CamelCase[ArgumentFor(column)]
    BY <1>1, Names
  <2> QED
    BY <1>4, <1>5, <2>2, <2>3
<1>8. ASSUME NEW column \in fks, column \notin tr.values
      PROVE  model[column] = IF column = "address_id" THEN c ELSE ArgumentFor(column)
  <2>1. callOf(column).arg = column
    BY <1>1, <1>2
  <2>2. model[column] = entity[CamelCase[column]]
    <3> HIDE DEF callOf
    <3> QED
      BY <1>4, <1>5, <1>8, <2>1
  <2>3. CASE column = "address_id"
    BY <1>3, <2>2, <2>3, Names
  <2>4. CASE column # "address_id"
    <3>1. PICK i \in DOMAIN inputs : inputs[i].name = column
      BY <1>1, <2>4
    <3> QED
      BY <1>1, <1>3, <2>2, <2>4, <3>1, Names
  <2> QED
    BY <2>3, <2>4
<1> QED
  BY <1>4, <1>5, <1>6, <1>7, <1>8 DEF Says, model, entity

\* The call of setMinSell leaves its caller and its arguments in the topics.
LEMMA NotesAreTrue ==
  ASSUME NEW c \in {"MARKET_ONE", "MARKET_TWO"}
  PROVE  Says(ModelOfTopics(EmittedNote(c, "setMinSell")), "set_min_sell", c)
<1> DEFINE inputs == Abi[c].methods["setMinSell"]
           log == EmittedNote(c, "setMinSell")
<1>1. inputs = <<InData("pay_gem", "address"), InData("dust", "uint256")>>
  BY Generations DEF OldAbi
<1>2. /\ 1 \in DOMAIN inputs /\ inputs[1].name = "pay_gem"
      /\ 2 \in DOMAIN inputs /\ inputs[2].name = "dust"
  BY <1>1 DEF InData
<1> HIDE DEF inputs
<1>3. /\ log.contract = c /\ log.topics[2] = "msg_sender"
      /\ log.topics[3] = "pay_gem" /\ log.topics[4] = "dust"
  BY <1>2 DEF EmittedNote, inputs
<1> HIDE DEF log
<1>4. ModelOfTopics(log) = [address_id |-> c, msg_sender |-> "msg_sender",
                            pay_gem |-> "pay_gem", dust |-> "dust"]
  BY <1>3 DEF ModelOfTopics
<1>5. TableColumns("set_min_sell") = {"address_id", "pay_gem", "msg_sender", "dust"}
  BY DEF TableColumns, Table, SetMinSellTable
<1>6. ArgumentFor("pay_gem") = "pay_gem" /\ ArgumentFor("msg_sender") = "msg_sender"
      /\ ArgumentFor("dust") = "dust"
  BY DEF ArgumentFor
<1> QED
  BY <1>4, <1>5, <1>6 DEF Says, log

\* Every row is in the table of what happened and has in each column the argument it
\* is named for: what is agreed upon in four places and compared by none of them -
\* ABIs, signatures, entities, models - does agree, for all three contracts
\* (transformers/events/*/entity.go, transformer.go).
THEOREM RowsAreTrue == Spec => []RowsSayWhatHappened
<1>1. ASSUME NEW h \in Happenings, NEW r \in RowsOf[h]
      PROVE  /\ r.source.what \in DOMAIN TableFor /\ r.table = TableFor[r.source.what]
             /\ Says(r.columns, r.table, r.source.contract)
  <2>1. PICK t \in DOMAIN Export :
          /\ Handles(t, h) /\ Storable(Export[t], LogOf[h])
          /\ r = [table |-> t, source |-> h, columns |-> ToModel(Export[t], LogOf[h])]
    BY DEF RowsOf
  <2>2. /\ t \in Transformers /\ h.what = DoneFor[t] /\ h.what \in DOMAIN TableFor
        /\ t = TableFor[h.what] /\ Export[t].label = t
    BY <2>1, AskedByTopic, ExportedFor DEF Handles, IsExportedFor
  <2>3. CASE t = "set_min_sell"
    <3>1. h.what = "setMinSell"
      BY <2>2, <2>3 DEF DoneFor
    <3>2. /\ h.contract \in {"MARKET_ONE", "MARKET_TWO"}
          /\ LogOf[h] = EmittedNote(h.contract, "setMinSell")
      BY <3>1, LogsTell
    <3>3. r.columns = ModelOfTopics(LogOf[h])
      BY <2>1, <2>2, <2>3 DEF ToModel
    <3> QED
      BY <2>1, <2>2, <2>3, <3>2, <3>3, NotesAreTrue
  <2>4. CASE t # "set_min_sell"
    <3>1. h.what # "setMinSell" /\ h.what # "stop"
      BY <2>2, <2>4 DEF DoneFor, Transformers
    <3>2. /\ h.contract \in Contracts /\ DoneFor[t] \in DOMAIN Abi[h.contract].events
          /\ LogOf[h] = EmittedEvent(h.contract, DoneFor[t])
      BY <2>2, <3>1, LogsTell
    <3>3. /\ r.columns = ModelOfEntity(t, ToEntity(Export[t], LogOf[h]))
          /\ Unpacks(Export[t], LogOf[h])
      BY <2>1, <2>2, <2>4 DEF ToModel, Storable
    <3> QED
      BY <2>1, <2>2, <2>4, <3>2, <3>3, ModelsAreTrue
  <2> QED
    BY <2>3, <2>4
<1>2. RouteInv => RowsSayWhatHappened
  BY <1>1 DEF RouteInv, RowsSayWhatHappened, Says
<1> QED
  BY <1>2, RouteInvariance, PTL
=============================================================================

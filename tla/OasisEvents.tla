----------------------------- MODULE OasisEvents -----------------------------
(***************************************************************************)
(* The catalogue of the plugin: what each of the fourteen transformers     *)
(* asks of the database for one log, and the table its rows go to.         *)
(*                                                                         *)
(* A transformer is described by                                           *)
(*   verify - "upfront" when toEntities decodes every log of the batch     *)
(*            before ToModels does anything else, "inline" when each log   *)
(*            is verified only when its turn comes;                        *)
(*   calls  - its GetOrCreateAddress calls for one log, in program order:  *)
(*            the argument of the event, the textual form in which it is   *)
(*            handed over, and the foreign-key column the id ends up in;   *)
(*   values - the columns of its models that are not foreign keys.         *)
(* Argument names of the contracts' ABI and column names coincide (maker,  *)
(* pay_gem, keeper, ...), so a column also names the event argument that   *)
(* belongs in it; "address_id" stands for the emitting contract.  LogNote  *)
(* names its topics guy, foo and bar; here they go by what setMinSell puts *)
(* there, msg_sender, pay_gem and dust.                                    *)
(***************************************************************************)
EXTENDS Naturals, Sequences

\* common.Address.Hex(), 42 characters, and common.Hash.Hex() of a topic,
\* 66 characters: two texts of one address.
Forms == {"checksum", "topic"}

\* The call for an argument whose id goes to the column of its name, as entity
\* field and as topic.
Hex(name)      == [arg |-> name, column |-> name, form |-> "checksum"]
TopicHex(name) == [arg |-> name, column |-> name, form |-> "topic"]

AddressColumns == {"address_id", "maker", "taker", "pay_gem", "buy_gem",
                   "keeper", "msg_sender"}

Call == [arg : AddressColumns, column : AddressColumns, form : Forms]

-----------------------------------------------------------------------------
(* The transformers.                                                       *)

LogBump ==
  [verify |-> "upfront",
   calls  |-> <<Hex("address_id"), Hex("maker"), Hex("pay_gem"), Hex("buy_gem")>>,
   values |-> {"offer_id", "pair", "pay_amt", "buy_amt", "timestamp"}]

LogKill ==
  [verify |-> "upfront",
   calls  |-> <<Hex("address_id"), Hex("maker"), Hex("pay_gem"), Hex("buy_gem")>>,
   values |-> {"offer_id", "pair", "pay_amt", "buy_amt", "timestamp"}]

LogMake ==
  [verify |-> "upfront",
   calls  |-> <<Hex("address_id"), Hex("maker"), Hex("pay_gem"), Hex("buy_gem")>>,
   values |-> {"offer_id", "pair", "pay_amt", "buy_amt", "timestamp"}]

\* Mutant: the gems are swapped.
LogTake_GemsSwapped ==
  [verify |-> "upfront",
   calls  |-> <<Hex("address_id"), Hex("maker"), Hex("taker"),
                [Hex("pay_gem") EXCEPT !.column = "buy_gem"],
                [Hex("buy_gem") EXCEPT !.column = "pay_gem"]>>,
   values |-> {"offer_id", "pair", "take_amt", "give_amt", "timestamp"}]

LogTake ==
  [verify |-> "upfront",
   calls  |-> <<Hex("address_id"), Hex("maker"), Hex("taker"),
                Hex("pay_gem"), Hex("buy_gem")>>,
   values |-> {"offer_id", "pair", "take_amt", "give_amt", "timestamp"}]

\* Mutant: the model lacks a NOT NULL column.
LogTrade_NoBuyGem ==
  [verify |-> "upfront",
   calls  |-> <<Hex("address_id"), Hex("pay_gem")>>,
   values |-> {"pay_amt", "buy_amt"}]

LogTrade ==
  [verify |-> "upfront",
   calls  |-> <<Hex("address_id"), Hex("pay_gem"), Hex("buy_gem")>>,
   values |-> {"pay_amt", "buy_amt"}]

\* Mutant: the model lacks a NOT NULL column.
LogMinSell_NoContract ==
  [verify |-> "upfront", calls |-> <<Hex("pay_gem")>>, values |-> {"min_amount"}]

LogMinSell ==
  [verify |-> "upfront",
   calls  |-> <<Hex("pay_gem"), Hex("address_id")>>,
   values |-> {"min_amount"}]

LogInsert ==
  [verify |-> "upfront",
   calls  |-> <<Hex("keeper"), Hex("address_id")>>,
   values |-> {"offer_id"}]

LogDelete ==
  [verify |-> "upfront",
   calls  |-> <<Hex("keeper"), Hex("address_id")>>,
   values |-> {"offer_id"}]

LogItemUpdate ==
  [verify |-> "upfront", calls |-> <<Hex("address_id")>>, values |-> {"offer_id"}]

LogSortedOffer ==
  [verify |-> "upfront", calls |-> <<Hex("address_id")>>, values |-> {"offer_id"}]

LogUnsortedOffer ==
  [verify |-> "upfront", calls |-> <<Hex("address_id")>>, values |-> {"offer_id"}]

LogBuyEnabled ==
  [verify |-> "upfront", calls |-> <<Hex("address_id")>>, values |-> {"is_enabled"}]

LogMatchingEnabled ==
  [verify |-> "upfront", calls |-> <<Hex("address_id")>>, values |-> {"is_enabled"}]

\* No toEntities: VerifyLog and the address calls alternate log by log, and
\* the two indexed arguments are passed as 66-character topics.
SetMinSell ==
  [verify |-> "inline",
   calls  |-> <<Hex("address_id"), TopicHex("msg_sender"), TopicHex("pay_gem")>>,
   values |-> {"dust"}]

-----------------------------------------------------------------------------
(* The tables: NOT NULL foreign keys into addresses, INTEGER columns (four *)
(* bytes, so they can refuse a uint64), and the other nullable columns.    *)
(* Every table also has log_id and header_id, NOT NULL foreign keys with   *)
(* ON DELETE CASCADE, and UNIQUE (header_id, log_id).                      *)

LogBumpTable ==
  [fks |-> {"address_id", "maker", "pay_gem", "buy_gem"}, integers |-> {"timestamp"},
   others |-> {"pay_amt", "buy_amt", "offer_id", "pair"}]

LogKillTable ==
  [fks |-> {"address_id", "maker", "pay_gem", "buy_gem"}, integers |-> {"timestamp"},
   others |-> {"pay_amt", "buy_amt", "offer_id", "pair"}]

LogMakeTable ==
  [fks |-> {"address_id", "maker", "pay_gem", "buy_gem"}, integers |-> {"timestamp"},
   others |-> {"pay_amt", "buy_amt", "offer_id", "pair"}]

LogTakeTable ==
  [fks |-> {"address_id", "maker", "pay_gem", "buy_gem", "taker"},
   integers |-> {"timestamp"},
   others |-> {"take_amt", "give_amt", "offer_id", "pair"}]

LogTradeTable ==
  [fks |-> {"address_id", "pay_gem", "buy_gem"}, integers |-> {},
   others |-> {"pay_amt", "buy_amt"}]

LogMinSellTable ==
  [fks |-> {"address_id", "pay_gem"}, integers |-> {}, others |-> {"min_amount"}]

LogInsertTable ==
  [fks |-> {"address_id", "keeper"}, integers |-> {}, others |-> {"offer_id"}]

LogDeleteTable ==
  [fks |-> {"address_id", "keeper"}, integers |-> {}, others |-> {"offer_id"}]

LogItemUpdateTable ==
  [fks |-> {"address_id"}, integers |-> {}, others |-> {"offer_id"}]

LogSortedOfferTable ==
  [fks |-> {"address_id"}, integers |-> {}, others |-> {"offer_id"}]

LogUnsortedOfferTable ==
  [fks |-> {"address_id"}, integers |-> {}, others |-> {"offer_id"}]

LogBuyEnabledTable ==
  [fks |-> {"address_id"}, integers |-> {}, others |-> {"is_enabled"}]

LogMatchingEnabledTable ==
  [fks |-> {"address_id"}, integers |-> {}, others |-> {"is_enabled"}]

SetMinSellTable ==
  [fks |-> {"address_id", "pay_gem", "msg_sender"}, integers |-> {},
   others |-> {"dust"}]

-----------------------------------------------------------------------------
(* The exported plugin.                                                    *)

Transformers ==
  {"log_bump", "log_buy_enabled", "log_delete", "log_insert", "log_item_update",
   "log_kill", "log_make", "log_matching_enabled", "log_min_sell",
   "log_sorted_offer", "log_take", "log_trade", "log_unsorted_offer",
   "set_min_sell"}

\* Each initializer pairs the name of a table with the Transformer of its package.
Transformer ==
  [log_bump           |-> LogBump,          log_buy_enabled      |-> LogBuyEnabled,
   log_delete         |-> LogDelete,        log_insert           |-> LogInsert,
   log_item_update    |-> LogItemUpdate,    log_kill             |-> LogKill,
   log_make           |-> LogMake,          log_matching_enabled |-> LogMatchingEnabled,
   log_min_sell       |-> LogMinSell,       log_sorted_offer     |-> LogSortedOffer,
   log_take           |-> LogTake,          log_trade            |-> LogTrade,
   log_unsorted_offer |-> LogUnsortedOffer, set_min_sell         |-> SetMinSell]

Table ==
  [log_bump           |-> LogBumpTable,     log_buy_enabled      |-> LogBuyEnabledTable,
   log_delete         |-> LogDeleteTable,   log_insert           |-> LogInsertTable,
   log_item_update    |-> LogItemUpdateTable, log_kill           |-> LogKillTable,
   log_make           |-> LogMakeTable,     log_matching_enabled |-> LogMatchingEnabledTable,
   log_min_sell       |-> LogMinSellTable,  log_sorted_offer     |-> LogSortedOfferTable,
   log_take           |-> LogTakeTable,     log_trade            |-> LogTradeTable,
   log_unsorted_offer |-> LogUnsortedOfferTable, set_min_sell    |-> SetMinSellTable]

TableColumns(t) == Table[t].fks \cup Table[t].integers \cup Table[t].others

Calls(t) == Transformer[t].calls

\* A model holds a column per call and the value columns; the INSERT names them
\* all, so each must exist, and no NOT NULL column may be left out.
ColumnsFit(t, fkColumns) ==
  /\ fkColumns \cup Transformer[t].values \subseteq TableColumns(t)
  /\ Table[t].fks \subseteq fkColumns
=============================================================================

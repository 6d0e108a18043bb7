------------------------------- MODULE BackFill -------------------------------
(***************************************************************************)
(* create_back_filled_diff.  A contract's storage is kept as diffs: a slot *)
(* has the value of its last diff at or below a block, or zero.  Sessions  *)
(* that fill gaps call the function with the value a slot has at a block,  *)
(* and it stores a diff unless the slot has that value anyway.             *)
(*                                                                         *)
(* A pass is a sequence of calls.  Its caller is external: sessions make   *)
(* their passes at the same time and in whatever order they like, and a    *)
(* function runs in READ COMMITTED, reads before it inserts, and does not  *)
(* see what others insert in between.  One chain, so no block hashes.      *)
(***************************************************************************)
EXTENDS Integers, Sequences

CONSTANTS
  Heights,   \* 1 .. the height of the chain
  Slots,     \* storage slots: address and storage_key
  Values,    \* values of a slot
  Empty,     \* the zero value among them
  Sessions,
  Pass,      \* session -> its calls: sequence of <<slot, height>>
  MaxPasses  \* bound on passes of a session

Null   == "null"    \* no value was found
Unread == "unread"  \* none was looked for

ASSUME ChainAssumption ==
  /\ Heights \subseteq Nat
  /\ Empty \in Values /\ {Null, Unread} \cap Values = {}
ASSUME PassAssumption ==
  Pass \in [Sessions -> Seq(Slots \X Heights)] /\ MaxPasses \in Nat

VARIABLES
  chain,   \* slot -> height -> value
  diffs,   \* public.storage_diff
  next,    \* session -> position of its next call, 0 when there is no pass
  last,    \* session -> last_storage_value of the call under way
  passes,  \* session -> passes begun
  still    \* session -> no diff was stored since its pass began

vars == <<chain, diffs, next, last, passes, still>>

Diffs == [slot : Slots, height : Heights, value : Values]

True(d) == chain[d.slot][d.height] = d.value

TypeOK ==
  /\ chain \in [Slots -> [Heights -> Values]]
  /\ diffs \subseteq Diffs
  /\ next \in [Sessions -> Nat] /\ \A s \in Sessions : next[s] <= Len(Pass[s]) + 1
  /\ last \in [Sessions -> Values \cup {Null, Unread}]
  /\ passes \in [Sessions -> 0 .. MaxPasses] /\ still \in [Sessions -> BOOLEAN]

-----------------------------------------------------------------------------
(* The function.                                                           *)

\* Mutant: the height is not compared.
Earlier_Any(slot, height) == {d \in diffs : d.slot = slot}

Earlier(slot, height) == {d \in diffs : d.slot = slot /\ d.height <= height}

\* ORDER BY block_height DESC LIMIT 1
LastStorageValue(slot, height) ==
  LET earlier == Earlier(slot, height) IN
  IF earlier = {} THEN Null
  ELSE (CHOOSE d \in earlier : \A e \in earlier : e.height <= d.height).value

Busy(s) == next[s] \in 1 .. Len(Pass[s])

Slot(s)   == Pass[s][next[s]][1]
Height(s) == Pass[s][next[s]][2]
Value(s)  == chain[Slot(s)][Height(s)]

\* DECLARE
Read(s) ==
  /\ Busy(s) /\ last[s] = Unread
  /\ last' = [last EXCEPT ![s] = LastStorageValue(Slot(s), Height(s))]
  /\ UNCHANGED <<chain, diffs, next, passes, still>>

\* Mutant: an empty value needs no diff, whatever was there before.
Known_Empty(s) == last[s] = Value(s) \/ Value(s) = Empty

\* The two conditions for which it returns.
Known(s) == last[s] = Value(s) \/ (last[s] = Null /\ Value(s) = Empty)

\* Mutant: what was read is stored.
Write_Last(s) ==
  /\ Busy(s) /\ last[s] # Unread
  /\ diffs' = IF Known(s) THEN diffs
              ELSE diffs \cup {[slot |-> Slot(s), height |-> Height(s), value |-> last[s]]}
  /\ still' = [t \in Sessions |-> still[t] /\ diffs' = diffs]
  /\ next' = [next EXCEPT ![s] = @ + 1]
  /\ last' = [last EXCEPT ![s] = Unread]
  /\ UNCHANGED <<chain, passes>>

\* BEGIN ... END; ON CONFLICT DO NOTHING when the diff is there.
Write(s) ==
  /\ Busy(s) /\ last[s] # Unread
  /\ diffs' = IF Known(s) THEN diffs
              ELSE diffs \cup {[slot |-> Slot(s), height |-> Height(s), value |-> Value(s)]}
  /\ still' = [t \in Sessions |-> still[t] /\ diffs' = diffs]
  /\ next' = [next EXCEPT ![s] = @ + 1]
  /\ last' = [last EXCEPT ![s] = Unread]
  /\ UNCHANGED <<chain, passes>>

\* The call fails, or the session is lost: its pass is over.
Abandon(s) ==
  /\ Busy(s)
  /\ next' = [next EXCEPT ![s] = 0]
  /\ last' = [last EXCEPT ![s] = Unread]
  /\ UNCHANGED <<chain, diffs, passes, still>>

Begin(s) ==
  /\ ~Busy(s) /\ passes[s] < MaxPasses
  /\ next' = [next EXCEPT ![s] = 1]
  /\ passes' = [passes EXCEPT ![s] = @ + 1]
  /\ still' = [still EXCEPT ![s] = TRUE]
  /\ UNCHANGED <<chain, diffs, last>>

\* Some of the diffs are there.
Init ==
  /\ chain \in [Slots -> [Heights -> Values]]
  /\ diffs \in SUBSET {d \in Diffs : True(d)}
  /\ next = [s \in Sessions |-> 0]
  /\ last = [s \in Sessions |-> Unread]
  /\ passes = [s \in Sessions |-> 0]
  /\ still = [s \in Sessions |-> FALSE]

Next == \E s \in Sessions : Read(s) \/ Write(s) \/ Abandon(s) \/ Begin(s)

Spec == Init /\ [][Next]_vars

-----------------------------------------------------------------------------
(* Properties.                                                             *)

\* The value the diffs give a slot at a height.
ValueAt(slot, height) ==
  LET value == LastStorageValue(slot, height) IN IF value = Null THEN Empty ELSE value

Faithful(slot, height) == ValueAt(slot, height) = chain[slot][height]

\* Does a pass of s reach a height of a slot only after all the lower ones.
Ascending(s) ==
  \A i \in 1 .. Len(Pass[s]) : \A h \in Heights :
    h < Pass[s][i][2] => \E j \in 1 .. i - 1 : Pass[s][j] = <<Pass[s][i][1], h>>

\* What an ascending pass has gone by is as the chain says, and stays so, whatever
\* other sessions store at the same time, in whatever order, by what they read
\* before (vulcanize_schema.sql:54-78).
AscendingFaithful ==
  \A s \in Sessions : Ascending(s) =>
    \A i \in 1 .. next[s] - 1 : Faithful(Pass[s][i][1], Pass[s][i][2])

\* In any other order a pass may end with a wrong value at a height it has filled,
\* but not one during which nothing was stored: a pass is to be repeated until then.
StillMeansFaithful ==
  \A s \in Sessions : next[s] > Len(Pass[s]) /\ still[s] =>
    \A i \in 1 .. Len(Pass[s]) : Faithful(Pass[s][i][1], Pass[s][i][2])
=============================================================================

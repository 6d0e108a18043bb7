-------------------------- MODULE MCOasisTransform --------------------------
(* Small chains for OasisTransform: rivals of one height, logs a transformer *)
(* cannot take, and a transaction mined at two heights.                      *)
EXTENDS OasisTransform, TLC

CONSTANTS maker, gem, stranger,   \* accounts
          a, b, c, d,             \* blocks
          t1, t2,                 \* transactions
          r1, r2, r3, r4, r5, r6  \* raw logs

\* The contract and the gems coincide, as do the acting accounts, so that
\* different columns and different logs share address rows.
AccountsOf(actor) ==
  [col \in AddressColumns |->
     IF col \in {"maker", "taker", "keeper", "msg_sender"} THEN actor ELSE gem]

Log(event, block, tx, actor, shape) ==
  [event |-> event, block |-> block, tx |-> tx, account |-> AccountsOf(actor),
   shape |-> shape]

\* a and b are rivals, c and d as well; either of them may follow either of those.
MCNumber == [block \in Blocks |-> IF block \in {a, b} THEN 1 ELSE 2]

\* r1 and r2 are of one transformer; the transaction of r1 is mined in a and in c,
\* and its one transactions row belongs to whichever was extracted first.
ReorgContent == (r1 :> Log("log_insert", a, t1, maker, "plain"))
             @@ (r2 :> Log("log_insert", a, t2, maker, "plain"))
             @@ (r3 :> Log("set_min_sell", c, t1, maker, "plain"))

\* One block, in which each of three transformers meets a log it can store and
\* one it cannot.  No decodable log mentions the stranger.
PoisonContent == (r1 :> Log("log_insert", a, t1, maker, "plain"))
              @@ (r2 :> Log("log_insert", a, t1, stranger, "undecodable"))
              @@ (r3 :> Log("set_min_sell", a, t1, maker, "plain"))
              @@ (r4 :> Log("set_min_sell", a, t1, stranger, "undecodable"))
              @@ (r5 :> Log("log_make", a, t2, maker, "plain"))
              @@ (r6 :> Log("log_make", a, t2, maker, "overflow"))

\* The transaction of r1 is mined in a and, once b has replaced a, in c: until
\* then its one transactions row belongs to a.
ProgressContent == (r1 :> Log("log_sorted_offer", a, t1, maker, "plain"))
                @@ (r2 :> Log("log_sorted_offer", c, t1, maker, "plain"))
                @@ (r3 :> Log("log_min_sell", b, t2, maker, "plain"))

\* The workers are alike.
Alike == Permutations(Workers)
=============================================================================

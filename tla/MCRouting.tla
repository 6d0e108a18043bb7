----------------------------- MODULE MCRouting -----------------------------
(* The three contracts, deployed one block after the other. *)
EXTENDS Routing

InOrder == [MARKET_ONE |-> 1, MARKET_TWO |-> 2, MARKET_1_1 |-> 3]
=============================================================================

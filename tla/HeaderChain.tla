---------------------------- MODULE HeaderChain ----------------------------
(***************************************************************************)
(* What get_or_create_header promises: the headers form a chain with one   *)
(* block at each height it has reached.  A height is added once and never  *)
(* lost; its block may be exchanged for a rival until the chain is Window  *)
(* higher, and is final from then on.                                      *)
(***************************************************************************)
EXTENDS Tables, Naturals

CONSTANTS Blocks, Number, Window

VARIABLE chain  \* height -> the blocks of the headers of that height

Init == chain = Empty

Extend(b) ==
  /\ Number[b] \notin DOMAIN chain
  /\ chain' = With(chain, Number[b], {b})

\* A rival takes the place of the blocks of its height.
Exchange(b) ==
  /\ Number[b] \in DOMAIN chain
  /\ chain' = With(chain, Number[b], {b})

Replace(b) ==
  /\ Exchange(b)
  /\ \A n \in DOMAIN chain : n < Number[b] + Window

Next == \E b \in Blocks : Extend(b) \/ Replace(b)

Spec == Init /\ [][Next]_chain

\* What is left of the promise when calls overlap: the chain may outgrow a
\* height between the decision to exchange its block and the exchange.
OverlappedNext == \E b \in Blocks : Extend(b) \/ Exchange(b)

OverlappedSpec == Init /\ [][OverlappedNext]_chain
=============================================================================

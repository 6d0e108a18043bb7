----------------------------- MODULE MCHeaders -----------------------------
(* Small chains for Headers: two rivals at the bottom, two heights above. *)
EXTENDS Headers, TLC

CONSTANTS a1, b1, a2, a3  \* blocks

MCNumber == (a1 :> 1) @@ (b1 :> 1) @@ (a2 :> 2) @@ (a3 :> 3)
=============================================================================

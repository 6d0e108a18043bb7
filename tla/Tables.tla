------------------------------- MODULE Tables -------------------------------
(* Partial functions standing for tables with a unique key: key -> the rest *)
(* of the row.                                                              *)
EXTENDS Functions

Empty         == [x \in {} |-> x]
Without(f, S) == Restrict(f, DOMAIN f \ S)
With(f, x, v) == [y \in DOMAIN f \cup {x} |-> IF y = x THEN v ELSE f[y]]

PartialFunction(f, S, T) == DOMAIN f \subseteq S /\ f \in [DOMAIN f -> T]
=============================================================================

--------------------------- MODULE BasicTheorems ---------------------------
(* Numbers and tables, for all the proofs. *)
EXTENDS Tables, Integers, FiniteSets, FiniteSetTheorems, WellFoundedInduction, TLAPS

-----------------------------------------------------------------------------
(* Natural numbers.  Induction is stated with sets: a set that has a number *)
(* but not the least of them cannot be.                                     *)

Smaller == {p \in Nat \X Nat : p[1] < p[2]}

LEMMA SmallerIsWellFounded == IsWellFoundedOn(Smaller, Nat)
  BY NatLessThanWellFounded DEF OpToRel, Smaller

LEMMA LeastNumber ==
  ASSUME NEW T \in SUBSET Nat, T # {}
  PROVE  \E x \in T : \A y \in T : x <= y
<1>1. PICK x \in T : \A y \in T : <<y, x>> \notin Smaller
  BY SmallerIsWellFounded, WFMin
<1>2. \A n, m \in Nat : <<n, m>> \in Smaller <=> n < m
  BY DEF Smaller
<1>3. ASSUME NEW y \in T PROVE x <= y
  <2>1. x \in Nat /\ y \in Nat
    OBVIOUS
  <2>2. ~ (y < x)
    BY <1>1, <1>2, <2>1
  <2> QED
    BY <2>1, <2>2
<1> QED
  BY <1>3

LEMMA Induction ==
  ASSUME NEW T, 0 \in T, \A n \in Nat : n \in T => n + 1 \in T
  PROVE  Nat \subseteq T
<1> SUFFICES ASSUME Nat \ T # {} PROVE FALSE
  OBVIOUS
<1>1. PICK x \in Nat \ T : \A y \in Nat \ T : x <= y
  <2>1. Nat \ T \in SUBSET Nat
    OBVIOUS
  <2> QED
    BY <2>1, LeastNumber
<1>2. x # 0 /\ x - 1 \in Nat /\ x - 1 \in T
  BY <1>1
<1> QED
  BY <1>2

-----------------------------------------------------------------------------
(* What adding and removing rows does to a table.                           *)

\* A row added under a key is found there, and no other row changes.
LEMMA WithLookup ==
  ASSUME NEW f, NEW x, NEW v
  PROVE  /\ DOMAIN With(f, x, v) = DOMAIN f \cup {x}
         /\ With(f, x, v)[x] = v
         /\ \A y \in DOMAIN f : y # x => With(f, x, v)[y] = f[y]
  BY DEF With

\* Rows that are not removed stay as they are.
LEMMA WithoutLookup ==
  ASSUME NEW f, NEW S
  PROVE  /\ DOMAIN Without(f, S) = DOMAIN f \ S
         /\ \A y \in DOMAIN f \ S : Without(f, S)[y] = f[y]
  BY DEF Without, Restrict

\* A table stays one when a row of its type is added.
LEMMA WithType ==
  ASSUME NEW S, NEW T, NEW f, PartialFunction(f, S, T), NEW x \in S, NEW v \in T
  PROVE  PartialFunction(With(f, x, v), S, T)
  BY DEF With, PartialFunction

\* A table stays one when rows are removed.
LEMMA WithoutType ==
  ASSUME NEW S, NEW T, NEW f, PartialFunction(f, S, T), NEW gone
  PROVE  PartialFunction(Without(f, gone), S, T)
  BY DEF Without, Restrict, PartialFunction

\* The empty table is one, of any type.
LEMMA EmptyType ==
  ASSUME NEW S, NEW T
  PROVE  PartialFunction(Empty, S, T) /\ DOMAIN Empty = {}
  BY DEF Empty, PartialFunction

\* A table holds values of its type.
LEMMA LookupType ==
  ASSUME NEW S, NEW T, NEW f, PartialFunction(f, S, T), NEW x \in DOMAIN f
  PROVE  x \in S /\ f[x] \in T
  BY DEF PartialFunction
=============================================================================

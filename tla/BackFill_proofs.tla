--------------------------- MODULE BackFill_proofs ---------------------------
(* What an ascending pass has gone by, and what a pass during which nothing   *)
(* was stored has gone by, is as the chain says: for any chain, any sessions  *)
(* and any order of calls.                                                    *)
EXTENDS BackFill, WellFoundedInduction, TLAPS

-----------------------------------------------------------------------------
(* The last of some diffs.                                                 *)

\* A bounded set of numbers that is not empty has a greatest element.
LEMMA Greatest ==
  ASSUME NEW S, S \subseteq Nat, S # {}, NEW b \in Nat, \A x \in S : x <= b
  PROVE  \E x \in S : \A y \in S : y <= x
PROOF
  <1> DEFINE T == {b - x : x \in S}
  <1>1. T \subseteq Nat /\ T # {}
    <2>1. \A x \in S : b - x \in Nat
      OBVIOUS
    <2>2. T \subseteq Nat
      BY <2>1
    <2>3. PICK x \in S : TRUE
      OBVIOUS
    <2>4. b - x \in T
      BY <2>3
    <2> QED BY <2>2, <2>4
  <1>2. PICK m \in T : \A y \in T : ~ (<<y, m>> \in OpToRel(<, Nat))
    <2> HIDE DEF T
    <2> QED BY <1>1, NatLessThanWellFounded, WFMin
  <1>3. \A y \in T : m <= y
    <2> TAKE y \in T
    <2>1. ~ (<<y, m>> \in OpToRel(<, Nat))
      BY <1>2
    <2>2. y \in Nat /\ m \in Nat
      BY <1>1
    <2> HIDE DEF T
    <2>3. ~ (y < m)
      BY <2>1, <2>2 DEF OpToRel
    <2> QED BY <2>2, <2>3
  <1>4. PICK x \in S : m = b - x
    OBVIOUS
  <1>5. \A y \in S : y <= x
    BY <1>3, <1>4
  <1> QED BY <1>5

\* The diffs of a slot up to a height, and the newest of them.
UpTo(D, slot, height) == {d \in D : d.slot = slot /\ d.height <= height}

Newest(D, slot, height) ==
  {d \in UpTo(D, slot, height) : \A e \in UpTo(D, slot, height) : e.height <= d.height}

\* D gives a slot the value that c has for it.
Covered(D, c, slot, height) ==
  /\ \A d \in Newest(D, slot, height) : d.value = c[slot][height]
  /\ UpTo(D, slot, height) = {} => c[slot][height] = Empty

\* Every diff is true of c.
AllTrue(D, c) == D \subseteq Diffs /\ \A d \in D : c[d.slot][d.height] = d.value

\* Where there is a diff there is a newest one.
LEMMA NewestExists ==
  ASSUME NEW D, D \subseteq Diffs, NEW slot, NEW height \in Heights,
         UpTo(D, slot, height) # {}
  PROVE  Newest(D, slot, height) # {}
PROOF
  <1> DEFINE U == UpTo(D, slot, height)
             S == {d.height : d \in U}
  <1>1. \A d \in U : d \in Diffs /\ d.height \in Nat /\ d.height <= height
    BY ChainAssumption DEF UpTo, Diffs
  <1>2. S \subseteq Nat /\ (\A x \in S : x <= height) /\ height \in Nat
    BY <1>1, ChainAssumption
  <1>3. S # {}
    <2>1. PICK d \in U : TRUE
      OBVIOUS
    <2>2. d.height \in S
      BY <2>1
    <2> QED BY <2>2
  <1>4. PICK x \in S : \A y \in S : y <= x
    <2> HIDE DEF S
    <2> QED BY <1>2, <1>3, Greatest
  <1>5. PICK d \in U : d.height = x
    BY <1>4
  <1>6. \A e \in U : e.height <= d.height
    BY <1>4, <1>5
  <1>7. d \in Newest(D, slot, height)
    BY <1>5, <1>6 DEF Newest
  <1> QED BY <1>7

\* A true diff at a height covers it.
LEMMA CoveredAt ==
  ASSUME NEW D, NEW c, NEW n \in D, AllTrue(D, c)
  PROVE  Covered(D, c, n.slot, n.height)
PROOF
  <1>1. n \in Diffs /\ n.height \in Nat
    BY ChainAssumption DEF AllTrue, Diffs
  <1>2. n \in UpTo(D, n.slot, n.height)
    BY <1>1 DEF UpTo
  <1>3. ASSUME NEW d \in Newest(D, n.slot, n.height)
        PROVE  d.value = c[n.slot][n.height]
    <2>1. d \in D /\ d.slot = n.slot /\ d.height <= n.height /\ n.height <= d.height
      BY <1>2 DEF Newest, UpTo
    <2>2. d.height \in Nat
      BY <2>1, ChainAssumption DEF AllTrue, Diffs
    <2>3. d.height = n.height
      BY <1>1, <2>1, <2>2
    <2> QED BY <2>1, <2>3 DEF AllTrue
  <1> QED BY <1>2, <1>3 DEF Covered

\* A true diff leaves what is covered covered, if its own height is.
LEMMA AddKeeps ==
  ASSUME NEW D, NEW c, NEW n \in Diffs, AllTrue(D \cup {n}, c),
         NEW slot, NEW height \in Heights, Covered(D, c, slot, height),
         n.slot = slot /\ n.height < height => Covered(D, c, n.slot, n.height)
  PROVE  Covered(D \cup {n}, c, slot, height)
PROOF
  <1> DEFINE E == D \cup {n}
  <1>1. /\ n.height \in Heights /\ n.height \in Nat /\ height \in Nat
        /\ AllTrue(D, c) /\ D \subseteq Diffs
    BY ChainAssumption DEF Diffs, AllTrue
  <1>2. CASE n.slot # slot \/ n.height > height
    <2>1. ~(n.slot = slot /\ n.height <= height)
      BY <1>1, <1>2
    <2>2. UpTo(E, slot, height) = UpTo(D, slot, height)
      BY <2>1 DEF UpTo
    <2>3. Newest(E, slot, height) = Newest(D, slot, height)
      BY <2>2 DEF Newest
    <2> QED BY <2>2, <2>3 DEF Covered
  <1>3. CASE n.slot = slot /\ n.height = height
    BY <1>3, CoveredAt
  <1>4. CASE n.slot = slot /\ n.height < height
    <2>1. Covered(D, c, slot, n.height)
      BY <1>4
    <2>2. n \in UpTo(E, slot, height)
      BY <1>1, <1>4 DEF UpTo
    <2>3. ASSUME NEW d \in Newest(E, slot, height)
          PROVE  d.value = c[slot][height]
      <3>1. /\ d \in E /\ d.slot = slot /\ d.height <= height /\ n.height <= d.height
            /\ d.height \in Nat
        BY <1>1, <2>2, ChainAssumption DEF Newest, UpTo, Diffs
      <3>2. CASE n.height < d.height
        <4>1. d \in D
          BY <1>1, <3>1, <3>2
        <4>2. d \in Newest(D, slot, height)
          BY <4>1 DEF Newest, UpTo
        <4> QED BY <4>2 DEF Covered
      <3>3. CASE n.height = d.height
        <4>1. d.value = c[slot][n.height]
          BY <3>1, <3>3 DEF AllTrue
        <4>2. \A e \in UpTo(D, slot, height) : e.height <= n.height
          BY <3>3 DEF Newest, UpTo
        <4>3. UpTo(D, slot, height) = UpTo(D, slot, n.height)
          <5>1. ASSUME NEW e \in D, e.slot = slot
                PROVE  e.height <= height <=> e.height <= n.height
            <6>1. e.height \in Nat
              BY <1>1, ChainAssumption DEF Diffs
            <6>2. e.height <= height => e \in UpTo(D, slot, height)
              BY <5>1 DEF UpTo
            <6> QED BY <1>1, <1>4, <4>2, <6>1, <6>2
          <5> QED BY <5>1 DEF UpTo
        <4>4. Newest(D, slot, height) = Newest(D, slot, n.height)
          BY <4>3 DEF Newest
        <4>5. CASE UpTo(D, slot, height) = {}
          BY <2>1, <4>1, <4>3, <4>5 DEF Covered
        <4>6. CASE UpTo(D, slot, height) # {}
          <5>1. PICK m \in Newest(D, slot, height) : TRUE
            BY <1>1, <4>6, NewestExists
          <5>2. m.value = c[slot][height] /\ m.value = c[slot][n.height]
            BY <2>1, <4>4, <5>1 DEF Covered
          <5> QED BY <4>1, <5>2
        <4> QED BY <4>5, <4>6
      <3> QED BY <1>1, <3>1, <3>2, <3>3
    <2> QED BY <2>2, <2>3 DEF Covered
  <1> QED BY <1>1, <1>2, <1>3, <1>4

-----------------------------------------------------------------------------
(* The inductive invariant.                                                *)

\* A call of a pass, and that the diffs agree with the chain about it.
Agreed(s, i) == Covered(diffs, chain, Pass[s][i][1], Pass[s][i][2])

\* A pass that is ascending or undisturbed: what it has gone by agrees, and so
\* does the call under way if it is going to store nothing.
Kept(s) ==
  Ascending(s) \/ still[s] =>
    /\ \A i \in 1 .. next[s] - 1 : Agreed(s, i)
    /\ Busy(s) /\ last[s] # Unread /\ Known(s) => Agreed(s, next[s])

Inv ==
  /\ TypeOK
  /\ AllTrue(diffs, chain)
  /\ \A s \in Sessions : (~Busy(s) => last[s] = Unread) /\ Kept(s)

\* A pass is a sequence of slots and heights.
LEMMA PassTypes ==
  ASSUME NEW s \in Sessions
  PROVE  /\ Len(Pass[s]) \in Nat
         /\ \A i \in 1 .. Len(Pass[s]) :
              /\ Pass[s][i][1] \in Slots /\ Pass[s][i][2] \in Heights
              /\ Pass[s][i] = <<Pass[s][i][1], Pass[s][i][2]>>
PROOF
  <1>1. Pass[s] \in Seq(Slots \X Heights)
    BY PassAssumption
  <1>2. \A i \in 1 .. Len(Pass[s]) : Pass[s][i] \in Slots \X Heights
    BY <1>1
  <1> QED BY <1>1, <1>2

\* What the last diff says is what the diffs cover.
LEMMA FaithfulIsCovered ==
  ASSUME TypeOK, AllTrue(diffs, chain), NEW slot \in Slots, NEW height \in Heights
  PROVE  Faithful(slot, height) <=> Covered(diffs, chain, slot, height)
PROOF
  <1> DEFINE U == UpTo(diffs, slot, height)
             N == Newest(diffs, slot, height)
             v == LastStorageValue(slot, height)
  <1>1. Earlier(slot, height) = U
    BY DEF Earlier, UpTo
  <1>2. CASE U = {}
    <2>1. v = Null
      BY <1>1, <1>2 DEF LastStorageValue
    <2>2. N = {}
      BY <1>2 DEF Newest
    <2> QED BY <1>2, <2>1, <2>2 DEF Faithful, ValueAt, Covered
  <1>3. CASE U # {}
    <2>1. N # {}
      BY <1>3, NewestExists DEF TypeOK
    <2> DEFINE d == CHOOSE x \in U : \A e \in U : e.height <= x.height
    <2>2. v = d.value
      BY <1>1, <1>3 DEF LastStorageValue
    <2>3. d \in N
      BY <2>1 DEF Newest
    <2>4. \A e \in N : e \in diffs /\ e \in Diffs /\ e.slot = slot
      BY DEF Newest, UpTo, AllTrue
    <2>5. \A e \in N : e.height = d.height
      <3> TAKE e \in N
      <3>1. e.height <= d.height /\ d.height <= e.height
        BY <2>3 DEF Newest
      <3>2. e.height \in Nat /\ d.height \in Nat
        BY <2>3, <2>4, ChainAssumption DEF Diffs
      <3> HIDE DEF d
      <3> QED BY <3>1, <3>2
    <2>6. \A e \in N : e.value = v
      <3> TAKE e \in N
      <3>1. e.value = chain[slot][e.height] /\ d.value = chain[slot][d.height]
        BY <2>3, <2>4 DEF AllTrue
      <3> QED BY <2>2, <2>5, <3>1
    <2>7. v \in Values /\ v # Null
      BY <2>2, <2>3, <2>4, ChainAssumption DEF Diffs
    <2>8. Faithful(slot, height) <=> v = chain[slot][height]
      BY <2>7 DEF Faithful, ValueAt
    <2> QED BY <1>3, <2>1, <2>6, <2>8 DEF Covered
  <1> QED BY <1>2, <1>3

LEMMA InvInit == Init => Inv
PROOF
  <1> SUFFICES ASSUME Init PROVE Inv
    OBVIOUS
  <1>1. \A s \in Sessions : Len(Pass[s]) \in Nat
    BY PassTypes
  <1>2. TypeOK
    BY <1>1, PassAssumption DEF Init, TypeOK
  <1>3. AllTrue(diffs, chain)
    BY DEF Init, AllTrue, True
  <1>4. \A s \in Sessions : ~Busy(s) /\ last[s] = Unread /\ 1 .. next[s] - 1 = {}
    BY <1>1 DEF Init, Busy
  <1> QED BY <1>2, <1>3, <1>4 DEF Inv, Kept

\* Where the diffs stay, a pass that stays where it is is kept.
LEMMA KeptStays ==
  ASSUME Inv, NEW s \in Sessions,
         chain' = chain, diffs' = diffs, next'[s] = next[s], last'[s] = last[s],
         still'[s] = still[s]
  PROVE  (~Busy(s) => last[s] = Unread)' /\ Kept(s)'
PROOF
  <1>1. Busy(s)' = Busy(s) /\ Slot(s)' = Slot(s) /\ Height(s)' = Height(s)
    BY DEF Busy, Slot, Height
  <1>2. Known(s)' = Known(s)
    BY <1>1 DEF Known, Value
  <1>3. \A i : Agreed(s, i)' = Agreed(s, i)
    BY DEF Agreed
  <1>4. Ascending(s)' = Ascending(s)
    BY DEF Ascending
  <1>5. (~Busy(s) => last[s] = Unread) /\ Kept(s)
    BY DEF Inv
  <1> QED BY <1>1, <1>2, <1>3, <1>4, <1>5 DEF Kept

LEMMA ReadKeeps == ASSUME Inv, NEW s \in Sessions, Read(s) PROVE Inv'
PROOF
  <1>1. /\ Busy(s) /\ last[s] = Unread
        /\ last' = [last EXCEPT ![s] = LastStorageValue(Slot(s), Height(s))]
        /\ UNCHANGED <<chain, diffs, next, passes, still>>
    BY DEF Read
  <1>2. TypeOK /\ AllTrue(diffs, chain) /\ next[s] \in 1 .. Len(Pass[s])
    BY <1>1 DEF Inv, Busy
  <1>3. Slot(s) \in Slots /\ Height(s) \in Heights
    BY <1>2, PassTypes DEF Slot, Height
  <1> DEFINE v == LastStorageValue(Slot(s), Height(s))
  <1>4. v \in Values \cup {Null}
    <2>1. CASE Earlier(Slot(s), Height(s)) = {}
      BY <2>1 DEF LastStorageValue
    <2>2. CASE Earlier(Slot(s), Height(s)) # {}
      <3>1. PICK d \in Newest(diffs, Slot(s), Height(s)) : TRUE
        BY <1>2, <1>3, <2>2, NewestExists DEF TypeOK, Earlier, UpTo
      <3> DEFINE e == CHOOSE x \in Earlier(Slot(s), Height(s)) :
                        \A y \in Earlier(Slot(s), Height(s)) : y.height <= x.height
      <3>2. e \in Earlier(Slot(s), Height(s))
        BY <3>1 DEF Newest, UpTo, Earlier
      <3>3. e \in Diffs
        BY <1>2, <3>2 DEF Earlier, TypeOK
      <3>4. v = e.value
        BY <2>2 DEF LastStorageValue
      <3> HIDE DEF e, v
      <3> QED BY <3>3, <3>4 DEF Diffs
    <2> QED BY <2>1, <2>2
  <1>5. TypeOK'
    BY <1>1, <1>2, <1>4 DEF TypeOK
  <1>6. AllTrue(diffs, chain)'
    BY <1>1, <1>2 DEF AllTrue
  <1>7. ASSUME NEW t \in Sessions
        PROVE  (~Busy(t) => last[t] = Unread)' /\ Kept(t)'
    <2>1. CASE t # s
      BY <1>1, <1>2, <2>1, KeptStays DEF TypeOK
    <2>2. CASE t = s
      <3>1. Busy(s)' /\ Kept(s)
        BY <1>1 DEF Busy, Inv
      <3>2. \A i : Agreed(s, i)' = Agreed(s, i)
        BY <1>1 DEF Agreed
      <3>3. Ascending(s)' = Ascending(s) /\ next'[s] = next[s] /\ still'[s] = still[s]
        BY <1>1 DEF Ascending
      <3>4. ASSUME Known(s)' PROVE Agreed(s, next[s])
        <4>1. last'[s] = v
          BY <1>1, <1>2 DEF TypeOK
        <4>2. v = Value(s) \/ (v = Null /\ Value(s) = Empty)
          BY <1>1, <3>4, <4>1 DEF Known, Value, Slot, Height
        <4>3. Value(s) \in Values
          BY <1>2, <1>3 DEF Value, TypeOK
        <4>4. Faithful(Slot(s), Height(s))
          BY <4>2, <4>3, ChainAssumption DEF Faithful, ValueAt, Value
        <4>5. Covered(diffs, chain, Slot(s), Height(s))
          BY <1>2, <1>3, <4>4, FaithfulIsCovered
        <4> QED BY <4>5 DEF Agreed, Slot, Height
      <3> QED BY <2>2, <3>1, <3>2, <3>3, <3>4 DEF Kept
    <2> QED BY <2>1, <2>2
  <1> QED BY <1>5, <1>6, <1>7 DEF Inv

\* Sessions whose pass begins or ends in between.
LEMMA RestKeeps == ASSUME Inv, NEW s \in Sessions, Abandon(s) \/ Begin(s) PROVE Inv'
PROOF
  <1>1. /\ UNCHANGED <<chain, diffs>>
        /\ next' = [next EXCEPT ![s] = 0] \/ next' = [next EXCEPT ![s] = 1]
    BY DEF Abandon, Begin
  <1>2. TypeOK /\ AllTrue(diffs, chain) /\ Len(Pass[s]) \in Nat
    BY PassTypes DEF Inv
  <1>3. TypeOK'
    <2>1. CASE Abandon(s)
      BY <1>2, <2>1 DEF TypeOK, Abandon
    <2>2. CASE Begin(s)
      BY <1>2, <2>2, PassAssumption DEF TypeOK, Begin
    <2> QED BY <2>1, <2>2
  <1>4. AllTrue(diffs, chain)'
    BY <1>1, <1>2 DEF AllTrue
  <1>5. ASSUME NEW t \in Sessions
        PROVE  (~Busy(t) => last[t] = Unread)' /\ Kept(t)'
    <2>1. CASE t # s
      <3>1. next'[t] = next[t] /\ last'[t] = last[t] /\ still'[t] = still[t]
        BY <1>2, <2>1 DEF TypeOK, Abandon, Begin
      <3> QED BY <1>1, <3>1, KeptStays
    <2>2. CASE t = s
      <3>1. last'[s] = Unread
        BY <1>2 DEF TypeOK, Abandon, Begin, Inv
      <3>2. next'[s] \in {0, 1}
        BY <1>1, <1>2 DEF TypeOK
      <3>3. 1 .. next'[s] - 1 = {}
        BY <3>2
      <3> QED BY <2>2, <3>1, <3>3 DEF Kept
    <2> QED BY <2>1, <2>2
  <1> QED BY <1>3, <1>4, <1>5 DEF Inv

\* A diff that is stored leaves alone what an ascending pass has gone by: it is at
\* a height above, or at one the pass has gone by as well.
LEMMA AddKeepsAgreed ==
  ASSUME Inv, NEW s \in Sessions, Ascending(s), chain' = chain,
         NEW n \in Diffs, diffs' = diffs \cup {n}, AllTrue(diffs', chain),
         NEW i \in 1 .. Len(Pass[s]), i <= next[s], Agreed(s, i)
  PROVE  Agreed(s, i)'
PROOF
  <1> DEFINE slot == Pass[s][i][1]
             height == Pass[s][i][2]
  <1>1. slot \in Slots /\ height \in Heights /\ Len(Pass[s]) \in Nat /\ next[s] \in Nat
    BY PassTypes DEF Inv, TypeOK
  <1>2. ASSUME n.slot = slot, n.height < height
        PROVE  Covered(diffs, chain, n.slot, n.height)
    <2>1. n.height \in Heights
      BY DEF Diffs
    <2>2. PICK j \in 1 .. i - 1 : Pass[s][j] = <<slot, n.height>>
      BY <1>2, <2>1 DEF Ascending
    <2>3. j \in 1 .. next[s] - 1
      BY <1>1, <2>2
    <2>4. Agreed(s, j)
      BY <2>3 DEF Inv, Kept
    <2> QED BY <1>2, <2>2, <2>4 DEF Agreed
  <1>3. Covered(diffs, chain, slot, height)
    BY DEF Agreed
  <1> HIDE DEF slot, height
  <1>4. Covered(diffs', chain, slot, height)
    BY <1>1, <1>2, <1>3, AddKeeps
  <1> QED BY <1>4 DEF Agreed, slot, height

LEMMA WriteKeeps == ASSUME Inv, NEW s \in Sessions, Write(s) PROVE Inv'
PROOF
  <1> DEFINE n == [slot |-> Slot(s), height |-> Height(s), value |-> Value(s)]
  <1>1. /\ Busy(s) /\ last[s] # Unread
        /\ diffs' = IF Known(s) THEN diffs ELSE diffs \cup {n}
        /\ still' = [t \in Sessions |-> still[t] /\ diffs' = diffs]
        /\ next' = [next EXCEPT ![s] = @ + 1]
        /\ last' = [last EXCEPT ![s] = Unread]
        /\ UNCHANGED <<chain, passes>>
    BY DEF Write
  <1>2. /\ TypeOK /\ AllTrue(diffs, chain)
        /\ next[s] \in 1 .. Len(Pass[s]) /\ next[s] \in Nat /\ Len(Pass[s]) \in Nat
    BY <1>1, PassTypes DEF Inv, Busy
  <1>3. Slot(s) \in Slots /\ Height(s) \in Heights /\ Value(s) \in Values
    BY <1>2, PassTypes DEF Slot, Height, Value, TypeOK
  <1>4. n \in Diffs /\ chain[n.slot][n.height] = n.value
    BY <1>3 DEF Diffs, Value
  <1>5. AllTrue(diffs', chain)
    BY <1>1, <1>2, <1>4 DEF AllTrue
  <1>6. /\ next'[s] = next[s] + 1 /\ last'[s] = Unread
        /\ \A t \in Sessions \ {s} : next'[t] = next[t] /\ last'[t] = last[t]
    BY <1>1, <1>2 DEF TypeOK
  <1>7. TypeOK'
    <2>1. diffs' \subseteq Diffs
      BY <1>5 DEF AllTrue
    <2>2. next' \in [Sessions -> Nat] /\ \A t \in Sessions : next'[t] <= Len(Pass[t]) + 1
      BY <1>1, <1>2, <1>6 DEF TypeOK
    <2>3. still' \in [Sessions -> BOOLEAN]
      BY <1>1, <1>2 DEF TypeOK
    <2> QED BY <1>1, <1>2, <2>1, <2>2, <2>3 DEF TypeOK
  <1>8. \A t \in Sessions : Ascending(t)' = Ascending(t) /\ (still'[t] => still[t])
    BY <1>1 DEF Ascending
  \* The call of s itself agrees now.
  <1>9. ASSUME NEW i, i = next[s], Ascending(s) \/ still'[s]
        PROVE  Agreed(s, i)'
    <2>1. CASE Known(s)
      <3>1. Agreed(s, i)
        BY <1>1, <1>8, <1>9, <2>1 DEF Inv, Kept
      <3>2. diffs' = diffs /\ chain' = chain
        BY <1>1, <2>1
      <3> QED BY <3>1, <3>2 DEF Agreed
    <2>2. CASE ~Known(s)
      <3>1. n \in diffs'
        BY <1>1, <2>2
      <3>2. Covered(diffs', chain, n.slot, n.height)
        <4> HIDE DEF n
        <4> QED BY <1>5, <3>1, CoveredAt
      <3> QED BY <1>1, <1>9, <3>2 DEF Agreed, Slot, Height
    <2> QED BY <2>1, <2>2
  \* What agreed before still does.
  <1>10. ASSUME NEW t \in Sessions, Ascending(t) \/ still'[t],
                NEW i \in 1 .. Len(Pass[t]), i <= next[t], Agreed(t, i)
         PROVE  Agreed(t, i)'
    <2>1. CASE diffs' = diffs
      BY <1>1, <1>10, <2>1 DEF Agreed
    <2>2. CASE diffs' # diffs
      <3>1. Ascending(t) /\ diffs' = diffs \cup {n}
        BY <1>1, <1>10, <2>2
      <3> HIDE DEF n
      <3> QED BY <1>1, <1>4, <1>5, <1>10, <3>1, AddKeepsAgreed
    <2> QED BY <2>1, <2>2
  <1>11. ASSUME NEW t \in Sessions
         PROVE  (~Busy(t) => last[t] = Unread)' /\ Kept(t)'
    <2>1. next[t] \in Nat /\ next[t] <= Len(Pass[t]) + 1 /\ Len(Pass[t]) \in Nat
      BY <1>2, PassTypes DEF TypeOK
    <2>2. ASSUME Ascending(t) \/ still'[t], NEW i \in 1 .. next[t] - 1
          PROVE  Agreed(t, i)'
      <3>1. i \in 1 .. Len(Pass[t]) /\ i <= next[t]
        BY <2>1
      <3>2. Agreed(t, i)
        BY <1>8, <2>2 DEF Inv, Kept
      <3> QED BY <1>10, <2>2, <3>1, <3>2
    <2>3. CASE t # s
      <3>1. /\ Busy(t)' = Busy(t) /\ next'[t] = next[t] /\ last'[t] = last[t]
            /\ Known(t)' = Known(t)
        BY <1>1, <1>6, <2>3 DEF Busy, Known, Value, Slot, Height
      <3>2. ASSUME Ascending(t) \/ still'[t], Busy(t), last[t] # Unread, Known(t),
                   NEW i, i = next[t]
            PROVE  Agreed(t, i)'
        <4>1. Agreed(t, i) /\ i \in 1 .. Len(Pass[t]) /\ i <= next[t]
          BY <1>8, <2>1, <3>2 DEF Inv, Kept, Busy
        <4> QED BY <1>10, <3>2, <4>1
      <3>3. ~Busy(t) => last[t] = Unread
        BY DEF Inv
      <3>4. (~Busy(t) => last[t] = Unread)'
        BY <3>1, <3>3
      <3>5. Kept(t)'
        <4>1. ASSUME Ascending(t) \/ still'[t] PROVE \A i \in 1 .. next[t] - 1 : Agreed(t, i)'
          BY <2>2, <4>1
        <4> QED BY <1>8, <3>1, <3>2, <4>1 DEF Kept
      <3> QED BY <3>4, <3>5
    <2>4. CASE t = s
      <3>1. \A i \in 1 .. next'[s] - 1 : i \in 1 .. next[s] - 1 \/ i = next[s]
        BY <1>2, <1>6
      <3>2. Ascending(s) \/ still'[s] => \A i \in 1 .. next'[s] - 1 : Agreed(s, i)'
        BY <1>9, <2>2, <2>4, <3>1
      <3>3. Kept(s)'
        BY <1>6, <1>8, <3>2 DEF Kept
      <3> QED BY <1>6, <2>4, <3>3
    <2> QED BY <2>3, <2>4
  <1>12. AllTrue(diffs, chain)'
    BY <1>1, <1>5 DEF AllTrue
  <1> QED BY <1>7, <1>11, <1>12 DEF Inv

LEMMA InvStep == Inv /\ [Next]_vars => Inv'
PROOF
  <1> SUFFICES ASSUME Inv, [Next]_vars PROVE Inv'
    OBVIOUS
  <1>1. CASE UNCHANGED vars
    <2>1. \A s \in Sessions : (~Busy(s) => last[s] = Unread)' /\ Kept(s)'
      BY <1>1, KeptStays DEF vars
    <2>2. TypeOK' /\ AllTrue(diffs, chain)'
      BY <1>1 DEF Inv, TypeOK, AllTrue, vars
    <2> QED BY <2>1, <2>2 DEF Inv
  <1>2. ASSUME NEW s \in Sessions, Read(s) PROVE Inv'
    BY <1>2, ReadKeeps
  <1>3. ASSUME NEW s \in Sessions, Write(s) PROVE Inv'
    BY <1>3, WriteKeeps
  <1>4. ASSUME NEW s \in Sessions, Abandon(s) \/ Begin(s) PROVE Inv'
    BY <1>4, RestKeeps
  <1> QED BY <1>1, <1>2, <1>3, <1>4 DEF Next

-----------------------------------------------------------------------------
(* Theorems.                                                               *)

\* The invariant holds in every behaviour.
THEOREM Invariance == Spec => []Inv
PROOF
  <1> QED BY InvInit, InvStep, PTL DEF Spec

\* Type correctness of create_back_filled_diff for any sessions and passes.
THEOREM TypeCorrect == Spec => []TypeOK
PROOF
  <1>1. Inv => TypeOK
    BY DEF Inv
  <1> QED BY <1>1, Invariance, PTL

\* Whatever else is stored at the same time, what an ascending pass has gone by is
\* as the chain says (vulcanize_schema.sql:54-78).
THEOREM AscendingPassesAreFaithful == Spec => []AscendingFaithful
PROOF
  <1>1. Inv => AscendingFaithful
    <2> SUFFICES ASSUME Inv, NEW s \in Sessions, Ascending(s),
                        NEW i \in 1 .. next[s] - 1
                 PROVE  Faithful(Pass[s][i][1], Pass[s][i][2])
      BY DEF AscendingFaithful
    <2>1. i \in 1 .. Len(Pass[s]) /\ Agreed(s, i) /\ TypeOK /\ AllTrue(diffs, chain)
      BY PassTypes DEF Inv, Kept, TypeOK
    <2> QED BY <2>1, PassTypes, FaithfulIsCovered DEF Agreed
  <1> QED BY <1>1, Invariance, PTL

\* A pass in any order during which nobody stored anything leaves everything it
\* went by as the chain says.
THEOREM StillPassesAreFaithful == Spec => []StillMeansFaithful
PROOF
  <1>1. Inv => StillMeansFaithful
    <2> SUFFICES ASSUME Inv, NEW s \in Sessions, next[s] > Len(Pass[s]), still[s],
                        NEW i \in 1 .. Len(Pass[s])
                 PROVE  Faithful(Pass[s][i][1], Pass[s][i][2])
      BY DEF StillMeansFaithful
    <2>1. i \in 1 .. next[s] - 1
      BY PassTypes DEF Inv, TypeOK
    <2>2. Agreed(s, i) /\ TypeOK /\ AllTrue(diffs, chain)
      BY <2>1 DEF Inv, Kept
    <2> QED BY <2>2, PassTypes, FaithfulIsCovered DEF Agreed
  <1> QED BY <1>1, Invariance, PTL
=============================================================================

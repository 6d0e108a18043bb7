------------------------- MODULE GoModerator_proofs -------------------------
(* What a run of gomoderator.py means when it exits with 0. *)
EXTENDS GoModerator, BasicTheorems, TLAPS

-----------------------------------------------------------------------------
(* Versions.                                                                *)

\* A version that is the highest of its kind.
LEMMA GreatestVersion ==
  ASSUME NEW T \in SUBSET Versions, T # {}
  PROVE  \E x \in T : \A y \in T : y <= x
<1> DEFINE Below == {MaxVersion - v : v \in T}
<1>1. \A v \in T : v \in Nat /\ MaxVersion - v \in Nat
  BY DepsAssumption DEF Versions
<1>2. Below \in SUBSET Nat /\ Below # {}
  BY <1>1
<1>3. PICK x \in Below : \A y \in Below : x <= y
  <2> HIDE DEF Below
  <2> QED
    BY <1>2, LeastNumber
<1>4. PICK v \in T : x = MaxVersion - v
  OBVIOUS
<1>5. ASSUME NEW w \in T PROVE w <= v
  <2>1. x <= MaxVersion - w
    BY <1>3
  <2> QED
    BY <2>1, <1>1, <1>4, DepsAssumption
<1> QED
  BY <1>5

-----------------------------------------------------------------------------
(* What is reached.  The levels of Reached are defined recursively, so it   *)
(* has to be shown that there is a function as its definition demands.      *)

Further(requires, S) == UNION {{m} \cup requires[m] : m \in S}

Levels(requires, first, n) ==
  {h \in [0 .. n -> SUBSET Modules] :
     h[0] = first /\ \A i \in 1 .. n : h[i] = Further(requires, h[i - 1])}

LEMMA FurtherTyping ==
  ASSUME NEW requires \in [Modules -> SUBSET Modules], NEW S \in SUBSET Modules
  PROVE  Further(requires, S) \in SUBSET Modules
  BY DEF Further

LEMMA LevelsExist ==
  ASSUME NEW requires \in [Modules -> SUBSET Modules], NEW first \in SUBSET Modules
  PROVE  \A n \in Nat : Levels(requires, first, n) # {}
<1> DEFINE T == {n \in Nat : Levels(requires, first, n) # {}}
<1>1. 0 \in T
  <2>1. [i \in 0 .. 0 |-> first] \in Levels(requires, first, 0)
    BY DEF Levels
  <2> QED
    BY <2>1
<1>2. ASSUME NEW n \in Nat, n \in T PROVE n + 1 \in T
  <2>1. PICK h : h \in Levels(requires, first, n)
    BY <1>2
  <2>2. /\ h \in [0 .. n -> SUBSET Modules] /\ h[0] = first
        /\ \A i \in 1 .. n : h[i] = Further(requires, h[i - 1])
    BY <2>1 DEF Levels
  <2> DEFINE g == [i \in 0 .. n + 1 |-> IF i = n + 1 THEN Further(requires, h[n]) ELSE h[i]]
  <2>3. h[n] \in SUBSET Modules /\ Further(requires, h[n]) \in SUBSET Modules
    BY <2>2, FurtherTyping
  <2>4. g \in [0 .. n + 1 -> SUBSET Modules] /\ g[0] = first
    BY <2>2, <2>3
  <2>5. ASSUME NEW i \in 1 .. n + 1 PROVE g[i] = Further(requires, g[i - 1])
    <3>1. g[i - 1] = h[i - 1]
      OBVIOUS
    <3>2. CASE i = n + 1
      BY <3>1, <3>2
    <3>3. CASE i # n + 1
      <4>1. i \in 1 .. n /\ g[i] = h[i]
        BY <3>3
      <4> QED
        BY <4>1, <3>1, <2>2
    <3> QED
      BY <3>2, <3>3
  <2>6. g \in Levels(requires, first, n + 1)
    BY <2>4, <2>5 DEF Levels
  <2> QED
    BY <2>6
<1>3. Nat \subseteq T
  <2> HIDE DEF T
  <2> QED
    BY <1>1, <1>2, Induction
<1> QED
  BY <1>3

LEMMA LevelsAgree ==
  ASSUME NEW requires, NEW first, NEW n \in Nat, NEW k \in Nat,
         NEW h \in Levels(requires, first, n), NEW g \in Levels(requires, first, k)
  PROVE  \A i \in Nat : i <= n /\ i <= k => h[i] = g[i]
<1> DEFINE T == {i \in Nat : i <= n /\ i <= k => h[i] = g[i]}
<1>1. 0 \in T
  BY DEF Levels
<1>2. ASSUME NEW i \in Nat, i \in T PROVE i + 1 \in T
  <2> SUFFICES ASSUME i + 1 <= n, i + 1 <= k PROVE h[i + 1] = g[i + 1]
    OBVIOUS
  <2>1. h[i] = g[i]
    BY <1>2
  <2>2. i + 1 \in 1 .. n /\ i + 1 \in 1 .. k /\ (i + 1) - 1 = i
    OBVIOUS
  <2>3. h[i + 1] = Further(requires, h[i]) /\ g[i + 1] = Further(requires, g[i])
    BY <2>2 DEF Levels
  <2> QED
    BY <2>1, <2>3
<1>3. Nat \subseteq T
  <2> HIDE DEF T
  <2> QED
    BY <1>1, <1>2, Induction
<1> QED
  BY <1>3

\* The recursion has a solution.
LEMMA SolutionExists ==
  ASSUME NEW requires \in [Modules -> SUBSET Modules], NEW first \in SUBSET Modules
  PROVE  \E r : r = [n \in Nat |-> IF n = 0 THEN first ELSE Further(requires, r[n - 1])]
<1> DEFINE level(n) == CHOOSE h : h \in Levels(requires, first, n)
           r == [n \in Nat |-> level(n)[n]]
<1>1. \A n \in Nat : level(n) \in Levels(requires, first, n)
  BY LevelsExist
<1>2. ASSUME NEW n \in Nat
      PROVE  r[n] = IF n = 0 THEN first ELSE Further(requires, r[n - 1])
  <2> HIDE DEF level
  <2>1. CASE n = 0
    BY <1>1, <2>1 DEF Levels
  <2>2. CASE n # 0
    <3>1. n - 1 \in Nat /\ n \in 1 .. n
      BY <2>2
    <3>2. level(n)[n - 1] = level(n - 1)[n - 1]
      BY <1>1, <3>1, LevelsAgree
    <3>3. level(n)[n] = Further(requires, level(n)[n - 1])
      BY <1>1, <3>1 DEF Levels
    <3> QED
      BY <2>2, <3>1, <3>2, <3>3
  <2> QED
    BY <2>1, <2>2
<1> HIDE DEF level
<1> QED
  BY <1>2

\* Whatever solves it stays within the modules.
LEMMA SolutionTyping ==
  ASSUME NEW requires \in [Modules -> SUBSET Modules], NEW first \in SUBSET Modules,
         NEW r, r = [n \in Nat |-> IF n = 0 THEN first ELSE Further(requires, r[n - 1])]
  PROVE  \A n \in Nat : r[n] \in SUBSET Modules /\ first \subseteq r[n]
<1> DEFINE T == {n \in Nat : r[n] \in SUBSET Modules /\ first \subseteq r[n]}
<1>1. 0 \in T
  <2>1. r[0] = first
    OBVIOUS
  <2> QED
    BY <2>1
<1>2. ASSUME NEW n \in Nat, n \in T PROVE n + 1 \in T
  <2>1. r[n + 1] = Further(requires, r[n])
    OBVIOUS
  <2>2. first \subseteq Further(requires, r[n])
    BY <1>2 DEF Further
  <2> QED
    BY <1>2, <2>1, <2>2, FurtherTyping
<1>3. Nat \subseteq T
  <2> HIDE DEF T
  <2> QED
    BY <1>1, <1>2, Induction
<1> QED
  BY <1>3

\* Every level is in the next, so they grow until nothing more is reached; there
\* are no more steps to that than modules.
LEMMA LevelsSettle ==
  ASSUME NEW requires \in [Modules -> SUBSET Modules], NEW first \in SUBSET Modules,
         NEW r, r = [n \in Nat |-> IF n = 0 THEN first ELSE Further(requires, r[n - 1])]
  PROVE  Further(requires, r[Cardinality(Modules)]) = r[Cardinality(Modules)]
<1> DEFINE T == {n \in Nat : \/ Further(requires, r[n]) = r[n]
                             \/ n <= Cardinality(r[n])}
<1>1. IsFiniteSet(Modules) /\ Cardinality(Modules) \in Nat
  <2>1. IsFiniteSet(Versions)
    BY FS_Interval, DepsAssumption DEF Versions
  <2> QED
    BY <2>1, FS_Product, FS_CardinalityType, DepsAssumption DEF Modules
<1>2. \A n \in Nat : r[n] \in SUBSET Modules
  BY SolutionTyping
<1>3. \A n \in Nat : IsFiniteSet(r[n]) /\ Cardinality(r[n]) \in Nat
  BY <1>1, <1>2, FS_Subset, FS_CardinalityType
<1>4. \A n \in Nat : r[n + 1] = Further(requires, r[n]) /\ r[n] \subseteq r[n + 1]
  <2>1. \A n \in Nat : r[n + 1] = Further(requires, r[n])
    OBVIOUS
  <2> QED
    BY <2>1 DEF Further
<1>5. 0 \in T
  BY <1>3
<1>6. ASSUME NEW n \in Nat, n \in T PROVE n + 1 \in T
  <2>1. CASE Further(requires, r[n]) = r[n]
    BY <1>4, <2>1
  <2>2. CASE r[n + 1] # r[n] /\ n <= Cardinality(r[n])
    <3>1. Cardinality(r[n]) < Cardinality(r[n + 1])
      <4>1. r[n] \in SUBSET r[n + 1] /\ IsFiniteSet(r[n + 1])
        <5>1. n + 1 \in Nat
          OBVIOUS
        <5>2. r[n] \in SUBSET r[n + 1]
          BY <1>4
        <5> QED
          BY <1>3, <5>1, <5>2
      <4>2. /\ Cardinality(r[n]) <= Cardinality(r[n + 1])
            /\ Cardinality(r[n]) # Cardinality(r[n + 1])
        BY <2>2, <4>1, FS_Subset
      <4> QED
        BY <1>3, <4>2
    <3> QED
      BY <1>3, <2>2, <3>1
  <2> QED
    BY <1>4, <1>6, <2>1, <2>2
<1>7. Nat \subseteq T
  <2> HIDE DEF T
  <2> QED
    BY <1>5, <1>6, Induction
<1>8. CASE Cardinality(Modules) <= Cardinality(r[Cardinality(Modules)])
  <2>1. r[Cardinality(Modules)] = Modules
    BY <1>1, <1>2, <1>3, <1>8, FS_Subset
  <2>2. Further(requires, Modules) = Modules
    BY DEF Further
  <2> QED
    BY <2>1, <2>2
<1> QED
  BY <1>1, <1>7, <1>8

\* Reached is within the modules, has what go.mod requires, and whatever is
\* required by what it has.
LEMMA ReachedTyping ==
  ASSUME IsWorld(world), NEW requirements \in Partial(Deps, Versions)
  PROVE  /\ Reached(requirements) \in SUBSET Modules
         /\ Edges(requirements) \subseteq Reached(requirements)
         /\ \A m \in Reached(requirements) : world.requires[m] \subseteq Reached(requirements)
         /\ \A S \in SUBSET Modules :
              Edges(requirements) \subseteq S /\ (\A m \in S : world.requires[m] \subseteq S)
                => Reached(requirements) \subseteq S
<1> DEFINE first == Edges(requirements)
           r == CHOOSE r : r = [n \in Nat |-> IF n = 0 THEN first
                                             ELSE Further(world.requires, r[n - 1])]
<1>1. world.requires \in [Modules -> SUBSET Modules]
  BY DEF IsWorld
<1>2. first \in SUBSET Modules
  BY DEF Partial, Edges, Modules
<1>3. r = [n \in Nat |-> IF n = 0 THEN first ELSE Further(world.requires, r[n - 1])]
  <2> HIDE DEF first
  <2> QED
    BY <1>1, <1>2, SolutionExists
<1>4. Reached(requirements) = r[Cardinality(Modules)]
  BY DEF Reached, Further
<1>5. Cardinality(Modules) \in Nat
  <2>1. IsFiniteSet(Versions)
    BY FS_Interval, DepsAssumption DEF Versions
  <2> QED
    BY <2>1, FS_Product, FS_CardinalityType, DepsAssumption DEF Modules
<1> HIDE DEF first, r
<1>6. \A n \in Nat : r[n] \in SUBSET Modules /\ first \subseteq r[n]
  BY <1>1, <1>2, <1>3, SolutionTyping
<1>7. Further(world.requires, Reached(requirements)) = Reached(requirements)
  BY <1>1, <1>2, <1>3, <1>4, LevelsSettle
<1>8. ASSUME NEW S \in SUBSET Modules, first \subseteq S, \A m \in S : world.requires[m] \subseteq S
      PROVE  Reached(requirements) \subseteq S
  <2> DEFINE T == {n \in Nat : r[n] \subseteq S}
  <2>1. 0 \in T
    BY <1>3, <1>8
  <2>2. ASSUME NEW n \in Nat, n \in T PROVE n + 1 \in T
    <3>1. r[n + 1] = Further(world.requires, r[n])
      BY <1>3
    <3> QED
      BY <1>8, <2>2, <3>1 DEF Further
  <2>3. Nat \subseteq T
    <3> HIDE DEF T
    <3> QED
      BY <2>1, <2>2, Induction
  <2> QED
    BY <1>4, <1>5, <2>3
<1>9. \A m \in Reached(requirements) : world.requires[m] \subseteq Reached(requirements)
  BY <1>7 DEF Further
<1> QED
  BY <1>4, <1>5, <1>6, <1>8, <1>9 DEF first

-----------------------------------------------------------------------------
(* Build lists and what the script makes of them.                           *)

LEMMA PartialMember ==
  ASSUME NEW S, NEW T, NEW f
  PROVE  f \in Partial(S, T) <=> DOMAIN f \subseteq S /\ f \in [DOMAIN f -> T]
  BY DEF Partial

\* A build list has each module that is reached, in the highest version that is.
LEMMA SelectedTyping ==
  ASSUME IsWorld(world), NEW requirements \in Partial(Deps, Versions)
  PROVE  LET selected == Selected(requirements) IN
         /\ selected \in Partial(Deps, Versions)
         /\ DOMAIN selected = {m[1] : m \in Reached(requirements)}
         /\ \A d \in DOMAIN selected :
              /\ <<d, selected[d]>> \in Reached(requirements)
              /\ \A w \in Versions : <<d, w>> \in Reached(requirements) => w <= selected[d]
<1> DEFINE reached == Reached(requirements)
           names == {m[1] : m \in reached}
           Highest(d, v) == /\ <<d, v>> \in reached
                            /\ \A w \in Versions : <<d, w>> \in reached => w <= v
<1>1. reached \in SUBSET Modules
  BY ReachedTyping
<1>2. names \subseteq Deps
  BY <1>1 DEF Modules
<1>3. ASSUME NEW d \in names PROVE \E v \in Versions : Highest(d, v)
  <2> DEFINE T == {v \in Versions : <<d, v>> \in reached}
  <2>1. T \in SUBSET Versions /\ T # {}
    BY <1>1 DEF Modules
  <2>2. PICK v \in T : \A w \in T : w <= v
    <3> HIDE DEF T
    <3> QED
      BY <2>1, GreatestVersion
  <2> QED
    BY <2>2
<1>4. Selected(requirements) = [d \in names |-> CHOOSE v \in Versions : Highest(d, v)]
  BY DEF Selected
<1> HIDE DEF names, Highest
<1>5. \A d \in names : /\ Selected(requirements)[d] \in Versions
                       /\ Highest(d, Selected(requirements)[d])
  BY <1>3, <1>4
<1>6. Selected(requirements) \in Partial(Deps, Versions) /\ DOMAIN Selected(requirements) = names
  BY <1>2, <1>4, <1>5, PartialMember
<1> QED
  BY <1>5, <1>6 DEF names, Highest

LEMMA SelectedValues ==
  ASSUME IsWorld(world), NEW requirements \in Partial(Deps, Versions)
  PROVE  /\ Selected(requirements) \in Partial(Deps, Versions)
         /\ \A d \in DOMAIN Selected(requirements) :
              d \in Deps /\ Selected(requirements)[d] \in Versions
         /\ Selected(requirements)
              = [d \in DOMAIN Selected(requirements) |-> Selected(requirements)[d]]
<1> DEFINE selected == Selected(requirements)
<1>1. selected \in Partial(Deps, Versions)
  BY SelectedTyping
<1> HIDE DEF selected
<1>2. DOMAIN selected \subseteq Deps /\ selected \in [DOMAIN selected -> Versions]
  BY <1>1, PartialMember
<1> QED
  BY <1>1, <1>2 DEF selected

\* What is reached is in the build list, in that version or a later one.
LEMMA ReachedIsSelected ==
  ASSUME IsWorld(world), NEW requirements \in Partial(Deps, Versions),
         NEW d, NEW v, <<d, v>> \in Reached(requirements)
  PROVE  /\ d \in DOMAIN Selected(requirements)
         /\ v \in Versions /\ v <= Selected(requirements)[d]
<1>1. v \in Versions
  BY ReachedTyping DEF Modules
<1>2. d \in {m[1] : m \in Reached(requirements)}
  OBVIOUS
<1> QED
  BY <1>1, <1>2, SelectedTyping

\* Minimal version selection gives a module all that go.mod asks for.
THEOREM SelectionIsEnough ==
  ASSUME IsWorld(world), NEW requirements \in Partial(Deps, Versions)
  PROVE  \A d \in DOMAIN requirements :
           d \in DOMAIN Selected(requirements) /\ requirements[d] <= Selected(requirements)[d]
<1> SUFFICES ASSUME NEW d \in DOMAIN requirements
             PROVE  /\ d \in DOMAIN Selected(requirements)
                    /\ requirements[d] <= Selected(requirements)[d]
  OBVIOUS
<1>1. <<d, requirements[d]>> \in Reached(requirements)
  BY ReachedTyping DEF Edges
<1> QED
  BY <1>1, ReachedIsSelected

\* What is in the map of a list that could be read: what is not replaced under its
\* own name, the one module that can be replaced under that of its fork.
LEMMA MappingOfList ==
  ASSUME IsWorld(world), NEW requirements \in Partial(Deps \cup {Fork}, Versions),
         NEW replaced \in Directives, Lists(requirements, replaced)
  PROVE  LET selected == Selected(requirements)
             mapping  == map_deps_to_version(requirements, replaced)
         IN  /\ selected \in Partial(Deps, Versions)
             /\ \A d \in DOMAIN selected \cap DOMAIN replaced :
                  d = Original /\ replaced[d].name = Fork
             /\ \A d \in Deps : d \in DOMAIN mapping
                                 <=> d \in DOMAIN selected /\ d \notin DOMAIN replaced
             /\ Fork \in DOMAIN mapping
                  <=> Original \in DOMAIN selected /\ Original \in DOMAIN replaced
             /\ DOMAIN mapping \subseteq Deps \cup {Fork}
             /\ \A d \in Deps \cap DOMAIN mapping : mapping[d] = selected[d]
             /\ Fork \in DOMAIN mapping => mapping[Fork] = replaced[Original].version
             /\ mapping \in Partial(Deps \cup {Fork}, Versions)
<1> DEFINE selected == Selected(requirements)
           hidden == DOMAIN selected \cap DOMAIN replaced
           mapping == map_deps_to_version(requirements, replaced)
<1>1. requirements \in Partial(Deps, Versions)
  BY PartialMember DEF Lists
<1>2. selected \in Partial(Deps, Versions)
  BY <1>1, SelectedTyping
<1>3. DOMAIN selected \subseteq Deps /\ selected \in [DOMAIN selected -> Versions]
  BY <1>2, PartialMember
<1>4. /\ replaced \in [DOMAIN replaced -> Replacement]
      /\ \A d \in DOMAIN replaced : replaced[d].name = Fork => d = Original
  BY PartialMember DEF Directives
<1>5. \A d \in hidden : d = Original /\ replaced[d].name = Fork /\ replaced[d].version \in Versions
  BY <1>4 DEF Lists, Replacement
<1>6. mapping = [d \in (DOMAIN selected \ hidden) \cup {replaced[h].name : h \in hidden} |->
                  IF d \in DOMAIN selected THEN selected[d] ELSE replaced[Original].version]
  BY DEF map_deps_to_version, Replaced
<1>7. Fork \notin Deps /\ Original \in Deps
  BY DepsAssumption
<1> HIDE DEF selected, mapping
<1>8. DOMAIN mapping = (DOMAIN selected \ DOMAIN replaced) \cup {d \in {Fork} : Original \in hidden}
  BY <1>5, <1>6
<1>9. /\ \A d \in DOMAIN selected \ DOMAIN replaced : mapping[d] = selected[d]
      /\ Original \in hidden => mapping[Fork] = replaced[Original].version
  BY <1>3, <1>5, <1>6, <1>7, <1>8
<1>10. mapping \in [DOMAIN mapping -> Versions]
  <2>1. mapping = [d \in DOMAIN mapping |-> mapping[d]]
    BY <1>6
  <2>2. ASSUME NEW d \in DOMAIN mapping PROVE mapping[d] \in Versions
    BY <1>3, <1>5, <1>8, <1>9
  <2> QED
    BY <2>1, <2>2
<1>11. DOMAIN mapping \subseteq Deps \cup {Fork}
  BY <1>3, <1>8
<1>12. mapping \in Partial(Deps \cup {Fork}, Versions)
  BY <1>10, <1>11, PartialMember
<1>13. /\ \A d \in Deps : d \in DOMAIN mapping
                           <=> d \in DOMAIN selected /\ d \notin DOMAIN replaced
       /\ Fork \in DOMAIN mapping
            <=> Original \in DOMAIN selected /\ Original \in DOMAIN replaced
  BY <1>3, <1>7, <1>8
<1> QED
  BY <1>2, <1>5, <1>7, <1>9, <1>11, <1>12, <1>13 DEF selected, mapping

-----------------------------------------------------------------------------
(* What the comparison of the two lists says.                               *)

CoreListed == Lists(world.core, world.core_replaces)

\* The same modules are replaced in both repositories.
SameReplaced(w) == DOMAIN w.core_replaces = DOMAIN w.plugin_replaces

LEMMA CoreMapping ==
  ASSUME IsWorld(world), CoreListed
  PROVE  core_deps_mapping \in Partial(Deps \cup {Fork}, Versions)
<1>1. world.core \in Partial(Deps \cup {Fork}, Versions) /\ world.core_replaces \in Directives
  BY PartialMember DEF IsWorld
<1> QED
  BY <1>1, MappingOfList DEF CoreListed, core_deps_mapping

\* If the same modules are replaced, the comparison by name finds nothing exactly
\* when there is nothing to be found.
THEOREM ConflictsAreExact ==
  ASSUME IsWorld(world), SameReplaced(world), CoreListed, Listed,
         plugin \in Partial(Deps \cup {Fork}, Versions)
  PROVE  PluginConflicts = {} <=> InSync
<1> DEFINE core_selected == Selected(world.core)
           plugin_selected == Selected(plugin)
           core_mapping == core_deps_mapping
           plugin_mapping == map_deps_to_version(plugin, world.plugin_replaces)
           Same(d) == CodeOf(core_selected, world.core_replaces, d)
                        = CodeOf(plugin_selected, world.plugin_replaces, d)
<1>1. /\ world.core \in Partial(Deps \cup {Fork}, Versions)
      /\ world.core_replaces \in Directives /\ world.plugin_replaces \in Directives
  BY PartialMember DEF IsWorld
<1>2. /\ core_selected \in Partial(Deps, Versions) /\ plugin_selected \in Partial(Deps, Versions)
      /\ DOMAIN core_mapping \subseteq Deps \cup {Fork}
  BY <1>1, MappingOfList DEF CoreListed, Listed, core_deps_mapping
<1>3. /\ DOMAIN core_selected \subseteq Deps /\ DOMAIN plugin_selected \subseteq Deps
      /\ DOMAIN world.core_replaces = DOMAIN world.plugin_replaces
      /\ Fork \notin Deps /\ Original \in Deps
  BY <1>2, PartialMember, DepsAssumption DEF SameReplaced
<1>4. ASSUME NEW d \in Deps
      PROVE  /\ d \in DOMAIN core_mapping
                  <=> d \in DOMAIN core_selected /\ d \notin DOMAIN world.core_replaces
             /\ d \in DOMAIN plugin_mapping
                  <=> d \in DOMAIN plugin_selected /\ d \notin DOMAIN world.plugin_replaces
             /\ d \in DOMAIN core_mapping => core_mapping[d] = core_selected[d]
             /\ d \in DOMAIN plugin_mapping => plugin_mapping[d] = plugin_selected[d]
  BY <1>1, <1>4, MappingOfList DEF CoreListed, Listed, core_deps_mapping
<1>5. /\ Fork \in DOMAIN core_mapping
           <=> Original \in DOMAIN core_selected /\ Original \in DOMAIN world.core_replaces
      /\ Fork \in DOMAIN plugin_mapping
           <=> Original \in DOMAIN plugin_selected /\ Original \in DOMAIN world.plugin_replaces
      /\ Fork \in DOMAIN core_mapping =>
           core_mapping[Fork] = world.core_replaces[Original].version
      /\ Fork \in DOMAIN plugin_mapping =>
           plugin_mapping[Fork] = world.plugin_replaces[Original].version
  BY <1>1, MappingOfList DEF CoreListed, Listed, core_deps_mapping
<1>6. PluginConflicts = {d \in DOMAIN core_mapping \cap DOMAIN plugin_mapping :
                           plugin_mapping[d] # core_mapping[d]}
  BY DEF PluginConflicts, Conflicts
<1>7. InSync <=> \A d \in DOMAIN core_selected \cap DOMAIN plugin_selected : Same(d)
  BY DEF InSync
\* A module that is not replaced goes by its own name.
<1>8. ASSUME NEW d \in DOMAIN core_selected \cap DOMAIN plugin_selected,
             d \notin DOMAIN world.core_replaces
      PROVE  Same(d) <=> d \notin PluginConflicts
  <2>1. Same(d) <=> core_selected[d] = plugin_selected[d]
    BY <1>3, <1>8 DEF CodeOf
  <2> QED
    BY <2>1, <1>3, <1>4, <1>6, <1>8
\* One that is replaced is the original of the fork, and goes by that name.
<1>9. ASSUME NEW d \in DOMAIN core_selected \cap DOMAIN plugin_selected,
             d \in DOMAIN world.core_replaces
      PROVE  d = Original /\ (Same(d) <=> Fork \notin PluginConflicts)
  <2>1. /\ d = Original /\ world.core_replaces[d].name = Fork
        /\ world.plugin_replaces[d].name = Fork
    <3>1. \A e \in DOMAIN core_selected \cap DOMAIN world.core_replaces :
            e = Original /\ world.core_replaces[e].name = Fork
      BY <1>1, MappingOfList DEF CoreListed
    <3>2. \A e \in DOMAIN plugin_selected \cap DOMAIN world.plugin_replaces :
            world.plugin_replaces[e].name = Fork
      BY <1>1, MappingOfList DEF Listed
    <3> QED
      BY <1>3, <1>9, <3>1, <3>2
  <2>2. world.core_replaces[d] \in Replacement /\ world.plugin_replaces[d] \in Replacement
    BY <1>1, <1>3, <1>9, PartialMember DEF Directives
  <2>3. Same(d) <=> world.core_replaces[d].version = world.plugin_replaces[d].version
    BY <1>3, <1>9, <2>1, <2>2 DEF CodeOf, Replacement
  <2> QED
    BY <1>3, <1>5, <1>6, <1>9, <2>1, <2>3
<1> HIDE DEF core_selected, plugin_selected, core_mapping, plugin_mapping, Same
<1>10. ASSUME InSync PROVE PluginConflicts = {}
  <2> SUFFICES ASSUME NEW d \in PluginConflicts PROVE FALSE
    OBVIOUS
  <2>1. d \in DOMAIN core_mapping /\ d \in DOMAIN plugin_mapping
    BY <1>6
  <2>2. CASE d \in Deps
    BY <1>3, <1>4, <1>7, <1>8, <1>10, <2>1, <2>2
  <2>3. CASE d = Fork
    BY <1>3, <1>5, <1>7, <1>9, <1>10, <2>1, <2>3
  <2> QED
    BY <1>2, <2>1, <2>2, <2>3
<1>11. ASSUME PluginConflicts = {} PROVE InSync
  BY <1>7, <1>8, <1>9, <1>11
<1> QED
  BY <1>10, <1>11

-----------------------------------------------------------------------------
(* The inductive invariant: the script goes on only after it could read the *)
(* core's list, what is left to get is in the core's list, and a run that   *)
(* exited with 0 has just compared and found nothing.                       *)

RunInv ==
  /\ TypeOK
  /\ at \in {"edited", "getting"} => CoreListed
  /\ todo \subseteq DOMAIN core_deps_mapping
  /\ todo # {} => at = "getting"
  /\ at = "exited" /\ exit = 0 => CoreListed /\ Listed /\ PluginConflicts = {}

LEMMA WorldTyping == TypeOK => IsWorld(world)
  BY WorldsAssumption DEF TypeOK

\* Nothing is compared differently as long as neither side changes.
LEMMA SameLists ==
  /\ world' = world => CoreListed' = CoreListed /\ core_deps_mapping' = core_deps_mapping
  /\ world' = world /\ plugin' = plugin =>
       Listed' = Listed /\ PluginConflicts' = PluginConflicts
<1>1. world' = world => core_deps_mapping' = core_deps_mapping
  BY DEF core_deps_mapping, map_deps_to_version, Selected, Reached, Edges, Replaced
<1>2. world' = world => CoreListed' = CoreListed
  BY DEF CoreListed, Lists, Selected, Reached, Edges
<1>3. world' = world /\ plugin' = plugin => Listed' = Listed
  BY DEF Listed, Lists, Selected, Reached, Edges
<1>4. world' = world /\ plugin' = plugin => PluginConflicts' = PluginConflicts
  BY <1>1 DEF PluginConflicts, Conflicts, map_deps_to_version, Selected, Reached, Edges, Replaced
<1> QED
  BY <1>1, <1>2, <1>3, <1>4

LEMMA ConflictsInCore == PluginConflicts \subseteq DOMAIN core_deps_mapping
  BY DEF PluginConflicts, Conflicts

LEMMA InitInv == Init => RunInv
<1> SUFFICES ASSUME Init PROVE RunInv
  OBVIOUS
<1>1. plugin \in Partial(Deps \cup {Fork}, Versions)
  BY WorldsAssumption, PartialMember DEF Init, IsWorld
<1> QED
  BY <1>1, DepsAssumption DEF Init, RunInv, TypeOK

\* What go mod edit writes.
LEMMA EditedTyping ==
  ASSUME TypeOK, CoreListed, NEW conflicts \in SUBSET DOMAIN core_deps_mapping
  PROVE  Edited(conflicts) \in Partial(Deps \cup {Fork}, Versions)
<1>1. /\ DOMAIN plugin \subseteq Deps \cup {Fork} /\ plugin \in [DOMAIN plugin -> Versions]
      /\ DOMAIN core_deps_mapping \subseteq Deps \cup {Fork}
      /\ core_deps_mapping \in [DOMAIN core_deps_mapping -> Versions]
  BY WorldTyping, CoreMapping, PartialMember DEF TypeOK
<1>2. /\ DOMAIN Edited(conflicts) \subseteq Deps \cup {Fork}
      /\ Edited(conflicts) \in [DOMAIN Edited(conflicts) -> Versions]
  BY <1>1 DEF Edited
<1> QED
  BY <1>2, PartialMember

\* There is one that go get comes to next, and it is among those left.
LEMMA FollowingIsLeft ==
  ASSUME TypeOK, todo # {}
  PROVE  Following \in todo
<1> DEFINE places == {Place(d) : d \in todo}
<1>1. \A d \in todo : Place(d) \in Nat
  BY DepsAssumption DEF TypeOK, Place
<1>2. places \in SUBSET Nat /\ places # {}
  BY <1>1
<1>3. PICK n \in places : \A m \in places : n <= m
  <2> HIDE DEF places
  <2> QED
    BY <1>2, LeastNumber
<1>4. \E d \in todo : \A e \in todo : Place(d) <= Place(e)
  BY <1>3
<1> QED
  BY <1>4 DEF Following

\* What go get leaves in go.mod.
LEMMA GotTyping ==
  ASSUME IsWorld(world), plugin \in Partial(Deps, Versions),
         NEW d \in Deps \cup {Fork}, NEW v \in Versions
  PROVE  Got(d, v) \in Partial(Deps \cup {Fork}, Versions)
<1> DEFINE selected == Selected(plugin)
           fits(m)  == {w \in Versions : w <= selected[m] /\ ~Needs(m, w, d, v)}
           kept     == {m \in DOMAIN selected \ {d} : fits(m) # {}}
           best(m)  == CHOOSE w \in fits(m) : \A x \in fits(m) : x <= w
<1>1. DOMAIN selected \subseteq Deps
  BY SelectedTyping, PartialMember
<1>2. ASSUME NEW m \in kept PROVE best(m) \in Versions
  <2>1. fits(m) \in SUBSET Versions /\ fits(m) # {}
    OBVIOUS
  <2> HIDE DEF fits
  <2>2. \E w \in fits(m) : \A x \in fits(m) : x <= w
    BY <2>1, GreatestVersion
  <2> QED
    BY <2>1, <2>2
<1>3. Got(d, v) = [m \in kept \cup {d} |-> IF m = d THEN v ELSE best(m)]
  BY DEF Got
<1>4. kept \subseteq Deps
  BY <1>1
<1> HIDE DEF kept, best
<1>5. DOMAIN Got(d, v) = kept \cup {d} /\ Got(d, v) \in [kept \cup {d} -> Versions]
  BY <1>2, <1>3
<1> QED
  BY <1>4, <1>5, PartialMember

\* A run that ends without having changed go.mod; with 0 only if it has just
\* read both lists and found nothing.
LEMMA ExitStep ==
  ASSUME RunInv, NEW status \in {0, 1}, Exit(status), UNCHANGED plugin,
         status = 0 => CoreListed /\ Listed /\ PluginConflicts = {}
  PROVE  RunInv'
<1>1. TypeOK'
  BY DEF RunInv, TypeOK, Exit
<1>2. world' = world /\ plugin' = plugin /\ at' = "exited" /\ exit' = status /\ todo' = {}
  BY DEF Exit
<1> QED
  BY <1>1, <1>2, SameLists DEF RunInv

LEMMA EditStep ==
  ASSUME RunInv, CoreListed, Edit(PluginConflicts), at = "start"
  PROVE  RunInv'
<1>1. PICK last \in PluginConflicts :
        LET done == {d \in PluginConflicts : Place(d) <= Place(last)} IN
        /\ plugin' = Edited(done)
        /\ IF done = PluginConflicts
           THEN at' = "edited" /\ UNCHANGED <<world, todo, exit, runs>>
           ELSE Exit(1)
  BY DEF Edit
<1> DEFINE done == {d \in PluginConflicts : Place(d) <= Place(last)}
<1>2. plugin' \in Partial(Deps \cup {Fork}, Versions)
  <2>1. done \in SUBSET DOMAIN core_deps_mapping
    BY ConflictsInCore
  <2> QED
    BY <1>1, <2>1, EditedTyping DEF RunInv
<1>3. CASE at' = "edited" /\ UNCHANGED <<world, todo, exit, runs>>
  <2>1. TypeOK'
    BY <1>2, <1>3 DEF RunInv, TypeOK
  <2>2. todo = {}
    BY DEF RunInv
  <2> QED
    BY <1>3, <2>1, <2>2, SameLists DEF RunInv
<1>4. CASE Exit(1)
  <2>1. TypeOK'
    BY <1>2, <1>4 DEF RunInv, TypeOK, Exit
  <2> QED
    BY <1>4, <2>1 DEF RunInv, Exit
<1> QED
  BY <1>1, <1>3, <1>4

LEMMA GoGetStep ==
  ASSUME RunInv, GoGet
  PROVE  RunInv'
<1>1. CASE Exit(1) /\ UNCHANGED plugin
  BY <1>1, ExitStep
<1>2. CASE /\ Fork \notin DOMAIN plugin
           /\ plugin' = Got(Following, core_deps_mapping[Following])
           /\ todo' = todo \ {Following}
           /\ UNCHANGED <<world, at, exit, runs>>
  <2>1. at = "getting" /\ CoreListed /\ TypeOK /\ IsWorld(world)
    BY WorldTyping DEF GoGet, RunInv
  <2>2. Following \in todo /\ Following \in DOMAIN core_deps_mapping
    BY <2>1, FollowingIsLeft DEF GoGet, RunInv
  <2>3. Following \in Deps \cup {Fork} /\ core_deps_mapping[Following] \in Versions
    BY <2>1, <2>2, CoreMapping, PartialMember
  <2>4. plugin \in Partial(Deps, Versions)
    BY <1>2, <2>1, PartialMember DEF TypeOK
  <2>5. plugin' \in Partial(Deps \cup {Fork}, Versions)
    BY <1>2, <2>1, <2>3, <2>4, GotTyping
  <2>6. TypeOK'
    BY <1>2, <2>1, <2>5 DEF TypeOK
  <2> QED
    BY <1>2, <2>1, <2>6, SameLists DEF RunInv
<1> QED
  BY <1>1, <1>2 DEF GoGet

LEMMA StepInv ==
  ASSUME RunInv, [Next]_vars
  PROVE  RunInv'
<1>1. CASE UNCHANGED vars
  <2>1. TypeOK'
    BY <1>1 DEF RunInv, TypeOK, vars
  <2> QED
    BY <1>1, <2>1, SameLists DEF RunInv, vars
<1>2. CASE Run
  <2>1. TypeOK'
    BY <1>2, DepsAssumption DEF RunInv, TypeOK, Run
  <2> QED
    BY <1>2, <2>1, SameLists DEF RunInv, Run
<1>3. CASE Compare
  <2>1. CASE ~(Lists(world.core, world.core_replaces) /\ Listed)
    BY <1>3, <2>1, ExitStep DEF Compare
  <2>2. CASE Lists(world.core, world.core_replaces) /\ Listed
    <3>1. CoreListed
      BY <2>2 DEF CoreListed
    <3>2. CASE PluginConflicts = {}
      BY <1>3, <2>2, <3>1, <3>2, ExitStep DEF Compare
    <3>3. CASE PluginConflicts # {}
      BY <1>3, <2>2, <3>1, <3>3, EditStep DEF Compare
    <3> QED
      BY <3>2, <3>3
  <2> QED
    BY <2>1, <2>2
<1>4. CASE CompareAgain
  <2>1. CoreListed
    BY <1>4 DEF CompareAgain, RunInv
  <2>2. CASE ~Listed
    BY <1>4, <2>2, ExitStep DEF CompareAgain
  <2>3. CASE Listed /\ PluginConflicts = {}
    BY <1>4, <2>1, <2>3, ExitStep DEF CompareAgain
  <2>4. CASE Listed /\ PluginConflicts # {}
    <3>1. /\ at' = "getting" /\ todo' = PluginConflicts
          /\ UNCHANGED <<world, plugin, exit, runs>>
      BY <1>4, <2>4 DEF CompareAgain
    <3>2. PluginConflicts \subseteq Deps \cup {Fork}
      BY <2>1, WorldTyping, CoreMapping, ConflictsInCore, PartialMember DEF RunInv
    <3>3. TypeOK'
      BY <3>1, <3>2 DEF RunInv, TypeOK
    <3> QED
      BY <2>1, <3>1, <3>3, SameLists, ConflictsInCore DEF RunInv
  <2> QED
    BY <2>2, <2>3, <2>4
<1>5. CASE GoGet
  BY <1>5, GoGetStep
<1>6. CASE Conclude
  <2>1. CoreListed
    BY <1>6 DEF Conclude, RunInv
  <2>2. CASE Listed /\ PluginConflicts = {}
    BY <1>6, <2>1, <2>2, ExitStep DEF Conclude
  <2>3. CASE ~(Listed /\ PluginConflicts = {})
    BY <1>6, <2>3, ExitStep DEF Conclude
  <2> QED
    BY <2>2, <2>3
<1> QED
  BY <1>1, <1>2, <1>3, <1>4, <1>5, <1>6 DEF Next

\* The invariant holds whatever the script finds, however often it is run, and
\* wherever go fails or the user interrupts it.
THEOREM Invariance == Spec => []RunInv
  BY InitInv, StepInv, PTL DEF Spec

\* Every variable is what its declaration says; in particular what go get leaves
\* in go.mod are versions of modules.
THEOREM TypeCorrect == Spec => []TypeOK
<1>1. RunInv => TypeOK
  BY DEF RunInv
<1> QED
  BY <1>1, Invariance, PTL

\* If no module is replaced in one of the repositories only, an exit status of 0
\* means that core and plugin agree on all they share (gomoderator.py:91-138).
\* Without the hypothesis it does not: see the run gomoderator_fork.
THEOREM ResolvedIsInSync ==
  ASSUME \A w \in Worlds : SameReplaced(w)
  PROVE  Spec => []ResolvedMeansEqual
<1>1. RunInv => ResolvedMeansEqual
  <2> SUFFICES ASSUME RunInv, at = "exited", exit = 0 PROVE InSync
    BY DEF ResolvedMeansEqual
  <2>1. SameReplaced(world) /\ IsWorld(world) /\ plugin \in Partial(Deps \cup {Fork}, Versions)
    BY WorldTyping DEF RunInv, TypeOK
  <2> QED
    BY <2>1, ConflictsAreExact DEF RunInv
<1> QED
  BY <1>1, Invariance, PTL

\* Nor does a run touch a plugin that is in sync when it begins: the first
\* comparison, which edits go.mod before anything is tried out, finds nothing.
THEOREM InSyncIsNotEdited ==
  ASSUME \A w \in Worlds : SameReplaced(w)
  PROVE  Spec => [][Compare /\ Listed /\ InSync => UNCHANGED plugin]_vars
<1>1. ASSUME RunInv, Compare, Listed, InSync PROVE UNCHANGED plugin
  <2>1. CASE CoreListed
    <3>1. SameReplaced(world) /\ IsWorld(world) /\ plugin \in Partial(Deps \cup {Fork}, Versions)
      BY <1>1, WorldTyping DEF RunInv, TypeOK
    <3>2. PluginConflicts = {}
      BY <1>1, <2>1, <3>1, ConflictsAreExact
    <3> QED
      BY <1>1, <2>1, <3>2 DEF Compare, CoreListed
  <2>2. CASE ~CoreListed
    BY <1>1, <2>2 DEF Compare, CoreListed
  <2> QED
    BY <2>1, <2>2
<1>2. RunInv => [Compare /\ Listed /\ InSync => UNCHANGED plugin]_vars
  BY <1>1
<1> QED
  BY <1>2, Invariance, PTL

-----------------------------------------------------------------------------
(* Requirements that grow: a later version of a module requires no less     *)
(* than an earlier one.  It is what makes raising a version harmless.       *)

\* Of the same module, and as late.
Covers(n, m) == n[1] = m[1] /\ m[2] <= n[2]

Growing(w) ==
  \A d \in Deps : \A v1, v2 \in Versions :
    v1 <= v2 => \A m \in w.requires[<<d, v1>>] :
                  \E n \in w.requires[<<d, v2>>] : Covers(n, m)

\* Whoever reaches as much to begin with reaches as much in the end.
LEMMA ReachesAsMuch ==
  ASSUME IsWorld(world), Growing(world),
         NEW less \in Partial(Deps, Versions), NEW more \in Partial(Deps, Versions),
         \A m \in Edges(less) : \E n \in Reached(more) : Covers(n, m)
  PROVE  \A m \in Reached(less) : \E n \in Reached(more) : Covers(n, m)
<1> DEFINE S == {m \in Modules : \E n \in Reached(more) : Covers(n, m)}
<1>1. Reached(less) \in SUBSET Modules /\ Reached(more) \in SUBSET Modules
  BY ReachedTyping
<1>2. Edges(less) \subseteq S
  BY <1>1, ReachedTyping
<1>3. ASSUME NEW m \in S PROVE world.requires[m] \subseteq S
  <2>1. PICK n \in Reached(more) : Covers(n, m)
    OBVIOUS
  <2>2. /\ m = <<m[1], m[2]>> /\ n = <<n[1], n[2]>>
        /\ m[1] \in Deps /\ m[2] \in Versions /\ n[2] \in Versions
    BY <1>1 DEF Modules
  <2>3. world.requires[m] \in SUBSET Modules /\ world.requires[n] \subseteq Reached(more)
    BY <1>1, ReachedTyping DEF IsWorld
  <2>4. ASSUME NEW x \in world.requires[m]
        PROVE  \E y \in world.requires[n] : Covers(y, x)
    BY <2>1, <2>2 DEF Growing, Covers
  <2> QED
    BY <2>3, <2>4
<1> QED
  BY <1>1, <1>2, <1>3, ReachedTyping

\* Whoever reaches as much is built from nothing earlier.
LEMMA SelectsAsMuch ==
  ASSUME IsWorld(world), Growing(world),
         NEW less \in Partial(Deps, Versions), NEW more \in Partial(Deps, Versions),
         \A m \in Edges(less) : \E n \in Reached(more) : Covers(n, m)
  PROVE  \A d \in DOMAIN Selected(less) :
           d \in DOMAIN Selected(more) /\ Selected(less)[d] <= Selected(more)[d]
<1> SUFFICES ASSUME NEW d \in DOMAIN Selected(less)
             PROVE  d \in DOMAIN Selected(more) /\ Selected(less)[d] <= Selected(more)[d]
  OBVIOUS
<1>1. <<d, Selected(less)[d]>> \in Reached(less)
  BY SelectedTyping
<1>2. PICK n \in Reached(more) : Covers(n, <<d, Selected(less)[d]>>)
  BY <1>1, ReachesAsMuch
<1>3. n = <<d, n[2]>> /\ n[2] \in Versions /\ Selected(less)[d] <= n[2]
  BY <1>2, ReachedTyping DEF Covers, Modules
<1>4. d \in DOMAIN Selected(more) /\ n[2] <= Selected(more)[d]
  BY <1>2, <1>3, ReachedIsSelected
<1>5. Selected(less)[d] \in Versions /\ Selected(more)[d] \in Versions
  BY <1>4, SelectedValues
<1> QED
  BY <1>3, <1>4, <1>5, DepsAssumption DEF Versions

\* What is required by what a build list was made of adds nothing to it.
LEMMA ReachedWithin ==
  ASSUME IsWorld(world),
         NEW part \in Partial(Deps, Versions), NEW whole \in Partial(Deps, Versions),
         Edges(part) \subseteq Reached(whole)
  PROVE  Reached(part) \subseteq Reached(whole)
  BY ReachedTyping

\* Writing a build list into go.mod does not change it.
LEMMA SelectedAgain ==
  ASSUME IsWorld(world), NEW requirements \in Partial(Deps, Versions)
  PROVE  Selected(Selected(requirements)) = Selected(requirements)
<1> DEFINE once == Selected(requirements)
           twice == Selected(once)
<1>1. /\ once \in Partial(Deps, Versions) /\ \A d \in DOMAIN once : once[d] \in Versions
      /\ once = [d \in DOMAIN once |-> once[d]]
  BY SelectedValues
<1>2. Reached(once) \subseteq Reached(requirements)
  <2>1. Edges(once) \subseteq Reached(requirements)
    BY SelectedTyping DEF Edges
  <2> QED
    BY <1>1, <2>1, ReachedWithin
<1> HIDE DEF once
<1>3. /\ \A d \in DOMAIN twice : twice[d] \in Versions
      /\ twice = [d \in DOMAIN twice |-> twice[d]]
  BY <1>1, SelectedValues
<1>4. ASSUME NEW d \in DOMAIN twice PROVE d \in DOMAIN once /\ twice[d] <= once[d]
  <2>1. <<d, twice[d]>> \in Reached(requirements)
    BY <1>1, <1>2, SelectedTyping
  <2> QED
    BY <2>1, ReachedIsSelected DEF once
<1>5. \A d \in DOMAIN once : d \in DOMAIN twice /\ once[d] <= twice[d]
  BY <1>1, SelectionIsEnough
<1> HIDE DEF twice
<1>6. DOMAIN once = DOMAIN twice /\ \A d \in DOMAIN once : twice[d] = once[d]
  BY <1>1, <1>3, <1>4, <1>5, DepsAssumption DEF Versions
<1>7. once = twice
  BY <1>1, <1>3, <1>6
<1> QED
  BY <1>7 DEF once, twice

-----------------------------------------------------------------------------
(* What go get does when it asks for no less than there is.                 *)

Raised(selected, d, v) == [m \in DOMAIN selected |-> IF m = d THEN v ELSE selected[m]]

\* Nothing has to give way to a version that is as late as the one selected.
LEMMA GotRaises ==
  ASSUME IsWorld(world), plugin \in Partial(Deps, Versions), NEW v \in Versions,
         NEW d \in DOMAIN Selected(plugin), Selected(plugin)[d] <= v
  PROVE  Got(d, v) = Raised(Selected(plugin), d, v)
<1> DEFINE selected == Selected(plugin)
           fits(m)  == {w \in Versions : w <= selected[m] /\ ~Needs(m, w, d, v)}
           best(m)  == CHOOSE w \in fits(m) : \A x \in fits(m) : x <= w
<1>1. \A m \in DOMAIN selected : m \in Deps /\ selected[m] \in Versions
  BY SelectedValues
<1>2. ASSUME NEW m \in DOMAIN selected PROVE ~Needs(m, selected[m], d, v)
  <2> DEFINE alone == [n \in {m} |-> selected[m]]
  <2> SUFFICES ASSUME NEW w \in Versions, w > v, <<d, w>> \in Reached(alone)
               PROVE  FALSE
    BY DEF Needs
  <2>1. alone \in Partial(Deps, Versions)
    BY <1>1, PartialMember
  <2>2. Edges(alone) \subseteq Reached(plugin)
    BY SelectedTyping DEF Edges
  <2>3. <<d, w>> \in Reached(plugin)
    <3> HIDE DEF alone
    <3> QED
      BY <2>1, <2>2, ReachedWithin
  <2>4. w <= selected[d]
    BY <2>3, ReachedIsSelected
  <2> QED
    BY <1>1, <2>4, DepsAssumption DEF Versions
<1>3. ASSUME NEW m \in DOMAIN selected PROVE fits(m) # {} /\ best(m) = selected[m]
  <2>1. selected[m] \in fits(m)
    BY <1>1, <1>2, DepsAssumption DEF Versions
  <2>2. \A x \in fits(m) : x \in Versions /\ x <= selected[m]
    OBVIOUS
  <2> HIDE DEF fits
  <2>3. best(m) \in fits(m) /\ selected[m] <= best(m)
    BY <2>1, <2>2
  <2> QED
    BY <1>1, <2>1, <2>2, <2>3, DepsAssumption DEF Versions
<1>4. Got(d, v) = [m \in {n \in DOMAIN selected \ {d} : fits(n) # {}} \cup {d} |->
                     IF m = d THEN v ELSE best(m)]
  BY DEF Got
<1> HIDE DEF selected, fits, best
<1>5. {n \in DOMAIN selected \ {d} : fits(n) # {}} \cup {d} = DOMAIN selected
  BY <1>3 DEF selected
<1> QED
  BY <1>3, <1>4, <1>5 DEF Raised, selected

\* What core and plugin share go get keeps: the core's versions need no more than the
\* core has of what is asked for, and earlier ones still less.
LEMMA GotKeepsShared ==
  ASSUME IsWorld(world), Growing(world), CoreListed,
         plugin \in Partial(Deps, Versions),
         NEW d \in DOMAIN core_deps_mapping,
         NEW m \in DOMAIN Selected(world.core) \cap DOMAIN Selected(plugin)
  PROVE  m \in DOMAIN Got(d, core_deps_mapping[d])
<1> DEFINE v == core_deps_mapping[d]
           ours == Selected(plugin)[m]
           theirs == Selected(world.core)[m]
           w == IF ours <= theirs THEN ours ELSE theirs
           alone == [n \in {m} |-> w]
<1>1. world.core \in Partial(Deps, Versions) /\ world.core_replaces \in Directives
  BY DEF IsWorld
<1>2. m \in Deps /\ ours \in Versions /\ theirs \in Versions /\ w \in Versions
  BY <1>1, SelectedValues
<1>3. w <= ours /\ w <= theirs
  BY <1>2, DepsAssumption DEF Versions
<1> HIDE DEF w
<1>4. alone \in Partial(Deps, Versions)
  BY <1>2, PartialMember
<1>5. \A x \in Edges(alone) : \E y \in Reached(world.core) : Covers(y, x)
  <2>1. <<m, theirs>> \in Reached(world.core)
    BY <1>1, SelectedTyping
  <2>2. Edges(alone) = {<<m, w>>}
    BY DEF Edges
  <2> QED
    BY <1>3, <2>1, <2>2 DEF Covers
<1>6. ~Needs(m, w, d, v)
  <2> SUFFICES ASSUME NEW x \in Versions, x > v, <<d, x>> \in Reached(alone)
               PROVE  FALSE
    BY DEF Needs
  <2> HIDE DEF alone
  <2>1. d \in Deps
    BY <1>4, ReachedTyping DEF Modules
  <2>2. PICK y \in Reached(world.core) : Covers(y, <<d, x>>)
    BY <1>1, <1>4, <1>5, ReachesAsMuch
  <2>3. y = <<d, y[2]>> /\ y[2] \in Versions /\ x <= y[2]
    BY <1>1, <2>2, ReachedTyping DEF Covers, Modules
  <2>4. d \in DOMAIN Selected(world.core) /\ y[2] <= Selected(world.core)[d]
    BY <1>1, <2>2, <2>3, ReachedIsSelected
  <2>5. v = Selected(world.core)[d] /\ v \in Versions
    <3>1. world.core \in Partial(Deps \cup {Fork}, Versions)
      BY <1>1, PartialMember
    <3>2. v = Selected(world.core)[d]
      BY <1>1, <2>1, <3>1, MappingOfList DEF CoreListed, core_deps_mapping
    <3> QED
      BY <1>1, <2>4, <3>2, SelectedValues
  <2> QED
    BY <2>3, <2>4, <2>5, DepsAssumption DEF Versions
<1>7. w \in {u \in Versions : u <= ours /\ ~Needs(m, u, d, v)}
  BY <1>2, <1>3, <1>6
<1>8. DOMAIN Got(d, v)
        = {n \in DOMAIN Selected(plugin) \ {d} :
             {u \in Versions : u <= Selected(plugin)[n] /\ ~Needs(n, u, d, v)} # {}} \cup {d}
  BY DEF Got
<1> QED
  BY <1>7, <1>8

-----------------------------------------------------------------------------
(* What is left to get is shared, until somebody requires the fork by name: *)
(* go get would lose nothing that both have.  And while the core is ahead   *)
(* of where the plugin began, it is ahead of where the plugin is.           *)

Shared == DOMAIN Selected(world.core) \cap DOMAIN Selected(plugin)

LeftIsShared ==
  Fork \notin DOMAIN plugin =>
    /\ todo \cap Deps \subseteq Shared
    /\ Fork \in todo =>
         /\ Original \in Shared
         /\ Original \in DOMAIN world.core_replaces \cap DOMAIN world.plugin_replaces
         /\ world.core_replaces[Original] # world.plugin_replaces[Original]

StillAhead ==
  Ahead /\ Fork \notin DOMAIN plugin =>
    \A d \in Shared : Selected(plugin)[d] <= Selected(world.core)[d]

MoveInv == RunInv /\ LeftIsShared /\ StillAhead

\* The lists depend on nothing but go.mod and what was found.
LEMMA ListsNext ==
  ASSUME world' = world
  PROVE  /\ Selected(world.core)' = Selected(world.core)
         /\ Selected(plugin)' = Selected(plugin')
         /\ Reached(plugin)' = Reached(plugin')
         /\ Ahead' = Ahead
<1>1. Selected(world.core)' = Selected(world.core)
  BY DEF Selected, Reached, Edges
<1>2. Selected(plugin)' = Selected(plugin') /\ Reached(plugin)' = Reached(plugin')
  BY DEF Selected, Reached, Edges
<1>3. Selected(world.plugin)' = Selected(world.plugin)
  BY DEF Selected, Reached, Edges
<1>4. Ahead' = Ahead
  BY <1>1, <1>3 DEF Ahead
<1> QED
  BY <1>1, <1>2, <1>4

\* What a conflict is about is shared.
LEMMA ConflictsAreShared ==
  ASSUME IsWorld(world), CoreListed, Listed, plugin \in Partial(Deps \cup {Fork}, Versions)
  PROVE  /\ PluginConflicts \cap Deps \subseteq Shared
         /\ Fork \in PluginConflicts =>
              /\ Original \in Shared
              /\ Original \in DOMAIN world.core_replaces \cap DOMAIN world.plugin_replaces
              /\ world.core_replaces[Original] # world.plugin_replaces[Original]
<1> DEFINE core_mapping == core_deps_mapping
           plugin_mapping == map_deps_to_version(plugin, world.plugin_replaces)
<1>1. /\ world.core \in Partial(Deps \cup {Fork}, Versions)
      /\ world.core_replaces \in Directives /\ world.plugin_replaces \in Directives
  BY PartialMember DEF IsWorld
<1>2. PluginConflicts = {d \in DOMAIN core_mapping \cap DOMAIN plugin_mapping :
                           plugin_mapping[d] # core_mapping[d]}
  BY DEF PluginConflicts, Conflicts
<1>3. /\ \A d \in Deps : d \in DOMAIN core_mapping => d \in DOMAIN Selected(world.core)
      /\ Fork \in DOMAIN core_mapping =>
           /\ Original \in DOMAIN Selected(world.core) /\ Original \in DOMAIN world.core_replaces
           /\ core_mapping[Fork] = world.core_replaces[Original].version
  BY <1>1, MappingOfList DEF CoreListed, core_deps_mapping
<1>4. /\ \A d \in Deps : d \in DOMAIN plugin_mapping => d \in DOMAIN Selected(plugin)
      /\ Fork \in DOMAIN plugin_mapping =>
           /\ Original \in DOMAIN Selected(plugin) /\ Original \in DOMAIN world.plugin_replaces
           /\ plugin_mapping[Fork] = world.plugin_replaces[Original].version
  BY <1>1, MappingOfList DEF Listed
<1> HIDE DEF core_mapping, plugin_mapping
<1>5. PluginConflicts \cap Deps \subseteq Shared
  BY <1>2, <1>3, <1>4 DEF Shared
<1>6. ASSUME Fork \in PluginConflicts
      PROVE  /\ Original \in Shared
             /\ Original \in DOMAIN world.core_replaces \cap DOMAIN world.plugin_replaces
             /\ world.core_replaces[Original] # world.plugin_replaces[Original]
  <2>1. /\ Fork \in DOMAIN core_mapping /\ Fork \in DOMAIN plugin_mapping
        /\ plugin_mapping[Fork] # core_mapping[Fork]
    BY <1>2, <1>6
  <2> QED
    BY <1>3, <1>4, <2>1 DEF Shared
<1> QED
  BY <1>5, <1>6

\* The version the core has of a module that is not replaced.
LEMMA CoreVersion ==
  ASSUME IsWorld(world), CoreListed, NEW d \in Deps, d \in DOMAIN core_deps_mapping
  PROVE  /\ d \in DOMAIN Selected(world.core) /\ d \notin DOMAIN world.core_replaces
         /\ core_deps_mapping[d] = Selected(world.core)[d]
         /\ core_deps_mapping[d] \in Versions
         /\ <<d, core_deps_mapping[d]>> \in Reached(world.core)
<1>1. /\ world.core \in Partial(Deps \cup {Fork}, Versions)
      /\ world.core \in Partial(Deps, Versions)
      /\ world.core_replaces \in Directives
  BY PartialMember DEF IsWorld
<1>2. /\ d \in DOMAIN Selected(world.core) /\ d \notin DOMAIN world.core_replaces
      /\ core_deps_mapping[d] = Selected(world.core)[d]
  BY <1>1, MappingOfList DEF CoreListed, core_deps_mapping
<1> QED
  BY <1>1, <1>2, SelectedTyping, SelectedValues

-----------------------------------------------------------------------------
(* How a step moves the plugin, as long as it does not require the fork.    *)

\* What go get does unless it fails, in terms of the build list.
LEMMA GetOfShared ==
  ASSUME MoveInv, GoGet, plugin' # plugin, Fork \notin DOMAIN plugin'
  PROVE  /\ at = "getting" /\ Fork \notin DOMAIN plugin /\ plugin \in Partial(Deps, Versions)
         /\ Following \in todo /\ Following \in Deps /\ Following \in Shared
         /\ plugin' = Got(Following, core_deps_mapping[Following])
         /\ todo' = todo \ {Following}
         /\ UNCHANGED <<world, at, exit, runs>>
<1>1. /\ at = "getting" /\ Fork \notin DOMAIN plugin
      /\ plugin' = Got(Following, core_deps_mapping[Following])
      /\ todo' = todo \ {Following}
      /\ UNCHANGED <<world, at, exit, runs>>
  BY DEF GoGet
<1>2. plugin \in Partial(Deps, Versions)
  BY <1>1, PartialMember DEF MoveInv, RunInv, TypeOK
<1>3. Following \in todo
  BY FollowingIsLeft DEF MoveInv, RunInv, GoGet
<1>4. Following \in DOMAIN plugin'
  BY <1>1 DEF Got
<1>5. Following \in Deps
  BY <1>3, <1>4 DEF MoveInv, RunInv, TypeOK
<1>6. Following \in Shared
  BY <1>1, <1>3, <1>5 DEF MoveInv, LeftIsShared
<1> QED
  BY <1>1, <1>2, <1>3, <1>5, <1>6

\* What go mod edit does, in terms of go.mod.
LEMMA EditOfShared ==
  ASSUME MoveInv, Compare, plugin' # plugin, Fork \notin DOMAIN plugin'
  PROVE  /\ at = "start" /\ CoreListed /\ Listed /\ world' = world
         /\ Fork \notin DOMAIN plugin /\ plugin \in Partial(Deps, Versions)
         /\ todo = {} /\ todo' = {}
         /\ \E done \in SUBSET (PluginConflicts \cap Deps) : plugin' = Edited(done)
<1>1. at = "start" /\ CoreListed /\ Listed /\ Edit(PluginConflicts)
  BY DEF Compare, CoreListed
<1>2. todo = {}
  BY <1>1 DEF MoveInv, RunInv
<1>3. PICK last \in PluginConflicts :
        LET done == {d \in PluginConflicts : Place(d) <= Place(last)} IN
        /\ plugin' = Edited(done)
        /\ IF done = PluginConflicts
           THEN at' = "edited" /\ UNCHANGED <<world, todo, exit, runs>>
           ELSE Exit(1)
  BY <1>1 DEF Edit
<1> DEFINE done == {d \in PluginConflicts : Place(d) <= Place(last)}
<1>4. world' = world /\ todo' = {}
  BY <1>2, <1>3 DEF Exit
<1>5. plugin' = Edited(done) /\ done \subseteq PluginConflicts
  BY <1>3
<1> HIDE DEF done
<1>6. DOMAIN plugin' = DOMAIN plugin \cup done
  BY <1>5 DEF Edited
<1>7. PluginConflicts \subseteq Deps \cup {Fork}
  BY <1>1, WorldTyping, CoreMapping, ConflictsInCore, PartialMember DEF MoveInv, RunInv
<1>8. done \in SUBSET (PluginConflicts \cap Deps)
  BY <1>5, <1>6, <1>7
<1>9. plugin \in Partial(Deps, Versions)
  BY <1>6, PartialMember DEF MoveInv, RunInv, TypeOK
<1> QED
  BY <1>1, <1>2, <1>4, <1>5, <1>6, <1>8, <1>9

\* With the core ahead a step only raises what is in go.mod, and to nothing that
\* one of the two is not built from already.
LEMMA MovesUp ==
  ASSUME MoveInv, Growing(world), Ahead, Compare \/ GoGet,
         plugin' # plugin, Fork \notin DOMAIN plugin'
  PROVE  /\ plugin \in Partial(Deps, Versions) /\ plugin' \in Partial(Deps, Versions)
         /\ Edges(plugin') \subseteq Reached(plugin) \cup Reached(world.core)
         /\ \A e \in DOMAIN plugin : e \in DOMAIN plugin' /\ plugin[e] <= plugin'[e]
<1>1. IsWorld(world) /\ TypeOK
  BY WorldTyping DEF MoveInv, RunInv
<1>2. RunInv'
  BY StepInv DEF MoveInv, Next
<1>3. plugin' \in Partial(Deps, Versions)
  BY <1>2, PartialMember DEF RunInv, TypeOK
<1>4. CASE Compare
  <2>1. /\ CoreListed /\ Listed /\ plugin \in Partial(Deps, Versions)
        /\ Fork \notin DOMAIN plugin
        /\ \E done \in SUBSET (PluginConflicts \cap Deps) : plugin' = Edited(done)
    BY <1>4, EditOfShared
  <2>2. PICK done \in SUBSET (PluginConflicts \cap Deps) : plugin' = Edited(done)
    BY <2>1
  <2>3. /\ DOMAIN plugin' = DOMAIN plugin \cup done
        /\ \A d \in DOMAIN plugin' :
             plugin'[d] = IF d \in done THEN core_deps_mapping[d] ELSE plugin[d]
    BY <2>2 DEF Edited
  <2>4. Edges(plugin) \subseteq Reached(plugin)
    BY <1>1, <2>1, ReachedTyping
  <2>5. ASSUME NEW d \in done
        PROVE  /\ <<d, core_deps_mapping[d]>> \in Reached(world.core)
               /\ core_deps_mapping[d] \in Versions
               /\ d \in DOMAIN Selected(plugin)
               /\ Selected(plugin)[d] <= core_deps_mapping[d]
    <3>1. d \in Deps /\ d \in DOMAIN core_deps_mapping
      BY ConflictsInCore
    <3>2. d \in Shared
      BY <1>1, <2>1, ConflictsAreShared DEF TypeOK
    <3> QED
      BY <1>1, <2>1, <3>1, <3>2, CoreVersion DEF MoveInv, StillAhead, Shared
  <2>6. Edges(plugin') \subseteq Reached(plugin) \cup Reached(world.core)
    <3> SUFFICES ASSUME NEW d \in DOMAIN plugin'
                 PROVE  <<d, plugin'[d]>> \in Reached(plugin) \cup Reached(world.core)
      BY DEF Edges
    <3>1. CASE d \in done
      BY <2>3, <2>5, <3>1
    <3>2. CASE d \notin done
      BY <2>3, <2>4, <3>2 DEF Edges
    <3> QED
      BY <3>1, <3>2
  <2>7. ASSUME NEW e \in DOMAIN plugin PROVE e \in DOMAIN plugin' /\ plugin[e] <= plugin'[e]
    <3>1. plugin[e] \in Versions
      BY <2>1, PartialMember
    <3>2. CASE e \in done
      <4>1. plugin[e] <= Selected(plugin)[e] /\ Selected(plugin)[e] \in Versions
        BY <1>1, <2>1, <2>5, <3>2, SelectionIsEnough, SelectedValues
      <4>2. /\ Selected(plugin)[e] <= core_deps_mapping[e]
            /\ core_deps_mapping[e] \in Versions
        BY <2>5, <3>2
      <4>3. plugin[e] <= core_deps_mapping[e]
        BY <3>1, <4>1, <4>2, DepsAssumption DEF Versions
      <4> QED
        BY <2>3, <3>2, <4>3
    <3>3. CASE e \notin done
      BY <2>3, <3>1, <3>3, DepsAssumption DEF Versions
    <3> QED
      BY <3>2, <3>3
  <2> QED
    BY <1>3, <2>1, <2>6, <2>7
<1>5. CASE GoGet
  <2> DEFINE d == Following
             v == core_deps_mapping[Following]
             selected == Selected(plugin)
  <2>1. /\ at = "getting" /\ Fork \notin DOMAIN plugin /\ plugin \in Partial(Deps, Versions)
        /\ d \in todo /\ d \in Deps /\ d \in Shared
        /\ plugin' = Got(d, v)
    BY <1>5, GetOfShared
  <2>2. CoreListed /\ d \in DOMAIN core_deps_mapping
    BY <2>1 DEF MoveInv, RunInv
  <2>3. v \in Versions /\ v = Selected(world.core)[d] /\ <<d, v>> \in Reached(world.core)
    BY <1>1, <2>1, <2>2, CoreVersion
  <2>4. d \in DOMAIN selected /\ selected[d] <= v
    BY <2>1, <2>3 DEF MoveInv, StillAhead, Shared
  <2>5. plugin' = Raised(selected, d, v)
    BY <1>1, <2>1, <2>3, <2>4, GotRaises
  <2> HIDE DEF d, v
  <2>6. /\ DOMAIN plugin' = DOMAIN selected
        /\ \A m \in DOMAIN selected : plugin'[m] = IF m = d THEN v ELSE selected[m]
    BY <2>5 DEF Raised
  <2>7. \A m \in DOMAIN selected : <<m, selected[m]>> \in Reached(plugin)
    BY <1>1, <2>1, SelectedTyping
  <2>8. Edges(plugin') \subseteq Reached(plugin) \cup Reached(world.core)
    <3> SUFFICES ASSUME NEW m \in DOMAIN plugin'
                 PROVE  <<m, plugin'[m]>> \in Reached(plugin) \cup Reached(world.core)
      BY DEF Edges
    <3>1. CASE m = d
      BY <2>3, <2>6, <3>1
    <3>2. CASE m # d
      BY <2>6, <2>7, <3>2
    <3> QED
      BY <3>1, <3>2
  <2>9. ASSUME NEW e \in DOMAIN plugin PROVE e \in DOMAIN plugin' /\ plugin[e] <= plugin'[e]
    <3>1. /\ e \in DOMAIN selected /\ plugin[e] <= selected[e]
          /\ plugin[e] \in Versions /\ selected[e] \in Versions
      BY <1>1, <2>1, SelectionIsEnough, SelectedValues, PartialMember
    <3> HIDE DEF selected
    <3>2. CASE e = d
      BY <2>3, <2>4, <2>6, <3>1, <3>2, DepsAssumption DEF Versions
    <3>3. CASE e # d
      BY <2>6, <3>1, <3>3
    <3> QED
      BY <3>2, <3>3
  <2> QED
    BY <1>3, <2>1, <2>8, <2>9
<1> QED
  BY <1>4, <1>5

\* A build made of what the two are built from is no later than the later of them.
LEMMA UnionIsEnough ==
  ASSUME IsWorld(world), NEW one \in Partial(Deps, Versions), NEW other \in Partial(Deps, Versions),
         NEW both \in Partial(Deps, Versions),
         Edges(both) \subseteq Reached(one) \cup Reached(other)
  PROVE  Reached(both) \subseteq Reached(one) \cup Reached(other)
<1> DEFINE S == Reached(one) \cup Reached(other)
<1>1. S \in SUBSET Modules
  BY ReachedTyping
<1>2. \A m \in S : world.requires[m] \subseteq S
  BY ReachedTyping
<1> HIDE DEF S
<1>3. Edges(both) \subseteq S
  BY DEF S
<1>4. Reached(both) \subseteq S
  BY <1>1, <1>2, <1>3, ReachedTyping
<1> QED
  BY <1>4 DEF S
-----------------------------------------------------------------------------
(* The inductive invariant, once more.                                      *)

\* Nothing but the first comparison and go get changes go.mod.
LEMMA WhoMoves ==
  ASSUME [Next]_vars, plugin' # plugin
  PROVE  Compare \/ GoGet
  BY DEF Next, vars, Run, CompareAgain, Conclude

LEMMA WorldStays ==
  ASSUME [Next]_vars
  PROVE  world' = world
<1>1. CASE Compare
  BY <1>1 DEF Compare, Edit, Exit
<1>2. CASE GoGet
  BY <1>2 DEF GoGet, Exit
<1>3. CASE CompareAgain
  BY <1>3 DEF CompareAgain, Exit
<1>4. CASE Conclude
  BY <1>4 DEF Conclude, Exit
<1>5. CASE Run
  BY <1>5 DEF Run
<1> QED
  BY <1>1, <1>2, <1>3, <1>4, <1>5 DEF Next, vars

LEMMA LeftIsSharedStep ==
  ASSUME MoveInv, Growing(world), [Next]_vars
  PROVE  LeftIsShared'
<1> SUFFICES ASSUME Fork \notin DOMAIN plugin'
             PROVE  /\ todo' \cap Deps \subseteq Shared'
                    /\ Fork \in todo' =>
                         /\ Original \in Shared'
                         /\ Original \in DOMAIN world'.core_replaces
                                          \cap DOMAIN world'.plugin_replaces
                         /\ world'.core_replaces[Original] # world'.plugin_replaces[Original]
  BY DEF LeftIsShared
<1>1. IsWorld(world) /\ TypeOK
  BY WorldTyping DEF MoveInv, RunInv
<1>2. world' = world /\ Shared' = DOMAIN Selected(world.core) \cap DOMAIN Selected(plugin')
  BY WorldStays, ListsNext DEF Shared
<1>3. CASE todo' = {}
  BY <1>3
<1>4. CASE plugin' = plugin /\ todo' \subseteq todo
  <2>1. Shared' = Shared
    BY <1>2, <1>4 DEF Shared
  <2> QED
    BY <1>2, <1>4, <2>1 DEF MoveInv, LeftIsShared
<1>5. CASE CompareAgain /\ todo' # {}
  <2>1. CoreListed /\ Listed /\ plugin' = plugin /\ todo' = PluginConflicts
    BY <1>5 DEF CompareAgain, Exit, MoveInv, RunInv
  <2>2. Shared' = Shared
    BY <1>2, <2>1 DEF Shared
  <2> QED
    BY <1>1, <1>2, <2>1, <2>2, ConflictsAreShared DEF TypeOK
<1>6. CASE Compare
  <2>1. todo = {}
    BY <1>6 DEF Compare, MoveInv, RunInv
  <2> QED
    BY <1>3, <1>6, <2>1 DEF Compare, Edit, Exit
<1>7. CASE GoGet /\ plugin' # plugin
  <2> DEFINE d == Following
             v == core_deps_mapping[Following]
  <2>1. /\ at = "getting" /\ Fork \notin DOMAIN plugin /\ plugin \in Partial(Deps, Versions)
        /\ d \in todo /\ plugin' = Got(d, v) /\ todo' = todo \ {d}
    BY <1>7, GetOfShared
  <2>2. CoreListed /\ d \in DOMAIN core_deps_mapping
    BY <2>1 DEF MoveInv, RunInv
  <2>3. plugin' \in Partial(Deps, Versions)
    BY StepInv, PartialMember DEF MoveInv, RunInv, TypeOK
  <2>4. ASSUME NEW m \in Shared PROVE m \in Shared'
    <3>1. m \in DOMAIN plugin'
      BY <1>1, <2>1, <2>2, GotKeepsShared DEF Shared
    <3> QED
      BY <1>1, <1>2, <2>3, <3>1, SelectionIsEnough DEF Shared
  <2> QED
    BY <1>2, <2>1, <2>4 DEF MoveInv, LeftIsShared
<1> QED
  BY <1>3, <1>4, <1>5, <1>6, <1>7
  DEF Next, vars, Run, CompareAgain, GoGet, Conclude, Exit

LEMMA StillAheadStep ==
  ASSUME MoveInv, Growing(world), [Next]_vars
  PROVE  StillAhead'
<1> SUFFICES ASSUME Ahead', Fork \notin DOMAIN plugin', NEW d \in Shared'
             PROVE  Selected(plugin')[d] <= Selected(world.core)[d]
  BY WorldStays, ListsNext DEF StillAhead
<1>1. IsWorld(world) /\ TypeOK /\ world.core \in Partial(Deps, Versions)
  BY WorldTyping DEF MoveInv, RunInv, IsWorld
<1>2. /\ world' = world /\ Ahead
      /\ d \in DOMAIN Selected(world.core) /\ d \in DOMAIN Selected(plugin')
  BY WorldStays, ListsNext DEF Shared
<1>3. CASE plugin' = plugin
  BY <1>2, <1>3 DEF MoveInv, StillAhead, Shared
<1>4. CASE plugin' # plugin
  <2>1. Compare \/ GoGet
    BY <1>4, WhoMoves
  <2>2. /\ plugin \in Partial(Deps, Versions) /\ plugin' \in Partial(Deps, Versions)
        /\ Edges(plugin') \subseteq Reached(plugin) \cup Reached(world.core)
    BY <1>2, <1>4, <2>1, MovesUp
  <2>3. Fork \notin DOMAIN plugin
    BY <2>2, PartialMember, DepsAssumption
  <2>4. <<d, Selected(plugin')[d]>> \in Reached(plugin) \cup Reached(world.core)
    BY <1>1, <1>2, <2>2, UnionIsEnough, SelectedTyping
  <2>5. CASE <<d, Selected(plugin')[d]>> \in Reached(world.core)
    BY <1>1, <2>5, ReachedIsSelected
  <2>6. CASE <<d, Selected(plugin')[d]>> \in Reached(plugin)
    <3>1. /\ d \in DOMAIN Selected(plugin) /\ Selected(plugin')[d] <= Selected(plugin)[d]
          /\ Selected(plugin')[d] \in Versions
      BY <1>1, <2>2, <2>6, ReachedIsSelected
    <3>2. Selected(plugin)[d] <= Selected(world.core)[d]
      BY <1>2, <2>3, <3>1 DEF MoveInv, StillAhead, Shared
    <3>3. Selected(plugin)[d] \in Versions /\ Selected(world.core)[d] \in Versions
      BY <1>1, <1>2, <2>2, <3>1, SelectedValues
    <3> QED
      BY <3>1, <3>2, <3>3, DepsAssumption DEF Versions
  <2> QED
    BY <2>4, <2>5, <2>6
<1> QED
  BY <1>3, <1>4

LEMMA MoveInvariance ==
  ASSUME \A w \in Worlds : Growing(w)
  PROVE  Spec => []MoveInv
<1>1. Init => MoveInv
  <2> SUFFICES ASSUME Init PROVE MoveInv
    OBVIOUS
  <2>1. LeftIsShared
    BY DEF Init, LeftIsShared
  <2>2. StillAhead
    BY DEF Init, StillAhead, Ahead, Shared
  <2> QED
    BY <2>1, <2>2, InitInv DEF MoveInv
<1>2. MoveInv /\ [Next]_vars => MoveInv'
  <2> SUFFICES ASSUME MoveInv, [Next]_vars PROVE MoveInv'
    OBVIOUS
  <2>1. Growing(world)
    BY DEF MoveInv, RunInv, TypeOK
  <2> QED
    BY <2>1, StepInv, LeftIsSharedStep, StillAheadStep DEF MoveInv
<1> QED
  BY <1>1, <1>2, PTL DEF Spec

\* If later versions require no less and the same modules are replaced in both, a
\* plugin that is in sync is never moved: the first comparison finds nothing to
\* edit, and what is left for go get is asked for in the version it already has
\* (gomoderator.py:87, 110).
THEOREM InSyncIsKept ==
  ASSUME \A w \in Worlds : Growing(w), \A w \in Worlds : SameReplaced(w)
  PROVE  Spec => InSyncStays
<1>1. ASSUME MoveInv, [Next]_vars, plugin' # plugin, Listed, InSync
      PROVE  (Listed /\ InSync)'
  <2>1. /\ IsWorld(world) /\ TypeOK /\ SameReplaced(world)
        /\ plugin \in Partial(Deps \cup {Fork}, Versions)
    BY <1>1, WorldTyping DEF MoveInv, RunInv, TypeOK
  <2>2. CoreListed => PluginConflicts = {}
    BY <1>1, <2>1, ConflictsAreExact
  <2>3. ~ Compare
    BY <1>1, <2>2 DEF Compare, CoreListed
  <2>4. GoGet
    BY <1>1, <2>3, WhoMoves
  <2> DEFINE d == Following
             v == core_deps_mapping[Following]
             selected == Selected(plugin)
  <2>5. /\ at = "getting" /\ todo # {} /\ Fork \notin DOMAIN plugin
        /\ plugin' = Got(d, v) /\ world' = world
    BY <1>1, <2>4 DEF GoGet
  <2>6. /\ CoreListed /\ d \in todo /\ d \in DOMAIN core_deps_mapping
    BY <1>1, <2>1, <2>5, FollowingIsLeft DEF MoveInv, RunInv
  <2>7. plugin \in Partial(Deps, Versions)
    BY <2>1, <2>5, PartialMember
  \* It is not the fork: that one is replaced by the same code in both.
  <2>8. d # Fork
    <3> SUFFICES ASSUME Fork \in todo PROVE FALSE
      BY <2>6
    <3>1. /\ Original \in Shared
          /\ Original \in DOMAIN world.core_replaces \cap DOMAIN world.plugin_replaces
          /\ world.core_replaces[Original] # world.plugin_replaces[Original]
      BY <1>1, <2>5 DEF MoveInv, LeftIsShared
    <3> QED
      BY <1>1, <3>1 DEF InSync, CodeOf, Shared
  <2>9. d \in Deps /\ d \in Shared
    BY <1>1, <2>1, <2>5, <2>6, <2>8 DEF MoveInv, LeftIsShared, TypeOK
  <2>10. /\ d \in DOMAIN Selected(world.core) /\ d \notin DOMAIN world.core_replaces
         /\ v = Selected(world.core)[d] /\ v \in Versions
    BY <2>1, <2>6, <2>9, CoreVersion
  <2>11. selected[d] = v
    BY <1>1, <2>1, <2>9, <2>10 DEF InSync, CodeOf, Shared, SameReplaced
  <2> HIDE DEF d, v
  <2>12. plugin' = Raised(selected, d, v)
    <3>1. d \in DOMAIN Selected(plugin) /\ Selected(plugin)[d] <= v
      BY <2>9, <2>10, <2>11, DepsAssumption DEF Shared, Versions
    <3> QED
      BY <2>1, <2>5, <2>7, <2>10, <3>1, GotRaises
  <2>13. plugin' = selected
    <3>1. selected = [m \in DOMAIN selected |-> selected[m]]
      BY <2>1, <2>7, SelectedValues
    <3> HIDE DEF selected
    <3> QED
      BY <2>11, <2>12, <3>1 DEF Raised
  <2>14. Selected(plugin)' = Selected(plugin) /\ Selected(world.core)' = Selected(world.core)
    BY <2>1, <2>5, <2>7, <2>13, ListsNext, SelectedAgain
  <2>15. Fork \notin DOMAIN plugin'
    BY <2>1, <2>7, <2>13, SelectedTyping, PartialMember, DepsAssumption
  <2>16. Listed'
    BY <1>1, <2>5, <2>14, <2>15 DEF Listed, Lists
  <2>17. InSync'
    BY <1>1, <2>5, <2>14 DEF InSync, CodeOf
  <2> QED
    BY <2>16, <2>17
<1>2. MoveInv /\ [Next]_vars => [Listed /\ InSync => (Listed /\ InSync)']_plugin
  BY <1>1
<1> QED
  BY <1>2, MoveInvariance, PTL DEF Spec, InSyncStays

\* If later versions require no less and the core is ahead of the plugin in all
\* they share, then whatever the script does, in however many runs and wherever
\* it is stopped, loses nothing the plugin is built from and lowers none of it
\* (gomoderator.py:87, 110).
THEOREM OnlyMovedForward ==
  ASSUME \A w \in Worlds : Growing(w)
  PROVE  Spec => OnlyForward
<1>1. ASSUME MoveInv, [Next]_vars, plugin' # plugin, Listed, Listed', Ahead,
             NEW d \in DOMAIN Selected(plugin)
      PROVE  d \in DOMAIN Selected(plugin') /\ Selected(plugin')[d] >= Selected(plugin)[d]
  <2>1. IsWorld(world) /\ Growing(world)
    BY <1>1, WorldTyping DEF MoveInv, RunInv, TypeOK
  <2>2. Fork \notin DOMAIN plugin'
    BY <1>1 DEF Listed, Lists
  <2>3. /\ plugin \in Partial(Deps, Versions) /\ plugin' \in Partial(Deps, Versions)
        /\ \A e \in DOMAIN plugin : e \in DOMAIN plugin' /\ plugin[e] <= plugin'[e]
    BY <1>1, <2>1, <2>2, WhoMoves, MovesUp
  <2>4. ASSUME NEW m \in Edges(plugin) PROVE \E n \in Reached(plugin') : Covers(n, m)
    <3>1. PICK e \in DOMAIN plugin : m = <<e, plugin[e]>>
      BY DEF Edges
    <3>2. <<e, plugin'[e]>> \in Reached(plugin')
      BY <2>1, <2>3, ReachedTyping DEF Edges
    <3> QED
      BY <2>3, <3>1, <3>2 DEF Covers
  <2>5. d \in DOMAIN Selected(plugin') /\ Selected(plugin)[d] <= Selected(plugin')[d]
    BY <2>1, <2>3, <2>4, SelectsAsMuch
  <2>6. Selected(plugin)[d] \in Versions /\ Selected(plugin')[d] \in Versions
    BY <2>1, <2>3, <2>5, SelectedValues
  <2> QED
    BY <2>5, <2>6, DepsAssumption DEF Versions
<1>2. MoveInv /\ [Next]_vars =>
        [Listed /\ Listed' /\ Ahead =>
           LET before == Selected(plugin)
               after  == Selected(plugin')
           IN  \A d \in DOMAIN before : d \in DOMAIN after /\ after[d] >= before[d]]_plugin
  BY <1>1
<1> QED
  BY <1>2, MoveInvariance, PTL DEF Spec, OnlyForward
=============================================================================

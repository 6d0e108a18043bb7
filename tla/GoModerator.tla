----------------------------- MODULE GoModerator -----------------------------
(***************************************************************************)
(* scripts/gomoderator.py.  A plugin can only be loaded by a vulcanizedb   *)
(* built from the same versions of the dependencies they share.  The       *)
(* script lists both, writes the core's versions into the plugin's go.mod, *)
(* lists again, has go get fix what did not stick, and lists once more.    *)
(*                                                                         *)
(* go is external: a build list is the minimal version selection over the  *)
(* requirements of go.mod, go get lowers what would need more than it was  *)
(* asked for, and a replacement stands in for what it replaces, whose      *)
(* requirements it shares.                                                 *)
(***************************************************************************)
EXTENDS Integers, FiniteSets

CONSTANTS
  Deps,          \* the modules both repositories may depend on
  Position,      \* of a module in the lists of go, which the script goes through in order
  MaxVersion,    \* bound on versions
  Worlds,        \* what the script may find, see IsWorld
  Original,      \* a module that may be replaced by a fork of it ...
  Fork,          \* ... of this name
  Local,         \* a directory used as a replacement
  MaxRuns        \* bound on runs of the script

Versions == 1 .. MaxVersion
Modules  == Deps \X Versions

Partial(S, T) == UNION {[D -> T] : D \in SUBSET S}

Replacement == [name : {Fork, Local}, version : Versions]

\* Replace directives: a fork replaces what it is a fork of.
Directives == {r \in Partial(Deps, Replacement) :
                 \A d \in DOMAIN r : r[d].name = Fork => d = Original}

\* What the modules require, and the requirements and replace directives in go.mod
\* of the core and of the plugin.
IsWorld(w) ==
  /\ w.requires \in [Modules -> SUBSET Modules]
  /\ {w.core, w.plugin} \subseteq Partial(Deps, Versions)
  /\ {w.core_replaces, w.plugin_replaces} \subseteq Directives

ASSUME DepsAssumption ==
  /\ IsFiniteSet(Deps) /\ Original \in Deps
  /\ Position \in [Deps -> Nat]
  /\ \A d, e \in Deps : Position[d] = Position[e] => d = e
  /\ Fork \notin Deps /\ Local \notin Deps \cup {Fork}
  /\ MaxVersion \in Nat \ {0} /\ MaxRuns \in Nat
ASSUME WorldsAssumption == \A w \in Worlds : IsWorld(w)

VARIABLES
  world,   \* what the script finds and does not change
  plugin,  \* the requirements in the plugin's go.mod
  at,      \* where the script is
  todo,    \* what the last comparison found, and go get has yet to fix
  exit,    \* the exit status, of the last run that ended
  runs

vars == <<world, plugin, at, todo, exit, runs>>

-----------------------------------------------------------------------------
(* go list -m all, and what the script reads in it.                        *)

Edges(requirements) == {<<d, requirements[d]>> : d \in DOMAIN requirements}

\* Whatever is required by what is required ...
Reached(requirements) ==
  LET reached[n \in Nat] ==
        IF n = 0 THEN Edges(requirements)
        ELSE UNION {{m} \cup world.requires[m] : m \in reached[n - 1]}
  IN  reached[Cardinality(Modules)]

\* ... in the highest version required.
Selected(requirements) ==
  LET reached == Reached(requirements) IN
  [d \in {m[1] : m \in reached} |->
     CHOOSE v \in Versions : /\ <<d, v>> \in reached
                             /\ \A w \in Versions : <<d, w>> \in reached => w <= v]

Replaced(selected, replaced) == DOMAIN selected \cap DOMAIN replaced

\* map_deps_to_version: a replaced module goes by the name of its replacement.
map_deps_to_version(requirements, replaced) ==
  LET selected == Selected(requirements)
      hidden   == Replaced(selected, replaced)
  IN  [d \in (DOMAIN selected \ hidden) \cup {replaced[h].name : h \in hidden} |->
         IF d \in DOMAIN selected THEN selected[d]
         ELSE replaced[Original].version]

\* go list fails when a fork is required under its own name, the script when a
\* replacement has no version.
Lists(requirements, replaced) ==
  /\ Fork \notin DOMAIN requirements
  /\ \A d \in DOMAIN Selected(requirements) \cap DOMAIN replaced : replaced[d].name # Local

core_deps_mapping == map_deps_to_version(world.core, world.core_replaces)

\* Mutant: a dependency the plugin does not have is a conflict.
Conflicts_Missing(mapping) ==
  {d \in DOMAIN core_deps_mapping :
     d \notin DOMAIN mapping \/ mapping[d] # core_deps_mapping[d]}

Conflicts(mapping) ==
  {d \in DOMAIN core_deps_mapping \cap DOMAIN mapping :
     mapping[d] # core_deps_mapping[d]}

PluginConflicts == Conflicts(map_deps_to_version(plugin, world.plugin_replaces))

-----------------------------------------------------------------------------
(* The script.                                                             *)

Exit(status) ==
  /\ at' = "exited" /\ exit' = status
  /\ todo' = {}
  /\ UNCHANGED <<world, runs>>

\* A fork is listed in the place of what it replaces.
Place(d) == Position[IF d = Fork THEN Original ELSE d]

\* Mutant: go.mod is written with nothing else in it.
Edited_Only(conflicts) == [d \in conflicts |-> core_deps_mapping[d]]

\* go mod edit -require=d@v for each of them.
Edited(conflicts) ==
  [d \in DOMAIN plugin \cup conflicts |->
     IF d \in conflicts THEN core_deps_mapping[d] ELSE plugin[d]]

Listed == Lists(plugin, world.plugin_replaces)

\* The edits, all of them or those before an interrupt.
Edit(conflicts) ==
  \E last \in conflicts :
    LET done == {d \in conflicts : Place(d) <= Place(last)} IN
    /\ plugin' = Edited(done)
    /\ IF done = conflicts THEN at' = "edited" /\ UNCHANGED <<world, todo, exit, runs>>
       ELSE Exit(1)

\* The first comparison.
Compare ==
  /\ at = "start"
  /\ IF ~(Lists(world.core, world.core_replaces) /\ Listed) THEN Exit(1) /\ UNCHANGED plugin
     ELSE LET conflicts == PluginConflicts IN
          IF conflicts = {} THEN Exit(0) /\ UNCHANGED plugin ELSE Edit(conflicts)

\* The second comparison.
CompareAgain ==
  /\ at = "edited"
  /\ UNCHANGED plugin
  /\ IF ~Listed THEN Exit(1)
     ELSE LET conflicts == PluginConflicts IN
          IF conflicts = {} THEN Exit(0)
          ELSE /\ at' = "getting" /\ todo' = conflicts
               /\ UNCHANGED <<world, exit, runs>>

\* Does m in this version need more of d than v.
Needs(m, version, d, v) ==
  \E w \in Versions : w > v /\ <<d, w>> \in Reached([n \in {m} |-> version])

\* Mutant: what has to go is left behind with no version.
Got_None(d, v) ==
  LET selected == Selected(plugin)
      fits(m)  == {w \in Versions : w <= selected[m] /\ ~Needs(m, w, d, v)}
  IN  [m \in DOMAIN selected \cup {d} |->
         IF m = d THEN v ELSE IF fits(m) = {} THEN 0
         ELSE CHOOSE w \in fits(m) : \A x \in fits(m) : x <= w]

\* go.mod after go get d@v: everything as selected, or lowered until it gets by
\* with d@v, or gone.
Got(d, v) ==
  LET selected == Selected(plugin)
      fits(m)  == {w \in Versions : w <= selected[m] /\ ~Needs(m, w, d, v)}
      kept     == {m \in DOMAIN selected \ {d} : fits(m) # {}}
  IN  [m \in kept \cup {d} |->
         IF m = d THEN v ELSE CHOOSE w \in fits(m) : \A x \in fits(m) : x <= w]

\* The one go get comes to next.
Following == CHOOSE d \in todo : \A e \in todo : Place(d) <= Place(e)

\* go get fails, as it must when a fork is required under its own name, or does
\* as it is told.
GoGet ==
  /\ at = "getting" /\ todo # {}
  /\ \/ Exit(1) /\ UNCHANGED plugin
     \/ /\ Fork \notin DOMAIN plugin
        /\ plugin' = Got(Following, core_deps_mapping[Following])
        /\ todo' = todo \ {Following}
        /\ UNCHANGED <<world, at, exit, runs>>

\* Mutant: what go get has been asked for is taken as done.
Conclude_Unseen ==
  /\ at = "getting" /\ todo = {}
  /\ UNCHANGED plugin
  /\ IF ~Listed THEN Exit(1) ELSE Exit(0)

\* The last comparison.
Conclude ==
  /\ at = "getting" /\ todo = {}
  /\ UNCHANGED plugin
  /\ IF Listed /\ PluginConflicts = {} THEN Exit(0) ELSE Exit(1)

\* Somebody runs the script, for the first time or once more.
Run ==
  /\ at = "exited" /\ runs < MaxRuns
  /\ at' = "start" /\ runs' = runs + 1
  /\ UNCHANGED <<world, plugin, todo, exit>>

Init ==
  /\ world \in Worlds
  /\ plugin = world.plugin
  /\ at = "exited" /\ exit = 1
  /\ todo = {} /\ runs = 0

Next == Run \/ Compare \/ CompareAgain \/ GoGet \/ Conclude

Spec == Init /\ [][Next]_vars

-----------------------------------------------------------------------------
(* Properties.                                                             *)

TypeOK ==
  /\ world \in Worlds /\ plugin \in Partial(Deps \cup {Fork}, Versions)
  /\ at \in {"start", "edited", "getting", "exited"}
  /\ todo \subseteq Deps \cup {Fork} /\ exit \in {0, 1} /\ runs \in 0 .. MaxRuns

\* The code a repository is built with, of a dependency.
CodeOf(selected, replaced, d) ==
  IF d \in DOMAIN replaced THEN replaced[d] ELSE [name |-> d, version |-> selected[d]]

\* Core and plugin are built from the same code of every dependency they share.
InSync ==
  LET core_selected   == Selected(world.core)
      plugin_selected == Selected(plugin)
  IN  \A d \in DOMAIN core_selected \cap DOMAIN plugin_selected :
        CodeOf(core_selected, world.core_replaces, d)
          = CodeOf(plugin_selected, world.plugin_replaces, d)

\* When the script exits with 0, after whichever of its three comparisons, core
\* and plugin are in sync, though each go mod edit and each go get may have moved
\* what was already equal or brought in what was not there, and whatever an
\* interrupted run left (gomoderator.py:91-138).
ResolvedMeansEqual == at = "exited" /\ exit = 0 => InSync

\* A plugin that is in sync stays in sync: a run has nothing to do there, nor does
\* what is left of a run once one of its fixes has settled the rest.  This, and the
\* next property, are claimed where a later version of a module requires no less
\* than an earlier one, which go does not guarantee.
InSyncStays == [][Listed /\ InSync => (Listed /\ InSync)']_plugin

\* With a core that is ahead everywhere the plugin is only moved forward: nothing
\* it is built from is lowered or lost on the way (gomoderator.py:87, 110).
Ahead ==
  LET core_selected   == Selected(world.core)
      plugin_selected == Selected(world.plugin)
  IN  \A d \in DOMAIN core_selected \cap DOMAIN plugin_selected :
        plugin_selected[d] <= core_selected[d]

OnlyForward ==
  [][Listed /\ Listed' /\ Ahead =>
       LET before == Selected(plugin)
           after  == Selected(plugin')
       IN  \A d \in DOMAIN before : d \in DOMAIN after /\ after[d] >= before[d]]_plugin
=============================================================================

---------------------------- MODULE MCGoModerator ----------------------------
(* Three dependencies, two versions of each.  a may require b and c, b may   *)
(* require c, and a later version never requires less.                       *)
EXTENDS GoModerator, TLC

Names == {"a", "b", "c"}
InOrder == [b |-> 1, a |-> 2, c |-> 3]

\* Of a dependency: not required, or in that version.
Demand(d) == {{}} \cup {{<<d, v>>} : v \in Versions}

AtMost(lower, higher) == \A m \in lower : \E n \in higher : n[1] = m[1] /\ n[2] >= m[2]

Growing(demand) == {p \in demand \X demand : AtMost(p[1], p[2])}

\* Only the later a may require c, and then the later c.
Graphs ==
  {[m \in Modules |-> CASE m = <<"a", 1>> -> ab[1]
                        [] m = <<"a", 2>> -> ab[2] \cup ac
                        [] m = <<"b", 1>> -> bc[1]
                        [] m = <<"b", 2>> -> bc[2]
                        [] OTHER -> {}] :
     ab \in Growing(Demand("b")), ac \in {{}, {<<"c", 2>>}}, bc \in Growing(Demand("c"))}

CoreFiles   == [{"b", "c"} -> Versions] \cup [Names -> Versions]
PluginFiles == [{"a"} -> Versions] \cup [Names -> Versions]

Replacing(graphs, in_core, in_plugin) ==
  [requires : graphs, core : CoreFiles, plugin : PluginFiles,
   core_replaces : {in_core}, plugin_replaces : {in_plugin}]

None == <<>>
With(name, version) == "a" :> [name |-> name, version |-> version]

\* b@2 requires c@2, and the later a requires b.
AGraph == {g \in Graphs : /\ g[<<"a", 1>>] = {} /\ g[<<"a", 2>>] = {<<"b", 1>>}
                          /\ g[<<"b", 1>>] = {} /\ g[<<"b", 2>>] = {<<"c", 2>>}}

\* No replacement, the same fork, two versions of the fork, a directory.
AllWorlds ==
  Replacing(Graphs, None, None)
    \cup Replacing(AGraph, With("fork", 1), With("fork", 1))
    \cup Replacing(AGraph, With("fork", 1), With("fork", 2))
    \cup Replacing(AGraph, With("../fork", 1), With("../fork", 1))

\* The fork in go.mod of the plugin only, as go-ethereum's in this repository.
OneSided == Replacing(AGraph, None, With("fork", 1))
=============================================================================

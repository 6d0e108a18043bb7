----------------------------- MODULE MCStartup -----------------------------
(* An old and a new image of execute and a header sync; the new image brings *)
(* an oasis migration more, and as many core migrations as header sync.      *)
EXTENDS Startup, TLC

CONSTANTS old, new, sync

Cores   == old :> 2 @@ new :> 3 @@ sync :> 3
Release == old :> 1 @@ new :> 2

\* One execute and a header sync of the same release.
PairCores   == new :> 3 @@ sync :> 3
PairRelease == new :> 2
=============================================================================

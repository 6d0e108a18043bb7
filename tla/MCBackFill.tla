------------------------------ MODULE MCBackFill ------------------------------
(* One session goes up block by block, slot by slot; the other goes back in  *)
(* one slot only, and skips a height.                                        *)
EXTENDS BackFill, TLC

CONSTANTS up, back

Upwards   == << <<"s", 1>>, <<"t", 1>>, <<"s", 2>>, <<"s", 3>> >>
Backwards == << <<"s", 3>>, <<"s", 1>>, <<"s", 2>> >>

Calls == up :> Upwards @@ back :> Backwards
=============================================================================

----------------------------- MODULE OasisMirror -----------------------------
(***************************************************************************)
(* What the plugin promises its readers: the oasis schema is a mirror of   *)
(* the logs the database holds.  A log is mirrored as it is or not at all, *)
(* several logs may be mirrored at once, and an entry leaves the mirror in *)
(* the same step as its log and at no other time.                          *)
(***************************************************************************)
EXTENDS Tables

VARIABLES
  live,   \* id of a log the database holds -> what the log says
  mirror, \* id of a mirrored log -> what its row says
  seen    \* the ids ever given to a log

mirrorVars == <<live, mirror, seen>>

Init == live = Empty /\ mirror = Empty /\ seen = {}

\* A log turns up under an id that never named another.
Appear ==
  /\ \E l \in DOMAIN live' \ seen :
       /\ live' = With(live, l, live'[l])
       /\ seen' = seen \cup {l}
  /\ UNCHANGED mirror

\* Logs are withdrawn, and their entries with them.
Vanish ==
  /\ \E gone \in SUBSET DOMAIN live :
       /\ live' = Without(live, gone)
       /\ mirror' = Without(mirror, gone)
  /\ UNCHANGED seen

\* Logs are copied to the mirror, all of a batch or none.
Copy ==
  /\ \E batch \in SUBSET DOMAIN live :
       mirror' = [l \in DOMAIN mirror \cup batch |->
                    IF l \in batch THEN live[l] ELSE mirror[l]]
  /\ UNCHANGED <<live, seen>>

Next == Appear \/ Vanish \/ Copy

Spec == Init /\ [][Next]_mirrorVars

\* The mirror shows live logs only, and what they say: no entry of a log that
\* was reorganised away, none that differs from its log.
Faithful == /\ DOMAIN mirror \subseteq DOMAIN live
            /\ \A l \in DOMAIN mirror : mirror[l] = live[l]
=============================================================================

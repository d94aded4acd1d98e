--------------------------- MODULE MCPositionTick ---------------------------
(* Two places, two sessions; a unit of the clock stands for five seconds: an *)
(* unmatched hold is disowned and a report goes stale once the unit is over,  *)
(* a blank minimap and a lost ally's sighting one unit later.                 *)
EXTENDS PositionTick, TLC

DisownTimes == [r \in Reasons |-> IF r = "no-match" THEN 0 ELSE 1]
Symmetry    == Permutations(Places) \cup Permutations(Slots)
=============================================================================

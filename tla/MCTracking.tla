----------------------------- MODULE MCTracking -----------------------------
(* A lane and a base; a unit of the clock stands for about three seconds.     *)
EXTENDS Tracking

DisownTimes == [r \in Promise!Reasons |-> IF r = "no-match" THEN 0 ELSE 1]
=============================================================================

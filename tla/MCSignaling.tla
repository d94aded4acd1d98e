---------------------------- MODULE MCSignaling ----------------------------
(* Apps of one player in one room, their connections numbered.                *)
EXTENDS Signaling

CONSTANTS home, first,
  MaxSocket,          \* connections in a run
  MaxDisturbed        \* joins and leaves, drops and lost close frames, together

MCSockets   == 1..MaxSocket
MCAddresses == {home}
MCIpOf      == [s \in MCSockets |-> home]
MCNameOf    == [a \in Apps |-> CHOOSE n \in Names : TRUE]

\* The apps are alike, so the first call may be taken to be `first`'s.
MCNext ==
  /\ SignalingNext
  /\ calls' = 1 => wanted'[first] # NoRoom
  /\ calls' + drops' + lost' <= MaxDisturbed

MCSpec == SignalingInit /\ [][MCNext]_allVars /\ SignalingFairness
=============================================================================

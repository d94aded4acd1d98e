---------------------------- MODULE MCServerEdge ----------------------------
(* The server's parts around the rooms.  They share no state, so a behaviour  *)
(* is about one of them (`focus`) and the others keep a first state.          *)
EXTENDS Proximity, RateLimit, IceCache, ClientAddress, TLC

VARIABLE focus

Capacities == [l \in Limiters |-> IF l = "ip" THEN 2 ELSE 1]
Refills    == [l \in Limiters |-> 1]

Bits         == [f \in {4, 6} |-> IF f = 4 THEN 1 ELSE 2]
Net(f, m, p) == [v |-> f, n |-> m, prefix |-> p]
PrivateNets  == {Net(4, 0, 1), Net(6, 0, 1)}
OperatorSettings ==
  {[listed |-> {Absent}, hops |-> h] : h \in 0..2} \cup
  {[listed |-> {Off}, hops |-> 1],
   [listed |-> {Unusable, Net(4, 0, 0)}, hops |-> 2],
   [listed |-> {Net(4, 1, 1), Net(6, 2, 1)}, hops |-> 2],
   [listed |-> PrivateNets \cup {Unusable}, hops |-> 1]}

SomeSituation ==
  /\ elapsed = 0
  /\ mine = [team |-> NoTeam, camera |-> Nowhere]
  /\ theirs = [team |-> NoTeam, position |-> Nowhere, lastSeen |-> Nowhere, camera |-> Nowhere]
  /\ ask = [at |-> 0, room |-> TRUE, allyProximity |-> FALSE, alliesOnly |-> FALSE]
SomeRequest ==
  /\ setting = [listed |-> {Off}, hops |-> 1]
  /\ header = [peer |-> Absent, xff |-> <<>>, realIp |-> Absent]

EdgeInit ==
  /\ RateInit /\ IceInit
  /\ \/ focus = "scoring" /\ ProximityInit /\ SomeRequest
     \/ focus = "address" /\ SomeSituation /\ AddressInit
     \/ focus \in {"limits", "ice"} /\ SomeSituation /\ SomeRequest

EdgeNext ==
  /\ \/ focus = "scoring" /\ GrowOlder /\ UNCHANGED <<rateVars, iceVars, addressVars>>
     \/ focus = "limits" /\ RateNext /\ UNCHANGED <<situation, iceVars, addressVars>>
     \/ focus = "ice" /\ IceNext /\ UNCHANGED <<situation, rateVars, addressVars>>
     \/ focus = "address" /\ Pad /\ UNCHANGED <<situation, rateVars, iceVars>>
  /\ UNCHANGED focus

EdgeSpec == EdgeInit /\ [][EdgeNext]_<<situation, rateVars, iceVars, addressVars, focus>>

Housemates == Permutations(Names)
=============================================================================

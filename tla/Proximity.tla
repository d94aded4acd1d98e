----------------------------- MODULE Proximity -----------------------------
(***************************************************************************)
(* How the server scores one player for another (server/src/volumes.ts):    *)
(* computeTieredVolumes over the room state a request finds, and the older  *)
(* computeVolumes over positions the request carries.  The map is a line:   *)
(* only distances matter to the score.                                      *)
(*                                                                         *)
(* A behaviour is one situation - the requester, the other player, what is  *)
(* asked - growing older with no report from either.                        *)
(***************************************************************************)
EXTENDS Integers

CONSTANTS
  Coordinates,       \* places, as integers
  FullRange,         \* FULL_VOLUME_RANGE
  HearingRange,      \* MAX_HEARING_RANGE
  StaleAge,          \* STALE_POSITION_MS
  AnchorAge,         \* LOST_ALLY_ANCHOR_MS
  BlobAge,           \* BLOB_MAX_AGE_MS
  Ages,              \* bound: how old what room state holds may be at first
  MaxAgeing          \* bound on the time that passes

ASSUME ProximityAssumption ==
  /\ Coordinates \subseteq Int /\ Ages \subseteq Nat /\ MaxAgeing \in Nat
  /\ FullRange \in Nat /\ HearingRange \in Nat /\ FullRange < HearingRange
  /\ StaleAge \in Nat /\ AnchorAge \in Nat /\ BlobAge \in Nat /\ StaleAge < AnchorAge

VARIABLES
  elapsed,   \* how long ago the situation was set up
  mine,      \* the requester's entry: team, camera
  theirs,    \* the other's: team, position, lastSeen, camera
  ask        \* the request: at, room, allyProximity, alliesOnly
situation == <<elapsed, mine, theirs, ask>>

Nowhere == [x |-> 0, ms |-> -1000]      \* an absent position
Spot    == [x : Coordinates, ms : {-a : a \in Ages}] \cup {Nowhere}
Teams   == {"ORDER", "CHAOS"}
NoTeam  == "none"                       \* a client from before teams

-----------------------------------------------------------------------------
Distance(p, q) == IF p < q THEN q - p ELSE p - q

\* Volumes are integers out of Full.
Full   == (HearingRange - FullRange) * (HearingRange - FullRange)
LeftOut == -1                            \* the player is left out of the response

\* calculateVolume: a plateau, then a quadratic fall to the edge.
CalculateVolume(d) ==
  IF d >= HearingRange THEN 0
  ELSE IF d <= FullRange THEN Full
  ELSE Full - (d - FullRange) * (d - FullRange)

Age(spot) == elapsed - spot.ms
Fresh(spot) == spot # Nowhere /\ Age(spot) <= StaleAge

FreshCamera(spot) == Fresh(spot)

\* allyAnchor: the later of the two, if it is recent enough.
AllyAnchor ==
  LET latest == IF theirs.position.ms >= theirs.lastSeen.ms THEN theirs.position
                                                           ELSE theirs.lastSeen
  IN IF latest # Nowhere /\ Age(latest) <= AnchorAge THEN latest ELSE Nowhere

IsAlly == mine.team # NoTeam /\ theirs.team = mine.team

\* Voice on camera takes both: the requester hears from its champion and its
\* camera, the other is heard at their champion.
BothOptedIn == FreshCamera(mine.camera) /\ FreshCamera(theirs.camera)
MyPoints == {ask.at} \cup (IF BothOptedIn THEN {mine.camera.x} ELSE {})

ClosestApproach(from, to) ==
  CHOOSE d \in {Distance(p, to) : p \in from} : \A p \in from : d <= Distance(p, to)

\* Wrong variant of ScoredAt: the other team's last sighting counts too.
ScoredAtAnchor == IF AllyAnchor # Nowhere THEN AllyAnchor ELSE theirs.position

\* An ally's fresh or last known position, anyone else's fresh one.
ScoredAt ==
  IF IsAlly THEN AllyAnchor
  ELSE IF Fresh(theirs.position) THEN theirs.position ELSE Nowhere

\* Wrong variant of Unattenuated: an ally is lost once their position is stale.
UnattenuatedWhenStale == IsAlly /\ (~ask.allyProximity \/ ~Fresh(theirs.position))

Unattenuated == IsAlly /\ (~ask.allyProximity \/ AllyAnchor = Nowhere)

TieredVolume ==
  LET d == ClosestApproach(MyPoints, ScoredAt.x)
  IN IF ask.alliesOnly /\ ~IsAlly THEN LeftOut
     ELSE IF Unattenuated THEN Full
     ELSE IF ScoredAt = Nowhere \/ d >= HearingRange THEN LeftOut
     ELSE CalculateVolume(d)

\* computeVolumes: decryptPosition refuses a position too old, or from a clock
\* too far ahead.
BlobVolume ==
  IF theirs.position = Nowhere \/ Age(theirs.position) > BlobAge THEN 0
  ELSE CalculateVolume(Distance(ask.at, theirs.position.x))

\* The endpoint picks by the shape of the request.
PeerVolume == IF ask.room THEN TieredVolume ELSE BlobVolume

-----------------------------------------------------------------------------
(* setPosition drops the last sighting, and clearPosition the position and   *)
(* the camera: an entry has one of the two, and a camera beside a position.  *)

ProximityInit ==
  /\ elapsed = 0
  /\ mine \in [team : Teams \cup {NoTeam}, camera : Spot]
  /\ theirs \in [team : Teams \cup {NoTeam}, position : Spot, lastSeen : Spot, camera : Spot]
  /\ theirs.position = Nowhere \/ theirs.lastSeen = Nowhere
  /\ theirs.camera # Nowhere => theirs.camera.ms = theirs.position.ms
  /\ ask \in [at : Coordinates, room : BOOLEAN, allyProximity : BOOLEAN, alliesOnly : BOOLEAN]

GrowOlder ==
  /\ elapsed < MaxAgeing
  /\ elapsed' = elapsed + 1
  /\ UNCHANGED <<mine, theirs, ask>>

ProximitySpec == ProximityInit /\ [][GrowOlder]_situation

-----------------------------------------------------------------------------
\* Nobody of the other team, and nobody at all to a client that names no team,
\* is heard but from a fresh position in sight of our champion or, with both
\* cameras published and fresh, of our camera; and never when only allies were
\* asked for.
CrossTeamNeedsSight ==
  ask.room /\ ~IsAlly /\ PeerVolume > 0 =>
    /\ ~ask.alliesOnly
    /\ theirs.position # Nowhere /\ Age(theirs.position) <= StaleAge
    /\ \/ Distance(ask.at, theirs.position.x) < HearingRange
       \/ /\ mine.camera # Nowhere /\ Age(mine.camera) <= StaleAge
          /\ theirs.camera # Nowhere /\ Age(theirs.camera) <= StaleAge
          /\ Distance(mine.camera.x, theirs.position.x) < HearingRange

\* With no new report a volume only falls, never rises, as what it rests on
\* grows older: except an ally's, whom the team must not lose and who returns
\* to full once nobody knows where they are.
AgeingOnlyNarrows ==
  [][elapsed' > elapsed =>
       \/ PeerVolume' <= PeerVolume
       \/ /\ IsAlly /\ ask.room
          /\ PeerVolume' = Full /\ (AllyAnchor = Nowhere)']_situation
=============================================================================

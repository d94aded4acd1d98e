-------------------------- MODULE ServerEdgeProofs --------------------------
(***************************************************************************)
(* Proofs about the server's parts around the rooms: the request limits, who *)
(* is heard, the cached TURN credentials, and the address a request is     *)
(* counted under.                                                          *)
(***************************************************************************)
EXTENDS RateLimit, Proximity, IceCache, ClientAddress,
        SequenceTheorems, WellFoundedInduction, TLAPS

-----------------------------------------------------------------------------
(* Request limits.                                                        *)

Bucket == [tokens : Nat, last : Nat]

\* Every bucket is within its capacity and was last refilled by now.
BucketsOK ==
  /\ clock \in Nat
  /\ buckets \in [Keys -> Bucket \cup {NoBucket}]
  /\ \A k \in Keys : buckets[k] # NoBucket =>
       buckets[k].tokens <= Cap[k] /\ buckets[k].last <= clock

-----------------------------------------------------------------------------
LEMMA NextMultiple == \A d, r \in Nat : (d + 1) * r = d * r + r
  OBVIOUS

LEMMA MultiplesGrow == ASSUME NEW a \in Nat, NEW b \in Nat, NEW r \in Nat, b <= a
                       PROVE  b * r <= a * r
  <1> DEFINE e == a - b
  <1>1. e \in Nat /\ a = b + e
    OBVIOUS
  <1> HIDE DEF e
  <1>2. a * r = b * r + e * r
    BY <1>1
  <1>3. e * r \in Nat /\ b * r \in Nat
    BY <1>1
  <1> QED BY <1>2, <1>3

LEMMA KeyLimiter == ASSUME NEW k \in Keys PROVE k.limiter \in Limiters
  <1>1. CASE k \in [limiter : {"turn", "ip"}, ip : Ips, name : {Nobody}]
    BY <1>1 DEF Limiters
  <1>2. CASE k \in [limiter : {"player"}, ip : Ips, name : Names \cup {Nobody}]
    BY <1>2 DEF Limiters
  <1> QED BY <1>1, <1>2 DEF Keys

LEMMA Limits == \A k \in Keys : Cap[k] \in Nat /\ Rate[k] \in Nat /\ Cap[k] <= IdleAfter * Rate[k]
  <1> TAKE k \in Keys
  <1>1. k.limiter \in Limiters
    BY KeyLimiter
  <1>2. Cap[k] = Capacity[k.limiter] /\ Rate[k] = Refill[k.limiter]
    BY DEF Cap, Rate
  <1> QED BY <1>1, <1>2, RateAssumption

LEMMA FilledBounds == ASSUME BucketsOK, NEW k \in Keys
                      PROVE  Filled(k) \in Nat /\ Filled(k) <= Cap[k]
  <1>1. Cap[k] \in Nat /\ Rate[k] \in Nat
    BY Limits
  <1>2. CASE buckets[k] = NoBucket
    BY <1>1, <1>2 DEF Filled
  <1>3. CASE buckets[k] # NoBucket
    <2> DEFINE due == (clock - buckets[k].last) * Rate[k]
    <2>1. buckets[k].tokens \in Nat /\ clock - buckets[k].last \in Nat
      BY <1>3 DEF BucketsOK, Bucket
    <2>2. due \in Nat
      BY <1>1, <2>1
    <2>3. Filled(k) = UpTo(buckets[k].tokens + due, Cap[k])
      BY <1>3 DEF Filled
    <2> HIDE DEF due
    <2> QED BY <1>1, <2>1, <2>2, <2>3 DEF UpTo
  <1> QED BY <1>2, <1>3

-----------------------------------------------------------------------------
(* The invariant.                                                           *)

LEMMA NewBucket == NoBucket \notin Bucket
  BY RateAssumption DEF Bucket

LEMMA VisitKeepsBuckets == ASSUME BucketsOK, NEW k \in Keys, Visit(k), UNCHANGED clock
                           PROVE  BucketsOK'
  <1> DEFINE left == [tokens |-> IF Filled(k) >= 1 THEN Filled(k) - 1 ELSE Filled(k),
                      last |-> clock]
  <1>1. Filled(k) \in Nat /\ Filled(k) <= Cap[k] /\ Cap[k] \in Nat
    BY FilledBounds, Limits
  <1>2. left \in Bucket /\ left.tokens <= Cap[k] /\ left.last = clock
    BY <1>1 DEF Bucket, BucketsOK
  <1>3. buckets' = [buckets EXCEPT ![k] = left]
    BY DEF Visit
  <1> HIDE DEF left
  <1>4. buckets' \in [Keys -> Bucket \cup {NoBucket}]
    BY <1>2, <1>3 DEF BucketsOK
  <1>5. ASSUME NEW j \in Keys, buckets'[j] # NoBucket
        PROVE  buckets'[j].tokens <= Cap[j] /\ buckets'[j].last <= clock
    <2>1. CASE j = k
      BY <1>2, <1>3, <2>1 DEF BucketsOK
    <2>2. CASE j # k
      BY <1>3, <1>5, <2>2 DEF BucketsOK
    <2> QED BY <2>1, <2>2
  <1> QED BY <1>4, <1>5 DEF BucketsOK

LEMMA PruneKeepsBuckets == ASSUME BucketsOK, Prune PROVE BucketsOK'
  <1>1. buckets' \in [Keys -> Bucket \cup {NoBucket}]
    BY DEF Prune, BucketsOK
  <1>2. \A k \in Keys : buckets'[k] # NoBucket => buckets'[k] = buckets[k]
    BY DEF Prune, BucketsOK
  <1> QED BY <1>1, <1>2 DEF Prune, BucketsOK

\* What a step of the server does to the buckets and the clock.
LEMMA Steps == ASSUME RateNext
               PROVE  \/ \E k \in Keys : Visit(k) /\ UNCHANGED clock
                      \/ UNCHANGED <<clock, buckets, answer>>
                      \/ Prune
                      \/ clock' = clock + 1 /\ UNCHANGED <<buckets, answer>>
  <1>1. ASSUME NEW ip \in Ips, TurnCredentials(ip)
        PROVE  \E k \in Keys : Visit(k) /\ UNCHANGED clock
    <2>1. Key("turn", ip, Nobody) \in Keys
      BY DEF Key, Keys
    <2> QED BY <1>1, <2>1 DEF TurnCredentials
  <1>2. ASSUME NEW ip \in Ips, PostArrives(ip)
        PROVE  \E k \in Keys : Visit(k) /\ UNCHANGED clock
    <2>1. Key("ip", ip, Nobody) \in Keys
      BY DEF Key, Keys
    <2> QED BY <1>2, <2>1 DEF PostArrives
  <1>3. ASSUME NEW ip \in Ips, NEW name \in Names \cup {Nobody}, PostEnds(ip, name)
        PROVE  \E k \in Keys : Visit(k) /\ UNCHANGED clock
    <2>1. Key("player", ip, name) \in Keys
      BY DEF Key, Keys
    <2> QED BY <1>3, <2>1 DEF PostEnds
  <1>4. ASSUME NEW ip \in Ips, PostTooLarge(ip) \/ PostUnreadable(ip)
        PROVE  UNCHANGED <<clock, buckets, answer>>
    BY <1>4 DEF PostTooLarge, PostUnreadable
  <1>5. ReportRefusals => UNCHANGED <<clock, buckets, answer>>
    BY DEF ReportRefusals
  <1>6. TimePasses => clock' = clock + 1 /\ UNCHANGED <<buckets, answer>>
    BY DEF TimePasses
  <1> QED BY <1>1, <1>2, <1>3, <1>4, <1>5, <1>6 DEF RateNext

LEMMA BucketsInductive == BucketsOK /\ [RateNext]_rateVars => BucketsOK'
  <1> SUFFICES ASSUME BucketsOK, [RateNext]_rateVars PROVE BucketsOK'
    OBVIOUS
  <1>1. ASSUME NEW k \in Keys, Visit(k), UNCHANGED clock PROVE BucketsOK'
    BY <1>1, VisitKeepsBuckets
  <1>2. CASE UNCHANGED <<clock, buckets, answer>>
    BY <1>2 DEF BucketsOK
  <1>3. CASE Prune
    BY <1>3, PruneKeepsBuckets
  <1>4. CASE clock' = clock + 1 /\ UNCHANGED <<buckets, answer>>
    BY <1>4 DEF BucketsOK, Bucket
  <1>5. CASE UNCHANGED rateVars
    BY <1>5 DEF BucketsOK, rateVars
  <1> QED BY <1>1, <1>2, <1>3, <1>4, <1>5, Steps

\* A bucket is never above its capacity and never refilled in the future.
THEOREM BucketsHold == RateSpec => []BucketsOK
  <1>1. RateInit => BucketsOK
    BY DEF RateInit, BucketsOK
  <1> QED BY <1>1, BucketsInductive, PTL DEF RateSpec

-----------------------------------------------------------------------------
(* The refinement.                                                          *)

LEMMA VisitAsks == ASSUME BucketsOK, BucketsOK', NEW k \in Keys, Visit(k), UNCHANGED clock
                   PROVE  Budget!Ask(k)
  <1> DEFINE rest == IF Filled(k) >= 1 THEN Filled(k) - 1 ELSE Filled(k)
             level == [j \in Keys |-> Filled(j)]
  <1>1. Filled(k) \in Nat /\ Filled(k) <= Cap[k] /\ Cap[k] \in Nat /\ Rate[k] \in Nat
    BY FilledBounds, Limits
  <1>2. rest \in Nat /\ rest <= Cap[k]
    BY <1>1
  <1>3. buckets' = [buckets EXCEPT ![k] = [tokens |-> rest, last |-> clock]]
    BY DEF Visit
  <1> HIDE DEF rest
  <1>4. \A j \in Keys : j # k => Filled(j)' = Filled(j)
    <2> SUFFICES ASSUME NEW j \in Keys, j # k PROVE Filled(j)' = Filled(j)
      OBVIOUS
    <2>1. buckets'[j] = buckets[j]
      BY <1>3 DEF BucketsOK
    <2> QED BY <2>1 DEF Filled
  <1>5. Filled(k)' = rest
    <2>1. buckets'[k] = [tokens |-> rest, last |-> clock]
      BY <1>3 DEF BucketsOK
    <2>2. buckets'[k] # NoBucket
      BY <2>1, <1>2, NewBucket DEF BucketsOK, Bucket
    <2>3. (clock' - buckets'[k].last) * Rate[k] = 0
      <3>1. clock' - buckets'[k].last = 0
        BY <2>1 DEF BucketsOK
      <3> QED BY <3>1, <1>1
    <2>4. Filled(k)' = UpTo(buckets'[k].tokens + (clock' - buckets'[k].last) * Rate[k], Cap[k])
      BY <2>2 DEF Filled
    <2> QED BY <2>1, <2>3, <2>4, <1>1, <1>2 DEF UpTo
  <1>6. level' = IF level[k] >= 1 THEN [level EXCEPT ![k] = level[k] - 1] ELSE level
    <2>1. CASE Filled(k) >= 1
      BY <1>4, <1>5, <2>1 DEF rest
    <2>2. CASE ~(Filled(k) >= 1)
      BY <1>4, <1>5, <2>2 DEF rest
    <2> QED BY <2>1, <2>2
  <1>7. answer' = <<k, level[k] >= 1>>
    BY DEF Visit
  <1> QED BY <1>6, <1>7 DEF Budget!Ask

LEMMA PruneIsSilent == ASSUME BucketsOK, Prune, NEW k \in Keys PROVE Filled(k)' = Filled(k)
  <1>1. Cap[k] \in Nat /\ Rate[k] \in Nat /\ Cap[k] <= IdleAfter * Rate[k] /\ IdleAfter \in Nat
    BY Limits, RateAssumption
  <1>2. CASE buckets[k] # NoBucket /\ clock - buckets[k].last > IdleAfter
    <2> DEFINE due == (clock - buckets[k].last) * Rate[k]
    <2>1. buckets'[k] = NoBucket
      BY <1>2 DEF Prune
    <2>2. buckets[k].tokens \in Nat /\ clock - buckets[k].last \in Nat
      BY <1>2 DEF BucketsOK, Bucket
    <2>3. IdleAfter * Rate[k] <= due
      BY <1>1, <1>2, <2>2, MultiplesGrow
    <2>4. due \in Nat /\ IdleAfter * Rate[k] \in Nat
      BY <1>1, <2>2
    <2>5. Filled(k) = UpTo(buckets[k].tokens + due, Cap[k])
      BY <1>2 DEF Filled
    <2> HIDE DEF due
    <2>6. Filled(k) = Cap[k]
      <3> DEFINE full == IdleAfter * Rate[k]
      <3>1. Cap[k] <= full /\ full <= due /\ full \in Nat
        BY <1>1, <2>3, <2>4
      <3> HIDE DEF full
      <3> QED BY <1>1, <2>2, <2>4, <2>5, <3>1 DEF UpTo
    <2> QED BY <2>1, <2>6 DEF Filled
  <1>3. CASE ~(buckets[k] # NoBucket /\ clock - buckets[k].last > IdleAfter)
    BY <1>3 DEF Prune, Filled
  <1> QED BY <1>2, <1>3

LEMMA TimeAccrues == ASSUME BucketsOK, clock' = clock + 1, UNCHANGED buckets, NEW k \in Keys
                     PROVE  Filled(k)' = Budget!Fill(Filled(k) + Rate[k], Cap[k])
  <1>1. Cap[k] \in Nat /\ Rate[k] \in Nat
    BY Limits
  <1>2. CASE buckets[k] = NoBucket
    BY <1>1, <1>2 DEF Filled, Budget!Fill
  <1>3. CASE buckets[k] # NoBucket
    <2> DEFINE age == clock - buckets[k].last
               due == age * Rate[k]
    <2>1. buckets[k].tokens \in Nat /\ age \in Nat /\ clock' - buckets'[k].last = age + 1
      BY <1>3 DEF BucketsOK, Bucket
    <2>2. (age + 1) * Rate[k] = due + Rate[k]
      BY <1>1, <2>1, NextMultiple
    <2>3. due \in Nat
      BY <1>1, <2>1
    <2>4. Filled(k) = UpTo(buckets[k].tokens + due, Cap[k])
      BY <1>3 DEF Filled
    <2>5. Filled(k)' = UpTo(buckets[k].tokens + (due + Rate[k]), Cap[k])
      BY <1>3, <2>1, <2>2 DEF Filled
    <2> HIDE DEF age, due
    <2> QED BY <1>1, <2>1, <2>3, <2>4, <2>5 DEF UpTo, Budget!Fill
  <1> QED BY <1>2, <1>3

\* Every limiter is a budget per key: lazy refill and pruning are not to be
\* noticed in what it grants and refuses.
THEOREM LimiterIsABudget == RateSpec => IsABudget
  <1>1. RateInit => Budget!BudgetInit
    BY DEF RateInit, Budget!BudgetInit, Filled
  <1>2. BucketsOK /\ BucketsOK' /\ [RateNext]_rateVars => [Budget!BudgetNext]_(Budget!budgetVars)
    <2> SUFFICES ASSUME BucketsOK, BucketsOK', [RateNext]_rateVars
                 PROVE  [Budget!BudgetNext]_(Budget!budgetVars)
      OBVIOUS
    <2>1. ASSUME NEW k \in Keys, Visit(k), UNCHANGED clock PROVE Budget!BudgetNext
      BY <2>1, VisitAsks DEF Budget!BudgetNext
    <2>2. CASE UNCHANGED <<clock, buckets, answer>>
      BY <2>2 DEF Budget!budgetVars, Filled
    <2>3. CASE Prune
      <3>1. answer' = answer
        BY <2>3 DEF Prune
      <3>2. [k \in Keys |-> Filled(k)]' = [k \in Keys |-> Filled(k)]
        BY <2>3, PruneIsSilent
      <3> QED BY <3>1, <3>2 DEF Budget!budgetVars
    <2>4. CASE clock' = clock + 1 /\ UNCHANGED <<buckets, answer>>
      <3>1. Budget!Accrue
        BY <2>4, TimeAccrues DEF Budget!Accrue
      <3> QED BY <3>1 DEF Budget!BudgetNext
    <2>5. CASE UNCHANGED rateVars
      BY <2>5 DEF rateVars, Budget!budgetVars, Filled
    <2> QED BY <2>1, <2>2, <2>3, <2>4, <2>5, Steps
  <1> QED BY <1>1, <1>2, BucketsHold, PTL DEF RateSpec, IsABudget, Budget!BudgetSpec

-----------------------------------------------------------------------------
(* Proximity.                                                             *)

AnySpot == [x : Int, ms : Int]

\* The situation is made of places, teams and times.
ProximityTypeOK ==
  /\ elapsed \in Nat
  /\ mine \in [team : Teams \cup {NoTeam}, camera : AnySpot]
  /\ theirs \in [team : Teams \cup {NoTeam}, position : AnySpot, lastSeen : AnySpot, camera : AnySpot]
  /\ ask \in [at : Int, room : BOOLEAN, allyProximity : BOOLEAN, alliesOnly : BOOLEAN]

LEMMA SpotType == Spot \subseteq AnySpot
<1>1. {-a : a \in Ages} \subseteq Int /\ Coordinates \subseteq Int
  BY ProximityAssumption
<1>2. [x : Coordinates, ms : {-a : a \in Ages}] \subseteq [x : Int, ms : Int]
  BY <1>1
<1>3. Nowhere \in [x : Int, ms : Int]
  BY DEF Nowhere
<1>. QED BY <1>2, <1>3 DEF Spot, AnySpot

LEMMA InitType == ProximityInit => ProximityTypeOK
<1> SUFFICES ASSUME ProximityInit PROVE ProximityTypeOK
  OBVIOUS
<1>1. elapsed \in Nat
  BY DEF ProximityInit
<1>2. mine \in [team : Teams \cup {NoTeam}, camera : AnySpot]
  BY SpotType DEF ProximityInit
<1>3. theirs \in [team : Teams \cup {NoTeam}, position : AnySpot, lastSeen : AnySpot, camera : AnySpot]
  BY SpotType DEF ProximityInit
<1>4. ask \in [at : Int, room : BOOLEAN, allyProximity : BOOLEAN, alliesOnly : BOOLEAN]
  BY ProximityAssumption DEF ProximityInit
<1>. QED BY <1>1, <1>2, <1>3, <1>4 DEF ProximityTypeOK

LEMMA StepType == ProximityTypeOK /\ [GrowOlder]_situation => ProximityTypeOK'
BY DEF ProximityTypeOK, GrowOlder, situation

\* The types hold throughout, so every score is worked out from numbers.
THEOREM SituationStays == ProximitySpec => []ProximityTypeOK
BY InitType, StepType, PTL DEF ProximitySpec

-----------------------------------------------------------------------------
(* The closest of one or two points.                                        *)

LEMMA DistanceType == \A p, q \in Int : Distance(p, q) \in Nat
BY DEF Distance

\* closestApproach returns one of the distances, and none is smaller.
LEMMA Closest ==
  ASSUME NEW p \in Int, NEW q \in Int, NEW to \in Int
  PROVE  /\ ClosestApproach({p, q}, to) \in {Distance(p, to), Distance(q, to)}
         /\ ClosestApproach({p, q}, to) <= Distance(p, to)
         /\ ClosestApproach({p, q}, to) <= Distance(q, to)
<1> DEFINE ds == {Distance(r, to) : r \in {p, q}}
<1>1. ds = {Distance(p, to), Distance(q, to)}
  OBVIOUS
<1>2. Distance(p, to) \in Nat /\ Distance(q, to) \in Nat
  BY DistanceType
<1>3. \E d \in ds : \A r \in {p, q} : d <= Distance(r, to)
  <2>1. CASE Distance(p, to) <= Distance(q, to)
    BY <2>1, <1>1, <1>2
  <2>2. CASE Distance(q, to) <= Distance(p, to)
    BY <2>2, <1>1, <1>2
  <2>. QED BY <2>1, <2>2, <1>2
<1>4. ClosestApproach({p, q}, to) \in ds
       /\ \A r \in {p, q} : ClosestApproach({p, q}, to) <= Distance(r, to)
  BY <1>3 DEF ClosestApproach
<1>. QED BY <1>4, <1>1

\* What the requester hears from: its champion, and its camera if both opted in.
LEMMA Hearing ==
  ASSUME ProximityTypeOK, NEW to \in Int
  PROVE  /\ ClosestApproach(MyPoints, to) \in Nat
         /\ ClosestApproach(MyPoints, to) <= Distance(ask.at, to)
         /\ \/ ClosestApproach(MyPoints, to) = Distance(ask.at, to)
            \/ BothOptedIn /\ ClosestApproach(MyPoints, to) = Distance(mine.camera.x, to)
         /\ BothOptedIn => ClosestApproach(MyPoints, to) <= Distance(mine.camera.x, to)
<1>1. ask.at \in Int /\ mine.camera.x \in Int
  BY DEF ProximityTypeOK, AnySpot
<1>2. Distance(ask.at, to) \in Nat /\ Distance(mine.camera.x, to) \in Nat
  BY <1>1, DistanceType
<1>3. CASE BothOptedIn
  <2>1. MyPoints = {ask.at, mine.camera.x}
    BY <1>3 DEF MyPoints
  <2>. QED BY <1>1, <1>2, <1>3, <2>1, Closest
<1>4. CASE ~BothOptedIn
  <2>1. MyPoints = {ask.at, ask.at}
    BY <1>4 DEF MyPoints
  <2>. QED BY <1>1, <1>2, <1>4, <2>1, Closest
<1>. QED BY <1>3, <1>4

-----------------------------------------------------------------------------
\* Enemies, and everyone to a client without a team, are heard only in sight.
LEMMA SightNeeded == ProximityTypeOK => CrossTeamNeedsSight
<1> SUFFICES ASSUME ProximityTypeOK, ask.room, ~IsAlly, PeerVolume > 0
             PROVE  CrossTeamNeedsSight
  BY DEF CrossTeamNeedsSight
<1> DEFINE d == ClosestApproach(MyPoints, ScoredAt.x)
<1>1. TieredVolume > 0
  BY DEF PeerVolume
<1>2. ~ask.alliesOnly
  BY <1>1 DEF TieredVolume, LeftOut
<1>3. ~Unattenuated
  BY DEF Unattenuated
<1>4. ScoredAt # Nowhere /\ ~(d >= HearingRange)
  BY <1>1, <1>2, <1>3 DEF TieredVolume, LeftOut
<1>5. ScoredAt = theirs.position /\ theirs.position # Nowhere /\ Age(theirs.position) <= StaleAge
  BY <1>4 DEF ScoredAt, Fresh
<1>6. theirs.position.x \in Int
  BY DEF ProximityTypeOK, AnySpot
<1>7. d \in Nat /\ d < HearingRange
  BY <1>4, <1>5, <1>6, Hearing, ProximityAssumption
<1>8. \/ d = Distance(ask.at, theirs.position.x)
      \/ BothOptedIn /\ d = Distance(mine.camera.x, theirs.position.x)
  BY <1>5, <1>6, Hearing
<1>9. BothOptedIn => /\ mine.camera # Nowhere /\ Age(mine.camera) <= StaleAge
                     /\ theirs.camera # Nowhere /\ Age(theirs.camera) <= StaleAge
  BY DEF BothOptedIn, FreshCamera, Fresh
<1>. QED BY <1>2, <1>5, <1>7, <1>8, <1>9 DEF CrossTeamNeedsSight

\* Whatever the ranges and age limits, the other team is heard only from a
\* fresh position in sight (computeTieredVolumes).
THEOREM EnemiesNeedSight == ProximitySpec => []CrossTeamNeedsSight
BY SituationStays, SightNeeded, PTL

-----------------------------------------------------------------------------
(* The fall-off.                                                            *)

LEMMA SquaresGrow == \A a, b \in Nat : a <= b => a * a <= b * b
<1> TAKE a, b \in Nat
<1> HAVE a <= b
<1>1. PICK c \in Nat : b = a + c
  BY b - a \in Nat, b = a + (b - a)
<1>2. b * b = a * a + 2 * (a * c) + c * c
  BY <1>1
<1>3. a * c \in Nat /\ c * c \in Nat /\ a * a \in Nat
  BY <1>1
<1>. QED BY <1>2, <1>3

LEMMA FallsOff ==
  /\ Full \in Nat
  /\ \A d \in Nat : CalculateVolume(d) \in Nat /\ CalculateVolume(d) <= Full
  /\ \A d, e \in Nat : d <= e => CalculateVolume(e) <= CalculateVolume(d)
<1> DEFINE edge == HearingRange - FullRange
           drop(d) == (d - FullRange) * (d - FullRange)
<1>1. FullRange \in Nat /\ HearingRange \in Nat /\ edge \in Nat
  BY ProximityAssumption
<1>2. Full \in Nat
  BY <1>1 DEF Full
<1>3. ASSUME NEW d \in Nat, d > FullRange, d < HearingRange
      PROVE  drop(d) \in Nat /\ drop(d) <= Full
  <2>1. d - FullRange \in Nat /\ d - FullRange <= edge
    BY <1>1, <1>3
  <2>2. (d - FullRange) * (d - FullRange) <= edge * edge
    BY <2>1, <1>1, SquaresGrow
  <2>. QED BY <2>1, <2>2 DEF Full
<1>4. ASSUME NEW d \in Nat PROVE CalculateVolume(d) \in Nat /\ CalculateVolume(d) <= Full
  <2>. HIDE DEF drop
  <2>1. CalculateVolume(d) = IF d >= HearingRange THEN 0
                             ELSE IF d <= FullRange THEN Full ELSE Full - drop(d)
    BY DEF CalculateVolume, drop
  <2>. QED BY <2>1, <1>1, <1>2, <1>3
<1>5. ASSUME NEW d \in Nat, NEW e \in Nat, d <= e PROVE CalculateVolume(e) <= CalculateVolume(d)
  <2>1. CASE e >= HearingRange
    <3>1. CalculateVolume(e) = 0
      BY <2>1 DEF CalculateVolume
    <3>. QED BY <3>1, <1>4
  <2>2. CASE e < HearingRange /\ d <= FullRange
    <3>1. CalculateVolume(d) = Full
      BY <2>2, <1>1, <1>5 DEF CalculateVolume
    <3>. QED BY <3>1, <1>4
  <2>3. CASE e < HearingRange /\ d > FullRange
    <3>1. d - FullRange \in Nat /\ e - FullRange \in Nat /\ d - FullRange <= e - FullRange
      BY <2>3, <1>1, <1>5
    <3>2. drop(d) <= drop(e)
      BY <3>1, SquaresGrow
    <3>3. drop(d) \in Nat /\ drop(e) \in Nat
      BY <2>3, <1>1, <1>3, <1>5
    <3>. HIDE DEF drop
    <3>4. CalculateVolume(d) = Full - drop(d) /\ CalculateVolume(e) = Full - drop(e)
      BY <2>3, <1>1, <1>5 DEF CalculateVolume, drop
    <3>. QED BY <1>2, <3>2, <3>3, <3>4
  <2>. QED BY <2>1, <2>2, <2>3, <1>1
<1>. QED BY <1>2, <1>4, <1>5

-----------------------------------------------------------------------------
(* Growing older.                                                           *)

\* What was too old stays so; the anchor is the same or gone.
LEMMA OlderIsLess ==
  ASSUME ProximityTypeOK, ProximityTypeOK', GrowOlder
  PROVE  /\ IsAlly' = IsAlly /\ UNCHANGED <<mine, theirs, ask>>
         /\ Fresh(theirs.position)' => Fresh(theirs.position)
         /\ BothOptedIn' => BothOptedIn
         /\ AllyAnchor' \in {AllyAnchor, Nowhere}
<1>1. elapsed \in Nat /\ elapsed' = elapsed + 1 /\ UNCHANGED <<mine, theirs, ask>>
  BY DEF GrowOlder, ProximityTypeOK
<1>2. /\ theirs.position \in AnySpot /\ theirs.lastSeen \in AnySpot
      /\ theirs.camera \in AnySpot /\ mine.camera \in AnySpot
  BY DEF ProximityTypeOK
<1>3. ASSUME NEW s \in AnySpot PROVE s.ms \in Int
  BY <1>3 DEF AnySpot
<1>4. StaleAge \in Nat /\ AnchorAge \in Nat
  BY ProximityAssumption
<1>5. IsAlly' = IsAlly
  BY <1>1 DEF IsAlly
<1>6. Fresh(theirs.position)' => Fresh(theirs.position)
  BY <1>1, <1>2, <1>3, <1>4 DEF Fresh, Age
<1>7. BothOptedIn' => BothOptedIn
  BY <1>1, <1>2, <1>3, <1>4 DEF BothOptedIn, FreshCamera, Fresh, Age
<1>8. AllyAnchor' \in {AllyAnchor, Nowhere}
  <2> DEFINE latest == IF theirs.position.ms >= theirs.lastSeen.ms THEN theirs.position
                                                                  ELSE theirs.lastSeen
  <2>1. latest \in AnySpot /\ latest' = latest
    BY <1>1, <1>2
  <2>2. AllyAnchor = IF latest # Nowhere /\ elapsed - latest.ms <= AnchorAge THEN latest ELSE Nowhere
    BY DEF AllyAnchor, Age
  <2>3. AllyAnchor' = IF latest # Nowhere /\ elapsed' - latest.ms <= AnchorAge THEN latest ELSE Nowhere
    BY <2>1, <1>1 DEF AllyAnchor, Age
  <2>. HIDE DEF latest
  <2>. QED BY <1>1, <1>3, <1>4, <2>1, <2>2, <2>3
<1>. QED BY <1>1, <1>5, <1>6, <1>7, <1>8

\* With one anchor and fewer points to hear from, nobody comes closer.
LEMMA NotCloser ==
  ASSUME ProximityTypeOK, ProximityTypeOK', GrowOlder, NEW to \in Int
  PROVE  /\ ClosestApproach(MyPoints, to)' \in Nat
         /\ ClosestApproach(MyPoints, to) <= ClosestApproach(MyPoints, to)'
<1>1. UNCHANGED <<mine, ask>> /\ (BothOptedIn' => BothOptedIn)
  BY OlderIsLess
<1>2. ask.at \in Int /\ mine.camera.x \in Int
  BY DEF ProximityTypeOK, AnySpot
<1>3. CASE BothOptedIn'
  <2>1. MyPoints' = MyPoints
    BY <1>1, <1>3 DEF MyPoints
  <2>2. ClosestApproach(MyPoints, to)' = ClosestApproach(MyPoints, to)
    BY <2>1 DEF ClosestApproach, Distance
  <2>. QED BY <2>2, Hearing
<1>4. CASE ~BothOptedIn'
  <2>1. MyPoints' = {ask.at, ask.at}
    BY <1>1, <1>4 DEF MyPoints
  <2>2. ClosestApproach(MyPoints, to)' = ClosestApproach({ask.at, ask.at}, to)
    BY <2>1 DEF ClosestApproach, Distance
  <2>3. ClosestApproach({ask.at, ask.at}, to) = Distance(ask.at, to)
    BY <1>2, Closest
  <2>. QED BY <1>2, <2>2, <2>3, DistanceType, Hearing
<1>. QED BY <1>3, <1>4

LEMMA TieredNarrows ==
  ASSUME ProximityTypeOK, ProximityTypeOK', GrowOlder
  PROVE  TieredVolume' <= TieredVolume \/ (IsAlly /\ TieredVolume = Full /\ AllyAnchor = Nowhere)'
<1> DEFINE d == ClosestApproach(MyPoints, ScoredAt.x)
<1>1. IsAlly' = IsAlly /\ UNCHANGED <<mine, theirs, ask>>
  BY OlderIsLess
<1>2. CASE ask.alliesOnly /\ ~IsAlly
  BY <1>1, <1>2 DEF TieredVolume, LeftOut
<1>3. CASE ~(ask.alliesOnly /\ ~IsAlly) /\ Unattenuated'
  <2>1. TieredVolume' = Full /\ IsAlly'
    BY <1>1, <1>3 DEF TieredVolume, Unattenuated, Full
  <2>2. CASE AllyAnchor' = Nowhere
    BY <2>1, <2>2 DEF Full, Nowhere
  <2>3. CASE AllyAnchor' # Nowhere
    <3>1. Unattenuated
      BY <1>1, <1>3, <2>3 DEF Unattenuated, Nowhere
    <3>2. TieredVolume = Full
      BY <3>1, <1>3 DEF TieredVolume
    <3>. QED BY <2>1, <3>2, FallsOff
  <2>. QED BY <2>2, <2>3
<1>4. CASE ~(ask.alliesOnly /\ ~IsAlly) /\ ~Unattenuated'
  <2>1. TieredVolume' = IF ScoredAt' = Nowhere \/ d' >= HearingRange
                        THEN LeftOut ELSE CalculateVolume(d')
    BY <1>1, <1>4 DEF TieredVolume, CalculateVolume, Full, Nowhere, LeftOut
  <2>2. \/ TieredVolume = Full
        \/ TieredVolume = IF ScoredAt = Nowhere \/ d >= HearingRange
                          THEN LeftOut ELSE CalculateVolume(d)
    BY <1>4 DEF TieredVolume
  <2>3. ScoredAt \in AnySpot /\ ScoredAt' \in AnySpot
    BY <1>1 DEF ScoredAt, AllyAnchor, ProximityTypeOK, AnySpot, Nowhere
  <2>4. ScoredAt' \in {ScoredAt, Nowhere}
    BY <1>1, OlderIsLess DEF ScoredAt, Nowhere
  <2>5. ScoredAt.x \in Int /\ d \in Nat
    BY <2>3, Hearing DEF AnySpot
  <2>6. CASE ScoredAt' = Nowhere
    BY <2>1, <2>2, <2>5, <2>6, FallsOff DEF LeftOut
  <2>7. CASE ScoredAt' = ScoredAt /\ ScoredAt # Nowhere
    <3>1. d <= d' /\ d' \in Nat
      <4>1. PICK x \in Int : x = ScoredAt.x /\ x = ScoredAt'.x
        BY <2>5, <2>7
      <4>2. d = ClosestApproach(MyPoints, x) /\ d' = ClosestApproach(MyPoints, x)'
        BY <4>1 DEF ClosestApproach, Distance
      <4>. QED BY <4>1, <4>2, NotCloser
    <3>2. /\ HearingRange \in Nat /\ Full \in Nat
           /\ CalculateVolume(d) \in Nat /\ CalculateVolume(d) <= Full
           /\ CalculateVolume(d') \in Nat /\ CalculateVolume(d') <= CalculateVolume(d)
      BY <3>1, <2>5, FallsOff, ProximityAssumption
    <3>3. TieredVolume' \in {LeftOut, CalculateVolume(d')}
      BY <2>1
    <3>. HIDE DEF d
    <3>4. CASE d' >= HearingRange
      <4>1. TieredVolume' = LeftOut
        BY <2>1, <3>4
      <4>2. TieredVolume \in {LeftOut, Full, CalculateVolume(d)}
        BY <2>2
      <4>. QED BY <4>1, <4>2, <3>2 DEF LeftOut
    <3>5. CASE d' < HearingRange
      <4>1. ~(d >= HearingRange)
        BY <3>1, <3>2, <3>5, <2>5
      <4>2. TieredVolume \in {Full, CalculateVolume(d)}
        BY <2>2, <2>7, <4>1
      <4>. QED BY <3>2, <3>3, <4>2 DEF LeftOut
    <3>. QED BY <3>1, <3>2, <3>4, <3>5
  <2>. QED BY <2>4, <2>6, <2>7
<1>. QED BY <1>2, <1>3, <1>4

\* computeVolumes knows no team: it only loses sight.
LEMMA BlobNarrows ==
  ASSUME ProximityTypeOK, ProximityTypeOK', GrowOlder
  PROVE  BlobVolume' <= BlobVolume
<1>1. UNCHANGED <<theirs, ask>> /\ elapsed' = elapsed + 1 /\ elapsed \in Nat
  BY DEF GrowOlder, ProximityTypeOK
<1>2. theirs.position.x \in Int /\ theirs.position.ms \in Int /\ ask.at \in Int /\ BlobAge \in Nat
  BY ProximityAssumption DEF ProximityTypeOK, AnySpot
<1>3. CalculateVolume(Distance(ask.at, theirs.position.x)) \in Nat
  BY <1>2, DistanceType, FallsOff
<1> DEFINE v == CalculateVolume(Distance(ask.at, theirs.position.x))
           p == theirs.position
<1>4. /\ BlobVolume = IF p = Nowhere \/ elapsed - p.ms > BlobAge THEN 0 ELSE v
      /\ BlobVolume' = IF p = Nowhere \/ elapsed' - p.ms > BlobAge THEN 0 ELSE v
  BY <1>1 DEF BlobVolume, Age, CalculateVolume, Distance, Full, Nowhere
<1> HIDE DEF v, p
<1>. QED BY <1>1, <1>2, <1>3, <1>4 DEF v, p

LEMMA NarrowingStep ==
  ASSUME ProximityTypeOK, ProximityTypeOK', [GrowOlder]_situation, elapsed' > elapsed
  PROVE  \/ PeerVolume' <= PeerVolume
         \/ IsAlly /\ ask.room /\ PeerVolume' = Full /\ (AllyAnchor = Nowhere)'
<1>1. GrowOlder
  <2>1. elapsed \in Nat
    BY DEF ProximityTypeOK
  <2>. QED BY <2>1 DEF situation
<1>2. ask' = ask /\ IsAlly' = IsAlly
  BY <1>1, OlderIsLess
<1>3. CASE ask.room
  BY <1>1, <1>2, <1>3, TieredNarrows DEF PeerVolume, Full
<1>4. CASE ~ask.room
  BY <1>1, <1>2, <1>4, BlobNarrows DEF PeerVolume
<1>. QED BY <1>3, <1>4

\* Silence never makes anyone louder, on any map and with any limits, but for
\* the ally nobody can place any more.
THEOREM VolumesOnlyNarrow == ProximitySpec => AgeingOnlyNarrows
<1>1. ProximityTypeOK /\ ProximityTypeOK' /\ [GrowOlder]_situation =>
        [elapsed' > elapsed =>
           \/ PeerVolume' <= PeerVolume
           \/ /\ IsAlly /\ ask.room
              /\ PeerVolume' = Full /\ (AllyAnchor = Nowhere)']_situation
  BY NarrowingStep
<1>. QED BY <1>1, SituationStays, PTL DEF ProximitySpec, AgeingOnlyNarrows

-----------------------------------------------------------------------------
(* TURN credentials.                                                        *)

Creds == [expires : Int, minted : Int]
Call  == [stage : {"idle", "fetching", "issued", "answered"}, had : Creds \cup {NoCreds},
          got : Creds \cup {NoCreds}, graced : BOOLEAN, at : Int]

\* The server counts a life from when the answer was in, at most an answer's way
\* after Cloudflare did.
Reckoned(creds) == creds \in Creds /\ creds.expires <= creds.minted + Life + MaxTransit

\* What an answer given at t holds: credentials with more than the refresh lead of
\* life left, or, in Cloudflare's absence, ones past their expiry by less than the grace.
Served(creds, graced, t) ==
  /\ Reckoned(creds)
  /\ graced = FALSE => creds.expires - t > Lead
  /\ graced = TRUE => t - creds.expires < Grace

CallOK(call) ==
  /\ call \in Call
  /\ call.had # NoCreds => Reckoned(call.had)
  /\ call.stage \in {"issued", "answered"} => call.at <= hour /\ hour - call.at <= MaxTransit
  /\ call.stage = "answered" /\ call.got # NoCreds => Served(call.got, call.graced, call.at)

\* The client keeps them for ClientLife from when they came in, at most an answer's
\* way after they were served.
KeptOK ==
  /\ iceCache.until \in Int /\ iceCache.graced \in BOOLEAN
  /\ \E t \in Int : /\ iceCache.until <= t + MaxTransit + ClientLife
                    /\ Served(iceCache.creds, iceCache.graced, t)

CredsOK ==
  /\ hour \in Nat
  /\ cached # NoCreds => Reckoned(cached)
  /\ request \in [Requests -> Call]
  /\ \A r \in Requests : CallOK(request[r])
  /\ iceCache # NoCreds => KeptOK

Fetching(call, creds) == [call EXCEPT !.stage = "fetching", !.had = creds]
Issued(call, t)       == [call EXCEPT !.stage = "issued", !.at = t]

LEMMA Calls ==
  ASSUME NEW call \in Call, NEW creds \in Creds \cup {NoCreds}, NEW t \in Int
  PROVE  /\ Fetching(call, creds) \in Call
         /\ Fetching(call, creds).stage = "fetching" /\ Fetching(call, creds).had = creds
         /\ Issued(call, t) \in Call /\ Issued(call, t).had = call.had
         /\ Issued(call, t).stage = "issued" /\ Issued(call, t).at = t
BY DEF Call, Fetching, Issued

LEMMA IdleCall == CallOK(Idle)
BY DEF CallOK, Idle, Call

\* A handler's step that leaves its call in order, and the caches with it.
LEMMA CallChanges ==
  ASSUME CredsOK, NEW r \in Requests, NEW call, CallOK(call),
         request' = [request EXCEPT ![r] = call], hour' = hour,
         cached' # NoCreds => Reckoned(cached'), iceCache' # NoCreds => KeptOK'
  PROVE  CredsOK'
<1>1. call \in Call
  BY DEF CallOK
<1>2. \A q \in Requests : CallOK(request'[q])
  BY <1>1 DEF CredsOK
<1>3. \A q \in Requests : CallOK(request[q])'
  BY <1>2 DEF CallOK
<1>4. request' \in [Requests -> Call]
  BY <1>1 DEF CredsOK
<1>. QED BY <1>3, <1>4 DEF CredsOK

LEMMA AnswerStep ==
  ASSUME CredsOK, NEW r \in Requests, NEW creds, NEW graced \in BOOLEAN, Answer(r, creds, graced),
         creds # NoCreds => Served(creds, graced, hour), hour' = hour,
         cached' # NoCreds => Reckoned(cached'), iceCache' = iceCache
  PROVE  CredsOK'
<1> DEFINE call == [stage |-> "answered", had |-> NoCreds, got |-> creds,
                    graced |-> graced, at |-> hour]
<1>1. hour \in Nat /\ MaxTransit \in Nat
  BY IceAssumption DEF CredsOK
<1>2. creds \in Creds \cup {NoCreds}
  BY DEF Served, Reckoned
<1>3. CallOK(call)
  <2>1. call \in Call
    BY <1>1, <1>2 DEF Call
  <2>2. hour - hour <= MaxTransit
    BY <1>1
  <2>. QED BY <1>1, <2>1, <2>2 DEF CallOK
<1>4. request' = [request EXCEPT ![r] = call]
  BY DEF Answer
<1>5. iceCache' # NoCreds => KeptOK'
  BY DEF CredsOK, KeptOK
<1>. HIDE DEF call
<1>. QED BY <1>3, <1>4, <1>5, CallChanges

LEMMA CredsStep ==
  ASSUME CredsOK, [IceNext]_iceVars
  PROVE  CredsOK'
<1>1. /\ hour \in Nat /\ MaxTransit \in Nat /\ Life \in Nat /\ Lead \in Nat /\ Lead < Life
      /\ Own \in Requests /\ ClientLife \in Nat
  BY IceAssumption DEF CredsOK
<1>2. iceCache' = iceCache => (iceCache' # NoCreds => KeptOK')
  BY DEF CredsOK, KeptOK
<1>3. ASSUME NEW r \in Requests, Arrive(r) PROVE CredsOK'
  <2>1. CASE LongLived(cached)
    <3>1. Served(cached, FALSE, hour)
      BY <2>1 DEF LongLived, Served, CredsOK
    <3>. QED BY <1>3, <2>1, <3>1, AnswerStep DEF Arrive, CredsOK
  <2>2. CASE ~LongLived(cached)
    <3>1. cached \in Creds \cup {NoCreds} /\ Idle \in Call
      BY IdleCall DEF CredsOK, Reckoned, CallOK
    <3>2. CallOK(Fetching(Idle, cached))
      BY <1>1, <3>1, Calls DEF CallOK, CredsOK
    <3>3. request' = [request EXCEPT ![r] = Fetching(Idle, cached)]
            /\ UNCHANGED <<hour, cached, iceCache>>
      BY <1>3, <2>2 DEF Arrive, Fetching
    <3>. QED BY <1>2, <3>2, <3>3, CallChanges DEF CredsOK
  <2>. QED BY <2>1, <2>2
<1>4. ASSUME NEW r \in Requests, Refused(r) PROVE CredsOK'
  BY <1>4, AnswerStep DEF Refused, CredsOK
<1>5. ASSUME NEW r \in Requests, Issue(r) PROVE CredsOK'
  <2> DEFINE call == Issued(request[r], hour)
  <2>1. request[r] \in Call /\ CallOK(request[r])
    BY DEF CredsOK
  <2>2. CallOK(call)
    <3>1. call \in Call /\ call.had = request[r].had /\ call.stage = "issued" /\ call.at = hour
      BY <1>1, <2>1, Calls
    <3>2. hour - hour <= MaxTransit
      BY <1>1
    <3>. HIDE DEF call
    <3>. QED BY <1>1, <2>1, <3>1, <3>2 DEF CallOK
  <2>3. request' = [request EXCEPT ![r] = call] /\ UNCHANGED <<hour, cached, iceCache>>
    BY <1>5 DEF Issue, Issued, CredsOK
  <2>. HIDE DEF call
  <2>. QED BY <1>2, <2>2, <2>3, CallChanges DEF CredsOK
<1>6. ASSUME NEW r \in Requests, FetchSucceeds(r) PROVE CredsOK'
  <2> DEFINE creds == [expires |-> hour + Life, minted |-> request[r].at]
  <2>1. request[r].at \in Int /\ hour - request[r].at <= MaxTransit
    BY <1>6 DEF FetchSucceeds, CredsOK, CallOK, Call
  <2>2. creds \in Creds /\ creds.expires = hour + Life /\ creds.minted = request[r].at
    BY <1>1, <2>1 DEF Creds
  <2>3. cached' = creds /\ Answer(r, creds, FALSE) /\ UNCHANGED <<hour, iceCache>>
    BY <1>6 DEF FetchSucceeds
  <2>. HIDE DEF creds
  <2>4. Served(creds, FALSE, hour)
    BY <1>1, <2>1, <2>2 DEF Served, Reckoned
  <2>. QED BY <2>3, <2>4, AnswerStep DEF Served
<1>7. ASSUME NEW r \in Requests, FetchFails(r) PROVE CredsOK'
  <2> DEFINE had == request[r].had
             got == IF had # NoCreds /\ hour - had.expires < Grace THEN had ELSE NoCreds
  <2>1. got # NoCreds => Served(got, TRUE, hour)
    BY DEF CredsOK, CallOK, Served
  <2>2. Answer(r, got, TRUE) /\ UNCHANGED <<hour, cached, iceCache>>
    BY <1>7 DEF FetchFails
  <2>. HIDE DEF got
  <2>. QED BY <2>1, <2>2, AnswerStep DEF CredsOK
<1>8. CASE Received
  <2>1. request' = [request EXCEPT ![Own] = Idle] /\ UNCHANGED <<hour, cached>>
    BY <1>8 DEF Received
  <2>2. CASE request[Own].got = NoCreds
    BY <1>1, <1>2, <1>8, <2>1, <2>2, IdleCall, CallChanges DEF Received, CredsOK
  <2>3. CASE request[Own].got # NoCreds
    <3> DEFINE call == request[Own]
    <3>1. /\ iceCache'.creds = call.got /\ iceCache'.until = hour + ClientLife
          /\ iceCache'.graced = call.graced
      BY <1>8, <2>3 DEF Received
    <3>2. /\ call.at \in Int /\ call.graced \in BOOLEAN /\ hour - call.at <= MaxTransit
          /\ Served(call.got, call.graced, call.at)
      BY <1>1, <1>8, <2>3 DEF Received, CredsOK, CallOK, Call
    <3>. HIDE DEF call
    <3>3. hour + ClientLife \in Int /\ hour + ClientLife <= call.at + MaxTransit + ClientLife
      BY <1>1, <3>2
    <3>4. KeptOK'
      BY <3>1, <3>2, <3>3 DEF KeptOK, Served, Reckoned
    <3>. QED BY <1>1, <2>1, <3>4, IdleCall, CallChanges DEF CredsOK
  <2>. QED BY <2>2, <2>3
<1>9. CASE Lost
  BY <1>1, <1>2, <1>9, IdleCall, CallChanges DEF Lost, CredsOK
<1>10. ASSUME NEW r \in Requests, Others(r) PROVE CredsOK'
  BY <1>2, <1>10, IdleCall, CallChanges DEF Others, CredsOK
<1>11. CASE HourPasses
  <2>1. /\ hour' = hour + 1 /\ UNCHANGED <<cached, request, iceCache>>
        /\ \A r \in Requests : request[r].stage \in {"issued", "answered"} => hour - request[r].at < MaxTransit
    BY <1>11 DEF HourPasses
  <2>2. ASSUME NEW r \in Requests PROVE CallOK(request[r])'
    <3>1. request[r].at \in Int
      BY DEF CredsOK, Call
    <3>. QED BY <1>1, <2>1, <3>1 DEF CredsOK, CallOK
  <2>. QED BY <1>1, <1>2, <2>1, <2>2 DEF CredsOK
<1>12. CASE UNCHANGED iceVars
  BY <1>2, <1>12 DEF iceVars, CredsOK, CallOK
<1>. QED BY <1>3, <1>4, <1>5, <1>6, <1>7, <1>8, <1>9, <1>10, <1>11, <1>12 DEF IceNext

LEMMA CredsInit == IceInit => CredsOK
BY IdleCall DEF IceInit, CredsOK, CallOK

LEMMA LeadOutlastsTheWays == CredsOK => CachedCredentialsLive
<1> SUFFICES ASSUME CredsOK, iceCache # NoCreds, hour < iceCache.until
             PROVE  CachedCredentialsLive
  BY DEF CachedCredentialsLive
<1>1. /\ hour \in Nat /\ MaxTransit \in Nat /\ Life \in Nat /\ Lead \in Nat /\ ClientLife \in Nat
      /\ Grace \in Nat
  BY IceAssumption DEF CredsOK
<1>2. PICK t \in Int : /\ iceCache.until <= t + MaxTransit + ClientLife
                       /\ Served(iceCache.creds, iceCache.graced, t)
  BY DEF CredsOK, KeptOK
<1>3. iceCache.until \in Int /\ iceCache.graced \in BOOLEAN
  BY DEF CredsOK, KeptOK
<1> DEFINE creds == iceCache.creds
<1>4. /\ creds # NoCreds /\ creds.expires \in Int /\ creds.minted \in Int
      /\ creds.expires <= creds.minted + Life + MaxTransit
  BY <1>2, IceAssumption DEF Served, Reckoned, Creds
<1>5. /\ iceCache.graced = FALSE => creds.expires - t > Lead
      /\ iceCache.graced = TRUE => t - creds.expires < Grace
  BY <1>2 DEF Served
<1>. HIDE DEF creds
<1>6. iceCache.graced = FALSE => creds.minted + Life - hour > Lead - ClientLife - 2 * MaxTransit
  BY <1>1, <1>2, <1>3, <1>4, <1>5
<1>7. iceCache.graced = TRUE => hour - creds.expires < Grace + ClientLife + MaxTransit
  BY <1>1, <1>2, <1>3, <1>4, <1>5
<1>. QED BY <1>3, <1>4, <1>6, <1>7 DEF CachedCredentialsLive, creds

\* Whatever the lifetimes and the ways: what a client builds a peer connection with
\* from its cache has life left, or is past its expiry by a bounded time.
THEOREM CachedCredentialsHaveLifeLeft == IceSpec => []CachedCredentialsLive
BY CredsInit, CredsStep, LeadOutlastsTheWays, PTL DEF IceSpec

-----------------------------------------------------------------------------
(* The address a request is counted under.                                  *)

Entries == Addresses \cup {Unusable}

HeaderOK ==
  /\ setting \in Settings
  /\ header \in [peer : Addresses \cup {Absent}, xff : Seq(Entries),
                 realIp : Addresses \cup {Unusable, Absent}]

LEMMA LastOf ==
  ASSUME NEW n \in Nat, NEW S \in SUBSET (1..n), S # {}
  PROVE  Max(S) \in S /\ \A x \in S : x <= Max(S)
<1> DEFINE Less   == {mn \in Nat \X Nat : mn[1] < mn[2]}
           Behind == {n - x : x \in S}
<1>1. IsWellFoundedOn(Less, Nat)
  BY NatLessThanWellFounded DEF OpToRel
<1>2. \A x, y \in Nat : <<y, x>> \notin Less => x <= y
  OBVIOUS
<1>3. Behind \subseteq Nat /\ Behind # {}
  <2>1. \A x \in S : n - x \in Nat
    OBVIOUS
  <2>2. PICK x \in S : TRUE
    OBVIOUS
  <2>. QED BY <2>1, <2>2
<1>. HIDE DEF Less
<1>4. PICK m \in Behind : \A k \in Behind : m <= k
  <2>. HIDE DEF Behind
  <2>1. PICK m \in Behind : \A k \in Behind : <<k, m>> \notin Less
    BY <1>1, <1>3, WFMin
  <2>. QED BY <1>2, <1>3, <2>1
<1>5. PICK last \in S : m = n - last
  OBVIOUS
<1>6. \A x \in S : x <= last
  <2>. SUFFICES ASSUME NEW x \in S PROVE x <= last
    OBVIOUS
  <2>1. m <= n - x
    BY <1>4
  <2>. QED BY <1>5, <2>1
<1>. QED BY <1>5, <1>6 DEF Max

\* What padding does to the header and to where the walk stops.
LEMMA Padded ==
  ASSUME HeaderOK, Pad
  PROVE  /\ HeaderOK' /\ Trust' = Trust
         /\ header'.peer = header.peer /\ header'.realIp = header.realIp
         /\ Len(xff') = Len(xff) + 1 /\ xff' # <<>>
         /\ \A i \in 1..Len(xff) : xff'[i + 1] = xff[i]
         /\ xff \in Seq(Entries) /\ xff' \in Seq(Entries)
<1>1. PICK e \in Entries : header' = [header EXCEPT !.xff = <<e>> \o xff]
  BY DEF Pad, Entries
<1>2. xff \in Seq(Entries)
  BY DEF HeaderOK, xff
<1>3. <<e>> \o xff \in Seq(Entries) /\ Len(<<e>> \o xff) = Len(xff) + 1
  BY <1>2
<1>4. /\ header'.peer = header.peer /\ header'.realIp = header.realIp /\ xff' = <<e>> \o xff
      /\ HeaderOK'
  BY <1>1, <1>3 DEF HeaderOK, Pad, xff
<1>5. \A i \in 1..Len(xff) : (<<e>> \o xff)[i + 1] = xff[i]
  BY <1>2
<1>6. xff' # <<>>
  BY <1>2, <1>3, <1>4
<1>7. Trust' = Trust
  BY DEF Pad, Trust, UsableNets
<1>. QED BY <1>2, <1>3, <1>4, <1>5, <1>6, <1>7

LEMMA SameSocketKey == ASSUME HeaderOK, Pad PROVE SocketKey' = SocketKey
BY Padded DEF SocketKey, BucketKey

\* Behind the entry where the walk stops, padding goes unread.
LEMMA ProxyListUnmoved ==
  ASSUME HeaderOK, Pad, Stops # {}
  PROVE  ByProxyList' = ByProxyList
<1> DEFINE n == Len(xff)
<1>1. /\ xff \in Seq(Entries) /\ xff' \in Seq(Entries) /\ Len(xff') = n + 1 /\ n \in Nat
      /\ xff' # <<>> /\ Trust' = Trust /\ SocketKey' = SocketKey
      /\ header'.peer = header.peer /\ header'.realIp = header.realIp
      /\ \A i \in 1..n : xff'[i + 1] = xff[i]
  BY Padded, SameSocketKey
<1>2. /\ Stops = {i \in 1..n : xff[i] = Unusable \/ ~InAnyNet(xff[i], Trust.nets)}
      /\ Stops' = {i \in 1..(n + 1) : xff'[i] = Unusable \/ ~InAnyNet(xff'[i], Trust.nets)}
  BY <1>1 DEF Stops, InAnyNet, InNet
<1>. HIDE DEF n
<1>3. /\ Stops \in SUBSET (1..n) /\ Stops' \in SUBSET (1..(n + 1))
      /\ \A i \in 1..n : i \in Stops <=> i + 1 \in Stops'
  BY <1>1, <1>2
<1> DEFINE last == Max(Stops)  last1 == Max(Stops')
<1>4. last \in Stops /\ \A i \in Stops : i <= last
  BY <1>1, <1>3, LastOf
<1>5. Stops' # {}
  BY <1>3, <1>4
<1>6. last1 \in Stops' /\ \A i \in Stops' : i <= last1
  <2>1. n + 1 \in Nat
    BY <1>1
  <2>. QED BY <1>3, <1>5, <2>1, LastOf
<1>. HIDE DEF last, last1
<1>7. last1 = last + 1 /\ last \in 1..n
  <2>1. last + 1 \in Stops' /\ last \in 1..n /\ last1 \in 1..(n + 1) /\ last + 1 <= last1
    BY <1>1, <1>3, <1>4, <1>6
  <2>2. last1 - 1 \in 1..n /\ (last1 - 1) + 1 = last1
    BY <1>1, <2>1
  <2>3. last1 - 1 \in Stops
    BY <1>3, <1>6, <2>2
  <2>. QED BY <1>4, <2>1, <2>2, <2>3
<1>8. xff'[last1] = xff[last] /\ xff # <<>>
  BY <1>1, <1>7 DEF n
<1>9. InAnyNet(header'.peer, Trust'.nets) = InAnyNet(header.peer, Trust.nets)
  BY <1>1
<1>10. ByProxyList =
         IF header.peer = Absent \/ ~InAnyNet(header.peer, Trust.nets) \/ xff[last] = Unusable
           THEN SocketKey ELSE BucketKey(xff[last])
  BY <1>8 DEF ByProxyList, last
<1>11. ByProxyList' =
         IF header'.peer = Absent \/ ~InAnyNet(header'.peer, Trust.nets) \/ xff'[last1] = Unusable
           THEN SocketKey' ELSE BucketKey(xff'[last1])
  BY <1>1, <1>5 DEF ByProxyList, last1, InAnyNet, InNet, BucketKey
<1>. QED BY <1>1, <1>8, <1>10, <1>11

\* Nor is an entry read beyond as many as there are hops.
LEMMA HopCountUnmoved ==
  ASSUME HeaderOK, Pad, Len(xff) >= Trust.hops, xff # <<>>
  PROVE  ByHopCount' = ByHopCount
<1>1. /\ xff \in Seq(Entries) /\ Len(xff') = Len(xff) + 1 /\ Len(xff) \in Nat
      /\ xff' # <<>> /\ Trust' = Trust /\ SocketKey' = SocketKey
      /\ header'.peer = header.peer /\ header'.realIp = header.realIp
      /\ \A i \in 1..Len(xff) : xff'[i + 1] = xff[i]
  BY Padded, SameSocketKey
<1>2. RealIp' = RealIp
  BY <1>1 DEF RealIp
<1>3. Trust.hops \in Nat
  BY AddressAssumption DEF Trust, HeaderOK
<1>4. CASE Trust.hops = 0
  BY <1>1, <1>4 DEF ByHopCount
<1>5. CASE Trust.hops # 0
  <2>1. Counted' = Counted
    <3>1. Len(xff) - Trust.hops + 1 \in 1..Len(xff)
      BY <1>1, <1>3, <1>5
    <3>2. Counted = xff[Len(xff) - Trust.hops + 1]
      BY DEF Counted
    <3>3. Counted' = xff'[(Len(xff) - Trust.hops + 1) + 1]
      <4> DEFINE n == Len(xff)  hops == Trust.hops
      <4>1. n \in Nat /\ hops \in Nat /\ n >= hops /\ Len(xff') = n + 1 /\ Trust'.hops = hops
        BY <1>1, <1>3
      <4>2. Counted' = xff'[IF Len(xff') >= Trust'.hops THEN Len(xff') - Trust'.hops + 1 ELSE Len(xff')]
        BY <1>1 DEF Counted
      <4>. HIDE DEF n, hops
      <4>3. Len(xff') >= Trust'.hops /\ Len(xff') - Trust'.hops + 1 = (n - hops + 1) + 1
        BY <4>1
      <4>. QED BY <4>2, <4>3 DEF n, hops
    <3>. QED BY <1>1, <3>1, <3>2, <3>3
  <2>. QED BY <1>1, <1>2, <2>1 DEF ByHopCount, InAnyNet, InNet, BucketKey
<1>. QED BY <1>4, <1>5

LEMMA HeaderInit == AddressInit => HeaderOK
BY EmptySeq DEF AddressInit, HeaderOK

\* For every setting, width and length: nothing written to the left of what the
\* operator's own proxies wrote changes the address a request is counted under.
THEOREM PaddingIsUnread == AddressInit /\ [][Pad]_addressVars => PaddingMovesNothing
<1> DEFINE Step == IF Trust.nets # {} THEN Stops # {} => ClientIp' = ClientIp
                   ELSE Len(xff) >= Trust.hops /\ xff # <<>> => ClientIp' = ClientIp
<1>1. HeaderOK /\ [Pad]_addressVars => HeaderOK'
  BY Padded DEF addressVars, HeaderOK
<1>2. HeaderOK /\ Pad => Step
  <2>. SUFFICES ASSUME HeaderOK, Pad PROVE Step
    OBVIOUS
  <2>1. Trust' = Trust
    BY Padded
  <2>. QED BY <2>1, ProxyListUnmoved, HopCountUnmoved DEF ClientIp
<1>3. HeaderOK /\ [Pad]_addressVars => [Step]_addressVars
  BY <1>2
<1>. HIDE DEF Step
<1>4. AddressInit /\ [][Pad]_addressVars => [][Step]_addressVars
  BY HeaderInit, <1>1, <1>3, PTL
<1>. QED BY <1>4 DEF Step, PaddingMovesNothing

=============================================================================

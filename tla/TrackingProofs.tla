----------------------------- MODULE TrackingProofs -----------------------------
(***************************************************************************)
(* Proofs about the tracker, for every set of places, every duration in     *)
(* tracking-helpers.ts and every limit the position tick may disown after.  *)
(* One invariant carries them: since when our own icon has not been seen,   *)
(* counted along the explanations (a cover, a merged blob, a hold) that one *)
(* frame after another may give for it.  With it each handler is shown to be *)
(* a step of TrackerPromise.                                                *)
(***************************************************************************)
EXTENDS Tracking, TLAPS

-----------------------------------------------------------------------------
(* The invariant.                                                           *)

Locks  == [state : {"scanning", "locked", "dead"}, at : Places \cup {NoPlace},
           hold : Clock, reason : {"no-match", "no-blobs", "none"},
           seen : [at : Places, ms : 0..MaxNow] \cup {NoPoint}]
Covers == [by : {"none", "enemy", "mate"}, since : Clock, seen : Clock, cam : Clock,
           partly : BOOLEAN, stacked : BOOLEAN, stackedSince : Clock, wide : BOOLEAN]
Scans  == [from : -Warmup..MaxNow, lostAt : Places \cup {NoPlace}, byReset : BOOLEAN,
           avoid : Places \cup {NoPlace}, until : -1..MaxNow + Avoid, aside : SUBSET Places]

\* A lock knows where we are and where we were seen, and a hold its reason.
LockShape ==
  /\ lock.hold = Never <=> lock.reason = "none"
  /\ lock.hold <= now
  /\ lock.state = "locked" => lock.at \in Places /\ lock.seen # NoPoint

\* How old the last frame may be, unless one was missed.
Lag == IF framed THEN 0 ELSE 1

\* Teammates' icons are ridden on one budget, which runs from the first.
Rides ==
  /\ ride = budget /\ budget <= now
  /\ cover.by = "mate" =>
       /\ budget # Never /\ budget <= cover.since
       /\ framed => now - budget <= MaxOccluded

\* An explanation begins where the last one's icon was found, and runs out.
Explained ==
  /\ cover.stacked => cover.stackedSince # Never
  /\ cover.since <= now /\ cover.stackedSince <= now
  /\ ownAt # Never =>
       /\ ownAt <= now /\ lock.state = "locked"
       /\ Clean => now - ownAt <= Lag /\ cover.stackedSince = Never
       /\ cover.by = "enemy" =>
            /\ ownAt >= cover.since - 1 /\ now - cover.since <= MaxOccluded + Lag
            /\ cover.stackedSince = Never
       /\ cover.by = "mate" =>
            /\ ownAt >= cover.since - 1 /\ now - budget <= MaxOccluded + Lag
            /\ cover.stackedSince = Never
       /\ cover.stacked =>
            /\ ownAt >= cover.stackedSince - 1
            /\ IF cover.wide THEN now - cover.stackedSince <= MaxStacked + Lag
                             ELSE now - ownAt <= Lag
       /\ lock.hold # Never =>
            lock.hold - ownAt <= (IF cover.stackedSince # Never THEN MaxStacked ELSE MaxOccluded) + 2

TrackInv == TrackingTypeOK /\ LockShape /\ Rides /\ Explained /\ heeded

-----------------------------------------------------------------------------
(* Shapes.                                                                  *)

LEMMA Units ==
  /\ ForcedHold \in Nat /\ MaxOccluded \in Nat /\ MaxStacked \in Nat /\ Avoid \in Nat
  /\ Warmup \in Nat /\ MaxNow \in Nat
  /\ DisownAfter["no-match"] \in Nat /\ DisownAfter["no-blobs"] \in Nat
  /\ NoPlace \notin Places /\ Never = -1
BY TrackingAssumption DEF Never

LEMMA Typed ==
  ASSUME TrackingTypeOK
  PROVE  /\ lock \in Locks /\ cover \in Covers /\ scan \in Scans
         /\ now \in 0..MaxNow /\ budget \in Clock /\ ownAt \in Clock /\ ride \in Clock
         /\ held \in BOOLEAN /\ framed \in BOOLEAN /\ heeded \in BOOLEAN
         /\ lock.state # "locked" => cover = NoCover /\ lock.hold = Never
         /\ cover.by # "none" \/ cover.stacked => lock.hold = Never /\ held
         /\ ~(cover.by # "none" /\ cover.stacked)
BY DEF TrackingTypeOK, Locks, Covers, Scans, Promise!Reasons, Promise!Sighting, Promise!Times

LEMMA OfTypeNext ==
  ASSUME lock' \in Locks, cover' \in Covers, scan' \in Scans,
         now' \in 0..MaxNow, budget' \in Clock, ownAt' \in Clock, ride' \in Clock,
         held' \in BOOLEAN, framed' \in BOOLEAN, heeded' \in BOOLEAN,
         lock'.state # "locked" => cover' = NoCover /\ lock'.hold = Never,
         cover'.by # "none" \/ cover'.stacked => lock'.hold = Never /\ held',
         ~(cover'.by # "none" /\ cover'.stacked)
  PROVE  TrackingTypeOK'
BY DEF TrackingTypeOK, Locks, Covers, Scans, Promise!Reasons, Promise!Sighting, Promise!Times

LEMMA Times == Never \in Clock /\ \A t \in Clock : t \in Int /\ (t # Never => t \in 0..MaxNow)
BY Units DEF Clock

LEMMA Bare ==
  /\ NoCover \in Covers /\ NoCover.by = "none" /\ NoCover.stacked = FALSE
  /\ NoCover.since = Never /\ NoCover.stackedSince = Never
BY Times DEF NoCover, Covers

LEMMA Known ==
  ASSUME TrackInv
  PROVE  /\ lock \in Locks /\ cover \in Covers /\ scan \in Scans
         /\ held \in BOOLEAN /\ framed \in BOOLEAN
         /\ now \in 0..MaxNow /\ now \in Nat /\ now \in Clock
         /\ budget \in Clock /\ ownAt \in Clock /\ ride \in Clock
         /\ budget \in Int /\ ownAt \in Int /\ lock.hold \in Clock /\ lock.hold \in Int
         /\ cover.since \in Clock /\ cover.stackedSince \in Clock
         /\ cover.since \in Int /\ cover.stackedSince \in Int
         /\ LockShape /\ Rides /\ Explained
<1>1. now \in 0..MaxNow /\ MaxNow \in Nat
  BY Typed, Units DEF TrackInv
<1>2. now \in Nat /\ now \in Clock
  BY <1>1 DEF Clock
<1>3. lock \in Locks /\ cover \in Covers /\ scan \in Scans /\ held \in BOOLEAN /\ framed \in BOOLEAN
      /\ budget \in Clock /\ ownAt \in Clock /\ ride \in Clock
  BY Typed DEF TrackInv
<1>4. lock.hold \in Clock /\ cover.since \in Clock /\ cover.stackedSince \in Clock
  BY <1>3 DEF Locks, Covers
<1>. QED BY <1>1, <1>2, <1>3, <1>4, Times DEF TrackInv

\* Locks, as the ways of setting them leave them.
LEMMA SightedLock ==
  ASSUME NEW p \in Places, now \in 0..MaxNow, NEW h \in Clock, NEW r \in {"no-match", "no-blobs", "none"}
  PROVE  LET l == Promise!Sighted(p, h, r) IN
         /\ l \in Locks /\ l.state = "locked" /\ l.at = p /\ l.hold = h /\ l.reason = r
         /\ l.seen # NoPoint
<1>1. [at |-> p, ms |-> now] \in [at : Places, ms : 0..MaxNow]
      /\ [at |-> p, ms |-> now] \in [at : Places, ms : Int]
  OBVIOUS
<1>. QED BY <1>1, TrackingAssumption DEF Promise!Sighted, Locks

LEMMA SeenLock ==
  ASSUME NEW p \in Places, now \in 0..MaxNow
  PROVE  /\ SeenAt(p) \in Locks /\ SeenAt(p).state = "locked" /\ SeenAt(p).at = p
         /\ SeenAt(p).hold = Never /\ SeenAt(p).reason = "none" /\ SeenAt(p).seen # NoPoint
BY SightedLock, Times DEF SeenAt

Moved(l, p, h, r) == [l EXCEPT !.at = p, !.hold = h, !.reason = r]

LEMMA MovedLock ==
  ASSUME lock \in Locks, NEW p \in Places, NEW h \in Clock,
         NEW r \in {"no-match", "no-blobs", "none"}, lock' = Moved(lock, p, h, r)
  PROVE  /\ lock' \in Locks /\ lock'.state = lock.state /\ lock'.at = p /\ lock'.hold = h
         /\ lock'.reason = r /\ lock'.seen = lock.seen
BY DEF Moved, Locks

LEMMA ScanningLock ==
  ASSUME NEW l \in Locks
  PROVE  LET m == Promise!Scanning(l) IN
         /\ m \in Locks /\ m.state = "scanning" /\ m.hold = Never /\ m.reason = "none"
         /\ m.at = l.at /\ m.seen = l.seen
BY Times DEF Promise!Scanning, Promise!NoHold, Locks, Never

-----------------------------------------------------------------------------
(* The promise, step by step.                                               *)

LEMMA SeesUs ==
  ASSUME lock.state \in {"scanning", "locked"}, NEW p \in Places, lock' = SeenAt(p)
  PROVE  Promise!See
BY DEF SeenAt, Promise!See, Promise!NoHold, Never

LEMMA SeesUsHolding ==
  ASSUME lock.state = "locked", NEW p \in Places, NEW h, NEW r,
         \/ h = Never /\ r = "none"
         \/ h = (IF lock.hold = Never THEN now ELSE lock.hold) /\ r \in {"no-match", "no-blobs"},
         lock' = Promise!Sighted(p, h, r)
  PROVE  Promise!See
BY DEF Promise!See, Promise!NoHold, Promise!Reasons, Never

LEMMA Rescans ==
  ASSUME lock.state = "locked", lock' = Promise!Scanning(lock),
         lock.hold = Never \/ now - lock.hold >= ForcedHold
  PROVE  Promise!Rescan
BY DEF Promise!Rescan, Promise!HoldDuration, Promise!NoHold, Never

-----------------------------------------------------------------------------
(* While scanning.                                                          *)

\* Without a lock there is nothing to explain.
LEMMA Unexplained ==
  ASSUME TrackInv, cover' = NoCover, ownAt' = Never, now' = now,
         ride' = budget', budget' \in {budget, Never}
  PROVE  Rides' /\ Explained'
<1>1. now \in Nat /\ Never = -1 /\ ride = budget /\ budget <= now
  BY Known, Units DEF Rides
<1>2. cover'.by = "none" /\ cover'.stacked = FALSE /\ cover'.since = Never
        /\ cover'.stackedSince = Never
  BY Bare
<1>. QED BY <1>1, <1>2 DEF Rides, Explained

LEMMA KeepScanningStep ==
  ASSUME TrackInv, lock.state = "scanning", NEW s \in Scans, KeepScanning(s),
         now' = now, framed' = (lock'.state = "locked")
  PROVE  TrackInv' /\ UNCHANGED lock
<1>1. UNCHANGED <<lock, held, cover, budget, ownAt, ride, heeded>> /\ scan' = s
  BY DEF KeepScanning
<1>2. framed' = FALSE
  BY <1>1, Zenon
<1>3. TrackingTypeOK /\ cover = NoCover /\ lock.hold = Never /\ ownAt = Never /\ heeded
  BY Typed DEF TrackInv, Explained
<1>4. Rides' /\ Explained'
  BY <1>1, <1>3, Unexplained DEF TrackInv, Rides
<1>5. TrackingTypeOK'
  BY <1>1, <1>2, <1>3, Typed, OfTypeNext
<1>. QED BY <1>1, <1>3, <1>4, <1>5 DEF TrackInv, LockShape

LEMMA LockOnStep ==
  ASSUME TrackInv, lock.state = "scanning", NEW p \in Places, NEW cand, NEW cleared, NEW s \in Scans,
         LockOn(p, cand, cleared, s), s.byReset /\ p = s.avoid => cleared \/ cand = {p},
         now' = now, framed' = (lock'.state = "locked")
  PROVE  TrackInv' /\ Promise!See
<1>1. /\ lock \in Locks /\ now \in 0..MaxNow /\ budget \in Clock /\ ride \in Clock
      /\ LockShape /\ Rides
  BY Typed DEF TrackInv
<1>2. /\ lock' = SeenAt(p) /\ held' = FALSE /\ cover' = NoCover
        /\ scan' = [NoScan EXCEPT !.from = now]
      /\ ownAt' = now /\ UNCHANGED <<budget, ride>>
  BY DEF LockOn, Found
<1>3. heeded' = TRUE
  BY Zenon DEF LockOn
<1>4. /\ lock' \in Locks /\ lock'.state = "locked" /\ lock'.at = p /\ lock'.hold = Never
      /\ lock'.reason = "none" /\ lock'.seen # NoPoint
  BY <1>1, <1>2, SeenLock
<1>5. framed' = TRUE
  BY <1>4, Zenon
<1>6. scan' \in Scans
  <2>1. scan' = [from |-> now, lostAt |-> NoPlace, byReset |-> FALSE, avoid |-> NoPlace,
                 until |-> Never, aside |-> {}]
    BY <1>2 DEF NoScan
  <2>2. now \in -Warmup..MaxNow /\ Never \in -1..MaxNow + Avoid
    BY <1>1, Units
  <2>. QED BY <2>1, <2>2 DEF Scans
<1>7. TrackingTypeOK'
  BY <1>1, <1>2, <1>3, <1>4, <1>5, <1>6, Bare, Times, OfTypeNext, Units DEF Clock
<1>8. LockShape'
  BY <1>1, <1>4, Units DEF LockShape
<1>9. Rides'
  BY <1>1, <1>2, Bare DEF Rides
<1>10. Explained'
  BY <1>1, <1>2, <1>4, <1>5, Bare, Units DEF Explained, Clean, Lag
<1>. QED BY <1>1, <1>2, <1>3, <1>7, <1>8, <1>9, <1>10, SeesUs DEF TrackInv

-----------------------------------------------------------------------------
(* While locked: what a frame does to the lock and to its explanation.      *)

\* A frame leaves the clock, and says whether we are locked.
FrameEnds == now' = now /\ framed' = (lock'.state = "locked")

LEMMA Framed ==
  ASSUME FrameEnds
  PROVE  /\ lock'.state = "locked" => framed' = TRUE
         /\ lock'.state # "locked" => framed' = FALSE
BY Zenon DEF FrameEnds

LEMMA LockedScans ==
  ASSUME TrackInv, lock.state = "locked", NEW p \in Places \cup {NoPlace}, NEW s \in Scans,
         NEW aside \in SUBSET Places, ScanNear(p, s, aside), UNCHANGED budget, FrameEnds,
         lock.hold = Never \/ now - lock.hold >= ForcedHold
  PROVE  TrackInv' /\ Promise!Rescan
<1>1. /\ lock' = Promise!Scanning(lock) /\ cover' = NoCover
      /\ held' = FALSE /\ ownAt' = Never /\ ride' = ride /\ budget' = budget /\ now' = now
      /\ scan' = [s EXCEPT !.from = now, !.lostAt = p, !.byReset = FALSE, !.aside = aside]
  BY DEF ScanNear, Unfound, FrameEnds
<1>2. heeded' = TRUE
  BY DEF ScanNear, TrackInv
<1>3. /\ lock' \in Locks /\ lock'.state = "scanning" /\ lock'.hold = Never /\ lock'.reason = "none"
  BY <1>1, Known, ScanningLock
<1>4. framed' = FALSE
  BY <1>3, Framed
<1>5. now \in -Warmup..MaxNow
  BY Known, Units
<1>6. scan' \in Scans
  BY <1>1, <1>5 DEF Scans
<1>7. TrackingTypeOK'
  BY <1>1, <1>2, <1>3, <1>4, <1>6, Known, Bare, Times, OfTypeNext
<1>8. Rides' /\ Explained'
  BY <1>1, Known, Unexplained DEF Rides
<1>9. LockShape'
  BY <1>1, <1>3, Known, Units DEF LockShape
<1>. QED BY <1>1, <1>2, <1>7, <1>8, <1>9, Rescans DEF TrackInv

LEMMA LockedRides ==
  ASSUME TrackInv, lock.state = "locked", lock.hold = Never, NEW q \in Places, NEW s \in Scans,
         NEW c \in Covers, c.by = "mate", c.stacked = FALSE, RideAt(q, s, c), FrameEnds,
         BudgetLeft, budget' = (IF budget = Never THEN now ELSE budget),
         c.since <= now, budget' <= c.since, c.stackedSince <= now,
         ownAt # Never => ownAt >= c.since - 1 /\ c.stackedSince = Never
  PROVE  TrackInv' /\ Promise!Ride
<1>1. /\ lock' = Moved(lock, q, Never, "none") /\ cover' = c /\ scan' = s
      /\ held' = TRUE /\ ownAt' = ownAt /\ now' = now
      /\ ride' = (IF ride = Never THEN now ELSE ride)
  BY DEF RideAt, Moved, FrameEnds
<1>2. heeded' = TRUE
  BY DEF RideAt, TrackInv
<1>3. /\ lock' \in Locks /\ lock'.state = "locked" /\ lock'.hold = Never /\ lock'.reason = "none"
      /\ lock'.at = q /\ lock'.seen = lock.seen
  BY <1>1, Known, MovedLock, Times
<1>4. framed' = TRUE
  BY <1>3, Framed
<1>5. budget' \in Clock /\ budget' # Never /\ budget' <= now /\ now - budget' <= MaxOccluded
        /\ ride' = budget'
  BY <1>1, Known, Units DEF BudgetLeft, Rides
<1>6. TrackingTypeOK'
  BY <1>1, <1>2, <1>3, <1>4, <1>5, Known, OfTypeNext
<1>7. LockShape'
  BY <1>1, <1>3, Known, Units DEF LockShape
<1>8. Rides'
  BY <1>1, <1>5 DEF Rides
<1>9. Explained'
  BY <1>1, <1>3, <1>4, <1>5, Known, Units DEF Explained, Clean, Lag
<1>10. Promise!Ride
  BY <1>1 DEF Promise!Ride, Promise!NoHold, Never, Moved
<1>. QED BY <1>2, <1>6, <1>7, <1>8, <1>9, <1>10 DEF TrackInv

\* Until its icon was lost, our own was found within the longest explanation.
LEMMA JustLost ==
  ASSUME TrackInv, ownAt # Never, lock.hold = Never, cover.by # "mate"
  PROVE  /\ ownAt <= now
         /\ now - ownAt <= (IF cover.stackedSince # Never THEN MaxStacked ELSE MaxOccluded) + 2
<1>1. cover.by \in {"none", "enemy"} /\ cover.stacked \in BOOLEAN /\ cover.wide \in BOOLEAN
        /\ Lag \in {0, 1}
  BY Known DEF Covers, Lag
<1>2. CASE Clean
  BY <1>1, <1>2, Known, Units DEF Explained
<1>3. CASE cover.by = "enemy"
  BY <1>1, <1>3, Known, Units DEF Explained
<1>4. CASE cover.stacked
  BY <1>1, <1>4, Known, Units DEF Explained
<1>. QED BY <1>1, <1>2, <1>3, <1>4 DEF Clean

LEMMA LockedHolds ==
  ASSUME TrackInv, lock.state = "locked", cover.by # "mate", NEW q \in Places, NEW s \in Scans,
         NEW r \in {"no-match", "no-blobs"}, lock.reason = "no-match" => r = "no-match",
         NEW c \in Covers, c.by = "none", c.stacked = FALSE,
         c.since <= now, c.stackedSince = cover.stackedSince,
         lock' = Moved(lock, q, IF lock.hold = Never THEN now ELSE lock.hold, r),
         held' = TRUE, cover' = c, scan' = s,
         UNCHANGED <<budget, ownAt, ride, heeded>>, FrameEnds
  PROVE  TrackInv' /\ Promise!Hold
<1>1. now' = now /\ ownAt' = ownAt /\ budget' = budget /\ ride' = ride
  BY DEF FrameEnds
<1>2. heeded' = TRUE
  BY DEF TrackInv
<1>3. PICK h \in Clock : h = IF lock.hold = Never THEN now ELSE lock.hold
  BY Known
<1>4. h # Never /\ h <= now
  BY <1>3, Known, Units DEF LockShape
<1>5. /\ lock' \in Locks /\ lock'.state = "locked" /\ lock'.hold = h /\ lock'.reason = r
      /\ lock'.at = q /\ lock'.seen = lock.seen
  BY <1>3, Known, MovedLock
<1>6. framed' = TRUE
  BY <1>5, Framed
<1>7. TrackingTypeOK'
  BY <1>1, <1>2, <1>5, <1>6, Known, OfTypeNext
<1>8. LockShape'
  BY <1>1, <1>4, <1>5, Known DEF LockShape
<1>9. Rides'
  BY <1>1, Known DEF Rides
<1>10. ownAt # Never => h - ownAt <= (IF c.stackedSince # Never THEN MaxStacked ELSE MaxOccluded) + 2
  BY <1>3, Known, JustLost DEF Explained
<1>11. Explained'
  BY <1>1, <1>4, <1>5, <1>10, Known DEF Explained, Clean
<1>12. Promise!Hold
  BY DEF Promise!Hold, Promise!NoHold, Promise!Reasons, Never, Moved
<1>. QED BY <1>2, <1>7, <1>8, <1>9, <1>11, <1>12 DEF TrackInv

\* A lock or a re-acquisition: our icon is found, and nothing is left to explain.
LEMMA LockedAcquires ==
  ASSUME TrackInv, lock.state = "locked", NEW p \in Places, NEW s \in Scans, NEW h \in Clock,
         NEW r \in {"no-match", "no-blobs", "none"},
         \/ h = Never /\ r = "none"
         \/ h = (IF lock.hold = Never THEN now ELSE lock.hold) /\ r \in {"no-match", "no-blobs"},
         Acquire(p, s, h, r), FrameEnds
  PROVE  TrackInv' /\ Promise!See
<1>1. /\ lock' = Promise!Sighted(p, h, r) /\ held' = TRUE /\ cover' = NoCover
      /\ scan' = [s EXCEPT !.aside = {}] /\ ownAt' = now /\ now' = now
      /\ budget' = budget /\ ride' = ride
  BY DEF Acquire, Found, FrameEnds
<1>2. heeded' = TRUE
  BY DEF Acquire, TrackInv
<1>3. /\ lock' \in Locks /\ lock'.state = "locked" /\ lock'.hold = h /\ lock'.reason = r
      /\ lock'.at = p /\ lock'.seen # NoPoint
  BY <1>1, Known, SightedLock
<1>4. framed' = TRUE
  BY <1>3, Framed
<1>5. scan' \in Scans
  BY <1>1 DEF Scans
<1>6. (h = Never <=> r = "none") /\ h <= now /\ h \in Int
  BY Known, Units, Times DEF LockShape
<1>7. TrackingTypeOK'
  BY <1>1, <1>2, <1>3, <1>4, <1>5, Known, Bare, OfTypeNext
<1>8. LockShape'
  BY <1>1, <1>3, <1>6 DEF LockShape
<1>9. Rides'
  BY <1>1, Known, Bare DEF Rides
<1>10. Explained'
  BY <1>1, <1>3, <1>4, <1>6, Bare, Known, Units DEF Explained, Clean, Lag
<1>. QED BY <1>1, <1>2, <1>7, <1>8, <1>9, <1>10, SeesUsHolding DEF TrackInv

LEMMA LockedUnder ==
  ASSUME TrackInv, lock.state = "locked", NEW s \in Scans,
         NEW c \in Covers, c.by = "enemy", c.stacked = FALSE, Under(s, c), FrameEnds,
         c.since <= now, c.stackedSince <= now,
         ownAt # Never => ownAt >= c.since - 1 /\ now - c.since <= MaxOccluded /\ c.stackedSince = Never
  PROVE  TrackInv' /\ Promise!See
<1>1. /\ lock' = SeenAt(lock.at) /\ held' = TRUE /\ cover' = c /\ scan' = s
      /\ budget' = budget /\ ownAt' = ownAt /\ ride' = ride /\ now' = now
  BY DEF Under, FrameEnds
<1>2. heeded' = TRUE
  BY DEF Under, TrackInv
<1>3. PICK p \in Places : p = lock.at
  BY Known DEF LockShape
<1>4. /\ lock' \in Locks /\ lock'.state = "locked" /\ lock'.hold = Never /\ lock'.reason = "none"
      /\ lock'.at = p /\ lock'.seen # NoPoint
  BY <1>1, <1>3, Known, SeenLock
<1>5. framed' = TRUE
  BY <1>4, Framed
<1>6. TrackingTypeOK'
  BY <1>1, <1>2, <1>4, <1>5, Known, OfTypeNext
<1>7. LockShape'
  BY <1>1, <1>4, Known, Units DEF LockShape
<1>8. Rides'
  BY <1>1, Known DEF Rides
<1>9. Explained'
  BY <1>1, <1>4, <1>5, Known, Units DEF Explained, Clean, Lag
<1>. QED BY <1>1, <1>2, <1>3, <1>6, <1>7, <1>8, <1>9, SeesUs DEF TrackInv

\* In a merged blob from now on, or still.
Joined(c, wide) == [c EXCEPT !.stacked = TRUE, !.stackedSince = now, !.wide = wide]
Within(c, wide) == [c EXCEPT !.wide = wide]

LEMMA Covering ==
  ASSUME NEW c \in Covers, NEW b \in BOOLEAN, now \in Clock
  PROVE  /\ Joined(c, b) \in Covers /\ Joined(c, b).by = c.by /\ Joined(c, b).since = c.since
         /\ Joined(c, b).stacked = TRUE /\ Joined(c, b).stackedSince = now /\ Joined(c, b).wide = b
         /\ Within(c, b) \in Covers /\ Within(c, b).by = c.by /\ Within(c, b).since = c.since
         /\ Within(c, b).stacked = c.stacked /\ Within(c, b).stackedSince = c.stackedSince
         /\ Within(c, b).wide = b
BY DEF Covers, Joined, Within

LEMMA LockedMerges ==
  ASSUME TrackInv, lock.state = "locked", NEW s \in Scans, Merged(s, cover), FrameEnds
  PROVE  TrackInv' /\ Promise!See
<1>1. PICK wide \in BOOLEAN, q \in Places :
        LET c1 == IF cover.stacked THEN [cover EXCEPT !.wide = @ \/ wide] ELSE Joined(cover, wide)
        IN /\ cover.stacked \/ (FirstLost /\ cover.stackedSince = Never)
           /\ c1.wide => now - c1.stackedSince <= MaxStacked
           /\ lock' = SeenAt(q)
           /\ held' = TRUE /\ scan' = s
           /\ cover' = [c1 EXCEPT !.by = "none"]
           /\ IF c1.wide THEN UNCHANGED ownAt ELSE Found
           /\ UNCHANGED <<budget, ride, heeded>>
  BY DEF Merged, Joined
<1>2. cover.stacked \in BOOLEAN /\ cover.wide \in BOOLEAN
  BY Known DEF Covers
<1>3. PICK w \in BOOLEAN : w = (cover.wide \/ wide)
  BY <1>2
<1>4. [cover EXCEPT !.wide = @ \/ wide] = Within(cover, w)
  BY <1>3 DEF Within
<1>5. PICK c \in Covers : c = IF cover.stacked THEN Within(cover, w) ELSE Joined(cover, wide)
  BY Known, Covering
<1>6. /\ c.stacked = TRUE /\ c.stackedSince # Never /\ c.stackedSince <= now /\ c.since <= now
      /\ c.stackedSince \in Int /\ c.wide \in BOOLEAN
      /\ ownAt # Never => ownAt >= c.stackedSince - 1
  <2>1. CASE cover.stacked
    <3>1. c = Within(cover, w)
      BY <2>1, <1>5
    <3>2. c.stacked = cover.stacked /\ c.stackedSince = cover.stackedSince /\ c.since = cover.since
            /\ c.wide = w
      BY <3>1, Known, Covering
    <3>. QED BY <2>1, <1>2, <3>2, Known DEF Explained
  <2>2. CASE ~cover.stacked
    <3>1. c = Joined(cover, wide) /\ FirstLost
      BY <2>2, <1>1, <1>5
    <3>2. c.stacked = TRUE /\ c.stackedSince = now /\ c.since = cover.since /\ c.wide = wide
      BY <3>1, Known, Covering
    <3>3. Clean
      BY <3>1, Typed DEF FirstLost, Clean, TrackInv
    <3>. QED BY <3>2, <3>3, Known, Units DEF Explained, Lag
  <2>. QED BY <2>1, <2>2, <1>2
<1>7. /\ c.wide => now - c.stackedSince <= MaxStacked
      /\ lock' = SeenAt(q) /\ held' = TRUE /\ scan' = s /\ cover' = [c EXCEPT !.by = "none"]
      /\ IF c.wide THEN ownAt' = ownAt ELSE ownAt' = now
      /\ budget' = budget /\ ride' = ride /\ now' = now
  <2>. PICK c0 : c0 = IF cover.stacked THEN [cover EXCEPT !.wide = @ \/ wide] ELSE Joined(cover, wide)
    OBVIOUS
  <2>1. c = c0
    BY <1>4, <1>5
  <2>. QED BY <1>1, <2>1 DEF Found, FrameEnds
<1>8. heeded' = TRUE
  BY <1>1 DEF TrackInv
<1>9. /\ cover' \in Covers /\ cover'.by = "none" /\ cover'.stacked = TRUE
      /\ cover'.since = c.since /\ cover'.stackedSince = c.stackedSince /\ cover'.wide = c.wide
  BY <1>6, <1>7 DEF Covers
<1>10. /\ lock' \in Locks /\ lock'.state = "locked" /\ lock'.hold = Never /\ lock'.reason = "none"
       /\ lock'.at = q /\ lock'.seen # NoPoint
  BY <1>7, Known, SeenLock
<1>11. framed' = TRUE
  BY <1>10, Framed
<1>12. TrackingTypeOK'
  BY <1>6, <1>7, <1>8, <1>9, <1>10, <1>11, Known, OfTypeNext
<1>13. LockShape'
  BY <1>7, <1>10, Known, Units DEF LockShape
<1>14. Rides'
  BY <1>7, <1>9, Known DEF Rides
<1>15. Explained'
  BY <1>6, <1>7, <1>9, <1>10, <1>11, Known, Units DEF Explained, Clean, Lag
<1>. QED BY <1>7, <1>8, <1>12, <1>13, <1>14, <1>15, SeesUs DEF TrackInv

LEMMA LockedFollows ==
  ASSUME TrackInv, lock.state = "locked", NEW p \in Places, NEW s \in Scans, Follow(p, s), FrameEnds
  PROVE  TrackInv' /\ Promise!See
<1>1. PICK partly, vouched \in BOOLEAN :
        /\ lock' = SeenAt(p)
        /\ held' = FALSE /\ scan' = s
        /\ cover' = [NoCover EXCEPT !.partly = partly]
        /\ budget' = IF vouched THEN Never ELSE budget
        /\ ride'   = IF vouched THEN Never ELSE ride
        /\ Found
        /\ UNCHANGED heeded
  BY DEF Follow
<1>2. ownAt' = now /\ now' = now /\ heeded' = TRUE
  BY <1>1 DEF Found, FrameEnds, TrackInv
<1>3. PICK bare \in Covers : bare = NoCover
  BY Bare
<1>4. /\ cover' \in Covers /\ cover'.by = "none" /\ cover'.stacked = FALSE
      /\ cover'.since = Never /\ cover'.stackedSince = Never
  <2>1. cover' = [bare EXCEPT !.partly = partly]
    BY <1>1, <1>3
  <2>. QED BY <2>1, <1>3, Bare DEF Covers
<1>5. /\ lock' \in Locks /\ lock'.state = "locked" /\ lock'.hold = Never /\ lock'.reason = "none"
      /\ lock'.at = p /\ lock'.seen # NoPoint
  BY <1>1, Known, SeenLock
<1>6. framed' = TRUE
  BY <1>5, Framed
<1>7. ride' = budget' /\ budget' \in {budget, Never}
  BY <1>1, Known DEF Rides
<1>8. TrackingTypeOK'
  BY <1>1, <1>2, <1>4, <1>5, <1>6, <1>7, Known, Times, OfTypeNext
<1>9. LockShape'
  BY <1>2, <1>5, Known, Units DEF LockShape
<1>10. Rides'
  BY <1>2, <1>4, <1>7, Known, Units DEF Rides
<1>11. Explained'
  BY <1>2, <1>4, <1>5, <1>6, Known, Units DEF Explained, Clean, Lag
<1>. QED BY <1>1, <1>2, <1>8, <1>9, <1>10, <1>11, SeesUs DEF TrackInv

\* A cover that begins, one whose icon is seen again, and one given up.
Begun(c, by)       == [c EXCEPT !.by = by, !.since = now, !.seen = now]
BegunByCamera(c)   == [c EXCEPT !.by = "mate", !.since = now, !.seen = now, !.cam = now]
SeenOn(c)          == [c EXCEPT !.seen = now]
SeenFrom(c, cam)   == [c EXCEPT !.seen = now, !.cam = cam]
Bared(c)           == [c EXCEPT !.by = "none"]
Unstacked(c)       == [c EXCEPT !.stacked = FALSE]

LEMMA Covers1 ==
  ASSUME NEW c \in Covers, now \in Clock, NEW cam \in Clock
  PROVE  /\ Begun(c, "enemy") \in Covers /\ Begun(c, "enemy").by = "enemy"
         /\ Begun(c, "enemy").since = now /\ Begun(c, "enemy").stacked = c.stacked
         /\ Begun(c, "enemy").stackedSince = c.stackedSince
         /\ BegunByCamera(c) \in Covers /\ BegunByCamera(c).by = "mate"
         /\ BegunByCamera(c).since = now /\ BegunByCamera(c).stacked = c.stacked
         /\ BegunByCamera(c).stackedSince = c.stackedSince
BY DEF Covers, Begun, BegunByCamera

LEMMA Covers2 ==
  ASSUME NEW c \in Covers, now \in Clock, NEW cam \in Clock
  PROVE  /\ SeenOn(c) \in Covers /\ SeenOn(c).by = c.by /\ SeenOn(c).since = c.since
         /\ SeenOn(c).stacked = c.stacked /\ SeenOn(c).stackedSince = c.stackedSince
         /\ SeenFrom(c, cam) \in Covers /\ SeenFrom(c, cam).by = c.by
              /\ SeenFrom(c, cam).since = c.since
         /\ SeenFrom(c, cam).stacked = c.stacked /\ SeenFrom(c, cam).stackedSince = c.stackedSince
BY DEF Covers, SeenOn, SeenFrom

LEMMA Covers3 ==
  ASSUME NEW c \in Covers
  PROVE  /\ Bared(c) \in Covers /\ Bared(c).by = "none" /\ Bared(c).since = c.since
         /\ Bared(c).stacked = c.stacked /\ Bared(c).stackedSince = c.stackedSince
         /\ Unstacked(c) \in Covers /\ Unstacked(c).by = c.by /\ Unstacked(c).since = c.since
         /\ Unstacked(c).stacked = FALSE /\ Unstacked(c).stackedSince = c.stackedSince
         /\ Unstacked(c).partly = c.partly
BY DEF Covers, Bared, Unstacked

\* Moves of the lock that the invariant and the promise survive.
Keeps == TrackInv' /\ Promise!Move

LEMMA LockPlace ==
  ASSUME TrackInv, lock.state = "locked"
  PROVE  lock.at \in Places /\ lock.at \in Places \cup {NoPlace}
BY Known DEF LockShape

LEMMA GivesUp ==
  ASSUME TrackInv, lock.state = "locked", HoldTooLong, NEW teal \in SUBSET Places, NEW s \in Scans,
         GiveUp(teal, s), FrameEnds
  PROVE  Keeps
<1>1. PICK near \in SUBSET teal : ScanNear(lock.at, s, s.aside \cup near) /\ UNCHANGED budget
  BY DEF GiveUp
<1>2. PICK aside \in SUBSET Places : aside = s.aside \cup near
  <2>1. s.aside \in SUBSET Places
    BY DEF Scans
  <2>. QED BY <2>1
<1>3. PICK p \in Places \cup {NoPlace} : p = lock.at
  BY LockPlace
<1>4. ScanNear(p, s, aside) /\ UNCHANGED budget
  BY <1>1, <1>2, <1>3
<1>5. lock.hold = Never \/ now - lock.hold >= ForcedHold
  BY DEF HoldTooLong
<1>. QED BY <1>4, <1>5, LockedScans DEF Keeps, Promise!Move

LEMMA DropsTeammate ==
  ASSUME TrackInv, lock.state = "locked", lock.hold = Never, NEW s \in Scans,
         DropTeammate(s), FrameEnds
  PROVE  Keeps
<1>1. PICK p \in Places \cup {NoPlace} : p = lock.at
  BY LockPlace
<1>2. PICK aside \in SUBSET Places : aside = s.aside
  BY DEF Scans
<1>3. ScanNear(p, s, aside) /\ UNCHANGED budget
  BY <1>1, <1>2 DEF DropTeammate
<1>. QED BY <1>3, LockedScans DEF Keeps, Promise!Move

LEMMA MeetsTeammate ==
  ASSUME TrackInv, lock.state = "locked", Clean, NEW s \in Scans, OnTeammate(s), FrameEnds
  PROVE  Keeps
<1>1. PICK centred \in BOOLEAN :
        IF centred /\ BudgetLeft
          THEN /\ RideAt(lock.at, s, BegunByCamera(cover))
               /\ budget' = IF budget = Never THEN now ELSE budget
          ELSE DropTeammate(s)
  BY DEF OnTeammate, BegunByCamera
<1>2. CASE centred /\ BudgetLeft
  <2>1. PICK c \in Covers : c = BegunByCamera(cover)
    BY Known, Covers1
  <2>2. c.by = "mate" /\ c.since = now /\ c.stacked = FALSE /\ c.stackedSince = cover.stackedSince
    BY <2>1, Known, Covers1 DEF Clean, Covers
  <2>3. PICK q \in Places : q = lock.at
    BY LockPlace
  <2>4. RideAt(q, s, c) /\ budget' = (IF budget = Never THEN now ELSE budget)
    BY <1>1, <1>2, <2>1, <2>3
  <2>5. /\ lock.hold = Never /\ c.since <= now /\ budget' <= c.since /\ c.stackedSince <= now
        /\ ownAt # Never => ownAt >= c.since - 1 /\ c.stackedSince = Never
    BY <2>2, <2>4, Known, Units DEF Clean, Explained, Lag, Rides
  <2>. QED BY <1>2, <2>2, <2>4, <2>5, LockedRides DEF Keeps, Promise!Move
<1>3. CASE ~(centred /\ BudgetLeft)
  BY <1>1, <1>3, DropsTeammate DEF Clean
<1>. QED BY <1>2, <1>3

LEMMA RidesOn ==
  ASSUME TrackInv, lock.state = "locked", cover.by = "mate", NEW teal \in SUBSET Places, NEW s \in Scans,
         RideOn(teal, s), FrameEnds
  PROVE  Keeps
<1>1. /\ lock.hold = Never /\ cover.stacked = FALSE
      /\ budget # Never /\ budget <= cover.since /\ cover.since <= now /\ cover.stackedSince <= now
      /\ ownAt # Never => ownAt >= cover.since - 1 /\ cover.stackedSince = Never
  BY Typed, Known DEF TrackInv, Rides, Explained, Covers
<1>2. CASE DropTeammate(s)
  BY <1>1, <1>2, DropsTeammate
<1>3. ASSUME NEW q \in Places, NEW c \in Covers, RideAt(q, s, c), BudgetLeft, UNCHANGED budget,
             c.by = cover.by, c.since = cover.since, c.stacked = cover.stacked,
             c.stackedSince = cover.stackedSince
      PROVE  Keeps
  <2>1. budget' = (IF budget = Never THEN now ELSE budget)
    BY <1>1, <1>3
  <2>. QED BY <1>1, <1>3, <2>1, LockedRides DEF Keeps, Promise!Move
<1>4. CASE /\ BudgetLeft /\ UNCHANGED budget
           /\ \E q \in Places \ teal, read \in BOOLEAN :
                /\ read \/ now - cover.cam <= Grace
                /\ RideAt(q, s, [cover EXCEPT !.seen = now, !.cam = IF read THEN now ELSE @])
  <2>1. PICK q \in Places, read \in BOOLEAN :
           RideAt(q, s, [cover EXCEPT !.seen = now, !.cam = IF read THEN now ELSE @])
    BY <1>4
  <2>2. PICK cam \in Clock : cam = IF read THEN now ELSE cover.cam
    BY Known DEF Covers
  <2>3. [cover EXCEPT !.seen = now, !.cam = IF read THEN now ELSE @] = SeenFrom(cover, cam)
    BY <2>2 DEF SeenFrom
  <2>4. PICK c \in Covers : c = SeenFrom(cover, cam)
    BY Known, Covers2
  <2>5. c.by = cover.by /\ c.since = cover.since /\ c.stacked = cover.stacked
        /\ c.stackedSince = cover.stackedSince
    BY <2>4, Known, Covers2
  <2>. QED BY <1>3, <1>4, <2>1, <2>3, <2>4, <2>5
<1>5. CASE BudgetLeft /\ UNCHANGED budget /\ RideAt(lock.at, s, cover)
  <2>1. PICK c \in Covers, q \in Places : c = cover /\ q = lock.at
    BY Known, LockPlace
  <2>. QED BY <1>3, <1>5, <2>1
<1>. QED BY <1>2, <1>4, <1>5 DEF RideOn

\* Our icon is lost.
LEMMA Loses ==
  ASSUME TrackInv, lock.state = "locked", cover.by # "mate", NEW teal \in SUBSET Places,
         NEW s \in Scans, NEW c \in Covers, c.by = "none", c.stacked = FALSE,
         c.since <= now, c.stackedSince = cover.stackedSince, Lose(teal, s, c), FrameEnds
  PROVE  Keeps
<1>1. PICK h \in Clock : h = IF lock.hold = Never THEN now ELSE lock.hold
  BY Known
<1>2. CASE \E p \in teal : Acquire(p, s, h, "no-match")
  <2>1. PICK p \in Places : Acquire(p, s, h, "no-match")
    BY <1>2
  <2>. QED BY <1>1, <2>1, LockedAcquires DEF Keeps, Promise!Move
<1>3. CASE \E q \in Places, reason \in Promise!Reasons :
             /\ teal # {} \/ lock.reason = "no-match" => reason = "no-match"
             /\ lock' = [lock EXCEPT !.at = q, !.hold = h, !.reason = reason]
             /\ held' = TRUE /\ cover' = c /\ scan' = s
             /\ UNCHANGED <<budget, ownAt, ride, heeded>>
  <2>1. PICK q \in Places, reason \in {"no-match", "no-blobs"} :
             /\ teal # {} \/ lock.reason = "no-match" => reason = "no-match"
             /\ lock' = [lock EXCEPT !.at = q, !.hold = h, !.reason = reason]
             /\ held' = TRUE /\ cover' = c /\ scan' = s
             /\ UNCHANGED <<budget, ownAt, ride, heeded>>
    BY <1>3 DEF Promise!Reasons
  <2>2. lock' = Moved(lock, q, IF lock.hold = Never THEN now ELSE lock.hold, reason)
    BY <1>1, <2>1 DEF Moved
  <2>. QED BY <2>1, <2>2, LockedHolds DEF Keeps, Promise!Move
<1>4. Lose(teal, s, c) <=> \/ \E p \in teal : Acquire(p, s, h, "no-match")
                          \/ \E q \in Places, reason \in Promise!Reasons :
                               /\ teal # {} \/ lock.reason = "no-match" => reason = "no-match"
                               /\ lock' = [lock EXCEPT !.at = q, !.hold = h, !.reason = reason]
                               /\ held' = TRUE /\ cover' = c /\ scan' = s
                               /\ UNCHANGED <<budget, ownAt, ride, heeded>>
  BY <1>1 DEF Lose
<1>. QED BY <1>2, <1>3, <1>4

\* Nothing of ours is in sight, and no merged blob.
LEMMA IsCovered ==
  ASSUME TrackInv, lock.state = "locked", NEW teal \in SUBSET Places, NEW s \in Scans,
         NEW c \in Covers, c = Unstacked(cover), Covered(teal, s, c), FrameEnds
  PROVE  Keeps
<1>1. /\ c.by = cover.by /\ c.since = cover.since /\ c.stacked = FALSE /\ c.partly = cover.partly
      /\ c.stackedSince = cover.stackedSince /\ c.since <= now /\ c.stackedSince <= now
  BY Known, Covers3 DEF Explained
<1>2. CASE c.by = "none" /\ Lose(teal, s, c)
  BY <1>1, <1>2, Loses
<1>3. CASE CoverStarts(c) /\ Under(s, Begun(c, "enemy"))
  <2>1. PICK e \in Covers : e = Begun(c, "enemy")
    BY Known, Covers1
  <2>2. e.by = "enemy" /\ e.since = now /\ e.stacked = FALSE /\ e.stackedSince = cover.stackedSince
    BY <1>1, <2>1, Known, Covers1
  <2>3. Clean
    BY <1>3, Typed DEF CoverStarts, FirstLost, Clean, TrackInv
  <2>4. ownAt # Never => ownAt >= e.since - 1 /\ now - e.since <= MaxOccluded /\ e.stackedSince = Never
    BY <2>2, <2>3, Known, Units DEF Explained, Lag
  <2>5. Under(s, e) /\ e.since <= now /\ e.stackedSince <= now
    BY <1>1, <1>3, <2>1, <2>2, Known
  <2>. QED BY <2>2, <2>4, <2>5, LockedUnder DEF Keeps, Promise!Move
<1>4. ASSUME c.by = "enemy", now - c.since <= MaxOccluded, NEW e \in Covers, Under(s, e),
             e.by = c.by, e.since = c.since, e.stacked = c.stacked, e.stackedSince = c.stackedSince
      PROVE  Keeps
  <2>1. ownAt # Never => ownAt >= e.since - 1 /\ now - e.since <= MaxOccluded /\ e.stackedSince = Never
    BY <1>1, <1>4, Known DEF Explained
  <2>2. e.by = "enemy" /\ e.stacked = FALSE /\ e.since <= now /\ e.stackedSince <= now
    BY <1>1, <1>4
  <2>. QED BY <1>4, <2>1, <2>2, LockedUnder DEF Keeps, Promise!Move
<1>5. CASE c.by = "enemy" /\ Lose(teal, s, Bared(c))
  <2>1. PICK e \in Covers : e = Bared(c)
    BY Covers3
  <2>2. e.by = "none" /\ e.stacked = FALSE /\ e.since <= now /\ e.stackedSince = cover.stackedSince
    BY <1>1, <2>1, Covers3
  <2>. QED BY <1>1, <1>5, <2>1, <2>2, Loses
<1>6. CASE c.by = "enemy" /\ now - c.since <= MaxOccluded /\ Under(s, SeenOn(c))
  <2>1. PICK e \in Covers : e = SeenOn(c)
    BY Known, Covers2
  <2>2. e.by = c.by /\ e.since = c.since /\ e.stacked = c.stacked /\ e.stackedSince = c.stackedSince
    BY <2>1, Known, Covers2
  <2>. QED BY <1>4, <1>6, <2>1, <2>2
<1>7. CASE c.by = "enemy" /\ now - c.since <= MaxOccluded /\ Under(s, c)
  BY <1>4, <1>7
<1>8. CASE c.by = "mate" /\ RideOn(teal, s)
  BY <1>1, <1>8, RidesOn
<1>. QED BY <1>2, <1>3, <1>5, <1>6, <1>7, <1>8 DEF Covered, Begun, SeenOn, Bared

\* One step of the tracker while it has us.
LEMMA LockedStep ==
  ASSUME TrackInv, lock.state = "locked", NEW teal \in SUBSET Places, NEW s \in Scans,
         LockedFrame(teal, s), FrameEnds
  PROVE  Keeps
<1>1. CASE HoldTooLong /\ GiveUp(teal, s)
  BY <1>1, GivesUp
<1>2. CASE ~HoldTooLong /\ Clean /\ lock.at \notin teal /\ OnTeammate(s)
  BY <1>2, MeetsTeammate
<1>3. CASE \E p \in teal : Acquire(p, s, lock.hold, lock.reason)
  <2>1. PICK p \in Places, h \in Clock, r \in {"no-match", "no-blobs", "none"} :
          h = lock.hold /\ r = lock.reason /\ Acquire(p, s, h, r)
    BY <1>3, Known DEF Locks
  <2>2. \/ h = Never /\ r = "none"
        \/ h = (IF lock.hold = Never THEN now ELSE lock.hold) /\ r \in {"no-match", "no-blobs"}
    BY <2>1, Known DEF LockShape
  <2>. QED BY <2>1, <2>2, LockedAcquires DEF Keeps, Promise!Move
<1>4. CASE Merged(s, cover)
  BY <1>4, LockedMerges DEF Keeps, Promise!Move
<1>5. CASE \E left \in Apart(teal, s) :
             \/ \E p \in left.ours : Follow(p, left.scan)
             \/ lock.at \notin left.ours
                /\ Covered(left.ours, left.scan, [cover EXCEPT !.stacked = FALSE])
  <2>1. PICK left \in Apart(teal, s) :
             \/ \E p \in left.ours : Follow(p, left.scan)
             \/ Covered(left.ours, left.scan, Unstacked(cover))
    BY <1>5 DEF Unstacked
  <2>2. left.ours \in SUBSET Places /\ left.scan \in Scans
    <3>1. CASE left = [ours |-> teal, scan |-> s]
      BY <3>1
    <3>2. ASSUME NEW p \in teal, left = [ours |-> teal \ {p}, scan |-> [s EXCEPT !.aside = @ \cup {p}]]
          PROVE  left.ours \in SUBSET Places /\ left.scan \in Scans
      <4>1. [s EXCEPT !.aside = @ \cup {p}] \in Scans
        BY DEF Scans
      <4>. QED BY <3>2, <4>1
    <3>. QED BY <3>1, <3>2, <2>1 DEF Apart
  <2>3. PICK ours \in SUBSET Places, after \in Scans, c \in Covers :
          ours = left.ours /\ after = left.scan /\ c = Unstacked(cover)
    BY <2>2, Known, Covers3
  <2>4. CASE \E p \in ours : Follow(p, after)
    <3>1. PICK p \in Places : Follow(p, after)
      BY <2>4
    <3>. QED BY <3>1, LockedFollows DEF Keeps, Promise!Move
  <2>5. CASE Covered(ours, after, c)
    BY <2>3, <2>5, IsCovered
  <2>. QED BY <2>1, <2>3, <2>4, <2>5
<1>. QED BY <1>1, <1>2, <1>3, <1>4, <1>5 DEF LockedFrame

-----------------------------------------------------------------------------
(* The icon the user reset away from is taken back only for a reason.       *)

LEMMA Looks ==
  ASSUME TrackInv, lock.state = "scanning", NEW cand \in SUBSET Places, NEW cleared \in BOOLEAN,
         NEW s \in Scans, NEW ruledOut \in BOOLEAN, Look(cand, cleared, s, ruledOut), FrameEnds,
         s.byReset /\ s.avoid \in cand => cleared \/ cand = {s.avoid}
  PROVE  TrackInv' /\ (Promise!Move \/ UNCHANGED lock)
<1>1. now' = now /\ framed' = (lock'.state = "locked")
  BY DEF FrameEnds
<1>2. CASE KeepScanning(s)
  BY <1>1, <1>2, KeepScanningStep
<1>3. ASSUME NEW p \in cand, LockOn(p, cand, cleared, s) PROVE TrackInv' /\ Promise!Move
  <2>1. s.byReset /\ p = s.avoid => cleared \/ cand = {p}
    OBVIOUS
  <2>. QED BY <1>1, <1>3, <2>1, LockOnStep DEF Promise!Move
<1>. QED BY <1>2, <1>3 DEF Look, ByCamera, ByScore

LEMMA ScanningStep ==
  ASSUME TrackInv, lock.state = "scanning", NEW teal \in SUBSET Places, NEW s \in Scans,
         ScanningFrame(teal, s), FrameEnds
  PROVE  TrackInv' /\ (Promise!Move \/ UNCHANGED lock)
<1>. DEFINE Goal == TrackInv' /\ (Promise!Move \/ UNCHANGED lock)
<1>1. CASE KeepScanning(s)
  BY <1>1, KeepScanningStep DEF FrameEnds
<1>2. CASE ~SteersAway(s) /\ Look(teal, FALSE, s, FALSE)
  <2>1. s.byReset /\ s.avoid \in teal => teal = {s.avoid}
    BY <1>2, Units DEF SteersAway
  <2>. QED BY <1>2, <2>1, Looks
<1>3. CASE Look(teal, FALSE, [s EXCEPT !.avoid = NoPlace], FALSE)
  <2>1. PICK free \in Scans : free = [s EXCEPT !.avoid = NoPlace]
    BY DEF Scans
  <2>2. free.avoid \notin teal
    BY <2>1, Units DEF Scans
  <2>. QED BY <1>3, <2>1, <2>2, Looks
<1>4. ASSUME NEW cleared \in BOOLEAN, teal # {},
             LET others == IF cleared THEN teal ELSE teal \ {s.avoid}
             IN IF others \in {{}, teal} THEN Look(teal, cleared, s, FALSE)
                                         ELSE Look(others, cleared, s, TRUE)
      PROVE  Goal
  <2>1. PICK others \in SUBSET Places : others = IF cleared THEN teal ELSE teal \ {s.avoid}
    OBVIOUS
  <2>2. CASE others \in {{}, teal} /\ Look(teal, cleared, s, FALSE)
    <3>1. s.byReset /\ s.avoid \in teal => cleared \/ teal = {s.avoid}
      BY <1>4, <2>1, <2>2
    <3>. QED BY <2>2, <3>1, Looks
  <2>3. CASE others \notin {{}, teal} /\ Look(others, cleared, s, TRUE)
    <3>1. s.byReset /\ s.avoid \in others => cleared \/ others = {s.avoid}
      BY <2>1, <2>3
    <3>. QED BY <2>3, <3>1, Looks
  <2>. QED BY <1>4, <2>1, <2>2, <2>3
<1>. QED BY <1>1, <1>2, <1>3, <1>4 DEF ScanningFrame

LEMMA FrameStep ==
  ASSUME TrackInv, Frame
  PROVE  TrackInv' /\ now' = now /\ (Promise!Move \/ UNCHANGED lock)
<1>1. PICK aside \in Asides :
        \/ /\ lock.state = "scanning"
           /\ \E teal \in SUBSET (Places \ aside) : ScanningFrame(teal, [scan EXCEPT !.aside = aside])
        \/ /\ lock.state = "locked"
           /\ \E teal \in SUBSET (Places \ aside) : LockedFrame(teal, [scan EXCEPT !.aside = aside])
  BY DEF Frame
<1>2. FrameEnds
  BY DEF Frame, FrameEnds
<1>3. PICK s \in Scans : s = [scan EXCEPT !.aside = aside]
  BY Known DEF Asides, Scans
<1>4. ASSUME lock.state = "scanning", NEW teal \in SUBSET Places, ScanningFrame(teal, s)
      PROVE  TrackInv' /\ (Promise!Move \/ UNCHANGED lock)
  BY <1>2, <1>4, ScanningStep
<1>5. ASSUME lock.state = "locked", NEW teal \in SUBSET Places, LockedFrame(teal, s)
      PROVE  TrackInv' /\ Promise!Move
  BY <1>2, <1>5, LockedStep DEF Keeps
<1>6. SUBSET (Places \ aside) \subseteq SUBSET Places
  OBVIOUS
<1>. QED BY <1>1, <1>2, <1>3, <1>4, <1>5, <1>6 DEF FrameEnds

-----------------------------------------------------------------------------
(* What the orchestrator does.                                              *)

LEMMA Forgets ==
  ASSUME TrackInv, NEW l \in Locks, l.hold = Never, l.reason = "none", l.state # "locked",
         NEW s \in Scans, Forget(l, s), ride' = budget', budget' \in {budget, Never}
  PROVE  TrackInv'
<1>1. /\ lock' = l /\ scan' = s /\ cover' = NoCover /\ framed' = FALSE
      /\ held' = FALSE /\ ownAt' = Never /\ now' = now
  BY DEF Forget, Unfound
<1>2. heeded' = TRUE
  BY DEF Forget, TrackInv
<1>3. TrackingTypeOK'
  BY <1>1, <1>2, Known, Bare, Times, OfTypeNext
<1>4. LockShape'
  BY <1>1, Known, Units DEF LockShape
<1>. QED BY <1>1, <1>2, <1>3, <1>4, Unexplained DEF TrackInv

\* Scanning afresh, our last sighting forgotten.
Fresh(l) == [Promise!Scanning(l) EXCEPT !.seen = NoPoint]

LEMMA FreshLock ==
  ASSUME NEW l \in Locks
  PROVE  /\ Fresh(l) \in Locks /\ Fresh(l).state = "scanning"
         /\ Fresh(l).hold = Never /\ Fresh(l).reason = "none"
<1>1. PICK m \in Locks : m = Promise!Scanning(l) /\ m.state = "scanning" /\ m.hold = Never
        /\ m.reason = "none"
  BY ScanningLock
<1>2. Fresh(l) = [m EXCEPT !.seen = NoPoint]
  BY <1>1 DEF Fresh
<1>. QED BY <1>1, <1>2 DEF Locks

LEMMA ResetStep ==
  ASSUME TrackInv, ResetPosition
  PROVE  TrackInv' /\ Promise!ResetPosition /\ now' = now
<1>1. PICK was \in Places \cup {NoPlace} : was = IF lock.state = "locked" THEN lock.at ELSE NoPlace
  BY LockPlace
<1>2. PICK s : s = [from |-> now, lostAt |-> was, byReset |-> was # NoPlace, avoid |-> was,
                    until |-> now + Avoid, aside |-> {}]
  OBVIOUS
<1>3. s \in Scans
  <2>1. now \in -Warmup..MaxNow /\ now + Avoid \in -1..MaxNow + Avoid
    BY Known, Units
  <2>2. PICK b \in BOOLEAN : b = (was # NoPlace)
    OBVIOUS
  <2>3. s = [from |-> now, lostAt |-> was, byReset |-> b, avoid |-> was, until |-> now + Avoid, aside |-> {}]
    BY <1>2, <2>2
  <2>. QED BY <2>1, <2>3 DEF Scans
<1>4. lock.state # "dead" /\ Forget(Fresh(lock), s) /\ budget' = Never /\ ride' = Never
  BY <1>1, <1>2 DEF ResetPosition, Fresh
<1>5. PICK l \in Locks : l = Fresh(lock) /\ l.state = "scanning" /\ l.hold = Never
        /\ l.reason = "none"
  BY Known, FreshLock
<1>6. TrackInv'
  BY <1>3, <1>4, <1>5, Forgets
<1>. QED BY <1>4, <1>6 DEF Promise!ResetPosition, Forget, Fresh

LEMMA FirstScan == NoScan \in Scans
<1>1. -Warmup \in -Warmup..MaxNow /\ Never \in -1..MaxNow + Avoid
  BY Units
<1>. QED BY <1>1 DEF NoScan, Scans

LEMMA SharedResetStep ==
  ASSUME TrackInv, SharedReset
  PROVE  TrackInv' /\ Promise!Rescan /\ now' = now
<1>1. PICK l \in Locks : l = Promise!Scanning(lock) /\ l.state = "scanning" /\ l.hold = Never
        /\ l.reason = "none"
  BY Known, ScanningLock
<1>2. PICK s \in Scans : s = [NoScan EXCEPT !.from = now, !.lostAt = lock.at]
  <2>1. now \in -Warmup..MaxNow /\ Never \in -1..MaxNow + Avoid
    BY Known, Units
  <2>2. PICK n \in Scans : n = NoScan
    BY FirstScan
  <2>3. lock.at \in Places \cup {NoPlace}
    BY Known DEF Locks
  <2>. QED BY <2>1, <2>2, <2>3 DEF Scans
<1>3. Forget(l, s) /\ budget' = budget /\ ride' = ride /\ lock.state = "locked" /\ lock.hold = Never
  BY <1>1, <1>2 DEF SharedReset
<1>4. TrackInv'
  BY <1>1, <1>3, Known, Forgets DEF Rides
<1>. QED BY <1>1, <1>3, <1>4, Rescans DEF Forget

LEMMA DeathStep ==
  ASSUME TrackInv, OnDeath
  PROVE  TrackInv' /\ Promise!OnDeath /\ now' = now
<1>1. PICK at \in Places \cup {NoPlace} : at = IF lock.state = "locked" THEN lock.seen.at ELSE NoPlace
  BY Known DEF LockShape, Locks
<1>2. PICK l : l = [state |-> "dead", hold |-> Never, reason |-> "none", seen |-> lock.seen, at |-> at]
  OBVIOUS
<1>3. l \in Locks /\ l.state = "dead" /\ l.hold = Never /\ l.reason = "none"
  BY <1>2, Known, Times DEF Locks
<1>4. lock.state # "dead" /\ Forget(l, scan) /\ budget' = budget /\ ride' = ride
  BY <1>1, <1>2 DEF OnDeath
<1>5. TrackInv'
  BY <1>3, <1>4, Known, Forgets DEF Rides
<1>6. lock.state = "locked" => lock.seen # NoPoint
  BY Known DEF LockShape
<1>. QED BY <1>1, <1>2, <1>4, <1>5, <1>6 DEF Forget, Promise!OnDeath, Promise!NoHold, Never

LEMMA StartsOver ==
  TrackInv => \E s \in Scans :
          s = [scan EXCEPT !.from = now, !.lostAt = NoPlace, !.byReset = FALSE, !.aside = {}]
<1> SUFFICES ASSUME TrackInv
             PROVE  [scan EXCEPT !.from = now, !.lostAt = NoPlace, !.byReset = FALSE, !.aside = {}] \in Scans
  OBVIOUS
<1>1. now \in -Warmup..MaxNow
  BY Known, Units
<1>. QED BY <1>1, Known DEF Scans

LEMMA RespawnStep ==
  ASSUME TrackInv, OnRespawn
  PROVE  TrackInv' /\ Promise!OnRespawn /\ now' = now
<1>1. lock.state = "dead" /\ lock.hold = Never /\ lock.reason = "none"
  BY Typed, Known DEF OnRespawn, LockShape, TrackInv
<1>2. PICK l : l = [lock EXCEPT !.state = "scanning", !.seen = NoPoint]
  OBVIOUS
<1>3. l \in Locks /\ l.state = "scanning" /\ l.hold = Never /\ l.reason = "none"
  BY <1>1, <1>2, Known DEF Locks
<1>4. PICK s \in Scans : s = [scan EXCEPT !.from = now, !.lostAt = NoPlace, !.byReset = FALSE, !.aside = {}]
  BY StartsOver
<1>5. Forget(l, s) /\ budget' = Never /\ ride' = Never
  BY <1>2, <1>4 DEF OnRespawn
<1>6. TrackInv'
  BY <1>3, <1>5, Forgets
<1>. QED BY <1>1, <1>2, <1>5, <1>6 DEF Forget, Promise!OnRespawn

LEMMA RegionStep ==
  ASSUME TrackInv, NewRegion
  PROVE  TrackInv' /\ Promise!NewRegion /\ now' = now
<1>1. PICK l \in Locks : l = Fresh(lock) /\ l.state = "scanning" /\ l.hold = Never
        /\ l.reason = "none"
  BY Known, FreshLock
<1>2. PICK s \in Scans : s = [scan EXCEPT !.from = now, !.lostAt = NoPlace, !.byReset = FALSE, !.aside = {}]
  BY StartsOver
<1>3. Forget(l, s) /\ budget' = budget /\ ride' = ride
  BY <1>1, <1>2 DEF NewRegion, Fresh
<1>4. TrackInv'
  BY <1>1, <1>3, Known, Forgets DEF Rides
<1>. QED BY <1>1, <1>3, <1>4 DEF Forget, Promise!NewRegion, Fresh

LEMMA RestartStep ==
  ASSUME TrackInv, Restart
  PROVE  TrackInv' /\ Promise!Restart /\ now' = now
<1>1. /\ lock' = [lock EXCEPT !.hold = Never, !.reason = "none"] /\ ownAt' = Never
      /\ scan' = [scan EXCEPT !.from = now]
      /\ now' = now /\ held' = held /\ cover' = cover /\ budget' = budget /\ framed' = framed
      /\ ride' = ride
  BY DEF Restart
<1>2. heeded' = TRUE
  BY DEF Restart, TrackInv
<1>3. /\ lock' \in Locks /\ lock'.hold = Never /\ lock'.reason = "none"
      /\ lock'.state = lock.state /\ lock'.at = lock.at /\ lock'.seen = lock.seen
  BY <1>1, Known, Times DEF Locks
<1>4. scan' \in Scans
  <2>1. now \in -Warmup..MaxNow
    BY Known, Units
  <2>. QED BY <1>1, <2>1, Known DEF Scans
<1>5. TrackingTypeOK'
  BY <1>1, <1>2, <1>3, <1>4, Known, Typed, Times, OfTypeNext DEF TrackInv
<1>6. LockShape'
  BY <1>1, <1>3, Known, Units DEF LockShape
<1>7. Rides'
  BY <1>1, Known DEF Rides
<1>8. Explained'
  BY <1>1, Known DEF Explained
<1>. QED BY <1>1, <1>2, <1>5, <1>6, <1>7, <1>8 DEF TrackInv, Promise!Restart, Promise!NoHold, Never

LEMMA PassStep ==
  ASSUME TrackInv, Pass
  PROVE  TrackInv' /\ Promise!Pass /\ lock' = lock
<1>1. /\ now < MaxNow /\ now' = now + 1 /\ framed' = FALSE
      /\ ownAt' = (IF framed THEN ownAt ELSE Never)
      /\ lock' = lock /\ held' = held /\ cover' = cover /\ budget' = budget /\ scan' = scan
      /\ ride' = ride
  BY DEF Pass
<1>2. heeded' = TRUE
  BY DEF Pass, TrackInv
<1>3. now' \in 0..MaxNow /\ ownAt' \in Clock
  BY <1>1, Known, Times, Units
<1>4. TrackingTypeOK'
  BY <1>1, <1>2, <1>3, Known, Typed, OfTypeNext DEF TrackInv
<1>5. LockShape'
  BY <1>1, Known DEF LockShape
<1>6. Rides'
  BY <1>1, Known DEF Rides
<1>7. Explained'
  BY <1>1, Known, Units DEF Explained, Clean, Lag
<1>. QED BY <1>1, <1>2, <1>4, <1>5, <1>6, <1>7 DEF TrackInv, Promise!Pass

-----------------------------------------------------------------------------
(* Theorems.                                                                *)

LEMMA TrackStarts == Init => TrackInv /\ Promise!PromiseInit
<1> SUFFICES ASSUME Init PROVE TrackInv /\ Promise!PromiseInit
  OBVIOUS
<1>1. /\ now = 0 /\ held = FALSE /\ cover = NoCover /\ budget = Never /\ scan = NoScan
      /\ framed = FALSE /\ ownAt = Never /\ ride = Never /\ heeded = TRUE
      /\ lock = [state |-> "scanning", at |-> NoPlace, hold |-> Never, reason |-> "none", seen |-> NoPoint]
  BY DEF Init, Promise!FreshTracker, Promise!NoHold, Never
<1>2. lock \in Locks /\ now \in 0..MaxNow
  BY <1>1, Times, Units DEF Locks
<1>3. TrackingTypeOK
  BY <1>1, <1>2, Bare, Times, FirstScan
     DEF TrackingTypeOK, Locks, Covers, Scans, Promise!Reasons, Promise!Sighting, Promise!Times
<1>4. LockShape
  BY <1>1, Units DEF LockShape
<1>5. Rides /\ Explained
  BY <1>1, Bare, Units DEF Rides, Explained
<1>. QED BY <1>1, <1>3, <1>4, <1>5 DEF TrackInv, Init, Promise!PromiseInit

LEMMA TrackStep ==
  TrackInv /\ [Next]_vars => TrackInv' /\ [Promise!PromiseNext]_<<now, lock>>
<1> SUFFICES ASSUME TrackInv, [Next]_vars
             PROVE  TrackInv' /\ [Promise!PromiseNext]_<<now, lock>>
  OBVIOUS
<1>1. CASE Frame
  BY <1>1, FrameStep DEF Promise!PromiseNext
<1>2. CASE ResetPosition
  BY <1>2, ResetStep DEF Promise!PromiseNext, Promise!Move
<1>3. CASE SharedReset
  BY <1>3, SharedResetStep DEF Promise!PromiseNext, Promise!Move
<1>4. CASE OnDeath
  BY <1>4, DeathStep DEF Promise!PromiseNext, Promise!Move
<1>5. CASE OnRespawn
  BY <1>5, RespawnStep DEF Promise!PromiseNext, Promise!Move
<1>6. CASE NewRegion
  BY <1>6, RegionStep DEF Promise!PromiseNext, Promise!Move
<1>7. CASE Restart
  BY <1>7, RestartStep DEF Promise!PromiseNext, Promise!Move
<1>8. CASE Pass
  BY <1>8, PassStep DEF Promise!PromiseNext
<1>9. CASE UNCHANGED vars
  <2>1. TrackInv'
    BY <1>9 DEF vars, TrackInv, TrackingTypeOK, LockShape, Rides, Explained, Clean, Lag
  <2>. QED BY <1>9, <2>1 DEF vars
<1>. QED BY <1>1, <1>2, <1>3, <1>4, <1>5, <1>6, <1>7, <1>8, <1>9 DEF Next

\* What the invariant comes to, for whoever vouches for the position.
LEMMA RunsOut == TrackInv => OutOfSightIsBounded /\ RidesShareABudget
<1> SUFFICES ASSUME TrackInv PROVE OutOfSightIsBounded /\ RidesShareABudget
  OBVIOUS
<1>1. RidesShareABudget
  BY Known DEF RidesShareABudget, Rides
<1>2. ASSUME Vouched, ownAt # Never
      PROVE  now - ownAt <= (IF cover.stackedSince # Never THEN MaxStacked ELSE MaxOccluded)
               + 2 + DisownAfter[IF lock.reason = "none" THEN "no-match" ELSE lock.reason]
  <2>1. PICK most \in Nat : most = IF cover.stackedSince # Never THEN MaxStacked ELSE MaxOccluded
    BY Units
  <2>2. PICK more \in Nat : more = DisownAfter[IF lock.reason = "none" THEN "no-match" ELSE lock.reason]
    BY Known, Units DEF Locks
  <2>3. CASE lock.hold # Never
    <3>1. lock.hold - ownAt <= most + 2
      BY <1>2, <2>1, <2>3, Known DEF Explained
    <3>2. lock.reason # "none" /\ now - lock.hold <= more
      BY <1>2, <2>2, <2>3, Known DEF LockShape, Vouched
    <3>. QED BY <2>1, <2>2, <3>1, <3>2, Known
  <2>4. CASE lock.hold = Never /\ cover.by # "mate"
    <3>1. now - ownAt <= most + 2
      BY <1>2, <2>1, <2>4, JustLost
    <3>. QED BY <2>1, <2>2, <3>1, Known
  <2>5. CASE cover.by = "mate"
    <3>1. ownAt >= cover.since - 1 /\ now - budget <= MaxOccluded + Lag
            /\ cover.stackedSince = Never
          /\ budget <= cover.since
      BY <1>2, <2>5, Known DEF Explained, Rides
    <3>2. most = MaxOccluded /\ Lag \in {0, 1}
      BY <2>1, <3>1 DEF Lag
    <3>. QED BY <2>1, <2>2, <3>1, <3>2, Known, Units
  <2>. QED BY <2>3, <2>4, <2>5
<1>. QED BY <1>1, <1>2 DEF OutOfSightIsBounded

\* For how long our position is vouched for without our icon, whatever explanations
\* (an enemy's icon on ours, a teammate's, a merged blob, a hold) follow one another
\* in handleLocked.
THEOREM ExplanationsDoNotAddUp == Spec => []ExplanationsRunOut
<1>1. TrackInv => ExplanationsRunOut
  BY RunsOut DEF TrackInv, ExplanationsRunOut
<1>. QED BY <1>1, TrackStarts, TrackStep, PTL DEF Spec

\* The icon the user reset away from, as long as it stands still, is taken back by
\* handleScanning only if the classifier vouches for it or no other is in view.
THEOREM ResetsAreHeeded == Spec => []ResetIsHeeded
<1>1. TrackInv => ResetIsHeeded
  BY DEF TrackInv, ResetIsHeeded
<1>. QED BY <1>1, TrackStarts, TrackStep, PTL DEF Spec

\* Frame by frame and call by call, the tracker does what the position tick is
\* written against: every step of it is one of the promise's, or none.
THEOREM TrackerKeepsItsPromise == Spec => KeepsItsPromise
<1>1. Spec => Promise!PromiseInit /\ [][Promise!PromiseNext]_<<now, lock>>
  BY TrackStarts, TrackStep, PTL DEF Spec
<1>. QED BY <1>1 DEF KeepsItsPromise, Promise!PromiseSpec
=============================================================================
